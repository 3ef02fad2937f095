----------------------------- MODULE OdrProofs -----------------------------
(***************************************************************************)
(* Type correctness and the structural invariants of the ODR daemons, for  *)
(* every network, every set of applications and every kind of fault.       *)
(***************************************************************************)
EXTENDS OdrProps, TLAPS

\* The backends tried in turn for a leaf that names none.
USE SMT, Zenon, Z3, SMTT(20)

-----------------------------------------------------------------------------
(* What the proofs use of sequences.  The library's module of theorems on  *)
(* them is left out: all of it would be in the context of every step.      *)

LEMMA SeqElements ==
  ASSUME NEW S, NEW q \in Seq(S)
  PROVE  /\ Len(q) \in Nat /\ DOMAIN q = 1 .. Len(q) /\ q \in [1 .. Len(q) -> S]
         /\ \A i \in 1 .. Len(q) : q[i] \in S
OBVIOUS

LEMMA SeqConcat ==
  ASSUME NEW S, NEW q \in Seq(S), NEW r \in Seq(S)
  PROVE  /\ q \o r \in Seq(S) /\ Len(q \o r) = Len(q) + Len(r)
         /\ \A i \in 1 .. (Len(q) + Len(r)) :
              (q \o r)[i] = IF i <= Len(q) THEN q[i] ELSE r[i - Len(q)]
OBVIOUS

LEMMA SeqPart ==
  ASSUME NEW S, NEW q, NEW i \in Int, NEW j \in Int, \A k \in i .. j : q[k] \in S
  PROVE  /\ SubSeq(q, i, j) \in Seq(S)
         /\ Len(SubSeq(q, i, j)) = IF i <= j THEN j - i + 1 ELSE 0
         /\ \A k \in 1 .. (j - i + 1) : SubSeq(q, i, j)[k] = q[i + k - 1]
OBVIOUS

LEMMA SeqHeadTail ==
  ASSUME NEW S, NEW q \in Seq(S), q # <<>>
  PROVE  /\ Head(q) \in S /\ Tail(q) \in Seq(S) /\ Len(Tail(q)) = Len(q) - 1
         /\ \A i \in 1 .. Len(Tail(q)) : Tail(q)[i] = q[i + 1]
OBVIOUS

LEMMA SeqAppend ==
  ASSUME NEW S, NEW q \in Seq(S), NEW v \in S
  PROVE  /\ Append(q, v) \in Seq(S) /\ Len(Append(q, v)) = Len(q) + 1
         /\ \A i \in 1 .. Len(q) : Append(q, v)[i] = q[i]
         /\ Append(q, v)[Len(q) + 1] = v
OBVIOUS

\* What a server takes from a delivery.
LEMMA DeliveryFields ==
  ASSUME NEW v \in Delivery
  PROVE  v.src_ip \in Node /\ v.src_port \in Int /\ MaxMsg + v.msg \in Nat
BY NumberAssumption DEF Delivery

\* The request a server answers a delivery with.
LEMMA ReplyIsRequest ==
  ASSUME NEW v \in Delivery
  PROVE  [destip |-> v.src_ip, destport |-> v.src_port, msg |-> MaxMsg + v.msg,
          filename |-> ServPath, route_disc_flag |-> 0] \in Request
<1>1. ServPath \in Path
  BY DEF Path
<1> QED
  BY <1>1, DeliveryFields DEF Request

-----------------------------------------------------------------------------
(* The inductive invariant. *)

\* What travels on the wire, what a handler works on, and what is parked.
WireFrame   == {f \in Frame : f.order = "net" /\ f.src_ip # f.dest_ip
                  /\ (f.route_disc_flag = 1 => f.frame_type = "RREQ")}
HostFrame   == {f \in Frame : f.order = "host" /\ f.src_ip # f.dest_ip
                  /\ (f.route_disc_flag = 1 => f.frame_type = "RREQ")}
ParkedFrame == {f \in Frame : f.order = "host" /\ f.route_disc_flag = 0
                  /\ f.src_ip # f.dest_ip /\ f.frame_type \in {"RREP", "DATA"}}

\* The inductive invariant.  Byte order and flags hold of the wire only because
\* they hold of the pending queue, and the other way round.
IInv ==
  /\ TypeOK
  /\ chan \in [Link -> Seq(WireFrame)]
  /\ pending \in [Node -> Seq(ParkedFrame)]
  /\ RoutesUsable
  /\ OneEntryPerDest

-----------------------------------------------------------------------------
(* Links, frames and conversions. *)

\* A link joins two nodes over an interface, and there is one back.
LEMMA LinkFacts ==
  ASSUME NEW l \in Link
  PROVE  /\ l.from \in Node /\ l.to \in Node /\ l.ifno \in Seg
         /\ [from |-> l.to, to |-> l.from, ifno |-> l.ifno] \in Link
BY DEF Link

\* convert_net_host_order brings a frame from the wire into host order.
LEMMA NetToHost ==
  ASSUME NEW f \in WireFrame
  PROVE  convert_net_host_order(f) \in HostFrame
BY DEF WireFrame, HostFrame, Frame, convert_net_host_order, SwapOrder

\* convert_host_net_order brings a frame back into network order.
LEMMA HostToNet ==
  ASSUME NEW f \in HostFrame
  PROVE  convert_host_net_order(f) \in WireFrame
BY DEF WireFrame, HostFrame, Frame, convert_host_net_order, SwapOrder

\* A parked frame may be sent like a received one.
LEMMA ParkedIsHost == ParkedFrame \subseteq HostFrame
BY DEF ParkedFrame, HostFrame

\* construct_odr makes a frame that may go on the wire.
LEMMA ConstructFrame ==
  ASSUME NEW type \in {"RREQ", "RREP", "DATA", "ASENT"}, NEW b \in Nat, NEW h \in Nat,
         NEW flag \in {0, 1}, flag = 1 => type = "RREQ", NEW sp \in Int, NEW dp \in Int,
         NEW dst \in Node, NEW src \in Node, src # dst, NEW payload \in Nat
  PROVE  construct_odr(type, b, h, flag, sp, dp, dst, src, payload) \in WireFrame
BY DEF construct_odr, WireFrame, Frame, NoPayload

\* The queues of a channel after a handler took and sent frames of a set F.
LEMMA SentType ==
  ASSUME NEW F, chan \in [Link -> Seq(F)], NEW in, \A k \in in : chan[k] # <<>>,
         NEW S, NEW out \in [S -> F]
  PROVE  Sent(in, out) \in [Link -> Seq(F)]
<1> SUFFICES ASSUME NEW k \in Link
             PROVE  (LET rest == IF k \in in THEN Tail(chan[k]) ELSE chan[k]
                     IN  IF k \in DOMAIN out THEN Append(rest, out[k]) ELSE rest) \in Seq(F)
  BY DEF Sent
<1> DEFINE rest == IF k \in in THEN Tail(chan[k]) ELSE chan[k]
<1>1. chan[k] \in Seq(F)
  OBVIOUS
<1>2. rest \in Seq(F)
  BY <1>1, SeqHeadTail
<1>3. k \in DOMAIN out => out[k] \in F
  OBVIOUS
<1>4. k \in DOMAIN out => Append(rest, out[k]) \in Seq(F)
  BY <1>2, <1>3, SeqAppend
<1> QED
  BY <1>2, <1>4

\* Transmit leaves wire frames on the wire, whether or not a send fails.
LEMMA TransmitType ==
  ASSUME TypeOK, chan \in [Link -> Seq(WireFrame)], NEW n \in Node,
         NEW in, \A k \in in : chan[k] # <<>>, NEW S, NEW out \in [S -> WireFrame],
         Transmit(n, in, out)
  PROVE  /\ chan' \in [Link -> Seq(WireFrame)]
         /\ up' \in [Node -> BOOLEAN]
         /\ faults' \in Nat
<1>1. CASE chan' = Sent(in, out) /\ UNCHANGED <<up, faults>>
  BY <1>1, SentType, ZenonT(30) DEF TypeOK
<1>2. CASE /\ \E I \in SUBSET Seg :
                chan' = Sent(in, [k \in {j \in DOMAIN out : j.ifno \in I} |-> out[k]])
           /\ up' = [up EXCEPT ![n] = FALSE]
           /\ faults' = faults + 1
  <2>1. PICK I \in SUBSET Seg :
          chan' = Sent(in, [k \in {j \in DOMAIN out : j.ifno \in I} |-> out[k]])
    BY <1>2, ZenonT(30)
  <2> DEFINE T == {j \in DOMAIN out : j.ifno \in I}
  <2>2. [k \in T |-> out[k]] \in [T -> WireFrame]
    OBVIOUS
  <2>3. chan' \in [Link -> Seq(WireFrame)]
    BY <2>1, <2>2, SentType, ZenonT(30)
  <2>4. up' \in [Node -> BOOLEAN]
    BY <1>2, Zenon DEF TypeOK
  <2>5. faults' \in Nat
    BY <1>2 DEF TypeOK
  <2> QED
    BY <2>3, <2>4, <2>5
<1> QED
  BY <1>1, <1>2, ZenonT(30) DEF Transmit

-----------------------------------------------------------------------------
(* Lookups and learning. *)

\* get_r_entry returns an entry of the table for the address asked for, and
\* only without the flag; what it leaves is part of the table.
LEMMA LookupFacts ==
  ASSUME NEW T, NEW dst, NEW flag
  PROVE  /\ \A e \in got_r_entry(T, dst, flag) : e \in T /\ e.destip = dst /\ flag # 1
         /\ after_r_lookup(T, dst, flag) \subseteq T
BY DEF got_r_entry, after_r_lookup

\* The frame a handler works on.
LEMMA RecvdType ==
  ASSUME IInv, NEW l \in Link, Receive(l)
  PROVE  /\ Recvd(l) \in HostFrame
         /\ Recvd(l) \in Frame
<1>1. chan[l] \in Seq(WireFrame) /\ chan[l] # <<>>
  BY DEF IInv, Receive
<1>2. Head(chan[l]) \in WireFrame
  BY <1>1, SeqHeadTail
<1>3. Recvd(l) \in HostFrame
  BY <1>2, NetToHost DEF Recvd
<1> QED
  BY <1>3 DEF HostFrame

\* update_r_entry fills in an entry that leads back over the frame's link.
LEMMA UpdateType ==
  ASSUME NEW l \in Link, NEW f \in Frame
  PROVE  /\ update_r_entry(f, l.ifno, l.from) \in Entry
         /\ unicast(l.to, update_r_entry(f, l.ifno, l.from)) \subseteq Link
<1>1. 0 \in 0 .. StaleParam
  BY NumberAssumption
<1>a. f.src_ip \in Node /\ f.hop_count + 1 \in Nat /\ f.broadcast_id \in Nat
  BY DEF Frame
<1>b. l.from \in Node /\ l.ifno \in Seg
  BY LinkFacts, ZenonT(30)
<1>2. update_r_entry(f, l.ifno, l.from) \in Entry
  BY <1>1, <1>a, <1>b DEF update_r_entry, Entry
<1>3. unicast(l.to, update_r_entry(f, l.ifno, l.from))
        = {[from |-> l.to, to |-> l.from, ifno |-> l.ifno]}
  BY DEF unicast, update_r_entry
<1> QED
  BY <1>2, <1>3, LinkFacts

\* The two lookups of handle_ethernet_msg.
LEMMA EntriesType ==
  ASSUME IInv, NEW l \in Link, Receive(l)
  PROVE  /\ \A e \in DestEntry(l) \cup SrcEntry(l) \cup Kept(l) :
              e \in rtable[l.to] /\ e \in Entry /\ unicast(l.to, e) \subseteq Link
         /\ DestEntry(l) # {} => Recvd(l).route_disc_flag # 1
         /\ \A e \in SrcEntry(l) : e.destip = Recvd(l).src_ip
<1>1. l.to \in Node
  BY LinkFacts, ZenonT(30)
<1>2. \A e \in rtable[l.to] : e \in Entry /\ unicast(l.to, e) \subseteq Link
  BY <1>1 DEF IInv, TypeOK, RoutesUsable
<1>3. Looked(l) \subseteq rtable[l.to]
  BY LookupFacts DEF Looked
<1>4. Kept(l) \subseteq rtable[l.to]
  BY <1>3, LookupFacts DEF Kept
<1>5. \A e \in DestEntry(l) : e \in rtable[l.to] /\ Recvd(l).route_disc_flag # 1
  BY LookupFacts DEF DestEntry
<1>6. \A e \in SrcEntry(l) : e \in rtable[l.to] /\ e.destip = Recvd(l).src_ip
  BY <1>3, LookupFacts DEF SrcEntry
<1> QED
  BY <1>2, <1>4, <1>5, <1>6

\* src_r_entry is an entry for the frame's source, over a link of this node.
LEMMA SrcRouteType ==
  ASSUME IInv, NEW l \in Link, Receive(l)
  PROVE  /\ SrcRoute(l) \in Entry
         /\ unicast(l.to, SrcRoute(l)) \subseteq Link
         /\ SrcRoute(l).destip = Recvd(l).src_ip
<1>1. CASE Updates(l)
  <2>1. SrcRoute(l) = update_r_entry(Recvd(l), l.ifno, l.from)
    BY <1>1 DEF SrcRoute
  <2>2. update_r_entry(Recvd(l), l.ifno, l.from).destip = Recvd(l).src_ip
    BY DEF update_r_entry
  <2> QED
    BY <2>1, <2>2, RecvdType, UpdateType
<1>2. CASE ~Updates(l)
  <2>1. SrcEntry(l) # {}
    BY <1>2 DEF Updates
  <2>2. SrcRoute(l) = CHOOSE e \in SrcEntry(l) : TRUE
    BY <1>2 DEF SrcRoute
  <2>3. SrcRoute(l) \in SrcEntry(l)
    BY <2>1, <2>2
  <2> QED
    BY <2>3, EntriesType
<1> QED
  BY <1>1, <1>2

\* The table after a frame's source was learned: typed, usable, and with one
\* entry for a destination, although insert_r_entry does not look for one.
LEMMA LearnType ==
  ASSUME IInv, NEW l \in Link, Receive(l), Learn(l)
  PROVE  /\ rtable' \in [Node -> SUBSET Entry]
         /\ RoutesUsable'
         /\ OneEntryPerDest'
<1>1. l.to \in Node /\ rtable \in [Node -> SUBSET Entry]
  BY LinkFacts, ZenonT(30) DEF IInv, TypeOK
<1>2. rtable' = [rtable EXCEPT ![l.to] = Learned(l)]
  BY DEF Learn
<1>3. \A e \in Learned(l) : e \in Entry /\ unicast(l.to, e) \subseteq Link
  BY EntriesType, SrcRouteType DEF Learned
<1>4. \A e, g \in Learned(l) : e.destip = g.destip => e = g
  <2>1. \A e, g \in Kept(l) : e.destip = g.destip => e = g
    BY <1>1, EntriesType DEF IInv, OneEntryPerDest
  <2>2. \A e \in Kept(l) \ SrcEntry(l) : e.destip # Recvd(l).src_ip
    BY DEF Kept, SrcEntry, got_r_entry, after_r_lookup
  <2> QED
    BY <2>1, <2>2, SrcRouteType DEF Learned
<1>5. \A n \in Node : rtable'[n] = IF n = l.to THEN Learned(l) ELSE rtable[n]
  BY <1>1, <1>2
<1>6. rtable' \in [Node -> SUBSET Entry]
  BY <1>1, <1>2, <1>3
<1>7. RoutesUsable'
  BY <1>3, <1>5 DEF IInv, RoutesUsable, unicast
<1>8. OneEntryPerDest'
  BY <1>4, <1>5 DEF IInv, OneEntryPerDest
<1> QED
  BY <1>6, <1>7, <1>8

-----------------------------------------------------------------------------
(* What each handler sends. *)

\* The frames made from a received one may go on the wire.
LEMMA MadeFrames ==
  ASSUME NEW f \in HostFrame, NEW b \in Nat, NEW h \in Nat, NEW n \in Node
  PROVE  /\ rrep_swapped(f, b, h) \in WireFrame
         /\ rrep_onward(f, h) \in WireFrame
         /\ n # f.dest_ip => park_rreq(n, f, b) \in WireFrame
         /\ flood_onward(f, "RREQ") \in WireFrame
         /\ f.route_disc_flag # 1 => flood_onward(f, "ASENT") \in WireFrame
<1>1. /\ f.broadcast_id \in Nat /\ f.hop_count + 1 \in Nat /\ f.route_disc_flag \in {0, 1}
      /\ f.src_port \in Int /\ f.dst_port \in Int /\ -1 \in Int
      /\ f.dest_ip \in Node /\ f.src_ip \in Node /\ f.src_ip # f.dest_ip /\ f.payload \in Nat
  BY DEF HostFrame, Frame
<1>2. rrep_swapped(f, b, h) \in WireFrame
  BY <1>1 DEF rrep_swapped, construct_odr, WireFrame, Frame, NoPayload
<1>3. rrep_onward(f, h) \in WireFrame
  BY <1>1 DEF rrep_onward, construct_odr, WireFrame, Frame, NoPayload
<1>4. n # f.dest_ip => park_rreq(n, f, b) \in WireFrame
  BY <1>1, ConstructFrame, ZenonT(30) DEF park_rreq
<1>5. flood_onward(f, "RREQ") \in WireFrame
  BY <1>1, ConstructFrame, ZenonT(30) DEF flood_onward
<1>6. f.route_disc_flag # 1 => flood_onward(f, "ASENT") \in WireFrame
  BY <1>1, ConstructFrame, ZenonT(30) DEF flood_onward
<1> QED
  BY <1>2, <1>3, <1>4, <1>5, <1>6

\* get_broadcast_id makes a natural number, and so does counting on.
LEMMA BidType ==
  ASSUME TypeOK, NEW n \in Node, NEW k \in Nat
  PROVE  /\ get_broadcast_id(bid[n], k) \in Nat
         /\ [bid EXCEPT ![n] = @ + k] \in [Node -> Nat]
BY DEF TypeOK, get_broadcast_id

\* The message PeerDiscover parks, and the one PeerSend sends.
Parked(n, port) ==
  LET r == Head(proc_q[n]) IN
    convert_net_host_order(construct_odr("DATA", 0, get_broadcast_id(bid[n], 2), 0,
                             port, r.destport, r.destip, n, r.msg))
Dispatched(n, e, port) ==
  LET r == Head(proc_q[n]) IN
    construct_odr("DATA", e.broadcast_id, 0, r.route_disc_flag, port,
                  r.destport, r.destip, n, r.msg)

LEMMA ParkedIs ==
  ASSUME TypeOK, NEW n \in Node, Head(proc_q[n]) \in Request, Head(proc_q[n]).destip # n,
         NEW port \in Int
  PROVE  /\ Parked(n, port) \in ParkedFrame
         /\ Parked(n, port).frame_type = "DATA"
         /\ Parked(n, port).payload = Head(proc_q[n]).msg
         /\ Parked(n, port).src_ip = n /\ Parked(n, port).dest_ip = Head(proc_q[n]).destip
         /\ Parked(n, port).src_port = port
         /\ Parked(n, port).dst_port = Head(proc_q[n]).destport
<1> DEFINE r == Head(proc_q[n])
<1>1. /\ r.msg \in Nat /\ r.destport \in Int /\ r.destip \in Node /\ r.destip # n
  BY DEF Request
<1>2. get_broadcast_id(bid[n], 2) \in Nat
  BY BidType
<1>3. Parked(n, port) = [frame_type |-> "DATA", broadcast_id |-> 0,
        hop_count |-> get_broadcast_id(bid[n], 2), route_disc_flag |-> 0, src_port |-> port,
        dst_port |-> r.destport, dest_ip |-> r.destip, src_ip |-> n, payload |-> r.msg,
        order |-> "host"]
  BY DEF Parked, convert_net_host_order, SwapOrder, construct_odr
<1> HIDE DEF r
<1>4. Parked(n, port) \in ParkedFrame
  BY <1>1, <1>2, <1>3 DEF ParkedFrame, Frame
<1>5. /\ Parked(n, port).frame_type = "DATA" /\ Parked(n, port).payload = r.msg
      /\ Parked(n, port).src_ip = n /\ Parked(n, port).dest_ip = r.destip
      /\ Parked(n, port).src_port = port /\ Parked(n, port).dst_port = r.destport
  BY <1>3
<1> QED
  BY <1>4, <1>5 DEF r

\* When PeerSend sends, and what the frame it sends says.
MaySend(n, e, port) ==
  /\ n \in Node /\ e \in Entry /\ port \in Int
  /\ Head(proc_q[n]) \in Request /\ Head(proc_q[n]).destip # n
  /\ Head(proc_q[n]).route_disc_flag # 1

Dispatch(n, e, port) ==
  /\ Dispatched(n, e, port) \in WireFrame
  /\ Dispatched(n, e, port).frame_type = "DATA"
  /\ Dispatched(n, e, port).payload = Head(proc_q[n]).msg
  /\ Dispatched(n, e, port).src_ip = n
  /\ Dispatched(n, e, port).dest_ip = Head(proc_q[n]).destip
  /\ Dispatched(n, e, port).src_port = port
  /\ Dispatched(n, e, port).dst_port = Head(proc_q[n]).destport
  /\ Dispatched(n, e, port).hop_count = 0
  /\ Dispatched(n, e, port).route_disc_flag = Head(proc_q[n]).route_disc_flag

LEMMA DispatchedIs ==
  ASSUME NEW n, NEW e, NEW port, MaySend(n, e, port)
  PROVE  Dispatch(n, e, port)
<1> DEFINE r == Head(proc_q[n])
<1>1. /\ r.msg \in Nat /\ r.destport \in Int /\ r.destip \in Node /\ n # r.destip
      /\ r.route_disc_flag \in {0, 1} /\ r.route_disc_flag # 1 /\ e.broadcast_id \in Nat
      /\ n \in Node /\ port \in Int
  BY DEF MaySend, Request, Entry
<1>2. Dispatched(n, e, port) \in WireFrame
  BY <1>1, ConstructFrame, ZenonT(30) DEF Dispatched
<1> QED
  BY <1>2, ZenonT(30) DEF Dispatch, Dispatched, construct_odr

\* The frame DataForward sends.
Forwarded(l) == convert_host_net_order([Recvd(l) EXCEPT !.hop_count = SrcRoute(l).no_hops])

LEMMA ForwardedIs ==
  ASSUME IInv, NEW l \in Link, Receive(l)
  PROVE  /\ Forwarded(l) \in WireFrame
         /\ Forwarded(l).frame_type = Recvd(l).frame_type
         /\ Forwarded(l).payload = Recvd(l).payload
         /\ Forwarded(l).src_ip = Recvd(l).src_ip /\ Forwarded(l).dest_ip = Recvd(l).dest_ip
         /\ Forwarded(l).src_port = Recvd(l).src_port
         /\ Forwarded(l).dst_port = Recvd(l).dst_port
         /\ Forwarded(l).hop_count = SrcRoute(l).no_hops
         /\ Forwarded(l).route_disc_flag = Recvd(l).route_disc_flag
<1> DEFINE g == [Recvd(l) EXCEPT !.hop_count = SrcRoute(l).no_hops]
<1>1. Recvd(l) \in HostFrame /\ SrcRoute(l).no_hops \in Nat
  BY RecvdType, SrcRouteType DEF Entry
<1>2. g \in HostFrame
  BY <1>1 DEF HostFrame, Frame
<1>3. Forwarded(l) \in WireFrame
  BY <1>2, HostToNet DEF Forwarded
<1> QED
  BY <1>1, <1>2, <1>3 DEF Forwarded, convert_host_net_order, SwapOrder, HostFrame, Frame

\* A frame put at the head of a pending queue.
LEMMA ParkType ==
  ASSUME IInv, NEW n \in Node, NEW f \in ParkedFrame
  PROVE  [pending EXCEPT ![n] = <<f>> \o @] \in [Node -> Seq(ParkedFrame)]
<1>1. pending[n] \in Seq(ParkedFrame) /\ <<f>> \in Seq(ParkedFrame)
  BY DEF IInv
<1>2. <<f>> \o pending[n] \in Seq(ParkedFrame)
  BY <1>1, SeqConcat
<1> QED
  BY <1>2 DEF IInv

\* A frame taken out of a pending queue.
LEMMA UnparkType ==
  ASSUME IInv, NEW n \in Node, NEW i \in DOMAIN pending[n]
  PROVE  /\ pending[n][i] \in ParkedFrame
         /\ [pending EXCEPT ![n] = remove_pending(@, i)] \in [Node -> Seq(ParkedFrame)]
<1> DEFINE q == pending[n]
<1>1. q \in Seq(ParkedFrame) /\ i \in 1 .. Len(q) /\ Len(q) \in Nat
  BY DEF IInv
<1>2. q[i] \in ParkedFrame
  BY <1>1, SeqElements
<1>3. SubSeq(q, 1, i - 1) \in Seq(ParkedFrame)
  BY <1>1, SeqPart
<1>4. SubSeq(q, i + 1, Len(q)) \in Seq(ParkedFrame)
  BY <1>1, SeqPart
<1>5. remove_pending(q, i) \in Seq(ParkedFrame)
  BY <1>3, <1>4, SeqConcat DEF remove_pending
<1> QED
  BY <1>2, <1>5 DEF IInv

\* Datagrams delivered to local sockets.
LEMMA DeliverType ==
  ASSUME TypeOK, NEW n \in Node, NEW paths, NEW m \in Delivery
  PROVE  deliver(n, paths, m) \in [Node -> [Path -> Seq(Delivery)]]
<1>1. \A p \in Path : app_q[n][p] \in Seq(Delivery) /\ Append(app_q[n][p], m) \in Seq(Delivery)
  BY SeqAppend DEF TypeOK
<1>2. [p \in Path |-> IF p \in paths THEN Append(app_q[n][p], m) ELSE app_q[n][p]]
        \in [Path -> Seq(Delivery)]
  BY <1>1
<1> QED
  BY <1>2 DEF TypeOK, deliver

\* The invariant after a step, from what the step did to each variable.
LEMMA Compose ==
  ASSUME rtable' \in [Node -> SUBSET Entry], RoutesUsable', OneEntryPerDest',
         pending' \in [Node -> Seq(ParkedFrame)], bid' \in [Node -> Nat],
         portno' \in [Node -> Int], port_spath' \in [Node -> Seq(PortEntry)],
         up' \in [Node -> BOOLEAN], chan' \in [Link -> Seq(WireFrame)],
         proc_q' \in [Node -> Seq(Request)],
         app_q' \in [Node -> [Path -> Seq(Delivery)]],
         bound' \in [Node -> SUBSET Path], asked' \in Seq(Want),
         ticks' \in Nat, faults' \in Nat
  PROVE  IInv'
<1>1. WireFrame \subseteq Frame /\ ParkedFrame \subseteq Frame
  BY DEF WireFrame, ParkedFrame
<1>2. chan' \in [Link -> Seq(Frame)]
  BY <1>1
<1>3. pending' \in [Node -> Seq(Frame)]
  BY <1>1
<1> QED
  BY <1>2, <1>3 DEF IInv, TypeOK

\* The tables' invariants depend on the tables alone.
LEMMA SameTables ==
  ASSUME IInv, rtable' = rtable
  PROVE  /\ rtable' \in [Node -> SUBSET Entry]
         /\ RoutesUsable'
         /\ OneEntryPerDest'
BY DEF IInv, TypeOK, RoutesUsable, OneEntryPerDest, unicast

\* fetch_entry_path keeps the port table and its counter typed.
LEMMA FetchPathType ==
  ASSUME TypeOK, NEW n \in Node, NEW path \in Path, NEW port \in Ports(n),
         fetch_entry_path(n, path, port)
  PROVE  /\ port \in Int
         /\ port_spath' \in [Node -> Seq(PortEntry)]
         /\ portno' \in [Node -> Int]
<1>1. port_spath \in [Node -> Seq(PortEntry)] /\ portno \in [Node -> Int]
  BY DEF TypeOK
<1>2. port \in Int
  <2>1. \A i \in DOMAIN port_spath[n] : port_spath[n][i] \in PortEntry
    BY <1>1, SeqElements
  <2> QED
    BY <1>1, <2>1 DEF Ports, PortEntry
<1>3. CASE UNCHANGED <<port_spath, portno>>
  BY <1>1, <1>2, <1>3
<1>4. CASE /\ port_spath' = [port_spath EXCEPT
                               ![n] = <<[portno |-> port, sun_path |-> path]>> \o @]
           /\ portno' = [portno EXCEPT ![n] = @ + 1]
  <2>1. [portno |-> port, sun_path |-> path] \in PortEntry
    BY <1>2 DEF PortEntry
  <2>2. <<[portno |-> port, sun_path |-> path]>> \o port_spath[n] \in Seq(PortEntry)
    BY <1>1, <2>1, SeqConcat
  <2>3. port_spath' \in [Node -> Seq(PortEntry)]
    BY <1>1, <1>4, <2>2
  <2>4. portno' \in [Node -> Int]
    BY <1>1, <1>4
  <2> QED
    BY <1>2, <2>3, <2>4
<1> QED
  BY <1>3, <1>4 DEF fetch_entry_path

\* The request handle_peer_msg works on, and the requests left.
LEMMA PeerType ==
  ASSUME TypeOK, NEW n \in Node, PeerMsg(n)
  PROVE  /\ Head(proc_q[n]) \in Request
         /\ proc_q' \in [Node -> Seq(Request)]
<1>1. proc_q[n] \in Seq(Request) /\ proc_q[n] # <<>>
  BY DEF TypeOK, PeerMsg
<1>2. Head(proc_q[n]) \in Request /\ Tail(proc_q[n]) \in Seq(Request)
  BY <1>1, SeqHeadTail
<1> QED
  BY <1>2 DEF TypeOK, PeerMsg

-----------------------------------------------------------------------------
(* handle_peer_msg preserves the invariant. *)

\* Local delivery.
LEMMA PeerLocalStep ==
  ASSUME IInv, NEW n \in Node, PeerLocal(n)
  PROVE  IInv'
<1> DEFINE r == Head(proc_q[n])
<1>1. TypeOK /\ PeerMsg(n)
  BY DEF IInv, PeerLocal
<1>2. r \in Request /\ proc_q' \in [Node -> Seq(Request)]
  BY <1>1, PeerType
<1>3. PICK port \in Ports(n) :
        /\ fetch_entry_path(n, r.filename, port)
        /\ LET hit == reachable(n, port_spath'[n], r.destport) IN
             IF hit # {}
             THEN /\ app_q' = deliver(n, hit, [src_ip |-> n, src_port |-> port, msg |-> r.msg])
                  /\ up' = up
             ELSE /\ up' = [up EXCEPT ![n] = FALSE]
                  /\ app_q' = app_q
  BY DEF PeerLocal
<1>4. r.filename \in Path /\ r.msg \in Nat
  BY <1>2, ZenonT(30) DEF Request
<1>5. port \in Int /\ port_spath' \in [Node -> Seq(PortEntry)] /\ portno' \in [Node -> Int]
  BY <1>1, <1>3, <1>4, FetchPathType
<1>6. [src_ip |-> n, src_port |-> port, msg |-> r.msg] \in Delivery
  BY <1>4, <1>5, ZenonT(30) DEF Delivery
<1>7. app_q' \in [Node -> [Path -> Seq(Delivery)]]
  <2>1. \/ app_q' = app_q
        \/ app_q' = deliver(n, reachable(n, port_spath'[n], r.destport),
                            [src_ip |-> n, src_port |-> port, msg |-> r.msg])
    BY <1>3
  <2> QED
    BY <1>1, <1>6, <2>1, DeliverType DEF TypeOK
<1>8. up' \in [Node -> BOOLEAN]
  <2>1. up' = up \/ up' = [up EXCEPT ![n] = FALSE]
    BY <1>3
  <2> QED
    BY <1>1, <2>1, Zenon DEF TypeOK
<1>9. UNCHANGED <<rtable, pending, bid, chan, bound, asked, ticks, faults>>
  BY DEF PeerLocal
<1>10. /\ pending' \in [Node -> Seq(ParkedFrame)] /\ bid' \in [Node -> Nat]
       /\ chan' \in [Link -> Seq(WireFrame)] /\ bound' \in [Node -> SUBSET Path]
       /\ asked' \in Seq(Want) /\ ticks' \in Nat /\ faults' \in Nat
  BY <1>9 DEF IInv, TypeOK
<1> QED
  BY <1>2, <1>5, <1>7, <1>8, <1>9, <1>10, SameTables, Compose, ZenonT(30)

\* Discovery.
LEMMA PeerDiscoverStep ==
  ASSUME IInv, NEW n \in Node, PeerDiscover(n)
  PROVE  IInv'
<1> DEFINE r == Head(proc_q[n])
           req(port) == construct_odr("RREQ", get_broadcast_id(bid[n], 1), 0,
                          r.route_disc_flag, port, r.destport, r.destip, n, r.msg)
           out(port) == [k \in broadcast(n, {}) |-> req(port)]
           msg(port) == construct_odr("DATA", 0, get_broadcast_id(bid[n], 2), 0,
                          port, r.destport, r.destip, n, r.msg)
<1>1. TypeOK /\ PeerMsg(n)
  BY DEF IInv, PeerDiscover
<1>2. r \in Request /\ proc_q' \in [Node -> Seq(Request)]
  BY <1>1, PeerType
<1>3. PICK port \in Ports(n) :
        /\ fetch_entry_path(n, r.filename, port)
        /\ Transmit(n, {}, out(port))
        /\ pending' = [pending EXCEPT ![n] = <<convert_net_host_order(msg(port))>> \o @]
  BY ZenonT(30) DEF PeerDiscover
<1>4. /\ r.filename \in Path /\ r.msg \in Nat /\ r.destport \in Int /\ r.destip \in Node
      /\ r.route_disc_flag \in {0, 1} /\ n # r.destip
  BY <1>2, ZenonT(30) DEF Request, PeerDiscover
<1>5. port \in Int /\ port_spath' \in [Node -> Seq(PortEntry)] /\ portno' \in [Node -> Int]
  BY <1>1, <1>3, <1>4, FetchPathType
<1>6. get_broadcast_id(bid[n], 1) \in Nat /\ get_broadcast_id(bid[n], 2) \in Nat
  BY <1>1, BidType
<1>7. req(port) \in WireFrame
  BY <1>4, <1>5, <1>6, ConstructFrame, ZenonT(30)
<1>8. out(port) \in [broadcast(n, {}) -> WireFrame]
  BY <1>7
<1>9. /\ chan' \in [Link -> Seq(WireFrame)]
      /\ up' \in [Node -> BOOLEAN]
      /\ faults' \in Nat
  <2>1. chan \in [Link -> Seq(WireFrame)] /\ \A k \in {} : chan[k] # <<>>
    BY DEF IInv
  <2> QED
    BY <1>1, <1>3, <1>8, <2>1, TransmitType, ZenonT(30)
<1>10. convert_net_host_order(msg(port)) \in ParkedFrame
  BY <1>4, <1>5, <1>6, ZenonT(30)
  DEF convert_net_host_order, SwapOrder, construct_odr, ParkedFrame, Frame, NoPayload
<1>11. pending' \in [Node -> Seq(ParkedFrame)]
  BY <1>3, <1>10, ParkType, ZenonT(30)
<1>12. bid' \in [Node -> Nat]
  BY <1>1, BidType DEF PeerDiscover
<1>13. /\ rtable' \in [Node -> SUBSET Entry]
       /\ RoutesUsable'
       /\ OneEntryPerDest'
  <2>1. rtable' = [rtable EXCEPT ![n] = after_r_lookup(@, r.destip, r.route_disc_flag)]
    BY ZenonT(30) DEF PeerDiscover
  <2>2. \A m \in Node : rtable'[m] \subseteq rtable[m]
    BY <1>1, <2>1, LookupFacts DEF TypeOK
  <2>3. rtable' \in [Node -> SUBSET Entry]
    BY <1>1, <2>1, LookupFacts DEF TypeOK
  <2> QED
    BY <2>2, <2>3 DEF IInv, RoutesUsable, OneEntryPerDest, unicast
<1>14. /\ app_q' \in [Node -> [Path -> Seq(Delivery)]] /\ bound' \in [Node -> SUBSET Path]
       /\ asked' \in Seq(Want) /\ ticks' \in Nat
  BY <1>1, ZenonT(30) DEF PeerDiscover, apps, TypeOK
<1> QED
  BY <1>2, <1>5, <1>9, <1>11, <1>12, <1>13, <1>14, Compose, ZenonT(30)

\* Sending over a known route.
LEMMA PeerSendStep ==
  ASSUME IInv, NEW n \in Node, PeerSend(n)
  PROVE  IInv'
<1> DEFINE r == Head(proc_q[n])
           msg(e, port) == construct_odr("DATA", e.broadcast_id, 0, r.route_disc_flag, port,
                             r.destport, r.destip, n, r.msg)
           out(e, port) == [k \in unicast(n, e) |-> msg(e, port)]
<1>1. TypeOK /\ PeerMsg(n)
  BY ZenonT(30) DEF IInv, PeerSend
<1>2. r \in Request /\ proc_q' \in [Node -> Seq(Request)]
  BY <1>1, PeerType
<1>3. PICK e \in got_r_entry(rtable[n], r.destip, r.route_disc_flag), port \in Ports(n) :
        /\ fetch_entry_path(n, r.filename, port)
        /\ Transmit(n, {}, out(e, port))
  BY ZenonT(30) DEF PeerSend
<1>4. /\ r.filename \in Path /\ r.msg \in Nat /\ r.destport \in Int /\ r.destip \in Node
      /\ r.route_disc_flag \in {0, 1} /\ n # r.destip
  BY <1>2, ZenonT(30) DEF Request, PeerSend
<1>5. port \in Int /\ port_spath' \in [Node -> Seq(PortEntry)] /\ portno' \in [Node -> Int]
  BY <1>1, <1>3, <1>4, FetchPathType
<1>6. e.broadcast_id \in Nat /\ r.route_disc_flag # 1
  <2>1. e \in rtable[n] /\ r.route_disc_flag # 1
    BY <1>3, LookupFacts
  <2>2. e \in Entry
    BY <1>1, <2>1 DEF TypeOK
  <2> QED
    BY <2>1, <2>2, ZenonT(30) DEF Entry
<1>7. msg(e, port) \in WireFrame
  BY <1>4, <1>5, <1>6, ConstructFrame, ZenonT(30)
<1>8. out(e, port) \in [unicast(n, e) -> WireFrame]
  BY <1>7
<1>9. /\ chan' \in [Link -> Seq(WireFrame)]
      /\ up' \in [Node -> BOOLEAN]
      /\ faults' \in Nat
  <2>1. chan \in [Link -> Seq(WireFrame)] /\ \A k \in {} : chan[k] # <<>>
    BY ZenonT(30) DEF IInv
  <2> QED
    BY <1>1, <1>3, <1>8, <2>1, TransmitType, ZenonT(30)
<1>10. rtable' = rtable
  BY DEF PeerSend
<1>11. /\ app_q' \in [Node -> [Path -> Seq(Delivery)]] /\ bound' \in [Node -> SUBSET Path]
       /\ asked' \in Seq(Want) /\ ticks' \in Nat
       /\ pending' \in [Node -> Seq(ParkedFrame)] /\ bid' \in [Node -> Nat]
  BY <1>1, ZenonT(30) DEF PeerSend, apps, TypeOK, IInv
<1> QED
  BY <1>2, <1>5, <1>9, <1>10, <1>11, SameTables, Compose

-----------------------------------------------------------------------------
(* handle_ethernet_msg preserves the invariant. *)

\* A handler that received over l and sent wire frames.
LEMMA EtherTransmit ==
  ASSUME IInv, NEW l \in Link, Receive(l), NEW S, NEW out \in [S -> WireFrame],
         Transmit(l.to, {l}, out)
  PROVE  /\ chan' \in [Link -> Seq(WireFrame)]
         /\ up' \in [Node -> BOOLEAN]
         /\ faults' \in Nat
<1>1. \A k \in {l} : chan[k] # <<>>
  BY DEF Receive
<1>2. TypeOK /\ chan \in [Link -> Seq(WireFrame)] /\ l.to \in Node
  BY LinkFacts, ZenonT(30) DEF IInv
<1> QED
  BY <1>1, <1>2, TransmitType, ZenonT(30)

\* A step that only takes the oldest frame off a link.
LEMMA TakeType ==
  ASSUME IInv, NEW l \in Link, chan[l] # <<>>, chan' = Sent({l}, <<>>)
  PROVE  chan' \in [Link -> Seq(WireFrame)]
<1>1. <<>> \in [{} -> WireFrame]
  OBVIOUS
<1>2. chan \in [Link -> Seq(WireFrame)] /\ \A k \in {l} : chan[k] # <<>>
  BY DEF IInv
<1> QED
  BY <1>1, <1>2, SentType, ZenonT(30)

\* The invariant after a handler that learned from its frame.
LEMMA EtherCompose ==
  ASSUME IInv, NEW l \in Link, NEW type, EtherMsg(l, type),
         chan' \in [Link -> Seq(WireFrame)], up' \in [Node -> BOOLEAN], faults' \in Nat,
         pending' \in [Node -> Seq(ParkedFrame)], bid' \in [Node -> Nat],
         app_q' \in [Node -> [Path -> Seq(Delivery)]],
         UNCHANGED <<portno, port_spath, proc_q, bound, asked, ticks>>
  PROVE  IInv'
<1>1. /\ rtable' \in [Node -> SUBSET Entry]
      /\ RoutesUsable'
      /\ OneEntryPerDest'
  BY LearnType DEF EtherMsg
<1>2. /\ portno' \in [Node -> Int] /\ port_spath' \in [Node -> Seq(PortEntry)]
      /\ proc_q' \in [Node -> Seq(Request)] /\ bound' \in [Node -> SUBSET Path]
      /\ asked' \in Seq(Want) /\ ticks' \in Nat
  BY ZenonT(30) DEF IInv, TypeOK
<1> QED
  BY <1>1, <1>2, Compose

\* A duplicate of a flagged frame is dropped.
LEMMA IgnoreDuplicateStep ==
  ASSUME IInv, NEW l \in Link, IgnoreDuplicate(l)
  PROVE  IInv'
<1>1. chan' \in [Link -> Seq(WireFrame)]
  BY TakeType, ZenonT(30) DEF IgnoreDuplicate, Receive
<1>2. UNCHANGED <<memory, up, proc_q, apps, ticks, faults>>
  BY DEF IgnoreDuplicate
<1>3. rtable' = rtable
  BY <1>2 DEF memory
<1> QED
  BY <1>1, <1>2, <1>3, SameTables, Compose DEF memory, apps, IInv, TypeOK

\* The destination answers.
LEMMA RreqAtDestStep ==
  ASSUME IInv, NEW l \in Link, RreqAtDest(l)
  PROVE  IInv'
<1>1. EtherMsg(l, "RREQ") /\ Receive(l)
  BY DEF RreqAtDest, EtherMsg
<1>2. Recvd(l) \in HostFrame /\ l.to \in Node
  BY <1>1, RecvdType, LinkFacts, ZenonT(30)
<1>3. get_broadcast_id(bid[l.to], 1) \in Nat
  BY <1>2, BidType, ZenonT(30) DEF IInv
<1> DEFINE out == [k \in unicast(l.to, SrcRoute(l)) |->
                     rrep_swapped(Recvd(l), get_broadcast_id(bid[l.to], 1), 0)]
<1>4. out \in [unicast(l.to, SrcRoute(l)) -> WireFrame]
  BY <1>2, <1>3, MadeFrames
<1>5. Transmit(l.to, {l}, out)
  BY DEF RreqAtDest
<1>6. /\ chan' \in [Link -> Seq(WireFrame)]
      /\ up' \in [Node -> BOOLEAN]
      /\ faults' \in Nat
  BY <1>1, <1>4, <1>5, EtherTransmit, ZenonT(30)
<1>7. pending' \in [Node -> Seq(ParkedFrame)]
  BY DEF RreqAtDest, IInv
<1>8. bid' \in [Node -> Nat]
  BY <1>2, BidType DEF RreqAtDest, IInv
<1>9. /\ app_q' \in [Node -> [Path -> Seq(Delivery)]]
      /\ UNCHANGED <<portno, port_spath, proc_q, bound, asked, ticks>>
  BY DEF RreqAtDest, apps, IInv, TypeOK
<1> QED
  BY <1>1, <1>6, <1>7, <1>8, <1>9, EtherCompose, ZenonT(30)

\* An intermediate node answers and spreads what it learned.
LEMMA RreqFromTableStep ==
  ASSUME IInv, NEW l \in Link, RreqFromTable(l)
  PROVE  IInv'
<1>1. EtherMsg(l, "RREQ") /\ Receive(l)
  BY DEF RreqFromTable, EtherMsg
<1>2. Recvd(l) \in HostFrame /\ l.to \in Node
  BY <1>1, RecvdType, LinkFacts, ZenonT(30)
<1>3. get_broadcast_id(bid[l.to], 1) \in Nat
  BY <1>2, BidType, ZenonT(30) DEF IInv
<1> DEFINE reply == unicast(l.to, SrcRoute(l))
           tell  == IF Updates(l) THEN broadcast(l.to, {l.ifno}) ELSE {}
           out(e) == [k \in reply \cup tell |->
             IF k \in reply
             THEN rrep_swapped(Recvd(l), get_broadcast_id(bid[l.to], 1), e.no_hops)
             ELSE flood_onward(Recvd(l), "ASENT")]
<1>a. PICK e \in DestEntry(l) : Transmit(l.to, {l}, out(e))
  BY ZenonT(30) DEF RreqFromTable
<1>b. e.no_hops \in Nat /\ Recvd(l).route_disc_flag # 1
  BY <1>1, EntriesType DEF Entry
<1>4. out(e) \in [reply \cup tell -> WireFrame]
  BY <1>2, <1>3, <1>b, MadeFrames, ZenonT(30)
<1>5. Transmit(l.to, {l}, out(e))
  BY <1>a
<1>6. /\ chan' \in [Link -> Seq(WireFrame)]
      /\ up' \in [Node -> BOOLEAN]
      /\ faults' \in Nat
  BY <1>1, <1>4, <1>5, EtherTransmit, ZenonT(30)
<1>7. pending' \in [Node -> Seq(ParkedFrame)]
  BY DEF RreqFromTable, IInv
<1>8. bid' \in [Node -> Nat]
  BY <1>2, BidType, ZenonT(30) DEF RreqFromTable, IInv
<1>9. /\ app_q' \in [Node -> [Path -> Seq(Delivery)]]
      /\ UNCHANGED <<portno, port_spath, proc_q, bound, asked, ticks>>
  BY DEF RreqFromTable, apps, IInv, TypeOK
<1> QED
  BY <1>1, <1>6, <1>7, <1>8, <1>9, EtherCompose, ZenonT(30)

\* An intermediate node passes the flood on.
LEMMA RreqFloodStep ==
  ASSUME IInv, NEW l \in Link, RreqFlood(l)
  PROVE  IInv'
<1>1. EtherMsg(l, "RREQ") /\ Receive(l)
  BY DEF RreqFlood, EtherMsg
<1>2. Recvd(l) \in HostFrame /\ l.to \in Node
  BY <1>1, RecvdType, LinkFacts, ZenonT(30)
<1>3. 0 \in Nat
  OBVIOUS
<1> DEFINE S == IF Updates(l) THEN broadcast(l.to, {l.ifno}) ELSE {}
           out == [k \in S |-> flood_onward(Recvd(l), "RREQ")]
<1>4. out \in [S -> WireFrame]
  BY <1>2, <1>3, MadeFrames
<1>5. Transmit(l.to, {l}, out)
  BY DEF RreqFlood
<1>6. /\ chan' \in [Link -> Seq(WireFrame)]
      /\ up' \in [Node -> BOOLEAN]
      /\ faults' \in Nat
  BY <1>1, <1>4, <1>5, EtherTransmit, ZenonT(30)
<1>7. pending' \in [Node -> Seq(ParkedFrame)]
  BY DEF RreqFlood, IInv
<1>8. bid' \in [Node -> Nat]
  BY DEF RreqFlood, IInv, TypeOK
<1>9. /\ app_q' \in [Node -> [Path -> Seq(Delivery)]]
      /\ UNCHANGED <<portno, port_spath, proc_q, bound, asked, ticks>>
  BY DEF RreqFlood, apps, IInv, TypeOK
<1> QED
  BY <1>1, <1>6, <1>7, <1>8, <1>9, EtherCompose, ZenonT(30)

\* News about a source is passed on.
LEMMA AsentStep ==
  ASSUME IInv, NEW l \in Link, Asent(l)
  PROVE  IInv'
<1>1. EtherMsg(l, "ASENT") /\ Receive(l)
  BY DEF Asent, EtherMsg
<1>2. Recvd(l) \in HostFrame /\ l.to \in Node
  BY <1>1, RecvdType, LinkFacts, ZenonT(30)
<1>3. 0 \in Nat
  OBVIOUS
<1> DEFINE S == IF Updates(l) THEN broadcast(l.to, {l.ifno}) ELSE {}
           out == [k \in S |-> flood_onward(Recvd(l), "ASENT")]
<1>a. Recvd(l).route_disc_flag # 1
  BY <1>1, <1>2, ZenonT(30) DEF EtherMsg, HostFrame
<1>4. out \in [S -> WireFrame]
  BY <1>2, <1>3, <1>a, MadeFrames
<1>5. Transmit(l.to, {l}, out)
  BY DEF Asent
<1>6. /\ chan' \in [Link -> Seq(WireFrame)]
      /\ up' \in [Node -> BOOLEAN]
      /\ faults' \in Nat
  BY <1>1, <1>4, <1>5, EtherTransmit, ZenonT(30)
<1>7. pending' \in [Node -> Seq(ParkedFrame)]
  BY DEF Asent, IInv
<1>8. bid' \in [Node -> Nat]
  BY DEF Asent, IInv, TypeOK
<1>9. /\ app_q' \in [Node -> [Path -> Seq(Delivery)]]
      /\ UNCHANGED <<portno, port_spath, proc_q, bound, asked, ticks>>
  BY DEF Asent, apps, IInv, TypeOK
<1> QED
  BY <1>1, <1>6, <1>7, <1>8, <1>9, EtherCompose, ZenonT(30)

\* A reply releases a parked frame.
LEMMA RrepAtDestStep ==
  ASSUME IInv, NEW l \in Link, RrepAtDest(l)
  PROVE  IInv'
<1>1. EtherMsg(l, "RREP") /\ Receive(l)
  BY DEF RrepAtDest, EtherMsg
<1>2. Recvd(l) \in HostFrame /\ l.to \in Node
  BY <1>1, RecvdType, LinkFacts, ZenonT(30)
<1> DEFINE out(f) == [k \in unicast(l.to, SrcRoute(l)) |->
              IF f.frame_type = "RREP" THEN rrep_onward(f, f.hop_count)
                                       ELSE convert_host_net_order(f)]
<1>3. PICK i \in DOMAIN pending[l.to] :
        /\ pending' = [pending EXCEPT ![l.to] = remove_pending(@, i)]
        /\ Transmit(l.to, {l}, out(pending[l.to][i]))
  BY ZenonT(30) DEF RrepAtDest
<1> DEFINE f == pending[l.to][i]
<1>a. f \in HostFrame /\ f.hop_count \in Nat
  BY <1>2, UnparkType, ParkedIsHost DEF HostFrame, Frame
<1>4. out(f) \in [unicast(l.to, SrcRoute(l)) -> WireFrame]
  <2>1. 0 \in Nat
    OBVIOUS
  <2>2. rrep_onward(f, f.hop_count) \in WireFrame
    BY <1>2, <1>a, <2>1, MadeFrames, ZenonT(30)
  <2> QED
    BY <1>a, <2>2, HostToNet
<1>5. Transmit(l.to, {l}, out(f))
  BY <1>3
<1>6. /\ chan' \in [Link -> Seq(WireFrame)]
      /\ up' \in [Node -> BOOLEAN]
      /\ faults' \in Nat
  BY <1>1, <1>4, <1>5, EtherTransmit, ZenonT(30)
<1>7. pending' \in [Node -> Seq(ParkedFrame)]
  BY <1>2, <1>3, UnparkType
<1>8. bid' \in [Node -> Nat]
  BY ZenonT(30) DEF RrepAtDest, IInv, TypeOK
<1>9. /\ app_q' \in [Node -> [Path -> Seq(Delivery)]]
      /\ UNCHANGED <<portno, port_spath, proc_q, bound, asked, ticks>>
  BY ZenonT(30) DEF RrepAtDest, apps, IInv, TypeOK
<1> QED
  BY <1>1, <1>6, <1>7, <1>8, <1>9, EtherCompose, ZenonT(30)

\* A reply nobody waits for.
LEMMA RrepUnusedStep ==
  ASSUME IInv, NEW l \in Link, RrepUnused(l)
  PROVE  IInv'
<1>1. EtherMsg(l, "RREP") /\ Receive(l)
  BY ZenonT(30) DEF RrepUnused, EtherMsg
<1>2. Recvd(l) \in HostFrame /\ l.to \in Node
  BY <1>1, RecvdType, LinkFacts, ZenonT(30)
<1>6. /\ chan' \in [Link -> Seq(WireFrame)]
      /\ up' \in [Node -> BOOLEAN]
      /\ faults' \in Nat
  BY <1>1, TakeType, ZenonT(30) DEF RrepUnused, Receive, IInv, TypeOK
<1>7. pending' \in [Node -> Seq(ParkedFrame)]
  BY DEF RrepUnused, IInv
<1>8. bid' \in [Node -> Nat]
  BY DEF RrepUnused, IInv, TypeOK
<1>9. /\ app_q' \in [Node -> [Path -> Seq(Delivery)]]
      /\ UNCHANGED <<portno, port_spath, proc_q, bound, asked, ticks>>
  BY DEF RrepUnused, apps, IInv, TypeOK
<1> QED
  BY <1>1, <1>6, <1>7, <1>8, <1>9, EtherCompose, ZenonT(30)

\* A reply is passed on.
LEMMA RrepForwardStep ==
  ASSUME IInv, NEW l \in Link, RrepForward(l)
  PROVE  IInv'
<1>1. EtherMsg(l, "RREP") /\ Receive(l)
  BY DEF RrepForward, EtherMsg
<1>2. Recvd(l) \in HostFrame /\ l.to \in Node
  BY <1>1, RecvdType, LinkFacts, ZenonT(30)
<1>3. SrcRoute(l).no_hops \in Nat
  BY <1>1, SrcRouteType DEF Entry
<1> DEFINE out(e) == [k \in unicast(l.to, e) |-> rrep_onward(Recvd(l), SrcRoute(l).no_hops)]
<1>a. PICK e \in DestEntry(l) : Transmit(l.to, {l}, out(e))
  BY ZenonT(30) DEF RrepForward
<1>4. out(e) \in [unicast(l.to, e) -> WireFrame]
  <2>1. 0 \in Nat
    OBVIOUS
  <2> QED
    BY <1>2, <1>3, <2>1, MadeFrames
<1>5. Transmit(l.to, {l}, out(e))
  BY <1>a
<1>6. /\ chan' \in [Link -> Seq(WireFrame)]
      /\ up' \in [Node -> BOOLEAN]
      /\ faults' \in Nat
  BY <1>1, <1>4, <1>5, EtherTransmit, ZenonT(30)
<1>7. pending' \in [Node -> Seq(ParkedFrame)]
  BY DEF RrepForward, IInv
<1>8. bid' \in [Node -> Nat]
  BY ZenonT(30) DEF RrepForward, IInv, TypeOK
<1>9. /\ app_q' \in [Node -> [Path -> Seq(Delivery)]]
      /\ UNCHANGED <<portno, port_spath, proc_q, bound, asked, ticks>>
  BY DEF RrepForward, apps, IInv, TypeOK
<1> QED
  BY <1>1, <1>6, <1>7, <1>8, <1>9, EtherCompose, ZenonT(30)

\* A reply is parked.
LEMMA RrepParkStep ==
  ASSUME IInv, NEW l \in Link, RrepPark(l)
  PROVE  IInv'
<1>1. EtherMsg(l, "RREP") /\ Receive(l)
  BY DEF RrepPark, EtherMsg
<1>2. Recvd(l) \in HostFrame /\ l.to \in Node
  BY <1>1, RecvdType, LinkFacts
<1>3. get_broadcast_id(bid[l.to], 1) \in Nat
  BY <1>2, BidType, ZenonT(30) DEF IInv
<1> DEFINE S == broadcast(l.to, {l.ifno})
           out == [k \in S |-> park_rreq(l.to, Recvd(l), get_broadcast_id(bid[l.to], 1))]
<1>b. l.to # Recvd(l).dest_ip
  BY DEF RrepPark, ForMe
<1>4. out \in [S -> WireFrame]
  <2>1. 0 \in Nat
    OBVIOUS
  <2> QED
    BY <1>2, <1>3, <1>b, <2>1, MadeFrames, ZenonT(30)
<1>5. Transmit(l.to, {l}, out)
  BY DEF RrepPark, Park
<1>6. /\ chan' \in [Link -> Seq(WireFrame)]
      /\ up' \in [Node -> BOOLEAN]
      /\ faults' \in Nat
  BY <1>1, <1>4, <1>5, EtherTransmit, ZenonT(30)
<1>a. Recvd(l) \in ParkedFrame
  BY <1>1, <1>2 DEF EtherMsg, HostFrame, ParkedFrame, Frame
<1>7. pending' \in [Node -> Seq(ParkedFrame)]
  BY <1>2, <1>a, ParkType, ZenonT(30) DEF RrepPark, Park
<1>8. bid' \in [Node -> Nat]
  BY <1>2, BidType, ZenonT(30) DEF RrepPark, Park, IInv
<1>9. /\ app_q' \in [Node -> [Path -> Seq(Delivery)]]
      /\ UNCHANGED <<portno, port_spath, proc_q, bound, asked, ticks>>
  BY DEF RrepPark, apps, IInv, TypeOK
<1> QED
  BY <1>1, <1>6, <1>7, <1>8, <1>9, EtherCompose, ZenonT(30)

\* A message is parked.
LEMMA DataParkStep ==
  ASSUME IInv, NEW l \in Link, DataPark(l)
  PROVE  IInv'
<1>1. EtherMsg(l, "DATA") /\ Receive(l)
  BY DEF DataPark, EtherMsg
<1>2. Recvd(l) \in HostFrame /\ l.to \in Node
  BY <1>1, RecvdType, LinkFacts, ZenonT(30)
<1>3. get_broadcast_id(bid[l.to], 1) \in Nat
  BY <1>2, BidType DEF IInv
<1> DEFINE S == broadcast(l.to, {l.ifno})
           out == [k \in S |-> park_rreq(l.to, Recvd(l), get_broadcast_id(bid[l.to], 1))]
<1>b. l.to # Recvd(l).dest_ip
  BY ZenonT(30) DEF DataPark, ForMe
<1>4. out \in [S -> WireFrame]
  <2>1. 0 \in Nat
    OBVIOUS
  <2> QED
    BY <1>2, <1>3, <1>b, <2>1, MadeFrames, ZenonT(30)
<1>5. Transmit(l.to, {l}, out)
  BY DEF DataPark, Park
<1>6. /\ chan' \in [Link -> Seq(WireFrame)]
      /\ up' \in [Node -> BOOLEAN]
      /\ faults' \in Nat
  BY <1>1, <1>4, <1>5, EtherTransmit, ZenonT(30)
<1>a. Recvd(l) \in ParkedFrame
  BY <1>1, <1>2, ZenonT(30) DEF EtherMsg, HostFrame, ParkedFrame, Frame
<1>7. pending' \in [Node -> Seq(ParkedFrame)]
  BY <1>2, <1>a, ParkType, ZenonT(30) DEF DataPark, Park
<1>8. bid' \in [Node -> Nat]
  BY <1>2, BidType, ZenonT(30) DEF DataPark, Park, IInv
<1>9. /\ app_q' \in [Node -> [Path -> Seq(Delivery)]]
      /\ UNCHANGED <<portno, port_spath, proc_q, bound, asked, ticks>>
  BY DEF DataPark, apps, IInv, TypeOK
<1> QED
  BY <1>1, <1>6, <1>7, <1>8, <1>9, EtherCompose, ZenonT(30)

\* A message is delivered.
LEMMA DataAtDestStep ==
  ASSUME IInv, NEW l \in Link, DataAtDest(l)
  PROVE  IInv'
<1>1. EtherMsg(l, "DATA") /\ Receive(l)
  BY DEF DataAtDest, EtherMsg
<1>2. Recvd(l) \in HostFrame /\ l.to \in Node
  BY <1>1, RecvdType, LinkFacts, ZenonT(30)
<1> DEFINE f == Recvd(l)
           m == [src_ip |-> f.src_ip, src_port |-> f.src_port, msg |-> f.payload]
<1>3. m \in Delivery
  BY <1>2 DEF HostFrame, Frame, Delivery
<1>6. /\ chan' \in [Link -> Seq(WireFrame)]
      /\ up' \in [Node -> BOOLEAN]
      /\ faults' \in Nat
  BY <1>1, TakeType, ZenonT(30) DEF DataAtDest, Receive, IInv, TypeOK
<1>7. pending' \in [Node -> Seq(ParkedFrame)]
  BY ZenonT(30) DEF DataAtDest, IInv
<1>8. bid' \in [Node -> Nat]
  BY ZenonT(30) DEF DataAtDest, IInv, TypeOK
<1>4. app_q' = deliver(l.to, reachable(l.to, port_spath[l.to], f.dst_port), m)
  BY ZenonT(30) DEF DataAtDest
<1>5. app_q' \in [Node -> [Path -> Seq(Delivery)]]
  BY <1>2, <1>3, <1>4, DeliverType, ZenonT(30) DEF IInv
<1>9. UNCHANGED <<portno, port_spath, proc_q, bound, asked, ticks>>
  BY ZenonT(30) DEF DataAtDest
<1> QED
  BY <1>1, <1>5, <1>6, <1>7, <1>8, <1>9, EtherCompose, ZenonT(30)

\* A message is passed on.
LEMMA DataForwardStep ==
  ASSUME IInv, NEW l \in Link, DataForward(l)
  PROVE  IInv'
<1>1. EtherMsg(l, "DATA") /\ Receive(l)
  BY DEF DataForward, EtherMsg
<1>2. Recvd(l) \in HostFrame /\ l.to \in Node
  BY <1>1, RecvdType, LinkFacts, ZenonT(30)
<1>3. SrcRoute(l).no_hops \in Nat
  BY <1>1, SrcRouteType DEF Entry
<1> DEFINE g == [Recvd(l) EXCEPT !.hop_count = SrcRoute(l).no_hops]
           out(e) == [k \in unicast(l.to, e) |-> convert_host_net_order(g)]
<1>a. PICK e \in DestEntry(l) : Transmit(l.to, {l}, out(e))
  BY DEF DataForward
<1>b. g \in HostFrame
  BY <1>2, <1>3 DEF HostFrame, Frame
<1>4. out(e) \in [unicast(l.to, e) -> WireFrame]
  BY <1>b, HostToNet
<1>5. Transmit(l.to, {l}, out(e))
  BY <1>a
<1>6. /\ chan' \in [Link -> Seq(WireFrame)]
      /\ up' \in [Node -> BOOLEAN]
      /\ faults' \in Nat
  BY <1>1, <1>4, <1>5, EtherTransmit, ZenonT(30)
<1>7. pending' \in [Node -> Seq(ParkedFrame)]
  BY DEF DataForward, IInv
<1>8. bid' \in [Node -> Nat]
  BY DEF DataForward, IInv, TypeOK
<1>9. /\ app_q' \in [Node -> [Path -> Seq(Delivery)]]
      /\ UNCHANGED <<portno, port_spath, proc_q, bound, asked, ticks>>
  BY DEF DataForward, apps, IInv, TypeOK
<1> QED
  BY <1>1, <1>6, <1>7, <1>8, <1>9, EtherCompose, ZenonT(30)


-----------------------------------------------------------------------------
(* The applications, time and faults preserve the invariant. *)

\* A datagram queued for the daemon.
LEMMA MsgSendType ==
  ASSUME TypeOK, NEW n \in Node, NEW r \in Request, msg_send(n, r)
  PROVE  proc_q' \in [Node -> Seq(Request)]
<1>1. proc_q[n] \in Seq(Request) /\ Append(proc_q[n], r) \in Seq(Request)
  BY SeqAppend, ZenonT(30) DEF TypeOK
<1>2. proc_q' = [proc_q EXCEPT ![n] = Append(@, r)] \/ proc_q' = [proc_q EXCEPT ![n] = @]
  BY ZenonT(30) DEF msg_send
<1> QED
  BY <1>1, <1>2, ZenonT(30) DEF TypeOK

\* A user's request.
LEMMA ClientSendStep ==
  ASSUME IInv, NEW w \in Want, ClientSend(w)
  PROVE  IInv'
<1> DEFINE r == [destip |-> w.dest, destport |-> ServPort, msg |-> Len(asked) + 1,
                 filename |-> w.path, route_disc_flag |-> w.flag]
<1>1. w \in [node : Node, path : ClientPath, dest : Node, flag : {0, 1}]
  BY PathAssumption
<1>2. asked \in Seq(Want) /\ Len(asked) \in Nat
  BY DEF IInv, TypeOK
<1>3. r \in Request
  BY <1>1, <1>2, NumberAssumption DEF Request, Path
<1>4. proc_q' \in [Node -> Seq(Request)]
  BY <1>1, <1>3, MsgSendType, ZenonT(30) DEF ClientSend, IInv
<1>5. asked' \in Seq(Want)
  BY <1>2, SeqAppend, ZenonT(30) DEF ClientSend
<1>6. UNCHANGED <<memory, up, chan, app_q, bound, ticks, faults>>
  BY DEF ClientSend
<1>7. rtable' = rtable
  BY <1>6, ZenonT(30) DEF memory
<1> QED
  BY <1>4, <1>5, <1>6, <1>7, SameTables, Compose, ZenonT(30) DEF memory, IInv, TypeOK

\* The server's reply.
LEMMA ServerReplyStep ==
  ASSUME IInv, NEW n \in Node, ServerReply(n)
  PROVE  IInv'
<1> DEFINE m == Head(app_q[n][ServPath])
           r == [destip |-> m.src_ip, destport |-> m.src_port, msg |-> MaxMsg + m.msg,
                 filename |-> ServPath, route_disc_flag |-> 0]
<1>1. ServPath \in Path /\ app_q \in [Node -> [Path -> Seq(Delivery)]]
  BY ZenonT(30) DEF Path, IInv, TypeOK
<1>2. app_q[n][ServPath] \in Seq(Delivery) /\ app_q[n][ServPath] # <<>>
  BY <1>1 DEF ServerReply
<1>3. m \in Delivery /\ Tail(app_q[n][ServPath]) \in Seq(Delivery)
  BY <1>2, SeqHeadTail, ZenonT(30)
<1>4. r \in Request
  BY <1>3, ReplyIsRequest, ZenonT(30)
<1>5. proc_q' \in [Node -> Seq(Request)]
  BY <1>4, MsgSendType, ZenonT(30) DEF ServerReply, IInv
<1>6. app_q' \in [Node -> [Path -> Seq(Delivery)]]
  BY <1>1, <1>3 DEF ServerReply
<1>7. UNCHANGED <<memory, up, chan, bound, asked, ticks, faults>>
  BY ZenonT(30) DEF ServerReply
<1>8. rtable' = rtable
  BY <1>7 DEF memory
<1> QED
  BY <1>5, <1>6, <1>7, <1>8, SameTables, Compose, ZenonT(30) DEF memory, IInv, TypeOK

\* A clock tick ages entries and changes nothing else about them.
LEMMA TickStep ==
  ASSUME IInv, NEW n \in Node, Tick(n)
  PROVE  IInv'
<1>1. rtable \in [Node -> SUBSET Entry] /\ ticks' \in Nat
  BY DEF IInv, TypeOK, Tick
<1>2. \A e \in Entry : /\ aged(e) \in Entry /\ aged(e).destip = e.destip
                       /\ aged(e).next_hop = e.next_hop /\ aged(e).if_no = e.if_no
  BY NumberAssumption DEF Entry, aged
<1>3. \A m \in Node : rtable'[m] = IF m = n THEN {aged(e) : e \in rtable[n]} ELSE rtable[m]
  BY <1>1 DEF Tick
<1>4. rtable' \in [Node -> SUBSET Entry]
  BY <1>1, <1>2, ZenonT(30) DEF Tick
<1>5. RoutesUsable'
  <2> SUFFICES ASSUME NEW m \in Node, NEW g \in rtable'[m]
               PROVE  [from |-> m, to |-> g.next_hop, ifno |-> g.if_no] \in Link
    BY DEF RoutesUsable, unicast
  <2>1. \E e \in rtable[m] : g.next_hop = e.next_hop /\ g.if_no = e.if_no
    <3>1. CASE m = n
      <4>1. PICK e \in rtable[n] : g = aged(e)
        BY <1>3, <3>1, ZenonT(30)
      <4>2. e \in Entry
        BY <1>1
      <4> QED
        BY <1>2, <3>1, <4>1, <4>2
    <3>2. CASE m # n
      BY <1>3, <3>2, ZenonT(30)
    <3> QED
      BY <3>1, <3>2, ZenonT(30)
  <2> QED
    BY <2>1, ZenonT(30) DEF IInv, RoutesUsable, unicast
<1>6. OneEntryPerDest'
  <2> SUFFICES ASSUME NEW m \in Node, NEW g \in rtable'[m], NEW h \in rtable'[m],
                      g.destip = h.destip
               PROVE  g = h
    BY DEF OneEntryPerDest
  <2>1. CASE m = n
    <3>1. PICK e \in rtable[n] : g = aged(e)
      BY <1>3, <2>1, ZenonT(30)
    <3>2. PICK i \in rtable[n] : h = aged(i)
      BY <1>3, <2>1, ZenonT(30)
    <3>3. e.destip = i.destip
      BY <1>1, <1>2, <3>1, <3>2, ZenonT(30)
    <3>4. e = i
      BY <3>3 DEF IInv, OneEntryPerDest
    <3> QED
      BY <3>1, <3>2, <3>4
  <2>2. CASE m # n
    BY <1>3, <2>2, ZenonT(30) DEF IInv, OneEntryPerDest
  <2> QED
    BY <2>1, <2>2
<1>7. UNCHANGED <<pending, bid, portno, port_spath, up, chan, proc_q, apps, faults>>
  BY ZenonT(30) DEF Tick
<1> QED
  BY <1>1, <1>4, <1>5, <1>6, <1>7, Compose, ZenonT(30) DEF apps, IInv, TypeOK

\* A frame is lost, or nobody hears it.
LEMMA LossStep ==
  ASSUME IInv, NEW l \in Link, Lose(l) \/ Unheard(l)
  PROVE  IInv'
<1>1. chan' \in [Link -> Seq(WireFrame)]
  BY TakeType, ZenonT(30) DEF Lose, Unheard
<1>2. faults' \in Nat
  BY DEF Lose, Unheard, Fault, IInv, TypeOK
<1>3. UNCHANGED <<memory, up, proc_q, apps, ticks>>
  BY DEF Lose, Unheard
<1>4. rtable' = rtable
  BY <1>3 DEF memory
<1> QED
  BY <1>1, <1>2, <1>3, <1>4, SameTables, Compose, ZenonT(30) DEF memory, apps, IInv, TypeOK

\* The daemon is killed.
LEMMA KillStep ==
  ASSUME IInv, NEW n \in Node, Kill(n)
  PROVE  IInv'
<1>1. up' \in [Node -> BOOLEAN]
  BY Zenon DEF Kill, IInv, TypeOK
<1>2. faults' \in Nat
  BY DEF Kill, Fault, IInv, TypeOK
<1>3. UNCHANGED <<memory, chan, proc_q, apps, ticks>>
  BY DEF Kill
<1>4. rtable' = rtable
  BY <1>3 DEF memory
<1> QED
  BY <1>1, <1>2, <1>3, <1>4, SameTables, Compose, ZenonT(30) DEF memory, apps, IInv, TypeOK

\* The daemon starts with empty tables.
LEMMA RestartStep ==
  ASSUME IInv, NEW n \in Node, Restart(n)
  PROVE  IInv'
<1>1. up' \in [Node -> BOOLEAN]
  BY Zenon DEF Restart, IInv, TypeOK
<1>2. rtable \in [Node -> SUBSET Entry] /\ rtable' = [rtable EXCEPT ![n] = {}]
  BY DEF Restart, IInv, TypeOK
<1>3. rtable' \in [Node -> SUBSET Entry] /\ \A m \in Node : rtable'[m] \subseteq rtable[m]
  BY <1>2, ZenonT(30)
<1>4. RoutesUsable' /\ OneEntryPerDest'
  BY <1>3 DEF IInv, RoutesUsable, OneEntryPerDest, unicast
<1>5. pending' \in [Node -> Seq(ParkedFrame)] /\ proc_q' \in [Node -> Seq(Request)]
  BY DEF Restart, IInv, TypeOK
<1>6. bid' \in [Node -> Nat] /\ portno' \in [Node -> Int]
  BY NumberAssumption, ZenonT(30) DEF Restart, IInv, TypeOK, FirstBid
<1>7. port_spath' \in [Node -> Seq(PortEntry)]
  <2>1. InitPorts \in Seq(PortEntry)
    BY NumberAssumption DEF InitPorts, PortEntry, Path
  <2> QED
    BY <2>1 DEF Restart, IInv, TypeOK
<1>8. UNCHANGED <<chan, apps, ticks, faults>>
  BY DEF Restart
<1> QED
  BY <1>1, <1>3, <1>4, <1>5, <1>6, <1>7, <1>8, Compose, ZenonT(30) DEF apps, IInv, TypeOK

\* Applications come and go.
LEMMA AppStep ==
  ASSUME IInv, NEW n \in Node, NEW p \in Path, AppExit(n, p) \/ ServerStart(n)
  PROVE  IInv'
<1>1. bound' \in [Node -> SUBSET Path]
  <2>1. bound[n] \subseteq Path /\ bound \in [Node -> SUBSET Path] /\ ServPath \in Path
    BY ZenonT(30) DEF IInv, TypeOK, Path
  <2>2. bound[n] \ {p} \in SUBSET Path /\ bound[n] \cup {ServPath} \in SUBSET Path
    BY <2>1
  <2>3. \/ bound' = [bound EXCEPT ![n] = bound[n] \ {p}]
        \/ bound' = [bound EXCEPT ![n] = bound[n] \cup {ServPath}]
    BY DEF AppExit, ServerStart
  <2> QED
    BY <2>1, <2>2, <2>3, ZenonT(30)
<1>2. app_q' \in [Node -> [Path -> Seq(Delivery)]]
  <2>1. app_q \in [Node -> [Path -> Seq(Delivery)]] /\ <<>> \in Seq(Delivery)
    BY DEF IInv, TypeOK
  <2>2. app_q' = app_q \/ app_q' = [app_q EXCEPT ![n] = [app_q[n] EXCEPT ![p] = <<>>]]
    BY DEF AppExit, ServerStart
  <2>3. [app_q[n] EXCEPT ![p] = <<>>] \in [Path -> Seq(Delivery)]
    BY <2>1, ZenonT(30)
  <2> QED
    BY <2>1, <2>2, <2>3, ZenonT(30)
<1>3. faults' \in Nat
  BY DEF AppExit, ServerStart, Fault, IInv, TypeOK
<1>4. UNCHANGED <<memory, up, chan, proc_q, asked, ticks>>
  BY DEF AppExit, ServerStart
<1>5. rtable' = rtable
  BY <1>4 DEF memory
<1> QED
  BY <1>1, <1>2, <1>3, <1>4, <1>5, SameTables, Compose, ZenonT(30) DEF memory, IInv, TypeOK

-----------------------------------------------------------------------------
(* The theorems. *)

\* The invariant holds when the daemons start.
LEMMA InitIInv == Init => IInv
<1> SUFFICES ASSUME Init PROVE IInv
  OBVIOUS
<1>1. InitPorts \in Seq(PortEntry)
  BY NumberAssumption DEF InitPorts, PortEntry, Path
<1>2. up \in [Node -> BOOLEAN]
  BY Zenon DEF Init
<1>3. TypeOK
  BY <1>1, <1>2, NumberAssumption, PathAssumption DEF Init, TypeOK, FirstBid
<1>4. chan \in [Link -> Seq(WireFrame)] /\ pending \in [Node -> Seq(ParkedFrame)]
  BY DEF Init
<1>5. RoutesUsable /\ OneEntryPerDest
  BY DEF Init, RoutesUsable, OneEntryPerDest
<1> QED
  BY <1>3, <1>4, <1>5 DEF IInv

\* Every step of a daemon, an application, the network or the clock keeps it.
LEMMA NextIInv == IInv /\ [Next]_vars => IInv'
<1> SUFFICES ASSUME IInv, [Next]_vars PROVE IInv'
  OBVIOUS
<1>1. ASSUME NEW n \in Node, HandlePeerMsg(n) PROVE IInv'
  BY <1>1, PeerLocalStep, PeerDiscoverStep, PeerSendStep DEF HandlePeerMsg
<1>2. ASSUME NEW n \in Node, ServerReply(n) PROVE IInv'
  BY <1>2, ServerReplyStep, ZenonT(30)
<1>3. ASSUME NEW l \in Link, HandleEthernetMsg(l) PROVE IInv'
  BY <1>3, IgnoreDuplicateStep, RreqAtDestStep, RreqFromTableStep, RreqFloodStep,
     RrepAtDestStep, RrepUnusedStep, RrepForwardStep, RrepParkStep,
     DataAtDestStep, DataForwardStep, DataParkStep, AsentStep DEF HandleEthernetMsg
<1>4. ASSUME NEW l \in Link, Unheard(l) PROVE IInv'
  BY <1>4, LossStep
<1>5. ASSUME Environment PROVE IInv'
  <2>1. ServPath \in Path
    BY ZenonT(30) DEF Path
  <2> QED
    BY <1>5, <2>1, ClientSendStep, TickStep, LossStep, KillStep, RestartStep, AppStep
    DEF Environment
<1>6. CASE UNCHANGED vars
  <2>1. rtable' = rtable
    BY <1>6 DEF vars, memory
  <2> QED
    BY <1>6, <2>1, SameTables, Compose, ZenonT(30) DEF vars, memory, apps, IInv, TypeOK
<1> QED
  BY <1>1, <1>2, <1>3, <1>4, <1>5, <1>6 DEF Next

\* The inductive invariant holds in every network.
THEOREM Invariance == Spec => []IInv
BY InitIInv, NextIInv, PTL DEF Spec

\* Type correctness of every daemon's memory, queue and frame.
THEOREM TypeCorrect == Spec => []TypeOK
<1>1. IInv => TypeOK
  BY DEF IInv
<1> QED
  BY <1>1, Invariance, PTL

\* Every route a daemon ever holds leads over one of its own interfaces to a
\* neighbour there, whatever frames were lost, parked or answered by others.
THEOREM UsableRoutes == Spec => []RoutesUsable
<1>1. IInv => RoutesUsable
  BY DEF IInv
<1> QED
  BY <1>1, Invariance, PTL

\* No daemon ever has two entries for a destination.
THEOREM UniqueRoutes == Spec => []OneEntryPerDest
<1>1. IInv => OneEntryPerDest
  BY ZenonT(30) DEF IInv
<1> QED
  BY <1>1, Invariance, PTL

\* Frames are in network order on the wire and in host order in the queue.
THEOREM OrderKept == Spec => []ByteOrder
<1>1. IInv => ByteOrder
  <2> SUFFICES ASSUME IInv PROVE ByteOrder
    OBVIOUS
  <2>1. \A l \in Link : \A i \in DOMAIN chan[l] : chan[l][i] \in WireFrame
    BY SeqElements DEF IInv
  <2>2. \A n \in Node : \A i \in DOMAIN pending[n] : pending[n][i] \in ParkedFrame
    BY SeqElements, ZenonT(30) DEF IInv
  <2> QED
    BY <2>1, <2>2 DEF ByteOrder, WireFrame, ParkedFrame
<1> QED
  BY <1>1, Invariance, PTL

\* Only route requests carry the flag that makes nodes drop routes.
THEOREM FlagsConfined == Spec => []FlagOnlyOnRreq
<1>1. IInv => FlagOnlyOnRreq
  <2> SUFFICES ASSUME IInv PROVE FlagOnlyOnRreq
    OBVIOUS
  <2>1. \A l \in Link : \A i \in DOMAIN chan[l] : chan[l][i] \in WireFrame
    BY SeqElements DEF IInv
  <2>2. \A n \in Node : \A i \in DOMAIN pending[n] : pending[n][i] \in ParkedFrame
    BY SeqElements DEF IInv
  <2> QED
    BY <2>1, <2>2, ZenonT(30) DEF FlagOnlyOnRreq, WireFrame, ParkedFrame
<1> QED
  BY <1>1, Invariance, PTL

-----------------------------------------------------------------------------
(* Ports. *)

\* The ports in a table were handed out before the counter came to k, and they
\* are distinct as long as it has not come to the server's.
PortsBelow(t, k) == \A i \in DOMAIN t : t[i].portno = ServPort \/ t[i].portno < k
Distinct(t)      == \A i, j \in DOMAIN t : t[i].portno = t[j].portno => i = j
PInv ==
  \A n \in Node : /\ PortsBelow(port_spath[n], portno[n])
                  /\ portno[n] <= ServPort => Distinct(port_spath[n])

\* A table that holds the server's port alone.
LEMMA InitPortsFacts == PortsBelow(InitPorts, FirstPort) /\ Distinct(InitPorts)
BY DEF InitPorts, PortsBelow, Distinct

\* insert_map_port_sp in front of a table, with the counter's port.
LEMMA NewPort ==
  ASSUME NEW t \in Seq(PortEntry), NEW k \in Int, NEW path \in Path,
         PortsBelow(t, k), k <= ServPort => Distinct(t)
  PROVE  LET u == <<[portno |-> k, sun_path |-> path]>> \o t IN
           /\ PortsBelow(u, k + 1)
           /\ k + 1 <= ServPort => Distinct(u)
<1> DEFINE e == [portno |-> k, sun_path |-> path]
           u == <<e>> \o t
<1>1. /\ DOMAIN t = 1 .. Len(t) /\ Len(t) \in Nat
      /\ DOMAIN u = 1 .. (Len(t) + 1)
      /\ u[1] = e
      /\ \A i \in 2 .. (Len(t) + 1) : u[i] = t[i - 1]
  <2>1. e \in PortEntry
    BY DEF PortEntry
  <2>2. <<e>> \in Seq(PortEntry) /\ Len(<<e>>) = 1 /\ <<e>>[1] = e
    BY <2>1
  <2> HIDE DEF e
  <2> QED
    BY <2>2, SeqConcat, SeqElements
<1>2. \A i \in DOMAIN t : t[i].portno \in Int
  <2>1. \A i \in DOMAIN t : t[i] \in PortEntry
    BY SeqElements, ZenonT(30)
  <2> QED
    BY <2>1 DEF PortEntry
<1> HIDE DEF u
<1>3. \A i \in DOMAIN u : i = 1 \/ (i - 1 \in DOMAIN t /\ u[i] = t[i - 1])
  BY <1>1
<1>4. u[1].portno = k
  BY <1>1
<1>5. PortsBelow(u, k + 1)
  BY <1>2, <1>3, <1>4 DEF PortsBelow
<1>6. ASSUME k + 1 <= ServPort, NEW i \in DOMAIN u, NEW j \in DOMAIN u,
             u[i].portno = u[j].portno
      PROVE  i = j
  <2>1. Distinct(t) /\ k # ServPort /\ k <= ServPort
    BY <1>6, NumberAssumption
  <2>2. \A h \in DOMAIN t : t[h].portno # k
    BY <1>2, <2>1 DEF PortsBelow
  <2>3. CASE i = 1 \/ j = 1
    BY <1>3, <1>4, <1>6, <2>2, <2>3, ZenonT(30)
  <2>4. CASE i # 1 /\ j # 1
    <3>1. i - 1 = j - 1
      BY <1>3, <1>6, <2>1, <2>4 DEF Distinct
    <3> QED
      BY <1>1, <3>1
  <2> QED
    BY <2>3, <2>4
<1> QED
  BY <1>5, <1>6, ZenonT(30) DEF Distinct, u

\* fetch_entry_path keeps the ports apart.
LEMMA FetchPathPorts ==
  ASSUME TypeOK, PInv, NEW n \in Node, NEW path \in Path, NEW port,
         fetch_entry_path(n, path, port)
  PROVE  PInv'
<1>1. port_spath \in [Node -> Seq(PortEntry)] /\ portno \in [Node -> Int]
  BY ZenonT(30) DEF TypeOK
<1>2. CASE UNCHANGED <<port_spath, portno>>
  BY <1>2 DEF PInv, PortsBelow, Distinct
<1>3. CASE /\ port = portno[n]
           /\ port_spath' = [port_spath EXCEPT
                               ![n] = <<[portno |-> port, sun_path |-> path]>> \o @]
           /\ portno' = [portno EXCEPT ![n] = @ + 1]
  <2>1. \A m \in Node : m # n => port_spath'[m] = port_spath[m] /\ portno'[m] = portno[m]
    BY <1>1, <1>3, ZenonT(30)
  <2>2. /\ port_spath'[n] = <<[portno |-> portno[n], sun_path |-> path]>> \o port_spath[n]
        /\ portno'[n] = portno[n] + 1
    BY <1>1, <1>3, ZenonT(30)
  <2>3. PortsBelow(port_spath[n], portno[n]) /\ (portno[n] <= ServPort => Distinct(port_spath[n]))
    BY ZenonT(30) DEF PInv
  <2>4. /\ PortsBelow(port_spath'[n], portno'[n])
        /\ portno'[n] <= ServPort => Distinct(port_spath'[n])
    BY <1>1, <2>2, <2>3, NewPort
  <2>5. \A m \in Node : m # n =>
          /\ PortsBelow(port_spath'[m], portno'[m])
          /\ portno'[m] <= ServPort => Distinct(port_spath'[m])
    BY <2>1, ZenonT(30) DEF PInv
  <2> QED
    BY <2>4, <2>5, ZenonT(30) DEF PInv, PortsBelow, Distinct
<1> QED
  BY <1>2, <1>3, ZenonT(30) DEF fetch_entry_path

\* Ports stay below the counter, and stay apart.
LEMMA InitPInv == Init => PInv
BY InitPortsFacts DEF Init, PInv

LEMMA NextPInv ==
  ASSUME IInv, PInv, [Next]_vars
  PROVE  PInv'
<1>1. TypeOK
  BY ZenonT(30) DEF IInv
<1>2. CASE UNCHANGED <<port_spath, portno>>
  BY <1>2, ZenonT(30) DEF PInv, PortsBelow, Distinct
<1>3. ASSUME NEW n \in Node, HandlePeerMsg(n) PROVE PInv'
  <2>1. PeerMsg(n) /\ \E port \in Ports(n) : fetch_entry_path(n, Head(proc_q[n]).filename, port)
    BY <1>3, ZenonT(30) DEF HandlePeerMsg, PeerLocal, PeerDiscover, PeerSend
  <2>2. Head(proc_q[n]).filename \in Path
    BY <1>1, <2>1, PeerType, ZenonT(30) DEF Request
  <2> QED
    BY <1>1, <2>1, <2>2, FetchPathPorts
<1>4. ASSUME NEW l \in Link, HandleEthernetMsg(l) \/ Unheard(l) \/ Lose(l)
      PROVE  UNCHANGED <<port_spath, portno>>
  BY <1>4 DEF HandleEthernetMsg, IgnoreDuplicate, memory, RreqAtDest,
     RreqFromTable, RreqFlood, RrepAtDest, RrepUnused, RrepForward, RrepPark,
     DataAtDest, DataForward, DataPark, Asent, Unheard, Lose
<1>5. ASSUME NEW n \in Node, Restart(n) PROVE PInv'
  <2>1. port_spath' = [port_spath EXCEPT ![n] = InitPorts] /\ portno' = [portno EXCEPT ![n] = FirstPort]
    BY <1>5 DEF Restart
  <2>2. port_spath \in [Node -> Seq(PortEntry)] /\ portno \in [Node -> Int]
    BY <1>1 DEF TypeOK
  <2>3. \A m \in Node :
          \/ port_spath'[m] = InitPorts /\ portno'[m] = FirstPort
          \/ port_spath'[m] = port_spath[m] /\ portno'[m] = portno[m]
    BY <2>1, <2>2, ZenonT(30)
  <2>4. \A m \in Node : /\ PortsBelow(port_spath'[m], portno'[m])
                        /\ portno'[m] <= ServPort => Distinct(port_spath'[m])
    BY <2>3, InitPortsFacts, ZenonT(30) DEF PInv
  <2> QED
    BY <2>4, ZenonT(30) DEF PInv, PortsBelow, Distinct
<1>6. ASSUME NEW n \in Node, NEW p \in Path,
             Tick(n) \/ Kill(n) \/ ServerStart(n) \/ AppExit(n, p) \/ ServerReply(n)
      PROVE  UNCHANGED <<port_spath, portno>>
  BY <1>6 DEF Tick, Kill, ServerStart, AppExit, ServerReply, memory
<1>7. ASSUME NEW w \in Want, ClientSend(w) PROVE UNCHANGED <<port_spath, portno>>
  BY <1>7, ZenonT(30) DEF ClientSend, memory
<1>8. CASE UNCHANGED vars
  BY <1>2, <1>8 DEF vars, memory
<1>9. ServPath \in Path
  BY ZenonT(30) DEF Path
<1>10. CASE Environment
  BY <1>2, <1>4, <1>5, <1>6, <1>7, <1>9, <1>10 DEF Environment
<1> QED
  BY <1>2, <1>3, <1>4, <1>6, <1>8, <1>9, <1>10 DEF Next

\* No two entries of a port table have the same port, on any machine and however
\* many clients come and go, until 4591 clients have been given a port.
THEOREM PortsApart == Spec => []PortsUnique
<1>1. PInv => PortsUnique
  BY ZenonT(30) DEF PInv, PortsUnique, Distinct
<1> QED
  BY <1>1, InitPInv, NextPInv, Invariance, PTL DEF Spec

-----------------------------------------------------------------------------
(* What is on the links, and what the handlers put there. *)

Vals(s) == {s[i] : i \in DOMAIN s}

Rest(in, k) == IF k \in in THEN Tail(chan[k]) ELSE chan[k]

LEMMA SentLinks ==
  ASSUME NEW in, NEW out, chan' = Sent(in, out), NEW k \in Link
  PROVE  chan'[k] = IF k \in DOMAIN out THEN Append(Rest(in, k), out[k]) ELSE Rest(in, k)
BY DEF Sent, Rest

\* A frame is sent over a link, or none is.
LEMMA TransmitLinks ==
  ASSUME NEW n, NEW in, NEW out, Transmit(n, in, out), NEW k \in Link
  PROVE  \/ chan'[k] = Rest(in, k)
         \/ k \in DOMAIN out /\ chan'[k] = Append(Rest(in, k), out[k])
<1>1. CASE chan' = Sent(in, out)
  BY <1>1, SentLinks, ZenonT(30)
<1>2. CASE \E I \in SUBSET Seg :
             chan' = Sent(in, [j \in {i \in DOMAIN out : i.ifno \in I} |-> out[j]])
  <2>1. PICK I \in SUBSET Seg :
          chan' = Sent(in, [j \in {i \in DOMAIN out : i.ifno \in I} |-> out[j]])
    BY <1>2, ZenonT(30)
  <2> DEFINE some == [j \in {i \in DOMAIN out : i.ifno \in I} |-> out[j]]
  <2>2. chan'[k] = IF k \in DOMAIN some THEN Append(Rest(in, k), some[k]) ELSE Rest(in, k)
    BY <2>1, SentLinks, ZenonT(30)
  <2>3. k \in DOMAIN some => k \in DOMAIN out /\ some[k] = out[k]
    OBVIOUS
  <2> QED
    BY <2>2, <2>3, ZenonT(30)
<1> QED
  BY <1>1, <1>2, ZenonT(30) DEF Transmit

\* What is on a link after a handler has sent.
LEMMA LinkVals ==
  ASSUME IInv, NEW in, \A j \in in : chan[j] # <<>>, NEW out,
         \A k \in DOMAIN out : out[k] \in WireFrame, NEW k \in Link, NEW v \in Vals(chan'[k]),
         \/ chan'[k] = Rest(in, k)
         \/ k \in DOMAIN out /\ chan'[k] = Append(Rest(in, k), out[k])
  PROVE  v \in Vals(chan[k]) \/ (k \in DOMAIN out /\ v = out[k])
<1>a. chan[k] \in Seq(WireFrame)
  BY ZenonT(30) DEF IInv
<1>1. Rest(in, k) \in Seq(WireFrame) /\ chan[k] \in Seq(WireFrame)
  BY <1>a, SeqHeadTail, ZenonT(30) DEF Rest
<1>2. \A w \in Vals(Rest(in, k)) : w \in Vals(chan[k])
  <2>1. CASE k \in in
    <3>1. chan[k] # <<>> /\ Rest(in, k) = Tail(chan[k])
      BY <2>1, ZenonT(30) DEF Rest
    <3>2. /\ DOMAIN Tail(chan[k]) = 1 .. (Len(chan[k]) - 1) /\ Len(chan[k]) \in Nat
          /\ \A i \in 1 .. (Len(chan[k]) - 1) : Tail(chan[k])[i] = chan[k][i + 1]
          /\ DOMAIN chan[k] = 1 .. Len(chan[k])
      <4>1. /\ Tail(chan[k]) \in Seq(WireFrame) /\ Len(Tail(chan[k])) = Len(chan[k]) - 1
            /\ \A i \in 1 .. Len(Tail(chan[k])) : Tail(chan[k])[i] = chan[k][i + 1]
        BY <1>1, <3>1, SeqHeadTail, ZenonT(30)
      <4>2. /\ DOMAIN Tail(chan[k]) = 1 .. Len(Tail(chan[k])) /\ Len(chan[k]) \in Nat
            /\ DOMAIN chan[k] = 1 .. Len(chan[k])
        BY <1>1, <4>1, SeqElements, ZenonT(30)
      <4> QED
        BY <4>1, <4>2, ZenonT(30)
    <3>3. ASSUME NEW i \in DOMAIN Tail(chan[k])
          PROVE  i + 1 \in DOMAIN chan[k] /\ Tail(chan[k])[i] = chan[k][i + 1]
      BY <3>2
    <3> QED
      BY <3>1, <3>3, ZenonT(30) DEF Vals
  <2>2. CASE k \notin in
    BY <2>2, ZenonT(30) DEF Rest
  <2> QED
    BY <2>1, <2>2, ZenonT(30)
<1>3. CASE chan'[k] = Rest(in, k)
  BY <1>2, <1>3, ZenonT(30)
<1>4. CASE k \in DOMAIN out /\ chan'[k] = Append(Rest(in, k), out[k])
  <2>1. out[k] \in WireFrame
    BY <1>4, ZenonT(30)
  <2> DEFINE s == Rest(in, k)
             t == chan'[k]
  <2>3. /\ DOMAIN t = 1 .. (Len(s) + 1) /\ DOMAIN s = 1 .. Len(s) /\ Len(s) \in Nat
        /\ t[Len(s) + 1] = out[k] /\ \A i \in 1 .. Len(s) : t[i] = s[i]
    BY <1>1, <1>4, <2>1
  <2>4. PICK i \in DOMAIN t : v = t[i]
    BY ZenonT(30) DEF Vals
  <2> HIDE DEF s, t
  <2>5. i = Len(s) + 1 \/ i \in DOMAIN s
    BY <2>3, <2>4
  <2>6. v = out[k] \/ v \in Vals(s)
    BY <2>3, <2>4, <2>5 DEF Vals
  <2> QED
    BY <1>2, <1>4, <2>6, ZenonT(30) DEF s
<1> QED
  BY <1>3, <1>4, ZenonT(30)

\* The frame a handler works on carries what the one on the wire did.
LEMMA RecvdIs ==
  ASSUME IInv, NEW l \in Link, Receive(l)
  PROVE  /\ Head(chan[l]) \in WireFrame
         /\ Recvd(l).frame_type = Head(chan[l]).frame_type
         /\ Recvd(l).payload = Head(chan[l]).payload
         /\ Recvd(l).src_ip = Head(chan[l]).src_ip
         /\ Recvd(l).dest_ip = Head(chan[l]).dest_ip
         /\ Recvd(l).src_port = Head(chan[l]).src_port
         /\ Recvd(l).dst_port = Head(chan[l]).dst_port
         /\ Recvd(l).broadcast_id = Head(chan[l]).broadcast_id
         /\ Recvd(l).hop_count = Head(chan[l]).hop_count
         /\ Recvd(l).route_disc_flag = Head(chan[l]).route_disc_flag
         /\ Head(chan[l]) \in Vals(chan[l])
<1>1. chan[l] \in Seq(WireFrame) /\ chan[l] # <<>>
  BY DEF IInv, Receive
<1>2. Head(chan[l]) \in WireFrame
  BY <1>1, SeqHeadTail
<1>3. Head(chan[l]) \in Vals(chan[l])
  <2>1. Head(chan[l]) = chan[l][1] /\ 1 \in DOMAIN chan[l]
    BY <1>1
  <2> QED
    BY <2>1 DEF Vals
<1> QED
  BY <1>2, <1>3, ZenonT(30) DEF Recvd, convert_net_host_order, SwapOrder, WireFrame, Frame

=============================================================================
