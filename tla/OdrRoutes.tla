----------------------------- MODULE OdrRoutes -----------------------------
(***************************************************************************)
(* Floods and routes, for every network in which no daemon is restarted.   *)
(***************************************************************************)
EXTENDS OdrProofs

\* The backends tried in turn for a leaf that names none.
USE SMT, Zenon, Z3, SMTT(20)

-----------------------------------------------------------------------------
(* Floods.  A daemon that does not restart never uses a broadcast id twice, *)
(* and whoever passes a flood on leaves alone what identifies it.           *)

Flood(f) == f.frame_type \in {"RREQ", "ASENT"}

\* Copies of one flood.
Like(f, g) ==
  /\ f.src_ip = g.src_ip /\ f.broadcast_id = g.broadcast_id /\ f.dest_ip = g.dest_ip
  /\ f.src_port = g.src_port /\ f.dst_port = g.dst_port
  /\ f.route_disc_flag = g.route_disc_flag

\* The flood frames on the links.
OnLinks(ch) == UNION {{f \in Vals(ch[k]) : Flood(f)} : k \in Link}

\* A flood's id has been counted, and an id is one flood's.
FloodsApart(F, ids) ==
  \A f \in F : /\ f.broadcast_id <= ids[f.src_ip]
               /\ \A g \in F : f.src_ip = g.src_ip /\ f.broadcast_id = g.broadcast_id => Like(f, g)

FInv == FloodsApart(OnLinks(chan), bid)

\* A flood that forces no discovery goes on as a frame of either type.
LEMMA UnflaggedFlood ==
  ASSUME NEW f \in HostFrame, f.route_disc_flag = 0, NEW n \in Node
  PROVE  \A type \in {"RREQ", "ASENT"} : flood_onward(f, type) \in WireFrame
BY MadeFrames

\* A step that only passes floods on.
LEMMA FloodsKept ==
  ASSUME NEW F, NEW ids \in [Node -> Nat], FloodsApart(F, ids), \A g \in F : g \in WireFrame,
         NEW F2, NEW ids2 \in [Node -> Nat], \A n \in Node : ids[n] <= ids2[n],
         \A f \in F2 : \E g \in F : Like(f, g)
  PROVE  FloodsApart(F2, ids2)
<1> SUFFICES ASSUME NEW f \in F2
             PROVE  /\ f.broadcast_id <= ids2[f.src_ip]
                    /\ \A g \in F2 : f.src_ip = g.src_ip /\ f.broadcast_id = g.broadcast_id
                                       => Like(f, g)
  BY DEF FloodsApart
<1>1. PICK f1 \in F : Like(f, f1)
  OBVIOUS
<1>2. f1.src_ip \in Node /\ f1.broadcast_id \in Nat
  BY DEF WireFrame, Frame
<1>3. f1.broadcast_id <= ids[f1.src_ip]
  BY DEF FloodsApart
<1>4. f.broadcast_id <= ids2[f.src_ip]
  <2>1. ids[f1.src_ip] \in Nat /\ ids2[f1.src_ip] \in Nat /\ ids[f1.src_ip] <= ids2[f1.src_ip]
    BY <1>2
  <2>2. f.broadcast_id = f1.broadcast_id /\ f.src_ip = f1.src_ip
    BY <1>1 DEF Like
  <2> QED
    BY <1>2, <1>3, <2>1, <2>2
<1>5. ASSUME NEW g \in F2, f.src_ip = g.src_ip, f.broadcast_id = g.broadcast_id
      PROVE  Like(f, g)
  <2>1. PICK g1 \in F : Like(g, g1)
    OBVIOUS
  <2>2. Like(f1, g1)
    BY <1>1, <1>5, <2>1 DEF FloodsApart, Like
  <2> QED
    BY <1>1, <2>1, <2>2 DEF Like
<1> QED
  BY <1>4, <1>5

\* A step that starts a flood, under an id its node has not used.
LEMMA FloodsBegun ==
  ASSUME NEW F, NEW ids \in [Node -> Nat], FloodsApart(F, ids), \A g \in F : g \in WireFrame,
         NEW F2, NEW ids2 \in [Node -> Nat], \A n \in Node : ids[n] <= ids2[n],
         NEW h \in WireFrame, ids[h.src_ip] < h.broadcast_id,
         h.broadcast_id <= ids2[h.src_ip],
         \A f \in F2 : Like(f, h) \/ \E g \in F : Like(f, g)
  PROVE  FloodsApart(F2, ids2)
<1>1. h.src_ip \in Node /\ h.broadcast_id \in Nat
  BY DEF WireFrame, Frame
<1>2. ASSUME NEW g \in F PROVE ~(g.src_ip = h.src_ip /\ g.broadcast_id = h.broadcast_id)
  <2>1. g.broadcast_id <= ids[g.src_ip] /\ g.src_ip \in Node /\ g.broadcast_id \in Nat
    BY DEF FloodsApart, WireFrame, Frame
  <2>2. ids[h.src_ip] \in Nat
    BY <1>1
  <2> QED
    BY <1>1, <2>1, <2>2
<1>3. FloodsApart(F \cup {h}, ids2)
  <2>1. ASSUME NEW f \in F PROVE f.broadcast_id <= ids2[f.src_ip]
    <3>1. f.broadcast_id <= ids[f.src_ip] /\ f.src_ip \in Node /\ f.broadcast_id \in Nat
      BY DEF FloodsApart, WireFrame, Frame
    <3>2. ids[f.src_ip] \in Nat /\ ids2[f.src_ip] \in Nat /\ ids[f.src_ip] <= ids2[f.src_ip]
      BY <3>1
    <3> QED
      BY <3>1, <3>2
  <2>2. Like(h, h)
    BY DEF Like
  <2>3. \A f, g \in F : f.src_ip = g.src_ip /\ f.broadcast_id = g.broadcast_id => Like(f, g)
    BY DEF FloodsApart
  <2> QED
    BY <1>2, <2>1, <2>2, <2>3 DEF FloodsApart
<1>4. \A f \in F2 : \E g \in F \cup {h} : Like(f, g)
  OBVIOUS
<1>5. \A n \in Node : ids2[n] <= ids2[n]
  OBVIOUS
<1>6. \A g \in F \cup {h} : g \in WireFrame
  OBVIOUS
<1> QED
  BY <1>3, <1>4, <1>5, <1>6, FloodsKept

\* No daemon's counter goes back.
Counts == bid' \in [Node -> Nat] /\ \A n \in Node : bid[n] <= bid'[n]

LEMMA CountsOn ==
  ASSUME IInv, NEW n \in Node, NEW k \in Nat, bid' = bid \/ bid' = [bid EXCEPT ![n] = @ + k]
  PROVE  Counts
<1>1. bid \in [Node -> Nat]
  BY DEF IInv, TypeOK
<1> QED
  BY <1>1 DEF Counts

LEMMA LinkFloods ==
  ASSUME IInv
  PROVE  /\ \A g \in OnLinks(chan) : g \in WireFrame
         /\ \A k \in Link : \A v \in Vals(chan[k]) : Flood(v) => v \in OnLinks(chan)
         /\ bid \in [Node -> Nat]
<1>1. bid \in [Node -> Nat] /\ chan \in [Link -> Seq(WireFrame)]
  BY DEF IInv, TypeOK
<1>2. ASSUME NEW k \in Link, NEW v \in Vals(chan[k]) PROVE v \in WireFrame
  <2>1. chan[k] \in Seq(WireFrame)
    BY <1>1
  <2> QED
    BY <2>1 DEF Vals
<1> QED
  BY <1>1, <1>2 DEF OnLinks

\* A handler that sends only replies, data and floods it has received.
LEMMA OnwardFloods ==
  ASSUME IInv, FInv, Counts, NEW n, NEW in, \A j \in in : chan[j] # <<>>, NEW S,
         NEW out \in [S -> WireFrame], Transmit(n, in, out),
         \A k \in S : Flood(out[k]) => \E g \in OnLinks(chan) : Like(out[k], g)
  PROVE  FInv'
<1>1. ASSUME NEW f \in OnLinks(chan') PROVE \E g \in OnLinks(chan) : Like(f, g)
  <2>1. PICK k \in Link : f \in Vals(chan'[k]) /\ Flood(f)
    BY DEF OnLinks
  <2>2. f \in Vals(chan[k]) \/ (k \in DOMAIN out /\ f = out[k])
    <3>1. \A j \in DOMAIN out : out[j] \in WireFrame
      OBVIOUS
    <3>2. \/ chan'[k] = Rest(in, k)
          \/ k \in DOMAIN out /\ chan'[k] = Append(Rest(in, k), out[k])
      BY TransmitLinks
    <3> QED
      BY <2>1, <3>1, <3>2, LinkVals, ZenonT(30)
  <2>3. CASE f \in Vals(chan[k])
    BY <2>1, <2>3, LinkFloods DEF Like
  <2>4. CASE k \in DOMAIN out /\ f = out[k]
    BY <2>1, <2>4
  <2> QED
    BY <2>2, <2>3, <2>4
<1>2. FloodsApart(OnLinks(chan), bid)
  BY DEF FInv
<1>3. FloodsApart(OnLinks(chan'), bid')
  BY <1>1, <1>2, LinkFloods, FloodsKept, ZenonT(30) DEF Counts
<1> QED
  BY <1>3 DEF FInv

\* A handler that starts the flood h.
LEMMA NewFloods ==
  ASSUME IInv, FInv, Counts, NEW n, NEW in, \A j \in in : chan[j] # <<>>, NEW S,
         NEW out \in [S -> WireFrame], Transmit(n, in, out),
         NEW h \in WireFrame, \A k \in S : out[k] = h,
         bid[h.src_ip] < h.broadcast_id, h.broadcast_id <= bid'[h.src_ip]
  PROVE  FInv'
<1>1. ASSUME NEW f \in OnLinks(chan')
      PROVE  Like(f, h) \/ \E g \in OnLinks(chan) : Like(f, g)
  <2>1. PICK k \in Link : f \in Vals(chan'[k]) /\ Flood(f)
    BY DEF OnLinks
  <2>2. f \in Vals(chan[k]) \/ (k \in DOMAIN out /\ f = out[k])
    <3>1. \A j \in DOMAIN out : out[j] \in WireFrame
      OBVIOUS
    <3>2. \/ chan'[k] = Rest(in, k)
          \/ k \in DOMAIN out /\ chan'[k] = Append(Rest(in, k), out[k])
      BY TransmitLinks
    <3> QED
      BY <2>1, <3>1, <3>2, LinkVals, ZenonT(30)
  <2>3. CASE f \in Vals(chan[k])
    BY <2>1, <2>3, LinkFloods DEF Like
  <2>4. CASE k \in DOMAIN out /\ f = out[k]
    BY <2>4 DEF Like
  <2> QED
    BY <2>2, <2>3, <2>4
<1>2. FloodsApart(OnLinks(chan), bid)
  BY DEF FInv
<1>3. FloodsApart(OnLinks(chan'), bid')
  BY <1>1, <1>2, LinkFloods, FloodsBegun, ZenonT(30) DEF Counts
<1> QED
  BY <1>3 DEF FInv

\* A step that sends nothing.
LEMMA NoFloods ==
  ASSUME IInv, FInv, bid' = bid,
         \/ chan' = chan
         \/ \E l \in Link : chan[l] # <<>> /\ chan' = Sent({l}, <<>>)
  PROVE  FInv'
<1>1. CASE chan' = chan
  BY <1>1 DEF FInv
<1>2. ASSUME NEW l \in Link, chan[l] # <<>>, chan' = Sent({l}, <<>>)
      PROVE  FInv'
  <2>1. \A j \in {l} : chan[j] # <<>>
    BY <1>2
  <2>2. DOMAIN <<>> = {}
    OBVIOUS
  <2>3. ASSUME NEW f \in OnLinks(chan') PROVE \E g \in OnLinks(chan) : Like(f, g)
    <3>1. PICK k \in Link : f \in Vals(chan'[k]) /\ Flood(f)
      BY DEF OnLinks
    <3>2. chan'[k] = Rest({l}, k)
      BY <1>2, <2>2, SentLinks, ZenonT(30)
    <3>3. f \in Vals(chan[k])
      BY <2>1, <2>2, <3>1, <3>2, LinkVals, ZenonT(30)
    <3> QED
      BY <3>1, <3>3, LinkFloods DEF Like
  <2>4. FloodsApart(OnLinks(chan), bid) /\ \A n \in Node : bid[n] <= bid[n]
    BY LinkFloods DEF FInv
  <2>5. FloodsApart(OnLinks(chan'), bid)
    BY <2>3, <2>4, LinkFloods, FloodsKept
  <2> QED
    BY <2>5 DEF FInv
<1> QED
  BY <1>1, <1>2, ZenonT(30)
-----------------------------------------------------------------------------
(* The handlers that send. *)

\* What is passed on is a copy of what came.
LEMMA OnwardLike ==
  ASSUME IInv, NEW l \in Link, Receive(l), Flood(Recvd(l)), NEW type
  PROVE  \E g \in OnLinks(chan) : Like(flood_onward(Recvd(l), type), g)
<1>1. /\ Head(chan[l]) \in WireFrame /\ Head(chan[l]) \in Vals(chan[l])
      /\ Recvd(l).frame_type = Head(chan[l]).frame_type
  BY RecvdIs
<1> DEFINE f == Head(chan[l])
<1>2. f \in OnLinks(chan)
  BY <1>1, LinkFloods DEF Flood
<1>3. Recvd(l) = convert_net_host_order(f)
  BY DEF Recvd
<1> HIDE DEF f
<1>4. /\ Recvd(l).src_ip = f.src_ip /\ Recvd(l).dest_ip = f.dest_ip
      /\ Recvd(l).src_port = f.src_port /\ Recvd(l).dst_port = f.dst_port
      /\ Recvd(l).broadcast_id = f.broadcast_id
      /\ Recvd(l).route_disc_flag = f.route_disc_flag
  BY <1>1, <1>3, ZenonT(30) DEF f, convert_net_host_order, SwapOrder, WireFrame, Frame
<1>5. Like(flood_onward(Recvd(l), type), f)
  BY <1>4 DEF Like, flood_onward, construct_odr
<1> QED
  BY <1>2, <1>5, ZenonT(30)

LEMMA NotFloods ==
  ASSUME NEW f, NEW h, NEW i
  PROVE  ~Flood(rrep_swapped(f, h, i)) /\ ~Flood(rrep_onward(f, h))
BY DEF Flood, rrep_swapped, rrep_onward, construct_odr

LEMMA RreqFloods ==
  ASSUME IInv, FInv, NEW l \in Link, RreqAtDest(l) \/ RreqFromTable(l) \/ RreqFlood(l) \/ Asent(l)
  PROVE  FInv'
<1>1. /\ Receive(l) /\ Recvd(l) \in HostFrame /\ l.to \in Node /\ Flood(Recvd(l))
      /\ \A j \in {l} : chan[j] # <<>>
  BY RecvdType, LinkFacts, ZenonT(30)
  DEF RreqAtDest, RreqFromTable, RreqFlood, Asent, EtherMsg, Receive, Flood
<1>2. get_broadcast_id(bid[l.to], 1) \in Nat /\ 0 \in Nat
  BY <1>1, BidType, ZenonT(30) DEF IInv
<1>3. Counts
  <2>1. bid' = bid \/ bid' = [bid EXCEPT ![l.to] = @ + 1]
    BY ZenonT(30) DEF RreqAtDest, RreqFromTable, RreqFlood, Asent
  <2> QED
    BY <1>1, <2>1, CountsOn, ZenonT(30)
<1>4. CASE RreqAtDest(l)
  <2> DEFINE S == unicast(l.to, SrcRoute(l))
             out == [k \in S |-> rrep_swapped(Recvd(l), get_broadcast_id(bid[l.to], 1), 0)]
  <2>1. out \in [S -> WireFrame] /\ \A k \in S : ~Flood(out[k])
    BY <1>1, <1>2, MadeFrames, NotFloods
  <2>2. Transmit(l.to, {l}, out)
    BY <1>4, ZenonT(30) DEF RreqAtDest
  <2> HIDE DEF S, out
  <2> QED
    BY <1>1, <1>3, <2>1, <2>2, OnwardFloods, ZenonT(30)
<1>5. CASE RreqFromTable(l)
  <2> DEFINE reply == unicast(l.to, SrcRoute(l))
             tell  == IF Updates(l) THEN broadcast(l.to, {l.ifno}) ELSE {}
             out(e) == [k \in reply \cup tell |->
               IF k \in reply
               THEN rrep_swapped(Recvd(l), get_broadcast_id(bid[l.to], 1), e.no_hops)
               ELSE flood_onward(Recvd(l), "ASENT")]
  <2>1. PICK e \in DestEntry(l) : Transmit(l.to, {l}, out(e))
    BY <1>5, ZenonT(30) DEF RreqFromTable
  <2>2. e.no_hops \in Nat /\ Recvd(l).route_disc_flag # 1
    BY <1>1, EntriesType DEF Entry
  <2>3. out(e) \in [reply \cup tell -> WireFrame]
    BY <1>1, <1>2, <2>2, MadeFrames, ZenonT(30)
  <2>4. \E g \in OnLinks(chan) : Like(flood_onward(Recvd(l), "ASENT"), g)
    BY <1>1, OnwardLike, ZenonT(30)
  <2>5. \A k \in reply \cup tell :
          Flood(out(e)[k]) => \E g \in OnLinks(chan) : Like(out(e)[k], g)
    BY <2>4, NotFloods, ZenonT(30)
  <2> HIDE DEF reply, tell, out
  <2> QED
    BY <1>1, <1>3, <2>1, <2>3, <2>5, OnwardFloods
<1>6. CASE RreqFlood(l) \/ Asent(l)
  <2> DEFINE S == IF Updates(l) THEN broadcast(l.to, {l.ifno}) ELSE {}
             out(type) == [k \in S |-> flood_onward(Recvd(l), type)]
  <2>1. PICK type \in {"RREQ", "ASENT"} :
          /\ Transmit(l.to, {l}, out(type))
          /\ flood_onward(Recvd(l), type) \in WireFrame
    <3>1. CASE RreqFlood(l)
      BY <1>1, <1>2, <3>1, MadeFrames, ZenonT(30) DEF RreqFlood
    <3>2. CASE Asent(l)
      <4>1. Recvd(l).route_disc_flag # 1
        BY <1>1, <3>2, ZenonT(30) DEF Asent, EtherMsg, HostFrame
      <4> QED
        BY <1>1, <1>2, <3>2, <4>1, MadeFrames, ZenonT(30) DEF Asent
    <3> QED
      BY <1>6, <3>1, <3>2, ZenonT(30)
  <2>2. \E g \in OnLinks(chan) : Like(flood_onward(Recvd(l), type), g)
    BY <1>1, OnwardLike
  <2>3. /\ out(type) \in [S -> WireFrame]
        /\ \A k \in S : \E g \in OnLinks(chan) : Like(out(type)[k], g)
    BY <2>1, <2>2
  <2> HIDE DEF S, out
  <2> QED
    BY <1>1, <1>3, <2>1, <2>3, OnwardFloods, ZenonT(30)
<1> QED
  BY <1>4, <1>5, <1>6

\* Replies and data: none of the frames sent is a flood.
LEMMA QuietFloods ==
  ASSUME IInv, FInv, NEW l \in Link, RrepAtDest(l) \/ RrepForward(l) \/ DataForward(l)
  PROVE  FInv'
<1>1. /\ Receive(l) /\ Recvd(l) \in HostFrame /\ l.to \in Node /\ 0 \in Nat
      /\ \A j \in {l} : chan[j] # <<>>
  BY RecvdType, LinkFacts, ZenonT(30) DEF RrepAtDest, RrepForward, DataForward, EtherMsg, Receive
<1>2. SrcRoute(l).no_hops \in Nat
  BY <1>1, SrcRouteType DEF Entry
<1>3. Counts
  <2>1. bid' = bid
    BY DEF RrepAtDest, RrepForward, DataForward
  <2> QED
    BY <1>1, <2>1, CountsOn
<1>4. ASSUME NEW S, NEW u \in WireFrame, ~Flood(u), Transmit(l.to, {l}, [k \in S |-> u])
      PROVE  FInv'
  <2> DEFINE out == [k \in S |-> u]
  <2>1. out \in [S -> WireFrame] /\ \A k \in S : ~Flood(out[k])
    BY <1>4
  <2>2. Transmit(l.to, {l}, out)
    BY <1>4
  <2> HIDE DEF out
  <2> QED
    BY <1>1, <1>3, <2>1, <2>2, OnwardFloods, ZenonT(30)
<1>5. CASE RrepAtDest(l)
  <2> DEFINE u(f) == IF f.frame_type = "RREP" THEN rrep_onward(f, f.hop_count)
                                              ELSE convert_host_net_order(f)
             S == unicast(l.to, SrcRoute(l))
  <2>1. PICK i \in DOMAIN pending[l.to] : Transmit(l.to, {l}, [k \in S |-> u(pending[l.to][i])])
    BY <1>5, ZenonT(30) DEF RrepAtDest
  <2> DEFINE f == pending[l.to][i]
  <2>2. f \in ParkedFrame
    BY <1>1, UnparkType, ZenonT(30)
  <2>3. Transmit(l.to, {l}, [k \in S |-> u(f)])
    BY <2>1
  <2> HIDE DEF f, u, S
  <2>4. f \in HostFrame /\ f.hop_count \in Nat /\ f.frame_type \in {"RREP", "DATA"}
    BY <2>2, ParkedIsHost, ZenonT(30) DEF HostFrame, ParkedFrame, Frame
  <2>5. rrep_onward(f, f.hop_count) \in WireFrame
    BY <1>1, <2>4, MadeFrames, ZenonT(30)
  <2>6. u(f) \in WireFrame
    BY <2>4, <2>5, HostToNet DEF u
  <2>7. ~Flood(u(f))
    <3>1. CASE f.frame_type = "RREP"
      BY <3>1, NotFloods DEF u
    <3>2. CASE f.frame_type = "DATA"
      BY <2>4, <3>2 DEF u, Flood, convert_host_net_order, SwapOrder, HostFrame, Frame
    <3> QED
      BY <2>4, <3>1, <3>2
  <2> QED
    BY <1>4, <2>3, <2>6, <2>7, ZenonT(30)
<1>6. CASE RrepForward(l)
  <2>1. PICK e \in DestEntry(l) :
          Transmit(l.to, {l}, [k \in unicast(l.to, e) |-> rrep_onward(Recvd(l), SrcRoute(l).no_hops)])
    BY <1>6, ZenonT(30) DEF RrepForward
  <2>2. rrep_onward(Recvd(l), SrcRoute(l).no_hops) \in WireFrame
        /\ ~Flood(rrep_onward(Recvd(l), SrcRoute(l).no_hops))
    BY <1>1, <1>2, MadeFrames, NotFloods
  <2> QED
    BY <1>4, <2>1, <2>2, ZenonT(30)
<1>7. CASE DataForward(l)
  <2>1. PICK e \in DestEntry(l) :
          Transmit(l.to, {l}, [k \in unicast(l.to, e) |-> Forwarded(l)])
    BY <1>7, ZenonT(30) DEF DataForward, Forwarded
  <2>2. Forwarded(l) \in WireFrame /\ ~Flood(Forwarded(l))
    BY <1>1, <1>7, ForwardedIs, ZenonT(30) DEF DataForward, EtherMsg, Flood
  <2> QED
    BY <1>4, <2>1, <2>2, ZenonT(30)
<1> QED
  BY <1>5, <1>6, <1>7
\* A new search: PeerDiscover asks for the destination of a request, Park for
\* that of a frame.
LEMMA DiscoverFloods ==
  ASSUME IInv, FInv, NEW n \in Node, PeerDiscover(n)
  PROVE  FInv'
<1> DEFINE r == Head(proc_q[n])
           h(port) == construct_odr("RREQ", get_broadcast_id(bid[n], 1), 0,
                        r.route_disc_flag, port, r.destport, r.destip, n, r.msg)
           out(port) == [k \in broadcast(n, {}) |-> h(port)]
<1>1. TypeOK /\ PeerMsg(n) /\ r.destip # n /\ \A j \in {} : chan[j] # <<>>
  BY DEF IInv, PeerDiscover
<1>2. r \in Request
  BY <1>1, PeerType
<1>3. PICK port \in Ports(n) : fetch_entry_path(n, r.filename, port) /\ Transmit(n, {}, out(port))
  BY ZenonT(30) DEF PeerDiscover
<1>4. /\ r.filename \in Path /\ r.msg \in Nat /\ r.destport \in Int /\ r.destip \in Node
      /\ r.route_disc_flag \in {0, 1}
  BY <1>2, ZenonT(30) DEF Request
<1>5. port \in Int
  BY <1>1, <1>3, <1>4, FetchPathType, ZenonT(30)
<1>6. get_broadcast_id(bid[n], 1) \in Nat /\ get_broadcast_id(bid[n], 1) = bid[n] + 1
  BY <1>1, BidType DEF get_broadcast_id
<1>7. h(port) \in WireFrame
  BY <1>1, <1>4, <1>5, <1>6, ConstructFrame, ZenonT(30)
<1>8. h(port).src_ip = n /\ h(port).broadcast_id = bid[n] + 1
  BY <1>6, ZenonT(30) DEF construct_odr
<1>9. bid' = [bid EXCEPT ![n] = @ + 2] /\ bid \in [Node -> Nat]
  BY LinkFloods, ZenonT(30) DEF PeerDiscover
<1>10. Counts /\ bid[n] < bid[n] + 1 /\ bid[n] + 1 <= bid'[n]
  <2>1. bid'[n] = bid[n] + 2 /\ bid[n] \in Nat
    BY <1>9
  <2>2. Counts
    BY <1>9, CountsOn, ZenonT(30)
  <2> QED
    BY <2>1, <2>2
<1> HIDE DEF h
<1>11. out(port) \in [broadcast(n, {}) -> WireFrame] /\ \A k \in broadcast(n, {}) : out(port)[k] = h(port)
  BY <1>7, ZenonT(30)
<1> HIDE DEF out
<1> QED
  <2>1. Transmit(n, {}, out(port))
    BY <1>3, ZenonT(30)
  <2>2. Counts /\ bid[h(port).src_ip] < h(port).broadcast_id
        /\ h(port).broadcast_id <= bid'[h(port).src_ip]
    BY <1>8, <1>10, ZenonT(30)
  <2> QED
    <3> DEFINE u == h(port)
               w == out(port)
               S == broadcast(n, {})
    <3>1. /\ u \in WireFrame /\ w \in [S -> WireFrame] /\ \A k \in S : w[k] = u
          /\ Transmit(n, {}, w) /\ Counts
          /\ bid[u.src_ip] < u.broadcast_id /\ u.broadcast_id <= bid'[u.src_ip]
      BY <1>7, <1>11, <2>1, <2>2, ZenonT(30)
    <3>2. \A j \in {} : chan[j] # <<>>
      BY <1>1, ZenonT(30)
    <3> HIDE DEF u, w, S
    <3> QED
      BY <3>1, <3>2, NewFloods

LEMMA ParkFloods ==
  ASSUME IInv, FInv, NEW l \in Link, RrepPark(l) \/ DataPark(l)
  PROVE  FInv'
<1>1. /\ Receive(l) /\ ~ForMe(l) /\ Park(l) /\ l.to \in Node /\ Recvd(l) \in HostFrame
      /\ \A j \in {l} : chan[j] # <<>>
  BY RecvdType, LinkFacts, ZenonT(30) DEF RrepPark, DataPark, EtherMsg, Receive
<1>2. 0 \in Nat /\ l.to # Recvd(l).dest_ip
  BY <1>1 DEF ForMe
<1>3. get_broadcast_id(bid[l.to], 1) \in Nat /\ get_broadcast_id(bid[l.to], 1) = bid[l.to] + 1
  BY <1>1, BidType, ZenonT(30) DEF IInv, get_broadcast_id
<1> DEFINE S == broadcast(l.to, {l.ifno})
           h == park_rreq(l.to, Recvd(l), get_broadcast_id(bid[l.to], 1))
           out == [k \in S |-> h]
<1>4. h \in WireFrame
  BY <1>1, <1>2, <1>3, MadeFrames, ZenonT(30)
<1>5. h.src_ip = l.to /\ h.broadcast_id = bid[l.to] + 1
  BY <1>3, ZenonT(30) DEF park_rreq, construct_odr
<1>6. bid' = [bid EXCEPT ![l.to] = @ + 1] /\ bid \in [Node -> Nat]
  BY <1>1, LinkFloods DEF Park
<1>7. Counts /\ bid[l.to] < bid[l.to] + 1 /\ bid[l.to] + 1 <= bid'[l.to]
  <2>1. bid'[l.to] = bid[l.to] + 1 /\ bid[l.to] \in Nat
    BY <1>1, <1>6
  <2>2. Counts
    BY <1>1, <1>6, CountsOn, ZenonT(30)
  <2> QED
    BY <2>1, <2>2
<1>8. Transmit(l.to, {l}, out)
  BY <1>1 DEF Park
<1> HIDE DEF h
<1>9. out \in [S -> WireFrame] /\ \A k \in S : out[k] = h
  BY <1>4, ZenonT(30)
<1> HIDE DEF out, S
<1> QED
  BY <1>1, <1>4, <1>5, <1>7, <1>8, <1>9, NewFloods

LEMMA SendFloods ==
  ASSUME IInv, FInv, NEW n \in Node, PeerSend(n)
  PROVE  FInv'
<1> DEFINE r == Head(proc_q[n])
<1>1. TypeOK /\ PeerMsg(n) /\ r.destip # n /\ \A j \in {} : chan[j] # <<>>
  BY DEF IInv, PeerSend
<1>2. r \in Request
  BY <1>1, PeerType
<1>3. PICK e \in got_r_entry(rtable[n], r.destip, r.route_disc_flag), port \in Ports(n) :
        /\ fetch_entry_path(n, r.filename, port)
        /\ Transmit(n, {}, [k \in unicast(n, e) |-> Dispatched(n, e, port)])
  BY ZenonT(30) DEF PeerSend, Dispatched
<1>4. e \in rtable[n] /\ r.route_disc_flag # 1
  BY <1>3, LookupFacts
<1>5. e \in Entry
  BY <1>1, <1>4, ZenonT(30) DEF TypeOK
<1>6. port \in Int
  BY <1>1, <1>2, <1>3, FetchPathType DEF Request
<1> DEFINE u == Dispatched(n, e, port)
           out == [k \in unicast(n, e) |-> u]
<1>7. u \in WireFrame /\ u.frame_type = "DATA"
  <2>1. MaySend(n, e, port)
    BY <1>1, <1>2, <1>4, <1>5, <1>6, ZenonT(30) DEF MaySend
  <2>2. Dispatch(n, e, port)
    BY <2>1, DispatchedIs, ZenonT(30)
  <2> QED
    BY <2>2, ZenonT(30) DEF Dispatch
<1>8. Transmit(n, {}, out)
  BY <1>3
<1>9. Counts
  <2>1. bid' = bid
    BY DEF PeerSend
  <2> QED
    BY <2>1, CountsOn, ZenonT(30)
<1> HIDE DEF u
<1>10. out \in [unicast(n, e) -> WireFrame] /\ \A k \in unicast(n, e) : ~Flood(out[k])
  BY <1>7 DEF Flood
<1> HIDE DEF out
<1> QED
  <2>1. \A k \in unicast(n, e) : Flood(out[k]) => \E g \in OnLinks(chan) : Like(out[k], g)
    BY <1>10, ZenonT(30)
  <2>2. \A j \in {} : chan[j] # <<>>
    BY ZenonT(30)
  <2> QED
    BY <1>8, <1>9, <1>10, <2>1, <2>2, OnwardFloods, ZenonT(30)

LEMMA NextFloods ==
  ASSUME NoRestart, IInv, FInv, [Next]_vars
  PROVE  FInv'
<1>1. ASSUME NEW n \in Node, HandlePeerMsg(n) \/ ServerReply(n) PROVE FInv'
  <2>1. PeerLocal(n) \/ ServerReply(n) => chan' = chan /\ bid' = bid
    BY DEF PeerLocal, ServerReply, memory
  <2> QED
    BY <1>1, <2>1, DiscoverFloods, SendFloods, NoFloods, ZenonT(30) DEF HandlePeerMsg
<1>2. ASSUME NEW l \in Link, HandleEthernetMsg(l) PROVE FInv'
  <2>1. CASE IgnoreDuplicate(l) \/ RrepUnused(l) \/ DataAtDest(l)
    <3>1. chan[l] # <<>> /\ chan' = Sent({l}, <<>>) /\ bid' = bid
      BY <2>1 DEF IgnoreDuplicate, RrepUnused, DataAtDest, EtherMsg, Receive, memory
    <3> QED
      BY <3>1, NoFloods, ZenonT(30)
  <2> QED
    BY <1>2, <2>1, RreqFloods, QuietFloods, ParkFloods, ZenonT(30) DEF HandleEthernetMsg
<1>3. ASSUME NEW l \in Link, Unheard(l) \/ Lose(l) PROVE FInv'
  <2>1. chan[l] # <<>> /\ chan' = Sent({l}, <<>>) /\ bid' = bid
    BY <1>3 DEF Unheard, Lose, memory
  <2> QED
    BY <2>1, NoFloods, ZenonT(30)
<1>4. ASSUME NEW n \in Node PROVE ~Restart(n)
  BY DEF NoRestart, Restart
<1>5. ASSUME \/ \E w \in Want : ClientSend(w)
             \/ \E n \in Node : Tick(n) \/ Kill(n) \/ ServerStart(n)
             \/ \E n \in Node, p \in Path : AppExit(n, p)
             \/ UNCHANGED vars
      PROVE  FInv'
  <2>1. chan' = chan /\ bid' = bid
    BY <1>5, ZenonT(30) DEF ClientSend, Tick, Kill, ServerStart, AppExit, vars, memory
  <2> QED
    BY <2>1, NoFloods
<1>6. CASE Environment
  BY <1>3, <1>4, <1>5, <1>6, ZenonT(30) DEF Environment
<1> QED
  BY <1>1, <1>2, <1>3, <1>5, <1>6, ZenonT(30) DEF Next

LEMMA InitFloods == Init => FInv
<1> SUFFICES ASSUME Init PROVE FInv
  OBVIOUS
<1>1. ASSUME NEW k \in Link PROVE Vals(chan[k]) = {}
  <2>1. chan[k] = <<>>
    BY DEF Init
  <2>2. DOMAIN chan[k] = {}
    BY <2>1
  <2> QED
    BY <2>2 DEF Vals
<1>2. OnLinks(chan) = {}
  BY <1>1, ZenonT(30) DEF OnLinks
<1> QED
  BY <1>2 DEF FInv, FloodsApart

LEMMA FloodsIdentified == FInv => FloodIdentity
<1> SUFFICES ASSUME FInv, NEW k \in Link, NEW l \in Link,
                    NEW i \in DOMAIN chan[k], NEW j \in DOMAIN chan[l],
                    {chan[k][i].frame_type, chan[l][j].frame_type} \subseteq {"RREQ", "ASENT"},
                    chan[k][i].src_ip = chan[l][j].src_ip,
                    chan[k][i].broadcast_id = chan[l][j].broadcast_id
             PROVE  Like(chan[k][i], chan[l][j])
  BY DEF FloodIdentity, Like
<1>1. chan[k][i] \in OnLinks(chan) /\ chan[l][j] \in OnLinks(chan)
  BY DEF OnLinks, Vals, Flood
<1> QED
  BY <1>1, ZenonT(30) DEF FInv, FloodsApart

\* A flood keeps its identity: the RREQ and ASENT frames in flight under one
\* source and broadcast id (get_broadcast_id's static counter, odr_functions.c)
\* ask for the same destination, ports and flag, however many nodes passed them
\* on, whatever frames and sends were lost, while no daemon starts again.
THEOREM FloodsIdentity ==
  ASSUME NoRestart
  PROVE  Spec => []FloodIdentity
<1>1. Init => IInv /\ FInv
  BY InitIInv, InitFloods
<1>2. IInv /\ FInv /\ [Next]_vars => (IInv /\ FInv)'
  BY NextIInv, NextFloods, ZenonT(30)
<1> QED
  BY <1>1, <1>2, FloodsIdentified, PTL DEF Spec

-----------------------------------------------------------------------------
(* Routes, while none is lost: no daemon restarts, no user forces a search  *)
(* and no entry gets stale.  What is known of a table and of a frame is     *)
(* stated for tables T, so that it can be carried from one state's tables   *)
(* to the next one's, in which every entry is as good or better.            *)

\* n has a route to s, or is s.
Knows(T, n, s) == s = n \/ \E e \in T[n] : e.destip = s

\* A node with the entry e has no use for the flood f after i more hops.
Covers(e, f, i) ==
  /\ e.destip = f.src_ip
  /\ \/ e.broadcast_id > f.broadcast_id
     \/ e.broadcast_id = f.broadcast_id /\ e.no_hops <= i

LEMMA CoversNew ==
  ASSUME NEW e, NEW f, NEW i \in Nat, e.destip = f.src_ip,
         e.broadcast_id = f.broadcast_id, e.no_hops = i + 1
  PROVE  Covers(e, f, i + 1)
BY DEF Covers

\* The nodes that passed f on are all different and have taken notice of it.
Visited(T, f) ==
  \E p \in [1 .. f.hop_count -> Node] :
    /\ \A i, j \in 1 .. f.hop_count : p[i] = p[j] => i = j
    /\ \A i \in 1 .. f.hop_count : \E e \in T[p[i]] : Covers(e, f, i)

\* h hops from s lead as far as n, or farther.
Spans(h, s, n) == Dist[s, n] <= h

\* The frame f on the link k: its sender can be asked for its source, and a
\* reply or a message goes to a node that knows its destination.
FrameOK(T, k, f) ==
  /\ f.route_disc_flag = 0
  /\ Spans(f.hop_count, f.src_ip, k.from)
  /\ Knows(T, k.from, f.src_ip)
  /\ Flood(f) => Visited(T, f)
  /\ ~Flood(f) => Knows(T, k.to, f.dest_ip)

EntryOK(T, n, e) == Knows(T, e.next_hop, e.destip) /\ Spans(e.no_hops, e.destip, n)

LinksOK  == \A k \in Link : \A f \in Vals(chan[k]) : FrameOK(rtable, k, f)
TablesOK(T) == \A n \in Node : \A e \in T[n] : EntryOK(T, n, e)
QueuesOK == \A n \in Node : /\ \A f \in Vals(pending[n]) : f.src_ip = n
                            /\ \A r \in Vals(proc_q[n]) : r.route_disc_flag = 0

RouteInv == LinksOK /\ TablesOK(rtable) /\ QueuesOK

\* g is e, aged perhaps, or better news than e.
NoWorse(e, g) ==
  \/ g.broadcast_id > e.broadcast_id
  \/ g.broadcast_id = e.broadcast_id /\ g.no_hops <= e.no_hops

\* Every entry of T is in U, or better news of its destination is.
Grows(T, U) ==
  \A n \in Node : \A e \in T[n] : \E g \in U[n] : g.destip = e.destip /\ NoWorse(e, g)

LEMMA KnowsGrows ==
  ASSUME NEW T, NEW U, Grows(T, U), NEW n \in Node, NEW s, Knows(T, n, s)
  PROVE  Knows(U, n, s)
BY DEF Grows, Knows

LEMMA SameGrows ==
  ASSUME NEW T \in [Node -> SUBSET Entry]
  PROVE  Grows(T, T)
<1>1. \A n \in Node : \A e \in T[n] : e.broadcast_id \in Nat /\ e.no_hops \in Nat
  BY DEF Entry
<1> QED
  BY <1>1 DEF Grows, NoWorse

LEMMA CoversGrows ==
  ASSUME NEW e \in Entry, NEW g \in Entry, g.destip = e.destip, NoWorse(e, g), NEW f \in Frame,
         NEW i \in Nat, Covers(e, f, i)
  PROVE  Covers(g, f, i)
<1>1. /\ e.broadcast_id \in Nat /\ e.no_hops \in Nat /\ g.broadcast_id \in Nat
      /\ g.no_hops \in Nat /\ f.broadcast_id \in Nat
  BY DEF Entry, Frame
<1> QED
  BY <1>1 DEF Covers, NoWorse

LEMMA VisitedGrows ==
  ASSUME NEW T \in [Node -> SUBSET Entry], NEW U \in [Node -> SUBSET Entry], Grows(T, U),
         NEW f \in Frame, Visited(T, f)
  PROVE  Visited(U, f)
<1>1. PICK p \in [1 .. f.hop_count -> Node] :
        /\ \A i, j \in 1 .. f.hop_count : p[i] = p[j] => i = j
        /\ \A i \in 1 .. f.hop_count : \E e \in T[p[i]] : Covers(e, f, i)
  BY ZenonT(30) DEF Visited
<1>2. ASSUME NEW i \in 1 .. f.hop_count PROVE \E g \in U[p[i]] : Covers(g, f, i)
  <2>1. PICK e \in T[p[i]] : Covers(e, f, i)
    BY <1>1
  <2>2. p[i] \in Node /\ i \in Nat
    BY DEF Frame
  <2>3. PICK g \in U[p[i]] : g.destip = e.destip /\ NoWorse(e, g)
    BY <2>2 DEF Grows
  <2>4. e \in Entry /\ g \in Entry
    BY <2>2, ZenonT(30)
  <2> QED
    BY <2>1, <2>2, <2>3, <2>4, CoversGrows, ZenonT(30)
<1> QED
  BY <1>1, <1>2, ZenonT(30) DEF Visited

LEMMA FrameGrows ==
  ASSUME NEW T \in [Node -> SUBSET Entry], NEW U \in [Node -> SUBSET Entry], Grows(T, U),
         NEW f \in Frame, NEW k \in Link, FrameOK(T, k, f)
  PROVE  FrameOK(U, k, f)
<1>1. Knows(U, k.from, f.src_ip)
  BY LinkFacts, KnowsGrows, ZenonT(30) DEF FrameOK
<1>2. Flood(f) => Visited(U, f)
  BY VisitedGrows DEF FrameOK
<1>3. ~Flood(f) => Knows(U, k.to, f.dest_ip)
  BY LinkFacts, KnowsGrows, ZenonT(30) DEF FrameOK
<1> QED
  BY <1>1, <1>2, <1>3 DEF FrameOK

\* A frame that stays on its link, or is sent and fits the new tables.
LEMMA SendOK ==
  ASSUME IInv, IInv', LinksOK, Grows(rtable, rtable'), NEW in, \A j \in in : chan[j] # <<>>,
         NEW out, \A k \in DOMAIN out : out[k] \in WireFrame,
         \A k \in Link : \/ chan'[k] = Rest(in, k)
                         \/ k \in DOMAIN out /\ chan'[k] = Append(Rest(in, k), out[k]),
         \A k \in Link : k \in DOMAIN out => FrameOK(rtable', k, out[k])
  PROVE  LinksOK'
<1>1. rtable \in [Node -> SUBSET Entry] /\ rtable' \in [Node -> SUBSET Entry]
  BY DEF IInv, TypeOK
<1>2. ASSUME NEW k \in Link, NEW v \in Vals(chan'[k]) PROVE FrameOK(rtable', k, v)
  <2>1. v \in Vals(chan[k]) \/ (k \in DOMAIN out /\ v = out[k])
    BY LinkVals, ZenonT(30)
  <2>2. CASE v \in Vals(chan[k])
    <3>1. v \in Frame
      <4>1. chan[k] \in Seq(WireFrame)
        BY ZenonT(30) DEF IInv
      <4> QED
        BY <2>2, <4>1 DEF Vals, WireFrame
    <3>2. FrameOK(rtable, k, v)
      BY <2>2 DEF LinksOK
    <3> QED
      BY <1>1, <3>1, <3>2, FrameGrows, ZenonT(30)
  <2> QED
    BY <2>1, <2>2
<1> QED
  BY <1>2, ZenonT(30) DEF LinksOK

LEMMA TransmitOK ==
  ASSUME IInv, IInv', LinksOK, Grows(rtable, rtable'), NEW n, NEW in, \A j \in in : chan[j] # <<>>,
         NEW S, NEW out \in [S -> WireFrame], Transmit(n, in, out),
         \A k \in S : k \in Link => FrameOK(rtable', k, out[k])
  PROVE  LinksOK'
<1>1. \A k \in Link : \/ chan'[k] = Rest(in, k)
                      \/ k \in DOMAIN out /\ chan'[k] = Append(Rest(in, k), out[k])
  BY TransmitLinks
<1>2. \A k \in DOMAIN out : out[k] \in WireFrame
  OBVIOUS
<1>3. \A k \in Link : k \in DOMAIN out => FrameOK(rtable', k, out[k])
  OBVIOUS
<1> QED
  BY <1>1, <1>2, <1>3, SendOK, ZenonT(30)

LEMMA TakeOK ==
  ASSUME IInv, IInv', LinksOK, Grows(rtable, rtable'),
         \/ chan' = chan
         \/ \E l \in Link : chan[l] # <<>> /\ chan' = Sent({l}, <<>>)
  PROVE  LinksOK'
<1> DEFINE none == <<>>
<1>1. DOMAIN none = {}
  OBVIOUS
<1> HIDE DEF none
<1>2. CASE chan' = chan
  <2>1. \A k \in Link : chan'[k] = Rest({}, k)
    BY <1>2 DEF Rest
  <2>2. \A j \in {} : chan[j] # <<>>
    OBVIOUS
  <2> QED
    BY <1>1, <2>1, <2>2, SendOK, ZenonT(30)
<1>3. ASSUME NEW l \in Link, chan[l] # <<>>, chan' = Sent({l}, none) PROVE LinksOK'
  <2>1. \A k \in Link : chan'[k] = Rest({l}, k)
    BY <1>1, <1>3, SentLinks, ZenonT(30)
  <2>2. \A j \in {l} : chan[j] # <<>>
    BY <1>3
  <2> QED
    BY <1>1, <2>1, <2>2, SendOK, ZenonT(30)
<1> QED
  BY <1>2, <1>3, ZenonT(30) DEF none

-----------------------------------------------------------------------------
(* What a daemon learns from a frame, and sends on. *)

\* The frame a handler works on.
LEMMA RecvdOK ==
  ASSUME IInv, LinksOK, NEW l \in Link, Receive(l)
  PROVE  FrameOK(rtable, l, Recvd(l))
<1> DEFINE h == Head(chan[l])
           f == Recvd(l)
<1>1. /\ f.frame_type = h.frame_type /\ f.src_ip = h.src_ip /\ f.dest_ip = h.dest_ip
      /\ f.broadcast_id = h.broadcast_id /\ f.hop_count = h.hop_count
      /\ f.route_disc_flag = h.route_disc_flag
      /\ h \in Vals(chan[l])
  BY RecvdIs, ZenonT(30)
<1>2. FrameOK(rtable, l, h)
  BY <1>1 DEF LinksOK
<1> HIDE DEF h, f
<1>3. ASSUME Visited(rtable, h) PROVE Visited(rtable, f)
  <2>1. 1 .. h.hop_count = 1 .. f.hop_count
    BY <1>1, ZenonT(30)
  <2>2. \A e, i : Covers(e, h, i) => Covers(e, f, i)
    BY <1>1 DEF Covers
  <2>3. PICK p \in [1 .. h.hop_count -> Node] :
          /\ \A i, j \in 1 .. h.hop_count : p[i] = p[j] => i = j
          /\ \A i \in 1 .. h.hop_count : \E e \in rtable[p[i]] : Covers(e, h, i)
    BY <1>3, ZenonT(30) DEF Visited
  <2>4. \A i \in 1 .. f.hop_count : \E e \in rtable[p[i]] : Covers(e, f, i)
    BY <2>1, <2>2, <2>3, ZenonT(30)
  <2>5. p \in [1 .. f.hop_count -> Node] /\ \A i, j \in 1 .. f.hop_count : p[i] = p[j] => i = j
    BY <2>1, <2>3, ZenonT(30)
  <2> QED
    BY <2>4, <2>5, ZenonT(30) DEF Visited
<1>4. FrameOK(rtable, l, f)
  BY <1>1, <1>2, <1>3, ZenonT(30) DEF FrameOK, Flood
<1> QED
  BY <1>4, ZenonT(30) DEF f

\* No lookup of handle_ethernet_msg drops an entry or overlooks one.
LEMMA Lookups ==
  ASSUME IInv, Unexpired, LinksOK, NEW l \in Link, Receive(l)
  PROVE  /\ DestEntry(l) = {e \in rtable[l.to] : e.destip = Recvd(l).dest_ip}
         /\ SrcEntry(l) = {e \in rtable[l.to] : e.destip = Recvd(l).src_ip}
         /\ Kept(l) = rtable[l.to]
<1>1. Recvd(l).route_disc_flag = 0 /\ l.to \in Node
  BY RecvdOK, LinkFacts, ZenonT(30) DEF FrameOK
<1>2. \A e \in rtable[l.to] : ~stale(e)
  BY <1>1 DEF Unexpired
<1>3. Looked(l) = rtable[l.to]
  BY <1>1, <1>2 DEF Looked, after_r_lookup
<1>4. Kept(l) = rtable[l.to]
  BY <1>2, <1>3 DEF Kept, after_r_lookup
<1>5. DestEntry(l) = {e \in rtable[l.to] : e.destip = Recvd(l).dest_ip}
  BY <1>1, <1>2 DEF DestEntry, got_r_entry
<1>6. SrcEntry(l) = {e \in rtable[l.to] : e.destip = Recvd(l).src_ip}
  BY <1>2, <1>3 DEF SrcEntry, got_r_entry
<1> QED
  BY <1>4, <1>5, <1>6

\* One link on, a hop count one higher still covers the distance.
LEMMA OneMore ==
  ASSUME NEW h \in Nat, NEW x \in Nat, NEW y \in Nat, x <= h, y <= x + 1
  PROVE  y <= h + 1
OBVIOUS

LEMMA HopsOn ==
  ASSUME NEW l \in Link, NEW s \in Node, NEW h \in Nat, Spans(h, s, l.from)
  PROVE  Spans(h + 1, s, l.to)
<1>1. /\ Dist[s, l.from] \in Nat /\ Dist[s, l.to] \in Nat
      /\ Dist[s, l.to] <= Dist[s, l.from] + 1
  BY LinkFacts, DistAssumption
<1> QED
  BY <1>1, OneMore, Zenon DEF Spans

LEMMA AtHome ==
  ASSUME NEW n \in Node, NEW h \in Nat
  PROVE  Spans(h, n, n)
<1>1. Dist[n, n] = 0
  BY DistAssumption, Zenon
<1>2. 0 <= h
  OBVIOUS
<1> QED
  BY <1>1, <1>2, Zenon DEF Spans

\* The tables grow, and stay right.
LEMMA LearnOK ==
  ASSUME IInv, IInv', Unexpired, LinksOK, TablesOK(rtable), NEW l \in Link, Receive(l), Learn(l)
  PROVE  /\ Grows(rtable, rtable')
         /\ TablesOK(rtable')
         /\ SrcRoute(l) \in rtable'[l.to]
<1>1. /\ rtable \in [Node -> SUBSET Entry] /\ rtable' \in [Node -> SUBSET Entry]
      /\ l.to \in Node /\ l.from \in Node
  BY LinkFacts, ZenonT(30) DEF IInv, TypeOK
<1>2. \A n \in Node : rtable'[n] = IF n = l.to THEN Learned(l) ELSE rtable[n]
  BY <1>1, ZenonT(30) DEF Learn
<1>3. SrcRoute(l) \in rtable'[l.to]
  <2>1. CASE Updates(l)
    BY <1>1, <1>2, <2>1, ZenonT(30) DEF Learned
  <2>2. CASE ~Updates(l)
    <3>1. SrcEntry(l) # {} /\ SrcRoute(l) = CHOOSE e \in SrcEntry(l) : TRUE
      BY <2>2 DEF Updates, SrcRoute
    <3>2. SrcRoute(l) \in SrcEntry(l)
      BY <3>1, ZenonT(30)
    <3>3. Learned(l) = rtable[l.to]
      BY <2>2, Lookups, ZenonT(30) DEF Learned
    <3> QED
      BY <1>1, <1>2, <3>2, <3>3, Lookups, ZenonT(30)
  <2> QED
    BY <2>1, <2>2, ZenonT(30)
<1>4. SrcRoute(l) \in Entry /\ SrcRoute(l).destip = Recvd(l).src_ip
  BY SrcRouteType, ZenonT(30)
<1>5. Grows(rtable, rtable')
  <2>1. ASSUME NEW e \in rtable[l.to]
        PROVE  \E g \in Learned(l) : g.destip = e.destip /\ NoWorse(e, g)
    <3>1. e.broadcast_id \in Nat /\ e.no_hops \in Nat
      BY <1>1 DEF Entry
    <3>2. CASE e \in Learned(l)
      BY <3>1, <3>2 DEF NoWorse
    <3>3. CASE e \notin Learned(l)
      <4>1. Updates(l) /\ e \in SrcEntry(l)
        BY <3>3, Lookups, ZenonT(30) DEF Learned
      <4>2. check_r_entry(Recvd(l), e) /\ e.destip = Recvd(l).src_ip
        BY <4>1, Lookups, ZenonT(30) DEF Updates
      <4>3. SrcRoute(l) = update_r_entry(Recvd(l), l.ifno, l.from) /\ SrcRoute(l) \in Learned(l)
        BY <4>1, ZenonT(30) DEF SrcRoute, Learned
      <4>4. /\ SrcRoute(l).broadcast_id = Recvd(l).broadcast_id
            /\ SrcRoute(l).no_hops = Recvd(l).hop_count + 1
        BY <4>3 DEF update_r_entry
      <4>5. NoWorse(e, SrcRoute(l))
        BY <4>2, <4>4, ZenonT(30) DEF check_r_entry, NoWorse
      <4> QED
        BY <1>4, <4>2, <4>3, <4>5, ZenonT(30)
    <3> QED
      BY <3>2, <3>3, ZenonT(30)
  <2>2. ASSUME NEW n \in Node, n # l.to, NEW e \in rtable[n]
        PROVE  \E g \in rtable'[n] : g.destip = e.destip /\ NoWorse(e, g)
    <3>1. e \in rtable'[n] /\ e.broadcast_id \in Nat /\ e.no_hops \in Nat
      BY <1>1, <1>2, <2>2 DEF Entry
    <3> QED
      BY <3>1 DEF NoWorse
  <2> QED
    BY <1>2, <2>1, <2>2, ZenonT(30) DEF Grows
<1>6. ASSUME NEW n \in Node, NEW e \in rtable'[n] PROVE EntryOK(rtable', n, e)
  <2>1. CASE e \in rtable[n]
    <3>1. EntryOK(rtable, n, e) /\ e.next_hop \in Node
      BY <1>1, <2>1 DEF TablesOK, Entry
    <3> QED
      BY <1>5, <3>1, KnowsGrows, ZenonT(30) DEF EntryOK
  <2>2. CASE e \notin rtable[n]
    <3>1. n = l.to /\ Updates(l) /\ e = SrcRoute(l)
      BY <1>2, <2>2, Lookups DEF Learned
    <3>2. e = update_r_entry(Recvd(l), l.ifno, l.from)
      BY <3>1, ZenonT(30) DEF SrcRoute
    <3>3. /\ e.destip = Recvd(l).src_ip /\ e.next_hop = l.from
          /\ e.no_hops = Recvd(l).hop_count + 1
      BY <3>2, ZenonT(30) DEF update_r_entry
    <3>4. /\ Knows(rtable, l.from, Recvd(l).src_ip)
          /\ Spans(Recvd(l).hop_count, Recvd(l).src_ip, l.from)
      BY RecvdOK, ZenonT(30) DEF FrameOK
    <3>5. Recvd(l).src_ip \in Node /\ Recvd(l).hop_count \in Nat
      BY RecvdType, ZenonT(30) DEF Frame
    <3>6. Spans(Recvd(l).hop_count + 1, Recvd(l).src_ip, l.to)
      BY <3>4, <3>5, HopsOn, ZenonT(30)
    <3>7. Spans(e.no_hops, e.destip, n)
      BY <3>1, <3>3, <3>6, ZenonT(30)
    <3>8. Knows(rtable', e.next_hop, e.destip)
      BY <1>1, <1>5, <3>3, <3>4, KnowsGrows, ZenonT(30)
    <3> QED
      BY <3>7, <3>8, ZenonT(30) DEF EntryOK
  <2> QED
    BY <2>1, <2>2, ZenonT(30)
<1> QED
  BY <1>3, <1>5, <1>6 DEF TablesOK

-----------------------------------------------------------------------------
(* What is sent fits the tables after the step. *)

\* What a handler that has learned from its frame may rely on.
Learning(l) ==
  /\ IInv /\ IInv' /\ Unexpired /\ RouteInv /\ Receive(l) /\ Learn(l)

LEMMA Learnt ==
  ASSUME NEW l \in Link, Learning(l)
  PROVE  /\ Grows(rtable, rtable') /\ TablesOK(rtable')
         /\ FrameOK(rtable, l, Recvd(l)) /\ Recvd(l) \in HostFrame /\ Recvd(l) \in Frame
         /\ SrcRoute(l) \in rtable'[l.to] /\ SrcRoute(l).destip = Recvd(l).src_ip
         /\ Knows(rtable', l.to, Recvd(l).src_ip)
         /\ Knows(rtable', SrcRoute(l).next_hop, Recvd(l).src_ip)
         /\ Spans(SrcRoute(l).no_hops, Recvd(l).src_ip, l.to)
         /\ SrcRoute(l).no_hops \in Nat
         /\ \A e \in DestEntry(l) : /\ Knows(rtable', l.to, Recvd(l).dest_ip)
                                    /\ Knows(rtable', e.next_hop, Recvd(l).dest_ip)
                                    /\ Spans(e.no_hops, Recvd(l).dest_ip, l.to)
                                    /\ e.no_hops \in Nat
<1>1. IInv /\ IInv' /\ Unexpired /\ LinksOK /\ TablesOK(rtable) /\ Receive(l) /\ Learn(l)
  BY ZenonT(30) DEF Learning, RouteInv
<1>2. Grows(rtable, rtable') /\ TablesOK(rtable') /\ SrcRoute(l) \in rtable'[l.to]
  BY <1>1, LearnOK, ZenonT(30)
<1>3. FrameOK(rtable, l, Recvd(l)) /\ Recvd(l) \in HostFrame /\ Recvd(l) \in Frame
  BY <1>1, RecvdOK, RecvdType
<1>4. SrcRoute(l).destip = Recvd(l).src_ip /\ SrcRoute(l) \in Entry /\ l.to \in Node
  BY <1>1, SrcRouteType, LinkFacts, ZenonT(30)
<1>5. SrcRoute(l).no_hops \in Nat
  BY <1>4, ZenonT(30) DEF Entry
<1>6. EntryOK(rtable', l.to, SrcRoute(l)) /\ Knows(rtable', l.to, Recvd(l).src_ip)
  BY <1>2, <1>4, ZenonT(30) DEF TablesOK, Knows
<1>7. ASSUME NEW e \in DestEntry(l)
      PROVE  /\ Knows(rtable', l.to, Recvd(l).dest_ip)
             /\ Knows(rtable', e.next_hop, Recvd(l).dest_ip)
             /\ Spans(e.no_hops, Recvd(l).dest_ip, l.to)
             /\ e.no_hops \in Nat
  <2>1. e \in rtable[l.to] /\ e.destip = Recvd(l).dest_ip /\ e \in Entry
    BY <1>1, Lookups, EntriesType, ZenonT(30)
  <2>2. EntryOK(rtable, l.to, e) /\ e.next_hop \in Node /\ e.no_hops \in Nat
    BY <1>1, <1>4, <2>1, ZenonT(30) DEF TablesOK, Entry
  <2>3. Knows(rtable, l.to, Recvd(l).dest_ip) /\ Knows(rtable, e.next_hop, Recvd(l).dest_ip)
    BY <2>1, <2>2, ZenonT(30) DEF EntryOK, Knows
  <2> QED
    BY <1>2, <1>4, <2>1, <2>2, <2>3, KnowsGrows, ZenonT(30) DEF EntryOK
<1> QED
  BY <1>2, <1>3, <1>4, <1>5, <1>6, <1>7, ZenonT(30) DEF EntryOK

\* A flood goes on only from a node it has not visited.
LEMMA NewVisit ==
  ASSUME NEW l \in Link, Learning(l), Updates(l), NEW i \in Nat, i <= Recvd(l).hop_count,
         NEW e \in rtable[l.to], Covers(e, Recvd(l), i)
  PROVE  FALSE
<1>1. IInv /\ Unexpired /\ LinksOK /\ Receive(l) /\ l.to \in Node
  BY LinkFacts, ZenonT(30) DEF Learning, RouteInv
<1>2. e \in SrcEntry(l)
  BY <1>1, Lookups, ZenonT(30) DEF Covers
<1>3. check_r_entry(Recvd(l), e)
  BY <1>2, ZenonT(30) DEF Updates
<1>a. e \in Entry
  BY <1>1, ZenonT(30) DEF IInv, TypeOK
<1>b. Recvd(l) \in Frame
  BY <1>1, RecvdType, ZenonT(30)
<1>4. /\ e.broadcast_id \in Nat /\ e.no_hops \in Nat
      /\ Recvd(l).broadcast_id \in Nat /\ Recvd(l).hop_count \in Nat
  BY <1>a, <1>b, ZenonT(30) DEF Entry, Frame
<1> QED
  BY <1>3, <1>4 DEF check_r_entry, Covers

LEMMA VisitedOn ==
  ASSUME NEW l \in Link, Learning(l), Updates(l), Flood(Recvd(l)), NEW type
  PROVE  Visited(rtable', flood_onward(Recvd(l), type))
<1> DEFINE f == Recvd(l)
           g == flood_onward(f, type)
           h == f.hop_count
<1>1. /\ Grows(rtable, rtable') /\ Visited(rtable, f) /\ f \in Frame /\ h \in Nat
      /\ SrcRoute(l) \in rtable'[l.to]
  BY Learnt, ZenonT(30) DEF FrameOK, Frame
<1>2. /\ rtable \in [Node -> SUBSET Entry] /\ rtable' \in [Node -> SUBSET Entry] /\ l.to \in Node
  BY LinkFacts, ZenonT(30) DEF Learning, IInv, TypeOK
<1>3. /\ g.hop_count = h + 1 /\ g.src_ip = f.src_ip /\ g.broadcast_id = f.broadcast_id
  BY DEF flood_onward, construct_odr
<1>4. PICK p \in [1 .. h -> Node] :
        /\ \A i, j \in 1 .. h : p[i] = p[j] => i = j
        /\ \A i \in 1 .. h : \E e \in rtable[p[i]] : Covers(e, f, i)
  BY <1>1, ZenonT(30) DEF Visited
<1>5. Covers(SrcRoute(l), g, h + 1)
  <2>1. SrcRoute(l) = update_r_entry(f, l.ifno, l.from)
    BY ZenonT(30) DEF SrcRoute
  <2>2. /\ SrcRoute(l).destip = f.src_ip /\ SrcRoute(l).broadcast_id = f.broadcast_id
        /\ SrcRoute(l).no_hops = h + 1
    BY <2>1 DEF update_r_entry
  <2> QED
    BY <1>1, <1>3, <2>2, CoversNew, ZenonT(30)
<1>6. ASSUME NEW i \in 1 .. h
      PROVE  /\ p[i] # l.to
             /\ \E e \in rtable'[p[i]] : Covers(e, g, i)
  <2>1. PICK e \in rtable[p[i]] : Covers(e, f, i)
    BY <1>4, ZenonT(30)
  <2>2. p[i] \in Node /\ i \in Nat /\ i <= h
    BY <1>1
  <2>3. PICK e2 \in rtable'[p[i]] : e2.destip = e.destip /\ NoWorse(e, e2)
    BY <1>1, <2>2, ZenonT(30) DEF Grows
  <2>4. e \in Entry /\ e2 \in Entry
    BY <1>2, <2>2
  <2>5. Covers(e2, f, i)
    BY <1>1, <2>1, <2>2, <2>3, <2>4, CoversGrows, ZenonT(30)
  <2>6. Covers(e2, g, i)
    BY <1>3, <2>5, ZenonT(30) DEF Covers
  <2>7. p[i] # l.to
    BY <2>1, <2>2, NewVisit, ZenonT(30)
  <2> QED
    BY <2>6, <2>7, ZenonT(30)
<1> HIDE DEF f, g, h
<1> DEFINE q == [i \in 1 .. (h + 1) |-> IF i = h + 1 THEN l.to ELSE p[i]]
<1>7. \A i \in 1 .. (h + 1) : i = h + 1 \/ i \in 1 .. h
  BY <1>1
<1>8. q \in [1 .. (h + 1) -> Node] /\ q[h + 1] = l.to /\ \A i \in 1 .. h : q[i] = p[i]
  BY <1>1, <1>2, <1>7
<1> HIDE DEF q
<1>9. \A i, j \in 1 .. (h + 1) : q[i] = q[j] => i = j
  BY <1>4, <1>6, <1>7, <1>8, ZenonT(30)
<1>10. \A i \in 1 .. (h + 1) : \E e \in rtable'[q[i]] : Covers(e, g, i)
  BY <1>1, <1>5, <1>6, <1>7, <1>8, ZenonT(30)
<1>11. Visited(rtable', g)
  BY <1>3, <1>8, <1>9, <1>10, ZenonT(30) DEF Visited
<1> QED
  BY <1>11 DEF g, f

LEMMA FloodOnOK ==
  ASSUME NEW l \in Link, Learning(l), Updates(l), Flood(Recvd(l)), NEW type \in {"RREQ", "ASENT"},
         NEW k \in Link, k.from = l.to
  PROVE  FrameOK(rtable', k, flood_onward(Recvd(l), type))
<1> DEFINE f == Recvd(l)
           g == flood_onward(f, type)
<1>1. /\ g.hop_count = f.hop_count + 1 /\ g.src_ip = f.src_ip /\ g.frame_type = type
      /\ g.route_disc_flag = f.route_disc_flag
  BY ZenonT(30) DEF flood_onward, construct_odr
<1>2. /\ FrameOK(rtable, l, f) /\ Knows(rtable', l.to, f.src_ip) /\ f.hop_count \in Nat
      /\ f.src_ip \in Node
  BY Learnt, ZenonT(30) DEF Frame
<1>3. Spans(f.hop_count, f.src_ip, l.from) /\ f.route_disc_flag = 0
  BY <1>2 DEF FrameOK
<1>4. Spans(f.hop_count + 1, f.src_ip, l.to)
  BY <1>2, <1>3, HopsOn, ZenonT(30)
<1>5. Visited(rtable', g)
  BY VisitedOn, ZenonT(30)
<1> HIDE DEF f, g
<1>6. FrameOK(rtable', k, g)
  BY <1>1, <1>2, <1>3, <1>4, <1>5 DEF FrameOK, Flood
<1> QED
  BY <1>6 DEF g, f

-----------------------------------------------------------------------------
(* The handlers of Ethernet frames. *)

\* The end of a link over which a frame for an entry's next hop goes.
LEMMA Ends ==
  ASSUME NEW n, NEW e, NEW k \in unicast(n, e)
  PROVE  k.from = n /\ k.to = e.next_hop
BY DEF unicast

LEMMA EtherSends ==
  ASSUME NEW l \in Link, Learning(l), NEW S, NEW out \in [S -> WireFrame],
         Transmit(l.to, {l}, out), \A k \in S : k \in Link => FrameOK(rtable', k, out[k]),
         QueuesOK'
  PROVE  RouteInv'
<1>1. IInv /\ IInv' /\ LinksOK /\ Grows(rtable, rtable') /\ TablesOK(rtable')
  BY Learnt, ZenonT(30) DEF Learning, RouteInv
<1>2. \A j \in {l} : chan[j] # <<>>
  BY ZenonT(30) DEF Learning, Receive
<1>3. LinksOK'
  BY <1>1, <1>2, TransmitOK, ZenonT(30)
<1> QED
  BY <1>1, <1>3 DEF RouteInv

LEMMA RreqRoutes ==
  ASSUME NEW l \in Link, Learning(l), QueuesOK',
         RreqAtDest(l) \/ RreqFromTable(l) \/ RreqFlood(l) \/ Asent(l)
  PROVE  RouteInv'
<1> DEFINE f == Recvd(l)
           T == rtable'
<1>1. /\ FrameOK(rtable, l, f) /\ f \in HostFrame /\ f \in Frame /\ l.to \in Node
      /\ Knows(T, SrcRoute(l).next_hop, f.src_ip)
  BY Learnt, LinkFacts, ZenonT(30)
<1>2. Flood(f)
  BY DEF RreqAtDest, RreqFromTable, RreqFlood, Asent, EtherMsg, Flood
<1>3. get_broadcast_id(bid[l.to], 1) \in Nat /\ 0 \in Nat /\ f.route_disc_flag = 0
  BY <1>1, BidType, ZenonT(30) DEF Learning, IInv, FrameOK
<1>4. \A b \in Nat, h \in Nat :
        LET u == rrep_swapped(f, b, h) IN
          /\ u \in WireFrame /\ ~Flood(u) /\ u.route_disc_flag = 0 /\ u.hop_count = h
          /\ u.src_ip = f.dest_ip /\ u.dest_ip = f.src_ip
  BY <1>1, MadeFrames, ZenonT(30) DEF rrep_swapped, construct_odr, Flood
<1>5. \A type \in {"RREQ", "ASENT"} : flood_onward(f, type) \in WireFrame
  BY <1>1, <1>3, UnflaggedFlood, ZenonT(30)
<1>6. CASE RreqAtDest(l)
  <2> DEFINE S == unicast(l.to, SrcRoute(l))
             u == rrep_swapped(f, get_broadcast_id(bid[l.to], 1), 0)
             out == [k \in S |-> u]
  <2>1. Transmit(l.to, {l}, out) /\ f.dest_ip = l.to
    BY <1>6, ZenonT(30) DEF RreqAtDest, ForMe
  <2>2. /\ u \in WireFrame /\ ~Flood(u) /\ u.route_disc_flag = 0 /\ u.hop_count = 0
        /\ u.src_ip = l.to /\ u.dest_ip = f.src_ip
    BY <1>3, <1>4, <2>1, ZenonT(30)
  <2> HIDE DEF u
  <2>3. ASSUME NEW k \in S, k \in Link PROVE FrameOK(T, k, out[k])
    <3>1. k.from = l.to /\ k.to = SrcRoute(l).next_hop
      BY Ends, ZenonT(30)
    <3>2. Spans(0, l.to, l.to) /\ Knows(T, l.to, l.to)
      BY <1>1, AtHome, ZenonT(30) DEF Knows
    <3> QED
      BY <1>1, <2>2, <3>1, <3>2, ZenonT(30) DEF FrameOK
  <2>4. out \in [S -> WireFrame]
    BY <2>2, ZenonT(30)
  <2> HIDE DEF S, out
  <2> QED
    BY <2>1, <2>3, <2>4, EtherSends, ZenonT(30)
<1>7. CASE RreqFromTable(l)
  <2> DEFINE reply == unicast(l.to, SrcRoute(l))
             tell  == IF Updates(l) THEN broadcast(l.to, {l.ifno}) ELSE {}
             u(e)  == rrep_swapped(f, get_broadcast_id(bid[l.to], 1), e.no_hops)
             out(e) == [k \in reply \cup tell |->
               IF k \in reply THEN u(e) ELSE flood_onward(f, "ASENT")]
  <2>1. PICK e \in DestEntry(l) : Transmit(l.to, {l}, out(e))
    BY <1>7, ZenonT(30) DEF RreqFromTable
  <2>2. /\ Knows(T, l.to, f.dest_ip) /\ Spans(e.no_hops, f.dest_ip, l.to) /\ e.no_hops \in Nat
    BY Learnt, ZenonT(30)
  <2>3. /\ u(e) \in WireFrame /\ ~Flood(u(e)) /\ u(e).route_disc_flag = 0
        /\ u(e).hop_count = e.no_hops /\ u(e).src_ip = f.dest_ip /\ u(e).dest_ip = f.src_ip
    BY <1>3, <1>4, <2>2, ZenonT(30)
  <2> HIDE DEF u
  <2>4. ASSUME NEW k \in reply, k \in Link PROVE FrameOK(T, k, u(e))
    <3>1. k.from = l.to /\ k.to = SrcRoute(l).next_hop
      BY Ends
    <3> QED
      BY <1>1, <2>2, <2>3, <3>1, ZenonT(30) DEF FrameOK
  <2>5. ASSUME NEW k \in tell, k \in Link PROVE FrameOK(T, k, flood_onward(f, "ASENT"))
    <3>1. Updates(l) /\ k.from = l.to
      BY DEF broadcast
    <3> QED
      BY <1>2, <2>5, <3>1, FloodOnOK, ZenonT(30)
  <2>6. /\ out(e) \in [reply \cup tell -> WireFrame]
        /\ \A k \in reply \cup tell : k \in Link => FrameOK(T, k, out(e)[k])
    BY <1>5, <2>3, <2>4, <2>5, ZenonT(30)
  <2> HIDE DEF reply, tell, out
  <2> QED
    BY <2>1, <2>6, EtherSends, ZenonT(30)
<1>8. CASE RreqFlood(l) \/ Asent(l)
  <2> DEFINE S == IF Updates(l) THEN broadcast(l.to, {l.ifno}) ELSE {}
             out(type) == [k \in S |-> flood_onward(f, type)]
  <2>1. PICK type \in {"RREQ", "ASENT"} : Transmit(l.to, {l}, out(type))
    BY <1>8 DEF RreqFlood, Asent
  <2>2. ASSUME NEW k \in S, k \in Link PROVE FrameOK(T, k, flood_onward(f, type))
    <3>1. Updates(l) /\ k.from = l.to
      BY DEF broadcast
    <3> QED
      BY <1>2, <2>2, <3>1, FloodOnOK, ZenonT(30)
  <2>3. /\ out(type) \in [S -> WireFrame]
        /\ \A k \in S : k \in Link => FrameOK(T, k, out(type)[k])
    BY <1>5, <2>2
  <2> HIDE DEF S, out
  <2> QED
    BY <2>1, <2>3, EtherSends, ZenonT(30)
<1> QED
  BY <1>6, <1>7, <1>8

\* A reply or a message with a route is passed on to a node with a route.
LEMMA ForwardRoutes ==
  ASSUME NEW l \in Link, Learning(l), QueuesOK', RrepForward(l) \/ DataForward(l)
  PROVE  RouteInv'
<1> DEFINE f == Recvd(l)
           T == rtable'
           r == rrep_onward(f, SrcRoute(l).no_hops)
           out(u, e) == [k \in unicast(l.to, e) |-> u]
<1>1. /\ FrameOK(rtable, l, f) /\ f \in HostFrame /\ l.to \in Node
      /\ Knows(T, l.to, f.src_ip) /\ SrcRoute(l).no_hops \in Nat
      /\ Spans(SrcRoute(l).no_hops, f.src_ip, l.to)
  BY Learnt, LinkFacts, ZenonT(30)
<1>2. PICK e \in DestEntry(l), u \in {r, Forwarded(l)} :
        /\ Transmit(l.to, {l}, out(u, e))
        /\ u = r \/ f.frame_type = "DATA"
  BY ZenonT(30) DEF RrepForward, DataForward, Forwarded, EtherMsg
<1>3. /\ Knows(T, e.next_hop, f.dest_ip)
  BY Learnt, ZenonT(30)
<1>4. /\ u \in WireFrame /\ ~Flood(u) /\ u.route_disc_flag = 0
      /\ u.hop_count = SrcRoute(l).no_hops /\ u.src_ip = f.src_ip /\ u.dest_ip = f.dest_ip
  <2>1. f.route_disc_flag = 0 /\ IInv /\ Receive(l) /\ 0 \in Nat
    BY <1>1, ZenonT(30) DEF FrameOK, Learning
  <2>2. CASE u = r
    BY <1>1, <2>1, <2>2, MadeFrames, ZenonT(30) DEF rrep_onward, construct_odr, Flood
  <2>3. CASE u = Forwarded(l) /\ f.frame_type = "DATA"
    BY <2>1, <2>3, ForwardedIs, ZenonT(30) DEF Flood
  <2> QED
    BY <1>2, <2>2, <2>3, ZenonT(30)
<1>5. ASSUME NEW k \in unicast(l.to, e), k \in Link PROVE FrameOK(T, k, u)
  <2>1. k.from = l.to /\ k.to = e.next_hop
    BY Ends
  <2> QED
    BY <1>1, <1>3, <1>4, <2>1, ZenonT(30) DEF FrameOK
<1>6. /\ out(u, e) \in [unicast(l.to, e) -> WireFrame]
      /\ \A k \in unicast(l.to, e) : k \in Link => FrameOK(T, k, out(u, e)[k])
  BY <1>4, <1>5, ZenonT(30)
<1> HIDE DEF out
<1> QED
  BY <1>2, <1>6, EtherSends, ZenonT(30)

\* No reply and no message comes to a node that does not know where it goes.
LEMMA NeverParks ==
  ASSUME IInv, Unexpired, LinksOK, NEW l \in Link, RrepPark(l) \/ DataPark(l)
  PROVE  FALSE
<1>1. Receive(l) /\ ~ForMe(l) /\ DestEntry(l) = {} /\ ~Flood(Recvd(l))
  BY DEF RrepPark, DataPark, Park, EtherMsg, Flood
<1>2. Knows(rtable, l.to, Recvd(l).dest_ip)
  BY <1>1, RecvdOK, ZenonT(30) DEF FrameOK
<1>3. \E e \in rtable[l.to] : e.destip = Recvd(l).dest_ip
  BY <1>1, <1>2, ZenonT(30) DEF Knows, ForMe
<1> QED
  BY <1>1, <1>3, Lookups, ZenonT(30)

-----------------------------------------------------------------------------
(* The queues. *)

LEMMA ValsLonger ==
  ASSUME NEW F, NEW s \in Seq(F), NEW x \in F
  PROVE  /\ \A v \in Vals(Append(s, x)) : v \in Vals(s) \/ v = x
         /\ \A v \in Vals(<<x>> \o s) : v \in Vals(s) \/ v = x
<1>1. Len(s) \in Nat /\ DOMAIN s = 1 .. Len(s)
  OBVIOUS
<1> DEFINE t == Append(s, x)
           u == <<x>> \o s
<1>2. DOMAIN t = 1 .. (Len(s) + 1) /\ \A i \in DOMAIN t : t[i] = x \/ (i \in DOMAIN s /\ t[i] = s[i])
  BY <1>1
<1>3. DOMAIN u = 1 .. (Len(s) + 1) /\ \A i \in DOMAIN u : u[i] = x \/ (i - 1 \in DOMAIN s /\ u[i] = s[i - 1])
  <2>1. Len(<<x>>) = 1 /\ <<x>> \in Seq(F) /\ <<x>>[1] = x
    OBVIOUS
  <2> QED
    BY <1>1, <2>1, SeqConcat
<1> HIDE DEF t, u
<1>4. \A v \in Vals(t) : v \in Vals(s) \/ v = x
  BY <1>2 DEF Vals
<1>5. \A v \in Vals(u) : v \in Vals(s) \/ v = x
  BY <1>3 DEF Vals
<1> QED
  BY <1>4, <1>5 DEF t, u

LEMMA ValsShorter ==
  ASSUME NEW F, NEW s \in Seq(F)
  PROVE  /\ s # <<>> => Head(s) \in Vals(s) /\ \A v \in Vals(Tail(s)) : v \in Vals(s)
         /\ \A i \in DOMAIN s : s[i] \in Vals(s) /\ \A v \in Vals(remove_pending(s, i)) : v \in Vals(s)
<1>1. Len(s) \in Nat /\ DOMAIN s = 1 .. Len(s)
  OBVIOUS
<1>2. ASSUME s # <<>> PROVE Head(s) \in Vals(s) /\ \A v \in Vals(Tail(s)) : v \in Vals(s)
  <2>1. /\ Head(s) = s[1] /\ 1 \in DOMAIN s
        /\ \A i \in DOMAIN Tail(s) : i + 1 \in DOMAIN s /\ Tail(s)[i] = s[i + 1]
    BY <1>1, <1>2
  <2> QED
    BY <2>1 DEF Vals
<1>3. ASSUME NEW i \in DOMAIN s PROVE \A v \in Vals(remove_pending(s, i)) : v \in Vals(s)
  <2> DEFINE x == SubSeq(s, 1, i - 1)
             y == SubSeq(s, i + 1, Len(s))
             t == remove_pending(s, i)
  <2>1. i \in 1 .. Len(s)
    BY <1>1, ZenonT(30)
  <2>2. x \in Seq(F) /\ Len(x) = i - 1 /\ \A j \in 1 .. (i - 1) : x[j] = s[j]
    BY <1>1, <2>1, SeqPart
  <2>3. y \in Seq(F) /\ Len(y) = Len(s) - i /\ \A j \in 1 .. (Len(s) - i) : y[j] = s[j + i]
    BY <1>1, <2>1, SeqPart
  <2> HIDE DEF x, y
  <2>4. t = x \o y
    BY DEF remove_pending, x, y
  <2>5. /\ DOMAIN t = 1 .. (Len(x) + Len(y))
        /\ \A j \in DOMAIN t : t[j] = IF j <= Len(x) THEN x[j] ELSE y[j - Len(x)]
    <3>1. /\ x \o y \in Seq(F) /\ Len(x \o y) = Len(x) + Len(y)
          /\ \A j \in 1 .. (Len(x) + Len(y)) :
               (x \o y)[j] = IF j <= Len(x) THEN x[j] ELSE y[j - Len(x)]
      BY <2>2, <2>3, SeqConcat, ZenonT(30)
    <3>2. DOMAIN (x \o y) = 1 .. (Len(x) + Len(y))
      BY <3>1, SeqElements, ZenonT(30)
    <3> QED
      BY <2>4, <3>1, <3>2, ZenonT(30)
  <2> HIDE DEF t
  <2>6. ASSUME NEW j \in DOMAIN t PROVE \E h \in DOMAIN s : t[j] = s[h]
    <3>1. CASE j <= Len(x)
      <4>1. j \in 1 .. (i - 1) /\ j \in DOMAIN s
        BY <1>1, <2>1, <2>2, <2>3, <2>5, <3>1
      <4> QED
        BY <2>2, <2>5, <3>1, <4>1, ZenonT(30)
    <3>2. CASE ~(j <= Len(x))
      <4>1. j - (i - 1) \in 1 .. (Len(s) - i) /\ j + 1 \in DOMAIN s
        BY <1>1, <2>1, <2>2, <2>3, <2>5, <3>2
      <4>2. y[j - (i - 1)] = s[(j - (i - 1)) + i]
        BY <2>3, <4>1, ZenonT(30)
      <4>3. (j - (i - 1)) + i = j + 1
        BY <1>1, <2>1, <2>2, <2>3, <2>5
      <4> QED
        BY <2>2, <2>5, <3>2, <4>1, <4>2, <4>3, ZenonT(30)
    <3> QED
      BY <3>1, <3>2
  <2>7. \A v \in Vals(t) : v \in Vals(s)
    BY <2>6, ZenonT(30) DEF Vals
  <2> QED
    BY <2>7 DEF t
<1> QED
  BY <1>2, <1>3, ZenonT(30) DEF Vals

\* One daemon's queue of parked frames, or of requests, changes.
LEMMA PendingOK ==
  ASSUME IInv, QueuesOK, NEW n \in Node, proc_q' = proc_q,
         \/ pending' = pending
         \/ \E i \in DOMAIN pending[n] : pending' = [pending EXCEPT ![n] = remove_pending(@, i)]
  PROVE  QueuesOK'
<1>1. pending \in [Node -> Seq(ParkedFrame)]
  BY DEF IInv
<1>2. ASSUME NEW i \in DOMAIN pending[n], pending' = [pending EXCEPT ![n] = remove_pending(@, i)],
             NEW m \in Node
      PROVE  \A v \in Vals(pending'[m]) : v \in Vals(pending[m])
  <2>1. pending'[m] = IF m = n THEN remove_pending(pending[n], i) ELSE pending[m]
    BY <1>1, <1>2, ZenonT(30)
  <2>2. \A v \in Vals(remove_pending(pending[n], i)) : v \in Vals(pending[n])
    BY <1>1, ValsShorter, ZenonT(30)
  <2> QED
    BY <2>1, <2>2, ZenonT(30)
<1>3. ASSUME NEW m \in Node PROVE \A v \in Vals(pending'[m]) : v \in Vals(pending[m])
  BY <1>2, ZenonT(30)
<1> QED
  BY <1>3 DEF QueuesOK

LEMMA RequestOK ==
  ASSUME IInv, QueuesOK, pending' = pending, NEW n \in Node, NEW r \in Request,
         r.route_disc_flag = 0, msg_send(n, r)
  PROVE  QueuesOK'
<1>1. proc_q \in [Node -> Seq(Request)]
  BY ZenonT(30) DEF IInv, TypeOK
<1>2. ASSUME NEW m \in Node, NEW v \in Vals(proc_q'[m]) PROVE v.route_disc_flag = 0
  <2>1. proc_q'[m] = proc_q[m] \/ (m = n /\ proc_q'[m] = Append(proc_q[m], r))
    BY <1>1 DEF msg_send
  <2>2. v \in Vals(proc_q[m]) \/ v = r
    BY <1>1, <2>1, ValsLonger, ZenonT(30)
  <2> QED
    BY <2>2, ZenonT(30) DEF QueuesOK
<1> QED
  BY <1>2, ZenonT(30) DEF QueuesOK

LEMMA PeerOK ==
  ASSUME IInv, QueuesOK, NEW n \in Node, PeerMsg(n),
         \/ pending' = pending
         \/ \E f \in ParkedFrame : f.src_ip = n /\ pending' = [pending EXCEPT ![n] = <<f>> \o @]
  PROVE  /\ Head(proc_q[n]).route_disc_flag = 0
         /\ QueuesOK'
<1>1. proc_q \in [Node -> Seq(Request)] /\ pending \in [Node -> Seq(ParkedFrame)]
  BY DEF IInv, TypeOK
<1>2. proc_q[n] # <<>> /\ proc_q' = [proc_q EXCEPT ![n] = Tail(@)]
  BY DEF PeerMsg
<1>3. Head(proc_q[n]) \in Vals(proc_q[n]) /\ \A v \in Vals(Tail(proc_q[n])) : v \in Vals(proc_q[n])
  BY <1>1, <1>2, ValsShorter, ZenonT(30)
<1>4. ASSUME NEW m \in Node PROVE \A v \in Vals(proc_q'[m]) : v.route_disc_flag = 0
  <2>1. proc_q'[m] = IF m = n THEN Tail(proc_q[n]) ELSE proc_q[m]
    BY <1>1, <1>2
  <2> QED
    BY <1>3, <2>1, ZenonT(30) DEF QueuesOK
<1>5. ASSUME NEW m \in Node, NEW v \in Vals(pending'[m]) PROVE v.src_ip = m
  <2>1. CASE pending' = pending
    BY <1>5, <2>1, ZenonT(30) DEF QueuesOK
  <2>2. ASSUME NEW f \in ParkedFrame, f.src_ip = n, pending' = [pending EXCEPT ![n] = <<f>> \o @]
        PROVE  v.src_ip = m
    <3>1. pending'[m] = IF m = n THEN <<f>> \o pending[n] ELSE pending[m]
      BY <1>1, <2>2, ZenonT(30)
    <3>2. \A w \in Vals(<<f>> \o pending[n]) : w \in Vals(pending[n]) \/ w = f
      BY <1>1, ValsLonger, ZenonT(30)
    <3> QED
      BY <2>2, <3>1, <3>2 DEF QueuesOK
  <2> QED
    BY <2>1, <2>2, ZenonT(30)
<1> QED
  BY <1>3, <1>4, <1>5 DEF QueuesOK

-----------------------------------------------------------------------------
(* The remaining steps. *)

\* A parked message goes out on the route its reply brought.
LEMMA ReleaseRoutes ==
  ASSUME NEW l \in Link, Learning(l), QueuesOK', RrepAtDest(l)
  PROVE  RouteInv'
<1> DEFINE T == rtable'
           S == unicast(l.to, SrcRoute(l))
           u(f) == IF f.frame_type = "RREP" THEN rrep_onward(f, f.hop_count)
                                            ELSE convert_host_net_order(f)
           out(f) == [k \in S |-> u(f)]
<1>1. /\ IInv /\ QueuesOK /\ l.to \in Node /\ 0 \in Nat
      /\ Knows(T, SrcRoute(l).next_hop, Recvd(l).src_ip)
  BY Learnt, LinkFacts, ZenonT(30) DEF Learning, RouteInv
<1>2. PICK i \in DOMAIN pending[l.to] :
        /\ lookup_pending_queue(pending[l.to], i, Recvd(l).src_ip)
        /\ Transmit(l.to, {l}, out(pending[l.to][i]))
  BY ZenonT(30) DEF RrepAtDest
<1> DEFINE f == pending[l.to][i]
<1>3. f \in ParkedFrame /\ f.dest_ip = Recvd(l).src_ip /\ f.src_ip = l.to
  <2>1. pending[l.to] \in Seq(ParkedFrame)
    BY <1>1, ZenonT(30) DEF IInv
  <2>2. f \in Vals(pending[l.to])
    BY DEF Vals
  <2> QED
    BY <1>1, <1>2, <2>1, <2>2, UnparkType, ZenonT(30) DEF lookup_pending_queue, QueuesOK
<1>4. Transmit(l.to, {l}, out(f))
  BY <1>2, ZenonT(30)
<1> HIDE DEF f
<1>5. /\ f \in HostFrame /\ f.hop_count \in Nat /\ f.frame_type \in {"RREP", "DATA"}
      /\ f.route_disc_flag = 0
  BY <1>3, ParkedIsHost, ZenonT(30) DEF HostFrame, ParkedFrame, Frame
<1>6. /\ u(f) \in WireFrame /\ ~Flood(u(f)) /\ u(f).route_disc_flag = 0
      /\ u(f).hop_count = f.hop_count /\ u(f).src_ip = l.to /\ u(f).dest_ip = Recvd(l).src_ip
  <2>1. CASE f.frame_type = "RREP"
    <3>1. u(f) = rrep_onward(f, f.hop_count)
      BY <2>1
    <3>2. rrep_onward(f, f.hop_count) \in WireFrame
      BY <1>1, <1>5, MadeFrames, ZenonT(30)
    <3>3. LET w == rrep_onward(f, f.hop_count) IN
            /\ ~Flood(w) /\ w.route_disc_flag = 0 /\ w.hop_count = f.hop_count
            /\ w.src_ip = f.src_ip /\ w.dest_ip = f.dest_ip
      BY ZenonT(30) DEF rrep_onward, construct_odr, Flood
    <3> QED
      BY <1>3, <2>1, <3>2, <3>3, ZenonT(30)
  <2>2. CASE f.frame_type = "DATA"
    <3>1. u(f) = convert_host_net_order(f)
      BY <2>2, ZenonT(30)
    <3>2. convert_host_net_order(f) \in WireFrame
      BY <1>5, HostToNet
    <3> QED
      BY <1>3, <1>5, <2>2, <3>1, <3>2 DEF convert_host_net_order, SwapOrder, Flood, HostFrame, Frame
  <2> QED
    BY <1>5, <2>1, <2>2, ZenonT(30)
<1> HIDE DEF u
<1>7. ASSUME NEW k \in S, k \in Link PROVE FrameOK(T, k, u(f))
  <2>1. k.from = l.to /\ k.to = SrcRoute(l).next_hop
    BY Ends, ZenonT(30)
  <2>2. Spans(f.hop_count, l.to, l.to) /\ Knows(T, l.to, l.to)
    BY <1>1, <1>5, AtHome DEF Knows
  <2> QED
    BY <1>1, <1>6, <2>1, <2>2, ZenonT(30) DEF FrameOK
<1>8. out(f) \in [S -> WireFrame] /\ \A k \in S : k \in Link => FrameOK(T, k, out(f)[k])
  BY <1>6, <1>7, ZenonT(30)
<1> HIDE DEF S, out
<1> QED
  BY <1>4, <1>8, EtherSends, ZenonT(30)

\* A lookup without the flag leaves the table alone.
LEMMA PeerLookup ==
  ASSUME Unexpired, NEW n \in Node, NEW dst
  PROVE  after_r_lookup(rtable[n], dst, 0) = rtable[n]
BY DEF Unexpired, after_r_lookup


\* A step that sends and leaves the tables alone.
LEMMA PlainSends ==
  ASSUME IInv, IInv', RouteInv, QueuesOK', rtable' = rtable, NEW n, NEW S,
         NEW out \in [S -> WireFrame], Transmit(n, {}, out),
         \A k \in S : k \in Link => FrameOK(rtable, k, out[k])
  PROVE  RouteInv'
<1>1. rtable \in [Node -> SUBSET Entry] /\ LinksOK /\ TablesOK(rtable)
  BY DEF IInv, TypeOK, RouteInv
<1>2. Grows(rtable, rtable') /\ TablesOK(rtable')
  BY <1>1, SameGrows, ZenonT(30)
<1>3. /\ \A j \in {} : chan[j] # <<>>
      /\ \A k \in S : k \in Link => FrameOK(rtable', k, out[k])
  OBVIOUS
<1>4. LinksOK'
  BY <1>1, <1>2, <1>3, TransmitOK, ZenonT(30)
<1> QED
  BY <1>2, <1>4, ZenonT(30) DEF RouteInv

LEMMA DiscoverRoutes ==
  ASSUME IInv, IInv', Unexpired, RouteInv, NEW n \in Node, PeerDiscover(n)
  PROVE  RouteInv'
<1> DEFINE r == Head(proc_q[n])
           h(port) == construct_odr("RREQ", get_broadcast_id(bid[n], 1), 0,
                        r.route_disc_flag, port, r.destport, r.destip, n, r.msg)
           out(port) == [k \in broadcast(n, {}) |-> h(port)]
<1>1. TypeOK /\ PeerMsg(n) /\ r.destip # n /\ QueuesOK
  BY ZenonT(30) DEF IInv, PeerDiscover, RouteInv
<1>2. r \in Request
  BY <1>1, PeerType
<1>3. PICK port \in Ports(n) :
        /\ fetch_entry_path(n, r.filename, port)
        /\ Transmit(n, {}, out(port))
        /\ pending' = [pending EXCEPT ![n] = <<Parked(n, port)>> \o @]
  BY ZenonT(30) DEF PeerDiscover, Parked
<1>4. port \in Int
  BY <1>1, <1>2, <1>3, FetchPathType, ZenonT(30) DEF Request
<1>5. Parked(n, port) \in ParkedFrame /\ Parked(n, port).src_ip = n
  BY <1>1, <1>2, <1>4, ParkedIs, ZenonT(30)
<1>6. r.route_disc_flag = 0 /\ QueuesOK'
  BY <1>1, <1>3, <1>5, PeerOK, ZenonT(30)
<1>7. rtable' = rtable
  <2>1. rtable' = [rtable EXCEPT ![n] = after_r_lookup(@, r.destip, r.route_disc_flag)]
    BY ZenonT(30) DEF PeerDiscover
  <2>2. after_r_lookup(rtable[n], r.destip, r.route_disc_flag) = rtable[n]
    BY <1>6, PeerLookup, ZenonT(30)
  <2>3. rtable \in [Node -> SUBSET Entry]
    BY <1>1 DEF TypeOK
  <2> QED
    BY <2>1, <2>2, <2>3, ZenonT(30)
<1>8. h(port) \in WireFrame
  <2>1. get_broadcast_id(bid[n], 1) \in Nat
    BY <1>1, BidType
  <2> QED
    BY <1>1, <1>2, <1>4, <2>1, ConstructFrame, ZenonT(30) DEF Request
<1>9. /\ h(port).src_ip = n /\ h(port).route_disc_flag = 0 /\ h(port).hop_count = 0
      /\ h(port).frame_type = "RREQ"
  BY <1>6, ZenonT(30) DEF construct_odr
<1> HIDE DEF h
<1>10. Visited(rtable, h(port))
  <2>1. 1 .. h(port).hop_count = {}
    BY <1>9
  <2>2. [i \in 1 .. h(port).hop_count |-> n] \in [1 .. h(port).hop_count -> Node]
    OBVIOUS
  <2> QED
    BY <2>1, <2>2, ZenonT(30) DEF Visited
<1>11. ASSUME NEW k \in broadcast(n, {}) PROVE FrameOK(rtable, k, h(port))
  <2>1. k.from = n
    BY ZenonT(30) DEF broadcast
  <2>2. Spans(0, n, n) /\ Knows(rtable, n, n)
    BY AtHome DEF Knows
  <2> QED
    BY <1>9, <1>10, <2>1, <2>2, ZenonT(30) DEF FrameOK, Flood
<1>12. /\ out(port) \in [broadcast(n, {}) -> WireFrame]
       /\ \A k \in broadcast(n, {}) : k \in Link => FrameOK(rtable, k, out(port)[k])
  BY <1>8, <1>11
<1> HIDE DEF out
<1> QED
  BY <1>3, <1>6, <1>7, <1>12, PlainSends, ZenonT(30)

LEMMA SendRoutes ==
  ASSUME IInv, IInv', Unexpired, RouteInv, NEW n \in Node, PeerSend(n)
  PROVE  RouteInv'
<1> DEFINE r == Head(proc_q[n])
<1>1. TypeOK /\ PeerMsg(n) /\ r.destip # n /\ QueuesOK /\ TablesOK(rtable)
      /\ pending' = pending /\ rtable' = rtable
  BY ZenonT(30) DEF IInv, PeerSend, RouteInv
<1>2. r \in Request
  BY <1>1, PeerType, ZenonT(30)
<1>3. r.route_disc_flag = 0 /\ QueuesOK'
  BY <1>1, PeerOK
<1>4. PICK e \in got_r_entry(rtable[n], r.destip, r.route_disc_flag), port \in Ports(n) :
        /\ fetch_entry_path(n, r.filename, port)
        /\ Transmit(n, {}, [k \in unicast(n, e) |-> Dispatched(n, e, port)])
  BY ZenonT(30) DEF PeerSend, Dispatched
<1>5. e \in rtable[n] /\ e.destip = r.destip
  BY DEF got_r_entry
<1>6. e \in Entry /\ Knows(rtable, e.next_hop, r.destip)
  BY <1>1, <1>5, ZenonT(30) DEF TypeOK, TablesOK, EntryOK
<1>7. port \in Int
  BY <1>1, <1>2, <1>4, FetchPathType, ZenonT(30) DEF Request
<1> DEFINE u == Dispatched(n, e, port)
           out == [k \in unicast(n, e) |-> u]
<1>8. /\ u \in WireFrame /\ u.frame_type = "DATA" /\ u.src_ip = n /\ u.dest_ip = r.destip
      /\ u.hop_count = 0 /\ u.route_disc_flag = 0
  <2>a. r.route_disc_flag # 1
    BY <1>3
  <2>1. MaySend(n, e, port)
    BY <1>1, <1>2, <1>6, <1>7, <2>a, ZenonT(30) DEF MaySend
  <2>2. Dispatch(n, e, port)
    BY <2>1, DispatchedIs, ZenonT(30)
  <2> QED
    BY <1>3, <2>2, ZenonT(30) DEF Dispatch
<1>9. Transmit(n, {}, out)
  BY <1>4
<1> HIDE DEF u
<1>10. ASSUME NEW k \in unicast(n, e) PROVE FrameOK(rtable, k, u)
  <2>1. k.from = n /\ k.to = e.next_hop
    BY Ends, ZenonT(30)
  <2>2. Spans(0, n, n) /\ Knows(rtable, n, n)
    BY AtHome DEF Knows
  <2> QED
    BY <1>6, <1>8, <2>1, <2>2, ZenonT(30) DEF FrameOK, Flood
<1>11. /\ out \in [unicast(n, e) -> WireFrame]
       /\ \A k \in unicast(n, e) : k \in Link => FrameOK(rtable, k, out[k])
  BY <1>8, <1>10, ZenonT(30)
<1> HIDE DEF out
<1> QED
  BY <1>1, <1>3, <1>9, <1>11, PlainSends, ZenonT(30)

\* A second passes: an entry keeps all but its age.
LEMMA TickRoutes ==
  ASSUME IInv, IInv', RouteInv, NEW n \in Node, Tick(n)
  PROVE  RouteInv'
<1>1. /\ rtable \in [Node -> SUBSET Entry] /\ LinksOK /\ TablesOK(rtable)
      /\ chan' = chan /\ pending' = pending /\ proc_q' = proc_q
      /\ rtable' = [rtable EXCEPT ![n] = {aged(e) : e \in @}]
  BY DEF IInv, TypeOK, RouteInv, Tick
<1>2. \A m \in Node : rtable'[m] = IF m = n THEN {aged(e) : e \in rtable[m]} ELSE rtable[m]
  BY <1>1, ZenonT(30)
<1>3. ASSUME NEW e \in Entry
      PROVE  /\ aged(e).destip = e.destip /\ aged(e).next_hop = e.next_hop
             /\ aged(e).no_hops = e.no_hops /\ NoWorse(e, aged(e)) /\ NoWorse(e, e)
  <2>1. /\ aged(e).destip = e.destip /\ aged(e).next_hop = e.next_hop
        /\ aged(e).no_hops = e.no_hops /\ aged(e).broadcast_id = e.broadcast_id
        /\ e.no_hops \in Nat /\ e.broadcast_id \in Nat
    BY DEF aged, Entry
  <2> QED
    BY <2>1 DEF NoWorse
<1>4. Grows(rtable, rtable')
  <2>1. ASSUME NEW m \in Node, NEW e \in rtable[m]
        PROVE  \E g \in rtable'[m] : g.destip = e.destip /\ NoWorse(e, g)
    BY <1>1, <1>2, <1>3, ZenonT(30)
  <2> QED
    BY <2>1, ZenonT(30) DEF Grows
<1>5. TablesOK(rtable')
  <2>1. ASSUME NEW m \in Node, NEW g \in rtable'[m] PROVE EntryOK(rtable', m, g)
    <3>1. PICK e \in rtable[m] : g = e \/ g = aged(e)
      BY <1>2, ZenonT(30)
    <3>2. e \in Entry /\ e.next_hop \in Node /\ EntryOK(rtable, m, e)
      BY <1>1 DEF TablesOK, Entry
    <3>3. g.destip = e.destip /\ g.next_hop = e.next_hop /\ g.no_hops = e.no_hops
      BY <1>3, <3>1, <3>2, ZenonT(30)
    <3>4. Knows(rtable', e.next_hop, e.destip)
      BY <1>4, <3>2, KnowsGrows, ZenonT(30) DEF EntryOK
    <3> QED
      BY <3>2, <3>3, <3>4, ZenonT(30) DEF EntryOK
  <2> QED
    BY <2>1 DEF TablesOK
<1>6. LinksOK'
  BY <1>1, <1>4, TakeOK, ZenonT(30)
<1>7. QueuesOK'
  BY <1>1 DEF RouteInv, QueuesOK
<1> QED
  BY <1>5, <1>6, <1>7, ZenonT(30) DEF RouteInv

\* A step that leaves the tables alone and sends nothing.
LEMMA QuietRoutes ==
  ASSUME IInv, IInv', RouteInv, QueuesOK', rtable' = rtable,
         \/ chan' = chan
         \/ \E l \in Link : chan[l] # <<>> /\ chan' = Sent({l}, <<>>)
  PROVE  RouteInv'
<1>1. rtable \in [Node -> SUBSET Entry] /\ LinksOK /\ TablesOK(rtable')
  BY ZenonT(30) DEF IInv, TypeOK, RouteInv
<1>2. Grows(rtable, rtable')
  BY <1>1, SameGrows, ZenonT(30)
<1> QED
  BY <1>1, <1>2, TakeOK, ZenonT(30) DEF RouteInv

LEMMA EtherRoutes ==
  ASSUME IInv, IInv', Unexpired, RouteInv, NEW l \in Link, HandleEthernetMsg(l)
  PROVE  RouteInv'
<1>1. l.to \in Node /\ QueuesOK /\ LinksOK
  BY LinkFacts, ZenonT(30) DEF RouteInv
<1>2. ASSUME NEW type, EtherMsg(l, type) PROVE Learning(l)
  BY <1>2 DEF Learning, EtherMsg
<1>3. CASE IgnoreDuplicate(l)
  <2>1. /\ chan[l] # <<>> /\ chan' = Sent({l}, <<>>) /\ rtable' = rtable
        /\ pending' = pending /\ proc_q' = proc_q
    BY <1>3, ZenonT(30) DEF IgnoreDuplicate, Receive, memory
  <2>2. QueuesOK'
    BY <1>1, <2>1, ZenonT(30) DEF QueuesOK
  <2> QED
    BY <2>1, <2>2, QuietRoutes, ZenonT(30)
<1>4. CASE RrepUnused(l) \/ DataAtDest(l)
  <2>1. /\ chan[l] # <<>> /\ chan' = Sent({l}, <<>>) /\ Learning(l)
        /\ pending' = pending /\ proc_q' = proc_q
    BY <1>2, <1>4, ZenonT(30) DEF RrepUnused, DataAtDest, EtherMsg, Receive
  <2>2. QueuesOK'
    BY <1>1, <2>1, ZenonT(30) DEF QueuesOK
  <2>3. Grows(rtable, rtable') /\ TablesOK(rtable')
    BY <2>1, Learnt, ZenonT(30)
  <2>4. LinksOK'
    BY <1>1, <2>1, <2>3, TakeOK, ZenonT(30)
  <2> QED
    BY <2>2, <2>3, <2>4, ZenonT(30) DEF RouteInv
<1>5. CASE \/ RreqAtDest(l) \/ RreqFromTable(l) \/ RreqFlood(l) \/ Asent(l)
           \/ RrepForward(l) \/ DataForward(l)
  <2>1. pending' = pending /\ proc_q' = proc_q
    BY <1>5, ZenonT(30) DEF RreqAtDest, RreqFromTable, RreqFlood, Asent, RrepForward, DataForward
  <2>2. QueuesOK'
    BY <1>1, <2>1, PendingOK, ZenonT(30)
  <2>3. Learning(l)
    BY <1>2, <1>5 DEF RreqAtDest, RreqFromTable, RreqFlood, Asent, RrepForward, DataForward
  <2> QED
    BY <1>5, <2>2, <2>3, RreqRoutes, ForwardRoutes, ZenonT(30)
<1>6. CASE RrepAtDest(l)
  <2>1. /\ proc_q' = proc_q /\ Learning(l)
        /\ \E i \in DOMAIN pending[l.to] : pending' = [pending EXCEPT ![l.to] = remove_pending(@, i)]
    BY <1>2, <1>6, ZenonT(30) DEF RrepAtDest
  <2>2. QueuesOK'
    BY <1>1, <2>1, PendingOK, ZenonT(30)
  <2> QED
    BY <1>6, <2>1, <2>2, ReleaseRoutes, ZenonT(30)
<1> QED
  BY <1>1, <1>3, <1>4, <1>5, <1>6, NeverParks, ZenonT(30) DEF HandleEthernetMsg

LEMMA NextRoutes ==
  ASSUME NoRestart, NoFlags, IInv, IInv', Unexpired, RouteInv, [Next]_vars
  PROVE  RouteInv'
<1>1. QueuesOK
  BY DEF RouteInv
<1>2. ASSUME NEW n \in Node, HandlePeerMsg(n) PROVE RouteInv'
  <2>1. CASE PeerLocal(n)
    <3>1. PeerMsg(n) /\ pending' = pending /\ rtable' = rtable /\ chan' = chan
      BY <2>1, ZenonT(30) DEF PeerLocal
    <3>2. QueuesOK'
      BY <1>1, <3>1, PeerOK, ZenonT(30)
    <3> QED
      BY <3>1, <3>2, QuietRoutes, ZenonT(30)
  <2> QED
    BY <1>2, <2>1, DiscoverRoutes, SendRoutes, ZenonT(30) DEF HandlePeerMsg
<1>3. ASSUME NEW n \in Node, ServerReply(n) PROVE RouteInv'
  <2> DEFINE m == Head(app_q[n][ServPath])
             r == [destip |-> m.src_ip, destport |-> m.src_port, msg |-> MaxMsg + m.msg,
                   filename |-> ServPath, route_disc_flag |-> 0]
  <2>1. msg_send(n, r) /\ pending' = pending /\ rtable' = rtable /\ chan' = chan
    BY <1>3, ZenonT(30) DEF ServerReply, memory
  <2>2. app_q[n][ServPath] \in Seq(Delivery) /\ app_q[n][ServPath] # <<>> /\ ServPath \in Path
    BY <1>3 DEF ServerReply, IInv, TypeOK, Path
  <2>3. m \in Delivery
    BY <2>2, SeqHeadTail, ZenonT(30)
  <2>4. r \in Request /\ r.route_disc_flag = 0
    <3>1. r \in Request
      BY <2>3, ReplyIsRequest, ZenonT(30)
    <3> QED
      BY <3>1, ZenonT(30)
  <2> HIDE DEF r
  <2>5. QueuesOK'
    BY <1>1, <2>1, <2>4, RequestOK
  <2> QED
    BY <2>1, <2>5, QuietRoutes, ZenonT(30)
<1>4. ASSUME NEW w \in Want, ClientSend(w) PROVE RouteInv'
  <2> DEFINE r == [destip |-> w.dest, destport |-> ServPort, msg |-> Len(asked) + 1,
                   filename |-> w.path, route_disc_flag |-> w.flag]
  <2>1. msg_send(w.node, r) /\ pending' = pending /\ rtable' = rtable /\ chan' = chan
    BY <1>4, ZenonT(30) DEF ClientSend, memory
  <2>2. /\ w.node \in Node /\ w.dest \in Node /\ w.path \in Path /\ w.flag = 0
        /\ Len(asked) + 1 \in Nat /\ ServPort \in Int
    <3>1. w.node \in Node /\ w.dest \in Node /\ w.path \in Path
      BY PathAssumption, ZenonT(30) DEF Path
    <3>2. asked \in Seq(Want) /\ w.flag = 0
      BY ZenonT(30) DEF NoFlags, IInv, TypeOK
    <3> QED
      BY <3>1, <3>2, NumberAssumption
  <2>3. r \in Request /\ r.route_disc_flag = 0
    BY <2>2, ZenonT(30) DEF Request
  <2> HIDE DEF r
  <2>4. QueuesOK'
    BY <1>1, <2>1, <2>2, <2>3, RequestOK, ZenonT(30)
  <2> QED
    BY <2>1, <2>4, QuietRoutes, ZenonT(30)
<1>5. ASSUME \/ \E l \in Link : Unheard(l) \/ Lose(l)
             \/ \E n \in Node : Kill(n) \/ ServerStart(n)
             \/ \E n \in Node, p \in Path : AppExit(n, p)
             \/ UNCHANGED vars
      PROVE  RouteInv'
  <2>1. /\ rtable' = rtable /\ pending' = pending /\ proc_q' = proc_q
        /\ \/ chan' = chan
           \/ \E l \in Link : chan[l] # <<>> /\ chan' = Sent({l}, <<>>)
    BY <1>5, ZenonT(30) DEF Unheard, Lose, Kill, ServerStart, AppExit, vars, memory
  <2>2. QueuesOK'
    BY <1>1, <2>1, ZenonT(30) DEF QueuesOK
  <2> QED
    BY <2>1, <2>2, QuietRoutes, ZenonT(30)
<1>6. ASSUME NEW n \in Node PROVE ~Restart(n)
  BY ZenonT(30) DEF NoRestart, Restart
<1>7. CASE Environment
  BY <1>4, <1>5, <1>6, <1>7, TickRoutes, ZenonT(30) DEF Environment
<1> QED
  BY <1>2, <1>3, <1>5, <1>7, EtherRoutes, ZenonT(30) DEF Next

LEMMA InitRoutes == Init => RouteInv
<1> SUFFICES ASSUME Init PROVE RouteInv
  OBVIOUS
<1>1. Vals(<<>>) = {}
  <2>1. DOMAIN <<>> = {}
    OBVIOUS
  <2> QED
    BY <2>1 DEF Vals
<1>2. /\ \A k \in Link : chan[k] = <<>>
      /\ \A n \in Node : pending[n] = <<>> /\ proc_q[n] = <<>> /\ rtable[n] = {}
  BY DEF Init
<1> QED
  BY <1>1, <1>2, ZenonT(30) DEF RouteInv, LinksOK, TablesOK, QueuesOK

LEMMA RoutesStay ==
  ASSUME NoRestart, NoFlags
  PROVE  Spec /\ []Unexpired => [](IInv /\ RouteInv)
<1>1. Init => IInv /\ RouteInv
  BY InitIInv, InitRoutes, ZenonT(30)
<1>2. IInv /\ RouteInv /\ Unexpired /\ [Next]_vars => (IInv /\ RouteInv)'
  BY NextIInv, NextRoutes
<1> QED
  BY <1>1, <1>2, PTL DEF Spec

-----------------------------------------------------------------------------
(* What it comes to. *)

\* While no route is lost, the node a route leads to has a route there too:
\* insert_r_entry and update_r_entry run before a frame is passed on, and
\* check_r_entry only replaces a route by another to the same destination.
THEOREM NextHopsKnow ==
  ASSUME NoRestart, NoFlags
  PROVE  Spec /\ []Unexpired => []NextHopKnows
<1>1. IInv /\ RouteInv => NextHopKnows
  BY ZenonT(30) DEF RouteInv, TablesOK, EntryOK, Knows, NextHopKnows
<1> QED
  BY <1>1, RoutesStay, PTL

\* While no route is lost, no RREP and no DATA frame under way is parked: the
\* branches of handle_ethernet_msg that call insert_pending_queue for a frame
\* of another node are for routes that were dropped.
THEOREM OnlyOwnParked ==
  ASSUME NoRestart, NoFlags
  PROVE  Spec /\ []Unexpired => []ParkedAtHome
<1>1. IInv /\ RouteInv => ParkedAtHome
  BY DEF RouteInv, QueuesOK, Vals, ParkedAtHome
<1> QED
  BY <1>1, RoutesStay, PTL

\* While no route is lost, no_hops never understates the distance, whoever
\* answered: an RREP from a table carries the hops of the entry it came from.
THEOREM HopsNeverShort ==
  ASSUME NoRestart, NoFlags
  PROVE  Spec /\ []Unexpired => []HopsCoverDistance
<1>1. IInv /\ RouteInv => HopsCoverDistance
  <2> SUFFICES ASSUME IInv, RouteInv, NEW n \in Node, NEW e \in rtable[n]
               PROVE  e.no_hops >= Dist[e.destip, n]
    BY DEF HopsCoverDistance
  <2>1. Spans(e.no_hops, e.destip, n)
    BY ZenonT(30) DEF RouteInv, TablesOK, EntryOK
  <2>2. e \in Entry
    BY DEF IInv, TypeOK
  <2>3. e.no_hops \in Nat /\ Dist[e.destip, n] \in Nat
    BY <2>2, DistAssumption DEF Entry
  <2> QED
    BY <2>1, <2>3, DistAssumption DEF Spans
<1> QED
  BY <1>1, RoutesStay, PTL

\* While no route is lost, a flood visits no node twice: an RREQ or ASENT frame
\* is passed on only where its source is news, so its hop count never exceeds
\* the number of nodes, although odr_and.c's test for "same RREQ sent by me"
\* never succeeds.
THEOREM FloodsBounded ==
  ASSUME NoRestart, NoFlags
  PROVE  Spec /\ []Unexpired => []FloodBounded
<1>1. ASSUME RouteInv, NEW l \in Link, NEW f \in Vals(chan[l]), Flood(f)
      PROVE  AtLeast(f.hop_count)
  BY <1>1, Zenon DEF RouteInv, LinksOK, FrameOK, Visited, AtLeast
<1>2. RouteInv => FloodBounded
  BY <1>1 DEF FloodBounded, Vals, Flood
<1> QED
  BY <1>2, RoutesStay, PTL

=============================================================================
