-------------------------------- MODULE Odr --------------------------------
(***************************************************************************)
(* The ODR daemons of a network (odr_and.c, odr_functions.c), the Ethernet *)
(* segments between them and the Unix-domain sockets to their local        *)
(* applications.  Each daemon is one process running a select loop, so one *)
(* handler runs to completion before the next: every action below is one   *)
(* call of handle_peer_msg or handle_ethernet_msg, and the interleaving of *)
(* the actions is that of the daemons, the applications and the network.   *)
(***************************************************************************)
EXTENDS Tables, FiniteSets

CONSTANTS
  Node,        \* the machines; a node stands for its canonical (eth0) address
  Seg,         \* the Ethernet segments; a node has one interface on each it is on
  Attached,    \* Attached[s]: the nodes with an interface on segment s
  ClientPath,  \* sun_paths of time clients
  ServPath,    \* __UNIX_SERV_PATH
  ServPort,    \* __SERV_PORT, 5500 in odr.h
  FirstPort,   \* first port of get_next_portno, 909
  InitBound,   \* InitBound[n]: the paths bound on n when the system starts
  Want,        \* the requests users may make: [node, path, dest, flag]
  MaxMsg,      \* bound: client requests in a behaviour
  MaxTick,     \* bound: clock ticks in a behaviour
  FaultKind,   \* faults that may happen: "loss", "sendfail", "kill", "exit"
  MaxFault     \* bound: faults in a behaviour

Path == ClientPath \cup {ServPath}

ASSUME TopologyAssumption == Attached \in [Seg -> SUBSET Node]
ASSUME PathAssumption ==
  /\ ServPath \notin ClientPath
  /\ InitBound \in [Node -> SUBSET Path]
  /\ Want \subseteq [node : Node, path : ClientPath, dest : Node, flag : {0, 1}]
ASSUME NumberAssumption ==
  /\ ServPort \in Int /\ FirstPort \in Int
  /\ StaleParam \in Nat /\ MaxMsg \in Nat /\ MaxTick \in Nat /\ MaxFault \in Nat

\* Frames travel from an interface of one node to an interface of another on
\* the same segment; the link also names the receiver's interface.
Link == {l \in [from : Node, to : Node, ifno : Seg] :
           l.from # l.to /\ {l.from, l.to} \subseteq Attached[l.ifno]}

NoPayload == 0
FirstBid  == 10                  \* initial value of the static broadcast_id

\* odr_frame_t.  "order" says whether the integer fields are in network or in
\* host byte order; payload_len is never read and is left out.
Frame ==
  [frame_type : {"RREQ", "RREP", "DATA", "ASENT"}, broadcast_id : Nat,
   hop_count : Nat, route_disc_flag : {0, 1}, src_port : Int, dst_port : Int,
   dest_ip : Node, src_ip : Node, payload : Nat, order : {"net", "host"}]

\* r_entry_t.  "age" is the number of whole seconds since "timestamp", counted
\* up to StaleParam: get_r_entry only asks whether it has been reached.
Entry ==
  [destip : Node, next_hop : Node, if_no : Seg, no_hops : Nat,
   broadcast_id : Nat, age : 0 .. StaleParam]

\* map_port_sp_t, send_params_t, and the datagram ODR hands to an application.
PortEntry == [portno : Int, sun_path : Path]
Request   == [destip : Node, destport : Int, msg : Nat, filename : Path,
              route_disc_flag : {0, 1}]
Delivery  == [src_ip : Node, src_port : Int, msg : Nat]

VARIABLES
  rtable,     \* rtable[n]: the routing table, the list at routing_table_head
  pending,    \* pending[n]: frames at pending_queue_head, the head first
  bid,        \* bid[n]: the static counter of get_broadcast_id
  portno,     \* portno[n]: the static counter of get_next_portno
  port_spath, \* port_spath[n]: the list at port_spath_head, the head first
  up,         \* up[n]: the daemon's main loop is running
  chan,       \* chan[l]: frames on their way over link l, the oldest first
  proc_q,     \* proc_q[n]: datagrams waiting on the daemon's Unix socket
  app_q,      \* app_q[n][p]: datagrams waiting on the socket bound to path p
  bound,      \* bound[n]: the paths some application is bound to
  asked,      \* the client requests made so far, a history; message m is asked[m]
  ticks,      \* clock ticks so far
  faults      \* faults so far

memory == <<rtable, pending, bid, portno, port_spath>>
apps   == <<app_q, bound, asked>>
vars   == <<memory, up, chan, proc_q, apps, ticks, faults>>

\* One type invariant for the whole state.
TypeOK ==
  /\ rtable \in [Node -> SUBSET Entry]
  /\ pending \in [Node -> Seq(Frame)]
  /\ bid \in [Node -> Nat]
  /\ portno \in [Node -> Int]
  /\ port_spath \in [Node -> Seq(PortEntry)]
  /\ up \in [Node -> BOOLEAN]
  /\ chan \in [Link -> Seq(Frame)]
  /\ proc_q \in [Node -> Seq(Request)]
  /\ app_q \in [Node -> [Path -> Seq(Delivery)]]
  /\ bound \in [Node -> SUBSET Path]
  /\ asked \in Seq(Want)
  /\ ticks \in Nat
  /\ faults \in Nat

\* main: insert_map_port_sp(__SERV_PORT, __UNIX_SERV_PATH) on an empty table.
InitPorts == <<[portno |-> ServPort, sun_path |-> ServPath]>>

Init ==
  /\ rtable = [n \in Node |-> {}]
  /\ pending = [n \in Node |-> <<>>]
  /\ bid = [n \in Node |-> FirstBid]
  /\ portno = [n \in Node |-> FirstPort]
  /\ port_spath = [n \in Node |-> InitPorts]
  /\ up = [n \in Node |-> TRUE]
  /\ chan = [l \in Link |-> <<>>]
  /\ proc_q = [n \in Node |-> <<>>]
  /\ app_q = [n \in Node |-> [p \in Path |-> <<>>]]
  /\ bound = InitBound
  /\ asked = <<>>
  /\ ticks = 0
  /\ faults = 0

-----------------------------------------------------------------------------
(* Frames. *)

\* ntohl and htonl swap the bytes of every integer field, so each conversion
\* undoes the other.
SwapOrder(f) == [f EXCEPT !.order = IF @ = "net" THEN "host" ELSE "net"]
convert_net_host_order(f) == SwapOrder(f)
\* Wrong on purpose: the conversion before sending is left out.
convert_host_net_order_none(f) == f

convert_host_net_order(f) == SwapOrder(f)

construct_odr(type, b, hopcount, rdisc_flag, srcport, dstport, dstip, srcip, payload) ==
  [frame_type |-> type, broadcast_id |-> b, hop_count |-> hopcount,
   route_disc_flag |-> rdisc_flag, src_port |-> srcport, dst_port |-> dstport,
   dest_ip |-> dstip, src_ip |-> srcip,
   payload |-> IF type = "DATA" THEN payload ELSE NoPayload, order |-> "net"]

\* send_rrep_packet with swap = 1: the reply to the request f, under a
\* broadcast id b that get_broadcast_id made for it.
rrep_swapped(f, b, hopcount) ==
  construct_odr("RREP", b, hopcount, 0, f.dst_port, f.src_port, f.src_ip, f.dest_ip, f.payload)

\* send_rrep_packet with swap = 0: the same reply, passed on.
rrep_onward(f, hopcount) ==
  construct_odr("RREP", f.broadcast_id, hopcount, 0, f.src_port, f.dst_port,
                f.dest_ip, f.src_ip, f.payload)

\* Wrong on purpose: the counter is not static.
get_broadcast_id_auto(b, k) == FirstBid + k

\* get_broadcast_id: the k-th id it returns from now on, when its counter is b.
get_broadcast_id(b, k) == b + k

\* Wrong on purpose: the hop count is not incremented.
flood_onward_same_hops(f, type) ==
  construct_odr(type, f.broadcast_id, f.hop_count, f.route_disc_flag,
                f.src_port, f.dst_port, f.dest_ip, f.src_ip, f.payload)

\* The RREQ or ASENT frame with which handle_ethernet_msg passes a flood on.
flood_onward(f, type) ==
  construct_odr(type, f.broadcast_id, f.hop_count + 1, f.route_disc_flag,
                f.src_port, f.dst_port, f.dest_ip, f.src_ip, f.payload)

\* The RREQ with which a node that parked f looks for f's destination.
park_rreq(n, f, b) ==
  construct_odr("RREQ", b, 0, 0, -1, f.dst_port, f.dest_ip, n, f.payload)

-----------------------------------------------------------------------------
(* Sending.  "out" maps the links a handler sends on to the frame it sends *)
(* there: no handler sends two frames over one link.                       *)

\* Links reached by a frame for entry e's next hop.
unicast(n, e) == {[from |-> n, to |-> e.next_hop, ifno |-> e.if_no]}

\* Links reached by send_req_broadcast on all interfaces but those in "avoid".
broadcast(n, avoid) == {k \in Link : k.from = n /\ k.ifno \notin avoid}

\* The links after a handler took its frame from those in "in" and sent "out".
Sent(in, out) ==
  [k \in Link |-> LET rest == IF k \in in THEN Tail(chan[k]) ELSE chan[k]
                  IN  IF k \in DOMAIN out THEN Append(rest, out[k]) ELSE rest]

\* send_raw_frame on every interface succeeds, or sendto fails on one: then
\* the frames already sent stay sent, the handler returns -1 and main returns.
\* An RREP goes out before a flood.
\* What a handler does to its memory after a failed send does not matter: the
\* daemon is down, and Restart begins with empty memory.
Transmit(n, in, out) ==
  \/ /\ chan' = Sent(in, out)
     /\ UNCHANGED <<up, faults>>
  \/ /\ "sendfail" \in FaultKind /\ faults < MaxFault
     /\ \E S \in SUBSET Seg :
          /\ \E k \in DOMAIN out : k.ifno \notin S
          /\ \A j, k \in DOMAIN out :
               out[k].frame_type = "RREP" /\ k.ifno \notin S => j.ifno \notin S
          /\ chan' = Sent(in, [k \in {j \in DOMAIN out : j.ifno \in S} |-> out[k]])
     /\ up' = [up EXCEPT ![n] = FALSE]
     /\ faults' = faults + 1

-----------------------------------------------------------------------------
(* handle_peer_msg: a request from a local application.                    *)

\* fetch_entry_path: the port of the sender's path, and the table and the port
\* counter it leaves (a path not yet listed is inserted at the head).
listed(n, path) == \E i \in DOMAIN port_spath[n] : port_spath[n][i].sun_path = path

\* Wrong on purpose: get_next_portno does not count.
fetch_entry_path_same(n, path, port) ==
  \/ /\ \E i \in DOMAIN port_spath[n] :
          /\ port_spath[n][i] = [portno |-> port, sun_path |-> path]
          /\ \A j \in 1 .. (i - 1) : port_spath[n][j].sun_path # path
     /\ UNCHANGED <<port_spath, portno>>
  \/ /\ ~listed(n, path)
     /\ port = portno[n]
     /\ port_spath' = [port_spath EXCEPT
                         ![n] = <<[portno |-> port, sun_path |-> path]>> \o @]
     /\ portno' = portno

\* Wrong on purpose: the new entry is not linked into the table.
fetch_entry_path_unlinked(n, path, port) ==
  \/ /\ \E i \in DOMAIN port_spath[n] :
          /\ port_spath[n][i] = [portno |-> port, sun_path |-> path]
          /\ \A j \in 1 .. (i - 1) : port_spath[n][j].sun_path # path
     /\ UNCHANGED <<port_spath, portno>>
  \/ /\ ~listed(n, path)
     /\ port = portno[n]
     /\ port_spath' = port_spath
     /\ portno' = [portno EXCEPT ![n] = @ + 1]

fetch_entry_path(n, path, port) ==
  \/ /\ \E i \in DOMAIN port_spath[n] :
          /\ port_spath[n][i] = [portno |-> port, sun_path |-> path]
          /\ \A j \in 1 .. (i - 1) : port_spath[n][j].sun_path # path
     /\ UNCHANGED <<port_spath, portno>>
  \/ /\ ~listed(n, path)
     /\ port = portno[n]
     /\ port_spath' = [port_spath EXCEPT
                         ![n] = <<[portno |-> port, sun_path |-> path]>> \o @]
     /\ portno' = [portno EXCEPT ![n] = @ + 1]

\* The ports fetch_entry_path can return.
Ports(n) == {portno[n]} \cup {port_spath[n][i].portno : i \in DOMAIN port_spath[n]}

\* Wrong on purpose: the head is returned whatever its port.
fetch_entry_port_head(t, i, port) == i = 1

\* fetch_entry_port: is entry i of table t the one it returns for this port?
fetch_entry_port(t, i, port) ==
  /\ t[i].portno = port
  /\ \A j \in 1 .. (i - 1) : t[j].portno # port

\* send_to_peer_process to the path fetch_entry_port finds for a port, if an
\* application is bound to it: the paths reached, and the sockets after it.
reachable(n, t, port) ==
  {t[i].sun_path : i \in {j \in DOMAIN t : fetch_entry_port(t, j, port)}} \cap bound[n]

deliver(n, paths, d) ==
  [app_q EXCEPT ![n] = [p \in Path |-> IF p \in paths THEN Append(@[p], d) ELSE @[p]]]

\* A request reaches the handler.
PeerMsg(n) ==
  /\ up[n] /\ proc_q[n] # <<>>
  /\ proc_q' = [proc_q EXCEPT ![n] = Tail(@)]

\* The destination is this machine: send_to_peer_process delivers to the path
\* of the destination port.  The daemon does not survive a port that is not
\* listed (the assertion on peer_entry fails) or a path that nobody is bound to
\* (sendto fails, the handler returns -1 and main returns).
PeerLocal(n) ==
  /\ PeerMsg(n)
  /\ LET r == Head(proc_q[n]) IN
       /\ r.destip = n
       /\ \E port \in Ports(n) :
            /\ fetch_entry_path(n, r.filename, port)
            /\ LET hit == reachable(n, port_spath'[n], r.destport) IN
                 IF hit # {}
                 THEN /\ app_q' = deliver(n, hit, [src_ip |-> n, src_port |-> port,
                                                   msg |-> r.msg])
                      /\ up' = up
                 ELSE /\ up' = [up EXCEPT ![n] = FALSE]
                      /\ app_q' = app_q
  /\ UNCHANGED <<rtable, pending, bid, chan, bound, asked, ticks, faults>>

\* No usable route: flood an RREQ and park the message.  construct_odr is
\* called with 0 for the broadcast id and a second new id for the hop count.
PeerDiscover(n) ==
  /\ PeerMsg(n)
  /\ LET r == Head(proc_q[n]) IN
       /\ r.destip # n
       /\ got_r_entry(rtable[n], r.destip, r.route_disc_flag) = {}
       /\ rtable' = [rtable EXCEPT
                       ![n] = after_r_lookup(@, r.destip, r.route_disc_flag)]
       /\ bid' = [bid EXCEPT ![n] = @ + 2]
       /\ \E port \in Ports(n) :
            /\ fetch_entry_path(n, r.filename, port)
            /\ Transmit(n, {}, [k \in broadcast(n, {}) |->
                 construct_odr("RREQ", get_broadcast_id(bid[n], 1), 0, r.route_disc_flag, port,
                               r.destport, r.destip, n, r.msg)])
            /\ pending' = [pending EXCEPT ![n] =
                 <<convert_net_host_order(construct_odr("DATA", 0, get_broadcast_id(bid[n], 2), 0,
                     port, r.destport, r.destip, n, r.msg))>> \o @]
  /\ UNCHANGED <<apps, ticks>>

\* A usable route: send_data_message.
PeerSend(n) ==
  /\ PeerMsg(n)
  /\ LET r == Head(proc_q[n]) IN
       /\ r.destip # n
       /\ \E e \in got_r_entry(rtable[n], r.destip, r.route_disc_flag) :
          \E port \in Ports(n) :
            /\ fetch_entry_path(n, r.filename, port)
            /\ Transmit(n, {}, [k \in unicast(n, e) |->
                 construct_odr("DATA", e.broadcast_id, 0, r.route_disc_flag, port,
                               r.destport, r.destip, n, r.msg)])
  /\ UNCHANGED <<rtable, pending, bid, apps, ticks>>

-----------------------------------------------------------------------------
(* handle_ethernet_msg: a frame from the wire.  The comparison of          *)
(* recvd_odr_frame->src_ip with self_ip compares two different buffers'    *)
(* addresses and never succeeds: a node's own flood is handled like any    *)
(* other frame.                                                            *)

\* The received frame, converted by process_recvd_frame.
Recvd(l) == convert_net_host_order(Head(chan[l]))

\* The two lookups made for every frame, first the destination's entry, then
\* the source's, and what they leave of the table.
DestEntry(l) == got_r_entry(rtable[l.to], Recvd(l).dest_ip, Recvd(l).route_disc_flag)
Looked(l)    == after_r_lookup(rtable[l.to], Recvd(l).dest_ip, Recvd(l).route_disc_flag)
SrcEntry(l)  == got_r_entry(Looked(l), Recvd(l).src_ip, 0)
Kept(l)      == after_r_lookup(Looked(l), Recvd(l).src_ip, 0)

\* asent_flag = 1: the frame's source had no entry, or check_r_entry took the
\* frame for better than the entry.
Updates(l) == \A e \in SrcEntry(l) : check_r_entry(Recvd(l), e)

\* src_r_entry and the table once insert_r_entry or check_r_entry is done.
SrcRoute(l) == IF Updates(l)
               THEN update_r_entry(Recvd(l), l.ifno, l.from)
               ELSE CHOOSE e \in SrcEntry(l) : TRUE
\* Wrong on purpose: the old entry stays beside the new one.
Learned_twice(l) == IF Updates(l) THEN Kept(l) \cup {SrcRoute(l)} ELSE Kept(l)

Learned(l) == IF Updates(l) THEN (Kept(l) \ SrcEntry(l)) \cup {SrcRoute(l)} ELSE Kept(l)
Learn(l)   == rtable' = [rtable EXCEPT ![l.to] = Learned(l)]

\* A frame with the route discovery flag is dropped as a duplicate when the
\* table already has its broadcast id, or a later one, for its source.
Duplicate(l) ==
  /\ Recvd(l).route_disc_flag = 1
  /\ ~is_broadid_greater(rtable[l.to], Recvd(l).src_ip, Recvd(l).broadcast_id)

Receive(l) == up[l.to] /\ chan[l] # <<>>

\* A frame of the given type that is not dropped.
EtherMsg(l, type) ==
  /\ Receive(l)
  /\ ~Duplicate(l)
  /\ Recvd(l).frame_type = type
  /\ Learn(l)

ForMe(l) == Recvd(l).dest_ip = l.to

IgnoreDuplicate(l) ==
  /\ Receive(l)
  /\ Duplicate(l)
  /\ chan' = Sent({l}, <<>>)
  /\ UNCHANGED <<memory, up, proc_q, apps, ticks, faults>>

-----------------------------------------------------------------------------
(* RREQ *)

RreqAtDest(l) ==
  /\ EtherMsg(l, "RREQ")
  /\ ForMe(l)
  /\ bid' = [bid EXCEPT ![l.to] = @ + 1]
  /\ Transmit(l.to, {l}, [k \in unicast(l.to, SrcRoute(l)) |->
                            rrep_swapped(Recvd(l), get_broadcast_id(bid[l.to], 1), 0)])
  /\ UNCHANGED <<pending, portno, port_spath, proc_q, apps, ticks>>

\* An intermediate node with a route answers for the destination, under a
\* broadcast id of its own, and tells the others about the source (ASENT).
RreqFromTable(l) ==
  /\ EtherMsg(l, "RREQ")
  /\ ~ForMe(l)
  /\ bid' = [bid EXCEPT ![l.to] = @ + 1]
  /\ \E d \in DestEntry(l) :
       LET reply == unicast(l.to, SrcRoute(l))
           tell  == IF Updates(l) THEN broadcast(l.to, {l.ifno}) ELSE {}
       IN  Transmit(l.to, {l}, [k \in reply \cup tell |->
             IF k \in reply THEN rrep_swapped(Recvd(l), get_broadcast_id(bid[l.to], 1), d.no_hops)
                            ELSE flood_onward(Recvd(l), "ASENT")])
  /\ UNCHANGED <<pending, portno, port_spath, proc_q, apps, ticks>>

\* An intermediate node without a route passes the flood on, unless the frame
\* told it nothing new about the source.
RreqFlood(l) ==
  /\ EtherMsg(l, "RREQ")
  /\ ~ForMe(l)
  /\ DestEntry(l) = {}
  /\ Transmit(l.to, {l}, [k \in IF Updates(l) THEN broadcast(l.to, {l.ifno}) ELSE {} |->
                            flood_onward(Recvd(l), "RREQ")])
  /\ UNCHANGED <<pending, bid, portno, port_spath, proc_q, apps, ticks>>

-----------------------------------------------------------------------------
(* RREP *)

\* The reply is for this node and something is parked for its source: one
\* parked frame goes out, a parked RREP or a parked DATA frame as it was.
RrepAtDest(l) ==
  /\ EtherMsg(l, "RREP")
  /\ ForMe(l)
  /\ \E i \in DOMAIN pending[l.to] :
       /\ lookup_pending_queue(pending[l.to], i, Recvd(l).src_ip)
       /\ pending' = [pending EXCEPT ![l.to] = remove_pending(@, i)]
       /\ LET f == pending[l.to][i] IN
            Transmit(l.to, {l}, [k \in unicast(l.to, SrcRoute(l)) |->
              IF f.frame_type = "RREP" THEN rrep_onward(f, f.hop_count)
                                       ELSE convert_host_net_order(f)])
  /\ UNCHANGED <<bid, portno, port_spath, proc_q, apps, ticks>>

\* The reply is for this node and nothing is parked for its source.
RrepUnused(l) ==
  /\ EtherMsg(l, "RREP")
  /\ ForMe(l)
  /\ ~\E i \in DOMAIN pending[l.to] :
       lookup_pending_queue(pending[l.to], i, Recvd(l).src_ip)
  /\ chan' = Sent({l}, <<>>)
  /\ UNCHANGED <<pending, bid, portno, port_spath, up, proc_q, apps, ticks, faults>>

RrepForward(l) ==
  /\ EtherMsg(l, "RREP")
  /\ ~ForMe(l)
  /\ \E d \in DestEntry(l) :
       Transmit(l.to, {l}, [k \in unicast(l.to, d) |->
                              rrep_onward(Recvd(l), SrcRoute(l).no_hops)])
  /\ UNCHANGED <<pending, bid, portno, port_spath, proc_q, apps, ticks>>

\* Park a frame that has no route and look for its destination everywhere but
\* on the interface the frame came from.
Park(l) ==
  /\ DestEntry(l) = {}
  /\ pending' = [pending EXCEPT ![l.to] = <<Recvd(l)>> \o @]
  /\ bid' = [bid EXCEPT ![l.to] = @ + 1]
  /\ Transmit(l.to, {l}, [k \in broadcast(l.to, {l.ifno}) |->
                            park_rreq(l.to, Recvd(l), get_broadcast_id(bid[l.to], 1))])

RrepPark(l) ==
  /\ EtherMsg(l, "RREP")
  /\ ~ForMe(l)
  /\ Park(l)
  /\ UNCHANGED <<portno, port_spath, proc_q, apps, ticks>>

-----------------------------------------------------------------------------
(* DATA *)

\* process_data_message.  Nothing happens to a message for a port that is not
\* listed or whose path nobody is bound to.
DataAtDest(l) ==
  /\ EtherMsg(l, "DATA")
  /\ ForMe(l)
  /\ LET f == Recvd(l) IN
       app_q' = deliver(l.to, reachable(l.to, port_spath[l.to], f.dst_port),
                  [src_ip |-> f.src_ip, src_port |-> f.src_port, msg |-> f.payload])
  /\ chan' = Sent({l}, <<>>)
  /\ UNCHANGED <<pending, bid, portno, port_spath, up, proc_q, bound, asked, ticks, faults>>

\* Wrong on purpose: the frame goes to the source's next hop.
DataForward_back(l) ==
  /\ EtherMsg(l, "DATA")
  /\ ~ForMe(l)
  /\ \E d \in DestEntry(l) :
       Transmit(l.to, {l}, [k \in unicast(l.to, SrcRoute(l)) |->
         convert_host_net_order([Recvd(l) EXCEPT !.hop_count = SrcRoute(l).no_hops])])
  /\ UNCHANGED <<pending, bid, portno, port_spath, proc_q, apps, ticks>>

DataForward(l) ==
  /\ EtherMsg(l, "DATA")
  /\ ~ForMe(l)
  /\ \E d \in DestEntry(l) :
       Transmit(l.to, {l}, [k \in unicast(l.to, d) |->
         convert_host_net_order([Recvd(l) EXCEPT !.hop_count = SrcRoute(l).no_hops])])
  /\ UNCHANGED <<pending, bid, portno, port_spath, proc_q, apps, ticks>>

DataPark(l) ==
  /\ EtherMsg(l, "DATA")
  /\ ~ForMe(l)
  /\ Park(l)
  /\ UNCHANGED <<portno, port_spath, proc_q, apps, ticks>>

-----------------------------------------------------------------------------
(* ASENT: news about a source, passed on while it is news.                 *)

Asent(l) ==
  /\ EtherMsg(l, "ASENT")
  /\ Transmit(l.to, {l}, [k \in IF Updates(l) THEN broadcast(l.to, {l.ifno}) ELSE {} |->
                            flood_onward(Recvd(l), "ASENT")])
  /\ UNCHANGED <<pending, bid, portno, port_spath, proc_q, apps, ticks>>

-----------------------------------------------------------------------------
(* The applications.  A datagram sent to a daemon that is not running is   *)
(* lost.                                                                   *)

msg_send(n, r) == proc_q' = [proc_q EXCEPT ![n] = IF up[n] THEN Append(@, r) ELSE @]

\* A user's request to the server on another machine, or on this one.
ClientSend(w) ==
  /\ Len(asked) < MaxMsg
  /\ w.path \in bound[w.node]
  /\ asked' = Append(asked, w)
  /\ msg_send(w.node, [destip |-> w.dest, destport |-> ServPort, msg |-> Len(asked) + 1,
                       filename |-> w.path, route_disc_flag |-> w.flag])
  /\ UNCHANGED <<memory, up, chan, app_q, bound, ticks, faults>>

\* Wrong on purpose: the request stays on the socket.
ServerReply_keep(n) ==
  /\ ServPath \in bound[n]
  /\ app_q[n][ServPath] # <<>>
  /\ LET m == Head(app_q[n][ServPath]) IN
       msg_send(n, [destip |-> m.src_ip, destport |-> m.src_port, msg |-> MaxMsg + m.msg,
                    filename |-> ServPath, route_disc_flag |-> 0])
  /\ UNCHANGED <<memory, up, chan, app_q, bound, asked, ticks, faults>>

\* One round of the server's loop; the reply to request m is message MaxMsg + m.
ServerReply(n) ==
  /\ ServPath \in bound[n]
  /\ app_q[n][ServPath] # <<>>
  /\ LET m == Head(app_q[n][ServPath]) IN
       msg_send(n, [destip |-> m.src_ip, destport |-> m.src_port, msg |-> MaxMsg + m.msg,
                    filename |-> ServPath, route_disc_flag |-> 0])
  /\ app_q' = [app_q EXCEPT ![n][ServPath] = Tail(@)]
  /\ UNCHANGED <<memory, up, chan, bound, asked, ticks, faults>>

-----------------------------------------------------------------------------
(* Time and faults. *)

\* A second passes on n's clock; the clocks of two machines are not in step.
Tick(n) ==
  /\ ticks < MaxTick
  /\ ticks' = ticks + 1
  /\ rtable' = [rtable EXCEPT ![n] = {aged(e) : e \in @}]
  /\ UNCHANGED <<pending, bid, portno, port_spath, up, chan, proc_q, apps, faults>>

Fault(kind) ==
  /\ kind \in FaultKind /\ faults < MaxFault
  /\ faults' = faults + 1

\* A frame is lost on the wire or in a full socket buffer.
Lose(l) ==
  /\ Fault("loss")
  /\ chan[l] # <<>>
  /\ chan' = Sent({l}, <<>>)
  /\ UNCHANGED <<memory, up, proc_q, apps, ticks>>

\* A frame arrives where no daemon is listening.
Unheard(l) ==
  /\ ~up[l.to]
  /\ chan[l] # <<>>
  /\ chan' = Sent({l}, <<>>)
  /\ UNCHANGED <<memory, up, proc_q, apps, ticks, faults>>

\* The daemon is killed (kill_apps).
Kill(n) ==
  /\ Fault("kill")
  /\ up[n]
  /\ up' = [up EXCEPT ![n] = FALSE]
  /\ UNCHANGED <<memory, chan, proc_q, apps, ticks>>

\* The daemon is started again (start_app): everything it kept is gone.
Restart(n) ==
  /\ "kill" \in FaultKind
  /\ ~up[n]
  /\ up' = [up EXCEPT ![n] = TRUE]
  /\ rtable' = [rtable EXCEPT ![n] = {}]
  /\ pending' = [pending EXCEPT ![n] = <<>>]
  /\ bid' = [bid EXCEPT ![n] = FirstBid]
  /\ portno' = [portno EXCEPT ![n] = FirstPort]
  /\ port_spath' = [port_spath EXCEPT ![n] = InitPorts]
  /\ proc_q' = [proc_q EXCEPT ![n] = <<>>]
  /\ UNCHANGED <<chan, apps, ticks, faults>>

\* An application exits: its socket and what is queued on it are gone.
AppExit(n, p) ==
  /\ Fault("exit")
  /\ p \in bound[n]
  /\ bound' = [bound EXCEPT ![n] = @ \ {p}]
  /\ app_q' = [app_q EXCEPT ![n][p] = <<>>]
  /\ UNCHANGED <<memory, up, chan, proc_q, asked, ticks>>

\* The server is started.
ServerStart(n) ==
  /\ "exit" \in FaultKind
  /\ ServPath \notin bound[n]
  /\ bound' = [bound EXCEPT ![n] = @ \cup {ServPath}]
  /\ UNCHANGED <<memory, up, chan, proc_q, app_q, asked, ticks, faults>>

-----------------------------------------------------------------------------
HandlePeerMsg(n) == PeerLocal(n) \/ PeerDiscover(n) \/ PeerSend(n)

HandleEthernetMsg(l) ==
  \/ IgnoreDuplicate(l)
  \/ RreqAtDest(l) \/ RreqFromTable(l) \/ RreqFlood(l)
  \/ RrepAtDest(l) \/ RrepUnused(l) \/ RrepForward(l) \/ RrepPark(l)
  \/ DataAtDest(l) \/ DataForward(l) \/ DataPark(l)
  \/ Asent(l)

Environment ==
  \/ \E w \in Want : ClientSend(w)
  \/ \E l \in Link : Lose(l)
  \/ \E n \in Node : Tick(n) \/ Kill(n) \/ Restart(n) \/ ServerStart(n)
  \/ \E n \in Node, p \in Path : AppExit(n, p)

Next ==
  \/ \E n \in Node : HandlePeerMsg(n) \/ ServerReply(n)
  \/ \E l \in Link : HandleEthernetMsg(l) \/ Unheard(l)
  \/ Environment

Spec == Init /\ [][Next]_vars

\* The select loop serves both sockets, a frame on the wire arrives, and the
\* server's loop runs.  Users, clocks and faults owe nothing.
Fairness ==
  /\ \A n \in Node : WF_vars(HandlePeerMsg(n)) /\ WF_vars(ServerReply(n))
  /\ \A l \in Link : WF_vars(HandleEthernetMsg(l) \/ Unheard(l))

FairSpec == Spec /\ Fairness

=============================================================================
