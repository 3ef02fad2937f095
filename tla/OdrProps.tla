------------------------------ MODULE OdrProps ------------------------------
(* What the ODR daemons promise, stated over the state of module Odr. *)
EXTENDS Odr

\* Dist[s, n]: the number of links between s and n.  Only this is used of it: a
\* node is at distance 0 from itself and a link adds at most 1.
CONSTANT Dist

ASSUME DistAssumption ==
  /\ Dist \in [Node \X Node -> Nat]
  /\ \A s \in Node : Dist[s, s] = 0
  /\ \A s \in Node, l \in Link : Dist[s, l.to] <= Dist[s, l.from] + 1

\* get_r_entry stops at the first entry for a destination and insert_r_entry
\* runs only after a lookup failed: a table never lists a destination twice,
\* also when a stale entry is dropped and replaced within one handler.
OneEntryPerDest ==
  \A n \in Node : \A e, g \in rtable[n] : e.destip = g.destip => e = g

\* Every route leads over an interface of this node to a node on the same
\* segment: get_hwaddr_from_int finds the interface, and send_raw_frame's frame
\* reaches a daemon.
RoutesUsable ==
  \A n \in Node : \A e \in rtable[n] : unicast(n, e) \subseteq Link

\* odr.h: "everything stored in pending queue will be in host byte order to be
\* able to do lookup"; everything on the wire is in network byte order.
ByteOrder ==
  /\ \A l \in Link : \A i \in DOMAIN chan[l] : chan[l][i].order = "net"
  /\ \A n \in Node : \A i \in DOMAIN pending[n] : pending[n][i].order = "host"

\* Only an RREQ carries the route discovery flag: a flagged frame makes every
\* node it passes drop its route to the destination, so no node answers for the
\* destination or turns the flood into ASENT, and neither data nor replies
\* purge routes.
FlagOnlyOnRreq ==
  /\ \A l \in Link : \A i \in DOMAIN chan[l] :
       chan[l][i].route_disc_flag = 1 => chan[l][i].frame_type = "RREQ"
  /\ \A n \in Node : \A i \in DOMAIN pending[n] : pending[n][i].route_disc_flag = 0

\* Floods in flight under one source and broadcast id are the same flood: same
\* destination, ports and flag, whatever nodes passed them on and as what.
FloodIdentity ==
  \A k, l \in Link : \A i \in DOMAIN chan[k], j \in DOMAIN chan[l] :
    LET f == chan[k][i]
        g == chan[l][j]
    IN  /\ {f.frame_type, g.frame_type} \subseteq {"RREQ", "ASENT"}
        /\ f.src_ip = g.src_ip
        /\ f.broadcast_id = g.broadcast_id
        => /\ f.dest_ip = g.dest_ip
           /\ f.src_port = g.src_port /\ f.dst_port = g.dst_port
           /\ f.route_disc_flag = g.route_disc_flag

\* The copies of application message m: requests not yet handled, frames parked
\* or on the wire, and datagrams not yet read.
Copies(m) ==
  UNION ({{<<"proc", n, i>> : i \in {j \in DOMAIN proc_q[n] : proc_q[n][j].msg = m}} :
             n \in Node}
    \cup {{<<"park", n, i>> : i \in {j \in DOMAIN pending[n] :
             pending[n][j].frame_type = "DATA" /\ pending[n][j].payload = m}} : n \in Node}
    \cup {{<<"wire", l, i>> : i \in {j \in DOMAIN chan[l] :
             chan[l][j].frame_type = "DATA" /\ chan[l][j].payload = m}} : l \in Link}
    \cup {{<<"app", n, p, i>> : i \in {j \in DOMAIN app_q[n][p] : app_q[n][p][j].msg = m}} :
             n \in Node, p \in Path})

\* ODR may lose a message but never duplicates one: parking, releasing,
\* forwarding and delivering move the one copy there is.
AtMostOnce == \A m \in 1 .. 2 * MaxMsg : \A g, h \in Copies(m) : g = h

\* A server's socket holds requests made to its machine, and a client's socket
\* replies to its own requests, from the machine it asked: ports and paths lead
\* back through both port tables to the process that asked.
RightRecipient ==
  \A n \in Node, p \in Path : \A i \in DOMAIN app_q[n][p] :
    LET got == app_q[n][p][i] IN
      IF p = ServPath
      THEN /\ got.msg \in DOMAIN asked
           /\ asked[got.msg].dest = n /\ asked[got.msg].node = got.src_ip
      ELSE LET m == got.msg - MaxMsg IN
           /\ m \in DOMAIN asked
           /\ asked[m].node = n /\ asked[m].path = p /\ asked[m].dest = got.src_ip

\* Ports are handed out again after a restart, so a reply may reach another client
\* than the one that asked.  Even then it stays on the machine that asked and
\* comes from the server asked, and no client gets a request.
RightMachine ==
  \A n \in Node, p \in Path : \A i \in DOMAIN app_q[n][p] :
    LET got == app_q[n][p][i]
        m   == IF p = ServPath THEN got.msg ELSE got.msg - MaxMsg
    IN  /\ m \in DOMAIN asked
        /\ <<n, got.src_ip>> = IF p = ServPath THEN <<asked[m].dest, asked[m].node>>
                                               ELSE <<asked[m].node, asked[m].dest>>

\* The daemons implement the message service: seen from the applications, each
\* message is in one place, goes from its sender to its recipient and no other
\* process, and once read or lost it does not come back.
OnTheWay(m) ==
  \/ \E n \in Node : \/ \E i \in DOMAIN proc_q[n] : proc_q[n][i].msg = m
                    \/ \E i \in DOMAIN pending[n] : pending[n][i].payload = m
  \/ \E l \in Link : \E i \in DOMAIN chan[l] : chan[l][i].payload = m

Place(m) ==
  LET held == {h \in Node \X Path : \E i \in DOMAIN app_q[h[1]][h[2]] :
                                      app_q[h[1]][h[2]][i].msg = m}
  IN  IF held # {} THEN CHOOSE h \in held : TRUE
      ELSE IF OnTheWay(m) THEN <<"flight">> ELSE <<>>

Service == INSTANCE MsgService WITH where <- [m \in 1 .. 2 * MaxMsg |-> Place(m)]

ServiceProvided == Service!Spec

\* A port names one process: every client gets a port of its own and none gets
\* the server's, as long as the counter has not come to __SERV_PORT.
PortsUnique ==
  \A n \in Node : portno[n] <= ServPort =>
    \A i, j \in DOMAIN port_spath[n] :
      port_spath[n][i].portno = port_spath[n][j].portno => i = j

\* odr_and.c, handle_peer_msg: "assert (peer_entry);".  A local message is for a
\* port the table lists by then, the reply to a client included: every port a
\* server was told of is still listed when the server answers.
PeerListed ==
  \A n \in Node : up[n] /\ proc_q[n] # <<>> =>
    LET r == Head(proc_q[n]) IN
      r.destip = n =>
        \/ \E i \in DOMAIN port_spath[n] : port_spath[n][i].portno = r.destport
        \/ ~listed(n, r.filename) /\ r.destport = portno[n]

\* A daemon does not forget a parked message: once no frame and no request is
\* on its way, every frame that was parked for want of a route has been released.
\* It holds in the networks of the runs; in a line of four a search may die out.
NoStranded ==
  (\A l \in Link : chan[l] = <<>>) /\ (\A n \in Node : proc_q[n] = <<>>)
    => \A n \in Node : pending[n] = <<>>

\* There are h different nodes.
AtLeast(h) == \E p \in [1 .. h -> Node] : \A i, j \in 1 .. h : p[i] = p[j] => i = j

\* A flood dies out: an RREQ or ASENT frame has not been passed on more often
\* than there are nodes, although a node does not recognise its own flood.
FloodBounded ==
  \A l \in Link : \A i \in DOMAIN chan[l] :
    chan[l][i].frame_type \in {"RREQ", "ASENT"} => AtLeast(chan[l][i].hop_count)

\* In the end nothing is on its way: every flood, reply and message that was
\* sent is handled, and handling it starts only finitely many more.
EventuallyQuiet == <>[](\A l \in Link : chan[l] = <<>>)

\* Every request a user makes is answered: discovery, parking, release,
\* forwarding and the reply's way back never get stuck.
Answered(m) == \E n \in Node, p \in ClientPath : \E i \in DOMAIN app_q[n][p] :
                 app_q[n][p][i].msg = MaxMsg + m
EventuallyAnswered == \A m \in 1 .. MaxMsg : m \in DOMAIN asked ~> Answered(m)

\* The requests so far came from machines at an end of the network.
AtEnd(n)     == Cardinality({g \in Seg : n \in Attached[g]}) = 1
AskedAtEnds  == \A i \in DOMAIN asked : AtEnd(asked[i].node)

\* A request made once routes have stopped expiring is answered, whatever the
\* expiries before it left behind (frames parked on the way, half-known routes),
\* as long as only machines at the ends of the line ask.  When the middle one
\* asks, an end may answer it with a route that leads back through it.
AnsweredAfterExpiry ==
  \A m \in 1 .. MaxMsg :
    [](ticks = MaxTick /\ Len(asked) < m
         => [](m \in DOMAIN asked /\ AskedAtEnds => <>Answered(m)))

-----------------------------------------------------------------------------
(* Hop counts.  odr.h calls no_hops "Num of hops to dest".                 *)

\* As long as no user forces a new search, a route's hop count is never below
\* the distance to its destination.
HopsCoverDistance ==
  (\A q \in DOMAIN asked : asked[q].flag = 0)
    => \A n \in Node : \A e \in rtable[n] : e.no_hops >= Dist[e.destip, n]

\* A route's hop count is that of some path without a cycle.
HopsWithinNetwork ==
  \A n \in Node : \A e \in rtable[n] : e.no_hops < Cardinality(Node)

\* README.md: "An On-Demand shortest-hop Routing (ODR) protocol".  Once nothing
\* is on its way, a route is no longer than the shortest one.
ShortestHop ==
  (\A l \in Link : chan[l] = <<>>) =>
    \A n \in Node : \A e \in rtable[n] : e.no_hops <= Dist[e.destip, n]

-----------------------------------------------------------------------------
(* What comments and documents say and the code does not do.               *)

\* odr_and.c: "if this is same RREQ sent by me" the frame is ignored, so no
\* node learns a route to itself.
NoSelfRoute == \A n \in Node : \A e \in rtable[n] : e.destip # n

\* src/assign3/README.md: "If entry is with higher broadcast id or lower
\* hopcount, we update it": once a frame is handled, the table has nothing older
\* and nothing longer for the frame's source than what the frame told.
UpdatePolicy ==
  [][\A l \in Link : HandleEthernetMsg(l) =>
       \A e \in rtable'[l.to] : e.destip = Recvd(l).src_ip =>
         /\ e.broadcast_id >= Recvd(l).broadcast_id
         /\ e.no_hops <= Recvd(l).hop_count + 1]_vars

-----------------------------------------------------------------------------
(* Where routes lead, while none is lost (see below).                      *)

\* The next hop of a route has a route to the same destination or is it, so
\* that handle_ethernet_msg finds one for every frame passed on to it.
NextHopKnows ==
  \A n \in Node : \A e \in rtable[n] :
    \/ e.next_hop = e.destip
    \/ \E g \in rtable[e.next_hop] : g.destip = e.destip

\* Only messages of local applications are parked: the searches for the next
\* hop of an RREP or a DATA frame under way are never needed.
ParkedAtHome ==
  \A n \in Node : \A i \in DOMAIN pending[n] : pending[n][i].src_ip = n

-----------------------------------------------------------------------------
(* Circumstances.  A restarted daemon has forgotten its tables, a stale     *)
(* entry is dropped by the next lookup, and so is every entry asked for     *)
(* with the route discovery flag; without these a route once learned stays. *)

\* No daemon is killed and restarted.
NoRestart == "kill" \notin FaultKind

\* A list of different paths is no longer than the ports up to the server's:
\* there are no more clients than ports below it.
EnoughPorts ==
  \A t \in Seq(Path) : (\A i, j \in DOMAIN t : t[i] = t[j] => i = j)
                          => FirstPort + Len(t) - 1 <= ServPort

\* No user forces a new search.
NoFlags == \A w \in Want : w.flag = 0

\* No route has reached its staleness.
Unexpired == \A n \in Node : \A e \in rtable[n] : ~stale(e)

=============================================================================
