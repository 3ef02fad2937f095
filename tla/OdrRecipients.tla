--------------------------- MODULE OdrRecipients ---------------------------
(***************************************************************************)
(* Who gets a message, for every network in which no daemon is restarted   *)
(* and every set of clients for which the ports below __SERV_PORT suffice. *)
(*                                                                         *)
(* A daemon that restarts forgets its port table and numbers its clients   *)
(* anew, so a reply on its way can reach another client than the one that  *)
(* asked; and the 4592nd client would be given the server's port.  Under   *)
(* the two assumptions a port once given out stays its client's, and the   *)
(* source port of a request leads the reply back.                          *)
(***************************************************************************)
EXTENDS OdrMessages

\* The backends tried in turn for a leaf that names none.
USE SMT, Zenon, Z3, SMTT(20)

-----------------------------------------------------------------------------
(* The port tables. *)

\* Port "port" of n is listed for "path" in the tables pt.
Has(pt, n, port, path) ==
  \E i \in DOMAIN pt[n] : pt[n][i].portno = port /\ pt[n][i].sun_path = path

\* A table and its counter: every path once, and a port for each but the server.
Counted(t, k) ==
  /\ k = FirstPort + Len(t) - 1
  /\ \A i, j \in DOMAIN t : t[i].sun_path = t[j].sun_path => i = j

CInv == \A n \in Node : /\ Counted(port_spath[n], portno[n])
                        /\ Has(port_spath, n, ServPort, ServPath)

\* A counter that has given out a port for every entry has not come past the
\* server's port.
LEMMA CountBound ==
  ASSUME EnoughPorts, NEW t \in Seq(PortEntry), NEW k, Counted(t, k)
  PROVE  k \in Int /\ k <= ServPort
<1>1. Len(t) \in Nat /\ k \in Int
  BY NumberAssumption DEF Counted
<1> DEFINE paths == [i \in 1 .. Len(t) |-> t[i].sun_path]
<1>2. /\ paths \in Seq(Path) /\ Len(paths) = Len(t) /\ DOMAIN paths = 1 .. Len(t)
      /\ \A i \in 1 .. Len(t) : paths[i] = t[i].sun_path
  <2>1. DOMAIN t = 1 .. Len(t) /\ \A i \in 1 .. Len(t) : t[i].sun_path \in Path
    <3>1. DOMAIN t = 1 .. Len(t) /\ \A i \in 1 .. Len(t) : t[i] \in PortEntry
      BY SeqElements
    <3>2. \A x \in PortEntry : x.sun_path \in Path
      BY DEF PortEntry
    <3> QED
      BY <3>1, <3>2
  <2> QED
    BY <1>1, <2>1
<1> HIDE DEF paths
<1>3. \A i, j \in DOMAIN paths : paths[i] = paths[j] => i = j
  BY <1>2 DEF Counted
<1>4. FirstPort + Len(paths) - 1 <= ServPort
  BY <1>2, <1>3 DEF EnoughPorts
<1> QED
  BY <1>1, <1>2, <1>4 DEF Counted

\* With ports all different, a port that is listed for a path leads nowhere else.
LEMMA ReachHas ==
  ASSUME NEW pt, NEW n, Distinct(pt[n]), NEW port, NEW path, Has(pt, n, port, path),
         NEW p \in reachable(n, pt[n], port)
  PROVE  p = path
BY DEF Distinct, Has, reachable, fetch_entry_port

\* The tables after fetch_entry_path.
LEMMA FetchHas ==
  ASSUME TypeOK, NEW n \in Node, NEW path \in Path, NEW port,
         fetch_entry_path(n, path, port)
  PROVE  /\ Has(port_spath', n, port, path)
         /\ \A m \in Node : \A q, r : Has(port_spath, m, q, r) => Has(port_spath', m, q, r)
<1>1. port_spath \in [Node -> Seq(PortEntry)]
  BY DEF TypeOK
<1>2. CASE /\ \E i \in DOMAIN port_spath[n] :
                port_spath[n][i] = [portno |-> port, sun_path |-> path]
           /\ UNCHANGED <<port_spath, portno>>
  BY <1>2 DEF Has
<1>3. CASE port_spath' = [port_spath EXCEPT
                            ![n] = <<[portno |-> port, sun_path |-> path]>> \o @]
  <2> DEFINE t == port_spath[n]
             e == [portno |-> port, sun_path |-> path]
             v == <<e>> \o t
  <2>1. port_spath'[n] = v /\ \A m \in Node : m # n => port_spath'[m] = port_spath[m]
    BY <1>1, <1>3
  <2>2. t \in Seq(PortEntry) /\ Len(t) \in Nat /\ DOMAIN t = 1 .. Len(t)
    BY <1>1
  <2>3. DOMAIN v = 1 .. (Len(t) + 1) /\ v[1] = e /\ \A i \in 1 .. Len(t) : v[i + 1] = t[i]
    BY <2>2
  <2> HIDE DEF t, v
  <2>4. \A i \in DOMAIN t : i + 1 \in DOMAIN v /\ v[i + 1] = t[i]
    BY <2>2, <2>3
  <2>5. 1 \in DOMAIN v /\ v[1].portno = port /\ v[1].sun_path = path
    BY <2>2, <2>3
  <2>6. Has(port_spath', n, port, path)
    BY <2>1, <2>5 DEF Has
  <2>7. ASSUME NEW m \in Node, NEW q, NEW r, Has(port_spath, m, q, r)
        PROVE  Has(port_spath', m, q, r)
    <3>1. CASE m = n
      BY <2>1, <2>4, <2>7, <3>1, ZenonT(30) DEF Has, t
    <3>2. CASE m # n
      BY <2>1, <2>7, <3>2 DEF Has
    <3> QED
      BY <3>1, <3>2
  <2> QED
    BY <2>6, <2>7
<1> QED
  BY <1>2, <1>3 DEF fetch_entry_path

LEMMA FetchCount ==
  ASSUME TypeOK, CInv, NEW n \in Node, NEW path \in Path, NEW port,
         fetch_entry_path(n, path, port)
  PROVE  CInv'
<1>1. port_spath \in [Node -> Seq(PortEntry)] /\ portno \in [Node -> Int]
  BY DEF TypeOK
<1>2. \A m \in Node : Has(port_spath', m, ServPort, ServPath)
  BY FetchHas DEF CInv
<1>3. CASE UNCHANGED <<port_spath, portno>>
  BY <1>2, <1>3 DEF CInv
<1>4. CASE /\ ~listed(n, path)
           /\ port_spath' = [port_spath EXCEPT
                               ![n] = <<[portno |-> port, sun_path |-> path]>> \o @]
           /\ portno' = [portno EXCEPT ![n] = @ + 1]
  <2> DEFINE t == port_spath[n]
             e == [portno |-> port, sun_path |-> path]
             v == <<e>> \o t
  <2>1. /\ port_spath'[n] = v /\ portno'[n] = portno[n] + 1 /\ portno[n] \in Int
        /\ \A m \in Node : m # n => port_spath'[m] = port_spath[m] /\ portno'[m] = portno[m]
    BY <1>1, <1>4
  <2>2. t \in Seq(PortEntry) /\ Len(t) \in Nat /\ DOMAIN t = 1 .. Len(t)
    BY <1>1
  <2>3. /\ Len(v) = Len(t) + 1 /\ DOMAIN v = 1 .. (Len(t) + 1) /\ v[1].sun_path = path
        /\ \A i \in 2 .. (Len(t) + 1) : i - 1 \in DOMAIN t /\ v[i] = t[i - 1]
    BY <2>2
  <2>4. Counted(t, portno[n]) /\ \A i \in DOMAIN t : t[i].sun_path # path
    BY <1>4 DEF CInv, listed
  <2> HIDE DEF t, v
  <2>5. ASSUME NEW i \in DOMAIN v, NEW j \in DOMAIN v, v[i].sun_path = v[j].sun_path
        PROVE  i = j
    <3>1. i \in 1 .. (Len(t) + 1) /\ j \in 1 .. (Len(t) + 1)
      BY <2>3
    <3>2. i = 1 \/ i \in 2 .. (Len(t) + 1)
      BY <2>2, <3>1
    <3>3. j = 1 \/ j \in 2 .. (Len(t) + 1)
      BY <2>2, <3>1
    <3>4. CASE i \in 2 .. (Len(t) + 1) /\ j \in 2 .. (Len(t) + 1)
      <4>1. i - 1 = j - 1
        BY <2>3, <2>4, <2>5, <3>4, ZenonT(30) DEF Counted
      <4> QED
        BY <3>4, <4>1
    <3> QED
      BY <2>3, <2>4, <2>5, <3>2, <3>3, <3>4, ZenonT(30)
  <2>6. Counted(v, portno'[n])
    <3>1. portno'[n] = FirstPort + Len(v) - 1
      BY <2>1, <2>2, <2>3, <2>4, NumberAssumption DEF Counted
    <3> QED
      BY <2>5, <3>1 DEF Counted
  <2>7. \A m \in Node : Counted(port_spath'[m], portno'[m])
    BY <2>1, <2>6 DEF CInv
  <2> QED
    BY <1>2, <2>7 DEF CInv, Counted, Has
<1> QED
  BY <1>3, <1>4 DEF fetch_entry_path
\* A table whose counter has not come to the server's port has its ports apart.
LEMMA PortsFree ==
  ASSUME EnoughPorts, TypeOK, PInv, CInv, NEW n \in Node
  PROVE  Distinct(port_spath[n])
<1>1. port_spath[n] \in Seq(PortEntry)
  BY DEF TypeOK
<1> QED
  BY <1>1, CountBound DEF PInv, CInv

LEMMA PortsFreeNext ==
  ASSUME EnoughPorts, TypeOK', PInv', CInv', NEW n \in Node
  PROVE  Distinct(port_spath'[n])
<1>1. port_spath'[n] \in Seq(PortEntry)
  BY DEF TypeOK
<1>2. Counted(port_spath'[n], portno'[n]) /\ (portno'[n] <= ServPort => Distinct(port_spath'[n]))
  BY DEF CInv, PInv, Counted, Distinct
<1> QED
  BY <1>1, <1>2, CountBound

\* The requests made and the ports given out stay.
Grown(qs, pt, qs2, pt2) ==
  /\ \A k \in DOMAIN qs : k \in DOMAIN qs2 /\ qs2[k] = qs[k]
  /\ \A n \in Node : \A q, r : Has(pt, n, q, r) => Has(pt2, n, q, r)

LEMMA InitCInv == Init => CInv
<1> SUFFICES ASSUME Init PROVE CInv
  OBVIOUS
<1>1. /\ Len(InitPorts) = 1 /\ DOMAIN InitPorts = {1}
      /\ InitPorts[1].portno = ServPort /\ InitPorts[1].sun_path = ServPath
  BY DEF InitPorts
<1>2. Counted(InitPorts, FirstPort)
  BY <1>1, NumberAssumption DEF Counted
<1>3. \A n \in Node : port_spath[n] = InitPorts /\ portno[n] = FirstPort
  BY DEF Init
<1> QED
  BY <1>1, <1>2, <1>3 DEF CInv, Has

LEMMA TablesStep ==
  ASSUME NoRestart, IInv, CInv, [Next]_vars
  PROVE  CInv' /\ Grown(asked, port_spath, asked', port_spath')
<1>1. TypeOK
  BY DEF IInv
<1>2. ASSUME port_spath' = port_spath, portno' = portno
      PROVE  /\ CInv'
             /\ \A n \in Node : \A q, r : Has(port_spath, n, q, r) => Has(port_spath', n, q, r)
  BY <1>2 DEF CInv, Has
<1>3. ASSUME port_spath' = port_spath, portno' = portno, asked' = asked
      PROVE  CInv' /\ Grown(asked, port_spath, asked', port_spath')
  BY <1>2, <1>3 DEF Grown
<1>4. ASSUME NEW n \in Node, HandlePeerMsg(n)
      PROVE  CInv' /\ Grown(asked, port_spath, asked', port_spath')
  <2>1. PeerMsg(n) /\ asked' = asked
    BY <1>4, ZenonT(30) DEF HandlePeerMsg, PeerLocal, PeerDiscover, PeerSend, apps
  <2>2. PICK port \in Ports(n) : fetch_entry_path(n, Head(proc_q[n]).filename, port)
    BY <1>4, ZenonT(30) DEF HandlePeerMsg, PeerLocal, PeerDiscover, PeerSend
  <2>3. Head(proc_q[n]).filename \in Path
    BY <1>1, <2>1, PeerType, ZenonT(30) DEF Request
  <2>4. CInv' /\ \A m \in Node : \A q, r : Has(port_spath, m, q, r) => Has(port_spath', m, q, r)
    BY <1>1, <2>2, <2>3, FetchHas, FetchCount, ZenonT(30)
  <2> QED
    BY <2>1, <2>4 DEF Grown
<1>5. ASSUME NEW l \in Link, HandleEthernetMsg(l) \/ Unheard(l) \/ Lose(l)
      PROVE  port_spath' = port_spath /\ portno' = portno /\ asked' = asked
  BY <1>5 DEF HandleEthernetMsg, IgnoreDuplicate, memory, RreqAtDest, apps,
     RreqFromTable, RreqFlood, RrepAtDest, RrepUnused, RrepForward, RrepPark,
     DataAtDest, DataForward, DataPark, Asent, Unheard, Lose
<1>6. ASSUME NEW n \in Node, NEW p \in Path,
             Tick(n) \/ Kill(n) \/ ServerStart(n) \/ AppExit(n, p) \/ ServerReply(n)
      PROVE  port_spath' = port_spath /\ portno' = portno /\ asked' = asked
  BY <1>6 DEF Tick, Kill, ServerStart, AppExit, ServerReply, memory, apps
<1>7. ASSUME NEW w \in Want, ClientSend(w)
      PROVE  CInv' /\ Grown(asked, port_spath, asked', port_spath')
  <2>1. port_spath' = port_spath /\ portno' = portno /\ asked' = Append(asked, w)
    BY <1>7 DEF ClientSend, memory
  <2>2. asked \in Seq(Want)
    BY <1>1 DEF TypeOK
  <2>3. \A k \in DOMAIN asked : k \in DOMAIN asked' /\ asked'[k] = asked[k]
    BY <2>1, <2>2
  <2> QED
    BY <1>2, <2>1, <2>3, ZenonT(30) DEF Grown
<1>8. ASSUME NEW n \in Node PROVE ~Restart(n)
  BY DEF NoRestart, Restart
<1>9. CASE UNCHANGED vars
  BY <1>3, <1>9 DEF vars, memory, apps
<1>10. ServPath \in Path
  BY DEF Path
<1>11. CASE Environment
  BY <1>3, <1>5, <1>6, <1>7, <1>8, <1>10, <1>11, ZenonT(30) DEF Environment
<1> QED
  BY <1>3, <1>4, <1>5, <1>6, <1>9, <1>10, <1>11, ZenonT(30) DEF Next

-----------------------------------------------------------------------------
(* What a message in a place says of the request it is or answers. *)

\* A client's request r to n's daemon, and a server's reply to such a request.
Asks(n, r, qs) ==
  /\ r.msg \in DOMAIN qs /\ r.filename = qs[r.msg].path /\ qs[r.msg].node = n
  /\ r.destip = qs[r.msg].dest /\ r.destport = ServPort
Replies(n, r, qs, pt) ==
  LET m == r.msg - MaxMsg IN
    /\ m \in DOMAIN qs /\ qs[m].dest = n
    /\ r.destip = qs[m].node /\ Has(pt, r.destip, r.destport, qs[m].path)

\* The same in a frame, and on a socket.
AskFrame(f, qs, pt) ==
  /\ f.payload \in DOMAIN qs /\ qs[f.payload].dest = f.dest_ip
  /\ qs[f.payload].node = f.src_ip /\ f.dst_port = ServPort
  /\ Has(pt, f.src_ip, f.src_port, qs[f.payload].path)
ReplyFrame(f, qs, pt) ==
  LET m == f.payload - MaxMsg IN
    /\ m \in DOMAIN qs /\ qs[m].dest = f.src_ip
    /\ qs[m].node = f.dest_ip /\ Has(pt, f.dest_ip, f.dst_port, qs[m].path)
AskGot(n, p, v, qs, pt) ==
  /\ p = ServPath
  /\ v.msg \in DOMAIN qs /\ qs[v.msg].dest = n /\ qs[v.msg].node = v.src_ip
  /\ Has(pt, v.src_ip, v.src_port, qs[v.msg].path)
ReplyGot(n, p, v, qs) ==
  LET m == v.msg - MaxMsg IN
    m \in DOMAIN qs /\ qs[m].node = n /\ qs[m].path = p /\ qs[m].dest = v.src_ip

Good(x, v, qs, pt) ==
  \/ /\ x[1] = "proc"
     /\ Asks(x[2], v, qs) \/ Replies(x[2], v, qs, pt)
  \/ /\ x[1] \in {"park", "wire"}
     /\ v.frame_type = "DATA"
     /\ AskFrame(v, qs, pt) \/ ReplyFrame(v, qs, pt)
  \/ /\ x[1] = "app"
     /\ AskGot(x[2][1], x[2][2], v, qs, pt) \/ ReplyGot(x[2][1], x[2][2], v, qs)

Fine(H, qs, pt) ==
  \A x \in Places : \A v \in Vals(H[x]) : Control(x[1], v) \/ Good(x, v, qs, pt)
LEMMA AskedFacts ==
  ASSUME NEW qs \in Seq(Want), NEW m \in DOMAIN qs
  PROVE  /\ qs[m].node \in Node /\ qs[m].dest \in Node
         /\ qs[m].path \in ClientPath /\ qs[m].path \in Path /\ qs[m].path # ServPath
         /\ m \in Nat /\ m > 0
<1>1. qs[m] \in Want /\ m \in Nat /\ m > 0
  OBVIOUS
<1>2. qs[m] \in [node : Node, path : ClientPath, dest : Node, flag : {0, 1}]
  BY <1>1, PathAssumption, ZenonT(30)
<1> QED
  BY <1>1, <1>2, PathAssumption DEF Path

LEMMA GoodKept ==
  ASSUME NEW qs \in Seq(Want), NEW pt, NEW qs2, NEW pt2, Grown(qs, pt, qs2, pt2),
         NEW x, NEW v, Good(x, v, qs, pt)
  PROVE  Good(x, v, qs2, pt2)
<1>1. ASSUME NEW m \in DOMAIN qs, NEW port, Has(pt, qs[m].node, port, qs[m].path)
      PROVE  Has(pt2, qs[m].node, port, qs[m].path)
  BY <1>1, AskedFacts DEF Grown
<1>2. \A m \in DOMAIN qs : m \in DOMAIN qs2 /\ qs2[m] = qs[m]
  BY DEF Grown
<1>3. Asks(x[2], v, qs) => Asks(x[2], v, qs2)
  BY <1>2, ZenonT(30) DEF Asks
<1>4. Replies(x[2], v, qs, pt) => Replies(x[2], v, qs2, pt2)
  BY <1>1, <1>2, ZenonT(30) DEF Replies
<1>5. AskFrame(v, qs, pt) => AskFrame(v, qs2, pt2)
  BY <1>1, <1>2, ZenonT(30) DEF AskFrame
<1>6. ReplyFrame(v, qs, pt) => ReplyFrame(v, qs2, pt2)
  BY <1>1, <1>2, ZenonT(30) DEF ReplyFrame
<1>7. AskGot(x[2][1], x[2][2], v, qs, pt) => AskGot(x[2][1], x[2][2], v, qs2, pt2)
  BY <1>1, <1>2, ZenonT(30) DEF AskGot
<1>8. ReplyGot(x[2][1], x[2][2], v, qs) => ReplyGot(x[2][1], x[2][2], v, qs2)
  BY <1>2 DEF ReplyGot
<1> QED
  BY <1>3, <1>4, <1>5, <1>6, <1>7, <1>8, ZenonT(30) DEF Good

\* Nothing comes.
LEMMA StillFine ==
  ASSUME NEW H, NEW G, NEW qs \in Seq(Want), NEW pt, NEW qs2, NEW pt2,
         Grown(qs, pt, qs2, pt2), Fine(H, qs, pt), Still(H, G)
  PROVE  Fine(G, qs2, pt2)
<1> SUFFICES ASSUME NEW x \in Places, NEW v \in Vals(G[x])
             PROVE  Control(x[1], v) \/ Good(x, v, qs2, pt2)
  BY DEF Fine
<1>1. v \in Vals(H[x]) \/ Control(x[1], v)
  BY DEF Still, Thin
<1> QED
  BY <1>1, GoodKept, ZenonT(30) DEF Fine

\* What comes is good where it comes.
LEMMA MovedFine ==
  ASSUME NEW H, NEW G, NEW qs \in Seq(Want), NEW pt, NEW qs2, NEW pt2,
         Grown(qs, pt, qs2, pt2), Fine(H, qs, pt),
         NEW x0, NEW y0, NEW z, NEW u, Moved(H, G, x0, y0, z, u), Good(y0, u, qs2, pt2)
  PROVE  Fine(G, qs2, pt2)
<1> SUFFICES ASSUME NEW x \in Places, NEW v \in Vals(G[x])
             PROVE  Control(x[1], v) \/ Good(x, v, qs2, pt2)
  BY ZenonT(30) DEF Fine
<1>1. v \in Vals(H[x]) \/ Control(x[1], v) \/ (x = y0 /\ v = u)
  BY DEF Moved, Without, With, Thin
<1> QED
  BY <1>1, GoodKept, ZenonT(30) DEF Fine

LEMMA CameFine ==
  ASSUME NEW H, NEW G, NEW qs \in Seq(Want), NEW pt, NEW qs2, NEW pt2,
         Grown(qs, pt, qs2, pt2), Fine(H, qs, pt),
         NEW y0, NEW u, Came(H, G, y0, u), Good(y0, u, qs2, pt2)
  PROVE  Fine(G, qs2, pt2)
<1> SUFFICES ASSUME NEW x \in Places, NEW v \in Vals(G[x])
             PROVE  Control(x[1], v) \/ Good(x, v, qs2, pt2)
  BY ZenonT(30) DEF Fine
<1>1. v \in Vals(H[x]) \/ Control(x[1], v) \/ (x = y0 /\ v = u)
  BY DEF Came, With, Thin
<1> QED
  BY <1>1, GoodKept, ZenonT(30) DEF Fine

\* The message at x that goes.
LEMMA GoneGood ==
  ASSUME NEW H, NEW G, NEW qs, NEW pt, Fine(H, qs, pt), NEW x0, NEW y0, NEW z, NEW u,
         Moved(H, G, x0, y0, z, u), ~Control(x0[1], z)
  PROVE  Good(x0, z, qs, pt)
BY DEF Fine, Moved, Without

\* What Good says of each kind of place.
LEMMA GoodProc ==
  ASSUME NEW n, NEW v, NEW qs, NEW pt
  PROVE  Good(<<"proc", n>>, v, qs, pt) <=> Asks(n, v, qs) \/ Replies(n, v, qs, pt)
BY DEF Good

LEMMA GoodFrame ==
  ASSUME NEW kind \in {"park", "wire"}, NEW l, NEW v, NEW qs, NEW pt
  PROVE  Good(<<kind, l>>, v, qs, pt)
           <=> v.frame_type = "DATA" /\ (AskFrame(v, qs, pt) \/ ReplyFrame(v, qs, pt))
BY DEF Good

LEMMA GoodApp ==
  ASSUME NEW n, NEW p, NEW v, NEW qs, NEW pt
  PROVE  Good(<<"app", <<n, p>>>>, v, qs, pt)
           <=> AskGot(n, p, v, qs, pt) \/ ReplyGot(n, p, v, qs)
BY ZenonT(30) DEF Good

\* The frame made for a request or a reply.
LEMMA FrameGood ==
  ASSUME NEW qs \in Seq(Want), NEW pt, NEW qs2, NEW pt2, Grown(qs, pt, qs2, pt2),
         NEW n \in Node, NEW r, Good(<<"proc", n>>, r, qs, pt),
         NEW f, f.payload = r.msg, f.src_ip = n, f.dest_ip = r.destip,
         f.dst_port = r.destport, Has(pt2, n, f.src_port, r.filename)
  PROVE  AskFrame(f, qs2, pt2) \/ ReplyFrame(f, qs2, pt2)
<1>1. Asks(n, r, qs2) \/ Replies(n, r, qs2, pt2)
  BY GoodKept, GoodProc, ZenonT(30)
<1> QED
  BY <1>1, ZenonT(30) DEF Asks, Replies, AskFrame, ReplyFrame

\* A frame with the same addresses, ports and message is as good.
LEMMA SameFrame ==
  ASSUME NEW qs, NEW pt, NEW f, AskFrame(f, qs, pt) \/ ReplyFrame(f, qs, pt), NEW g,
         g.payload = f.payload, g.src_ip = f.src_ip, g.dest_ip = f.dest_ip,
         g.src_port = f.src_port, g.dst_port = f.dst_port
  PROVE  AskFrame(g, qs, pt) \/ ReplyFrame(g, qs, pt)
BY DEF AskFrame, ReplyFrame
-----------------------------------------------------------------------------
(* The inductive invariant. *)

RInv == MInv /\ PInv /\ CInv /\ Fine(Held, asked, port_spath)

\* What a step leaves of the rest of the invariant.
Sound == /\ IInv' /\ PInv' /\ CInv'
         /\ Grown(asked, port_spath, asked', port_spath')

\* A port listed for a path leads to that path, before and after a step.
LEMMA Leads ==
  ASSUME EnoughPorts, RInv, NEW n \in Node, NEW port, NEW path,
         Has(port_spath, n, port, path), NEW p \in reachable(n, port_spath[n], port)
  PROVE  p = path
<1>1. Distinct(port_spath[n])
  BY PortsFree DEF RInv, MInv, IInv
<1> QED
  BY <1>1, ReachHas

LEMMA LeadsNext ==
  ASSUME EnoughPorts, Sound, NEW n \in Node, NEW port, NEW path,
         Has(port_spath', n, port, path), NEW p \in reachable(n, port_spath'[n], port)
  PROVE  p = path
<1>1. Distinct(port_spath'[n])
  BY PortsFreeNext, ZenonT(30) DEF Sound, IInv
<1> QED
  BY <1>1, ReachHas

LEMMA ServerListed ==
  ASSUME NEW n \in Node
  PROVE  /\ RInv => Has(port_spath, n, ServPort, ServPath)
         /\ Sound => Has(port_spath', n, ServPort, ServPath)
BY DEF RInv, Sound, CInv, Has

LEMMA PeerLocalFine ==
  ASSUME EnoughPorts, RInv, Sound, NEW n \in Node, PeerLocal(n)
  PROVE  Fine(Held', asked', port_spath')
<1> DEFINE r == Head(proc_q[n])
<1>1. /\ IInv /\ TypeOK /\ Fine(Held, asked, port_spath) /\ PeerMsg(n) /\ r.destip = n
      /\ asked \in Seq(Want) /\ Grown(asked, port_spath, asked', port_spath')
      /\ asked' \in Seq(Want)
  BY ZenonT(30) DEF RInv, MInv, IInv, TypeOK, Sound, PeerLocal
<1>2. r.filename \in Path
  BY <1>1, PeerType, ZenonT(30) DEF Request
<1>3. CASE Still(Held, Held')
  BY <1>1, <1>3, StillFine, ZenonT(30)
<1>4. ASSUME NEW port \in Ports(n), NEW p \in Path,
             fetch_entry_path(n, r.filename, port),
             p \in reachable(n, port_spath'[n], r.destport),
             Moved(Held, Held', <<"proc", n>>, <<"app", <<n, p>>>>, r, LocalDatagram(n, port))
      PROVE  Fine(Held', asked', port_spath')
  <2> DEFINE v == LocalDatagram(n, port)
  <2>1. v.src_ip = n /\ v.src_port = port /\ v.msg = r.msg
    BY ZenonT(30) DEF LocalDatagram
  <2>2. Has(port_spath', n, port, r.filename)
    BY <1>1, <1>2, <1>4, FetchHas, ZenonT(30)
  <2>3. ~Control("proc", r)
    BY ZenonT(30) DEF Control
  <2> HIDE DEF v, r
  <2>4. Good(<<"proc", n>>, r, asked, port_spath)
    BY <1>1, <1>4, <2>3, GoneGood, ZenonT(30)
  <2>5. Good(<<"proc", n>>, r, asked', port_spath')
    BY <1>1, <2>4, GoodKept, ZenonT(30)
  <2>6. Asks(n, r, asked') \/ Replies(n, r, asked', port_spath')
    BY <2>5, GoodProc, ZenonT(30)
  <2>7. CASE Asks(n, r, asked')
    <3>1. p = ServPath
      BY <1>4, <2>7, LeadsNext, ServerListed, ZenonT(30) DEF Asks
    <3>2. AskGot(n, p, v, asked', port_spath')
      BY <1>1, <2>1, <2>2, <2>7, <3>1, ZenonT(30) DEF Asks, AskGot
    <3> QED
      BY <1>1, <1>4, <3>2, GoodApp, MovedFine, ZenonT(30) DEF v
  <2>8. CASE Replies(n, r, asked', port_spath')
    <3>1. p = asked'[r.msg - MaxMsg].path
      BY <1>1, <1>4, <2>8, LeadsNext, ZenonT(30) DEF Replies
    <3>2. ReplyGot(n, p, v, asked')
      BY <1>1, <2>1, <2>8, <3>1, ZenonT(30) DEF Replies, ReplyGot
    <3> QED
      BY <1>1, <1>4, <3>2, GoodApp, MovedFine, ZenonT(30) DEF v
  <2> QED
    BY <2>6, <2>7, <2>8, ZenonT(30)
<1> QED
  BY <1>1, <1>3, <1>4, PeerLocalEffect, ZenonT(30)

LEMMA PeerRemoteFine ==
  ASSUME RInv, Sound, NEW n \in Node, PeerDiscover(n) \/ PeerSend(n)
  PROVE  Fine(Held', asked', port_spath')
<1> DEFINE r == Head(proc_q[n])
<1>1. /\ IInv /\ TypeOK /\ Fine(Held, asked, port_spath) /\ PeerMsg(n) /\ r.destip # n
      /\ asked \in Seq(Want) /\ Grown(asked, port_spath, asked', port_spath')
  BY ZenonT(30) DEF RInv, MInv, IInv, TypeOK, Sound, PeerDiscover, PeerSend
<1>2. r \in Request /\ r.filename \in Path
  BY <1>1, PeerType, ZenonT(30) DEF Request
<1>3. ~Control("proc", r)
  BY ZenonT(30) DEF Control
<1>4. ASSUME NEW port \in Ports(n), fetch_entry_path(n, r.filename, port),
             NEW kind \in {"park", "wire"}, NEW k, NEW f,
             f.frame_type = "DATA", f.payload = r.msg, f.src_ip = n, f.dest_ip = r.destip,
             f.src_port = port, f.dst_port = r.destport,
             Moved(Held, Held', <<"proc", n>>, <<kind, k>>, r, f)
      PROVE  Fine(Held', asked', port_spath')
  <2>1. Has(port_spath', n, f.src_port, r.filename)
    BY <1>1, <1>2, <1>4, FetchHas, ZenonT(30)
  <2> HIDE DEF r
  <2>2. Good(<<"proc", n>>, r, asked, port_spath)
    BY <1>1, <1>3, <1>4, GoneGood, ZenonT(30)
  <2>3. AskFrame(f, asked', port_spath') \/ ReplyFrame(f, asked', port_spath')
    BY <1>1, <1>4, <2>1, <2>2, FrameGood, ZenonT(30)
  <2>4. Good(<<kind, k>>, f, asked', port_spath')
    BY <1>4, <2>3, GoodFrame, ZenonT(30)
  <2> QED
    BY <1>1, <1>4, <2>4, MovedFine, ZenonT(30)
<1>5. CASE PeerDiscover(n)
  <2>1. PICK port \in Ports(n) :
           /\ fetch_entry_path(n, r.filename, port)
           /\ Moved(Held, Held', <<"proc", n>>, <<"park", n>>, r, Parked(n, port))
    BY <1>1, <1>5, PeerDiscoverEffect, ZenonT(30)
  <2>2. port \in Int
    BY <1>1, <1>2, <2>1, FetchPathType, ZenonT(30)
  <2>3. /\ Parked(n, port).frame_type = "DATA"
        /\ Parked(n, port).payload = r.msg
        /\ Parked(n, port).src_ip = n /\ Parked(n, port).dest_ip = r.destip
        /\ Parked(n, port).src_port = port /\ Parked(n, port).dst_port = r.destport
    BY <1>1, <1>2, <2>2, ParkedIs, ZenonT(30)
  <2> HIDE DEF r
  <2> QED
    BY <1>4, <2>1, <2>3, ZenonT(30)
<1>6. CASE PeerSend(n)
  <2>1. PICK port \in Ports(n), e \in Entry, k \in Link :
           /\ fetch_entry_path(n, r.filename, port)
           /\ r.route_disc_flag # 1
           /\ Moved(Held, Held', <<"proc", n>>, <<"wire", k>>, r, Dispatched(n, e, port))
    BY <1>1, <1>6, PeerSendEffect, ZenonT(30)
  <2>2. port \in Int
    BY <1>1, <1>2, <2>1, FetchPathType, ZenonT(30)
  <2>3. /\ Dispatched(n, e, port).frame_type = "DATA"
        /\ Dispatched(n, e, port).payload = r.msg
        /\ Dispatched(n, e, port).src_ip = n /\ Dispatched(n, e, port).dest_ip = r.destip
        /\ Dispatched(n, e, port).src_port = port
        /\ Dispatched(n, e, port).dst_port = r.destport
    <3>1. MaySend(n, e, port)
      BY <1>1, <1>2, <2>1, <2>2, ZenonT(30) DEF MaySend
    <3>2. Dispatch(n, e, port)
      BY <3>1, DispatchedIs, ZenonT(30)
    <3> QED
      BY <3>2, ZenonT(30) DEF Dispatch
  <2> HIDE DEF r
  <2> QED
    BY <1>4, <2>1, <2>3, ZenonT(30)
<1> QED
  BY <1>5, <1>6, ZenonT(30)
LEMMA EtherFine ==
  ASSUME EnoughPorts, RInv, Sound, NEW l \in Link, HandleEthernetMsg(l)
  PROVE  Fine(Held', asked', port_spath')
<1>1. /\ MInv /\ IInv /\ TypeOK /\ Fine(Held, asked, port_spath)
      /\ asked \in Seq(Want) /\ Grown(asked, port_spath, asked', port_spath')
  BY DEF RInv, MInv, IInv, TypeOK, Sound
<1>2. ASSUME Still(Held, Held') PROVE Fine(Held', asked', port_spath')
  BY <1>1, <1>2, StillFine, ZenonT(30)
<1>3. ASSUME NEW x0, NEW kind \in {"park", "wire"}, NEW k, NEW z, NEW u,
             Moved(Held, Held', x0, <<kind, k>>, z, u), u.frame_type = "DATA",
             AskFrame(u, asked, port_spath) \/ ReplyFrame(u, asked, port_spath)
      PROVE  Fine(Held', asked', port_spath')
  <2>1. Good(<<kind, k>>, u, asked, port_spath)
    BY <1>3, GoodFrame, ZenonT(30)
  <2>2. Good(<<kind, k>>, u, asked', port_spath')
    BY <1>1, <2>1, GoodKept, ZenonT(30)
  <2> QED
    BY <1>1, <1>3, <2>2, MovedFine, ZenonT(30)
<1>4. CASE \/ IgnoreDuplicate(l) \/ RreqAtDest(l) \/ RreqFromTable(l) \/ RreqFlood(l)
           \/ RrepUnused(l) \/ RrepForward(l) \/ RrepPark(l) \/ Asent(l)
  BY <1>1, <1>2, <1>4, TakenEffect, RreqAtDestEffect, RreqFromTableEffect, RreqFloodEffect,
     RrepForwardEffect, RrepParkEffect, AsentEffect
<1>5. CASE RrepAtDest(l)
  <2>1. ASSUME NEW i \in DOMAIN pending[l.to], NEW k \in Link,
               pending[l.to][i].frame_type = "DATA",
               Moved(Held, Held', <<"park", l.to>>, <<"wire", k>>, pending[l.to][i],
                     convert_host_net_order(pending[l.to][i]))
        PROVE  Fine(Held', asked', port_spath')
    <3> DEFINE f == pending[l.to][i]
               g == convert_host_net_order(f)
    <3>1. f \in HostFrame /\ ~Control("park", f) /\ f.frame_type = "DATA"
      BY <1>1, <2>1, LinkFacts, UnparkType, ParkedIsHost, ZenonT(30) DEF Control
    <3>2. /\ g.frame_type = "DATA" /\ g.payload = f.payload
          /\ g.src_ip = f.src_ip /\ g.dest_ip = f.dest_ip
          /\ g.src_port = f.src_port /\ g.dst_port = f.dst_port
      BY <3>1, ZenonT(30) DEF convert_host_net_order, SwapOrder, HostFrame, Frame
    <3>3. Moved(Held, Held', <<"park", l.to>>, <<"wire", k>>, f, g)
      BY <2>1, ZenonT(30)
    <3> HIDE DEF f, g
    <3>4. Good(<<"park", l.to>>, f, asked, port_spath)
      BY <1>1, <3>1, <3>3, GoneGood, ZenonT(30)
    <3>5. AskFrame(f, asked, port_spath) \/ ReplyFrame(f, asked, port_spath)
      BY <3>4, GoodFrame, ZenonT(30)
    <3>6. AskFrame(g, asked, port_spath) \/ ReplyFrame(g, asked, port_spath)
      BY <3>2, <3>5, SameFrame, ZenonT(30)
    <3> QED
      BY <1>3, <3>2, <3>3, <3>6, ZenonT(30)
  <2> QED
    BY <1>1, <1>2, <1>5, <2>1, RrepAtDestEffect, ZenonT(30)
<1>6. ASSUME Receive(l), Recvd(l).frame_type = "DATA",
             NEW y0, NEW u, Moved(Held, Held', <<"wire", l>>, y0, Head(chan[l]), u)
      PROVE  AskFrame(Recvd(l), asked, port_spath) \/ ReplyFrame(Recvd(l), asked, port_spath)
  <2> DEFINE f == Head(chan[l])
  <2>1. /\ Recvd(l).frame_type = f.frame_type /\ Recvd(l).payload = f.payload
        /\ Recvd(l).src_ip = f.src_ip /\ Recvd(l).dest_ip = f.dest_ip
        /\ Recvd(l).src_port = f.src_port /\ Recvd(l).dst_port = f.dst_port
    BY <1>1, <1>6, RecvdIs, ZenonT(30)
  <2>2. ~Control("wire", f)
    BY <1>6, <2>1, ZenonT(30) DEF Control
  <2>3. Moved(Held, Held', <<"wire", l>>, y0, f, u)
    BY <1>6, ZenonT(30)
  <2> HIDE DEF f
  <2>4. Good(<<"wire", l>>, f, asked, port_spath)
    BY <1>1, <2>2, <2>3, GoneGood, ZenonT(30)
  <2>5. AskFrame(f, asked, port_spath) \/ ReplyFrame(f, asked, port_spath)
    BY <2>4, GoodFrame, ZenonT(30)
  <2> QED
    BY <2>1, <2>5, SameFrame, ZenonT(30)
<1>7. CASE DataAtDest(l)
  <2>1. Receive(l) /\ ForMe(l) /\ Recvd(l).frame_type = "DATA" /\ l.to \in Node
    BY <1>1, <1>7, DataAtDestEffect, LinkFacts, ZenonT(30)
  <2>2. ASSUME NEW p \in Path, p \in reachable(l.to, port_spath[l.to], Recvd(l).dst_port),
               Moved(Held, Held', <<"wire", l>>, <<"app", <<l.to, p>>>>, Head(chan[l]),
                     EtherDatagram(l))
        PROVE  Fine(Held', asked', port_spath')
    <3> DEFINE f == Recvd(l)
               v == EtherDatagram(l)
    <3>1. v.src_ip = f.src_ip /\ v.src_port = f.src_port /\ v.msg = f.payload
      BY ZenonT(30) DEF EtherDatagram
    <3>2. AskFrame(f, asked, port_spath) \/ ReplyFrame(f, asked, port_spath)
      BY <1>6, <2>1, <2>2, ZenonT(30)
    <3>3. f.dest_ip = l.to
      BY <2>1, ZenonT(30) DEF ForMe
    <3>4. p \in reachable(l.to, port_spath[l.to], f.dst_port)
      BY <2>2, ZenonT(30)
    <3> HIDE DEF f, v
    <3>5. AskFrame(f, asked, port_spath) => AskGot(l.to, p, v, asked, port_spath)
      <4>1. AskFrame(f, asked, port_spath) => p = ServPath
        BY <2>1, <3>4, Leads, ServerListed, ZenonT(30) DEF AskFrame
      <4> QED
        BY <3>1, <3>3, <4>1, ZenonT(30) DEF AskFrame, AskGot
    <3>6. ReplyFrame(f, asked, port_spath) => ReplyGot(l.to, p, v, asked)
      <4>1. ReplyFrame(f, asked, port_spath) => p = asked[f.payload - MaxMsg].path
        BY <2>1, <3>3, <3>4, Leads, ZenonT(30) DEF ReplyFrame
      <4> QED
        BY <3>1, <3>3, <4>1, ZenonT(30) DEF ReplyFrame, ReplyGot
    <3>7. Good(<<"app", <<l.to, p>>>>, v, asked, port_spath)
      BY <3>2, <3>5, <3>6, GoodApp, ZenonT(30)
    <3>8. Good(<<"app", <<l.to, p>>>>, v, asked', port_spath')
      BY <1>1, <3>7, GoodKept
    <3> QED
      BY <1>1, <2>2, <3>8, MovedFine, ZenonT(30) DEF v
  <2> QED
    BY <1>1, <1>2, <1>7, <2>2, DataAtDestEffect, ZenonT(30)
<1>8. CASE DataForward(l)
  <2>1. PICK k \in Link :
          Moved(Held, Held', <<"wire", l>>, <<"wire", k>>, Head(chan[l]), Forwarded(l))
    BY <1>1, <1>8, DataForwardEffect, ZenonT(30)
  <2>2. Receive(l) /\ Recvd(l).frame_type = "DATA"
    BY <1>1, <1>8, DataForwardEffect, ZenonT(30)
  <2>3. AskFrame(Recvd(l), asked, port_spath) \/ ReplyFrame(Recvd(l), asked, port_spath)
    BY <1>6, <2>1, <2>2, ZenonT(30)
  <2>4. AskFrame(Forwarded(l), asked, port_spath) \/ ReplyFrame(Forwarded(l), asked, port_spath)
    BY <1>1, <2>2, <2>3, ForwardedIs, SameFrame, ZenonT(30)
  <2>5. Forwarded(l).frame_type = "DATA"
    BY <1>1, <2>2, ForwardedIs, ZenonT(30)
  <2> QED
    BY <1>3, <2>1, <2>4, <2>5, ZenonT(30)
<1>9. CASE DataPark(l)
  <2>1. /\ Moved(Held, Held', <<"wire", l>>, <<"park", l.to>>, Head(chan[l]), Recvd(l))
        /\ Receive(l) /\ Recvd(l).frame_type = "DATA"
    BY <1>1, <1>9, DataParkEffect, ZenonT(30)
  <2>2. AskFrame(Recvd(l), asked, port_spath) \/ ReplyFrame(Recvd(l), asked, port_spath)
    BY <1>6, <2>1, ZenonT(30)
  <2> QED
    BY <1>3, <2>1, <2>2, ZenonT(30)
<1> QED
  BY <1>4, <1>5, <1>7, <1>8, <1>9, ZenonT(30) DEF HandleEthernetMsg
LEMMA ServerFine ==
  ASSUME RInv, Sound, NEW n \in Node, ServerReply(n)
  PROVE  Fine(Held', asked', port_spath')
<1> DEFINE v == Head(app_q[n][ServPath])
           x == <<"app", <<n, ServPath>>>>
<1>1. /\ IInv /\ Fine(Held, asked, port_spath)
      /\ asked \in Seq(Want) /\ Grown(asked, port_spath, asked', port_spath')
  BY ZenonT(30) DEF RInv, MInv, IInv, TypeOK, Sound
<1>2. Moved(Held, Held', x, <<"proc", n>>, v, Answer(n))
  BY <1>1, ServerReplyEffect
<1>3. /\ Answer(n).destip = v.src_ip /\ Answer(n).destport = v.src_port
      /\ Answer(n).msg = MaxMsg + v.msg
  BY DEF Answer
<1>4. ~Control(x[1], v) /\ MaxMsg \in Nat
  BY NumberAssumption, ZenonT(30) DEF Control
<1> HIDE DEF v
<1>5. Good(x, v, asked, port_spath)
  BY <1>1, <1>2, <1>4, GoneGood, ZenonT(30)
<1>6. AskGot(n, ServPath, v, asked, port_spath)
  <2>1. ~ReplyGot(n, ServPath, v, asked)
    BY <1>1, AskedFacts, ZenonT(30) DEF ReplyGot
  <2> QED
    BY <1>5, <2>1, GoodApp, ZenonT(30)
<1>7. Answer(n).msg - MaxMsg = v.msg
  <2>1. v.msg \in Nat
    BY <1>1, <1>6, AskedFacts, ZenonT(30) DEF AskGot
  <2> QED
    BY <1>3, <1>4, <2>1
<1>8. Replies(n, Answer(n), asked, port_spath)
  BY <1>3, <1>6, <1>7, ZenonT(30) DEF AskGot, Replies
<1>9. Good(<<"proc", n>>, Answer(n), asked', port_spath')
  BY <1>1, <1>8, GoodProc, GoodKept, ZenonT(30)
<1> QED
  BY <1>1, <1>2, <1>9, MovedFine, ZenonT(30)

LEMMA ClientFine ==
  ASSUME RInv, Sound, NEW w \in Want, ClientSend(w)
  PROVE  Fine(Held', asked', port_spath')
<1>1. /\ IInv /\ Fine(Held, asked, port_spath)
      /\ asked \in Seq(Want) /\ Grown(asked, port_spath, asked', port_spath')
  BY DEF RInv, MInv, IInv, TypeOK, Sound
<1>2. Came(Held, Held', <<"proc", w.node>>, Question(w))
  BY <1>1, ClientSendEffect, ZenonT(30)
<1>3. asked' = Append(asked, w)
  BY DEF ClientSend
<1>4. Len(asked) + 1 \in DOMAIN asked' /\ asked'[Len(asked) + 1] = w
  BY <1>1, <1>3
<1>5. Asks(w.node, Question(w), asked')
  BY <1>4 DEF Asks, Question
<1>6. Good(<<"proc", w.node>>, Question(w), asked', port_spath')
  BY <1>5, GoodProc, ZenonT(30)
<1> QED
  BY <1>1, <1>2, <1>6, CameFine, ZenonT(30)

LEMMA NextFine ==
  ASSUME NoRestart, EnoughPorts, RInv, Sound, [Next]_vars
  PROVE  Fine(Held', asked', port_spath')
<1>1. /\ IInv /\ Fine(Held, asked, port_spath)
      /\ asked \in Seq(Want) /\ Grown(asked, port_spath, asked', port_spath')
  BY DEF RInv, MInv, IInv, TypeOK, Sound
<1>2. ASSUME Still(Held, Held') PROVE Fine(Held', asked', port_spath')
  BY <1>1, <1>2, StillFine, ZenonT(30)
<1>3. ASSUME NEW n \in Node, HandlePeerMsg(n) \/ ServerReply(n)
      PROVE  Fine(Held', asked', port_spath')
  BY <1>3, PeerLocalFine, PeerRemoteFine, ServerFine, ZenonT(30) DEF HandlePeerMsg
<1>4. ASSUME NEW l \in Link, HandleEthernetMsg(l) PROVE Fine(Held', asked', port_spath')
  BY <1>4, EtherFine, ZenonT(30)
<1>5. ASSUME NEW l \in Link, Unheard(l) \/ Lose(l) PROVE Fine(Held', asked', port_spath')
  BY <1>1, <1>2, <1>5, TakenEffect, ZenonT(30)
<1>6. ASSUME NEW n \in Node, Tick(n) \/ Kill(n) \/ ServerStart(n) \/ Restart(n)
      PROVE  Fine(Held', asked', port_spath')
  BY <1>1, <1>2, <1>6, IdleEffect, RestartEffect, ZenonT(30)
<1>7. ASSUME NEW n \in Node, NEW p \in Path, AppExit(n, p)
      PROVE  Fine(Held', asked', port_spath')
  BY <1>1, <1>2, <1>7, AppExitEffect, ZenonT(30)
<1>8. CASE UNCHANGED vars
  <2>1. proc_q' = proc_q /\ pending' = pending /\ chan' = chan /\ app_q' = app_q
    BY <1>8, ZenonT(30) DEF vars, memory, apps
  <2> QED
    BY <1>2, <2>1, QuietEther, SameThin, ZenonT(30)
<1>9. CASE Environment
  BY <1>5, <1>6, <1>7, <1>9, ClientFine, ZenonT(30) DEF Environment
<1> QED
  BY <1>3, <1>4, <1>5, <1>8, <1>9, ZenonT(30) DEF Next

LEMMA InitFine == Init => Fine(Held, asked, port_spath)
<1> SUFFICES ASSUME Init PROVE Fine(Held, asked, port_spath)
  OBVIOUS
<1>1. \A x \in Places : Held[x] = <<>>
  BY InitEmpty
<1>2. Vals(<<>>) = {}
  BY DEF Vals
<1> QED
  BY <1>1, <1>2, ZenonT(30) DEF Fine

\* Every message says truly whom it is from and for.
THEOREM MessagesFine ==
  ASSUME NoRestart, EnoughPorts
  PROVE  Spec => []RInv
<1>1. Init => RInv
  BY InitIInv, InitOne, InitPInv, InitCInv, InitFine, ZenonT(30) DEF RInv, MInv
<1>2. RInv /\ [Next]_vars => RInv'
  <2> SUFFICES ASSUME RInv, [Next]_vars PROVE RInv'
    OBVIOUS
  <2>1. MInv /\ IInv /\ PInv /\ CInv
    BY DEF RInv, MInv
  <2>2. IInv' /\ OneAt(Held', Len(asked'))
    BY <2>1, NextIInv, NextOne, ZenonT(30)
  <2>3. PInv'
    BY <2>1, NextPInv, ZenonT(30)
  <2>4. CInv' /\ Grown(asked, port_spath, asked', port_spath')
    BY <2>1, TablesStep, ZenonT(30)
  <2>5. Fine(Held', asked', port_spath')
    BY <2>2, <2>3, <2>4, NextFine, ZenonT(30) DEF Sound
  <2>6. MInv'
    BY <2>2 DEF MInv
  <2> QED
    BY <2>3, <2>4, <2>5, <2>6, ZenonT(30) DEF RInv
<1> QED
  BY <1>1, <1>2, PTL DEF Spec

LEMMA FineRecipients == RInv => RightRecipient
<1> SUFFICES ASSUME RInv, NEW n \in Node, NEW p \in Path, NEW i \in DOMAIN app_q[n][p]
             PROVE  LET got == app_q[n][p][i] IN
                      IF p = ServPath
                      THEN /\ got.msg \in DOMAIN asked
                           /\ asked[got.msg].dest = n /\ asked[got.msg].node = got.src_ip
                      ELSE LET m == got.msg - MaxMsg IN
                           /\ m \in DOMAIN asked
                           /\ asked[m].node = n /\ asked[m].path = p
                           /\ asked[m].dest = got.src_ip
  BY ZenonT(30) DEF RightRecipient
<1> DEFINE v == app_q[n][p][i]
           x == <<"app", <<n, p>>>>
<1>1. x \in Places /\ v \in Vals(Held[x]) /\ ~Control(x[1], v)
  BY HeldIs, PlacesFacts, ZenonT(30) DEF Vals, Control
<1> HIDE DEF v
<1>2. AskGot(n, p, v, asked, port_spath) \/ ReplyGot(n, p, v, asked)
  BY <1>1, GoodApp, ZenonT(30) DEF RInv, Fine
<1>3. asked \in Seq(Want)
  BY ZenonT(30) DEF RInv, MInv, IInv, TypeOK
<1>4. CASE AskGot(n, p, v, asked, port_spath)
  BY <1>4, ZenonT(30) DEF AskGot, v
<1>5. CASE ReplyGot(n, p, v, asked)
  <2>1. p # ServPath
    BY <1>3, <1>5, AskedFacts, ZenonT(30) DEF ReplyGot
  <2> QED
    BY <1>5, <2>1, ZenonT(30) DEF ReplyGot, v
<1> QED
  BY <1>2, <1>4, <1>5, ZenonT(30)

LEMMA FineListed == RInv => PeerListed
<1> SUFFICES ASSUME RInv, NEW n \in Node, proc_q[n] # <<>>, Head(proc_q[n]).destip = n
             PROVE  \E i \in DOMAIN port_spath[n] :
                      port_spath[n][i].portno = Head(proc_q[n]).destport
  BY ZenonT(30) DEF PeerListed
<1> DEFINE r == Head(proc_q[n])
           x == <<"proc", n>>
<1>1. proc_q[n] \in Seq(Request)
  BY ZenonT(30) DEF RInv, MInv, IInv, TypeOK
<1>2. r \in Vals(proc_q[n])
  BY <1>1, TailWithout, ZenonT(30) DEF Without
<1>3. x \in Places /\ r \in Vals(Held[x]) /\ ~Control(x[1], r)
  BY <1>2, HeldIs, PlacesFacts, ZenonT(30) DEF Control
<1>4. r.destip = n
  OBVIOUS
<1> HIDE DEF r
<1>5. Asks(n, r, asked) \/ Replies(n, r, asked, port_spath)
  BY <1>3, GoodProc, ZenonT(30) DEF RInv, Fine
<1>6. \E path : Has(port_spath, n, r.destport, path)
  BY <1>4, <1>5, ServerListed, ZenonT(30) DEF Asks, Replies
<1> QED
  BY <1>6, ZenonT(30) DEF Has, r

\* A server's socket holds requests made to its machine and a client's socket
\* replies to its own requests, from the machine it asked, in every network.
THEOREM RightRecipients ==
  ASSUME NoRestart, EnoughPorts
  PROVE  Spec => []RightRecipient
BY FineRecipients, MessagesFine, PTL

\* The assertion on peer_entry in handle_peer_msg never fails: the port of every
\* local message is listed before the message is handled.
THEOREM PeersListed ==
  ASSUME NoRestart, EnoughPorts
  PROVE  Spec => []PeerListed
BY FineListed, MessagesFine, PTL

=============================================================================
