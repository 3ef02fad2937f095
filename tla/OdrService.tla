----------------------------- MODULE OdrService -----------------------------
(***************************************************************************)
(* The daemons implement the message service of module MsgService, in      *)
(* every network in which no daemon is restarted and every set of clients  *)
(* for which the ports below __SERV_PORT suffice.                          *)
(*                                                                         *)
(* Seen from the service a message is nowhere, under way, or on a socket.  *)
(* A step of the daemons maps to Arrive when a datagram reaches a socket,  *)
(* to Answer and Ask when an application sends, and to Vanish otherwise.   *)
(***************************************************************************)
EXTENDS OdrRecipients

\* The backends tried in turn for a leaf that names none.
USE SMT, Zenon, Z3, SMTT(20)

Messages == 1 .. 2 * MaxMsg

\* Message m is at x, on a socket, under way.
There(H, x, m)  == \E v \in Vals(H[x]) : ident(x[1], v) = m
InApp(H, m)     == {h \in Node \X Path : There(H, <<"app", h>>, m)}
Underway(H, m)  == \E x \in Places : x[1] # "app" /\ There(H, x, m)

PlaceOf(H, m) ==
  IF InApp(H, m) # {} THEN CHOOSE h \in InApp(H, m) : TRUE
  ELSE IF Underway(H, m) THEN <<"flight">> ELSE <<>>

\* The three kinds of places of the service differ.
LEMMA PlacesDiffer ==
  ASSUME NEW h \in Node \X Path
  PROVE  h # <<"flight">> /\ h # <<>> /\ <<"flight">> # <<>>
<1>1. PICK n \in Node, p \in Path : h = <<n, p>>
  OBVIOUS
<1>2. Len(<<n, p>>) = 2 /\ Len(<<"flight">>) = 1 /\ Len(<<>>) = 0
  OBVIOUS
<1> QED
  BY <1>1, <1>2

LEMMA PlaceHeld ==
  ASSUME NEW m
  PROVE  Place(m) = PlaceOf(Held, m)
<1> DEFINE held == {h \in Node \X Path : \E i \in DOMAIN app_q[h[1]][h[2]] :
                                           app_q[h[1]][h[2]][i].msg = m}
<1>1. ASSUME NEW h \in Node \X Path
      PROVE  There(Held, <<"app", h>>, m)
               <=> \E i \in DOMAIN app_q[h[1]][h[2]] : app_q[h[1]][h[2]][i].msg = m
  <2>1. h = <<h[1], h[2]>> /\ h[1] \in Node /\ h[2] \in Path
    OBVIOUS
  <2>2. Held[<<"app", h>>] = app_q[h[1]][h[2]]
    BY <2>1, HeldIs
  <2> QED
    BY <2>2 DEF There, Vals, ident
<1>2. held = InApp(Held, m)
  BY <1>1, ZenonT(30) DEF InApp
<1>3. Underway(Held, m) <=> OnTheWay(m)
  <2>1. ASSUME NEW n \in Node
        PROVE  /\ There(Held, <<"proc", n>>, m)
                    <=> \E i \in DOMAIN proc_q[n] : proc_q[n][i].msg = m
               /\ There(Held, <<"park", n>>, m)
                    <=> \E i \in DOMAIN pending[n] : pending[n][i].payload = m
    BY HeldIs DEF There, Vals, ident
  <2>2. ASSUME NEW l \in Link
        PROVE  There(Held, <<"wire", l>>, m)
                 <=> \E i \in DOMAIN chan[l] : chan[l][i].payload = m
    BY HeldIs DEF There, Vals, ident
  <2>3. Underway(Held, m)
          <=> \/ \E n \in Node : There(Held, <<"proc", n>>, m) \/ There(Held, <<"park", n>>, m)
              \/ \E l \in Link : There(Held, <<"wire", l>>, m)
    <3>1. ASSUME NEW x \in Places, x[1] # "app"
          PROVE  \/ \E n \in Node : x = <<"proc", n>> \/ x = <<"park", n>>
                 \/ \E l \in Link : x = <<"wire", l>>
      BY <3>1, PlacesFacts
    <3>2. \A n \in Node : <<"proc", n>>[1] # "app" /\ <<"park", n>>[1] # "app"
      OBVIOUS
    <3>3. \A l \in Link : <<"wire", l>>[1] # "app"
      OBVIOUS
    <3> HIDE DEF There
    <3> QED
      BY <3>1, <3>2, <3>3, PlacesFacts, ZenonT(30) DEF Underway
  <2> QED
    BY <2>1, <2>2, <2>3, ZenonT(30) DEF OnTheWay
<1> HIDE DEF held
<1>4. Place(m) = IF held # {} THEN CHOOSE h \in held : TRUE
                 ELSE IF OnTheWay(m) THEN <<"flight">> ELSE <<>>
  BY DEF Place, held
<1> QED
  BY <1>2, <1>3, <1>4, ZenonT(30) DEF PlaceOf

LEMMA PlaceHeldNext ==
  ASSUME NEW m
  PROVE  Place(m)' = PlaceOf(Held', m)
<1> DEFINE held == {h \in Node \X Path : \E i \in DOMAIN app_q'[h[1]][h[2]] :
                                           app_q'[h[1]][h[2]][i].msg = m}
<1>1. ASSUME NEW h \in Node \X Path
      PROVE  There(Held', <<"app", h>>, m)
               <=> \E i \in DOMAIN app_q'[h[1]][h[2]] : app_q'[h[1]][h[2]][i].msg = m
  <2>1. h = <<h[1], h[2]>> /\ h[1] \in Node /\ h[2] \in Path
    OBVIOUS
  <2>2. Held'[<<"app", h>>] = app_q'[h[1]][h[2]]
    BY <2>1, HeldIsNext
  <2> QED
    BY <2>2 DEF There, Vals, ident
<1>2. held = InApp(Held', m)
  BY <1>1 DEF InApp
<1>3. Underway(Held', m) <=> OnTheWay(m)'
  <2>1. ASSUME NEW n \in Node
        PROVE  /\ There(Held', <<"proc", n>>, m)
                    <=> \E i \in DOMAIN proc_q'[n] : proc_q'[n][i].msg = m
               /\ There(Held', <<"park", n>>, m)
                    <=> \E i \in DOMAIN pending'[n] : pending'[n][i].payload = m
    BY HeldIsNext DEF There, Vals, ident
  <2>2. ASSUME NEW l \in Link
        PROVE  There(Held', <<"wire", l>>, m)
                 <=> \E i \in DOMAIN chan'[l] : chan'[l][i].payload = m
    BY HeldIsNext DEF There, Vals, ident
  <2>3. Underway(Held', m)
          <=> \/ \E n \in Node : There(Held', <<"proc", n>>, m) \/ There(Held', <<"park", n>>, m)
              \/ \E l \in Link : There(Held', <<"wire", l>>, m)
    <3>1. ASSUME NEW x \in Places, x[1] # "app"
          PROVE  \/ \E n \in Node : x = <<"proc", n>> \/ x = <<"park", n>>
                 \/ \E l \in Link : x = <<"wire", l>>
      BY <3>1, PlacesFacts
    <3>2. \A n \in Node : <<"proc", n>>[1] # "app" /\ <<"park", n>>[1] # "app"
      OBVIOUS
    <3>3. \A l \in Link : <<"wire", l>>[1] # "app"
      OBVIOUS
    <3> HIDE DEF There
    <3> QED
      BY <3>1, <3>2, <3>3, PlacesFacts, ZenonT(30) DEF Underway
  <2> QED
    BY <2>1, <2>2, <2>3, ZenonT(30) DEF OnTheWay
<1> HIDE DEF held
<1>4. Place(m)' = IF held # {} THEN CHOOSE h \in held : TRUE
                  ELSE IF OnTheWay(m)' THEN <<"flight">> ELSE <<>>
  BY DEF Place, held
<1> QED
  BY <1>2, <1>3, <1>4, ZenonT(30) DEF PlaceOf
-----------------------------------------------------------------------------
(* What the steps of the daemons do to a message's place. *)

\* The request a message is or answers.
LEMMA TokenOf ==
  ASSUME NEW m \in Messages
  PROVE  \E t \in 1 .. MaxMsg : \A kind, v : ident(kind, v) = m => t \in token(kind, v)
<1>1. PICK t \in 1 .. MaxMsg : m = t \/ m = MaxMsg + t
  <2>1. m <= MaxMsg => m \in 1 .. MaxMsg
    BY NumberAssumption DEF Messages
  <2>2. ~(m <= MaxMsg) => m - MaxMsg \in 1 .. MaxMsg /\ m = MaxMsg + (m - MaxMsg)
    BY NumberAssumption DEF Messages
  <2> QED
    BY <2>1, <2>2, ZenonT(30)
<1>2. \A kind, v : ident(kind, v) = m => t \in token(kind, v)
  BY <1>1, ZenonT(30) DEF token
<1> QED
  BY <1>2

LEMMA OneThere ==
  ASSUME NEW H, NEW q, OneAt(H, q), NEW m \in Messages,
         NEW x \in Places, NEW y \in Places, There(H, x, m), There(H, y, m)
  PROVE  x = y
<1>1. PICK t \in 1 .. MaxMsg : \A kind, v : ident(kind, v) = m => t \in token(kind, v)
  BY TokenOf
<1>2. PICK v \in Vals(H[x]) : ident(x[1], v) = m
  BY DEF There
<1>3. PICK w \in Vals(H[y]) : ident(y[1], w) = m
  BY DEF There
<1>4. t \in token(x[1], v) /\ t \in token(y[1], w)
  BY <1>1, <1>2, <1>3, ZenonT(30)
<1> QED
  BY <1>4, ZenonT(30) DEF OneAt, Other

LEMMA AppPlace ==
  ASSUME NEW h \in Node \X Path
  PROVE  <<"app", h>> \in Places /\ <<"app", h>>[1] = "app"
BY DEF Places

\* The place of a message, from where it is.
LEMMA PlaceApp ==
  ASSUME NEW H, NEW q, OneAt(H, q), NEW m \in Messages, NEW h \in InApp(H, m)
  PROVE  PlaceOf(H, m) = h /\ ~Underway(H, m)
<1>1. h \in Node \X Path /\ There(H, <<"app", h>>, m)
  BY DEF InApp
<1>2. ASSUME NEW g \in InApp(H, m) PROVE g = h
  <2>1. g \in Node \X Path /\ There(H, <<"app", g>>, m)
    BY DEF InApp
  <2>2. <<"app", g>> = <<"app", h>>
    BY <1>1, <2>1, AppPlace, OneThere, ZenonT(30)
  <2> QED
    BY <2>2
<1>3. InApp(H, m) = {h}
  BY <1>2, ZenonT(30)
<1>4. ASSUME Underway(H, m) PROVE FALSE
  <2>1. PICK x \in Places : x[1] # "app" /\ There(H, x, m)
    BY <1>4, ZenonT(30) DEF Underway
  <2>2. x = <<"app", h>>
    BY <1>1, <2>1, AppPlace, OneThere, ZenonT(30)
  <2> QED
    BY <2>1, <2>2, <1>1, AppPlace, ZenonT(30)
<1> QED
  BY <1>3, <1>4, ZenonT(30) DEF PlaceOf

LEMMA PlaceFlight ==
  ASSUME NEW H, NEW m, InApp(H, m) = {}
  PROVE  PlaceOf(H, m) = IF Underway(H, m) THEN <<"flight">> ELSE <<>>
BY DEF PlaceOf

\* A message comes to no socket, and is not under way if it was not.
Quiet(H, G) ==
  \A m \in Messages : /\ InApp(G, m) \subseteq InApp(H, m)
                      /\ Underway(G, m) => Underway(H, m)

LEMMA QuietPlace ==
  ASSUME NEW H, NEW q, OneAt(H, q), NEW G, NEW q2, OneAt(G, q2), Quiet(H, G), NEW m \in Messages
  PROVE  PlaceOf(G, m) = PlaceOf(H, m) \/ PlaceOf(G, m) = <<>>
<1>1. CASE InApp(G, m) # {}
  <2>1. PICK h \in InApp(G, m) : TRUE
    BY <1>1, ZenonT(30)
  <2>2. h \in InApp(H, m)
    BY <2>1 DEF Quiet
  <2> QED
    BY <2>1, <2>2, PlaceApp, ZenonT(30)
<1>2. CASE InApp(G, m) = {} /\ Underway(G, m)
  <2>1. Underway(H, m)
    BY <1>2, ZenonT(30) DEF Quiet
  <2>2. InApp(H, m) = {}
    BY <2>1, PlaceApp, ZenonT(30)
  <2> QED
    BY <1>2, <2>1, <2>2, PlaceFlight, ZenonT(30)
<1>3. CASE InApp(G, m) = {} /\ ~Underway(G, m)
  BY <1>3, PlaceFlight, ZenonT(30)
<1> QED
  BY <1>1, <1>2, <1>3, ZenonT(30)

\* A frame without a message is no message.
LEMMA ControlIdent ==
  ASSUME NEW kind, NEW v, Control(kind, v), NEW m \in Messages
  PROVE  ident(kind, v) # m
<1>1. ident(kind, v) = 0 /\ m > 0
  BY NumberAssumption DEF Control, ident, NoPayload, Messages
<1> QED
  BY <1>1, NumberAssumption DEF Messages

LEMMA StillThere ==
  ASSUME NEW kind, NEW x, x[1] = kind, NEW H, NEW G, Thin(kind, H[x], G[x]),
         NEW m \in Messages, There(G, x, m)
  PROVE  There(H, x, m)
BY ControlIdent, ZenonT(30) DEF There, Thin

LEMMA StillQuiet ==
  ASSUME NEW H, NEW G, Still(H, G)
  PROVE  Quiet(H, G)
<1>1. ASSUME NEW x \in Places, NEW m \in Messages, There(G, x, m) PROVE There(H, x, m)
  BY <1>1, StillThere, ZenonT(30) DEF Still
<1>2. ASSUME NEW m \in Messages PROVE InApp(G, m) \subseteq InApp(H, m)
  BY <1>1, AppPlace, ZenonT(30) DEF InApp
<1>3. ASSUME NEW m \in Messages, Underway(G, m) PROVE Underway(H, m)
  BY <1>1, <1>3, ZenonT(30) DEF Underway
<1> QED
  BY <1>2, <1>3, ZenonT(30) DEF Quiet

\* Where a message is after it moved.
LEMMA MovedThere ==
  ASSUME NEW H, NEW G, NEW x0, NEW y0, NEW z, NEW u, Moved(H, G, x0, y0, z, u),
         NEW x \in Places, NEW m \in Messages, There(G, x, m)
  PROVE  There(H, x, m) \/ (x = y0 /\ ident(y0[1], u) = m)
<1>1. PICK v \in Vals(G[x]) : ident(x[1], v) = m
  BY ZenonT(30) DEF There
<1>2. v \in Vals(H[x]) \/ Control(x[1], v) \/ (x = y0 /\ v = u)
  BY <1>1, ZenonT(30) DEF Moved, Without, With, Thin
<1> QED
  BY <1>1, <1>2, ControlIdent, ZenonT(30) DEF There

LEMMA MovedQuiet ==
  ASSUME NEW H, NEW G, NEW x0, NEW y0, NEW z, NEW u, Moved(H, G, x0, y0, z, u),
         x0[1] # "app", y0[1] # "app", ident(y0[1], u) = ident(x0[1], z)
  PROVE  Quiet(H, G)
<1>1. x0 \in Places /\ y0 \in Places /\ z \in Vals(H[x0])
  BY DEF Moved, Without
<1>2. ASSUME NEW m \in Messages, NEW h \in InApp(G, m) PROVE h \in InApp(H, m)
  <2>1. h \in Node \X Path /\ There(G, <<"app", h>>, m)
    BY DEF InApp
  <2>2. <<"app", h>> # y0
    BY <2>1, AppPlace, ZenonT(30)
  <2>3. There(H, <<"app", h>>, m)
    BY <2>1, <2>2, AppPlace, MovedThere
  <2> QED
    BY <2>1, <2>3, ZenonT(30) DEF InApp
<1>3. ASSUME NEW m \in Messages, Underway(G, m) PROVE Underway(H, m)
  <2>1. PICK x \in Places : x[1] # "app" /\ There(G, x, m)
    BY <1>3, ZenonT(30) DEF Underway
  <2>2. There(H, x, m) \/ ident(x0[1], z) = m
    BY <2>1, MovedThere
  <2>3. ident(x0[1], z) = m => There(H, x0, m)
    BY <1>1, ZenonT(30) DEF There
  <2> QED
    BY <1>1, <2>1, <2>2, <2>3, ZenonT(30) DEF Underway
<1> QED
  BY <1>2, <1>3, ZenonT(30) DEF Quiet
\* Nothing is lost but z, which goes from x0.
Whole(H, G, x0, z) ==
  \A x \in Places : \A v \in Vals(H[x]) : v \in Vals(G[x]) \/ (x = x0 /\ v = z)

\* A message other than the one that moved, and the one it became, stays.
LEMMA OthersStay ==
  ASSUME NEW H, NEW G, NEW x0, NEW y0, NEW z, NEW u, Moved(H, G, x0, y0, z, u),
         Whole(H, G, x0, z), NEW m \in Messages, m # ident(x0[1], z), m # ident(y0[1], u)
  PROVE  PlaceOf(G, m) = PlaceOf(H, m)
<1>1. ASSUME NEW x \in Places PROVE There(G, x, m) <=> There(H, x, m)
  <2>1. There(G, x, m) => There(H, x, m)
    BY MovedThere
  <2>2. There(H, x, m) => There(G, x, m)
    BY ZenonT(30) DEF There, Whole
  <2> QED
    BY <2>1, <2>2, ZenonT(30)
<1>2. InApp(G, m) = InApp(H, m)
  BY <1>1, AppPlace, ZenonT(30) DEF InApp
<1>3. Underway(G, m) <=> Underway(H, m)
  BY <1>1, ZenonT(30) DEF Underway
<1> QED
  BY <1>2, <1>3 DEF PlaceOf

\* A datagram reaches a socket.
LEMMA ArrivePlace ==
  ASSUME NEW H, NEW q, OneAt(H, q), NEW G, NEW q2, OneAt(G, q2), NEW x0, x0[1] # "app",
         NEW h \in Node \X Path, NEW z, NEW u, Moved(H, G, x0, <<"app", h>>, z, u),
         Whole(H, G, x0, z), u \in Vals(G[<<"app", h>>]),
         NEW m \in Messages, ident(x0[1], z) = m, ident("app", u) = m
  PROVE  /\ PlaceOf(H, m) = <<"flight">> /\ PlaceOf(G, m) = h
         /\ \A k \in Messages : k # m => PlaceOf(G, k) = PlaceOf(H, k)
<1>1. <<"app", h>> \in Places /\ <<"app", h>>[1] = "app"
  BY AppPlace, ZenonT(30)
<1>2. x0 \in Places /\ There(H, x0, m)
  BY ZenonT(30) DEF Moved, Without, There
<1>3. Underway(H, m)
  BY <1>2, ZenonT(30) DEF Underway
<1>4. PlaceOf(H, m) = <<"flight">>
  BY <1>3, PlaceApp, PlaceFlight, ZenonT(30)
<1>5. h \in InApp(G, m)
  BY <1>1, ZenonT(30) DEF InApp, There
<1>6. PlaceOf(G, m) = h
  BY <1>5, PlaceApp, ZenonT(30)
<1>7. \A k \in Messages : k # m => PlaceOf(G, k) = PlaceOf(H, k)
  BY <1>1, OthersStay
<1> QED
  BY <1>4, <1>6, <1>7, ZenonT(30)

\* A server reads a request and sends the reply, or loses it.
LEMMA AnswerPlace ==
  ASSUME NEW H, NEW q, OneAt(H, q), NEW G, NEW q2, OneAt(G, q2),
         NEW h \in Node \X Path, NEW y0, y0[1] # "app", NEW z, NEW u,
         Moved(H, G, <<"app", h>>, y0, z, u), Whole(H, G, <<"app", h>>, z),
         NEW m \in 1 .. MaxMsg, ident("app", z) = m, ident(y0[1], u) = MaxMsg + m
  PROVE  /\ m \in Messages /\ MaxMsg + m \in Messages /\ m # MaxMsg + m
         /\ PlaceOf(H, m) = h /\ PlaceOf(G, m) = <<>>
         /\ PlaceOf(G, MaxMsg + m) \in {<<>>, <<"flight">>}
         /\ \A k \in Messages : k # m /\ k # MaxMsg + m => PlaceOf(G, k) = PlaceOf(H, k)
<1> DEFINE x0 == <<"app", h>>
<1>1. x0 \in Places /\ x0[1] = "app" /\ h \in Node \X Path
  BY AppPlace, ZenonT(30)
<1>2. m \in Messages /\ MaxMsg + m \in Messages /\ m # MaxMsg + m
  BY NumberAssumption DEF Messages
<1>3. z \in Vals(H[x0]) /\ There(H, x0, m)
  BY <1>1, ZenonT(30) DEF Moved, Without, There
<1>4. PlaceOf(H, m) = h
  BY <1>1, <1>2, <1>3, PlaceApp, ZenonT(30) DEF InApp
<1>5. ASSUME NEW k \in {m, MaxMsg + m}, NEW x \in Places, x # y0 PROVE ~There(G, x, k)
  <2>1. SUFFICES ASSUME There(G, x, k) PROVE FALSE
    OBVIOUS
  <2>2. PICK v \in Vals(G[x]) : ident(x[1], v) = k
    BY <2>1, ZenonT(30) DEF There
  <2>3. m \in token(x[1], v) /\ m \in token("app", z)
    BY <2>2, ZenonT(30) DEF token
  <2>4. ~Control(x[1], v)
    BY <2>3, ControlToken, ZenonT(30)
  <2>5. v \in Vals(H[x])
    BY <1>1, <1>5, <2>4, ZenonT(30) DEF Moved, Without, Thin
  <2>6. CASE x = x0
    <3>1. Other("app", v, "app", z)
      BY <1>1, <2>2, <2>6, ZenonT(30) DEF Moved, Without, OneAt
    <3> QED
      BY <1>1, <2>3, <2>6, <3>1, ZenonT(30) DEF Other
  <2>7. CASE x # x0
    <3>1. Other(x[1], v, x0[1], z)
      BY <1>1, <1>3, <2>5, <2>7, ZenonT(30) DEF OneAt
    <3> QED
      BY <1>1, <2>3, <3>1, ZenonT(30) DEF Other
  <2> QED
    BY <2>6, <2>7, ZenonT(30)
<1>6. ASSUME NEW k \in {m, MaxMsg + m} PROVE InApp(G, k) = {}
  <2>1. ASSUME NEW g \in InApp(G, k) PROVE FALSE
    <3>1. g \in Node \X Path /\ There(G, <<"app", g>>, k)
      BY DEF InApp
    <3>2. <<"app", g>> \in Places /\ <<"app", g>> # y0
      BY <3>1, AppPlace, ZenonT(30)
    <3> QED
      BY <1>5, <3>1, <3>2, ZenonT(30)
  <2> QED
    BY <2>1, ZenonT(30)
<1>7. ~There(G, y0, m)
  <2>1. SUFFICES ASSUME There(G, y0, m) PROVE FALSE
    OBVIOUS
  <2>2. y0 \in Places /\ y0 # x0
    BY DEF Moved
  <2>3. There(H, y0, m)
    BY <1>2, <2>1, <2>2, MovedThere
  <2> QED
    BY <1>1, <1>2, <1>3, <2>2, <2>3, OneThere, ZenonT(30)
<1>8. ~Underway(G, m)
  BY <1>5, <1>7, ZenonT(30) DEF Underway
<1>9. PlaceOf(G, m) = <<>> /\ PlaceOf(G, MaxMsg + m) \in {<<>>, <<"flight">>}
  BY <1>6, <1>8, PlaceFlight, ZenonT(30)
<1>10. \A k \in Messages : k # m /\ k # MaxMsg + m => PlaceOf(G, k) = PlaceOf(H, k)
  BY <1>1, OthersStay
<1> QED
  BY <1>2, <1>4, <1>9, <1>10, ZenonT(30)

ReplyMade(H, G, h, y0, z, u, m) ==
  /\ y0[1] # "app" /\ Moved(H, G, <<"app", h>>, y0, z, u) /\ Whole(H, G, <<"app", h>>, z)
  /\ ident("app", z) = m /\ ident(y0[1], u) = MaxMsg + m

ReplyPlaced(H, G, h, m) ==
  /\ m \in Messages /\ MaxMsg + m \in Messages /\ m # MaxMsg + m
  /\ PlaceOf(H, m) = h /\ PlaceOf(G, m) = <<>>
  /\ PlaceOf(G, MaxMsg + m) \in {<<>>, <<"flight">>}
  /\ \A k \in Messages : k # m /\ k # MaxMsg + m => PlaceOf(G, k) = PlaceOf(H, k)

LEMMA AnswerPlaced ==
  ASSUME NEW H, NEW q, OneAt(H, q), NEW G, NEW q2, OneAt(G, q2),
         NEW h \in Node \X Path, NEW m \in 1 .. MaxMsg, NEW y0, NEW z, NEW u,
         ReplyMade(H, G, h, y0, z, u, m)
  PROVE  ReplyPlaced(H, G, h, m)
BY AnswerPlace DEF ReplyMade, ReplyPlaced

\* A client sends a request, or loses it.
LEMMA AskPlace ==
  ASSUME NEW H, NEW q \in Nat, OneAt(H, q), q < MaxMsg, NEW G, NEW y0, y0[1] # "app", NEW u,
         Came(H, G, y0, u), ident(y0[1], u) = q + 1,
         \A x \in Places : \A v \in Vals(H[x]) : v \in Vals(G[x])
  PROVE  /\ q + 1 \in Messages
         /\ PlaceOf(G, q + 1) \in {<<>>, <<"flight">>}
         /\ \A k \in Messages : k # q + 1 => PlaceOf(G, k) = PlaceOf(H, k)
<1>1. q + 1 \in 1 .. MaxMsg /\ q + 1 \in Messages
  BY NumberAssumption DEF Messages
<1>2. ASSUME NEW x \in Places, NEW k \in Messages, There(G, x, k)
      PROVE  There(H, x, k) \/ (x = y0 /\ k = q + 1)
  <2>1. PICK v \in Vals(G[x]) : ident(x[1], v) = k
    BY <1>2, ZenonT(30) DEF There
  <2>2. v \in Vals(H[x]) \/ Control(x[1], v) \/ (x = y0 /\ v = u)
    BY <2>1, ZenonT(30) DEF Came, With, Thin
  <2> QED
    BY <2>1, <2>2, ControlIdent, ZenonT(30) DEF There
<1>3. ASSUME NEW x \in Places PROVE ~There(H, x, q + 1)
  <2>1. SUFFICES ASSUME There(H, x, q + 1) PROVE FALSE
    OBVIOUS
  <2>2. PICK v \in Vals(H[x]) : ident(x[1], v) = q + 1
    BY <2>1, ZenonT(30) DEF There
  <2>3. q + 1 \in token(x[1], v)
    BY <1>1, <2>2, ZenonT(30) DEF token
  <2>4. Carried(x[1], v, q)
    BY <2>3, ControlToken, ZenonT(30) DEF OneAt
  <2>5. q + 1 <= q
    BY <2>3, <2>4, ZenonT(30) DEF Carried
  <2> QED
    BY <2>5
<1>4. InApp(G, q + 1) = {}
  <2>1. ASSUME NEW g \in InApp(G, q + 1) PROVE FALSE
    <3>1. g \in Node \X Path /\ There(G, <<"app", g>>, q + 1)
      BY DEF InApp
    <3>2. <<"app", g>> \in Places /\ <<"app", g>> # y0
      BY <3>1, AppPlace, ZenonT(30)
    <3> QED
      BY <1>1, <1>2, <1>3, <3>1, <3>2, ZenonT(30)
  <2> QED
    BY <2>1, ZenonT(30)
<1>5. PlaceOf(G, q + 1) \in {<<>>, <<"flight">>}
  BY <1>4, PlaceFlight, ZenonT(30)
<1>6. ASSUME NEW k \in Messages, k # q + 1 PROVE PlaceOf(G, k) = PlaceOf(H, k)
  <2>1. ASSUME NEW x \in Places PROVE There(G, x, k) <=> There(H, x, k)
    <3>1. There(G, x, k) => There(H, x, k)
      BY <1>2, <1>6, ZenonT(30)
    <3>2. There(H, x, k) => There(G, x, k)
      BY ZenonT(30) DEF There
    <3> QED
      BY <3>1, <3>2, ZenonT(30)
  <2>2. InApp(G, k) = InApp(H, k)
    BY <2>1, AppPlace, ZenonT(30) DEF InApp
  <2>3. Underway(G, k) <=> Underway(H, k)
    BY <2>1, ZenonT(30) DEF Underway
  <2> QED
    BY <2>2, <2>3 DEF PlaceOf
<1> QED
  BY <1>1, <1>5, <1>6, ZenonT(30)
-----------------------------------------------------------------------------
(* The steps that deliver and send lose nothing but what they take. *)

LEMMA TailWhole ==
  ASSUME NEW S, NEW s \in Seq(S), s # <<>>, NEW v \in Vals(s)
  PROVE  v \in Vals(Tail(s)) \/ v = Head(s)
<1>1. PICK i \in DOMAIN s : v = s[i]
  BY DEF Vals
<1>2. i \in 1 .. Len(s) /\ Len(s) \in Nat /\ Len(Tail(s)) = Len(s) - 1
      /\ DOMAIN Tail(s) = 1 .. Len(Tail(s))
  BY SeqHeadTail
<1>3. CASE i = 1
  BY <1>1, <1>3
<1>4. CASE i # 1
  <2>1. i - 1 \in DOMAIN Tail(s) /\ Tail(s)[i - 1] = s[i]
    BY <1>2, <1>4
  <2> QED
    BY <1>1, <2>1, ZenonT(30) DEF Vals
<1> QED
  BY <1>3, <1>4, ZenonT(30)

LEMMA AppendWhole ==
  ASSUME NEW S, NEW s \in Seq(S), NEW z \in S
  PROVE  /\ \A v \in Vals(s) : v \in Vals(Append(s, z))
         /\ z \in Vals(Append(s, z))
<1>1. /\ DOMAIN s = 1 .. Len(s) /\ Len(s) \in Nat
      /\ DOMAIN Append(s, z) = 1 .. (Len(s) + 1)
      /\ \A i \in 1 .. Len(s) : Append(s, z)[i] = s[i]
      /\ Append(s, z)[Len(s) + 1] = z
  OBVIOUS
<1>2. ASSUME NEW v \in Vals(s) PROVE v \in Vals(Append(s, z))
  <2>1. PICK i \in DOMAIN s : v = s[i]
    BY DEF Vals
  <2>2. i \in DOMAIN Append(s, z) /\ Append(s, z)[i] = v
    BY <1>1, <2>1
  <2> QED
    BY <2>2, ZenonT(30) DEF Vals
<1>3. Len(s) + 1 \in DOMAIN Append(s, z)
  BY <1>1
<1> QED
  BY <1>1, <1>2, <1>3, ZenonT(30) DEF Vals

\* The contents of s are in t, except for z if it goes from here.
Keeps(s, t, goes, z) == \A v \in Vals(s) : v \in Vals(t) \/ (goes /\ v = z)

LEMMA WholeFrom ==
  ASSUME NEW x0, NEW z,
         \A n \in Node : Keeps(proc_q[n], proc_q'[n], <<"proc", n>> = x0, z),
         \A n \in Node : Keeps(pending[n], pending'[n], <<"park", n>> = x0, z),
         \A l \in Link : Keeps(chan[l], chan'[l], <<"wire", l>> = x0, z),
         \A n \in Node, p \in Path : Keeps(app_q[n][p], app_q'[n][p], <<"app", <<n, p>>>> = x0, z)
  PROVE  Whole(Held, Held', x0, z)
<1> SUFFICES ASSUME NEW x \in Places PROVE Keeps(Held[x], Held'[x], x = x0, z)
  BY ZenonT(30) DEF Whole, Keeps
<1>1. ASSUME NEW n \in Node, x = <<"proc", n>> PROVE Keeps(Held[x], Held'[x], x = x0, z)
  BY <1>1, HeldIs, HeldIsNext, ZenonT(30)
<1>2. ASSUME NEW n \in Node, x = <<"park", n>> PROVE Keeps(Held[x], Held'[x], x = x0, z)
  BY <1>2, HeldIs, HeldIsNext, ZenonT(30)
<1>3. ASSUME NEW l \in Link, x = <<"wire", l>> PROVE Keeps(Held[x], Held'[x], x = x0, z)
  BY <1>3, HeldIs, HeldIsNext, ZenonT(30)
<1>4. ASSUME NEW n \in Node, NEW p \in Path, x = <<"app", <<n, p>>>>
      PROVE  Keeps(Held[x], Held'[x], x = x0, z)
  BY <1>4, HeldIs, HeldIsNext, ZenonT(30)
<1> QED
  BY <1>1, <1>2, <1>3, <1>4, PlacesFacts, ZenonT(30)

LEMMA SameKeeps ==
  ASSUME NEW s, NEW goes, NEW z
  PROVE  Keeps(s, s, goes, z)
BY ZenonT(30) DEF Keeps

\* Delivery to one path.
LEMMA DeliverKeeps ==
  ASSUME TypeOK, NEW n \in Node, NEW p \in Path, NEW m \in Delivery, app_q' = deliver(n, {p}, m)
  PROVE  /\ \A k \in Node, r \in Path : \A x0, z :
              Keeps(app_q[k][r], app_q'[k][r], <<"app", <<k, r>>>> = x0, z)
         /\ m \in Vals(Held'[<<"app", <<n, p>>>>])
<1>1. app_q \in [Node -> [Path -> Seq(Delivery)]]
  BY DEF TypeOK
<1>2. app_q' = [app_q EXCEPT ![n] = [r \in Path |-> IF r \in {p} THEN Append(app_q[n][r], m)
                                                               ELSE app_q[n][r]]]
  BY DEF deliver
<1>3. app_q'[n][p] = Append(app_q[n][p], m) /\ app_q[n][p] \in Seq(Delivery)
  BY <1>1, <1>2, ZenonT(30)
<1>4. \A v \in Vals(app_q[n][p]) : v \in Vals(app_q'[n][p])
  BY <1>3, AppendWhole, ZenonT(30)
<1>5. m \in Vals(app_q'[n][p])
  BY <1>3, AppendWhole, ZenonT(30)
<1>6. ASSUME NEW k \in Node, NEW r \in Path, k # n \/ r # p
      PROVE  app_q'[k][r] = app_q[k][r]
  <2>1. CASE k # n
    BY <1>1, <1>2, <2>1, ZenonT(30)
  <2>2. CASE k = n /\ r # p
    <3>1. app_q'[n] = [q \in Path |-> IF q \in {p} THEN Append(app_q[n][q], m) ELSE app_q[n][q]]
      BY <1>1, <1>2, ZenonT(30)
    <3> QED
      BY <2>2, <3>1, ZenonT(30)
  <2> QED
    BY <1>6, <2>1, <2>2, ZenonT(30)
<1>7. ASSUME NEW k \in Node, NEW r \in Path
      PROVE  \A v \in Vals(app_q[k][r]) : v \in Vals(app_q'[k][r])
  BY <1>4, <1>6, ZenonT(30)
<1> QED
  BY <1>5, <1>7, HeldIsNext, ZenonT(30) DEF Keeps

LEMMA PeerTakesOne ==
  ASSUME TypeOK, NEW n \in Node, PeerMsg(n), NEW k \in Node
  PROVE  Keeps(proc_q[k], proc_q'[k], <<"proc", k>> = <<"proc", n>>, Head(proc_q[n]))
<1>1. proc_q \in [Node -> Seq(Request)] /\ proc_q[n] # <<>>
      /\ proc_q' = [proc_q EXCEPT ![n] = Tail(@)]
  BY DEF TypeOK, PeerMsg
<1>2. CASE k = n
  <2>1. proc_q'[n] = Tail(proc_q[n]) /\ proc_q[n] \in Seq(Request)
    BY <1>1, ZenonT(30)
  <2> QED
    BY <1>1, <1>2, <2>1, TailWhole, ZenonT(30) DEF Keeps
<1>3. CASE k # n
  <2>1. proc_q'[k] = proc_q[k]
    BY <1>1, <1>3, ZenonT(30)
  <2> QED
    BY <2>1, SameKeeps, ZenonT(30)
<1> QED
  BY <1>2, <1>3, ZenonT(30)

LEMMA EtherTakesOne ==
  ASSUME IInv, NEW l \in Link, chan[l] # <<>>, chan' = Sent({l}, <<>>), NEW k \in Link
  PROVE  Keeps(chan[k], chan'[k], <<"wire", k>> = <<"wire", l>>, Head(chan[l]))
<1>1. DOMAIN <<>> = {}
  OBVIOUS
<1>2. chan'[k] = Rest({l}, k)
  BY <1>1, SentLinks, ZenonT(30)
<1>3. CASE k = l
  <2>1. chan'[l] = Tail(chan[l]) /\ chan[l] \in Seq(WireFrame)
    BY <1>2, <1>3, ZenonT(30) DEF Rest, IInv
  <2> QED
    BY <1>3, <2>1, TailWhole, ZenonT(30) DEF Keeps
<1>4. CASE k # l
  <2>1. chan'[k] = chan[k]
    BY <1>2, <1>4, ZenonT(30) DEF Rest
  <2> QED
    BY <2>1, SameKeeps, ZenonT(30)
<1> QED
  BY <1>3, <1>4, ZenonT(30)

LEMMA SendKeeps ==
  ASSUME TypeOK, NEW n \in Node, NEW r \in Request, msg_send(n, r), NEW k \in Node, NEW x0, NEW z
  PROVE  Keeps(proc_q[k], proc_q'[k], <<"proc", k>> = x0, z)
<1>1. proc_q \in [Node -> Seq(Request)]
      /\ proc_q' = [proc_q EXCEPT ![n] = IF up[n] THEN Append(@, r) ELSE @]
  BY DEF TypeOK, msg_send
<1>2. proc_q'[k] = proc_q[k] \/ proc_q'[k] = Append(proc_q[k], r)
  BY <1>1, ZenonT(30)
<1>3. proc_q[k] \in Seq(Request)
  BY <1>1, ZenonT(30)
<1> QED
  BY <1>2, <1>3, AppendWhole, ZenonT(30) DEF Keeps
-----------------------------------------------------------------------------
(* The four kinds of steps of the service, over the contents of the places. *)

To(m, qs) == IF m <= MaxMsg THEN <<qs[m].dest, ServPath>>
                            ELSE <<qs[m - MaxMsg].node, qs[m - MaxMsg].path>>

Vanished(H, G) ==
  \A k \in Messages : PlaceOf(G, k) = PlaceOf(H, k) \/ PlaceOf(G, k) = <<>>
Arrived(H, G, m, qs) ==
  /\ PlaceOf(H, m) = <<"flight">> /\ PlaceOf(G, m) = To(m, qs)
  /\ \A k \in Messages : k # m => PlaceOf(G, k) = PlaceOf(H, k)
Replied(H, G, m) ==
  /\ m <= MaxMsg /\ MaxMsg + m \in Messages /\ m # MaxMsg + m
  /\ PlaceOf(H, m) \notin {<<>>, <<"flight">>} /\ PlaceOf(G, m) = <<>>
  /\ PlaceOf(G, MaxMsg + m) \in {<<>>, <<"flight">>}
  /\ \A k \in Messages : k # m /\ k # MaxMsg + m => PlaceOf(G, k) = PlaceOf(H, k)
Posted(H, G, m) ==
  /\ m \in Messages /\ PlaceOf(G, m) \in {<<>>, <<"flight">>}
  /\ \A k \in Messages : k # m => PlaceOf(G, k) = PlaceOf(H, k)

\* What is known after a step.
Known == /\ RInv /\ Len(asked) <= MaxMsg
         /\ OneAt(Held', Len(asked'))
         /\ Fine(Held', asked', port_spath')

LEMMA KnownFacts ==
  ASSUME Known
  PROVE  /\ IInv /\ MInv /\ TypeOK /\ asked \in Seq(Want) /\ Len(asked) \in Nat
         /\ OneAt(Held, Len(asked))
BY DEF Known, RInv, MInv, IInv, TypeOK

\* A datagram on a socket is on the socket it is for.
LEMMA Addressed ==
  ASSUME NEW qs \in Seq(Want), Len(qs) <= MaxMsg, NEW pt, NEW n \in Node, NEW p \in Path,
         NEW v, v.msg \in Nat, Good(<<"app", <<n, p>>>>, v, qs, pt)
  PROVE  v.msg \in Messages /\ To(v.msg, qs) = <<n, p>>
<1> DEFINE m == v.msg
<1>1. DOMAIN qs = 1 .. Len(qs) /\ Len(qs) \in Nat /\ MaxMsg \in Nat /\ m \in Nat
  BY NumberAssumption
<1>2. AskGot(n, p, v, qs, pt) \/ ReplyGot(n, p, v, qs)
  BY GoodApp, ZenonT(30)
<1>3. CASE AskGot(n, p, v, qs, pt)
  <2>1. p = ServPath /\ m \in DOMAIN qs /\ qs[m].dest = n
    BY <1>3, ZenonT(30) DEF AskGot
  <2> HIDE DEF m
  <2>2. m \in Messages /\ m <= MaxMsg
    BY <1>1, <2>1 DEF Messages
  <2>3. To(m, qs) = <<n, p>>
    BY <2>1, <2>2, ZenonT(30) DEF To
  <2> QED
    BY <2>2, <2>3, ZenonT(30) DEF m
<1>4. CASE ReplyGot(n, p, v, qs)
  <2>1. m - MaxMsg \in DOMAIN qs /\ qs[m - MaxMsg].node = n /\ qs[m - MaxMsg].path = p
    BY <1>4, ZenonT(30) DEF ReplyGot
  <2> HIDE DEF m
  <2>2. m \in Messages /\ ~(m <= MaxMsg)
    BY <1>1, <2>1 DEF Messages
  <2>3. To(m, qs) = <<n, p>>
    BY <2>1, <2>2, ZenonT(30) DEF To
  <2> QED
    BY <2>2, <2>3, ZenonT(30) DEF m
<1> QED
  BY <1>2, <1>3, <1>4, ZenonT(30)

LEMMA ArriveStep ==
  ASSUME Known, asked' = asked, NEW x0, x0[1] # "app", NEW n \in Node, NEW p \in Path,
         NEW z, NEW u \in Delivery, Moved(Held, Held', x0, <<"app", <<n, p>>>>, z, u),
         Whole(Held, Held', x0, z), u \in Vals(Held'[<<"app", <<n, p>>>>]),
         ident(x0[1], z) = u.msg
  PROVE  \E m \in Messages : Arrived(Held, Held', m, asked)
<1> DEFINE h == <<n, p>>
<1>1. h \in Node \X Path /\ <<"app", h>> \in Places /\ <<"app", h>>[1] = "app" /\ u.msg \in Nat
  BY AppPlace, ZenonT(30) DEF Delivery
<1>2. ~Control("app", u) /\ ident("app", u) = u.msg
  BY ZenonT(30) DEF Control, ident
<1>3. Good(<<"app", h>>, u, asked', port_spath')
  BY <1>1, <1>2, ZenonT(30) DEF Known, Fine
<1>4. u.msg \in Messages /\ To(u.msg, asked) = h
  BY <1>1, <1>3, KnownFacts, Addressed DEF Known
<1> HIDE DEF h
<1>5. Moved(Held, Held', x0, <<"app", h>>, z, u) /\ u \in Vals(Held'[<<"app", h>>])
  BY ZenonT(30) DEF h
<1>6. /\ PlaceOf(Held, u.msg) = <<"flight">> /\ PlaceOf(Held', u.msg) = h
      /\ \A k \in Messages : k # u.msg => PlaceOf(Held', k) = PlaceOf(Held, k)
  <2>1. OneAt(Held, Len(asked)) /\ OneAt(Held', Len(asked'))
    BY KnownFacts DEF Known
  <2> QED
    BY <1>1, <1>2, <1>4, <1>5, <2>1, ArrivePlace
<1> QED
  BY <1>4, <1>6, ZenonT(30) DEF Arrived

LEMMA VanishStep ==
  ASSUME Known, Quiet(Held, Held')
  PROVE  Vanished(Held, Held')
<1>1. OneAt(Held, Len(asked)) /\ OneAt(Held', Len(asked'))
  BY KnownFacts, ZenonT(30) DEF Known
<1> QED
  BY <1>1, QuietPlace, ZenonT(30) DEF Vanished
\* handle_peer_msg delivers a message, passes it on, or loses it.
LEMMA PeerStep ==
  ASSUME Known, NEW n \in Node, HandlePeerMsg(n)
  PROVE  /\ asked' = asked
         /\ \/ Vanished(Held, Held')
            \/ \E m \in Messages : Arrived(Held, Held', m, asked)
<1> DEFINE r == Head(proc_q[n])
<1>1. IInv /\ MInv /\ TypeOK /\ PeerMsg(n) /\ r \in Request
  BY KnownFacts, PeerType, ZenonT(30) DEF HandlePeerMsg, PeerLocal, PeerDiscover, PeerSend
<1>2. asked' = asked
  BY <1>1, PeerOne, ZenonT(30)
<1>3. r.filename \in Path
  BY <1>1, ZenonT(30) DEF Request
<1>4. ident("proc", r) = r.msg
  BY DEF ident
<1>5. ASSUME Still(Held, Held') PROVE Vanished(Held, Held')
  BY <1>5, StillQuiet, VanishStep, ZenonT(30)
<1>6. CASE PeerLocal(n)
  <2>1. ASSUME NEW port \in Ports(n), NEW p \in Path, LocalDatagram(n, port) \in Delivery,
               app_q' = deliver(n, {p}, LocalDatagram(n, port)),
               Moved(Held, Held', <<"proc", n>>, <<"app", <<n, p>>>>, r, LocalDatagram(n, port))
        PROVE  \E m \in Messages : Arrived(Held, Held', m, asked)
    <3> DEFINE u == LocalDatagram(n, port)
    <3>1. u.msg = r.msg /\ <<"proc", n>>[1] = "proc"
      BY ZenonT(30) DEF LocalDatagram
    <3>2. pending' = pending /\ chan' = chan
      BY <1>6, ZenonT(30) DEF PeerLocal
    <3> HIDE DEF u, r
    <3>3. /\ \A k \in Node, q \in Path :
               Keeps(app_q[k][q], app_q'[k][q], <<"app", <<k, q>>>> = <<"proc", n>>, r)
          /\ u \in Vals(Held'[<<"app", <<n, p>>>>])
      BY <1>1, <2>1, DeliverKeeps, ZenonT(30) DEF u
    <3>4. \A k \in Node : Keeps(proc_q[k], proc_q'[k], <<"proc", k>> = <<"proc", n>>, r)
      BY <1>1, PeerTakesOne, ZenonT(30) DEF r
    <3>5. Whole(Held, Held', <<"proc", n>>, r)
      BY <3>2, <3>3, <3>4, SameKeeps, WholeFrom, ZenonT(30)
    <3>6. u \in Delivery /\ Moved(Held, Held', <<"proc", n>>, <<"app", <<n, p>>>>, r, u)
      BY <2>1, ZenonT(30) DEF u, r
    <3> QED
      BY <1>2, <1>4, <3>1, <3>3, <3>5, <3>6, ArriveStep, ZenonT(30)
  <2> QED
    BY <1>1, <1>2, <1>5, <1>6, <2>1, PeerLocalEffect, ZenonT(30)
<1>7. CASE PeerDiscover(n)
  <2>1. PICK port \in Ports(n) :
           /\ fetch_entry_path(n, r.filename, port)
           /\ Moved(Held, Held', <<"proc", n>>, <<"park", n>>, r, Parked(n, port))
    BY <1>1, <1>7, PeerDiscoverEffect, ZenonT(30)
  <2>2. port \in Int /\ r.destip # n
    BY <1>1, <1>3, <1>7, <2>1, FetchPathType, ZenonT(30) DEF PeerDiscover
  <2>3. ident("park", Parked(n, port)) = r.msg
    BY <1>1, <2>2, ParkedIs, ZenonT(30) DEF ident
  <2> HIDE DEF r
  <2>4. <<"proc", n>>[1] = "proc" /\ <<"park", n>>[1] = "park"
    OBVIOUS
  <2>5. Quiet(Held, Held')
    BY <1>4, <2>1, <2>3, <2>4, MovedQuiet, ZenonT(30)
  <2> QED
    BY <1>2, <2>5, VanishStep, ZenonT(30)
<1>8. CASE PeerSend(n)
  <2>1. PICK port \in Ports(n), e \in Entry, k \in Link :
           /\ fetch_entry_path(n, r.filename, port)
           /\ r.route_disc_flag # 1
           /\ Moved(Held, Held', <<"proc", n>>, <<"wire", k>>, r, Dispatched(n, e, port))
    BY <1>1, <1>8, PeerSendEffect, ZenonT(30)
  <2>2. port \in Int /\ r.destip # n
    BY <1>1, <1>3, <1>8, <2>1, FetchPathType, ZenonT(30) DEF PeerSend
  <2>3. ident("wire", Dispatched(n, e, port)) = r.msg
    <3>1. MaySend(n, e, port)
      BY <1>1, <2>1, <2>2, ZenonT(30) DEF MaySend
    <3>2. Dispatch(n, e, port)
      BY <3>1, DispatchedIs, ZenonT(30)
    <3> QED
      BY <3>2, Idents, ZenonT(30) DEF Dispatch
  <2> HIDE DEF r
  <2>4. <<"proc", n>>[1] = "proc" /\ <<"wire", k>>[1] = "wire"
    OBVIOUS
  <2>5. Quiet(Held, Held')
    BY <1>4, <2>1, <2>3, <2>4, MovedQuiet, ZenonT(30)
  <2> QED
    BY <1>2, <2>5, VanishStep, ZenonT(30)
<1> QED
  BY <1>6, <1>7, <1>8, ZenonT(30) DEF HandlePeerMsg

\* So does handle_ethernet_msg.
LEMMA EtherStep ==
  ASSUME Known, NEW l \in Link, HandleEthernetMsg(l)
  PROVE  /\ asked' = asked
         /\ \/ Vanished(Held, Held')
            \/ \E m \in Messages : Arrived(Held, Held', m, asked)
<1>1. IInv /\ MInv /\ TypeOK /\ l.to \in Node
  BY KnownFacts, LinkFacts, ZenonT(30)
<1>2. asked' = asked
  BY <1>1, EtherMoves, ZenonT(30)
<1>3. ASSUME Still(Held, Held') PROVE Vanished(Held, Held')
  BY <1>3, StillQuiet, VanishStep, ZenonT(30)
<1>4. <<"wire", l>>[1] = "wire" /\ <<"park", l.to>>[1] = "park"
      /\ \A k \in Link : <<"wire", k>>[1] = "wire"
  OBVIOUS
<1>5. CASE \/ IgnoreDuplicate(l) \/ RreqAtDest(l) \/ RreqFromTable(l) \/ RreqFlood(l)
           \/ RrepUnused(l) \/ RrepForward(l) \/ RrepPark(l) \/ Asent(l)
  <2>1. Still(Held, Held')
    BY <1>1, <1>5, TakenEffect, RreqAtDestEffect, RreqFromTableEffect, RreqFloodEffect,
       RrepForwardEffect, RrepParkEffect, AsentEffect
  <2> QED
    BY <1>2, <1>3, <2>1, ZenonT(30)
<1>6. CASE RrepAtDest(l)
  <2>1. ASSUME NEW i \in DOMAIN pending[l.to], NEW k \in Link,
               pending[l.to][i].frame_type = "DATA",
               Moved(Held, Held', <<"park", l.to>>, <<"wire", k>>, pending[l.to][i],
                     convert_host_net_order(pending[l.to][i]))
        PROVE  Vanished(Held, Held')
    <3> DEFINE f == pending[l.to][i]
    <3>1. f \in ParkedFrame
      BY <1>1, <2>1, UnparkType, ZenonT(30)
    <3> HIDE DEF f
    <3>2. f \in HostFrame
      BY <3>1, ParkedIsHost, ZenonT(30)
    <3>3. ident("wire", convert_host_net_order(f)) = ident("park", f)
      BY <3>2, ZenonT(30) DEF convert_host_net_order, SwapOrder, HostFrame, Frame, ident
    <3>4. Moved(Held, Held', <<"park", l.to>>, <<"wire", k>>, f, convert_host_net_order(f))
      BY <2>1, ZenonT(30) DEF f
    <3>5. Quiet(Held, Held')
      BY <1>4, <3>3, <3>4, MovedQuiet, ZenonT(30)
    <3> QED
      BY <3>5, VanishStep, ZenonT(30)
  <2> QED
    BY <1>1, <1>2, <1>3, <1>6, <2>1, RrepAtDestEffect, ZenonT(30)
<1>7. ASSUME Receive(l), Recvd(l).frame_type = "DATA"
      PROVE  ident("wire", Head(chan[l])) = Recvd(l).payload
  BY <1>1, <1>7, RecvdIs, ZenonT(30) DEF ident
<1>8. CASE DataAtDest(l)
  <2>1. Receive(l) /\ Recvd(l).frame_type = "DATA"
    BY <1>1, <1>8, DataAtDestEffect, ZenonT(30)
  <2>2. ASSUME NEW p \in Path, EtherDatagram(l) \in Delivery,
               app_q' = deliver(l.to, {p}, EtherDatagram(l)),
               Moved(Held, Held', <<"wire", l>>, <<"app", <<l.to, p>>>>, Head(chan[l]),
                     EtherDatagram(l))
        PROVE  \E m \in Messages : Arrived(Held, Held', m, asked)
    <3> DEFINE u == EtherDatagram(l)
               z == Head(chan[l])
    <3>1. u.msg = Recvd(l).payload
      BY DEF EtherDatagram
    <3>2. pending' = pending /\ proc_q' = proc_q /\ chan' = Sent({l}, <<>>) /\ chan[l] # <<>>
      BY <1>8, <2>1, ZenonT(30) DEF DataAtDest, Receive
    <3>3. ident("wire", z) = u.msg
      BY <1>7, <2>1, <3>1, ZenonT(30)
    <3> HIDE DEF u, z
    <3>4. /\ \A k \in Node, q \in Path :
               Keeps(app_q[k][q], app_q'[k][q], <<"app", <<k, q>>>> = <<"wire", l>>, z)
          /\ u \in Vals(Held'[<<"app", <<l.to, p>>>>])
      BY <1>1, <2>2, DeliverKeeps, ZenonT(30) DEF u
    <3>5. \A k \in Link : Keeps(chan[k], chan'[k], <<"wire", k>> = <<"wire", l>>, z)
      BY <1>1, <3>2, EtherTakesOne, ZenonT(30) DEF z
    <3>6. Whole(Held, Held', <<"wire", l>>, z)
      BY <3>2, <3>4, <3>5, SameKeeps, WholeFrom, ZenonT(30)
    <3>7. u \in Delivery /\ Moved(Held, Held', <<"wire", l>>, <<"app", <<l.to, p>>>>, z, u)
      BY <2>2, ZenonT(30) DEF u, z
    <3> QED
      BY <1>1, <1>2, <1>4, <3>3, <3>4, <3>6, <3>7, ArriveStep, ZenonT(30)
  <2> QED
    BY <1>1, <1>2, <1>3, <1>8, <2>2, DataAtDestEffect, ZenonT(30)
<1>9. CASE DataForward(l)
  <2>1. PICK k \in Link :
          Moved(Held, Held', <<"wire", l>>, <<"wire", k>>, Head(chan[l]), Forwarded(l))
    BY <1>1, <1>9, DataForwardEffect, ZenonT(30)
  <2>2. Receive(l) /\ Recvd(l).frame_type = "DATA"
    BY <1>1, <1>9, DataForwardEffect, ZenonT(30)
  <2>3. ident("wire", Forwarded(l)) = ident("wire", Head(chan[l]))
    BY <1>1, <1>7, <2>2, ForwardedIs, ZenonT(30) DEF ident
  <2>4. Quiet(Held, Held')
    BY <1>4, <2>1, <2>3, MovedQuiet, ZenonT(30)
  <2> QED
    BY <1>2, <2>4, VanishStep, ZenonT(30)
<1>10. CASE DataPark(l)
  <2>1. /\ Moved(Held, Held', <<"wire", l>>, <<"park", l.to>>, Head(chan[l]), Recvd(l))
        /\ Receive(l) /\ Recvd(l).frame_type = "DATA"
    BY <1>1, <1>10, DataParkEffect, ZenonT(30)
  <2>2. ident("park", Recvd(l)) = Recvd(l).payload
    BY ZenonT(30) DEF ident
  <2>3. Quiet(Held, Held')
    BY <1>4, <1>7, <2>1, <2>2, MovedQuiet, ZenonT(30)
  <2> QED
    BY <1>2, <2>3, VanishStep, ZenonT(30)
<1> QED
  BY <1>5, <1>6, <1>8, <1>9, <1>10, ZenonT(30) DEF HandleEthernetMsg
\* A server's round answers one request.
LEMMA ServerStep ==
  ASSUME Known, NEW n \in Node, ServerReply(n)
  PROVE  asked' = asked /\ \E m \in Messages : Replied(Held, Held', m)
<1> DEFINE v == Head(app_q[n][ServPath])
           h == <<n, ServPath>>
           x == <<"app", <<n, ServPath>>>>
<1>1. IInv /\ TypeOK /\ OneAt(Held, Len(asked)) /\ OneAt(Held', Len(asked'))
      /\ asked \in Seq(Want) /\ Len(asked) <= MaxMsg
  BY KnownFacts, ZenonT(30) DEF Known
<1>2. asked' = asked
  BY ZenonT(30) DEF ServerReply
<1>3. v \in Delivery /\ v \in Vals(app_q[n][ServPath])
      /\ Moved(Held, Held', x, <<"proc", n>>, v, Answer(n))
  BY <1>1, ServerReplyEffect, ZenonT(30)
<1>4. ident("app", v) = v.msg /\ ident("proc", Answer(n)) = MaxMsg + v.msg /\ ~Control("app", v)
  BY ZenonT(30) DEF ident, Answer, Control
<1>5. x \in Places /\ v \in Vals(Held[x]) /\ x[1] = "app" /\ ServPath \in Path
      /\ h \in Node \X Path /\ <<"proc", n>>[1] = "proc"
  BY <1>3, HeldIs, PlacesFacts, ZenonT(30) DEF Path
<1>6. v.msg \in 1 .. MaxMsg
  <2> HIDE DEF v
  <2>1. Good(x, v, asked, port_spath)
    BY <1>4, <1>5, ZenonT(30) DEF Known, RInv, Fine
  <2>2. AskGot(n, ServPath, v, asked, port_spath) \/ ReplyGot(n, ServPath, v, asked)
    BY <2>1, GoodApp, ZenonT(30)
  <2>3. ~ReplyGot(n, ServPath, v, asked)
    BY <1>1, AskedFacts, ZenonT(30) DEF ReplyGot
  <2>4. v.msg \in DOMAIN asked
    BY <2>2, <2>3, ZenonT(30) DEF AskGot
  <2> QED
    BY <1>1, <2>4, NumberAssumption
<1>7. Whole(Held, Held', x, v)
  <2>1. /\ app_q[n][ServPath] # <<>>
        /\ app_q' = [app_q EXCEPT ![n][ServPath] = Tail(@)]
        /\ app_q \in [Node -> [Path -> Seq(Delivery)]]
        /\ pending' = pending /\ chan' = chan
        /\ msg_send(n, Answer(n))
    BY <1>1, ZenonT(30) DEF ServerReply, Answer, TypeOK, memory
  <2>2. Answer(n) \in Request
    <3>1. v.src_ip \in Node /\ v.src_port \in Int /\ MaxMsg + v.msg \in Nat
      BY <1>3, DeliveryFields, ZenonT(30)
    <3>2. Answer(n) = [destip |-> v.src_ip, destport |-> v.src_port, msg |-> MaxMsg + v.msg,
                       filename |-> ServPath, route_disc_flag |-> 0]
      BY DEF Answer
    <3> HIDE DEF v
    <3> QED
      BY <1>5, <3>1, <3>2 DEF Request
  <2>3. /\ app_q'[n][ServPath] = Tail(app_q[n][ServPath])
        /\ app_q[n][ServPath] \in Seq(Delivery)
        /\ \A k \in Node, p \in Path : k # n \/ p # ServPath => app_q'[k][p] = app_q[k][p]
    BY <1>5, <2>1
  <2>4. ASSUME NEW k \in Node, NEW p \in Path
        PROVE  Keeps(app_q[k][p], app_q'[k][p], <<"app", <<k, p>>>> = x, v)
    <3>1. CASE k = n /\ p = ServPath
      BY <2>1, <2>3, <3>1, TailWhole, ZenonT(30) DEF Keeps
    <3>2. CASE k # n \/ p # ServPath
      BY <2>3, <3>2, SameKeeps, ZenonT(30)
    <3> QED
      BY <3>1, <3>2, ZenonT(30)
  <2>5. \A k \in Node : Keeps(proc_q[k], proc_q'[k], <<"proc", k>> = x, v)
    BY <1>1, <2>1, <2>2, SendKeeps, ZenonT(30)
  <2> HIDE DEF v, x
  <2> QED
    BY <2>1, <2>4, <2>5, SameKeeps, WholeFrom, ZenonT(30)
<1> HIDE DEF v, h
<1>8. Moved(Held, Held', <<"app", h>>, <<"proc", n>>, v, Answer(n))
      /\ Whole(Held, Held', <<"app", h>>, v)
  BY <1>3, <1>7, ZenonT(30) DEF h
<1>9. /\ v.msg \in Messages /\ MaxMsg + v.msg \in Messages /\ v.msg # MaxMsg + v.msg
      /\ PlaceOf(Held, v.msg) = h /\ PlaceOf(Held', v.msg) = <<>>
      /\ PlaceOf(Held', MaxMsg + v.msg) \in {<<>>, <<"flight">>}
      /\ \A k \in Messages : k # v.msg /\ k # MaxMsg + v.msg => PlaceOf(Held', k) = PlaceOf(Held, k)
  <2>1. ReplyMade(Held, Held', h, <<"proc", n>>, v, Answer(n), v.msg)
    BY <1>4, <1>5, <1>8, ZenonT(30) DEF ReplyMade
  <2>2. ReplyPlaced(Held, Held', h, v.msg)
    BY <1>1, <1>5, <1>6, <2>1, AnswerPlaced, ZenonT(30)
  <2> QED
    BY <2>2, ZenonT(30) DEF ReplyPlaced
<1>10. PlaceOf(Held, v.msg) \notin {<<>>, <<"flight">>} /\ v.msg <= MaxMsg
  BY <1>5, <1>6, <1>9, PlacesDiffer
<1> QED
  BY <1>2, <1>9, <1>10, ZenonT(30) DEF Replied

\* A client's request is a new message.
LEMMA ClientStep ==
  ASSUME Known, NEW w \in Want, ClientSend(w)
  PROVE  /\ Len(asked) < MaxMsg /\ asked' = Append(asked, w)
         /\ Posted(Held, Held', Len(asked) + 1)
<1> DEFINE y == <<"proc", w.node>>
<1>1. IInv /\ TypeOK /\ OneAt(Held, Len(asked)) /\ Len(asked) \in Nat
  BY KnownFacts, ZenonT(30)
<1>2. /\ Len(asked) < MaxMsg /\ asked' = Append(asked, w) /\ msg_send(w.node, Question(w))
      /\ pending' = pending /\ chan' = chan /\ app_q' = app_q
  BY ZenonT(30) DEF ClientSend, Question, memory
<1>3. /\ Question(w) \in Request /\ w.node \in Node
      /\ Came(Held, Held', y, Question(w))
  BY <1>1, ClientSendEffect, ZenonT(30)
<1>4. ident("proc", Question(w)) = Len(asked) + 1 /\ y[1] = "proc"
  BY DEF ident, Question
<1>5. \A k \in Node : Keeps(proc_q[k], proc_q'[k], <<"proc", k>> = NoPlace, "none")
  BY <1>1, <1>2, <1>3, SendKeeps, ZenonT(30)
<1>6. Whole(Held, Held', NoPlace, "none")
  BY <1>2, <1>5, SameKeeps, WholeFrom, ZenonT(30)
<1>7. \A x \in Places : \A v \in Vals(Held[x]) : v \in Vals(Held'[x])
  BY <1>6, NoPlaceFact, ZenonT(30) DEF Whole
<1> HIDE DEF y
<1>8. /\ Len(asked) + 1 \in Messages
      /\ PlaceOf(Held', Len(asked) + 1) \in {<<>>, <<"flight">>}
      /\ \A k \in Messages : k # Len(asked) + 1 => PlaceOf(Held', k) = PlaceOf(Held, k)
  <2>1. PICK q \in Nat : q = Len(asked)
    BY <1>1, ZenonT(30)
  <2>2. OneAt(Held, q) /\ q < MaxMsg
    BY <1>1, <1>2, <2>1, ZenonT(30)
  <2>3. y[1] # "app" /\ ident(y[1], Question(w)) = q + 1
    BY <1>4, <2>1, ZenonT(30)
  <2>4. /\ q + 1 \in Messages
        /\ PlaceOf(Held', q + 1) \in {<<>>, <<"flight">>}
        /\ \A k \in Messages : k # q + 1 => PlaceOf(Held', k) = PlaceOf(Held, k)
    BY <1>3, <1>7, <2>2, <2>3, AskPlace, ZenonT(30)
  <2> QED
    BY <2>1, <2>4, ZenonT(30)
<1> QED
  BY <1>2, <1>8, ZenonT(30) DEF Posted

\* Every step is one of the four kinds.
LEMMA NextStep ==
  ASSUME Known, [Next]_vars
  PROVE  \/ /\ asked' = asked
            /\ \/ Vanished(Held, Held')
               \/ \E m \in Messages : Arrived(Held, Held', m, asked) \/ Replied(Held, Held', m)
         \/ \E w \in Want : /\ Len(asked) < MaxMsg /\ asked' = Append(asked, w)
                            /\ Posted(Held, Held', Len(asked) + 1)
<1> DEFINE Kinds == \/ /\ asked' = asked
                       /\ \/ Vanished(Held, Held')
                          \/ \E m \in Messages : Arrived(Held, Held', m, asked)
                                                   \/ Replied(Held, Held', m)
                    \/ \E w \in Want : /\ Len(asked) < MaxMsg /\ asked' = Append(asked, w)
                                       /\ Posted(Held, Held', Len(asked) + 1)
<1>1. IInv
  BY KnownFacts, ZenonT(30)
<1>2. ASSUME Still(Held, Held'), asked' = asked PROVE Kinds
  BY <1>2, StillQuiet, VanishStep, ZenonT(30)
<1>3. ASSUME NEW n \in Node, HandlePeerMsg(n) \/ ServerReply(n) PROVE Kinds
  BY <1>3, PeerStep, ServerStep, ZenonT(30)
<1>4. ASSUME NEW l \in Link, HandleEthernetMsg(l) PROVE Kinds
  BY <1>4, EtherStep, ZenonT(30)
<1>5. ASSUME NEW l \in Link, Unheard(l) \/ Lose(l) PROVE Kinds
  <2>1. asked' = asked
    BY <1>5, ZenonT(30) DEF Unheard, Lose, apps
  <2> QED
    BY <1>1, <1>2, <1>5, <2>1, TakenEffect, ZenonT(30)
<1>6. ASSUME NEW n \in Node, Tick(n) \/ Kill(n) \/ ServerStart(n) \/ Restart(n) PROVE Kinds
  <2>1. asked' = asked
    BY <1>6, ZenonT(30) DEF Tick, Kill, ServerStart, Restart, apps
  <2> QED
    BY <1>1, <1>2, <1>6, <2>1, IdleEffect, RestartEffect, ZenonT(30)
<1>7. ASSUME NEW n \in Node, NEW p \in Path, AppExit(n, p) PROVE Kinds
  <2>1. asked' = asked
    BY <1>7, ZenonT(30) DEF AppExit
  <2> QED
    BY <1>1, <1>2, <1>7, <2>1, AppExitEffect, ZenonT(30)
<1>8. ASSUME UNCHANGED vars PROVE Kinds
  <2>1. /\ proc_q' = proc_q /\ pending' = pending /\ chan' = chan /\ app_q' = app_q
        /\ asked' = asked
    BY <1>8, ZenonT(30) DEF vars, memory, apps
  <2> QED
    BY <1>2, <2>1, QuietEther, SameThin, ZenonT(30)
<1>9. ASSUME NEW w \in Want, ClientSend(w) PROVE Kinds
  BY <1>9, ClientStep, ZenonT(30)
<1> HIDE DEF Kinds
<1>10. Kinds
  <2>1. CASE Environment
    BY <1>5, <1>6, <1>7, <1>9, <2>1, ZenonT(30) DEF Environment
  <2> QED
    BY <1>3, <1>4, <1>5, <1>8, <2>1, ZenonT(30) DEF Next
<1> QED
  BY <1>10 DEF Kinds
-----------------------------------------------------------------------------
(* The refinement mapping. *)

Where(H) == [m \in Messages |-> PlaceOf(H, m)]

LEMMA WhereMapped ==
  /\ [m \in 1 .. 2 * MaxMsg |-> Place(m)] = Where(Held)
  /\ [m \in 1 .. 2 * MaxMsg |-> Place(m)]' = Where(Held')
<1>1. [m \in 1 .. 2 * MaxMsg |-> Place(m)] = Where(Held)
  BY PlaceHeld, ZenonT(30) DEF Where, Messages
<1>2. [m \in 1 .. 2 * MaxMsg |-> Place(m)]' = [m \in 1 .. 2 * MaxMsg |-> Place(m)']
  OBVIOUS
<1>3. [m \in 1 .. 2 * MaxMsg |-> Place(m)'] = Where(Held')
  BY PlaceHeldNext, ZenonT(30) DEF Where, Messages
<1> QED
  BY <1>1, <1>2, <1>3, ZenonT(30)

\* The service's actions, with the mapped state written out.
LEMMA MappedVanish ==
  ASSUME asked' = asked,
         NEW lost \in SUBSET {m \in Messages : Where(Held)[m] # <<>>},
         Where(Held') = [m \in Messages |-> IF m \in lost THEN <<>> ELSE Where(Held)[m]]
  PROVE  Service!Vanish
BY WhereMapped, ZenonT(30) DEF Service!Vanish, Service!Msg, Service!Nowhere, Messages

LEMMA MappedArrive ==
  ASSUME asked' = asked, NEW m \in Messages, Where(Held)[m] = <<"flight">>,
         Where(Held') = [Where(Held) EXCEPT ![m] = To(m, asked)]
  PROVE  Service!Arrive(m)
BY WhereMapped, ZenonT(30) DEF Service!Arrive, Service!Flight, Service!Recipient, Service!At, To

LEMMA MappedAnswer ==
  ASSUME asked' = asked, NEW m \in Messages, m <= MaxMsg,
         Where(Held)[m] \notin {<<>>, <<"flight">>}, NEW t \in {<<>>, <<"flight">>},
         Where(Held') = [Where(Held) EXCEPT ![m] = <<>>, ![MaxMsg + m] = t]
  PROVE  Service!Answer(m)
BY WhereMapped, ZenonT(30) DEF Service!Answer, Service!Flight, Service!Nowhere

LEMMA MappedAsk ==
  ASSUME NEW w, Len(asked) < MaxMsg, asked' = Append(asked, w), NEW t \in {<<>>, <<"flight">>},
         Where(Held') = [Where(Held) EXCEPT ![Len(asked) + 1] = t]
  PROVE  Service!Ask(w)
BY WhereMapped, ZenonT(30) DEF Service!Ask, Service!Flight, Service!Nowhere
LEMMA StepMapped ==
  ASSUME Known, [Next]_vars
  PROVE  Service!Next
<1>1. CASE asked' = asked /\ Vanished(Held, Held')
  <2> DEFINE lost == {m \in Messages : Where(Held)[m] # <<>> /\ Where(Held')[m] = <<>>}
  <2>1. lost \in SUBSET {m \in Messages : Where(Held)[m] # <<>>}
    OBVIOUS
  <2>2. \A m \in Messages : Where(Held')[m] = IF m \in lost THEN <<>> ELSE Where(Held)[m]
    BY <1>1, ZenonT(30) DEF Vanished, Where
  <2>3. Where(Held') = [m \in Messages |-> IF m \in lost THEN <<>> ELSE Where(Held)[m]]
    BY <2>2, ZenonT(30) DEF Where
  <2> HIDE DEF lost
  <2>4. Service!Vanish
    BY <1>1, <2>1, <2>3, MappedVanish, ZenonT(30)
  <2> QED
    BY <2>4, ZenonT(30) DEF Service!Next
<1>2. ASSUME asked' = asked, NEW m \in Messages, Arrived(Held, Held', m, asked)
      PROVE  Service!Next
  <2>1. Where(Held)[m] = <<"flight">>
    BY <1>2, ZenonT(30) DEF Arrived, Where
  <2>2. Where(Held') = [Where(Held) EXCEPT ![m] = To(m, asked)]
    BY <1>2, ZenonT(30) DEF Arrived, Where
  <2>3. Service!Arrive(m)
    BY <1>2, <2>1, <2>2, MappedArrive, ZenonT(30)
  <2> QED
    BY <2>3, ZenonT(30) DEF Service!Next, Service!Msg, Messages
<1>3. ASSUME asked' = asked, NEW m \in Messages, Replied(Held, Held', m)
      PROVE  Service!Next
  <2>1. PICK t \in {<<>>, <<"flight">>} : t = PlaceOf(Held', MaxMsg + m)
    BY <1>3, ZenonT(30) DEF Replied
  <2>2. Where(Held)[m] \notin {<<>>, <<"flight">>} /\ m <= MaxMsg
    BY <1>3, ZenonT(30) DEF Replied, Where
  <2>3. MaxMsg + m \in Messages /\ m # MaxMsg + m
    BY <1>3, ZenonT(30) DEF Replied
  <2>4. \A k \in Messages : Where(Held')[k] = IF k = m THEN <<>>
                                              ELSE IF k = MaxMsg + m THEN t ELSE Where(Held)[k]
    BY <1>3, <2>1, <2>3, ZenonT(30) DEF Replied, Where
  <2>5. Where(Held') = [Where(Held) EXCEPT ![m] = <<>>, ![MaxMsg + m] = t]
    BY <2>3, <2>4, ZenonT(30) DEF Where
  <2>6. Service!Answer(m)
    BY <1>3, <2>2, <2>5, MappedAnswer, ZenonT(30)
  <2> QED
    BY <2>6, ZenonT(30) DEF Service!Next, Service!Msg, Messages
<1>4. ASSUME NEW w \in Want, Len(asked) < MaxMsg, asked' = Append(asked, w),
             Posted(Held, Held', Len(asked) + 1)
      PROVE  Service!Next
  <2>1. PICK t \in {<<>>, <<"flight">>} : t = PlaceOf(Held', Len(asked) + 1)
    BY <1>4, ZenonT(30) DEF Posted
  <2>2. Where(Held') = [Where(Held) EXCEPT ![Len(asked) + 1] = t]
    BY <1>4, <2>1, ZenonT(30) DEF Posted, Where
  <2>3. Service!Ask(w)
    BY <1>4, <2>1, <2>2, MappedAsk, ZenonT(30)
  <2> QED
    BY <2>3, ZenonT(30) DEF Service!Next
<1> QED
  BY <1>1, <1>2, <1>3, <1>4, NextStep, ZenonT(30)

LEMMA InitMapped == Init => Service!Init
<1> SUFFICES ASSUME Init PROVE Service!Init
  OBVIOUS
<1>1. \A x \in Places : Held[x] = <<>>
  BY InitEmpty, ZenonT(30)
<1>2. Vals(<<>>) = {}
  BY DEF Vals
<1>3. ASSUME NEW m \in Messages PROVE PlaceOf(Held, m) = <<>>
  <2>1. \A x \in Places : ~There(Held, x, m)
    BY <1>1, <1>2, ZenonT(30) DEF There
  <2>2. InApp(Held, m) = {} /\ ~Underway(Held, m)
    BY <2>1, AppPlace, ZenonT(30) DEF InApp, Underway
  <2> QED
    BY <2>2, PlaceFlight, ZenonT(30)
<1>4. Where(Held) = [m \in Messages |-> <<>>]
  BY <1>3, ZenonT(30) DEF Where
<1> QED
  BY <1>4, WhereMapped, ZenonT(30) DEF Init, Service!Init, Service!Msg, Service!Nowhere, Messages

Bounded == Len(asked) <= MaxMsg

\* The daemons implement the message service: to the applications, discovery,
\* parking and forwarding are a message that is under way, then on the socket of
\* the process it is for, or lost.
THEOREM ServiceImplemented ==
  ASSUME NoRestart, EnoughPorts
  PROVE  Spec => ServiceProvided
<1>1. Init => Bounded
  BY NumberAssumption DEF Init, Bounded
<1>2. ASSUME RInv, RInv', Bounded, [Next]_vars PROVE Known
  BY <1>2, ZenonT(30) DEF Known, RInv, MInv, Bounded
<1>3. ASSUME RInv, RInv', Bounded, [Next]_vars PROVE Bounded'
  <2>1. Known /\ asked \in Seq(Want) /\ Len(asked) \in Nat
    BY <1>2, <1>3, KnownFacts, ZenonT(30)
  <2>2. asked' = asked \/ \E w \in Want : Len(asked) < MaxMsg /\ asked' = Append(asked, w)
    BY <1>3, <2>1, NextStep, ZenonT(30)
  <2> QED
    BY <1>3, <2>1, <2>2, NumberAssumption DEF Bounded
<1>4. ASSUME RInv, RInv', Bounded, [Next]_vars PROVE [Service!Next]_(Service!vars)
  BY <1>2, <1>4, StepMapped, ZenonT(30)
<1>5. RInv /\ RInv' /\ Bounded /\ [Next]_vars => Bounded' /\ [Service!Next]_(Service!vars)
  BY <1>3, <1>4, ZenonT(30)
<1> QED
  BY <1>1, <1>5, InitMapped, MessagesFine, PTL DEF Spec, Service!Spec, ServiceProvided
=============================================================================
