---------------------------- MODULE OdrMessages ----------------------------
(***************************************************************************)
(* Where the applications' messages are, for every network, every set of   *)
(* applications and every kind of fault.                                   *)
(*                                                                         *)
(* A request and the reply to it are one token.  Every handler takes at    *)
(* most one message from one place and puts it in at most one other: each  *)
(* action's effect lemma says which, and the invariant follows from the    *)
(* effects alone.                                                          *)
(***************************************************************************)
EXTENDS OdrProofs

\* The backends tried in turn for a leaf that names none.
USE SMT, Zenon, Z3, SMTT(20)

-----------------------------------------------------------------------------
(* Messages, tokens and places. *)

\* The identity of what is in a place of some kind, and the request it is or
\* answers.
ident(kind, v) == IF kind \in {"proc", "app"} THEN v.msg ELSE v.payload
token(kind, v) == {k \in 1 .. MaxMsg : ident(kind, v) = k \/ ident(kind, v) = MaxMsg + k}

Other(kind, v, kind2, w) == \A t \in token(kind, v) : t \notin token(kind2, w)

\* The daemons' sockets, their pending queues, the links, the applications' sockets.
Places == ({"proc"} \X Node) \cup ({"park"} \X Node) \cup ({"wire"} \X Link)
            \cup ({"app"} \X (Node \X Path))

Held == [x \in Places |->
  CASE x[1] = "proc" -> proc_q[x[2]]
    [] x[1] = "park" -> pending[x[2]]
    [] x[1] = "wire" -> chan[x[2]]
    [] x[1] = "app"  -> app_q[x[2][1]][x[2][2]]]

\* A frame that carries no message.
Control(kind, v) == /\ kind \in {"park", "wire"}
                    /\ v.frame_type # "DATA" /\ v.payload = NoPayload

\* A message, of one of the first q requests.
Carried(kind, v, q) ==
  /\ ident(kind, v) \in Nat \ {0}
  /\ kind \in {"park", "wire"} => v.frame_type = "DATA"
  /\ \A t \in token(kind, v) : t <= q

\* No token twice in one place.
Single(kind, s) == \A i, j \in DOMAIN s : i # j => Other(kind, s[i], kind, s[j])

\* No token in two places.
OneAt(H, q) ==
  /\ \A x \in Places : Single(x[1], H[x])
  /\ \A x, y \in Places : x # y =>
       \A v \in Vals(H[x]), w \in Vals(H[y]) : Other(x[1], v, y[1], w)
  /\ \A x \in Places : \A v \in Vals(H[x]) : Control(x[1], v) \/ Carried(x[1], v, q)

MInv == IInv /\ OneAt(Held, Len(asked))

-----------------------------------------------------------------------------
(* What a step does to the contents of a place: nothing comes; z goes; z may *)
(* come.  Frames without a message may come and go.                          *)

Thin(kind, s, t) ==
  /\ \A v \in Vals(t) : v \in Vals(s) \/ Control(kind, v)
  /\ Single(kind, s) => Single(kind, t)

Without(kind, s, t, z) ==
  /\ Thin(kind, s, t)
  /\ z \in Vals(s)
  /\ Single(kind, s) => \A v \in Vals(t) : Other(kind, v, kind, z)

With(kind, s, t, z) ==
  /\ \A v \in Vals(t) : v \in Vals(s) \/ Control(kind, v) \/ v = z
  /\ Single(kind, s) /\ (\A v \in Vals(s) : Other(kind, v, kind, z)) => Single(kind, t)

\* Nothing comes anywhere; z goes from x0 and comes to y0 as u, or is lost.
Still(H, G) == \A x \in Places : Thin(x[1], H[x], G[x])

Moved(H, G, x0, y0, z, u) ==
  /\ x0 \in Places /\ y0 \in Places /\ x0 # y0
  /\ Without(x0[1], H[x0], G[x0], z)
  /\ With(y0[1], H[y0], G[y0], u)
  /\ \A x \in Places : x # x0 /\ x # y0 => Thin(x[1], H[x], G[x])

\* Where each kind of place keeps a message's number.
LEMMA Idents ==
  ASSUME NEW v
  PROVE  /\ ident("proc", v) = v.msg /\ ident("app", v) = v.msg
         /\ ident("park", v) = v.payload /\ ident("wire", v) = v.payload
BY DEF ident

LEMMA OtherSymmetric ==
  ASSUME NEW kind, NEW v, NEW kind2, NEW w, Other(kind, v, kind2, w)
  PROVE  Other(kind2, w, kind, v)
BY DEF Other

\* A frame without a message has no token.
LEMMA ControlToken ==
  ASSUME NEW kind, NEW v, Control(kind, v)
  PROVE  token(kind, v) = {}
<1>1. ident(kind, v) = 0 /\ MaxMsg \in Nat
  BY NumberAssumption DEF Control, ident, NoPayload
<1> QED
  BY <1>1 DEF token

LEMMA ControlOther ==
  ASSUME NEW kind, NEW v, Control(kind, v), NEW kind2, NEW w
  PROVE  Other(kind, v, kind2, w) /\ Other(kind2, w, kind, v)
BY ControlToken DEF Other

LEMMA StillOne ==
  ASSUME NEW H, NEW G, NEW q, OneAt(H, q), Still(H, G)
  PROVE  OneAt(G, q)
<1>1. \A x \in Places : Single(x[1], G[x])
  BY DEF OneAt, Still, Thin
<1>2. ASSUME NEW x \in Places, NEW y \in Places, x # y,
             NEW v \in Vals(G[x]), NEW w \in Vals(G[y])
      PROVE  Other(x[1], v, y[1], w)
  <2>1. v \in Vals(H[x]) \/ Control(x[1], v)
    BY DEF Still, Thin
  <2>2. w \in Vals(H[y]) \/ Control(y[1], w)
    BY DEF Still, Thin
  <2> QED
    BY <1>2, <2>1, <2>2, ControlOther DEF OneAt
<1>3. ASSUME NEW x \in Places, NEW v \in Vals(G[x])
      PROVE  Control(x[1], v) \/ Carried(x[1], v, q)
  BY DEF OneAt, Still, Thin
<1> QED
  BY <1>1, <1>2, <1>3 DEF OneAt

\* What comes is what went, or the reply to it.
LEMMA MovedOne ==
  ASSUME NEW H, NEW G, NEW q, OneAt(H, q), NEW x0, NEW y0, NEW z, NEW u,
         Moved(H, G, x0, y0, z, u), token(y0[1], u) \subseteq token(x0[1], z),
         Carried(y0[1], u, q)
  PROVE  OneAt(G, q)
<1>1. \A y \in Places : y # x0 => \A v \in Vals(H[y]) : Other(y[1], v, y0[1], u)
  BY DEF OneAt, Moved, Without, Other
<1>2. \A v \in Vals(G[x0]) : Other(x0[1], v, y0[1], u)
  BY DEF OneAt, Moved, Without, Other
<1>3. Single(x0[1], G[x0])
  BY DEF OneAt, Moved, Without, Thin
<1>4. Single(y0[1], G[y0])
  BY <1>1 DEF OneAt, Moved, With
<1>5. \A x \in Places : x # x0 /\ x # y0 => Single(x[1], G[x])
  BY DEF OneAt, Moved, Thin
<1>6. \A x \in Places : \A v \in Vals(G[x]) :
        v \in Vals(H[x]) \/ Control(x[1], v) \/ (x = y0 /\ v = u)
  BY DEF Moved, Without, With, Thin
<1>7. \A x \in Places : x # y0 => \A v \in Vals(G[x]) : Other(x[1], v, y0[1], u)
  BY <1>1, <1>2, <1>6, ControlOther
<1>8. ASSUME NEW x \in Places, NEW y \in Places, x # y,
             NEW v \in Vals(G[x]), NEW w \in Vals(G[y])
      PROVE  Other(x[1], v, y[1], w)
  <2>1. CASE Control(x[1], v) \/ Control(y[1], w)
    BY <2>1, ControlOther
  <2>2. CASE v \in Vals(H[x]) /\ w \in Vals(H[y])
    BY <1>8, <2>2 DEF OneAt
  <2>3. CASE y = y0 /\ w = u
    BY <1>7, <1>8, <2>3
  <2>4. CASE x = y0 /\ v = u
    BY <1>7, <1>8, <2>4, OtherSymmetric
  <2> QED
    BY <1>6, <2>1, <2>2, <2>3, <2>4
<1>9. ASSUME NEW x \in Places, NEW v \in Vals(G[x])
      PROVE  Control(x[1], v) \/ Carried(x[1], v, q)
  BY <1>6 DEF OneAt
<1> QED
  BY <1>3, <1>4, <1>5, <1>8, <1>9 DEF OneAt
-----------------------------------------------------------------------------
(* Queues. *)

LEMMA SameThin ==
  ASSUME NEW kind, NEW s
  PROVE  Thin(kind, s, s)
BY DEF Thin

LEMMA EmptyThin ==
  ASSUME NEW kind, NEW s
  PROVE  Thin(kind, s, <<>>)
BY DEF Thin, Vals, Single

LEMMA ThinWith ==
  ASSUME NEW kind, NEW s, NEW t, NEW z, Thin(kind, s, t)
  PROVE  With(kind, s, t, z)
BY DEF Thin, With

LEMMA TailWithout ==
  ASSUME NEW kind, NEW S, NEW s \in Seq(S), s # <<>>
  PROVE  Without(kind, s, Tail(s), Head(s)) /\ Thin(kind, s, Tail(s))
<1>1. /\ 1 \in DOMAIN s /\ Head(s) = s[1]
      /\ \A i \in DOMAIN Tail(s) : i \in Nat /\ i + 1 \in DOMAIN s /\ i + 1 # 1 /\ Tail(s)[i] = s[i + 1]
      /\ \A i, j \in DOMAIN Tail(s) : i # j => i + 1 # j + 1
  OBVIOUS
<1>2. \A v \in Vals(Tail(s)) : v \in Vals(s)
  BY <1>1 DEF Vals
<1>3. Single(kind, s) => Single(kind, Tail(s))
  BY <1>1 DEF Single
<1>4. Head(s) \in Vals(s)
  BY <1>1 DEF Vals
<1>5. Single(kind, s) => \A v \in Vals(Tail(s)) : Other(kind, v, kind, Head(s))
  <2> SUFFICES ASSUME Single(kind, s), NEW i \in DOMAIN Tail(s)
               PROVE  Other(kind, Tail(s)[i], kind, Head(s))
    BY DEF Vals
  <2> QED
    BY <1>1 DEF Single
<1> QED
  BY <1>2, <1>3, <1>4, <1>5 DEF Without, Thin

LEMMA AppendWith ==
  ASSUME NEW kind, NEW S, NEW s \in Seq(S), NEW z \in S
  PROVE  With(kind, s, Append(s, z), z)
<1>1. /\ DOMAIN Append(s, z) = DOMAIN s \cup {Len(s) + 1} /\ Len(s) + 1 \notin DOMAIN s
      /\ Append(s, z)[Len(s) + 1] = z
      /\ \A i \in DOMAIN s : Append(s, z)[i] = s[i]
  OBVIOUS
<1>2. \A v \in Vals(Append(s, z)) : v \in Vals(s) \/ v = z
  BY <1>1 DEF Vals
<1>3. ASSUME Single(kind, s), \A v \in Vals(s) : Other(kind, v, kind, z)
      PROVE  Single(kind, Append(s, z))
  <2> SUFFICES ASSUME NEW i \in DOMAIN Append(s, z), NEW j \in DOMAIN Append(s, z), i # j
               PROVE  Other(kind, Append(s, z)[i], kind, Append(s, z)[j])
    BY DEF Single
  <2>1. \A h \in DOMAIN s : Other(kind, s[h], kind, z) /\ Other(kind, z, kind, s[h])
    BY <1>3, OtherSymmetric DEF Vals
  <2> QED
    BY <1>1, <1>3, <2>1 DEF Single
<1> QED
  BY <1>2, <1>3 DEF With

LEMMA PrefixWith ==
  ASSUME NEW kind, NEW S, NEW s \in Seq(S), NEW z \in S
  PROVE  With(kind, s, <<z>> \o s, z)
<1> DEFINE t == <<z>> \o s
<1>1. /\ Len(s) \in Nat /\ DOMAIN s = 1 .. Len(s) /\ DOMAIN t = 1 .. (Len(s) + 1)
      /\ t[1] = z
      /\ \A i \in 2 .. (Len(s) + 1) : t[i] = s[i - 1]
  <2>1. <<z>> \in Seq(S) /\ Len(<<z>>) = 1 /\ <<z>>[1] = z
    OBVIOUS
  <2> QED
    BY <2>1, SeqConcat, SeqElements
<1> HIDE DEF t
<1>2. \A i \in DOMAIN t : i = 1 \/ (i - 1 \in DOMAIN s /\ t[i] = s[i - 1])
  BY <1>1
<1>3. \A i, j \in DOMAIN t : i # j => i - 1 # j - 1
  BY <1>1
<1>4. \A v \in Vals(t) : v \in Vals(s) \/ v = z
  BY <1>1, <1>2 DEF Vals
<1>5. ASSUME Single(kind, s), \A v \in Vals(s) : Other(kind, v, kind, z)
      PROVE  Single(kind, t)
  <2> SUFFICES ASSUME NEW i \in DOMAIN t, NEW j \in DOMAIN t, i # j
               PROVE  Other(kind, t[i], kind, t[j])
    BY DEF Single
  <2>1. \A h \in DOMAIN s : Other(kind, s[h], kind, z) /\ Other(kind, z, kind, s[h])
    BY <1>5, OtherSymmetric DEF Vals
  <2> QED
    BY <1>1, <1>2, <1>3, <1>5, <2>1 DEF Single
<1> QED
  BY <1>4, <1>5 DEF With, t

LEMMA RemoveWithout ==
  ASSUME NEW kind, NEW S, NEW s \in Seq(S), NEW i \in DOMAIN s
  PROVE  Without(kind, s, remove_pending(s, i), s[i])
<1> DEFINE t == remove_pending(s, i)
           old(j) == IF j < i THEN j ELSE j + 1
<1>1. Len(s) \in Nat /\ DOMAIN s = 1 .. Len(s) /\ i \in 1 .. Len(s)
  OBVIOUS
<1>2. /\ DOMAIN t = 1 .. (Len(s) - 1)
      /\ \A j \in 1 .. (Len(s) - 1) : t[j] = s[old(j)]
  <2> DEFINE p == SubSeq(s, 1, i - 1)
             r == SubSeq(s, i + 1, Len(s))
  <2>1. /\ p \in Seq(S) /\ Len(p) = i - 1
        /\ \A j \in 1 .. (i - 1) : p[j] = s[j]
    BY <1>1, SeqPart
  <2>2. /\ r \in Seq(S) /\ Len(r) = Len(s) - i
        /\ \A j \in 1 .. (Len(s) - i) : r[j] = s[i + j]
    BY <1>1, SeqPart
  <2>3. t = p \o r
    BY DEF remove_pending
  <2> HIDE DEF p, r, t
  <2>4. /\ Len(t) = Len(p) + Len(r)
        /\ DOMAIN t = 1 .. Len(t)
        /\ \A j \in 1 .. Len(t) : t[j] = IF j <= Len(p) THEN p[j] ELSE r[j - Len(p)]
    <3>1. p \in Seq(S) /\ r \in Seq(S)
      BY <2>1, <2>2
    <3> QED
      BY <2>3, <3>1
  <2>5. ASSUME NEW j \in 1 .. (Len(s) - 1) PROVE t[j] = s[old(j)]
    <3>1. CASE j < i
      BY <1>1, <2>1, <2>2, <2>4, <3>1
    <3>2. CASE ~(j < i)
      <4>1. t[j] = r[j - (i - 1)] /\ j - (i - 1) \in 1 .. (Len(s) - i)
        <5>1. j \in 1 .. Len(t) /\ ~(j <= Len(p)) /\ j - (i - 1) \in 1 .. (Len(s) - i)
          <6>1. Len(p) = i - 1 /\ Len(t) = (i - 1) + (Len(s) - i)
            BY <2>1, <2>2, <2>4, ZenonT(30)
          <6> QED
            BY <1>1, <3>2, <6>1
        <5>2. t[j] = r[j - Len(p)]
          BY <2>4, <5>1, ZenonT(30)
        <5> QED
          BY <2>1, <5>1, <5>2, ZenonT(30)
      <4>2. r[j - (i - 1)] = s[i + (j - (i - 1))] /\ i + (j - (i - 1)) = j + 1
        BY <1>1, <2>2, <4>1
      <4> QED
        BY <3>2, <4>1, <4>2
    <3> QED
      BY <3>1, <3>2
  <2>6. Len(t) = Len(s) - 1
    BY <1>1, <2>1, <2>2, <2>4
  <2> HIDE DEF old
  <2> QED
    BY <2>4, <2>5, <2>6, ZenonT(30)
<1>3. /\ \A j \in DOMAIN t : old(j) \in DOMAIN s /\ old(j) # i /\ t[j] = s[old(j)]
      /\ \A j, k \in DOMAIN t : j # k => old(j) # old(k)
  BY <1>1, <1>2
<1> HIDE DEF t, old
<1>4. \A v \in Vals(t) : v \in Vals(s)
  BY <1>3 DEF Vals
<1>5. Single(kind, s) => Single(kind, t)
  BY <1>3 DEF Single
<1>6. Single(kind, s) => \A v \in Vals(t) : Other(kind, v, kind, s[i])
  BY <1>3 DEF Single, Vals
<1>7. s[i] \in Vals(s)
  BY DEF Vals
<1> QED
  BY <1>4, <1>5, <1>6, <1>7 DEF Without, Thin, t

\* A frame without a message put on a queue changes nothing.
LEMMA ControlThin ==
  ASSUME NEW kind, NEW s, NEW t, NEW g, Control(kind, g), With(kind, s, t, g)
  PROVE  Thin(kind, s, t)
BY ControlOther DEF With, Thin

LEMMA WithoutThin ==
  ASSUME NEW kind, NEW s, NEW r, NEW t, NEW z, Without(kind, s, r, z), Thin(kind, r, t)
  PROVE  Without(kind, s, t, z)
BY ControlOther DEF Without, Thin

-----------------------------------------------------------------------------
(* Places. *)

LEMMA PlacesFacts ==
  /\ \A n \in Node : <<"proc", n>> \in Places /\ <<"park", n>> \in Places
  /\ \A l \in Link : <<"wire", l>> \in Places
  /\ \A n \in Node, p \in Path : <<"app", <<n, p>>>> \in Places
  /\ \A x \in Places : \/ \E n \in Node : x = <<"proc", n>>
                       \/ \E n \in Node : x = <<"park", n>>
                       \/ \E l \in Link : x = <<"wire", l>>
                       \/ \E n \in Node, p \in Path : x = <<"app", <<n, p>>>>
<1>1. ASSUME NEW x \in {"app"} \X (Node \X Path)
      PROVE  \E n \in Node, p \in Path : x = <<"app", <<n, p>>>>
  <2>1. x = <<"app", x[2]>> /\ x[2] \in Node \X Path
    OBVIOUS
  <2>2. x[2] = <<x[2][1], x[2][2]>> /\ x[2][1] \in Node /\ x[2][2] \in Path
    BY <2>1
  <2> QED
    BY <2>1, <2>2
<1>2. \A n \in Node, p \in Path : <<"app", <<n, p>>>> \in {"app"} \X (Node \X Path)
  OBVIOUS
<1> QED
  BY <1>1, <1>2 DEF Places

LEMMA HeldIs ==
  /\ \A n \in Node : Held[<<"proc", n>>] = proc_q[n] /\ Held[<<"park", n>>] = pending[n]
  /\ \A l \in Link : Held[<<"wire", l>>] = chan[l]
  /\ \A n \in Node, p \in Path : Held[<<"app", <<n, p>>>>] = app_q[n][p]
BY PlacesFacts, ZenonT(30) DEF Held

LEMMA HeldIsNext ==
  /\ \A n \in Node : Held'[<<"proc", n>>] = proc_q'[n] /\ Held'[<<"park", n>>] = pending'[n]
  /\ \A l \in Link : Held'[<<"wire", l>>] = chan'[l]
  /\ \A n \in Node, p \in Path : Held'[<<"app", <<n, p>>>>] = app_q'[n][p]
BY PlacesFacts DEF Held

\* The four kinds of queues, and what a step did to those that are not x0 or y0.
ThinBut(x0, y0) ==
  /\ \A n \in Node : <<"proc", n>> \notin {x0, y0} => Thin("proc", proc_q[n], proc_q'[n])
  /\ \A n \in Node : <<"park", n>> \notin {x0, y0} => Thin("park", pending[n], pending'[n])
  /\ \A l \in Link : <<"wire", l>> \notin {x0, y0} => Thin("wire", chan[l], chan'[l])
  /\ \A n \in Node, p \in Path : <<"app", <<n, p>>>> \notin {x0, y0} =>
       Thin("app", app_q[n][p], app_q'[n][p])

LEMMA ThinButPlaces ==
  ASSUME NEW x0, NEW y0, ThinBut(x0, y0), NEW x \in Places, x # x0, x # y0
  PROVE  Thin(x[1], Held[x], Held'[x])
<1>1. CASE \E n \in Node : x = <<"proc", n>>
  <2>1. PICK n \in Node : x = <<"proc", n>>
    BY <1>1
  <2>2. Thin("proc", Held[x], Held'[x])
    BY <2>1, HeldIs, HeldIsNext, ZenonT(30) DEF ThinBut
  <2> QED
    BY <2>1, <2>2
<1>2. CASE \E n \in Node : x = <<"park", n>>
  <2>1. PICK n \in Node : x = <<"park", n>>
    BY <1>2
  <2>2. Thin("park", Held[x], Held'[x])
    BY <2>1, HeldIs, HeldIsNext, ZenonT(30) DEF ThinBut
  <2> QED
    BY <2>1, <2>2
<1>3. CASE \E l \in Link : x = <<"wire", l>>
  <2>1. PICK l \in Link : x = <<"wire", l>>
    BY <1>3
  <2>2. Thin("wire", Held[x], Held'[x])
    BY <2>1, HeldIs, HeldIsNext DEF ThinBut
  <2> QED
    BY <2>1, <2>2
<1>4. CASE \E n \in Node, p \in Path : x = <<"app", <<n, p>>>>
  BY <1>4, HeldIs, HeldIsNext DEF ThinBut
<1> QED
  BY <1>1, <1>2, <1>3, <1>4, PlacesFacts

LEMMA StillFrom ==
  ASSUME NEW x0, x0 \notin Places, ThinBut(x0, x0)
  PROVE  Still(Held, Held')
BY ThinButPlaces DEF Still

LEMMA MovedFrom ==
  ASSUME NEW x0 \in Places, NEW y0 \in Places, x0 # y0, ThinBut(x0, y0), NEW z, NEW u,
         Without(x0[1], Held[x0], Held'[x0], z), With(y0[1], Held[y0], Held'[y0], u)
  PROVE  Moved(Held, Held', x0, y0, z, u)
BY ThinButPlaces DEF Moved
-----------------------------------------------------------------------------
(* The wire. *)

\* What is left of a link once its oldest frame is taken.
LEMMA RestThin ==
  ASSUME IInv, NEW in, \A j \in in : chan[j] # <<>>, NEW k \in Link
  PROVE  /\ Rest(in, k) \in Seq(WireFrame)
         /\ Thin("wire", chan[k], Rest(in, k))
         /\ k \in in => Without("wire", chan[k], Rest(in, k), Head(chan[k]))
<1>1. chan[k] \in Seq(WireFrame)
  BY DEF IInv
<1>2. CASE k \in in
  <2>1. Rest(in, k) = Tail(chan[k]) /\ chan[k] # <<>>
    BY <1>2 DEF Rest
  <2>2. Tail(chan[k]) \in Seq(WireFrame)
    BY <1>1, <2>1, SeqHeadTail
  <2> QED
    BY <1>1, <2>1, <2>2, TailWithout
<1>3. CASE k \notin in
  BY <1>1, <1>3, SameThin DEF Rest
<1> QED
  BY <1>2, <1>3

\* A handler that only takes the oldest frame off a link.
LEMMA TakenWire ==
  ASSUME IInv, NEW l \in Link, chan[l] # <<>>, chan' = Sent({l}, <<>>)
  PROVE  /\ \A k \in Link : Thin("wire", chan[k], chan'[k])
         /\ Without("wire", chan[l], chan'[l], Head(chan[l]))
<1>1. \A j \in {l} : chan[j] # <<>>
  OBVIOUS
<1>2. ASSUME NEW k \in Link PROVE chan'[k] = Rest({l}, k)
  <2>1. DOMAIN <<>> = {}
    OBVIOUS
  <2> QED
    BY <2>1, SentLinks, ZenonT(30)
<1> QED
  BY <1>1, <1>2, RestThin, ZenonT(30)

\* A handler that sends frames without messages.
LEMMA ControlWire ==
  ASSUME IInv, NEW n, NEW in, \A j \in in : chan[j] # <<>>, NEW S, NEW out \in [S -> WireFrame],
         \A k \in S : Control("wire", out[k]), Transmit(n, in, out), NEW k \in Link
  PROVE  /\ Thin("wire", chan[k], chan'[k])
         /\ k \in in => Without("wire", chan[k], chan'[k], Head(chan[k]))
<1>1. /\ Rest(in, k) \in Seq(WireFrame)
      /\ Thin("wire", chan[k], Rest(in, k))
      /\ k \in in => Without("wire", chan[k], Rest(in, k), Head(chan[k]))
  BY RestThin
<1>2. CASE chan'[k] = Rest(in, k)
  BY <1>1, <1>2, ZenonT(30)
<1>3. CASE k \in DOMAIN out /\ chan'[k] = Append(Rest(in, k), out[k])
  <2>1. out[k] \in WireFrame /\ Control("wire", out[k])
    BY <1>3, ZenonT(30)
  <2>2. With("wire", Rest(in, k), chan'[k], out[k])
    BY <1>1, <1>3, <2>1, AppendWith, ZenonT(30)
  <2>3. Thin("wire", Rest(in, k), chan'[k])
    BY <2>1, <2>2, ControlThin, ZenonT(30)
  <2>4. Thin("wire", chan[k], chan'[k])
    BY <1>1, <2>3, ZenonT(30) DEF Thin
  <2> QED
    BY <1>1, <2>3, <2>4, WithoutThin, ZenonT(30)
<1> QED
  BY <1>2, <1>3, TransmitLinks

\* A handler that sends one frame.
LEMMA OneWire ==
  ASSUME IInv, NEW n, NEW in, \A j \in in : chan[j] # <<>>, NEW k0 \in Link, k0 \notin in,
         NEW u \in WireFrame, NEW out, DOMAIN out = {k0}, out[k0] = u, Transmit(n, in, out),
         NEW k \in Link
  PROVE  /\ k = k0 => With("wire", chan[k], chan'[k], u)
         /\ k # k0 => Thin("wire", chan[k], chan'[k])
         /\ k \in in => Without("wire", chan[k], chan'[k], Head(chan[k]))
<1>1. /\ Rest(in, k) \in Seq(WireFrame)
      /\ Thin("wire", chan[k], Rest(in, k))
      /\ k \in in => Without("wire", chan[k], Rest(in, k), Head(chan[k]))
  BY RestThin, ZenonT(30)
<1>2. CASE chan'[k] = Rest(in, k)
  BY <1>1, <1>2, ThinWith, ZenonT(30)
<1>3. CASE k = k0 /\ chan'[k] = Append(Rest(in, k), u)
  <2>1. Rest(in, k) = chan[k]
    BY <1>3 DEF Rest
  <2> QED
    BY <1>1, <1>3, <2>1, AppendWith, ZenonT(30)
<1> QED
  BY <1>2, <1>3, TransmitLinks, ZenonT(30)

\* The frame made for one next hop goes over one link, another than it came by.
LEMMA OneLink ==
  ASSUME NEW n, NEW e, unicast(n, e) \subseteq Link
  PROVE  \E k \in Link : unicast(n, e) = {k} /\ k.from = n
BY DEF unicast

LEMMA MadeControl ==
  ASSUME NEW f, NEW n, NEW h, NEW i
  PROVE  /\ Control("wire", rrep_swapped(f, h, i))
         /\ Control("wire", rrep_onward(f, h))
         /\ Control("wire", park_rreq(n, f, h))
         /\ Control("wire", flood_onward(f, "RREQ"))
         /\ Control("wire", flood_onward(f, "ASENT"))
BY DEF Control, rrep_swapped, rrep_onward, park_rreq, flood_onward, construct_odr, NoPayload

-----------------------------------------------------------------------------
(* Handlers that move no message. *)

NoPlace == <<"none", "none">>

LEMMA NoPlaceFact == NoPlace \notin Places
BY DEF NoPlace, Places

LEMMA QuietQueues ==
  ASSUME \A k \in Link : Thin("wire", chan[k], chan'[k]),
         \A n \in Node : Thin("park", pending[n], pending'[n]),
         \A n \in Node : Thin("proc", proc_q[n], proc_q'[n]),
         \A n \in Node, p \in Path : Thin("app", app_q[n][p], app_q'[n][p])
  PROVE  Still(Held, Held')
<1>1. ThinBut(NoPlace, NoPlace)
  BY ZenonT(30) DEF ThinBut
<1> QED
  BY <1>1, NoPlaceFact, StillFrom, ZenonT(30)

LEMMA QuietEther ==
  ASSUME \A k \in Link : Thin("wire", chan[k], chan'[k]),
         \A n \in Node : Thin("park", pending[n], pending'[n]),
         proc_q' = proc_q, app_q' = app_q
  PROVE  Still(Held, Held')
BY QuietQueues, SameThin, ZenonT(30)

LEMMA EtherControl ==
  ASSUME IInv, NEW l \in Link, Receive(l), NEW S, NEW out \in [S -> WireFrame],
         \A k \in S : Control("wire", out[k]), Transmit(l.to, {l}, out)
  PROVE  /\ \A k \in Link : Thin("wire", chan[k], chan'[k])
         /\ Without("wire", chan[l], chan'[l], Head(chan[l]))
<1>1. \A j \in {l} : chan[j] # <<>>
  BY DEF Receive
<1>2. ASSUME NEW k \in Link
      PROVE  /\ Thin("wire", chan[k], chan'[k])
             /\ k \in {l} => Without("wire", chan[k], chan'[k], Head(chan[k]))
  BY <1>1, ControlWire, ZenonT(30)
<1> QED
  BY <1>2, ZenonT(30)

LEMMA RreqAtDestEffect ==
  ASSUME IInv, NEW l \in Link, RreqAtDest(l)
  PROVE  Still(Held, Held')
<1>1. Receive(l) /\ Recvd(l) \in HostFrame /\ l.to \in Node
  BY RecvdType, LinkFacts, ZenonT(30) DEF RreqAtDest, EtherMsg
<1>2. get_broadcast_id(bid[l.to], 1) \in Nat
  BY <1>1, BidType, ZenonT(30) DEF IInv
<1> DEFINE out == [k \in unicast(l.to, SrcRoute(l)) |->
                     rrep_swapped(Recvd(l), get_broadcast_id(bid[l.to], 1), 0)]
<1>3. out \in [unicast(l.to, SrcRoute(l)) -> WireFrame]
  BY <1>1, <1>2, MadeFrames, ZenonT(30)
<1>4. \A k \in unicast(l.to, SrcRoute(l)) : Control("wire", out[k])
  BY MadeControl
<1>5. /\ Transmit(l.to, {l}, out)
      /\ pending' = pending /\ proc_q' = proc_q /\ app_q' = app_q
  BY DEF RreqAtDest, apps
<1> HIDE DEF out
<1> QED
  BY <1>1, <1>3, <1>4, <1>5, EtherControl, QuietEther, SameThin, ZenonT(30)

LEMMA RreqFromTableEffect ==
  ASSUME IInv, NEW l \in Link, RreqFromTable(l)
  PROVE  Still(Held, Held')
<1>1. Receive(l) /\ Recvd(l) \in HostFrame /\ l.to \in Node
  BY RecvdType, LinkFacts, ZenonT(30) DEF RreqFromTable, EtherMsg
<1>2. get_broadcast_id(bid[l.to], 1) \in Nat
  BY <1>1, BidType, ZenonT(30) DEF IInv
<1> DEFINE reply == unicast(l.to, SrcRoute(l))
           tell  == IF Updates(l) THEN broadcast(l.to, {l.ifno}) ELSE {}
           out(e) == [k \in reply \cup tell |->
             IF k \in reply
             THEN rrep_swapped(Recvd(l), get_broadcast_id(bid[l.to], 1), e.no_hops)
             ELSE flood_onward(Recvd(l), "ASENT")]
<1>3. PICK e \in DestEntry(l) : Transmit(l.to, {l}, out(e))
  BY ZenonT(30) DEF RreqFromTable
<1>4. e.no_hops \in Nat /\ Recvd(l).route_disc_flag # 1
  BY <1>1, EntriesType DEF Entry
<1>5. out(e) \in [reply \cup tell -> WireFrame]
  BY <1>1, <1>2, <1>4, MadeFrames, ZenonT(30)
<1>6. \A k \in reply \cup tell : Control("wire", out(e)[k])
  BY MadeControl
<1>7. pending' = pending /\ proc_q' = proc_q /\ app_q' = app_q
  BY DEF RreqFromTable, apps
<1> HIDE DEF out, reply, tell
<1> QED
  BY <1>1, <1>3, <1>5, <1>6, <1>7, EtherControl, QuietEther, SameThin, ZenonT(30)

LEMMA RreqFloodEffect ==
  ASSUME IInv, NEW l \in Link, RreqFlood(l)
  PROVE  Still(Held, Held')
<1>1. Receive(l) /\ Recvd(l) \in HostFrame /\ l.to \in Node /\ 0 \in Nat
  BY RecvdType, LinkFacts, ZenonT(30) DEF RreqFlood, EtherMsg
<1> DEFINE S == IF Updates(l) THEN broadcast(l.to, {l.ifno}) ELSE {}
           out == [k \in S |-> flood_onward(Recvd(l), "RREQ")]
<1>2. out \in [S -> WireFrame]
  BY <1>1, MadeFrames
<1>3. \A k \in S : Control("wire", out[k])
  BY MadeControl
<1>4. /\ Transmit(l.to, {l}, out)
      /\ pending' = pending /\ proc_q' = proc_q /\ app_q' = app_q
  BY ZenonT(30) DEF RreqFlood, apps
<1> HIDE DEF out, S
<1> QED
  BY <1>1, <1>2, <1>3, <1>4, EtherControl, QuietEther, SameThin, ZenonT(30)

LEMMA AsentEffect ==
  ASSUME IInv, NEW l \in Link, Asent(l)
  PROVE  Still(Held, Held')
<1>1. Receive(l) /\ Recvd(l) \in HostFrame /\ l.to \in Node /\ 0 \in Nat
  BY RecvdType, LinkFacts, ZenonT(30) DEF Asent, EtherMsg
<1>2. Recvd(l).route_disc_flag # 1
  BY <1>1, ZenonT(30) DEF Asent, EtherMsg, HostFrame
<1> DEFINE S == IF Updates(l) THEN broadcast(l.to, {l.ifno}) ELSE {}
           out == [k \in S |-> flood_onward(Recvd(l), "ASENT")]
<1>3. out \in [S -> WireFrame]
  BY <1>1, <1>2, MadeFrames, ZenonT(30)
<1>4. \A k \in S : Control("wire", out[k])
  BY MadeControl, ZenonT(30)
<1>5. /\ Transmit(l.to, {l}, out)
      /\ pending' = pending /\ proc_q' = proc_q /\ app_q' = app_q
  BY DEF Asent, apps
<1> HIDE DEF out, S
<1> QED
  BY <1>1, <1>3, <1>4, <1>5, EtherControl, QuietEther, SameThin, ZenonT(30)

LEMMA RrepForwardEffect ==
  ASSUME IInv, NEW l \in Link, RrepForward(l)
  PROVE  Still(Held, Held')
<1>1. Receive(l) /\ Recvd(l) \in HostFrame /\ l.to \in Node /\ 0 \in Nat
  BY RecvdType, LinkFacts, ZenonT(30) DEF RrepForward, EtherMsg
<1>2. SrcRoute(l).no_hops \in Nat
  BY <1>1, SrcRouteType, ZenonT(30) DEF Entry
<1> DEFINE out(e) == [k \in unicast(l.to, e) |-> rrep_onward(Recvd(l), SrcRoute(l).no_hops)]
<1>3. PICK e \in DestEntry(l) : Transmit(l.to, {l}, out(e))
  BY ZenonT(30) DEF RrepForward
<1>4. out(e) \in [unicast(l.to, e) -> WireFrame]
  BY <1>1, <1>2, MadeFrames, ZenonT(30)
<1>5. \A k \in unicast(l.to, e) : Control("wire", out(e)[k])
  BY MadeControl
<1>6. pending' = pending /\ proc_q' = proc_q /\ app_q' = app_q
  BY DEF RrepForward, apps
<1> HIDE DEF out
<1> QED
  BY <1>1, <1>3, <1>4, <1>5, <1>6, EtherControl, QuietEther, SameThin, ZenonT(30)

\* A frame is dropped, unused or unheard.
LEMMA TakenEffect ==
  ASSUME IInv, NEW l \in Link, IgnoreDuplicate(l) \/ RrepUnused(l) \/ Lose(l) \/ Unheard(l)
  PROVE  Still(Held, Held')
<1>1. /\ chan[l] # <<>> /\ chan' = Sent({l}, <<>>)
      /\ pending' = pending /\ proc_q' = proc_q /\ app_q' = app_q
  BY ZenonT(30) DEF IgnoreDuplicate, RrepUnused, Lose, Unheard, EtherMsg, Receive, memory, apps
<1> QED
  BY <1>1, TakenWire, QuietEther, SameThin, ZenonT(30)

\* Time passes, a daemon dies, a server starts.
LEMMA IdleEffect ==
  ASSUME NEW n \in Node, Tick(n) \/ Kill(n) \/ ServerStart(n)
  PROVE  Still(Held, Held')
<1>1. chan' = chan /\ pending' = pending /\ proc_q' = proc_q /\ app_q' = app_q
  BY ZenonT(30) DEF Tick, Kill, ServerStart, memory, apps
<1> QED
  BY <1>1, QuietEther, SameThin, ZenonT(30)

\* A daemon's memory and the datagrams waiting for it are gone.
LEMMA RestartEffect ==
  ASSUME IInv, NEW n \in Node, Restart(n)
  PROVE  Still(Held, Held')
<1>1. /\ pending' = [pending EXCEPT ![n] = <<>>] /\ proc_q' = [proc_q EXCEPT ![n] = <<>>]
      /\ chan' = chan /\ app_q' = app_q
  BY DEF Restart, apps
<1>2. \A m \in Node : /\ pending'[m] = pending[m] \/ pending'[m] = <<>>
                      /\ proc_q'[m] = proc_q[m] \/ proc_q'[m] = <<>>
  BY <1>1 DEF IInv, TypeOK
<1> QED
  BY <1>1, <1>2, QuietQueues, SameThin, EmptyThin, ZenonT(30)

LEMMA AppExitEffect ==
  ASSUME IInv, NEW n \in Node, NEW p \in Path, AppExit(n, p)
  PROVE  Still(Held, Held')
<1>1. /\ app_q' = [app_q EXCEPT ![n][p] = <<>>]
      /\ chan' = chan /\ pending' = pending /\ proc_q' = proc_q
  BY DEF AppExit, memory
<1>2. \A m \in Node, r \in Path : app_q'[m][r] = app_q[m][r] \/ app_q'[m][r] = <<>>
  BY <1>1, ZenonT(30) DEF IInv, TypeOK
<1> QED
  BY <1>1, <1>2, QuietQueues, SameThin, EmptyThin, ZenonT(30)
-----------------------------------------------------------------------------
(* Handlers that move a message. *)

\* A port leads to one path.
LEMMA ReachOne ==
  ASSUME NEW n, NEW t \in Seq(PortEntry), NEW port, NEW p \in reachable(n, t, port)
  PROVE  p \in Path /\ reachable(n, t, port) = {p}
<1>1. DOMAIN t = 1 .. Len(t) /\ Len(t) \in Nat /\ \A i \in DOMAIN t : t[i].sun_path \in Path
  <2>1. \A i \in DOMAIN t : t[i] \in PortEntry
    BY SeqElements
  <2> QED
    BY <2>1 DEF PortEntry
<1>2. \A i, j \in DOMAIN t :
        fetch_entry_port(t, i, port) /\ fetch_entry_port(t, j, port) => i = j
  <2> SUFFICES ASSUME NEW i \in DOMAIN t, NEW j \in DOMAIN t,
                      fetch_entry_port(t, i, port), fetch_entry_port(t, j, port)
               PROVE  i = j
    OBVIOUS
  <2>1. i \in 1 .. Len(t) /\ j \in 1 .. Len(t)
    BY <1>1
  <2>2. ~(i < j)
    <3>1. i < j => i \in 1 .. (j - 1)
      BY <1>1, <2>1
    <3> QED
      BY <3>1 DEF fetch_entry_port
  <2>3. ~(j < i)
    <3>1. j < i => j \in 1 .. (i - 1)
      BY <1>1, <2>1
    <3> QED
      BY <3>1 DEF fetch_entry_port
  <2> QED
    BY <1>1, <2>1, <2>2, <2>3
<1>3. PICK i \in DOMAIN t : fetch_entry_port(t, i, port) /\ p = t[i].sun_path /\ p \in bound[n]
  BY DEF reachable
<1>4. ASSUME NEW q \in reachable(n, t, port) PROVE q = p
  <2>1. PICK j \in DOMAIN t : fetch_entry_port(t, j, port) /\ q = t[j].sun_path
    BY ZenonT(30) DEF reachable
  <2> QED
    BY <1>2, <1>3, <2>1, ZenonT(30)
<1> QED
  BY <1>1, <1>3, <1>4, ZenonT(30)

LEMMA DeliverOne ==
  ASSUME TypeOK, NEW n \in Node, NEW p \in Path, NEW m \in Delivery, app_q' = deliver(n, {p}, m)
  PROVE  /\ With("app", app_q[n][p], app_q'[n][p], m)
         /\ \A k \in Node, r \in Path : <<"app", <<k, r>>>> # <<"app", <<n, p>>>> =>
              Thin("app", app_q[k][r], app_q'[k][r])
<1>1. app_q \in [Node -> [Path -> Seq(Delivery)]]
  BY DEF TypeOK
<1>2. app_q' = [app_q EXCEPT ![n] = [r \in Path |-> IF r \in {p} THEN Append(app_q[n][r], m)
                                                               ELSE app_q[n][r]]]
  BY DEF deliver
<1>3. app_q'[n][p] = Append(app_q[n][p], m) /\ app_q[n][p] \in Seq(Delivery)
  BY <1>1, <1>2, ZenonT(30)
<1>4. With("app", app_q[n][p], app_q'[n][p], m)
  BY <1>3, AppendWith, ZenonT(30)
<1>5. ASSUME NEW k \in Node, NEW r \in Path, k # n \/ r # p
      PROVE  app_q'[k][r] = app_q[k][r]
  <2>1. CASE k # n
    BY <1>1, <1>2, <2>1, ZenonT(30)
  <2>2. CASE k = n /\ r # p
    <3>1. app_q'[n] = [q \in Path |-> IF q \in {p} THEN Append(app_q[n][q], m) ELSE app_q[n][q]]
      BY <1>1, <1>2, ZenonT(30)
    <3> QED
      BY <2>2, <3>1
  <2> QED
    BY <1>5, <2>1, <2>2
<1> QED
  BY <1>4, <1>5, SameThin, ZenonT(30)

LEMMA DeliverNone ==
  ASSUME TypeOK, NEW n \in Node, NEW m, app_q' = deliver(n, {}, m)
  PROVE  \A k \in Node, r \in Path : Thin("app", app_q[k][r], app_q'[k][r])
<1>1. app_q \in [Node -> [Path -> Seq(Delivery)]]
  BY DEF TypeOK
<1>2. app_q' = [app_q EXCEPT ![n] = [r \in Path |-> app_q[n][r]]]
  BY DEF deliver
<1>3. \A k \in Node, r \in Path : app_q'[k][r] = app_q[k][r]
  BY <1>1, <1>2, ZenonT(30)
<1> QED
  BY <1>3, SameThin, ZenonT(30)

\* The request a handler works on leaves the daemon's socket.
LEMMA PeerTakes ==
  ASSUME TypeOK, NEW n \in Node, PeerMsg(n)
  PROVE  /\ Without("proc", proc_q[n], proc_q'[n], Head(proc_q[n]))
         /\ \A m \in Node : Thin("proc", proc_q[m], proc_q'[m])
<1>1. proc_q \in [Node -> Seq(Request)] /\ proc_q[n] # <<>>
      /\ proc_q' = [proc_q EXCEPT ![n] = Tail(@)]
  BY DEF TypeOK, PeerMsg
<1>2. proc_q'[n] = Tail(proc_q[n]) /\ proc_q[n] \in Seq(Request)
  BY <1>1
<1>3. \A m \in Node : m # n => proc_q'[m] = proc_q[m]
  BY <1>1
<1>4. Without("proc", proc_q[n], proc_q'[n], Head(proc_q[n])) /\ Thin("proc", proc_q[n], proc_q'[n])
  BY <1>1, <1>2, TailWithout
<1> QED
  BY <1>3, <1>4, SameThin, ZenonT(30)

\* What PeerLocal delivers.
LocalDatagram(n, port) == [src_ip |-> n, src_port |-> port, msg |-> Head(proc_q[n]).msg]

LEMMA PeerLocalEffect ==
  ASSUME IInv, NEW n \in Node, PeerLocal(n)
  PROVE  \/ Still(Held, Held')
         \/ \E port \in Ports(n), p \in Path :
              /\ fetch_entry_path(n, Head(proc_q[n]).filename, port)
              /\ p \in reachable(n, port_spath'[n], Head(proc_q[n]).destport)
              /\ LocalDatagram(n, port) \in Delivery
              /\ app_q' = deliver(n, {p}, LocalDatagram(n, port))
              /\ Moved(Held, Held', <<"proc", n>>, <<"app", <<n, p>>>>, Head(proc_q[n]),
                       LocalDatagram(n, port))
<1> DEFINE r == Head(proc_q[n])
<1>1. TypeOK /\ PeerMsg(n)
  BY DEF IInv, PeerLocal
<1>2. /\ Without("proc", proc_q[n], proc_q'[n], r)
      /\ \A m \in Node : Thin("proc", proc_q[m], proc_q'[m])
      /\ r \in Request
  BY <1>1, PeerTakes, PeerType, ZenonT(30)
<1>3. pending' = pending /\ chan' = chan
  BY ZenonT(30) DEF PeerLocal
<1>4. PICK port \in Ports(n) :
        /\ fetch_entry_path(n, r.filename, port)
        /\ LET hit == reachable(n, port_spath'[n], r.destport) IN
             IF hit # {} THEN app_q' = deliver(n, hit, LocalDatagram(n, port))
                         ELSE app_q' = app_q
  BY ZenonT(30) DEF PeerLocal, LocalDatagram
<1>5. r.filename \in Path /\ r.msg \in Nat
  BY <1>2, ZenonT(30) DEF Request
<1>6. port \in Int /\ port_spath'[n] \in Seq(PortEntry)
  BY <1>1, <1>4, <1>5, FetchPathType, ZenonT(30)
<1>7. LocalDatagram(n, port) \in Delivery
  BY <1>5, <1>6, ZenonT(30) DEF Delivery, LocalDatagram
<1> HIDE DEF r
<1>8. CASE reachable(n, port_spath'[n], r.destport) = {}
  <2>1. app_q' = app_q
    BY <1>4, <1>8
  <2> QED
    BY <1>2, <1>3, <2>1, QuietQueues, SameThin
<1>9. CASE reachable(n, port_spath'[n], r.destport) # {}
  <2>1. PICK p \in reachable(n, port_spath'[n], r.destport) : TRUE
    BY <1>9, ZenonT(30)
  <2>2. p \in Path /\ reachable(n, port_spath'[n], r.destport) = {p}
    BY <1>6, ReachOne, ZenonT(30)
  <2>3. app_q' = deliver(n, {p}, LocalDatagram(n, port))
    BY <1>4, <1>9, <2>2, ZenonT(30)
  <2>4. /\ With("app", app_q[n][p], app_q'[n][p], LocalDatagram(n, port))
        /\ \A k \in Node, q \in Path : <<"app", <<k, q>>>> # <<"app", <<n, p>>>> =>
             Thin("app", app_q[k][q], app_q'[k][q])
    BY <1>1, <1>7, <2>2, <2>3, DeliverOne, ZenonT(30)
  <2>5. ThinBut(<<"proc", n>>, <<"app", <<n, p>>>>)
    BY <1>2, <1>3, <2>4, SameThin DEF ThinBut
  <2>6. Moved(Held, Held', <<"proc", n>>, <<"app", <<n, p>>>>, r, LocalDatagram(n, port))
    BY <1>2, <2>2, <2>4, <2>5, HeldIs, HeldIsNext, PlacesFacts, MovedFrom, ZenonT(30)
  <2> QED
    BY <1>4, <1>7, <2>1, <2>2, <2>3, <2>6, ZenonT(30) DEF r
<1> QED
  BY <1>8, <1>9, ZenonT(30)

LEMMA PeerDiscoverEffect ==
  ASSUME IInv, NEW n \in Node, PeerDiscover(n)
  PROVE  \E port \in Ports(n) :
           /\ fetch_entry_path(n, Head(proc_q[n]).filename, port)
           /\ Moved(Held, Held', <<"proc", n>>, <<"park", n>>, Head(proc_q[n]), Parked(n, port))
<1> DEFINE r == Head(proc_q[n])
           req(port) == construct_odr("RREQ", get_broadcast_id(bid[n], 1), 0,
                          r.route_disc_flag, port, r.destport, r.destip, n, r.msg)
           out(port) == [k \in broadcast(n, {}) |-> req(port)]
<1>1. TypeOK /\ PeerMsg(n) /\ \A j \in {} : chan[j] # <<>>
  BY ZenonT(30) DEF IInv, PeerDiscover
<1>2. /\ Without("proc", proc_q[n], proc_q'[n], r)
      /\ \A m \in Node : Thin("proc", proc_q[m], proc_q'[m])
      /\ r \in Request
  BY <1>1, PeerTakes, PeerType, ZenonT(30)
<1>3. PICK port \in Ports(n) :
        /\ fetch_entry_path(n, r.filename, port)
        /\ Transmit(n, {}, out(port))
        /\ pending' = [pending EXCEPT ![n] = <<Parked(n, port)>> \o @]
  BY ZenonT(30) DEF PeerDiscover, Parked
<1>4. /\ r.filename \in Path /\ r.msg \in Nat /\ r.destport \in Int /\ r.destip \in Node
      /\ r.route_disc_flag \in {0, 1} /\ n # r.destip
  BY <1>2, ZenonT(30) DEF Request, PeerDiscover
<1>5. port \in Int
  BY <1>1, <1>3, <1>4, FetchPathType, ZenonT(30)
<1>6. req(port) \in WireFrame /\ Control("wire", req(port))
  <2>1. get_broadcast_id(bid[n], 1) \in Nat
    BY <1>1, BidType
  <2>2. req(port) \in WireFrame
    BY <1>4, <1>5, <2>1, ConstructFrame, ZenonT(30)
  <2>3. Control("wire", req(port))
    BY ZenonT(30) DEF Control, construct_odr
  <2> QED
    BY <2>2, <2>3, ZenonT(30)
<1>7. Parked(n, port) \in ParkedFrame
  BY <1>1, <1>2, <1>4, <1>5, ParkedIs, ZenonT(30)
<1> HIDE DEF req, r
<1>8. out(port) \in [broadcast(n, {}) -> WireFrame]
      /\ \A k \in broadcast(n, {}) : Control("wire", out(port)[k])
  BY <1>6
<1>9. \A k \in Link : Thin("wire", chan[k], chan'[k])
  <2> HIDE DEF out
  <2> QED
    BY <1>1, <1>3, <1>8, ControlWire, ZenonT(30)
<1>10. pending \in [Node -> Seq(ParkedFrame)]
  BY ZenonT(30) DEF IInv
<1>11. /\ With("park", pending[n], pending'[n], Parked(n, port))
       /\ \A m \in Node : m # n => Thin("park", pending[m], pending'[m])
  <2>1. pending'[n] = <<Parked(n, port)>> \o pending[n] /\ \A m \in Node : m # n => pending'[m] = pending[m]
    BY <1>3, <1>10
  <2>2. pending[n] \in Seq(ParkedFrame)
    BY <1>10, ZenonT(30)
  <2> QED
    BY <1>7, <2>1, <2>2, PrefixWith, SameThin, ZenonT(30)
<1>12. app_q' = app_q
  BY ZenonT(30) DEF PeerDiscover, apps
<1>13. ThinBut(<<"proc", n>>, <<"park", n>>)
  BY <1>2, <1>9, <1>11, <1>12, SameThin, ZenonT(30) DEF ThinBut
<1>14. Moved(Held, Held', <<"proc", n>>, <<"park", n>>, r, Parked(n, port))
  BY <1>2, <1>11, <1>13, HeldIs, HeldIsNext, PlacesFacts, MovedFrom, ZenonT(30)
<1> QED
  BY <1>3, <1>14, ZenonT(30) DEF r

LEMMA PeerSendEffect ==
  ASSUME IInv, NEW n \in Node, PeerSend(n)
  PROVE  \E port \in Ports(n), e \in Entry, k \in Link :
           /\ fetch_entry_path(n, Head(proc_q[n]).filename, port)
           /\ Head(proc_q[n]).route_disc_flag # 1
           /\ Moved(Held, Held', <<"proc", n>>, <<"wire", k>>, Head(proc_q[n]),
                    Dispatched(n, e, port))
<1> DEFINE r == Head(proc_q[n])
           out(e, port) == [k \in unicast(n, e) |-> Dispatched(n, e, port)]
<1>1. TypeOK /\ PeerMsg(n) /\ \A j \in {} : chan[j] # <<>>
  BY ZenonT(30) DEF IInv, PeerSend
<1>2. /\ Without("proc", proc_q[n], proc_q'[n], r)
      /\ \A m \in Node : Thin("proc", proc_q[m], proc_q'[m])
      /\ r \in Request
  BY <1>1, PeerTakes, PeerType
<1>3. PICK e \in got_r_entry(rtable[n], r.destip, r.route_disc_flag), port \in Ports(n) :
        /\ fetch_entry_path(n, r.filename, port)
        /\ Transmit(n, {}, out(e, port))
  BY ZenonT(30) DEF PeerSend, Dispatched
<1>4. /\ r.filename \in Path /\ r.destip # n
  BY <1>2, ZenonT(30) DEF Request, PeerSend
<1>5. port \in Int
  BY <1>1, <1>3, <1>4, FetchPathType
<1>6. e \in Entry /\ r.route_disc_flag # 1 /\ unicast(n, e) \subseteq Link
  <2>1. e \in rtable[n] /\ r.route_disc_flag # 1
    <3>1. e \in got_r_entry(rtable[n], r.destip, r.route_disc_flag)
      BY <1>3, ZenonT(30)
    <3> HIDE DEF r, out
    <3> QED
      BY <3>1, LookupFacts, ZenonT(30)
  <2> QED
    BY <1>1, <2>1, ZenonT(30) DEF TypeOK, IInv, RoutesUsable
<1>7. PICK k \in Link : unicast(n, e) = {k}
  BY <1>6, OneLink
<1>8. Dispatched(n, e, port) \in WireFrame
  <2>1. MaySend(n, e, port)
    BY <1>1, <1>2, <1>4, <1>5, <1>6 DEF MaySend
  <2> QED
    BY <2>1, DispatchedIs, ZenonT(30) DEF Dispatch
<1>9. DOMAIN out(e, port) = {k} /\ out(e, port)[k] = Dispatched(n, e, port)
  BY <1>7
<1> HIDE DEF out, r
<1>10. /\ With("wire", chan[k], chan'[k], Dispatched(n, e, port))
       /\ \A j \in Link : j # k => Thin("wire", chan[j], chan'[j])
  BY <1>1, <1>3, <1>8, <1>9, OneWire, ZenonT(30)
<1>11. app_q' = app_q /\ pending' = pending
  BY ZenonT(30) DEF PeerSend, apps
<1>12. ThinBut(<<"proc", n>>, <<"wire", k>>)
  BY <1>2, <1>10, <1>11, SameThin, ZenonT(30) DEF ThinBut
<1>13. Moved(Held, Held', <<"proc", n>>, <<"wire", k>>, r, Dispatched(n, e, port))
  BY <1>2, <1>10, <1>12, HeldIs, HeldIsNext, PlacesFacts, MovedFrom, ZenonT(30)
<1> QED
  BY <1>3, <1>6, <1>13, ZenonT(30) DEF r
\* What the received frame is.
LEMMA RecvdHeld ==
  ASSUME MInv, NEW l \in Link, Receive(l)
  PROVE  /\ IInv
         /\ Control("wire", Head(chan[l])) \/ Carried("wire", Head(chan[l]), Len(asked))
         /\ Head(chan[l]).frame_type # "DATA" => Control("park", Recvd(l))
<1>1. IInv /\ OneAt(Held, Len(asked))
  BY ZenonT(30) DEF MInv
<1>2. <<"wire", l>> \in Places /\ Held[<<"wire", l>>] = chan[l]
  BY PlacesFacts, HeldIs
<1>3. Head(chan[l]) \in Vals(chan[l])
  BY <1>1, RecvdIs, ZenonT(30)
<1>4. Control("wire", Head(chan[l])) \/ Carried("wire", Head(chan[l]), Len(asked))
  BY <1>1, <1>2, <1>3, ZenonT(30) DEF OneAt
<1> QED
  BY <1>1, <1>4, RecvdIs, ZenonT(30) DEF Control, Carried

\* A frame parked before those that wait.
LEMMA ParkWith ==
  ASSUME IInv, NEW n \in Node, NEW f \in ParkedFrame,
         pending' = [pending EXCEPT ![n] = <<f>> \o @]
  PROVE  /\ With("park", pending[n], pending'[n], f)
         /\ \A m \in Node : m # n => Thin("park", pending[m], pending'[m])
<1>1. pending \in [Node -> Seq(ParkedFrame)]
  BY DEF IInv
<1>2. pending'[n] = <<f>> \o pending[n] /\ \A m \in Node : m # n => pending'[m] = pending[m]
  BY <1>1
<1>3. pending[n] \in Seq(ParkedFrame)
  BY <1>1
<1> QED
  BY <1>2, <1>3, PrefixWith, SameThin, ZenonT(30)

\* Park sends no message and takes its frame off the link.
LEMMA ParkWire ==
  ASSUME IInv, NEW l \in Link, Receive(l), ~ForMe(l), Park(l)
  PROVE  /\ \A k \in Link : Thin("wire", chan[k], chan'[k])
         /\ Without("wire", chan[l], chan'[l], Head(chan[l]))
<1>1. Recvd(l) \in HostFrame /\ l.to \in Node /\ 0 \in Nat /\ l.to # Recvd(l).dest_ip
  BY RecvdType, LinkFacts, ZenonT(30) DEF ForMe
<1>2. get_broadcast_id(bid[l.to], 1) \in Nat
  BY <1>1, BidType, ZenonT(30) DEF IInv
<1> DEFINE S == broadcast(l.to, {l.ifno})
           out == [k \in S |-> park_rreq(l.to, Recvd(l), get_broadcast_id(bid[l.to], 1))]
<1>3. out \in [S -> WireFrame]
  BY <1>1, <1>2, MadeFrames, ZenonT(30)
<1>4. \A k \in S : Control("wire", out[k])
  BY MadeControl, ZenonT(30)
<1>5. Transmit(l.to, {l}, out)
  BY ZenonT(30) DEF Park
<1> HIDE DEF out, S
<1> QED
  BY <1>3, <1>4, <1>5, EtherControl, ZenonT(30)

LEMMA RrepParkEffect ==
  ASSUME MInv, NEW l \in Link, RrepPark(l)
  PROVE  Still(Held, Held')
<1>1. /\ IInv /\ Receive(l) /\ ~ForMe(l) /\ Park(l) /\ l.to \in Node
      /\ Recvd(l).frame_type = "RREP"
  BY LinkFacts, ZenonT(30) DEF MInv, RrepPark, EtherMsg
<1>2. Recvd(l) \in ParkedFrame /\ Control("park", Recvd(l))
  BY <1>1, RecvdType, RecvdHeld, RecvdIs, ZenonT(30) DEF HostFrame, ParkedFrame, Frame
<1>3. \A n \in Node : Thin("park", pending[n], pending'[n])
  BY <1>1, <1>2, ParkWith, ControlThin, ZenonT(30) DEF Park
<1>4. proc_q' = proc_q /\ app_q' = app_q
  BY DEF RrepPark, apps
<1> QED
  BY <1>1, <1>3, <1>4, ParkWire, QuietEther, ZenonT(30)

LEMMA DataParkEffect ==
  ASSUME IInv, NEW l \in Link, DataPark(l)
  PROVE  /\ Moved(Held, Held', <<"wire", l>>, <<"park", l.to>>, Head(chan[l]), Recvd(l))
         /\ Recvd(l).frame_type = "DATA" /\ Receive(l)
<1>1. /\ Receive(l) /\ ~ForMe(l) /\ Park(l) /\ l.to \in Node
      /\ Recvd(l).frame_type = "DATA"
  BY LinkFacts, ZenonT(30) DEF DataPark, EtherMsg
<1>2. Recvd(l) \in ParkedFrame
  BY <1>1, RecvdType DEF HostFrame, ParkedFrame, Frame
<1>3. /\ With("park", pending[l.to], pending'[l.to], Recvd(l))
      /\ \A m \in Node : m # l.to => Thin("park", pending[m], pending'[m])
  BY <1>1, <1>2, ParkWith, ZenonT(30) DEF Park
<1>4. proc_q' = proc_q /\ app_q' = app_q
  BY DEF DataPark, apps
<1>5. /\ \A k \in Link : Thin("wire", chan[k], chan'[k])
      /\ Without("wire", chan[l], chan'[l], Head(chan[l]))
  BY <1>1, ParkWire, ZenonT(30)
<1>6. ThinBut(<<"wire", l>>, <<"park", l.to>>)
  BY <1>3, <1>4, <1>5, SameThin, ZenonT(30) DEF ThinBut
<1> QED
  BY <1>1, <1>3, <1>5, <1>6, HeldIs, HeldIsNext, PlacesFacts, MovedFrom, ZenonT(30)

\* One frame with a message goes out over another link than one came in by.
LEMMA EtherOne ==
  ASSUME IInv, NEW l \in Link, Receive(l), NEW e, unicast(l.to, e) \subseteq Link,
         NEW u \in WireFrame, NEW out, out = [k \in unicast(l.to, e) |-> u],
         Transmit(l.to, {l}, out)
  PROVE  \E k \in Link :
           /\ k # l
           /\ With("wire", chan[k], chan'[k], u)
           /\ \A j \in Link : j # k => Thin("wire", chan[j], chan'[j])
           /\ Without("wire", chan[l], chan'[l], Head(chan[l]))
<1>1. PICK k \in Link : unicast(l.to, e) = {k} /\ k.from = l.to
  BY OneLink, ZenonT(30)
<1>2. k # l
  BY <1>1, ZenonT(30) DEF Link
<1>3. k \notin {l} /\ \A j \in {l} : chan[j] # <<>>
  BY <1>2, ZenonT(30) DEF Receive
<1>4. DOMAIN out = {k} /\ out[k] = u
  BY <1>1
<1>5. ASSUME NEW j \in Link
      PROVE  /\ j = k => With("wire", chan[j], chan'[j], u)
             /\ j # k => Thin("wire", chan[j], chan'[j])
             /\ j \in {l} => Without("wire", chan[j], chan'[j], Head(chan[j]))
  BY <1>3, <1>4, OneWire, ZenonT(30)
<1> QED
  BY <1>2, <1>5, ZenonT(30)

LEMMA DataForwardEffect ==
  ASSUME IInv, NEW l \in Link, DataForward(l)
  PROVE  /\ \E k \in Link : Moved(Held, Held', <<"wire", l>>, <<"wire", k>>, Head(chan[l]), Forwarded(l))
         /\ Recvd(l).frame_type = "DATA" /\ Receive(l)
<1>1. Receive(l) /\ Recvd(l).frame_type = "DATA"
  BY DEF DataForward, EtherMsg
<1> DEFINE out(e) == [k \in unicast(l.to, e) |-> Forwarded(l)]
<1>2. PICK e \in DestEntry(l) : Transmit(l.to, {l}, out(e))
  BY ZenonT(30) DEF DataForward, Forwarded
<1>3. unicast(l.to, e) \subseteq Link /\ Forwarded(l) \in WireFrame
  BY <1>1, EntriesType, ForwardedIs, ZenonT(30)
<1>4. PICK k \in Link :
           /\ k # l
           /\ With("wire", chan[k], chan'[k], Forwarded(l))
           /\ \A j \in Link : j # k => Thin("wire", chan[j], chan'[j])
           /\ Without("wire", chan[l], chan'[l], Head(chan[l]))
  BY <1>1, <1>2, <1>3, EtherOne, ZenonT(30)
<1>5. pending' = pending /\ proc_q' = proc_q /\ app_q' = app_q
  BY ZenonT(30) DEF DataForward, apps
<1>6. ThinBut(<<"wire", l>>, <<"wire", k>>)
  BY <1>4, <1>5, SameThin, ZenonT(30) DEF ThinBut
<1>7. Moved(Held, Held', <<"wire", l>>, <<"wire", k>>, Head(chan[l]), Forwarded(l))
  BY <1>4, <1>6, HeldIs, HeldIsNext, PlacesFacts, MovedFrom, ZenonT(30)
<1> QED
  BY <1>1, <1>7
\* A parked reply or a parked message is released.
LEMMA RrepAtDestEffect ==
  ASSUME MInv, NEW l \in Link, RrepAtDest(l)
  PROVE  \/ Still(Held, Held')
         \/ \E i \in DOMAIN pending[l.to], k \in Link :
              /\ pending[l.to][i].frame_type = "DATA"
              /\ Moved(Held, Held', <<"park", l.to>>, <<"wire", k>>, pending[l.to][i],
                       convert_host_net_order(pending[l.to][i]))
<1>1. IInv /\ Receive(l) /\ l.to \in Node /\ OneAt(Held, Len(asked))
  BY LinkFacts, ZenonT(30) DEF MInv, RrepAtDest, EtherMsg
<1>2. Recvd(l) \in HostFrame /\ unicast(l.to, SrcRoute(l)) \subseteq Link
  BY <1>1, RecvdType, SrcRouteType, ZenonT(30)
<1> DEFINE u(f) == IF f.frame_type = "RREP" THEN rrep_onward(f, f.hop_count)
                                            ELSE convert_host_net_order(f)
           out(f) == [k \in unicast(l.to, SrcRoute(l)) |-> u(f)]
<1>3. PICK i \in DOMAIN pending[l.to] :
        /\ pending' = [pending EXCEPT ![l.to] = remove_pending(@, i)]
        /\ Transmit(l.to, {l}, out(pending[l.to][i]))
  BY ZenonT(30) DEF RrepAtDest
<1> DEFINE f == pending[l.to][i]
<1>4. f \in ParkedFrame /\ f \in HostFrame /\ f.hop_count \in Nat
  <2>1. f \in ParkedFrame
    BY <1>1, <1>3, UnparkType, ZenonT(30)
  <2> HIDE DEF f, u, out
  <2>2. f \in HostFrame
    BY <2>1, ParkedIsHost
  <2> QED
    BY <2>1, <2>2 DEF HostFrame, Frame
<1>5. u(f) \in WireFrame
  <2>1. 0 \in Nat
    OBVIOUS
  <2>2. rrep_onward(f, f.hop_count) \in WireFrame
    BY <1>1, <1>2, <1>4, <2>1, MadeFrames, ZenonT(30)
  <2> QED
    BY <1>4, <2>2, HostToNet, ZenonT(30)
<1>6. Transmit(l.to, {l}, out(f)) /\ out(f) = [k \in unicast(l.to, SrcRoute(l)) |-> u(f)]
  BY <1>3, ZenonT(30)
<1> HIDE DEF out, u
<1>7. PICK k \in Link :
           /\ k # l
           /\ With("wire", chan[k], chan'[k], u(f))
           /\ \A j \in Link : j # k => Thin("wire", chan[j], chan'[j])
  BY <1>1, <1>2, <1>5, <1>6, EtherOne, ZenonT(30)
<1>8. /\ Without("park", pending[l.to], pending'[l.to], f)
      /\ \A n \in Node : Thin("park", pending[n], pending'[n])
  <2>1. pending \in [Node -> Seq(ParkedFrame)]
    BY <1>1, ZenonT(30) DEF IInv
  <2>2. /\ pending'[l.to] = remove_pending(pending[l.to], i)
        /\ pending[l.to] \in Seq(ParkedFrame)
        /\ \A n \in Node : n # l.to => pending'[n] = pending[n]
    BY <1>1, <1>3, <2>1, ZenonT(30)
  <2>3. Without("park", pending[l.to], pending'[l.to], f)
    BY <2>2, RemoveWithout
  <2> QED
    BY <2>2, <2>3, SameThin, ZenonT(30) DEF Without
<1>9. proc_q' = proc_q /\ app_q' = app_q
  BY ZenonT(30) DEF RrepAtDest, apps
<1>10. CASE f.frame_type = "RREP"
  <2>1. Control("wire", u(f))
    BY <1>10, MadeControl, ZenonT(30) DEF u
  <2>2. Thin("wire", chan[k], chan'[k])
    BY <1>7, <2>1, ControlThin, ZenonT(30)
  <2> QED
    BY <1>7, <1>8, <1>9, <2>2, QuietEther, ZenonT(30)
<1>11. CASE f.frame_type = "DATA"
  <2>1. u(f) = convert_host_net_order(f)
    BY <1>11 DEF u
  <2>2. ThinBut(<<"park", l.to>>, <<"wire", k>>)
    BY <1>7, <1>8, <1>9, SameThin, ZenonT(30) DEF ThinBut
  <2>3. Moved(Held, Held', <<"park", l.to>>, <<"wire", k>>, f, u(f))
    BY <1>1, <1>7, <1>8, <2>2, HeldIs, HeldIsNext, PlacesFacts, MovedFrom, ZenonT(30)
  <2> QED
    BY <1>3, <1>11, <2>1, <2>3, ZenonT(30)
<1> QED
  BY <1>4, <1>10, <1>11, ZenonT(30) DEF ParkedFrame

\* What DataAtDest delivers.
EtherDatagram(l) == [src_ip |-> Recvd(l).src_ip, src_port |-> Recvd(l).src_port,
                     msg |-> Recvd(l).payload]

LEMMA DataAtDestEffect ==
  ASSUME IInv, NEW l \in Link, DataAtDest(l)
  PROVE  /\ Receive(l) /\ ForMe(l) /\ Recvd(l).frame_type = "DATA"
         /\ \/ Still(Held, Held')
            \/ \E p \in Path :
                 /\ p \in reachable(l.to, port_spath[l.to], Recvd(l).dst_port)
                 /\ EtherDatagram(l) \in Delivery
                 /\ app_q' = deliver(l.to, {p}, EtherDatagram(l))
                 /\ Moved(Held, Held', <<"wire", l>>, <<"app", <<l.to, p>>>>, Head(chan[l]),
                          EtherDatagram(l))
<1>1. /\ TypeOK /\ Receive(l) /\ ForMe(l) /\ Recvd(l).frame_type = "DATA"
      /\ chan[l] # <<>> /\ l.to \in Node
  BY LinkFacts, ZenonT(30) DEF IInv, DataAtDest, EtherMsg, Receive
<1> DEFINE hit == reachable(l.to, port_spath[l.to], Recvd(l).dst_port)
<1>2. /\ app_q' = deliver(l.to, hit, EtherDatagram(l)) /\ chan' = Sent({l}, <<>>)
      /\ pending' = pending /\ proc_q' = proc_q
  BY ZenonT(30) DEF DataAtDest, EtherDatagram
<1>3. /\ \A k \in Link : Thin("wire", chan[k], chan'[k])
      /\ Without("wire", chan[l], chan'[l], Head(chan[l]))
  BY <1>1, <1>2, TakenWire, ZenonT(30)
<1>4. EtherDatagram(l) \in Delivery
  BY <1>1, RecvdType, ZenonT(30) DEF Delivery, EtherDatagram, HostFrame, Frame
<1>5. port_spath[l.to] \in Seq(PortEntry)
  BY <1>1 DEF TypeOK
<1>6. CASE hit = {}
  <2>1. \A k \in Node, r \in Path : Thin("app", app_q[k][r], app_q'[k][r])
    BY <1>1, <1>2, <1>6, DeliverNone, ZenonT(30)
  <2> QED
    BY <1>1, <1>2, <1>3, <2>1, QuietQueues, SameThin, ZenonT(30)
<1>7. CASE hit # {}
  <2>1. PICK p \in hit : TRUE
    BY <1>7, ZenonT(30)
  <2>2. p \in Path /\ hit = {p}
    BY <1>5, ReachOne, ZenonT(30)
  <2>3. app_q' = deliver(l.to, {p}, EtherDatagram(l))
    BY <1>2, <2>2, ZenonT(30)
  <2>4. /\ With("app", app_q[l.to][p], app_q'[l.to][p], EtherDatagram(l))
        /\ \A k \in Node, q \in Path : <<"app", <<k, q>>>> # <<"app", <<l.to, p>>>> =>
             Thin("app", app_q[k][q], app_q'[k][q])
    BY <1>1, <1>4, <2>2, <2>3, DeliverOne, ZenonT(30)
  <2>5. ThinBut(<<"wire", l>>, <<"app", <<l.to, p>>>>)
    BY <1>2, <1>3, <2>4, SameThin, ZenonT(30) DEF ThinBut
  <2>6. Moved(Held, Held', <<"wire", l>>, <<"app", <<l.to, p>>>>, Head(chan[l]), EtherDatagram(l))
    BY <1>1, <1>3, <2>2, <2>4, <2>5, HeldIs, HeldIsNext, PlacesFacts, MovedFrom, ZenonT(30)
  <2> QED
    BY <1>1, <1>4, <2>1, <2>2, <2>3, <2>6, ZenonT(30)
<1> QED
  BY <1>1, <1>6, <1>7, ZenonT(30)
-----------------------------------------------------------------------------
(* The applications. *)

\* msg_send puts its request on the daemon's socket, or loses it.
LEMMA SendWith ==
  ASSUME TypeOK, NEW n \in Node, NEW r \in Request, msg_send(n, r)
  PROVE  /\ With("proc", proc_q[n], proc_q'[n], r)
         /\ \A m \in Node : m # n => Thin("proc", proc_q[m], proc_q'[m])
<1>1. /\ proc_q \in [Node -> Seq(Request)]
      /\ proc_q' = [proc_q EXCEPT ![n] = IF up[n] THEN Append(@, r) ELSE @]
  BY DEF TypeOK, msg_send
<1>2. /\ proc_q[n] \in Seq(Request)
      /\ proc_q'[n] = proc_q[n] \/ proc_q'[n] = Append(proc_q[n], r)
      /\ \A m \in Node : m # n => proc_q'[m] = proc_q[m]
  BY <1>1
<1>3. With("proc", proc_q[n], proc_q'[n], r)
  BY <1>2, SameThin, ThinWith, AppendWith, ZenonT(30)
<1> QED
  BY <1>2, <1>3, SameThin, ZenonT(30)

\* What the server sends for the datagram at the head of its queue.
Answer(n) == [destip |-> Head(app_q[n][ServPath]).src_ip,
              destport |-> Head(app_q[n][ServPath]).src_port,
              msg |-> MaxMsg + Head(app_q[n][ServPath]).msg,
              filename |-> ServPath, route_disc_flag |-> 0]

LEMMA ServerReplyEffect ==
  ASSUME IInv, NEW n \in Node, ServerReply(n)
  PROVE  /\ Head(app_q[n][ServPath]) \in Delivery
         /\ Head(app_q[n][ServPath]) \in Vals(app_q[n][ServPath])
         /\ Moved(Held, Held', <<"app", <<n, ServPath>>>>, <<"proc", n>>,
                  Head(app_q[n][ServPath]), Answer(n))
<1> DEFINE m == Head(app_q[n][ServPath])
<1>1. /\ TypeOK /\ ServPath \in Path
      /\ app_q[n][ServPath] # <<>>
      /\ msg_send(n, Answer(n))
      /\ app_q' = [app_q EXCEPT ![n][ServPath] = Tail(@)]
      /\ pending' = pending /\ chan' = chan
  BY ZenonT(30) DEF IInv, ServerReply, Answer, Path, memory
<1>2. app_q \in [Node -> [Path -> Seq(Delivery)]]
  BY <1>1, ZenonT(30) DEF TypeOK
<1>3. app_q[n][ServPath] \in Seq(Delivery)
  BY <1>1, <1>2, ZenonT(30)
<1>4. m \in Delivery
  BY <1>1, <1>3, SeqHeadTail, ZenonT(30)
<1>5. Answer(n) \in Request
  <2>1. m.src_ip \in Node /\ m.src_port \in Int /\ MaxMsg + m.msg \in Nat
    BY <1>4, NumberAssumption DEF Delivery
  <2>2. Answer(n) = [destip |-> m.src_ip, destport |-> m.src_port, msg |-> MaxMsg + m.msg,
                     filename |-> ServPath, route_disc_flag |-> 0]
    BY DEF Answer
  <2> HIDE DEF m
  <2> QED
    BY <1>1, <2>1, <2>2 DEF Request
<1>6. /\ app_q'[n][ServPath] = Tail(app_q[n][ServPath])
      /\ \A k \in Node, p \in Path : k # n \/ p # ServPath => app_q'[k][p] = app_q[k][p]
  BY <1>1, <1>2
<1>7. Without("app", app_q[n][ServPath], app_q'[n][ServPath], m)
  BY <1>1, <1>3, <1>6, TailWithout, ZenonT(30)
<1>8. /\ With("proc", proc_q[n], proc_q'[n], Answer(n))
      /\ \A k \in Node : k # n => Thin("proc", proc_q[k], proc_q'[k])
  BY <1>1, <1>5, SendWith, ZenonT(30)
<1>9. ThinBut(<<"app", <<n, ServPath>>>>, <<"proc", n>>)
  BY <1>1, <1>6, <1>8, SameThin, ZenonT(30) DEF ThinBut
<1>10. Moved(Held, Held', <<"app", <<n, ServPath>>>>, <<"proc", n>>, m, Answer(n))
  BY <1>1, <1>7, <1>8, <1>9, HeldIs, HeldIsNext, PlacesFacts, MovedFrom, ZenonT(30)
<1>11. m \in Vals(app_q[n][ServPath])
  BY <1>7, ZenonT(30) DEF Without
<1> QED
  BY <1>4, <1>10, <1>11, ZenonT(30)

\* What a client sends.
Question(w) == [destip |-> w.dest, destport |-> ServPort, msg |-> Len(asked) + 1,
                filename |-> w.path, route_disc_flag |-> w.flag]

\* A message that was not there comes to y0.
Came(H, G, y0, u) ==
  /\ y0 \in Places
  /\ With(y0[1], H[y0], G[y0], u)
  /\ \A x \in Places : x # y0 => Thin(x[1], H[x], G[x])

LEMMA ClientSendEffect ==
  ASSUME IInv, NEW w \in Want, ClientSend(w)
  PROVE  /\ Question(w) \in Request /\ w.node \in Node /\ w.path \in ClientPath
         /\ Len(asked) \in Nat /\ Len(asked') = Len(asked) + 1
         /\ Came(Held, Held', <<"proc", w.node>>, Question(w))
<1>1. /\ TypeOK /\ msg_send(w.node, Question(w)) /\ asked' = Append(asked, w)
      /\ pending' = pending /\ chan' = chan /\ app_q' = app_q
  BY ZenonT(30) DEF IInv, ClientSend, Question, memory
<1>2. w \in [node : Node, path : ClientPath, dest : Node, flag : {0, 1}]
  BY PathAssumption, ZenonT(30)
<1>3. Len(asked) \in Nat /\ Len(asked') = Len(asked) + 1
  BY <1>1 DEF TypeOK
<1>4. Question(w) \in Request
  BY <1>2, <1>3, NumberAssumption DEF Question, Request, Path
<1>5. /\ With("proc", proc_q[w.node], proc_q'[w.node], Question(w))
      /\ \A k \in Node : k # w.node => Thin("proc", proc_q[k], proc_q'[k])
  BY <1>1, <1>2, <1>4, SendWith, ZenonT(30)
<1> DEFINE y == <<"proc", w.node>>
<1>6. y \in Places /\ y[1] = "proc" /\ w.node \in Node
  BY <1>2, PlacesFacts, ZenonT(30)
<1>7. ThinBut(y, y)
  BY <1>1, <1>5, SameThin, ZenonT(30) DEF ThinBut
<1>8. With(y[1], Held[y], Held'[y], Question(w))
  BY <1>5, <1>6, HeldIs, HeldIsNext, ZenonT(30)
<1> HIDE DEF y
<1>9. Came(Held, Held', y, Question(w))
  BY <1>6, <1>7, <1>8, ThinButPlaces DEF Came
<1> QED
  BY <1>2, <1>3, <1>4, <1>9, ZenonT(30) DEF y

\* A new token does not meet an old one.
LEMMA CameOne ==
  ASSUME NEW H, NEW G, NEW q \in Nat, OneAt(H, q), NEW y0, NEW u, Came(H, G, y0, u),
         \A t \in token(y0[1], u) : t = q + 1, Carried(y0[1], u, q + 1)
  PROVE  OneAt(G, q + 1)
<1>1. ASSUME NEW kind, NEW v, Control(kind, v) \/ Carried(kind, v, q)
      PROVE  /\ Other(kind, v, y0[1], u)
             /\ Control(kind, v) \/ Carried(kind, v, q + 1)
  <2>1. CASE Control(kind, v)
    BY <2>1, ControlOther, ZenonT(30)
  <2>2. CASE Carried(kind, v, q)
    <3>1. \A t \in token(kind, v) : t <= q /\ t \in Int
      BY <2>2, NumberAssumption DEF Carried, token
    <3>2. \A t \in token(kind, v) : t # q + 1 /\ t <= q + 1
      BY <3>1
    <3> QED
      BY <2>2, <3>2, ZenonT(30) DEF Other, Carried
  <2> QED
    BY <1>1, <2>1, <2>2, ZenonT(30)
<1>2. \A x \in Places : \A v \in Vals(H[x]) :
        /\ Other(x[1], v, y0[1], u)
        /\ Control(x[1], v) \/ Carried(x[1], v, q + 1)
  BY <1>1, ZenonT(30) DEF OneAt
<1>3. \A x \in Places : Single(x[1], G[x])
  BY <1>2, ZenonT(30) DEF Came, With, Thin, OneAt
<1>4. \A x \in Places : \A v \in Vals(G[x]) :
        v \in Vals(H[x]) \/ Control(x[1], v) \/ (x = y0 /\ v = u)
  BY ZenonT(30) DEF Came, With, Thin
<1>5. \A x \in Places : x # y0 => \A v \in Vals(G[x]) : Other(x[1], v, y0[1], u)
  BY <1>2, <1>4, ControlOther, ZenonT(30)
<1>6. ASSUME NEW x \in Places, NEW y \in Places, x # y,
             NEW v \in Vals(G[x]), NEW w \in Vals(G[y])
      PROVE  Other(x[1], v, y[1], w)
  <2>1. CASE Control(x[1], v) \/ Control(y[1], w)
    BY <2>1, ControlOther, ZenonT(30)
  <2>2. CASE v \in Vals(H[x]) /\ w \in Vals(H[y])
    BY <1>6, <2>2, ZenonT(30) DEF OneAt
  <2>3. CASE y = y0 /\ w = u
    BY <1>5, <1>6, <2>3, ZenonT(30)
  <2>4. CASE x = y0 /\ v = u
    BY <1>5, <1>6, <2>4, OtherSymmetric
  <2> QED
    BY <1>4, <2>1, <2>2, <2>3, <2>4, ZenonT(30)
<1>7. ASSUME NEW x \in Places, NEW v \in Vals(G[x])
      PROVE  Control(x[1], v) \/ Carried(x[1], v, q + 1)
  BY <1>2, <1>4, ZenonT(30)
<1> QED
  BY <1>3, <1>6, <1>7, ZenonT(30) DEF OneAt
-----------------------------------------------------------------------------
(* No message is ever in two places. *)

\* What comes carries the message that went.
LEMMA MovedSame ==
  ASSUME NEW H, NEW G, NEW q, OneAt(H, q), NEW x0, NEW y0, NEW z, NEW u,
         Moved(H, G, x0, y0, z, u), ident(y0[1], u) = ident(x0[1], z),
         ~Control(x0[1], z), y0[1] \in {"park", "wire"} => u.frame_type = "DATA"
  PROVE  OneAt(G, q)
<1>1. Carried(x0[1], z, q)
  BY ZenonT(30) DEF OneAt, Moved, Without
<1>2. token(y0[1], u) = token(x0[1], z)
  BY ZenonT(30) DEF token
<1>3. Carried(y0[1], u, q)
  BY <1>1, <1>2, ZenonT(30) DEF Carried
<1> QED
  BY <1>2, <1>3, MovedOne, ZenonT(30)

LEMMA PeerOne ==
  ASSUME MInv, NEW n \in Node, HandlePeerMsg(n)
  PROVE  OneAt(Held', Len(asked)) /\ asked' = asked
<1> DEFINE r == Head(proc_q[n])
<1>1. IInv /\ TypeOK /\ OneAt(Held, Len(asked)) /\ PeerMsg(n) /\ r \in Request
  BY PeerType, ZenonT(30) DEF MInv, IInv, HandlePeerMsg, PeerLocal, PeerDiscover, PeerSend
<1>2. asked' = asked
  BY ZenonT(30) DEF HandlePeerMsg, PeerLocal, PeerDiscover, PeerSend, apps
<1>3. r.filename \in Path
  BY <1>1 DEF Request
<1>4. ident("proc", r) = r.msg /\ ~Control("proc", r)
  BY DEF ident, Control
<1>5. CASE PeerLocal(n)
  <2>1. CASE Still(Held, Held')
    BY <1>1, <1>2, <2>1, StillOne, ZenonT(30)
  <2>2. ASSUME NEW port \in Ports(n), NEW p \in Path,
               Moved(Held, Held', <<"proc", n>>, <<"app", <<n, p>>>>, r, LocalDatagram(n, port))
        PROVE  OneAt(Held', Len(asked))
    <3>1. ident("app", LocalDatagram(n, port)) = r.msg
      BY ZenonT(30) DEF ident, LocalDatagram
    <3> HIDE DEF r
    <3> QED
      BY <1>1, <1>4, <2>2, <3>1, MovedSame, ZenonT(30)
  <2> QED
    BY <1>1, <1>2, <1>5, <2>1, <2>2, PeerLocalEffect, ZenonT(30)
<1>6. CASE PeerDiscover(n)
  <2>1. PICK port \in Ports(n) :
           /\ fetch_entry_path(n, r.filename, port)
           /\ Moved(Held, Held', <<"proc", n>>, <<"park", n>>, r, Parked(n, port))
    BY <1>1, <1>6, PeerDiscoverEffect, ZenonT(30)
  <2>2. port \in Int /\ r.destip # n
    BY <1>1, <1>3, <1>6, <2>1, FetchPathType, ZenonT(30) DEF PeerDiscover
  <2>3. Parked(n, port).frame_type = "DATA" /\ ident("park", Parked(n, port)) = r.msg
    BY <1>1, <2>2, ParkedIs, ZenonT(30) DEF ident
  <2> HIDE DEF r
  <2> QED
    BY <1>1, <1>2, <1>4, <2>1, <2>3, MovedSame, ZenonT(30)
<1>7. CASE PeerSend(n)
  <2>1. PICK port \in Ports(n), e \in Entry, k \in Link :
           /\ fetch_entry_path(n, r.filename, port)
           /\ r.route_disc_flag # 1
           /\ Moved(Held, Held', <<"proc", n>>, <<"wire", k>>, r, Dispatched(n, e, port))
    BY <1>1, <1>7, PeerSendEffect, ZenonT(30)
  <2>2. port \in Int /\ r.destip # n
    BY <1>1, <1>3, <1>7, <2>1, FetchPathType, ZenonT(30) DEF PeerSend
  <2>3. /\ Dispatched(n, e, port).frame_type = "DATA"
        /\ ident("wire", Dispatched(n, e, port)) = r.msg
    <3>1. MaySend(n, e, port)
      BY <1>1, <2>1, <2>2, ZenonT(30) DEF MaySend
    <3>2. Dispatch(n, e, port)
      BY <3>1, DispatchedIs, ZenonT(30)
    <3> QED
      BY <3>2, Idents, ZenonT(30) DEF Dispatch
  <2> HIDE DEF r
  <2> QED
    BY <1>1, <1>2, <1>4, <2>1, <2>3, MovedSame, ZenonT(30)
<1> QED
  BY <1>5, <1>6, <1>7, ZenonT(30) DEF HandlePeerMsg

LEMMA EtherMoves ==
  ASSUME MInv, NEW l \in Link, HandleEthernetMsg(l)
  PROVE  OneAt(Held', Len(asked)) /\ asked' = asked
<1>1. IInv /\ TypeOK /\ OneAt(Held, Len(asked))
  BY ZenonT(30) DEF MInv, IInv
<1>2. asked' = asked
  BY DEF HandleEthernetMsg, IgnoreDuplicate, RreqAtDest, RreqFromTable, RreqFlood,
     RrepAtDest, RrepUnused, RrepForward, RrepPark, DataAtDest, DataForward, DataPark,
     Asent, apps
<1>3. CASE \/ IgnoreDuplicate(l) \/ RreqAtDest(l) \/ RreqFromTable(l) \/ RreqFlood(l)
           \/ RrepUnused(l) \/ RrepForward(l) \/ RrepPark(l) \/ Asent(l)
  <2>1. Still(Held, Held')
    BY <1>1, <1>3, TakenEffect, RreqAtDestEffect, RreqFromTableEffect, RreqFloodEffect,
       RrepForwardEffect, RrepParkEffect, AsentEffect
  <2> QED
    BY <1>1, <1>2, <2>1, StillOne, ZenonT(30)
<1>4. CASE RrepAtDest(l)
  <2>1. CASE Still(Held, Held')
    BY <1>1, <1>2, <2>1, StillOne, ZenonT(30)
  <2>2. ASSUME NEW i \in DOMAIN pending[l.to], NEW k \in Link,
               pending[l.to][i].frame_type = "DATA",
               Moved(Held, Held', <<"park", l.to>>, <<"wire", k>>, pending[l.to][i],
                     convert_host_net_order(pending[l.to][i]))
        PROVE  OneAt(Held', Len(asked))
    <3> DEFINE f == pending[l.to][i]
    <3>1. f \in HostFrame /\ ~Control("park", f)
      BY <1>1, <2>2, LinkFacts, UnparkType, ParkedIsHost, ZenonT(30) DEF Control
    <3>2. /\ convert_host_net_order(f).frame_type = "DATA"
          /\ ident("wire", convert_host_net_order(f)) = ident("park", f)
      BY <2>2, <3>1, ZenonT(30) DEF convert_host_net_order, SwapOrder, HostFrame, Frame, ident
    <3> HIDE DEF f
    <3>3. Moved(Held, Held', <<"park", l.to>>, <<"wire", k>>, f, convert_host_net_order(f))
      BY <2>2, ZenonT(30) DEF f
    <3> QED
      BY <1>1, <3>1, <3>2, <3>3, MovedSame, ZenonT(30)
  <2> QED
    BY <1>2, <1>4, <2>1, <2>2, RrepAtDestEffect, ZenonT(30)
<1>5. ASSUME Receive(l), Recvd(l).frame_type = "DATA"
      PROVE  /\ ~Control("wire", Head(chan[l]))
             /\ ident("wire", Head(chan[l])) = Recvd(l).payload
  BY <1>1, <1>5, RecvdIs, ZenonT(30) DEF Control, ident
<1>6. CASE DataAtDest(l)
  <2>1. CASE Still(Held, Held')
    BY <1>1, <1>2, <2>1, StillOne, ZenonT(30)
  <2>2. ASSUME NEW p \in Path,
               Moved(Held, Held', <<"wire", l>>, <<"app", <<l.to, p>>>>, Head(chan[l]),
                     EtherDatagram(l))
        PROVE  OneAt(Held', Len(asked))
    <3>1. ident("app", EtherDatagram(l)) = Recvd(l).payload
      BY ZenonT(30) DEF ident, EtherDatagram
    <3>2. Receive(l) /\ Recvd(l).frame_type = "DATA"
      BY <1>1, <1>6, DataAtDestEffect, ZenonT(30)
    <3> QED
      BY <1>1, <1>5, <2>2, <3>1, <3>2, MovedSame, ZenonT(30)
  <2> QED
    BY <1>1, <1>2, <1>6, <2>1, <2>2, DataAtDestEffect, ZenonT(30)
<1>7. CASE DataForward(l)
  <2>1. PICK k \in Link :
          Moved(Held, Held', <<"wire", l>>, <<"wire", k>>, Head(chan[l]), Forwarded(l))
    BY <1>1, <1>7, DataForwardEffect, ZenonT(30)
  <2>2. Receive(l) /\ Recvd(l).frame_type = "DATA"
    BY <1>1, <1>7, DataForwardEffect, ZenonT(30)
  <2>3. Forwarded(l).frame_type = "DATA" /\ ident("wire", Forwarded(l)) = Recvd(l).payload
    BY <1>1, <2>2, ForwardedIs, ZenonT(30) DEF ident
  <2> QED
    BY <1>1, <1>2, <1>5, <2>1, <2>2, <2>3, MovedSame, ZenonT(30)
<1>8. CASE DataPark(l)
  <2>1. /\ Moved(Held, Held', <<"wire", l>>, <<"park", l.to>>, Head(chan[l]), Recvd(l))
        /\ Receive(l) /\ Recvd(l).frame_type = "DATA"
    BY <1>1, <1>8, DataParkEffect, ZenonT(30)
  <2>2. ident("park", Recvd(l)) = Recvd(l).payload
    BY DEF ident
  <2> QED
    BY <1>1, <1>2, <1>5, <2>1, <2>2, MovedSame, ZenonT(30)
<1> QED
  BY <1>3, <1>4, <1>6, <1>7, <1>8, ZenonT(30) DEF HandleEthernetMsg
LEMMA ServerOne ==
  ASSUME MInv, NEW n \in Node, ServerReply(n)
  PROVE  OneAt(Held', Len(asked)) /\ asked' = asked
<1> DEFINE m == Head(app_q[n][ServPath])
           x == <<"app", <<n, ServPath>>>>
<1>1. IInv /\ OneAt(Held, Len(asked))
  BY ZenonT(30) DEF MInv
<1>2. asked' = asked
  BY DEF ServerReply
<1>3. m \in Delivery /\ m \in Vals(app_q[n][ServPath])
      /\ Moved(Held, Held', x, <<"proc", n>>, m, Answer(n))
  BY <1>1, ServerReplyEffect, ZenonT(30)
<1>4. ident("app", m) = m.msg /\ ident("proc", Answer(n)) = MaxMsg + m.msg /\ ~Control("app", m)
  BY DEF ident, Answer, Control
<1>5. m.msg \in Nat /\ MaxMsg \in Nat
  BY <1>3, NumberAssumption DEF Delivery
<1>6. x \in Places /\ m \in Vals(Held[x]) /\ x[1] = "app"
  BY <1>3, HeldIs, PlacesFacts, ZenonT(30) DEF Path
<1> HIDE DEF m, x
<1>7. Carried("app", m, Len(asked))
  BY <1>1, <1>4, <1>6, ZenonT(30) DEF OneAt
<1>8. m.msg > 0
  BY <1>4, <1>5, <1>7 DEF Carried
<1>9. token("proc", Answer(n)) \subseteq token("app", m)
  BY <1>4, <1>5, <1>8 DEF token
<1>10. Carried("proc", Answer(n), Len(asked))
  <2>1. ident("proc", Answer(n)) \in Nat \ {0}
    BY <1>4, <1>5, <1>8
  <2> QED
    BY <1>7, <1>9, <2>1, ZenonT(30) DEF Carried
<1> QED
  BY <1>1, <1>2, <1>3, <1>6, <1>9, <1>10, MovedOne, ZenonT(30)

LEMMA ClientOne ==
  ASSUME MInv, NEW w \in Want, ClientSend(w)
  PROVE  OneAt(Held', Len(asked'))
<1> DEFINE y == <<"proc", w.node>>
<1>1. IInv /\ OneAt(Held, Len(asked))
  BY DEF MInv
<1>2. /\ Len(asked) \in Nat /\ Len(asked') = Len(asked) + 1
      /\ Came(Held, Held', y, Question(w))
  BY <1>1, ClientSendEffect, ZenonT(30)
<1>3. y[1] = "proc"
  OBVIOUS
<1>4. ident("proc", Question(w)) = Len(asked) + 1 /\ MaxMsg \in Nat /\ Len(asked) < MaxMsg
  BY NumberAssumption, ZenonT(30) DEF ident, Question, ClientSend
<1>5. \A t \in token("proc", Question(w)) : t = Len(asked) + 1
  BY <1>2, <1>4 DEF token
<1>6. Carried("proc", Question(w), Len(asked) + 1)
  BY <1>2, <1>4, <1>5 DEF Carried
<1> HIDE DEF y
<1> QED
  BY <1>1, <1>2, <1>3, <1>5, <1>6, CameOne, ZenonT(30)

\* The inductive step.
LEMMA NextOne ==
  ASSUME MInv, [Next]_vars
  PROVE  OneAt(Held', Len(asked'))
<1>1. IInv /\ OneAt(Held, Len(asked))
  BY DEF MInv
<1>2. ASSUME Still(Held, Held'), asked' = asked PROVE OneAt(Held', Len(asked'))
  BY <1>1, <1>2, StillOne, ZenonT(30)
<1>3. ASSUME NEW n \in Node, HandlePeerMsg(n) \/ ServerReply(n)
      PROVE  OneAt(Held', Len(asked'))
  BY <1>3, PeerOne, ServerOne, ZenonT(30)
<1>4. ASSUME NEW l \in Link, HandleEthernetMsg(l)
      PROVE  OneAt(Held', Len(asked'))
  BY <1>4, EtherMoves, ZenonT(30)
<1>5. ASSUME NEW l \in Link, Unheard(l) \/ Lose(l)
      PROVE  OneAt(Held', Len(asked'))
  <2>1. asked' = asked
    BY <1>5, ZenonT(30) DEF Unheard, Lose, apps
  <2> QED
    BY <1>1, <1>2, <1>5, <2>1, TakenEffect, ZenonT(30)
<1>6. ASSUME NEW n \in Node, Tick(n) \/ Kill(n) \/ ServerStart(n) \/ Restart(n)
      PROVE  OneAt(Held', Len(asked'))
  <2>1. asked' = asked
    BY <1>6, ZenonT(30) DEF Tick, Kill, ServerStart, Restart, apps
  <2> QED
    BY <1>1, <1>2, <1>6, <2>1, IdleEffect, RestartEffect, ZenonT(30)
<1>7. ASSUME NEW n \in Node, NEW p \in Path, AppExit(n, p)
      PROVE  OneAt(Held', Len(asked'))
  <2>1. asked' = asked
    BY <1>7, ZenonT(30) DEF AppExit
  <2> QED
    BY <1>1, <1>2, <1>7, <2>1, AppExitEffect, ZenonT(30)
<1>8. CASE UNCHANGED vars
  <2>1. /\ proc_q' = proc_q /\ pending' = pending /\ chan' = chan /\ app_q' = app_q
        /\ asked' = asked
    BY <1>8, ZenonT(30) DEF vars, memory, apps
  <2> QED
    BY <1>2, <2>1, QuietEther, SameThin, ZenonT(30)
<1>9. CASE Environment
  BY <1>5, <1>6, <1>7, <1>9, ClientOne, ZenonT(30) DEF Environment
<1> QED
  BY <1>3, <1>4, <1>5, <1>8, <1>9, ZenonT(30) DEF Next

LEMMA InitEmpty ==
  ASSUME Init, NEW x \in Places
  PROVE  Held[x] = <<>>
<1>1. CASE \E n \in Node : x = <<"proc", n>>
  BY <1>1, HeldIs, ZenonT(30) DEF Init
<1>2. CASE \E n \in Node : x = <<"park", n>>
  BY <1>2, HeldIs, ZenonT(30) DEF Init
<1>3. CASE \E l \in Link : x = <<"wire", l>>
  BY <1>3, HeldIs, ZenonT(30) DEF Init
<1>4. CASE \E n \in Node, p \in Path : x = <<"app", <<n, p>>>>
  BY <1>4, HeldIs DEF Init
<1> QED
  BY <1>1, <1>2, <1>3, <1>4, PlacesFacts, ZenonT(30)

LEMMA InitOne == Init => OneAt(Held, Len(asked))
<1> SUFFICES ASSUME Init PROVE OneAt(Held, Len(asked))
  OBVIOUS
<1>1. \A x \in Places : Held[x] = <<>>
  BY InitEmpty
<1>2. Vals(<<>>) = {} /\ DOMAIN <<>> = {}
  BY DEF Vals
<1> QED
  BY <1>1, <1>2, ZenonT(30) DEF OneAt, Single

\* Every message in the system is in one place.
THEOREM MessagesApart == Spec => []MInv
<1>1. Init => MInv
  BY InitOne, InitIInv, ZenonT(30) DEF MInv
<1>2. MInv /\ [Next]_vars => MInv'
  BY NextOne, NextIInv DEF MInv
<1> QED
  BY <1>1, <1>2, PTL DEF Spec
\* A copy's place and its position there.
Mark(x, i) == IF x[1] = "app" THEN <<"app", x[2][1], x[2][2], i>> ELSE <<x[1], x[2], i>>

LEMMA CopyPlace ==
  ASSUME NEW m, NEW g \in Copies(m)
  PROVE  \E x \in Places : \E i \in DOMAIN Held[x] :
           g = Mark(x, i) /\ ident(x[1], Held[x][i]) = m
<1>1. ASSUME NEW n \in Node, NEW i \in DOMAIN proc_q[n], proc_q[n][i].msg = m,
             g = <<"proc", n, i>>
      PROVE  \E x \in Places : \E j \in DOMAIN Held[x] :
               g = Mark(x, j) /\ ident(x[1], Held[x][j]) = m
  <2> DEFINE x == <<"proc", n>>
  <2>1. x \in Places /\ Held[x] = proc_q[n] /\ x[1] = "proc" /\ x[2] = n
    BY HeldIs, PlacesFacts, ZenonT(30)
  <2> QED
    BY <1>1, <2>1 DEF Mark, ident
<1>2. ASSUME NEW n \in Node, NEW i \in DOMAIN pending[n], pending[n][i].payload = m,
             g = <<"park", n, i>>
      PROVE  \E x \in Places : \E j \in DOMAIN Held[x] :
               g = Mark(x, j) /\ ident(x[1], Held[x][j]) = m
  <2> DEFINE x == <<"park", n>>
  <2>1. x \in Places /\ Held[x] = pending[n] /\ x[1] = "park" /\ x[2] = n
    BY HeldIs, PlacesFacts, ZenonT(30)
  <2> QED
    BY <1>2, <2>1 DEF Mark, ident
<1>3. ASSUME NEW l \in Link, NEW i \in DOMAIN chan[l], chan[l][i].payload = m,
             g = <<"wire", l, i>>
      PROVE  \E x \in Places : \E j \in DOMAIN Held[x] :
               g = Mark(x, j) /\ ident(x[1], Held[x][j]) = m
  <2> DEFINE x == <<"wire", l>>
  <2>1. x \in Places /\ Held[x] = chan[l] /\ x[1] = "wire" /\ x[2] = l
    BY HeldIs, PlacesFacts, ZenonT(30)
  <2> QED
    BY <1>3, <2>1, ZenonT(30) DEF Mark, ident
<1>4. ASSUME NEW n \in Node, NEW p \in Path, NEW i \in DOMAIN app_q[n][p],
             app_q[n][p][i].msg = m, g = <<"app", n, p, i>>
      PROVE  \E x \in Places : \E j \in DOMAIN Held[x] :
               g = Mark(x, j) /\ ident(x[1], Held[x][j]) = m
  <2> DEFINE x == <<"app", <<n, p>>>>
  <2>1. /\ x \in Places /\ Held[x] = app_q[n][p] /\ x[1] = "app"
        /\ x[2][1] = n /\ x[2][2] = p
    BY HeldIs, PlacesFacts, ZenonT(30)
  <2> QED
    BY <1>4, <2>1, ZenonT(30) DEF Mark, ident
<1>5. \/ \E n \in Node : \E i \in DOMAIN proc_q[n] :
           proc_q[n][i].msg = m /\ g = <<"proc", n, i>>
      \/ \E n \in Node : \E i \in DOMAIN pending[n] :
           pending[n][i].payload = m /\ g = <<"park", n, i>>
      \/ \E l \in Link : \E i \in DOMAIN chan[l] :
           chan[l][i].payload = m /\ g = <<"wire", l, i>>
      \/ \E n \in Node, p \in Path : \E i \in DOMAIN app_q[n][p] :
           app_q[n][p][i].msg = m /\ g = <<"app", n, p, i>>
  BY DEF Copies
<1> QED
  BY <1>1, <1>2, <1>3, <1>4, <1>5, ZenonT(30)

LEMMA OneCopy ==
  ASSUME OneAt(Held, Len(asked)), NEW m \in 1 .. 2 * MaxMsg,
         NEW g \in Copies(m), NEW h \in Copies(m)
  PROVE  g = h
<1>1. PICK x \in Places : \E i \in DOMAIN Held[x] : g = Mark(x, i) /\ ident(x[1], Held[x][i]) = m
  BY CopyPlace, ZenonT(30)
<1>2. PICK i \in DOMAIN Held[x] : g = Mark(x, i) /\ ident(x[1], Held[x][i]) = m
  BY <1>1, ZenonT(30)
<1>3. PICK y \in Places : \E j \in DOMAIN Held[y] : h = Mark(y, j) /\ ident(y[1], Held[y][j]) = m
  BY CopyPlace, ZenonT(30)
<1>4. PICK j \in DOMAIN Held[y] : h = Mark(y, j) /\ ident(y[1], Held[y][j]) = m
  BY <1>3, ZenonT(30)
<1>5. PICK t \in 1 .. MaxMsg : m = t \/ m = MaxMsg + t
  <2>1. m <= MaxMsg => m \in 1 .. MaxMsg
    BY NumberAssumption
  <2>2. ~(m <= MaxMsg) => m - MaxMsg \in 1 .. MaxMsg /\ m = MaxMsg + (m - MaxMsg)
    BY NumberAssumption
  <2> QED
    BY <2>1, <2>2, ZenonT(30)
<1>6. t \in token(x[1], Held[x][i]) /\ t \in token(y[1], Held[y][j])
  BY <1>2, <1>4, <1>5, ZenonT(30) DEF token
<1>7. x = y
  BY <1>6, ZenonT(30) DEF OneAt, Other, Vals
<1>8. i = j
  BY <1>6, <1>7, ZenonT(30) DEF OneAt, Other, Single
<1> QED
  BY <1>2, <1>4, <1>7, <1>8, ZenonT(30)

\* ODR never duplicates a message: in every network, with frames and daemons
\* lost and restarted and applications exiting, the request m or the reply to it
\* waits on at most one socket, link or pending queue.
THEOREM NeverTwice == Spec => []AtMostOnce
<1>1. MInv => AtMostOnce
  BY OneCopy DEF MInv, AtMostOnce
<1> QED
  BY <1>1, MessagesApart, PTL

=============================================================================
