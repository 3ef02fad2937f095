----------------------------- MODULE HostTokens -----------------------------
(***************************************************************************)
(* One machine, for every number of clients, every length of the socket    *)
(* queues and every bound on questions, losses and faults: the inductive   *)
(* invariant, and the steps that move messages and no client.              *)
(*                                                                         *)
(* The argument is one of counting.  A request and the answer made from it *)
(* are one token, which is in one place at a time.  A client sends one     *)
(* token per question and a second one when it repeats the question, and   *)
(* takes one off before it asks again, so that the tokens of a client that *)
(* are about never outnumber its repeated questions by more than one.      *)
(***************************************************************************)
EXTENDS LocalHost, FiniteSetTheorems, TLAPS

\* The backends tried in turn for a leaf that names none.
USE SMT, Zenon, Z3, SMTT(20)

-----------------------------------------------------------------------------
(* Tokens and where they are. *)

tok(m)      == <<m.q, m.try>>
Toks(s)     == {tok(s[i]) : i \in DOMAIN s}
Distinct(s) == \A i, j \in DOMAIN s : tok(s[i]) = tok(s[j]) => i = j
InHand(h)   == IF h = Nobody THEN {} ELSE {tok(h)}

\* The daemon's queue and hands, the server's, the network, and the clients.
Place == {<<i, Elsewhere>> : i \in 1 .. 5} \cup {<<6, c>> : c \in Client}

Held == [l \in Place |->
  CASE l[1] = 1 -> Toks(dq)
    [] l[1] = 2 -> InHand(dhold)
    [] l[1] = 3 -> Toks(sq)
    [] l[1] = 4 -> InHand(shold)
    [] l[1] = 5 -> {tok(m) : m \in net}
    [] l[1] = 6 -> Toks(cq[l[2]])]

\* No token is in two places.
Apart(T) == \A k, l \in Place : \A t \in T[k] : t \in T[l] => k = l

About(T) == UNION {T[l] : l \in Place}

OnePlace ==
  /\ Apart(Held)
  /\ Distinct(dq) /\ Distinct(sq) /\ \A c \in Client : Distinct(cq[c])
  /\ \A m, n \in net : tok(m) = tok(n) => m = n

-----------------------------------------------------------------------------
(* What may be where. *)

\* Every message belongs to a question that was asked.
Known(m) == m.q \in DOMAIN asked

\* A client elsewhere asks this machine; requests on the daemon's socket come
\* from clients here, answers from the server here.
Routed ==
  /\ \A q \in DOMAIN asked : asked[q].client = Elsewhere => asked[q].host = Self
  /\ \A i \in DOMAIN dq : Known(dq[i]) /\ IF dq[i].kind = "request"
                                          THEN Asker(dq[i]) \in Client
                                          ELSE Asked(dq[i]) = Self
  /\ \A i \in DOMAIN sq : Known(sq[i]) /\ sq[i].kind = "request" /\ Asked(sq[i]) = Self
  /\ shold # Nobody => Known(shold) /\ shold.kind = "answer" /\ Asked(shold) = Self
  /\ dhold # Nobody => Known(dhold) /\ IF dhold.kind = "request"
                                       THEN /\ Asked(dhold) = Self
                                            /\ local => Asker(dhold) \in Client
                                       ELSE /\ Asker(dhold) \in Client
                                            /\ local => Asked(dhold) = Self
  /\ \A m \in net : Known(m) /\ IF m.kind = "request"
                                THEN Asked(m) = Self <=> Asker(m) = Elsewhere
                                ELSE Asker(m) \in Client
  /\ \A c \in Client : \A i \in DOMAIN cq[c] : Known(cq[c][i]) /\ Asker(cq[c][i]) = c

-----------------------------------------------------------------------------
(* Clients and their tokens. *)

Mine(c) == {t \in About(Held) : asked[t[1]].client = c}
Rep(c)  == {q \in repeated : asked[q].client = c}

\* One token more than repeated questions: the client has sent its request, or
\* is about to repeat it, and has not read an answer; or it was killed.
Extra(c) == IF cpc[c] \in {"set", "wait", "resend"} \/ (cpc[c] = "dead" /\ c \in killed)
            THEN 1 ELSE 0

Clean(c) == \A q \in Rep(c) : q = cur[c]

TokenInv ==
  \A t \in About(Held) : /\ t \in (DOMAIN asked) \X {1, 2}
                         /\ t[2] = 2 => t[1] \in repeated

ClientInv(c) ==
  /\ cur[c] # 0 => cur[c] \in DOMAIN asked /\ asked[cur[c]].client = c
  /\ \A q \in DOMAIN asked : asked[q].client = c => q <= cur[c]
  /\ cpc[c] \in {"send", "set", "wait", "read", "resend"} => cur[c] # 0
  /\ cpc[c] \in {"send", "set"} => armed[c]
  /\ cpc[c] \in {"prompt", "resend", "dead"} => ~armed[c]
  /\ armed[c] \/ cpc[c] = "resend" => cur[c] \notin repeated
  /\ cpc[c] = "send" => \A t \in About(Held) : t[1] # cur[c]

CountInv(c) ==
  /\ Cardinality(Mine(c)) <= Cardinality(Rep(c)) + Extra(c)
  /\ Clean(c) => \A t \in Mine(c) : t[1] = cur[c]
  /\ cpc[c] = "read" => mparams[c] = cur[c] \/ ~Clean(c)

\* A server that is gone was killed; what it takes to end the daemon.
Ends == (~sup => "server" \in failed) /\ DaemonOutlivesClients

HInv ==
  /\ TypeOK
  /\ OnePlace
  /\ Routed
  /\ repeated \subseteq DOMAIN asked
  /\ TokenInv
  /\ \A c \in Client : ClientInv(c) /\ CountInv(c)
  /\ Ends

-----------------------------------------------------------------------------
(* Tokens of sequences. *)

LEMMA AppendToks ==
  ASSUME NEW S, NEW s \in Seq(S), NEW m \in S
  PROVE  /\ Append(s, m) \in Seq(S) /\ Len(Append(s, m)) = Len(s) + 1
         /\ Toks(Append(s, m)) = Toks(s) \cup {tok(m)}
         /\ Distinct(s) /\ tok(m) \notin Toks(s) => Distinct(Append(s, m))
<1>1. /\ Append(s, m) \in Seq(S) /\ Len(Append(s, m)) = Len(s) + 1
      /\ DOMAIN Append(s, m) = DOMAIN s \cup {Len(s) + 1} /\ Len(s) + 1 \notin DOMAIN s
      /\ Append(s, m)[Len(s) + 1] = m
      /\ \A i \in DOMAIN s : Append(s, m)[i] = s[i]
  OBVIOUS
<1>2. Toks(Append(s, m)) = Toks(s) \cup {tok(m)}
  BY <1>1 DEF Toks
<1>3. ASSUME Distinct(s), tok(m) \notin Toks(s) PROVE Distinct(Append(s, m))
  BY <1>1, <1>3 DEF Toks, Distinct
<1> QED
  BY <1>1, <1>2, <1>3

LEMMA TailToks ==
  ASSUME NEW S, NEW s \in Seq(S), s # <<>>, Distinct(s)
  PROVE  /\ Tail(s) \in Seq(S) /\ Len(Tail(s)) = Len(s) - 1
         /\ Head(s) \in S /\ 1 \in DOMAIN s /\ Head(s) = s[1]
         /\ \A i \in DOMAIN Tail(s) : i + 1 \in DOMAIN s /\ Tail(s)[i] = s[i + 1]
         /\ Toks(Tail(s)) = Toks(s) \ {tok(Head(s))}
         /\ tok(Head(s)) \in Toks(s)
         /\ Distinct(Tail(s))
<1>1. /\ Tail(s) \in Seq(S) /\ Len(Tail(s)) = Len(s) - 1
      /\ Head(s) \in S /\ 1 \in DOMAIN s /\ Head(s) = s[1]
      /\ \A i \in DOMAIN Tail(s) : i \in Nat /\ i + 1 \in DOMAIN s /\ Tail(s)[i] = s[i + 1]
      /\ \A j \in DOMAIN s : j # 1 => \E i \in DOMAIN Tail(s) : j = i + 1
  <2>1. \A j \in DOMAIN s : j # 1 => j - 1 \in DOMAIN Tail(s) /\ j = (j - 1) + 1
    OBVIOUS
  <2> QED
    BY <2>1
<1>2. \A i \in DOMAIN Tail(s) : i + 1 # 1
  BY <1>1
<1>3. \A i \in DOMAIN Tail(s) : tok(Tail(s)[i]) # tok(s[1])
  BY <1>1, <1>2 DEF Distinct
<1>4. Toks(Tail(s)) = Toks(s) \ {tok(Head(s))}
  <2>1. ASSUME NEW t \in Toks(Tail(s)) PROVE t \in Toks(s) \ {tok(Head(s))}
    <3>1. PICK i \in DOMAIN Tail(s) : t = tok(Tail(s)[i])
      BY <2>1 DEF Toks
    <3>2. t = tok(s[i + 1]) /\ i + 1 \in DOMAIN s /\ t # tok(s[1])
      BY <1>1, <1>3, <3>1
    <3> QED
      BY <1>1, <3>2 DEF Toks
  <2>2. ASSUME NEW t \in Toks(s), t # tok(Head(s)) PROVE t \in Toks(Tail(s))
    <3>1. PICK j \in DOMAIN s : t = tok(s[j])
      BY <2>2 DEF Toks
    <3>2. PICK i \in DOMAIN Tail(s) : j = i + 1
      BY <1>1, <2>2, <3>1
    <3>3. t = tok(Tail(s)[i])
      BY <1>1, <3>1, <3>2
    <3> QED
      BY <3>3 DEF Toks
  <2> QED
    BY <2>1, <2>2
<1>5. Distinct(Tail(s))
  <2> SUFFICES ASSUME NEW i \in DOMAIN Tail(s), NEW j \in DOMAIN Tail(s),
                      tok(Tail(s)[i]) = tok(Tail(s)[j])
               PROVE  i = j
    BY DEF Distinct
  <2>1. i + 1 = j + 1
    BY <1>1 DEF Distinct
  <2> QED
    BY <1>1, <2>1
<1> QED
  BY <1>1, <1>4, <1>5, Zenon DEF Toks

LEMMA EmptyToks == Toks(<<>>) = {} /\ Distinct(<<>>)
BY DEF Toks, Distinct

LEMMA UpTo ==
  ASSUME NEW n \in Nat
  PROVE  IsFiniteSet(1 .. n) /\ Cardinality(1 .. n) = n
<1>1. IsFiniteSet(1 .. n) /\ Cardinality(1 .. n) = IF 1 > n THEN 0 ELSE n - 1 + 1
  BY FS_Interval
<1> QED
  BY <1>1

\* A sequence of distinct tokens has as many tokens as elements.
LEMMA ToksCount ==
  ASSUME NEW S, NEW s \in Seq(S), Distinct(s)
  PROVE  IsFiniteSet(Toks(s)) /\ Cardinality(Toks(s)) = Len(s)
<1> DEFINE f == [i \in 1 .. Len(s) |-> tok(s[i])]
<1>1. f \in Bijection(1 .. Len(s), Toks(s))
  <2>1. DOMAIN s = 1 .. Len(s) /\ \A i \in 1 .. Len(s) : f[i] = tok(s[i])
    OBVIOUS
  <2>2. f \in [1 .. Len(s) -> Toks(s)]
    BY <2>1 DEF Toks
  <2>3. \A i, j \in 1 .. Len(s) : f[i] = f[j] => i = j
    BY <2>1 DEF Distinct
  <2>4. \A t \in Toks(s) : \E i \in 1 .. Len(s) : f[i] = t
    BY <2>1 DEF Toks
  <2> HIDE DEF f
  <2> QED
    BY <2>2, <2>3, <2>4 DEF Bijection, Injection, Surjection, IsInjective
<1>2. IsFiniteSet(1 .. Len(s)) /\ Cardinality(1 .. Len(s)) = Len(s)
  BY UpTo
<1>3. ExistsBijection(1 .. Len(s), Toks(s))
  BY <1>1 DEF ExistsBijection
<1> QED
  BY <1>2, <1>3, FS_Bijection

\* Whether everything about a message stands for its token.
LEMMA Tokens ==
  ASSUME NEW m \in Message
  PROVE  /\ tok(m)[1] = m.q /\ tok(m)[2] = m.try /\ tok(m)[2] \in {1, 2}
         /\ answer(m) \in Message /\ answer(m).q = m.q /\ answer(m).kind = "answer"
         /\ tok(answer(m)) = tok(m)
         /\ m # Nobody
<1>1. m.q \in 1 .. MaxAsk /\ m.try \in {1, 2}
  BY DEF Message
<1>2. answer(m) = [q |-> m.q, try |-> m.try, kind |-> "answer"]
  BY DEF Message, answer
<1>3. answer(m) \in Message
  BY <1>1, <1>2 DEF Message
<1>4. m # Nobody
  BY <1>1, BoundAssumption DEF Nobody
<1> QED
  BY <1>1, <1>2, <1>3, <1>4 DEF tok

-----------------------------------------------------------------------------
(* Places. *)

LEMMA PlaceFacts ==
  /\ <<1, Elsewhere>> \in Place /\ <<2, Elsewhere>> \in Place /\ <<3, Elsewhere>> \in Place
  /\ <<4, Elsewhere>> \in Place /\ <<5, Elsewhere>> \in Place
  /\ \A c \in Client : <<6, c>> \in Place
  /\ \A l \in Place : \/ l = <<1, Elsewhere>> \/ l = <<2, Elsewhere>> \/ l = <<3, Elsewhere>>
                      \/ l = <<4, Elsewhere>> \/ l = <<5, Elsewhere>>
                      \/ \E c \in Client : l = <<6, c>>
BY DEF Place

LEMMA HeldFacts ==
  /\ Held[<<1, Elsewhere>>] = Toks(dq)
  /\ Held[<<2, Elsewhere>>] = InHand(dhold)
  /\ Held[<<3, Elsewhere>>] = Toks(sq)
  /\ Held[<<4, Elsewhere>>] = InHand(shold)
  /\ Held[<<5, Elsewhere>>] = {tok(m) : m \in net}
  /\ \A c \in Client : Held[<<6, c>>] = Toks(cq[c])
BY PlaceFacts DEF Held

LEMMA HeldFactsNext ==
  /\ Held'[<<1, Elsewhere>>] = Toks(dq')
  /\ Held'[<<2, Elsewhere>>] = InHand(dhold')
  /\ Held'[<<3, Elsewhere>>] = Toks(sq')
  /\ Held'[<<4, Elsewhere>>] = InHand(shold')
  /\ Held'[<<5, Elsewhere>>] = {tok(m) : m \in net'}
  /\ \A c \in Client : Held'[<<6, c>>] = Toks(cq'[c])
BY PlaceFacts DEF Held, Toks, InHand, tok

\* After a step t is nowhere but in k, and nothing else has come.
Settled(T, U, k, t) == \A l \in Place : /\ U[l] \subseteq T[l] \cup {t}
                                        /\ l # k => t \notin U[l]

LEMMA SettledApart ==
  ASSUME NEW T, NEW U, NEW k, NEW t, Apart(T), Settled(T, U, k, t)
  PROVE  Apart(U) /\ About(U) \subseteq About(T) \cup {t}
<1>1. Apart(U)
  BY DEF Apart, Settled
<1>2. ASSUME NEW x \in About(U) PROVE x \in About(T) \cup {t}
  <2>1. PICK l \in Place : x \in U[l]
    BY <1>2 DEF About
  <2>2. x \in T[l] \cup {t}
    BY <2>1 DEF Settled
  <2> QED
    BY <2>2 DEF About
<1> QED
  BY <1>1, <1>2

\* Nothing has come.
LEMMA FewerApart ==
  ASSUME NEW T, NEW U, Apart(T), \A l \in Place : U[l] \subseteq T[l]
  PROVE  Apart(U) /\ About(U) \subseteq About(T)
<1>1. Apart(U)
  BY DEF Apart
<1>2. About(U) \subseteq About(T)
  BY DEF About
<1> QED
  BY <1>1, <1>2

LEMMA TriesFinite == IsFiniteSet({1, 2})
<1>1. {1, 2} = 1 .. 2
  OBVIOUS
<1>2. 1 \in Int /\ 2 \in Int
  OBVIOUS
<1>3. IsFiniteSet(1 .. 2)
  BY ONLY <1>2, FS_Interval, Zenon
<1> QED
  BY <1>1, <1>3

LEMMA FiniteMine ==
  ASSUME TypeOK, TokenInv, repeated \subseteq DOMAIN asked, NEW c
  PROVE  IsFiniteSet(Mine(c)) /\ IsFiniteSet(Rep(c)) /\ IsFiniteSet(repeated)
<1>1. Len(asked) \in Nat /\ DOMAIN asked = 1 .. Len(asked)
  BY DEF TypeOK
<1>2. IsFiniteSet(1 .. Len(asked)) /\ IsFiniteSet({1, 2})
  BY <1>1, TriesFinite, FS_Interval
<1>3. IsFiniteSet((1 .. Len(asked)) \X {1, 2})
  BY <1>2, FS_Product
<1>4. \A t \in About(Held) : t \in (1 .. Len(asked)) \X {1, 2}
  BY <1>1 DEF TokenInv
<1>5. Mine(c) \subseteq (1 .. Len(asked)) \X {1, 2}
  BY <1>4 DEF Mine
<1>6. repeated \subseteq 1 .. Len(asked) /\ Rep(c) \subseteq 1 .. Len(asked)
  BY <1>1 DEF Rep
<1> QED
  BY <1>2, <1>3, <1>5, <1>6, FS_Subset

-----------------------------------------------------------------------------
(* Messages move, clients stand still. *)

\* t is nowhere but in k.
Only(k, t) ==
  /\ k # <<1, Elsewhere>> => t \notin Toks(dq)
  /\ k # <<2, Elsewhere>> => t \notin InHand(dhold)
  /\ k # <<3, Elsewhere>> => t \notin Toks(sq)
  /\ k # <<4, Elsewhere>> => t \notin InHand(shold)
  /\ k # <<5, Elsewhere>> => t \notin {tok(m) : m \in net}
  /\ \A c \in Client : k # <<6, c>> => t \notin Toks(cq[c])

\* Nothing but t comes to any place.
Arrives(t) ==
  /\ Toks(dq') \subseteq Toks(dq) \cup {t}
  /\ InHand(dhold') \subseteq InHand(dhold) \cup {t}
  /\ Toks(sq') \subseteq Toks(sq) \cup {t}
  /\ InHand(shold') \subseteq InHand(shold) \cup {t}
  /\ {tok(m) : m \in net'} \subseteq {tok(m) : m \in net} \cup {t}
  /\ \A c \in Client : Toks(cq'[c]) \subseteq Toks(cq[c]) \cup {t}

LEMMA OnlyThere ==
  ASSUME Apart(Held), NEW k \in Place, NEW t \in Held[k]
  PROVE  Only(k, t) /\ t \in About(Held)
<1>1. \A l \in Place : k # l => t \notin Held[l]
  BY DEF Apart
<1> QED
  BY <1>1, HeldFacts, PlaceFacts, Zenon DEF Only, About

LEMMA ArrivalSettled ==
  ASSUME NEW k, NEW t, Arrives(t), Only(k, t)'
  PROVE  Settled(Held, Held', k, t)
<1>1. ASSUME NEW l \in Place PROVE Held'[l] \subseteq Held[l] \cup {t}
  BY HeldFacts, HeldFactsNext, PlaceFacts DEF Arrives
<1>2. ASSUME NEW l \in Place, l # k PROVE t \notin Held'[l]
  BY <1>2, HeldFactsNext, PlaceFacts DEF Only
<1> QED
  BY <1>1, <1>2 DEF Settled

\* A token that moves to k.
LEMMA MovesApart ==
  ASSUME Apart(Held), NEW k, NEW t \in About(Held), Arrives(t), Only(k, t)'
  PROVE  Apart(Held)' /\ About(Held') \subseteq About(Held)
BY ArrivalSettled, SettledApart

\* The two halves of the type invariant.
ClientTypes ==
  /\ asked \in Seq(Question) /\ Len(asked) <= MaxAsk
  /\ repeated \in SUBSET (1 .. MaxAsk) /\ early \in SUBSET (1 .. MaxAsk)
  /\ cpc \in [Client -> Locations]
  /\ armed \in [Client -> BOOLEAN]
  /\ jmp \in [Client -> BOOLEAN]
  /\ cur \in [Client -> 0 .. MaxAsk]
  /\ mparams \in [Client -> 0 .. MaxAsk]
  /\ killed \in SUBSET Client
  /\ failed \in SUBSET {"server", "daemon"}
  /\ lost \in Nat /\ faults \in Nat

MessageTypes ==
  /\ cq \in [Client -> Seq(Message)] /\ \A c \in Client : Len(cq[c]) <= Cap
  /\ sq \in Seq(Message) /\ Len(sq) <= Cap
  /\ shold \in Message \cup {Nobody}
  /\ sup \in BOOLEAN
  /\ dq \in Seq(Message) /\ Len(dq) <= Cap
  /\ dhold \in Message \cup {Nobody}
  /\ local \in BOOLEAN
  /\ up \in BOOLEAN
  /\ net \in SUBSET Message

LEMMA TypeParts == TypeOK <=> ClientTypes /\ MessageTypes
BY DEF TypeOK, ClientTypes, MessageTypes

LEMMA TypePartsNext == TypeOK' <=> ClientTypes' /\ MessageTypes'
BY DEF TypeOK, ClientTypes, MessageTypes

LEMMA ClientTypesKept ==
  ASSUME ClientTypes, UNCHANGED <<asked, repeated, early, client, mishap>>
  PROVE  ClientTypes'
BY DEF ClientTypes, client, mishap

LEMMA EndsKept ==
  ASSUME Ends, UNCHANGED <<asked, repeated, client, up, sup, failed>>
  PROVE  Ends'
<1>1. /\ asked' = asked /\ repeated' = repeated /\ cpc' = cpc /\ killed' = killed
      /\ up' = up /\ sup' = sup /\ failed' = failed
  BY DEF client
<1> QED
  BY <1>1 DEF Ends, DaemonOutlivesClients

LEMMA StandStill ==
  ASSUME HInv, UNCHANGED <<asked, repeated, client>>, About(Held') \subseteq About(Held)
  PROVE  /\ (repeated \subseteq DOMAIN asked)'
         /\ TokenInv'
         /\ \A c \in Client : ClientInv(c)' /\ CountInv(c)'
<1>1. /\ asked' = asked /\ repeated' = repeated /\ cpc' = cpc /\ armed' = armed
      /\ jmp' = jmp /\ cur' = cur /\ mparams' = mparams /\ killed' = killed
  BY DEF client
<1>2. repeated \subseteq DOMAIN asked /\ TypeOK /\ TokenInv
  BY DEF HInv
<1>3. TokenInv'
  BY <1>1, <1>2 DEF TokenInv
<1>4. ASSUME NEW c \in Client PROVE ClientInv(c)' /\ CountInv(c)'
  <2>1. ClientInv(c) /\ CountInv(c)
    BY DEF HInv
  <2>2. ClientInv(c)'
    BY <1>1, <2>1 DEF ClientInv
  <2>3. Mine(c)' \subseteq Mine(c) /\ Rep(c)' = Rep(c) /\ Extra(c)' = Extra(c)
    BY <1>1 DEF Mine, Rep, Extra
  <2>4. Clean(c)' <=> Clean(c)
    BY <1>1, <2>3 DEF Clean
  <2>5. IsFiniteSet(Mine(c)) /\ IsFiniteSet(Rep(c)) /\ Extra(c) \in {0, 1}
    BY <1>2, FiniteMine DEF Extra
  <2>6. /\ Cardinality(Mine(c)') <= Cardinality(Mine(c))
        /\ Cardinality(Mine(c)') \in Nat /\ Cardinality(Mine(c)) \in Nat
        /\ Cardinality(Rep(c)) \in Nat
    BY <2>3, <2>5, FS_Subset, FS_CardinalityType
  <2>7. Cardinality(Mine(c)') <= Cardinality(Rep(c)') + Extra(c)'
    BY <2>1, <2>3, <2>5, <2>6 DEF CountInv
  <2> QED
    BY <1>1, <2>1, <2>2, <2>3, <2>4, <2>7 DEF CountInv
<1> QED
  BY <1>1, <1>2, <1>3, <1>4

\* The parts of Routed, queue by queue.
DaemonRouted ==
  \A i \in DOMAIN dq : Known(dq[i]) /\ IF dq[i].kind = "request"
                                        THEN Asker(dq[i]) \in Client
                                        ELSE Asked(dq[i]) = Self
ServerRouted ==
  \A i \in DOMAIN sq : Known(sq[i]) /\ sq[i].kind = "request" /\ Asked(sq[i]) = Self
ClientRouted ==
  \A c \in Client : \A i \in DOMAIN cq[c] : Known(cq[c][i]) /\ Asker(cq[c][i]) = c
NetRouted ==
  \A m \in net : Known(m) /\ IF m.kind = "request"
                              THEN Asked(m) = Self <=> Asker(m) = Elsewhere
                              ELSE Asker(m) \in Client
HandRouted ==
  dhold # Nobody => Known(dhold) /\ IF dhold.kind = "request"
                                     THEN /\ Asked(dhold) = Self
                                          /\ local => Asker(dhold) \in Client
                                     ELSE /\ Asker(dhold) \in Client
                                          /\ local => Asked(dhold) = Self
ReplyRouted ==
  shold # Nobody => Known(shold) /\ shold.kind = "answer" /\ Asked(shold) = Self
AskedRouted ==
  \A q \in DOMAIN asked : asked[q].client = Elsewhere => asked[q].host = Self

LEMMA RoutedParts ==
  Routed <=> /\ DaemonRouted /\ ServerRouted /\ ClientRouted /\ NetRouted
             /\ HandRouted /\ ReplyRouted /\ AskedRouted
BY Zenon DEF Routed, DaemonRouted, ServerRouted, ClientRouted, NetRouted, HandRouted,
   ReplyRouted, AskedRouted

LEMMA RoutedPartsNext ==
  Routed' <=> /\ DaemonRouted' /\ ServerRouted' /\ ClientRouted' /\ NetRouted'
              /\ HandRouted' /\ ReplyRouted' /\ AskedRouted'
BY Zenon DEF Routed, DaemonRouted, ServerRouted, ClientRouted, NetRouted, HandRouted,
   ReplyRouted, AskedRouted

\* A queue that stays as it is stays routed.
LEMMA RoutedKept ==
  ASSUME asked' = asked
  PROVE  /\ dq' = dq /\ DaemonRouted => DaemonRouted'
         /\ sq' = sq /\ ServerRouted => ServerRouted'
         /\ cq' = cq /\ ClientRouted => ClientRouted'
         /\ net' = net /\ NetRouted => NetRouted'
         /\ dhold' = dhold /\ local' = local /\ HandRouted => HandRouted'
         /\ dhold' = Nobody => HandRouted'
         /\ shold' = shold /\ ReplyRouted => ReplyRouted'
         /\ AskedRouted => AskedRouted'
<1>1. dq' = dq /\ DaemonRouted => DaemonRouted'
  BY DEF DaemonRouted, Known, Asked, Asker
<1>2. sq' = sq /\ ServerRouted => ServerRouted'
  BY DEF ServerRouted, Known, Asked, Asker
<1>3. cq' = cq /\ ClientRouted => ClientRouted'
  BY DEF ClientRouted, Known, Asked, Asker
<1>4. net' = net /\ NetRouted => NetRouted'
  BY DEF NetRouted, Known, Asked, Asker
<1>5. dhold' = dhold /\ local' = local /\ HandRouted => HandRouted'
  BY DEF HandRouted, Known, Asked, Asker
<1>6. dhold' = Nobody => HandRouted'
  BY DEF HandRouted
<1>7. shold' = shold /\ ReplyRouted => ReplyRouted'
  BY DEF ReplyRouted, Known, Asked, Asker
<1>8. AskedRouted => AskedRouted'
  BY DEF AskedRouted
<1> QED
  BY <1>1, <1>2, <1>3, <1>4, <1>5, <1>6, <1>7, <1>8, ZenonT(30)

LEMMA ServerRecvStep == HInv /\ ServerRecv => HInv'
<1> SUFFICES ASSUME HInv, ServerRecv PROVE HInv'
  OBVIOUS
<1> PICK m : m = Head(sq)
  OBVIOUS
<1>1. TypeOK /\ OnePlace /\ Routed
  BY DEF HInv
<1>2. /\ shold = Nobody /\ shold' = answer(m) /\ sq' = Tail(sq) /\ sq # <<>>
      /\ UNCHANGED <<asked, repeated, early, client, cq, sup, daemon, net, mishap>>
  BY DEF ServerRecv
<1>3. /\ asked' = asked /\ dq' = dq /\ dhold' = dhold /\ local' = local
      /\ cq' = cq /\ net' = net
  BY <1>2 DEF daemon
<1>4. /\ Tail(sq) \in Seq(Message) /\ Len(Tail(sq)) = Len(sq) - 1 /\ m \in Message
      /\ 1 \in DOMAIN sq /\ m = sq[1]
      /\ \A i \in DOMAIN Tail(sq) : i + 1 \in DOMAIN sq /\ Tail(sq)[i] = sq[i + 1]
      /\ Toks(Tail(sq)) = Toks(sq) \ {tok(m)} /\ tok(m) \in Toks(sq) /\ Distinct(Tail(sq))
  BY <1>1, <1>2, TailToks DEF TypeOK, OnePlace
<1>5. /\ answer(m) \in Message /\ answer(m).q = m.q /\ answer(m).kind = "answer"
      /\ tok(answer(m)) = tok(m) /\ answer(m) # Nobody
  BY <1>4, Tokens
<1>6. TypeOK'
  <2>1. Len(Tail(sq)) <= Cap
    BY <1>1, <1>4, CapAssumption DEF TypeOK
  <2>2. MessageTypes'
    BY <1>1, <1>2, <1>3, <1>4, <1>5, <2>1, TypeParts, ZenonT(30) DEF MessageTypes, daemon
  <2> QED
    BY <1>1, <1>2, <2>2, TypeParts, TypePartsNext, ClientTypesKept, ZenonT(30)
<1>7. Only(<<3, Elsewhere>>, tok(m)) /\ tok(m) \in About(Held)
  BY <1>1, <1>4, HeldFacts, PlaceFacts, OnlyThere, ZenonT(30) DEF OnePlace
<1>8. Arrives(tok(m)) /\ Only(<<4, Elsewhere>>, tok(m))'
  <2>1. InHand(shold') = {tok(m)}
    BY <1>2, <1>5 DEF InHand
  <2> QED
    BY <1>2, <1>3, <1>4, <1>7, <2>1 DEF Only, Arrives
<1>9. Apart(Held)' /\ About(Held') \subseteq About(Held)
  BY <1>1, <1>7, <1>8, MovesApart, ZenonT(30) DEF OnePlace
<1>10. OnePlace'
  BY <1>1, <1>2, <1>3, <1>4, <1>9, ZenonT(30) DEF OnePlace
<1>11. Routed'
  <2>1. Known(m) /\ m.kind = "request" /\ Asked(m) = Self
    BY <1>1, <1>4, RoutedParts, ZenonT(30) DEF ServerRouted
  <2>2. ServerRouted'
    BY <1>1, <1>2, <1>3, <1>4, RoutedParts, ZenonT(30) DEF ServerRouted, Known, Asked
  <2>3. ReplyRouted'
    BY <1>2, <1>3, <1>5, <2>1 DEF ReplyRouted, Known, Asked
  <2> QED
    BY <1>1, <1>2, <1>3, <2>2, <2>3, RoutedParts, RoutedPartsNext, RoutedKept, ZenonT(30)
<1>12. Ends'
  BY <1>2, EndsKept DEF HInv, mishap, daemon
<1> QED
  BY <1>2, <1>6, <1>9, <1>10, <1>11, <1>12, StandStill DEF HInv

\* msg_send puts the message on the daemon's socket, or nowhere.
LEMMA MsgSendFacts ==
  ASSUME TypeOK, OnePlace, NEW m \in Message, msg_send(m), tok(m) \notin Toks(dq)
  PROVE  /\ dq' \in Seq(Message) /\ Len(dq') <= Cap
         /\ Toks(dq') \subseteq Toks(dq) \cup {tok(m)}
         /\ Distinct(dq')
         /\ \A i \in DOMAIN dq' : dq'[i] = m \/ (i \in DOMAIN dq /\ dq'[i] = dq[i])
<1>1. dq \in Seq(Message) /\ Len(dq) <= Cap /\ Distinct(dq) /\ Len(dq) \in Nat
  BY DEF TypeOK, OnePlace
<1>2. CASE dq' = dq
  BY <1>1, <1>2
<1>3. CASE Len(dq) < Cap /\ dq' = Append(dq, m)
  <2>1. /\ dq' \in Seq(Message) /\ Len(dq') = Len(dq) + 1
        /\ Toks(dq') = Toks(dq) \cup {tok(m)} /\ Distinct(dq')
    BY <1>1, <1>3, AppendToks
  <2>2. \A i \in DOMAIN dq' : dq'[i] = m \/ (i \in DOMAIN dq /\ dq'[i] = dq[i])
    BY <1>1, <1>3
  <2> QED
    BY <1>1, <1>3, <2>1, <2>2, CapAssumption
<1> QED
  BY <1>2, <1>3 DEF msg_send

LEMMA ServerSendStep == HInv /\ ServerSend => HInv'
<1> SUFFICES ASSUME HInv, ServerSend PROVE HInv'
  OBVIOUS
<1> PICK m : m = shold
  OBVIOUS
<1>1. TypeOK /\ OnePlace /\ Routed
  BY DEF HInv
<1>2. /\ m # Nobody /\ shold' = Nobody /\ msg_send(m)
      /\ UNCHANGED <<asked, repeated, early, client, cq, sq, sup, dhold, local, up, net, mishap>>
  BY DEF ServerSend
<1>3. m \in Message /\ InHand(shold) = {tok(m)} /\ InHand(shold') = {}
  BY <1>1, <1>2, ZenonT(30) DEF TypeOK, InHand
<1>4. Only(<<4, Elsewhere>>, tok(m)) /\ tok(m) \in About(Held)
  BY <1>1, <1>3, HeldFacts, PlaceFacts, OnlyThere DEF OnePlace
<1>5. /\ dq' \in Seq(Message) /\ Len(dq') <= Cap
      /\ Toks(dq') \subseteq Toks(dq) \cup {tok(m)}
      /\ Distinct(dq')
      /\ \A i \in DOMAIN dq' : dq'[i] = m \/ (i \in DOMAIN dq /\ dq'[i] = dq[i])
  BY <1>1, <1>2, <1>3, <1>4, MsgSendFacts DEF Only
<1>6. TypeOK'
  <2>1. MessageTypes'
    BY <1>1, <1>2, <1>5, TypeParts DEF MessageTypes
  <2> QED
    BY <1>1, <1>2, <2>1, TypeParts, TypePartsNext, ClientTypesKept
<1>7. Arrives(tok(m)) /\ Only(<<1, Elsewhere>>, tok(m))'
  BY <1>2, <1>3, <1>4, <1>5 DEF Only, Arrives
<1>8. Apart(Held)' /\ About(Held') \subseteq About(Held)
  BY <1>1, <1>4, <1>7, MovesApart DEF OnePlace
<1>9. OnePlace'
  BY <1>1, <1>2, <1>5, <1>8, ZenonT(30) DEF OnePlace
<1>10. Routed'
  BY <1>1, <1>2, <1>5 DEF Routed, Known, Asked, Asker
<1>11. Ends'
  BY <1>2, EndsKept DEF HInv, mishap
<1> QED
  BY <1>2, <1>6, <1>8, <1>9, <1>10, <1>11, StandStill DEF HInv

\* The first datagram on the daemon's socket.
LEMMA HeadFacts ==
  ASSUME TypeOK, OnePlace, dq # <<>>, NEW m, m = Head(dq)
  PROVE  /\ Tail(dq) \in Seq(Message) /\ Len(Tail(dq)) <= Cap /\ m \in Message
         /\ 1 \in DOMAIN dq /\ m = dq[1]
         /\ \A i \in DOMAIN Tail(dq) : i + 1 \in DOMAIN dq /\ Tail(dq)[i] = dq[i + 1]
         /\ Toks(Tail(dq)) = Toks(dq) \ {tok(m)} /\ Distinct(Tail(dq))
         /\ Only(<<1, Elsewhere>>, tok(m)) /\ tok(m) \in About(Held)
<1>1. dq \in Seq(Message) /\ Distinct(dq) /\ Len(dq) \in Nat /\ Len(dq) <= Cap
  BY DEF TypeOK, OnePlace
<1>2. /\ Tail(dq) \in Seq(Message) /\ Len(Tail(dq)) = Len(dq) - 1 /\ m \in Message
      /\ 1 \in DOMAIN dq /\ m = dq[1]
      /\ \A i \in DOMAIN Tail(dq) : i + 1 \in DOMAIN dq /\ Tail(dq)[i] = dq[i + 1]
      /\ Toks(Tail(dq)) = Toks(dq) \ {tok(m)} /\ tok(m) \in Toks(dq) /\ Distinct(Tail(dq))
  BY <1>1, TailToks
<1>3. Len(Tail(dq)) <= Cap
  BY <1>1, <1>2, CapAssumption
<1>4. Only(<<1, Elsewhere>>, tok(m)) /\ tok(m) \in About(Held)
  BY <1>2, HeldFacts, PlaceFacts, OnlyThere DEF OnePlace
<1> QED
  BY <1>2, <1>3, <1>4

LEMMA PeerHereStep == HInv /\ PeerHere => HInv'
<1> SUFFICES ASSUME HInv, PeerHere PROVE HInv'
  OBVIOUS
<1> PICK m : m = Head(dq)
  OBVIOUS
<1>1. TypeOK /\ OnePlace /\ Routed
  BY DEF HInv
<1>2. /\ dhold = Nobody /\ dhold' = m /\ local' = TRUE /\ dq' = Tail(dq) /\ dq # <<>>
      /\ \/ m.kind = "request" /\ Asked(m) = Self
         \/ m.kind = "answer" /\ Asker(m) \in Client
      /\ UNCHANGED <<asked, repeated, early, client, cq, sq, shold, sup, up, net, mishap>>
  BY DEF PeerHere, Idle, Hold, server
<1>3. /\ Tail(dq) \in Seq(Message) /\ Len(Tail(dq)) <= Cap /\ m \in Message
      /\ 1 \in DOMAIN dq /\ m = dq[1]
      /\ \A i \in DOMAIN Tail(dq) : i + 1 \in DOMAIN dq /\ Tail(dq)[i] = dq[i + 1]
      /\ Toks(Tail(dq)) = Toks(dq) \ {tok(m)} /\ Distinct(Tail(dq))
      /\ Only(<<1, Elsewhere>>, tok(m)) /\ tok(m) \in About(Held)
  BY <1>1, <1>2, HeadFacts
<1>4. InHand(dhold') = {tok(m)}
  BY <1>2, <1>3, Tokens DEF InHand
<1>5. TypeOK'
  <2>1. MessageTypes'
    BY <1>1, <1>2, <1>3, TypeParts, ZenonT(30) DEF MessageTypes
  <2> QED
    BY <1>1, <1>2, <2>1, TypeParts, TypePartsNext, ClientTypesKept, ZenonT(30)
<1>6. Arrives(tok(m)) /\ Only(<<2, Elsewhere>>, tok(m))'
  BY <1>2, <1>3, <1>4 DEF Only, Arrives
<1>7. Apart(Held)' /\ About(Held') \subseteq About(Held)
  BY <1>1, <1>3, <1>6, MovesApart, ZenonT(30) DEF OnePlace
<1>8. OnePlace'
  BY <1>1, <1>2, <1>3, <1>7, ZenonT(30) DEF OnePlace
<1>9. Routed'
  BY <1>1, <1>2, <1>3 DEF Routed, Known, Asked, Asker
<1>10. Ends'
  BY <1>2, EndsKept DEF HInv, mishap
<1> QED
  BY <1>2, <1>5, <1>7, <1>8, <1>9, <1>10, StandStill, ZenonT(30) DEF HInv

LEMMA PeerLeavesStep == HInv /\ PeerLeaves => HInv'
<1> SUFFICES ASSUME HInv, PeerLeaves PROVE HInv'
  OBVIOUS
<1> PICK m : m = Head(dq)
  OBVIOUS
<1>1. TypeOK /\ OnePlace /\ Routed
  BY DEF HInv
<1>2. /\ dq' = Tail(dq) /\ dq # <<>>
      /\ \/ m.kind = "request" /\ Asked(m) # Self /\ net' = net \cup {m}
         \/ net' = net
      /\ UNCHANGED <<asked, repeated, early, client, cq, sq, shold, sup, dhold, local, up, mishap>>
  BY DEF PeerLeaves, server
<1>3. /\ Tail(dq) \in Seq(Message) /\ Len(Tail(dq)) <= Cap /\ m \in Message
      /\ 1 \in DOMAIN dq /\ m = dq[1]
      /\ \A i \in DOMAIN Tail(dq) : i + 1 \in DOMAIN dq /\ Tail(dq)[i] = dq[i + 1]
      /\ Toks(Tail(dq)) = Toks(dq) \ {tok(m)} /\ Distinct(Tail(dq))
      /\ Only(<<1, Elsewhere>>, tok(m)) /\ tok(m) \in About(Held)
  BY <1>1, <1>2, HeadFacts
<1>4. /\ net' \subseteq net \cup {m}
      /\ {tok(n) : n \in net'} \subseteq {tok(n) : n \in net} \cup {tok(m)}
  BY <1>2
<1>5. TypeOK'
  <2>1. MessageTypes'
    BY <1>1, <1>2, <1>3, <1>4, TypeParts, ZenonT(30) DEF MessageTypes
  <2> QED
    BY <1>1, <1>2, <2>1, TypeParts, TypePartsNext, ClientTypesKept, ZenonT(30)
<1>6. Arrives(tok(m)) /\ Only(<<5, Elsewhere>>, tok(m))'
  BY <1>2, <1>3, <1>4 DEF Only, Arrives
<1>7. Apart(Held)' /\ About(Held') \subseteq About(Held)
  BY <1>1, <1>3, <1>6, MovesApart, ZenonT(30) DEF OnePlace
<1>8. OnePlace'
  <2>1. tok(m) \notin {tok(n) : n \in net}
    BY <1>3 DEF Only
  <2>2. \A x, y \in net' : tok(x) = tok(y) => x = y
    BY <1>1, <1>4, <2>1, ZenonT(30) DEF OnePlace
  <2> QED
    BY <1>1, <1>2, <1>3, <1>7, <2>2, ZenonT(30) DEF OnePlace
<1>9. Routed'
  <2>1. \A n \in net' : n \in net \/ (n = m /\ m.kind = "request" /\ Asked(m) # Self)
    BY <1>2
  <2>2. Known(m) /\ (m.kind = "request" => Asker(m) \in Client)
    BY <1>1, <1>3, ZenonT(30) DEF Routed
  <2>3. \A n \in net' : Known(n) /\ IF n.kind = "request"
                                   THEN Asked(n) = Self <=> Asker(n) = Elsewhere
                                   ELSE Asker(n) \in Client
    <3>1. NetRouted
      BY <1>1, RoutedParts
    <3> QED
      BY <2>1, <2>2, <3>1, HostAssumption DEF NetRouted
  <2>4. asked' = asked
    BY <1>2
  <2>5. NetRouted'
    BY <2>3, <2>4 DEF NetRouted, Known, Asked, Asker
  <2>6. DaemonRouted'
    <3>1. DaemonRouted
      BY <1>1, RoutedParts, ZenonT(30)
    <3>2. \A i \in DOMAIN dq' : i + 1 \in DOMAIN dq /\ dq'[i] = dq[i + 1]
      BY <1>2, <1>3, ZenonT(30)
    <3> QED
      BY <2>4, <3>1, <3>2 DEF DaemonRouted, Known, Asked, Asker
  <2> QED
    BY <1>1, <1>2, <2>5, <2>6, RoutedParts, RoutedPartsNext, RoutedKept, ZenonT(30)
<1>10. Ends'
  BY <1>2, EndsKept DEF HInv, mishap
<1> QED
  BY <1>2, <1>5, <1>7, <1>8, <1>9, <1>10, StandStill, ZenonT(30) DEF HInv

\* A message on the network.
LEMMA NetFacts ==
  ASSUME TypeOK, OnePlace, NEW m \in net
  PROVE  /\ m \in Message
         /\ Only(<<5, Elsewhere>>, tok(m)) /\ tok(m) \in About(Held)
         /\ \A n \in net \ {m} : tok(n) # tok(m)
<1>1. tok(m) \in {tok(n) : n \in net} /\ m \in Message
  BY ZenonT(30) DEF TypeOK
<1>2. Only(<<5, Elsewhere>>, tok(m)) /\ tok(m) \in About(Held)
  BY <1>1, HeldFacts, PlaceFacts, OnlyThere, ZenonT(30) DEF OnePlace
<1> QED
  BY <1>1, <1>2 DEF OnePlace

LEMMA FromWireStep == ASSUME HInv, NEW m \in net, FromWire(m) PROVE HInv'
<1>1. TypeOK /\ OnePlace /\ Routed
  BY ZenonT(30) DEF HInv
<1>2. /\ dhold = Nobody /\ dhold' = m /\ local' = FALSE /\ net' = net \ {m}
      /\ m.kind = "answer" \/ Asker(m) = Elsewhere
      /\ UNCHANGED <<asked, repeated, early, client, cq, sq, shold, sup, dq, up, mishap>>
  BY DEF FromWire, Idle, Hold, server
<1>3. /\ m \in Message
      /\ Only(<<5, Elsewhere>>, tok(m)) /\ tok(m) \in About(Held)
      /\ \A n \in net \ {m} : tok(n) # tok(m)
  BY <1>1, NetFacts, ZenonT(30)
<1>4. InHand(dhold') = {tok(m)}
  BY <1>2, <1>3, Tokens, ZenonT(30) DEF InHand
<1>5. TypeOK'
  <2>1. MessageTypes'
    BY <1>1, <1>2, <1>3, TypeParts, Zenon DEF MessageTypes
  <2> QED
    BY <1>1, <1>2, <2>1, TypeParts, TypePartsNext, ClientTypesKept, ZenonT(30)
<1>6. Arrives(tok(m)) /\ Only(<<2, Elsewhere>>, tok(m))'
  BY <1>2, <1>3, <1>4 DEF Only, Arrives
<1>7. Apart(Held)' /\ About(Held') \subseteq About(Held)
  BY <1>1, <1>3, <1>6, MovesApart, ZenonT(30) DEF OnePlace
<1>8. OnePlace'
  BY <1>1, <1>2, <1>7 DEF OnePlace
<1>9. Routed'
  <2>1. m.kind \in {"request", "answer"}
    BY <1>3, ZenonT(30) DEF Message
  <2> QED
    BY <1>1, <1>2, <2>1, Zenon DEF Routed, Known, Asked, Asker
<1>10. Ends'
  BY <1>2, EndsKept DEF HInv, mishap
<1> QED
  BY <1>2, <1>5, <1>7, <1>8, <1>9, <1>10, StandStill, ZenonT(30) DEF HInv

LEMMA AnsweredElsewhereStep == ASSUME HInv, NEW m \in net, AnsweredElsewhere(m) PROVE HInv'
<1>1. TypeOK /\ OnePlace /\ Routed
  BY DEF HInv
<1>2. /\ net' = (net \ {m}) \cup {answer(m)} /\ m.kind = "request" /\ Asked(m) # Self
      /\ UNCHANGED <<asked, repeated, early, client, cq, sq, shold, sup, dq, dhold, local, up, mishap>>
  BY ZenonT(30) DEF AnsweredElsewhere, server, daemon
<1>3. /\ m \in Message
      /\ Only(<<5, Elsewhere>>, tok(m)) /\ tok(m) \in About(Held)
      /\ \A n \in net \ {m} : tok(n) # tok(m)
  BY <1>1, NetFacts
<1>4. /\ answer(m) \in Message /\ answer(m).q = m.q /\ answer(m).kind = "answer"
      /\ tok(answer(m)) = tok(m)
  BY <1>3, Tokens
<1>5. TypeOK'
  <2>1. MessageTypes'
    BY <1>1, <1>2, <1>4, TypeParts, ZenonT(30) DEF MessageTypes
  <2> QED
    BY <1>1, <1>2, <2>1, TypeParts, TypePartsNext, ClientTypesKept, ZenonT(30)
<1>6. Arrives(tok(m)) /\ Only(<<5, Elsewhere>>, tok(m))'
  BY <1>2, <1>3, <1>4, ZenonT(30) DEF Only, Arrives
<1>7. Apart(Held)' /\ About(Held') \subseteq About(Held)
  BY <1>1, <1>3, <1>6, MovesApart, ZenonT(30) DEF OnePlace
<1>8. OnePlace'
  BY <1>1, <1>2, <1>3, <1>4, <1>7, ZenonT(30) DEF OnePlace
<1>9. Routed'
  <2>1. Known(m) /\ Asker(m) # Elsewhere
    BY <1>1, <1>2, ZenonT(30) DEF Routed
  <2>2. Asker(m) \in Client
    <3>1. asked[m.q] \in Question
      BY <1>1, <2>1 DEF TypeOK, Known
    <3> QED
      BY <2>1, <3>1, ZenonT(30) DEF Asker, Question
  <2> QED
    BY <1>1, <1>2, <1>4, <2>1, <2>2 DEF Routed, Known, Asked, Asker
<1>10. Ends'
  BY <1>2, EndsKept DEF HInv, mishap
<1> QED
  BY <1>2, <1>5, <1>7, <1>8, <1>9, <1>10, StandStill, ZenonT(30) DEF HInv

LEMMA LoseStep == ASSUME HInv, NEW m \in net, Lose(m) PROVE HInv'
<1>1. TypeOK /\ OnePlace /\ Routed
  BY DEF HInv
<1>2. /\ net' = net \ {m} /\ lost' = lost + 1 /\ failed' = failed /\ faults' = faults
      /\ UNCHANGED <<asked, repeated, early, client, cq, sq, shold, sup, dq, dhold, local, up>>
  BY DEF Lose, server, daemon
<1>3. /\ m \in Message
      /\ Only(<<5, Elsewhere>>, tok(m)) /\ tok(m) \in About(Held)
  BY <1>1, NetFacts
<1>4. TypeOK'
  <2>1. MessageTypes'
    BY <1>1, <1>2, TypeParts, ZenonT(30) DEF MessageTypes
  <2>2. ClientTypes'
    BY <1>1, <1>2, TypeParts DEF ClientTypes, client
  <2> QED
    BY <2>1, <2>2, TypePartsNext
<1>5. Arrives(tok(m)) /\ Only(<<5, Elsewhere>>, tok(m))'
  BY <1>2, <1>3 DEF Only, Arrives
<1>6. Apart(Held)' /\ About(Held') \subseteq About(Held)
  BY <1>1, <1>3, <1>5, MovesApart DEF OnePlace
<1>7. OnePlace'
  BY <1>1, <1>2, <1>6, ZenonT(30) DEF OnePlace
<1>8. Routed'
  BY <1>1, <1>2 DEF Routed, Known, Asked, Asker
<1>9. Ends'
  BY <1>2, EndsKept DEF HInv, mishap
<1> QED
  BY <1>2, <1>4, <1>6, <1>7, <1>8, <1>9, StandStill, ZenonT(30) DEF HInv

\* The message in the daemon's hands.
LEMMA HandFacts ==
  ASSUME TypeOK, OnePlace, dhold # Nobody, NEW m, m = dhold
  PROVE  /\ m \in Message /\ InHand(dhold) = {tok(m)}
         /\ Only(<<2, Elsewhere>>, tok(m)) /\ tok(m) \in About(Held)
<1>1. m \in Message /\ InHand(dhold) = {tok(m)}
  BY ZenonT(30) DEF TypeOK, InHand
<1>2. Only(<<2, Elsewhere>>, tok(m)) /\ tok(m) \in About(Held)
  BY <1>1, HeldFacts, PlaceFacts, OnlyThere DEF OnePlace
<1> QED
  BY <1>1, <1>2

LEMMA DeliverServerStep == HInv /\ DeliverServer => HInv'
<1> SUFFICES ASSUME HInv, DeliverServer PROVE HInv'
  OBVIOUS
<1> PICK m : m = dhold
  OBVIOUS
<1>1. TypeOK /\ OnePlace /\ Routed
  BY DEF HInv
<1>2. /\ dhold # Nobody /\ m.kind = "request" /\ Len(sq) < Cap
      /\ sq' = Append(sq, m) /\ dhold' = Nobody
      /\ UNCHANGED <<asked, repeated, early, client, cq, shold, sup, dq, local, up, net, mishap>>
  BY DEF DeliverServer
<1>3. /\ m \in Message
      /\ Only(<<2, Elsewhere>>, tok(m)) /\ tok(m) \in About(Held)
  BY <1>1, <1>2, HandFacts
<1>4. InHand(dhold') = {}
  BY <1>2, ZenonT(30) DEF InHand
<1>5. sq \in Seq(Message) /\ Len(sq) \in Nat /\ Distinct(sq) /\ tok(m) \notin Toks(sq)
  BY <1>1, <1>3 DEF TypeOK, OnePlace, Only
<1>6. /\ sq' \in Seq(Message) /\ Len(sq') = Len(sq) + 1
      /\ Toks(sq') = Toks(sq) \cup {tok(m)} /\ Distinct(sq')
  BY <1>2, <1>3, <1>5, AppendToks, ZenonT(30)
<1>7. \A i \in DOMAIN sq' : sq'[i] = m \/ (i \in DOMAIN sq /\ sq'[i] = sq[i])
  BY <1>2, <1>5
<1>8. TypeOK'
  <2>1. Len(sq') <= Cap
    BY <1>2, <1>5, <1>6, CapAssumption
  <2>2. MessageTypes'
    BY <1>1, <1>2, <1>6, <2>1, TypeParts, ZenonT(30) DEF MessageTypes
  <2> QED
    BY <1>1, <1>2, <2>2, TypeParts, TypePartsNext, ClientTypesKept, ZenonT(30)
<1>9. Arrives(tok(m)) /\ Only(<<3, Elsewhere>>, tok(m))'
  BY <1>2, <1>3, <1>4, <1>6 DEF Only, Arrives
<1>10. Apart(Held)' /\ About(Held') \subseteq About(Held)
  BY <1>1, <1>3, <1>9, MovesApart, ZenonT(30) DEF OnePlace
<1>11. OnePlace'
  BY <1>1, <1>2, <1>6, <1>10, ZenonT(30) DEF OnePlace
<1>12. Routed'
  <2>1. m.q \in DOMAIN asked /\ asked[m.q].host = Self
    BY <1>1, <1>2, ZenonT(30) DEF Routed, Known, Asked
  <2>2. \A i \in DOMAIN sq : /\ sq[i].q \in DOMAIN asked /\ sq[i].kind = "request"
                             /\ asked[sq[i].q].host = Self
    BY <1>1 DEF Routed, Known, Asked
  <2>3. m.kind = "request"
    BY <1>2, ZenonT(30)
  <2>4. \A i \in DOMAIN sq' : /\ sq'[i].q \in DOMAIN asked /\ sq'[i].kind = "request"
                              /\ asked[sq'[i].q].host = Self
    BY <1>7, <2>1, <2>2, <2>3
  <2>5. asked' = asked
    BY <1>2
  <2>6. ServerRouted'
    BY <2>4, <2>5 DEF ServerRouted, Known, Asked
  <2> QED
    BY <1>1, <1>2, <2>6, RoutedParts, RoutedPartsNext, RoutedKept, ZenonT(30)
<1>13. Ends'
  BY <1>2, EndsKept DEF HInv, mishap
<1> QED
  BY <1>2, <1>8, <1>10, <1>11, <1>12, <1>13, StandStill, ZenonT(30) DEF HInv

LEMMA DeliverClientStep == HInv /\ DeliverClient => HInv'
<1> SUFFICES ASSUME HInv, DeliverClient PROVE HInv'
  OBVIOUS
<1> PICK m : m = dhold
  OBVIOUS
<1> PICK c : c = Asker(dhold)
  OBVIOUS
<1>1. TypeOK /\ OnePlace /\ Routed
  BY DEF HInv
<1>2. /\ dhold # Nobody /\ m.kind = "answer" /\ Len(cq[c]) < Cap
      /\ cq' = [cq EXCEPT ![c] = Append(@, m)] /\ dhold' = Nobody
      /\ UNCHANGED <<asked, repeated, early, client, sq, shold, sup, dq, local, up, net, mishap>>
  BY DEF DeliverClient, server
<1>3. /\ m \in Message
      /\ Only(<<2, Elsewhere>>, tok(m)) /\ tok(m) \in About(Held)
  BY <1>1, <1>2, HandFacts
<1>4. InHand(dhold') = {}
  BY <1>2, ZenonT(30) DEF InHand
<1>5. c \in Client /\ Known(m) /\ Asker(m) = c
  BY <1>1, <1>2, ZenonT(30) DEF Routed
<1>6. cq[c] \in Seq(Message) /\ Len(cq[c]) \in Nat /\ Distinct(cq[c]) /\ tok(m) \notin Toks(cq[c])
  BY <1>1, <1>3, <1>5 DEF TypeOK, OnePlace, Only
<1>7. /\ DOMAIN cq' = Client /\ cq'[c] = Append(cq[c], m)
      /\ \A k \in Client : k # c => cq'[k] = cq[k]
  BY <1>1, <1>2, <1>5, ZenonT(30) DEF TypeOK
<1>8. /\ cq'[c] \in Seq(Message) /\ Len(cq'[c]) = Len(cq[c]) + 1
      /\ Toks(cq'[c]) = Toks(cq[c]) \cup {tok(m)} /\ Distinct(cq'[c])
  BY <1>3, <1>6, <1>7, AppendToks
<1>9. \A i \in DOMAIN cq'[c] : cq'[c][i] = m \/ (i \in DOMAIN cq[c] /\ cq'[c][i] = cq[c][i])
  BY <1>6, <1>7
<1>10. TypeOK'
  <2>1. \A k \in Client : Len(cq'[k]) <= Cap
    BY <1>1, <1>2, <1>6, <1>7, <1>8, CapAssumption DEF TypeOK
  <2>2. cq' \in [Client -> Seq(Message)]
    BY <1>1, <1>2, <1>7, <1>8, ZenonT(30) DEF TypeOK
  <2>3. MessageTypes'
    BY <1>1, <1>2, <2>1, <2>2, TypeParts, ZenonT(30) DEF MessageTypes
  <2> QED
    BY <1>1, <1>2, <2>3, TypeParts, TypePartsNext, ClientTypesKept, ZenonT(30)
<1>11. Arrives(tok(m)) /\ Only(<<6, c>>, tok(m))'
  BY <1>2, <1>3, <1>4, <1>7, <1>8 DEF Only, Arrives
<1>12. Apart(Held)' /\ About(Held') \subseteq About(Held)
  BY <1>1, <1>3, <1>11, MovesApart, ZenonT(30) DEF OnePlace
<1>13. OnePlace'
  BY <1>1, <1>2, <1>7, <1>8, <1>12, ZenonT(30) DEF OnePlace
<1>14. Routed'
  <2>0. ClientRouted
    BY <1>1, RoutedParts, ZenonT(30)
  <2>1. ASSUME NEW k \in Client, NEW i \in DOMAIN cq'[k]
        PROVE  cq'[k][i].q \in DOMAIN asked /\ asked[cq'[k][i].q].client = k
    <3>1. CASE k = c
      <4>1. CASE cq'[c][i] = m
        BY <1>5, <3>1, <4>1, ZenonT(30) DEF Known, Asker
      <4>2. CASE i \in DOMAIN cq[c] /\ cq'[c][i] = cq[c][i]
        BY <1>5, <2>0, <3>1, <4>2, ZenonT(30) DEF ClientRouted, Known, Asker
      <4> QED
        BY <1>9, <2>1, <3>1, <4>1, <4>2, ZenonT(30)
    <3>2. CASE k # c
      BY <1>7, <2>0, <2>1, <3>2, ZenonT(30) DEF ClientRouted, Known, Asker
    <3> QED
      BY <3>1, <3>2, ZenonT(30)
  <2>2. asked' = asked
    BY <1>2, ZenonT(30)
  <2>3. ClientRouted'
    BY <2>1, <2>2, ZenonT(30) DEF ClientRouted, Known, Asker
  <2> QED
    BY <1>1, <1>2, <2>3, RoutedParts, RoutedPartsNext, RoutedKept, ZenonT(30)
<1>15. Ends'
  BY <1>2, EndsKept DEF HInv, mishap
<1> QED
  BY <1>2, <1>10, <1>12, <1>13, <1>14, <1>15, StandStill, ZenonT(30) DEF HInv

\* A process of this machine ends, and what it had is gone.
LEMMA LeftBehind ==
  ASSUME HInv, UNCHANGED <<asked, repeated, client, cq, local, net>>,
         dq' = dq \/ dq' = <<>>, dhold' = dhold \/ dhold' = Nobody,
         sq' = sq \/ sq' = <<>>, shold' = shold \/ shold' = Nobody,
         sup' \in BOOLEAN, up' \in BOOLEAN
  PROVE  /\ MessageTypes' /\ OnePlace' /\ Routed'
         /\ (repeated \subseteq DOMAIN asked)' /\ TokenInv'
         /\ \A c \in Client : ClientInv(c)' /\ CountInv(c)'
<1>1. TypeOK /\ OnePlace /\ Routed /\ asked' = asked /\ cq' = cq /\ net' = net
  BY DEF HInv
<1>2. /\ dq' \in Seq(Message) /\ Len(dq') <= Cap /\ Distinct(dq')
      /\ Toks(dq') \subseteq Toks(dq)
  <2>1. CASE dq' = dq
    BY <1>1, <2>1 DEF TypeOK, OnePlace
  <2>2. CASE dq' = <<>>
    BY <2>2, EmptyToks, CapAssumption
  <2> QED
    BY <2>1, <2>2
<1>3. /\ sq' \in Seq(Message) /\ Len(sq') <= Cap /\ Distinct(sq')
      /\ Toks(sq') \subseteq Toks(sq)
  <2>1. CASE sq' = sq
    BY <1>1, <2>1 DEF TypeOK, OnePlace
  <2>2. CASE sq' = <<>>
    BY <2>2, EmptyToks, CapAssumption
  <2> QED
    BY <2>1, <2>2
<1>4. /\ dhold' \in Message \cup {Nobody} /\ InHand(dhold') \subseteq InHand(dhold)
      /\ shold' \in Message \cup {Nobody} /\ InHand(shold') \subseteq InHand(shold)
  <2>1. InHand(Nobody) = {}
    BY DEF InHand
  <2>2. dhold \in Message \cup {Nobody} /\ shold \in Message \cup {Nobody}
    BY <1>1, TypeParts DEF MessageTypes
  <2> QED
    BY <2>1, <2>2
<1>5. MessageTypes'
  BY <1>1, <1>2, <1>3, <1>4, TypeParts, ZenonT(30) DEF MessageTypes
<1>6. \A l \in Place : Held'[l] \subseteq Held[l]
  BY <1>1, <1>2, <1>3, <1>4, HeldFacts, HeldFactsNext, PlaceFacts, ZenonT(30)
<1>7. Apart(Held)' /\ About(Held') \subseteq About(Held)
  BY <1>1, <1>6, FewerApart DEF OnePlace
<1>8. OnePlace'
  BY <1>1, <1>2, <1>3, <1>7, ZenonT(30) DEF OnePlace
<1>9. Routed'
  <2>1. DaemonRouted' /\ ServerRouted'
    <3>1. dq' = <<>> => DaemonRouted'
      BY DEF DaemonRouted
    <3>2. sq' = <<>> => ServerRouted'
      BY DEF ServerRouted
    <3> QED
      BY <1>1, <3>1, <3>2, RoutedParts, RoutedKept, ZenonT(30)
  <2>2. HandRouted' /\ ReplyRouted'
    <3>1. shold' = Nobody => ReplyRouted'
      BY DEF ReplyRouted
    <3> QED
      BY <1>1, <3>1, RoutedParts, RoutedKept, ZenonT(30)
  <2> QED
    BY <1>1, <2>1, <2>2, RoutedParts, RoutedPartsNext, RoutedKept, ZenonT(30)
<1> QED
  BY <1>5, <1>7, <1>8, <1>9, StandStill, ZenonT(30)

LEMMA DeliverNobodyStep == HInv /\ DeliverNobody => HInv'
<1> SUFFICES ASSUME HInv, DeliverNobody PROVE HInv'
  OBVIOUS
<1> PICK m : m = dhold
  OBVIOUS
<1> PICK c : c = Asker(dhold)
  OBVIOUS
<1>1. TypeOK /\ OnePlace /\ Routed /\ Ends
  BY DEF HInv
<1>2. /\ dhold # Nobody /\ dhold' = Nobody
      /\ IF m.kind = "request" THEN ~sup ELSE cpc[c] = "dead"
      /\ \/ local /\ up' = FALSE /\ dq' = <<>>
         \/ up' = up /\ dq' = dq
      /\ UNCHANGED <<asked, repeated, early, client, cq, sq, shold, sup, local, net, mishap>>
  BY DEF DeliverNobody, Gone, server
<1>3. /\ m \in Message
      /\ Only(<<2, Elsewhere>>, tok(m)) /\ tok(m) \in About(Held)
  BY <1>1, <1>2, HandFacts
<1>4. /\ MessageTypes' /\ OnePlace' /\ Routed'
      /\ (repeated \subseteq DOMAIN asked)' /\ TokenInv'
      /\ \A k \in Client : ClientInv(k)' /\ CountInv(k)'
  <2>1. sup' \in BOOLEAN /\ up' \in BOOLEAN
    BY <1>1, <1>2, TypeParts, ZenonT(30) DEF MessageTypes
  <2> QED
    BY <1>2, <2>1, LeftBehind, ZenonT(30)
<1>5. TypeOK'
  BY <1>1, <1>2, <1>4, TypeParts, TypePartsNext, ClientTypesKept, ZenonT(30)
<1>6. Ends'
  <2>1. CASE up' = up
    BY <1>1, <1>2, <2>1, EndsKept DEF mishap
  <2>2. CASE local
    <3>1. /\ c \in Client /\ m.q \in DOMAIN asked
          /\ asked[m.q].client = c /\ asked[m.q].host = Self
      BY <1>1, <1>2, <2>2, ZenonT(30) DEF Routed, Known, Asked, Asker
    <3>2. asked[m.q] = [client |-> c, host |-> Self]
      <4>1. asked[m.q] \in Question
        BY <1>1, <3>1 DEF TypeOK
      <4> QED
        BY <3>1, <4>1, ZenonT(30) DEF Question
    <3>3. \/ "server" \in failed
          \/ cpc[c] = "dead" /\ c \in killed
          \/ cpc[c] = "dead" /\ \E q \in repeated : asked[q].client = c
      <4>1. CASE m.kind = "request"
        BY <1>1, <1>2, <4>1, ZenonT(30) DEF Ends
      <4>2. CASE m.kind # "request"
        <5> SUFFICES ASSUME c \notin killed, Rep(c) = {} PROVE FALSE
          BY <1>2, <4>2, ZenonT(30) DEF Rep
        <5>1. Cardinality(Mine(c)) <= Cardinality(Rep(c)) + Extra(c)
          BY <3>1, ZenonT(30) DEF HInv, CountInv
        <5>2. Extra(c) = 0
          BY <1>2, <4>2 DEF Extra
        <5>3. IsFiniteSet(Mine(c)) /\ Cardinality(Mine(c)) \in Nat /\ Cardinality(Rep(c)) = 0
          BY <1>1, FiniteMine, FS_CardinalityType, FS_EmptySet, ZenonT(30) DEF HInv
        <5>4. Mine(c) = {}
          BY <5>1, <5>2, <5>3, FS_EmptySet
        <5>5. tok(m) \in Mine(c)
          BY <1>3, <3>1, Tokens DEF Mine
        <5> QED
          BY <5>4, <5>5, ZenonT(30)
      <4> QED
        BY <4>1, <4>2
    <3>4. /\ cpc' = cpc /\ killed' = killed /\ asked' = asked /\ repeated' = repeated
          /\ failed' = failed /\ sup' = sup
      BY <1>2 DEF client, mishap
    <3> QED
      BY <1>1, <3>1, <3>2, <3>3, <3>4, ZenonT(30) DEF Ends, DaemonOutlivesClients
  <2> QED
    BY <1>2, <2>1, <2>2
<1> QED
  BY <1>4, <1>5, <1>6, ZenonT(30) DEF HInv

\* A fault leaves the types of what it counts.
LEMMA FaultTypes ==
  ASSUME ClientTypes, Fault, UNCHANGED <<asked, repeated, early, client>>,
         failed' \in SUBSET {"server", "daemon"}
  PROVE  ClientTypes'
BY DEF ClientTypes, Fault, client

LEMMA ServerKilledStep == HInv /\ ServerKilled => HInv'
<1> SUFFICES ASSUME HInv, ServerKilled PROVE HInv'
  OBVIOUS
<1>1. TypeOK /\ Ends
  BY DEF HInv
<1>2. /\ Fault /\ sup' = FALSE /\ sq' = <<>> /\ shold' = Nobody
      /\ failed' = failed \cup {"server"}
      /\ UNCHANGED <<asked, repeated, early, client, cq, dq, dhold, local, up, net>>
  BY DEF ServerKilled, daemon
<1>3. /\ MessageTypes' /\ OnePlace' /\ Routed'
      /\ (repeated \subseteq DOMAIN asked)' /\ TokenInv'
      /\ \A k \in Client : ClientInv(k)' /\ CountInv(k)'
  <2>1. sup' \in BOOLEAN /\ up' \in BOOLEAN
    BY <1>1, <1>2, TypeParts, ZenonT(30) DEF MessageTypes
  <2> QED
    BY <1>2, <2>1, LeftBehind, ZenonT(30)
<1>4. TypeOK'
  <2>1. ClientTypes /\ failed' \in SUBSET {"server", "daemon"}
    BY <1>1, <1>2, TypeParts DEF ClientTypes
  <2> QED
    BY <1>2, <1>3, <2>1, FaultTypes, TypePartsNext, ZenonT(30)
<1>5. Ends'
  <2>1. cpc' = cpc /\ killed' = killed
    BY <1>2 DEF client
  <2> QED
    BY <1>1, <1>2, <2>1 DEF Ends, DaemonOutlivesClients
<1> QED
  BY <1>3, <1>4, <1>5, ZenonT(30) DEF HInv

LEMMA ServerStartStep == HInv /\ ServerStart => HInv'
<1> SUFFICES ASSUME HInv, ServerStart PROVE HInv'
  OBVIOUS
<1>1. TypeOK /\ Ends
  BY DEF HInv
<1>2. /\ sup' = TRUE
      /\ UNCHANGED <<asked, repeated, early, client, cq, sq, shold, dq, dhold, local, up,
                     net, mishap>>
  BY DEF ServerStart, daemon
<1>3. /\ MessageTypes' /\ OnePlace' /\ Routed'
      /\ (repeated \subseteq DOMAIN asked)' /\ TokenInv'
      /\ \A k \in Client : ClientInv(k)' /\ CountInv(k)'
  <2>1. sup' \in BOOLEAN /\ up' \in BOOLEAN
    BY <1>1, <1>2, TypeParts, ZenonT(30) DEF MessageTypes
  <2> QED
    BY <1>2, <2>1, LeftBehind, ZenonT(30)
<1>4. TypeOK'
  BY <1>1, <1>2, <1>3, TypeParts, TypePartsNext, ClientTypesKept, ZenonT(30)
<1>5. Ends'
  <2>1. cpc' = cpc /\ killed' = killed /\ failed' = failed
    BY <1>2 DEF client, mishap
  <2> QED
    BY <1>1, <1>2, <2>1 DEF Ends, DaemonOutlivesClients
<1> QED
  BY <1>3, <1>4, <1>5, ZenonT(30) DEF HInv

LEMMA DaemonEndsStep == HInv /\ DaemonEnds => HInv'
<1> SUFFICES ASSUME HInv, DaemonEnds PROVE HInv'
  OBVIOUS
<1>1. TypeOK /\ Ends
  BY DEF HInv
<1>2. /\ Fault /\ up' = FALSE /\ dq' = <<>> /\ dhold' = Nobody
      /\ failed' = failed \cup {"daemon"}
      /\ UNCHANGED <<asked, repeated, early, client, cq, sq, shold, sup, local, net>>
  BY DEF DaemonEnds, server
<1>3. /\ MessageTypes' /\ OnePlace' /\ Routed'
      /\ (repeated \subseteq DOMAIN asked)' /\ TokenInv'
      /\ \A k \in Client : ClientInv(k)' /\ CountInv(k)'
  <2>1. sup' \in BOOLEAN /\ up' \in BOOLEAN
    BY <1>1, <1>2, TypeParts, ZenonT(30) DEF MessageTypes
  <2> QED
    BY <1>2, <2>1, LeftBehind, ZenonT(30)
<1>4. TypeOK'
  <2>1. ClientTypes /\ failed' \in SUBSET {"server", "daemon"}
    BY <1>1, <1>2, TypeParts DEF ClientTypes
  <2> QED
    BY <1>2, <1>3, <2>1, FaultTypes, TypePartsNext, ZenonT(30)
<1>5. Ends'
  BY <1>1, <1>2 DEF Ends, DaemonOutlivesClients
<1> QED
  BY <1>3, <1>4, <1>5, ZenonT(30) DEF HInv

=============================================================================
