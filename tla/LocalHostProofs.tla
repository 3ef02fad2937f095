-------------------------- MODULE LocalHostProofs ---------------------------
(* The steps of the clients of module LocalHost keep the inductive         *)
(* invariant of module HostTokens; the theorems that follow from it.       *)
EXTENDS HostTokens

\* The backends tried in turn for a leaf that names none.
USE SMT, Zenon, Z3, SMTT(20)


-----------------------------------------------------------------------------
(* One client takes a step. *)

\* What has happened stays so.
LEMMA EndsGrow ==
  ASSUME Ends, repeated \subseteq DOMAIN asked, UNCHANGED <<up, sup, failed>>,
         \A k \in Client : cpc[k] = "dead" => cpc'[k] = "dead" /\ (k \in killed => k \in killed'),
         \A q \in DOMAIN asked : q \in DOMAIN asked' /\ asked'[q] = asked[q],
         repeated \subseteq repeated'
  PROVE  Ends'
<1>1. up' = up /\ sup' = sup /\ failed' = failed
  OBVIOUS
<1>2. \A q \in repeated : q \in repeated' /\ asked'[q] = asked[q]
  OBVIOUS
<1>3. ASSUME ~up, "daemon" \notin failed
      PROVE  \E c \in Client :
               /\ \E q \in DOMAIN asked' : asked'[q] = [client |-> c, host |-> Self]
               /\ \/ "server" \in failed
                  \/ cpc'[c] = "dead" /\ c \in killed'
                  \/ cpc'[c] = "dead" /\ \E q \in repeated' : asked'[q].client = c
  <2>1. PICK c \in Client :
          /\ \E q \in DOMAIN asked : asked[q] = [client |-> c, host |-> Self]
          /\ \/ "server" \in failed
             \/ cpc[c] = "dead" /\ c \in killed
             \/ cpc[c] = "dead" /\ \E q \in repeated : asked[q].client = c
    BY <1>3, ZenonT(30) DEF Ends, DaemonOutlivesClients
  <2>2. \E q \in DOMAIN asked' : asked'[q] = [client |-> c, host |-> Self]
    BY <2>1, ZenonT(30)
  <2>3. \/ "server" \in failed
        \/ cpc'[c] = "dead" /\ c \in killed'
        \/ cpc'[c] = "dead" /\ \E q \in repeated' : asked'[q].client = c
    BY <1>2, <2>1, ZenonT(30)
  <2> QED
    BY <2>2, <2>3, ZenonT(30)
<1>4. DaemonOutlivesClients'
  BY <1>1, <1>3 DEF DaemonOutlivesClients
<1>5. (~sup => "server" \in failed)'
  BY <1>1 DEF Ends
<1> QED
  BY <1>4, <1>5 DEF Ends

\* What a step must leave alone for client k to notice nothing.
Undisturbed(k) ==
  /\ cpc'[k] = cpc[k] /\ armed'[k] = armed[k] /\ jmp'[k] = jmp[k]
  /\ cur'[k] = cur[k] /\ mparams'[k] = mparams[k] /\ (k \in killed' <=> k \in killed)
  /\ \A q \in DOMAIN asked : q \in DOMAIN asked' /\ asked'[q] = asked[q]
  /\ \A q \in DOMAIN asked' : q \in DOMAIN asked \/ asked'[q].client # k
  /\ repeated \subseteq repeated'
  /\ \A q \in repeated' : q \in repeated \/ (q \in DOMAIN asked' /\ asked'[q].client # k)
  /\ \A t \in About(Held') : t \in About(Held) \/ asked'[t[1]].client # k

LEMMA OtherClient ==
  ASSUME HInv, asked' \in Seq(Question), NEW k \in Client, Undisturbed(k)
  PROVE  ClientInv(k)' /\ CountInv(k)'
<1>1. /\ ClientInv(k) /\ CountInv(k) /\ TypeOK /\ TokenInv
      /\ repeated \subseteq DOMAIN asked
  BY DEF HInv
<1>2. /\ cpc'[k] = cpc[k] /\ armed'[k] = armed[k] /\ jmp'[k] = jmp[k]
      /\ cur'[k] = cur[k] /\ mparams'[k] = mparams[k] /\ (k \in killed' <=> k \in killed)
      /\ \A q \in DOMAIN asked : q \in DOMAIN asked' /\ asked'[q] = asked[q]
      /\ \A q \in DOMAIN asked' : q \in DOMAIN asked \/ asked'[q].client # k
      /\ repeated \subseteq repeated'
      /\ \A q \in repeated' : q \in repeated \/ (q \in DOMAIN asked' /\ asked'[q].client # k)
      /\ \A t \in About(Held') : t \in About(Held) \/ asked'[t[1]].client # k
  BY DEF Undisturbed
<1>3. ClientInv(k)'
  <2>1. cur[k] # 0 => cur[k] \in DOMAIN asked' /\ asked'[cur[k]].client = k
    BY <1>1, <1>2 DEF ClientInv
  <2>2. \A q \in DOMAIN asked' : asked'[q].client = k => q <= cur[k]
    BY <1>1, <1>2 DEF ClientInv
  <2>3. armed[k] \/ cpc[k] = "resend" => cur[k] \notin repeated'
    <3>1. 0 \notin DOMAIN asked'
      OBVIOUS
    <3> QED
      BY <1>1, <1>2, <2>1, <3>1 DEF ClientInv
  <2>4. cpc[k] = "send" => \A t \in About(Held') : t[1] # cur[k]
    BY <1>1, <1>2, <2>1 DEF ClientInv
  <2> QED
    BY <1>1, <1>2, <2>1, <2>2, <2>3, <2>4 DEF ClientInv
<1>4. Rep(k)' = Rep(k)
  BY <1>1, <1>2 DEF Rep
<1>5. Mine(k)' \subseteq Mine(k)
  <2>1. ASSUME NEW t \in About(Held'), asked'[t[1]].client = k PROVE t \in Mine(k)
    <3>1. t \in About(Held) /\ t[1] \in DOMAIN asked
      BY <1>1, <1>2, <2>1 DEF TokenInv
    <3> QED
      BY <1>2, <2>1, <3>1 DEF Mine
  <2> QED
    BY <2>1 DEF Mine
<1>6. Extra(k)' = Extra(k) /\ Extra(k) \in {0, 1} /\ (Clean(k)' <=> Clean(k))
  BY <1>2, <1>4 DEF Extra, Clean
<1>7. IsFiniteSet(Mine(k)) /\ IsFiniteSet(Rep(k))
  BY <1>1, FiniteMine
<1>8. /\ Cardinality(Mine(k)') <= Cardinality(Mine(k))
      /\ Cardinality(Mine(k)') \in Nat /\ Cardinality(Mine(k)) \in Nat
      /\ Cardinality(Rep(k)) \in Nat
  BY <1>5, <1>7, FS_Subset, FS_CardinalityType
<1>9. Cardinality(Mine(k)') <= Cardinality(Rep(k)') + Extra(k)'
  BY <1>1, <1>4, <1>6, <1>8 DEF CountInv
<1> QED
  BY <1>1, <1>2, <1>3, <1>5, <1>6, <1>9 DEF CountInv

\* No message moves, but a client that dies leaves none on its socket.
LEMMA Drained ==
  ASSUME HInv, UNCHANGED <<server, daemon, net, asked>>,
         cq' \in [Client -> Seq(Message)],
         \A k \in Client : cq'[k] = cq[k] \/ cq'[k] = <<>>
  PROVE  MessageTypes' /\ OnePlace' /\ Routed' /\ About(Held') \subseteq About(Held)
<1>1. TypeOK /\ OnePlace /\ Routed
  BY DEF HInv
<1>2. /\ sq' = sq /\ shold' = shold /\ dq' = dq /\ dhold' = dhold /\ local' = local
      /\ sup' = sup /\ up' = up /\ net' = net /\ asked' = asked
  BY DEF server, daemon
<1>3. \A k \in Client : /\ Len(cq'[k]) <= Cap /\ Distinct(cq'[k])
                        /\ Toks(cq'[k]) \subseteq Toks(cq[k])
  <2> SUFFICES ASSUME NEW k \in Client
               PROVE  /\ Len(cq'[k]) <= Cap /\ Distinct(cq'[k])
                      /\ Toks(cq'[k]) \subseteq Toks(cq[k])
    OBVIOUS
  <2>1. CASE cq'[k] = cq[k]
    BY <1>1, <2>1 DEF TypeOK, OnePlace
  <2>2. CASE cq'[k] = <<>>
    BY <2>2, EmptyToks, CapAssumption
  <2> QED
    BY <2>1, <2>2
<1>4. MessageTypes'
  BY <1>1, <1>2, <1>3, TypeParts DEF MessageTypes
<1>5. \A l \in Place : Held'[l] \subseteq Held[l]
  BY <1>2, <1>3, HeldFacts, HeldFactsNext, PlaceFacts, ZenonT(30)
<1>6. Apart(Held)' /\ About(Held') \subseteq About(Held)
  BY <1>1, <1>5, FewerApart DEF OnePlace
<1>7. OnePlace'
  BY <1>1, <1>2, <1>3, <1>6 DEF OnePlace
<1>8. Routed'
  BY <1>1, <1>2 DEF Routed, Known, Asked, Asker
<1> QED
  BY <1>4, <1>6, <1>7, <1>8

\* The other clients stand still.
Alone(c) == \A k \in Client \ {c} :
  /\ cpc'[k] = cpc[k] /\ armed'[k] = armed[k] /\ jmp'[k] = jmp[k]
  /\ cur'[k] = cur[k] /\ mparams'[k] = mparams[k] /\ (k \in killed' <=> k \in killed)

\* A step of client c that neither sends nor reads.
LEMMA NoTraffic ==
  ASSUME HInv, NEW c \in Client, Alone(c), ClientTypes',
         UNCHANGED <<server, daemon, net, asked, repeated, failed>>,
         cq' \in [Client -> Seq(Message)],
         \A k \in Client : cq'[k] = cq[k] \/ cq'[k] = <<>>,
         cur'[c] = cur[c], cpc[c] # "dead", cpc'[c] # "read", Extra(c) <= Extra(c)',
         cpc'[c] = "send" => cpc[c] = "send",
         cpc'[c] \in {"send", "set", "wait", "read", "resend"} => cur[c] # 0,
         cpc'[c] \in {"send", "set"} => armed'[c],
         cpc'[c] \in {"prompt", "resend", "dead"} => ~armed'[c],
         armed'[c] \/ cpc'[c] = "resend" => cur[c] \notin repeated
  PROVE  HInv'
<1>1. MessageTypes' /\ OnePlace' /\ Routed' /\ About(Held') \subseteq About(Held)
  BY Drained
<1>2. /\ asked' = asked /\ repeated' = repeated /\ repeated \subseteq DOMAIN asked
      /\ TypeOK /\ TokenInv /\ ClientInv(c) /\ CountInv(c)
      /\ Ends /\ up' = up /\ sup' = sup /\ failed' = failed
  BY DEF HInv, daemon, server
<1>3. asked' \in Seq(Question)
  BY ZenonT(30) DEF ClientTypes
<1>4. TokenInv'
  BY <1>1, <1>2, ZenonT(30) DEF TokenInv
<1>5. ASSUME NEW k \in Client, k # c PROVE ClientInv(k)' /\ CountInv(k)'
  <2>1. Undisturbed(k)
    BY <1>1, <1>2, <1>5, ZenonT(30) DEF Undisturbed, Alone
  <2> QED
    BY <1>3, <2>1, OtherClient, ZenonT(30)
<1>6. ClientInv(c)'
  BY <1>1, <1>2, ZenonT(30) DEF ClientInv
<1>7. CountInv(c)'
  <2>1. Mine(c)' \subseteq Mine(c) /\ Rep(c)' = Rep(c)
    BY <1>1, <1>2, ZenonT(30) DEF Mine, Rep
  <2>2. Clean(c)' <=> Clean(c)
    BY <1>2, <2>1, ZenonT(30) DEF Clean
  <2>3. IsFiniteSet(Mine(c)) /\ IsFiniteSet(Rep(c))
    BY <1>2, FiniteMine, ZenonT(30)
  <2>4. /\ Cardinality(Mine(c)') <= Cardinality(Mine(c))
        /\ Cardinality(Mine(c)') \in Nat /\ Cardinality(Mine(c)) \in Nat
        /\ Cardinality(Rep(c)) \in Nat
    BY <2>1, <2>3, FS_Subset, FS_CardinalityType, ZenonT(30)
  <2>5. Extra(c) \in {0, 1} /\ Extra(c)' \in {0, 1}
    BY DEF Extra
  <2>6. Cardinality(Mine(c)') <= Cardinality(Rep(c)') + Extra(c)'
    BY <1>2, <2>1, <2>4, <2>5 DEF CountInv
  <2> QED
    BY <1>2, <2>1, <2>2, <2>6, ZenonT(30) DEF CountInv
<1>8. Ends'
  <2>1. \A k \in Client : cpc[k] = "dead" => cpc'[k] = "dead" /\ (k \in killed => k \in killed')
    BY ZenonT(30) DEF Alone
  <2> QED
    BY <1>2, <2>1, EndsGrow, ZenonT(30)
<1> QED
  BY <1>1, <1>2, <1>4, <1>5, <1>6, <1>7, <1>8, TypePartsNext, ZenonT(30) DEF HInv

\* What each client's invariant says of one client, with its types.
LEMMA ClientFacts ==
  ASSUME HInv, NEW c \in Client
  PROVE  /\ TypeOK /\ ClientTypes /\ ClientInv(c) /\ CountInv(c)
         /\ cpc[c] \in Locations /\ armed[c] \in BOOLEAN /\ jmp[c] \in BOOLEAN
         /\ cur[c] \in 0 .. MaxAsk /\ mparams[c] \in 0 .. MaxAsk
         /\ cq \in [Client -> Seq(Message)]
BY TypeParts DEF HInv, ClientTypes, MessageTypes

LEMMA SetJmpStep == ASSUME HInv, NEW c \in Client, SetJmp(c) PROVE HInv'
<1>1. /\ TypeOK /\ ClientTypes /\ ClientInv(c) /\ cpc[c] = "set"
      /\ cq \in [Client -> Seq(Message)]
  BY ClientFacts DEF SetJmp
<1>2. /\ cpc' = [cpc EXCEPT ![c] = "wait"] /\ jmp' = [jmp EXCEPT ![c] = TRUE]
      /\ UNCHANGED <<asked, repeated, early, armed, cur, mparams, killed, cq, server, daemon, net>>
      /\ failed' = failed /\ lost' = lost /\ faults' = faults
  BY DEF SetJmp, mishap
<1>3. ClientTypes'
  <2>1. jmp' \in [Client -> BOOLEAN]
    BY <1>1, <1>2, Zenon DEF ClientTypes
  <2>2. cpc' \in [Client -> Locations]
    BY <1>1, <1>2 DEF ClientTypes, Locations
  <2> QED
    BY <1>1, <1>2, <2>1, <2>2 DEF ClientTypes
<1>4. cpc'[c] = "wait" /\ \A k \in Client \ {c} : cpc'[k] = cpc[k] /\ jmp'[k] = jmp[k]
  BY <1>1, <1>2 DEF ClientTypes
<1>5. Alone(c)
  BY <1>2, <1>4 DEF Alone
<1>6. Extra(c) = 1 /\ Extra(c)' = 1
  BY <1>1, <1>4, ZenonT(30) DEF Extra
<1> QED
  BY <1>1, <1>2, <1>3, <1>4, <1>5, <1>6, NoTraffic DEF ClientInv

LEMMA PrintedStep == ASSUME HInv, NEW c \in Client, Printed(c) PROVE HInv'
<1>1. /\ TypeOK /\ ClientTypes /\ ClientInv(c) /\ cpc[c] = "read"
      /\ cq \in [Client -> Seq(Message)]
  BY ClientFacts DEF Printed
<1>2. /\ cpc' = [cpc EXCEPT ![c] = "prompt"] /\ armed' = [armed EXCEPT ![c] = FALSE]
      /\ UNCHANGED <<asked, repeated, early, jmp, cur, mparams, killed, cq, server, daemon, net>>
      /\ failed' = failed /\ lost' = lost /\ faults' = faults
  BY DEF Printed, mishap
<1>3. ClientTypes'
  <2>1. armed' \in [Client -> BOOLEAN]
    BY <1>1, <1>2, Zenon DEF ClientTypes
  <2>2. cpc' \in [Client -> Locations]
    BY <1>1, <1>2 DEF ClientTypes, Locations
  <2> QED
    BY <1>1, <1>2, <2>1, <2>2 DEF ClientTypes
<1>4. /\ cpc'[c] = "prompt" /\ ~armed'[c]
      /\ \A k \in Client \ {c} : cpc'[k] = cpc[k] /\ armed'[k] = armed[k]
  BY <1>1, <1>2 DEF ClientTypes
<1>5. Alone(c)
  BY <1>2, <1>4 DEF Alone
<1>6. Extra(c) = 0 /\ Extra(c)' = 0
  BY <1>1, <1>4, ZenonT(30) DEF Extra
<1> QED
  BY <1>1, <1>2, <1>3, <1>4, <1>5, <1>6, NoTraffic DEF ClientInv

LEMMA ExitStep == ASSUME HInv, NEW c \in Client, Exit(c) PROVE HInv'
<1>1. /\ TypeOK /\ ClientTypes /\ ClientInv(c) /\ cpc[c] = "prompt"
      /\ cq \in [Client -> Seq(Message)]
  BY ClientFacts DEF Exit
<1>2. /\ cpc' = [cpc EXCEPT ![c] = "dead"] /\ cq' = [cq EXCEPT ![c] = <<>>]
      /\ UNCHANGED <<asked, repeated, early, armed, jmp, cur, mparams, killed, server, daemon, net>>
      /\ failed' = failed /\ lost' = lost /\ faults' = faults
  BY DEF Exit, mishap
<1>3. ClientTypes'
  <2>1. cpc' \in [Client -> Locations]
    BY <1>1, <1>2 DEF ClientTypes, Locations
  <2> QED
    BY <1>1, <1>2, <2>1 DEF ClientTypes
<1>4. cpc'[c] = "dead" /\ \A k \in Client \ {c} : cpc'[k] = cpc[k]
  BY <1>1, <1>2 DEF ClientTypes
<1>5. /\ cq' \in [Client -> Seq(Message)]
      /\ \A k \in Client : cq'[k] = cq[k] \/ cq'[k] = <<>>
  BY <1>1, <1>2
<1>6. Alone(c)
  BY <1>2, <1>4 DEF Alone
<1>7. Extra(c) = 0 /\ Extra(c)' \in {0, 1}
  BY <1>1, <1>4 DEF Extra
<1>8. Extra(c) <= Extra(c)'
  BY <1>7
<1> QED
  BY <1>1, <1>2, <1>3, <1>4, <1>5, <1>6, <1>8, NoTraffic, ZenonT(30) DEF ClientInv

LEMMA AlarmStep == ASSUME HInv, NEW c \in Client, Alarm(c) PROVE HInv'
<1>1. /\ TypeOK /\ ClientTypes /\ ClientInv(c) /\ armed[c] /\ cpc[c] \in Locations
      /\ cq \in [Client -> Seq(Message)] /\ cur[c] \in 0 .. MaxAsk /\ jmp[c] \in BOOLEAN
  BY ClientFacts DEF Alarm
<1>2. /\ early' = early \/ (early' = early \cup {cur[c]} /\ cpc[c] \in {"send", "read"})
      /\ armed' = [armed EXCEPT ![c] = FALSE]
      /\ \/ /\ jmp[c] /\ cpc' = [cpc EXCEPT ![c] = "resend"] /\ cq' = cq
            /\ killed' = killed
         \/ /\ ~jmp[c] /\ cpc' = [cpc EXCEPT ![c] = "dead"] /\ cq' = [cq EXCEPT ![c] = <<>>]
            /\ killed' = killed \cup {c}
      /\ UNCHANGED <<asked, repeated, jmp, cur, mparams, server, daemon, net>>
      /\ failed' = failed /\ lost' = lost /\ faults' = faults
  BY DEF Alarm, Die, mishap
<1>3. cpc[c] \in {"send", "set", "wait", "read"} /\ cur[c] # 0 /\ cur[c] \notin repeated
  BY <1>1 DEF ClientInv, Locations
<1>4. ClientTypes'
  <2>1. armed' \in [Client -> BOOLEAN]
    BY <1>1, <1>2, Zenon DEF ClientTypes
  <2>2. cpc' \in [Client -> Locations]
    BY <1>1, <1>2, Zenon DEF ClientTypes, Locations
  <2>3. cur[c] \in 1 .. MaxAsk
    BY <1>1, <1>3, BoundAssumption
  <2>4. early' \in SUBSET (1 .. MaxAsk)
    BY <1>1, <1>2, <2>3, Zenon DEF ClientTypes
  <2> QED
    BY <1>1, <1>2, <2>1, <2>2, <2>4 DEF ClientTypes
<1>5. /\ ~armed'[c]
      /\ \A k \in Client \ {c} : /\ cpc'[k] = cpc[k] /\ armed'[k] = armed[k]
                                 /\ k \in killed' <=> k \in killed
  BY <1>1, <1>2 DEF ClientTypes
<1>6. cpc'[c] = "resend" \/ (cpc'[c] = "dead" /\ c \in killed')
  BY <1>1, <1>2 DEF ClientTypes
<1>7. /\ cq' \in [Client -> Seq(Message)]
      /\ \A k \in Client : cq'[k] = cq[k] \/ cq'[k] = <<>>
  <2>1. CASE cq' = cq
    BY <1>1, <2>1
  <2>2. CASE cq' = [cq EXCEPT ![c] = <<>>]
    BY <1>1, <2>2
  <2> QED
    BY <1>2, <2>1, <2>2
<1>8. Alone(c)
  BY <1>2, <1>5 DEF Alone
<1>9. Extra(c) \in {0, 1} /\ Extra(c)' = 1
  BY <1>6 DEF Extra
<1>10. Extra(c) <= Extra(c)'
  BY <1>9
<1>11. /\ cpc[c] # "dead" /\ cpc'[c] \notin {"send", "set", "read"}
       /\ cur'[c] = cur[c] /\ UNCHANGED <<server, daemon, net, asked, repeated, failed>>
  BY <1>2, <1>3, <1>6
<1> QED
  BY <1>3, <1>4, <1>5, <1>7, <1>8, <1>10, <1>11, NoTraffic, ZenonT(30)

LEMMA KillStep == ASSUME HInv, NEW c \in Client, Kill(c) PROVE HInv'
<1>1. /\ TypeOK /\ ClientTypes /\ ClientInv(c) /\ cpc[c] # "dead"
      /\ cq \in [Client -> Seq(Message)]
  BY ClientFacts DEF Kill
<1>2. /\ cpc' = [cpc EXCEPT ![c] = "dead"] /\ cq' = [cq EXCEPT ![c] = <<>>]
      /\ killed' = killed \cup {c} /\ armed' = [armed EXCEPT ![c] = FALSE]
      /\ faults' = faults + 1 /\ lost' = lost
      /\ UNCHANGED <<asked, repeated, early, jmp, cur, mparams, server, daemon, net, failed>>
  BY DEF Kill, Die, Fault
<1>3. ClientTypes'
  <2>1. armed' \in [Client -> BOOLEAN]
    BY <1>1, <1>2, Zenon DEF ClientTypes
  <2>2. cpc' \in [Client -> Locations]
    BY <1>1, <1>2 DEF ClientTypes, Locations
  <2> QED
    BY <1>1, <1>2, <2>1, <2>2 DEF ClientTypes
<1>4. /\ cpc'[c] = "dead" /\ ~armed'[c] /\ c \in killed'
      /\ \A k \in Client \ {c} : /\ cpc'[k] = cpc[k] /\ armed'[k] = armed[k]
                                 /\ k \in killed' <=> k \in killed
  BY <1>1, <1>2 DEF ClientTypes
<1>5. /\ cq' \in [Client -> Seq(Message)]
      /\ \A k \in Client : cq'[k] = cq[k] \/ cq'[k] = <<>>
  BY <1>1, <1>2
<1>6. Alone(c)
  BY <1>2, <1>4 DEF Alone
<1>7. Extra(c) \in {0, 1} /\ Extra(c)' = 1
  BY <1>4 DEF Extra
<1>8. Extra(c) <= Extra(c)'
  BY <1>7
<1> QED
  BY <1>1, <1>2, <1>3, <1>4, <1>5, <1>6, <1>8, NoTraffic, ZenonT(30)

\* A token that was nowhere comes to k, or a token goes for good.
LEMMA ComesApart ==
  ASSUME Apart(Held), NEW k, NEW t, Arrives(t), Only(k, t)'
  PROVE  Apart(Held)' /\ About(Held') \subseteq About(Held) \cup {t}
BY ArrivalSettled, SettledApart

LEMMA GoesApart ==
  ASSUME Apart(Held), NEW t \in About(Held), Arrives(t), Only(<<7, Elsewhere>>, t)'
  PROVE  Apart(Held)' /\ About(Held') \subseteq About(Held) \ {t}
<1>1. Apart(Held)' /\ About(Held') \subseteq About(Held)
  BY MovesApart
<1>2. Settled(Held, Held', <<7, Elsewhere>>, t)
  BY ArrivalSettled
<1>3. <<7, Elsewhere>> \notin Place
  BY PlaceFacts
<1>4. t \notin About(Held')
  BY <1>2, <1>3 DEF Settled, About
<1> QED
  BY <1>1, <1>4

LEMMA Nowhere ==
  ASSUME NEW t, t \notin About(Held), NEW k
  PROVE  Only(k, t)
BY HeldFacts, PlaceFacts, Zenon DEF Only, About

LEMMA ReadStep == ASSUME HInv, NEW c \in Client, Read(c) PROVE HInv'
<1> PICK m : m = Head(cq[c])
  OBVIOUS
<1>1. /\ TypeOK /\ ClientTypes /\ ClientInv(c) /\ CountInv(c)
      /\ cpc[c] = "wait" /\ cq[c] # <<>>
      /\ cq \in [Client -> Seq(Message)] /\ cur[c] \in 0 .. MaxAsk
  BY ClientFacts DEF Read
<1>2. /\ mparams' = [mparams EXCEPT ![c] = m.q] /\ cq' = [cq EXCEPT ![c] = Tail(@)]
      /\ cpc' = [cpc EXCEPT ![c] = "read"]
      /\ UNCHANGED <<asked, repeated, early, armed, jmp, cur, killed, sq, shold, sup, dq,
                     dhold, local, up, net, failed, lost, faults>>
  BY DEF Read, server, daemon, mishap
<1>3. OnePlace /\ Routed /\ TokenInv /\ repeated \subseteq DOMAIN asked
  BY DEF HInv
<1>4. /\ Tail(cq[c]) \in Seq(Message) /\ Len(Tail(cq[c])) = Len(cq[c]) - 1 /\ m \in Message
      /\ 1 \in DOMAIN cq[c] /\ m = cq[c][1]
      /\ \A i \in DOMAIN Tail(cq[c]) : i + 1 \in DOMAIN cq[c] /\ Tail(cq[c])[i] = cq[c][i + 1]
      /\ Toks(Tail(cq[c])) = Toks(cq[c]) \ {tok(m)} /\ tok(m) \in Toks(cq[c])
      /\ Distinct(Tail(cq[c]))
  <2>1. cq[c] \in Seq(Message) /\ Distinct(cq[c])
    BY <1>1, <1>3 DEF OnePlace
  <2> QED
    BY <1>1, <2>1, TailToks, ZenonT(30)
<1>5. m.q \in 1 .. MaxAsk /\ tok(m)[1] = m.q
  BY <1>4, Tokens DEF Message
<1>6. cq'[c] = Tail(cq[c]) /\ \A k \in Client \ {c} : cq'[k] = cq[k]
  BY <1>1, <1>2
<1>7. /\ cpc'[c] = "read" /\ mparams'[c] = m.q
      /\ \A k \in Client \ {c} : cpc'[k] = cpc[k] /\ mparams'[k] = mparams[k]
  BY <1>1, <1>2 DEF ClientTypes
<1>8. TypeOK'
  <2>1. ClientTypes'
    <3>1. cpc' \in [Client -> Locations] /\ mparams' \in [Client -> 0 .. MaxAsk]
      BY <1>1, <1>2, <1>5 DEF ClientTypes, Locations
    <3> QED
      BY <1>1, <1>2, <3>1 DEF ClientTypes
  <2>2. cq' \in [Client -> Seq(Message)]
    BY <1>1, <1>2, <1>4
  <2>3. \A k \in Client : Len(cq'[k]) <= Cap
    <3>1. Len(cq[c]) \in Nat /\ Len(cq[c]) <= Cap
      BY <1>1 DEF TypeOK
    <3>2. Len(cq'[c]) <= Cap
      BY <1>4, <1>6, <3>1, CapAssumption
    <3> QED
      BY <1>1, <1>6, <3>2, ZenonT(30) DEF TypeOK
  <2>4. MessageTypes'
    BY <1>1, <1>2, <2>2, <2>3, ZenonT(30) DEF TypeOK, MessageTypes
  <2> QED
    BY <2>1, <2>4, TypePartsNext, ZenonT(30)
<1>9. Only(<<6, c>>, tok(m)) /\ tok(m) \in About(Held)
  BY <1>3, <1>4, HeldFacts, PlaceFacts, OnlyThere DEF OnePlace
<1>10. Arrives(tok(m)) /\ Only(<<7, Elsewhere>>, tok(m))'
  BY <1>2, <1>4, <1>6, <1>9 DEF Only, Arrives
<1>11. Apart(Held)' /\ About(Held') \subseteq About(Held) \ {tok(m)}
  BY <1>3, <1>9, <1>10, GoesApart, ZenonT(30) DEF OnePlace
<1>12. OnePlace'
  BY <1>2, <1>3, <1>4, <1>6, <1>11, ZenonT(30) DEF OnePlace
<1>13. Routed'
  <2>1. ASSUME NEW k \in Client, NEW i \in DOMAIN cq'[k]
        PROVE  cq'[k][i].q \in DOMAIN asked /\ asked[cq'[k][i].q].client = k
    <3>1. CASE k = c
      <4>1. i + 1 \in DOMAIN cq[c] /\ cq'[k][i] = cq[c][i + 1]
        BY <1>4, <1>6, <2>1, <3>1, Zenon
      <4> QED
        BY <1>3, <3>1, <4>1 DEF Routed, Known, Asker
    <3>2. CASE k # c
      BY <1>3, <1>6, <2>1, <3>2 DEF Routed, Known, Asker
    <3> QED
      BY <3>1, <3>2, ZenonT(30)
  <2>2. asked' = asked
    BY <1>2
  <2>3. ClientRouted'
    BY <2>1, <2>2 DEF ClientRouted, Known, Asker
  <2> QED
    BY <1>2, <1>3, <2>3, RoutedParts, RoutedPartsNext, RoutedKept, ZenonT(30)
<1>14. TokenInv'
  BY <1>2, <1>3, <1>11 DEF TokenInv
<1>15. ASSUME NEW k \in Client, k # c PROVE ClientInv(k)' /\ CountInv(k)'
  <2>1. Undisturbed(k)
    BY <1>2, <1>7, <1>11, <1>15, ZenonT(30) DEF Undisturbed
  <2>2. asked' \in Seq(Question)
    BY <1>1, <1>2 DEF TypeOK
  <2> QED
    BY <2>1, <2>2, OtherClient, ZenonT(30)
<1>16. ClientInv(c)'
  BY <1>1, <1>2, <1>7, <1>11, ZenonT(30) DEF ClientInv
<1>17. CountInv(c)'
  <2>1. tok(m) \in Mine(c)
    <3>1. asked[m.q].client = c
      BY <1>3, <1>4, RoutedParts DEF ClientRouted, Asker
    <3> QED
      BY <1>5, <1>9, <3>1, ZenonT(30) DEF Mine
  <2>2. Mine(c)' \subseteq Mine(c) \ {tok(m)} /\ Rep(c)' = Rep(c)
    BY <1>2, <1>11 DEF Mine, Rep
  <2>3. Clean(c)' <=> Clean(c)
    BY <1>2, <2>2 DEF Clean
  <2>4. IsFiniteSet(Mine(c)) /\ IsFiniteSet(Rep(c))
    BY <1>1, <1>3, FiniteMine
  <2>5. /\ IsFiniteSet(Mine(c) \ {tok(m)})
        /\ Cardinality(Mine(c) \ {tok(m)}) = Cardinality(Mine(c)) - 1
    BY <2>1, <2>4, FS_RemoveElement
  <2>6. /\ Cardinality(Mine(c)') <= Cardinality(Mine(c) \ {tok(m)})
        /\ Cardinality(Mine(c)') \in Nat /\ Cardinality(Mine(c)) \in Nat
        /\ Cardinality(Rep(c)) \in Nat
    BY <2>2, <2>4, <2>5, FS_Subset, FS_CardinalityType, ZenonT(30)
  <2>7. Extra(c) = 1 /\ Extra(c)' = 0
    BY <1>1, <1>7, ZenonT(30) DEF Extra
  <2>8. Cardinality(Mine(c)') <= Cardinality(Rep(c)') + Extra(c)'
    BY <1>1, <2>2, <2>5, <2>6, <2>7 DEF CountInv
  <2>9. mparams'[c] = cur'[c] \/ ~Clean(c)
    BY <1>1, <1>2, <1>5, <1>7, <2>1 DEF CountInv
  <2> QED
    BY <1>1, <1>2, <2>2, <2>3, <2>8, <2>9, ZenonT(30) DEF CountInv
<1>18. Ends'
  <2>1. \A k \in Client : cpc[k] = "dead" => cpc'[k] = "dead"
    BY <1>1, <1>7, ZenonT(30)
  <2> QED
    BY <1>2, <1>3, <2>1, EndsGrow DEF HInv
<1> QED
  BY <1>2, <1>3, <1>8, <1>12, <1>13, <1>14, <1>15, <1>16, <1>17, <1>18, ZenonT(30) DEF HInv

\* Client c sends the token t of message m, which nobody has.
LEMMA SendFacts ==
  ASSUME HInv, NEW m \in Message, tok(m) \notin About(Held), msg_send(m), Known(m),
         m.kind = "request", Asker(m) \in Client,
         UNCHANGED <<asked, cq, server, dhold, local, up, net>>
  PROVE  /\ MessageTypes' /\ OnePlace' /\ Routed'
         /\ About(Held') \subseteq About(Held) \cup {tok(m)}
<1>1. TypeOK /\ OnePlace /\ Routed
  BY DEF HInv
<1>2. asked' = asked /\ cq' = cq /\ sq' = sq /\ shold' = shold /\ dhold' = dhold
      /\ local' = local /\ up' = up /\ sup' = sup /\ net' = net
  BY DEF server
<1>3. Only(<<1, Elsewhere>>, tok(m)) /\ tok(m) \notin Toks(dq)
  <2>1. Only(<<1, Elsewhere>>, tok(m)) /\ Only(<<2, Elsewhere>>, tok(m))
    BY Nowhere, ZenonT(30)
  <2> QED
    BY <2>1 DEF Only
<1>4. /\ dq' \in Seq(Message) /\ Len(dq') <= Cap
      /\ Toks(dq') \subseteq Toks(dq) \cup {tok(m)}
      /\ Distinct(dq')
      /\ \A i \in DOMAIN dq' : dq'[i] = m \/ (i \in DOMAIN dq /\ dq'[i] = dq[i])
  BY <1>1, <1>3, MsgSendFacts, ZenonT(30)
<1>5. MessageTypes'
  BY <1>1, <1>2, <1>4, TypeParts, ZenonT(30) DEF MessageTypes
<1>6. Arrives(tok(m)) /\ Only(<<1, Elsewhere>>, tok(m))'
  BY <1>2, <1>3, <1>4 DEF Only, Arrives
<1>7. Apart(Held)' /\ About(Held') \subseteq About(Held) \cup {tok(m)}
  BY <1>1, <1>6, ComesApart DEF OnePlace
<1>8. OnePlace'
  BY <1>1, <1>2, <1>4, <1>7, ZenonT(30) DEF OnePlace
<1>9. Routed'
  <2>1. m.q \in DOMAIN asked /\ asked[m.q].client \in Client
    BY ZenonT(30) DEF Known, Asker
  <2>2. \A i \in DOMAIN dq : dq[i].q \in DOMAIN asked /\ IF dq[i].kind = "request"
          THEN asked[dq[i].q].client \in Client ELSE asked[dq[i].q].host = Self
    BY <1>1, ZenonT(30) DEF Routed, Known, Asked, Asker
  <2>3. \A i \in DOMAIN dq' : dq'[i].q \in DOMAIN asked /\ IF dq'[i].kind = "request"
          THEN asked[dq'[i].q].client \in Client ELSE asked[dq'[i].q].host = Self
    BY <1>4, <2>1, <2>2, ZenonT(30)
  <2>4. asked' = asked
    BY <1>2, ZenonT(30)
  <2>5. DaemonRouted'
    BY <2>3, <2>4, ZenonT(30) DEF DaemonRouted, Known, Asked, Asker
  <2> QED
    BY <1>1, <1>2, <2>5, RoutedParts, RoutedPartsNext, RoutedKept, ZenonT(30)
<1> QED
  BY <1>5, <1>7, <1>8, <1>9

LEMMA RequestFacts ==
  ASSUME NEW q \in 1 .. MaxAsk, NEW n \in {1, 2}
  PROVE  /\ request(q, n) \in Message /\ request(q, n).q = q
         /\ request(q, n).kind = "request" /\ tok(request(q, n)) = <<q, n>>
BY ZenonT(30) DEF request, Message, tok

LEMMA SendStep == ASSUME HInv, NEW c \in Client, Send(c) PROVE HInv'
<1>1. /\ TypeOK /\ ClientTypes /\ ClientInv(c) /\ CountInv(c) /\ cpc[c] = "send"
      /\ cur[c] \in 0 .. MaxAsk
  BY ClientFacts DEF Send
<1> PICK m : m = request(cur[c], 1)
  OBVIOUS
<1> PICK t : t = <<cur[c], 1>>
  BY Zenon
<1>2. /\ msg_send(m) /\ cpc' = [cpc EXCEPT ![c] = "set"]
      /\ UNCHANGED <<asked, repeated, early, armed, jmp, cur, mparams, killed, cq, server,
                     dhold, local, up, net, failed, lost, faults>>
  BY DEF Send, mishap
<1>3. OnePlace /\ Routed /\ TokenInv /\ repeated \subseteq DOMAIN asked
  BY DEF HInv
<1>4. /\ cur[c] # 0 /\ cur[c] \in DOMAIN asked /\ asked[cur[c]].client = c
      /\ armed[c] /\ cur[c] \notin repeated
  BY <1>1, ZenonT(30) DEF ClientInv
<1>5. /\ m \in Message /\ m.q = cur[c] /\ m.kind = "request" /\ tok(m) = t
  BY <1>1, <1>4, RequestFacts
<1>6. t \notin About(Held) /\ t[1] = cur[c] /\ t \in (DOMAIN asked) \X {1, 2} /\ t[2] = 1
  BY <1>1, <1>4, ZenonT(30) DEF ClientInv
<1>7. /\ MessageTypes' /\ OnePlace' /\ Routed'
      /\ About(Held') \subseteq About(Held) \cup {t}
  <2>1. Known(m) /\ Asker(m) \in Client
    BY <1>4, <1>5 DEF Known, Asker
  <2> QED
    BY <1>2, <1>5, <1>6, <2>1, SendFacts, ZenonT(30)
<1>8. cpc'[c] = "set" /\ \A k \in Client \ {c} : cpc'[k] = cpc[k]
  BY <1>1, <1>2 DEF ClientTypes
<1>9. TypeOK'
  <2>1. cpc' \in [Client -> Locations]
    BY <1>1, <1>2, ZenonT(30) DEF ClientTypes, Locations
  <2>2. ClientTypes'
    BY <1>1, <1>2, <2>1, ZenonT(30) DEF ClientTypes
  <2> QED
    BY <1>7, <2>2, TypePartsNext, ZenonT(30)
<1>10. TokenInv'
  BY <1>2, <1>3, <1>6, <1>7 DEF TokenInv
<1>11. ASSUME NEW k \in Client, k # c PROVE ClientInv(k)' /\ CountInv(k)'
  <2>1. Undisturbed(k)
    BY <1>2, <1>4, <1>6, <1>7, <1>8, <1>11, ZenonT(30) DEF Undisturbed
  <2>2. asked' \in Seq(Question)
    BY <1>1, <1>2, ZenonT(30) DEF TypeOK
  <2> QED
    BY <2>1, <2>2, OtherClient, ZenonT(30)
<1>12. ClientInv(c)'
  BY <1>1, <1>2, <1>4, <1>8 DEF ClientInv
<1>13. CountInv(c)'
  <2>1. Mine(c)' \subseteq Mine(c) \cup {t} /\ Rep(c)' = Rep(c)
    BY <1>2, <1>7, Zenon DEF Mine, Rep
  <2>2. Clean(c)' <=> Clean(c)
    BY <1>2, <2>1 DEF Clean
  <2>3. IsFiniteSet(Mine(c)) /\ IsFiniteSet(Rep(c))
    BY <1>1, <1>3, FiniteMine, ZenonT(30)
  <2>4. t \notin Mine(c)
    BY <1>6, ZenonT(30) DEF Mine
  <2>5. /\ IsFiniteSet(Mine(c) \cup {t})
        /\ Cardinality(Mine(c) \cup {t}) = Cardinality(Mine(c)) + 1
    BY <2>3, <2>4, FS_AddElement, ZenonT(30)
  <2>6. /\ Cardinality(Mine(c)') <= Cardinality(Mine(c) \cup {t})
        /\ Cardinality(Mine(c)') \in Nat /\ Cardinality(Mine(c)) \in Nat
        /\ Cardinality(Rep(c)) \in Nat
    BY <2>1, <2>3, <2>5, FS_Subset, FS_CardinalityType, ZenonT(30)
  <2>7. Extra(c) = 0 /\ Extra(c)' = 1
    BY <1>1, <1>8, ZenonT(30) DEF Extra
  <2>8. Cardinality(Mine(c)') <= Cardinality(Rep(c)') + Extra(c)'
    <3>1. Cardinality(Mine(c)) <= Cardinality(Rep(c)) + Extra(c)
      BY <1>1, Zenon DEF CountInv
    <3>2. Cardinality(Rep(c)') = Cardinality(Rep(c))
      BY <2>1
    <3> QED
      BY <2>5, <2>6, <2>7, <3>1, <3>2
  <2> QED
    BY <1>1, <1>2, <1>6, <1>8, <2>1, <2>2, <2>8, ZenonT(30) DEF CountInv
<1>14. Ends'
  <2>1. \A k \in Client : cpc[k] = "dead" => cpc'[k] = "dead"
    BY <1>1, <1>8, ZenonT(30)
  <2>2. sup' = sup
    BY <1>2 DEF server
  <2> QED
    BY <1>2, <1>3, <2>1, <2>2, EndsGrow DEF HInv
<1> QED
  BY <1>2, <1>3, <1>7, <1>9, <1>10, <1>11, <1>12, <1>13, <1>14, ZenonT(30) DEF HInv

LEMMA ResendStep == ASSUME HInv, NEW c \in Client, Resend(c) PROVE HInv'
<1>1. /\ TypeOK /\ ClientTypes /\ ClientInv(c) /\ CountInv(c) /\ cpc[c] = "resend"
      /\ cur[c] \in 0 .. MaxAsk
  BY ClientFacts DEF Resend
<1> PICK m : m = request(cur[c], 2)
  OBVIOUS
<1> PICK t : t = <<cur[c], 2>>
  BY ZenonT(30)
<1>2. /\ msg_send(m) /\ cpc' = [cpc EXCEPT ![c] = "wait"]
      /\ repeated' = repeated \cup {cur[c]}
      /\ UNCHANGED <<asked, early, armed, jmp, cur, mparams, killed, cq, server,
                     dhold, local, up, net, failed, lost, faults>>
  BY DEF Resend, mishap
<1>3. OnePlace /\ Routed /\ TokenInv /\ repeated \subseteq DOMAIN asked
  BY ZenonT(30) DEF HInv
<1>4. /\ cur[c] # 0 /\ cur[c] \in DOMAIN asked /\ asked[cur[c]].client = c
      /\ ~armed[c] /\ cur[c] \notin repeated
  BY <1>1, ZenonT(30) DEF ClientInv
<1>5. /\ m \in Message /\ m.q = cur[c] /\ m.kind = "request" /\ tok(m) = t
  BY <1>1, <1>4, RequestFacts
<1>6. t \notin About(Held) /\ t[1] = cur[c] /\ t \in (DOMAIN asked) \X {1, 2} /\ t[2] = 2
  BY <1>3, <1>4, ZenonT(30) DEF TokenInv
<1>7. /\ MessageTypes' /\ OnePlace' /\ Routed'
      /\ About(Held') \subseteq About(Held) \cup {t}
  <2>1. Known(m) /\ Asker(m) \in Client
    BY <1>4, <1>5 DEF Known, Asker
  <2> QED
    BY <1>2, <1>5, <1>6, <2>1, SendFacts, ZenonT(30)
<1>8. cpc'[c] = "wait" /\ \A k \in Client \ {c} : cpc'[k] = cpc[k]
  BY <1>1, <1>2 DEF ClientTypes
<1>9. TypeOK'
  <2>1. cpc' \in [Client -> Locations]
    BY <1>1, <1>2, ZenonT(30) DEF ClientTypes, Locations
  <2>2. cur[c] \in 1 .. MaxAsk
    BY <1>1, <1>4
  <2>3. ClientTypes'
    BY <1>1, <1>2, <2>1, <2>2, ZenonT(30) DEF ClientTypes
  <2> QED
    BY <1>7, <2>3, TypePartsNext, ZenonT(30)
<1>10. TokenInv' /\ (repeated \subseteq DOMAIN asked)'
  BY <1>2, <1>3, <1>4, <1>6, <1>7, ZenonT(30) DEF TokenInv
<1>11. ASSUME NEW k \in Client, k # c PROVE ClientInv(k)' /\ CountInv(k)'
  <2>1. Undisturbed(k)
    BY <1>2, <1>4, <1>6, <1>7, <1>8, <1>11, ZenonT(30) DEF Undisturbed
  <2>2. asked' \in Seq(Question)
    BY <1>1, <1>2 DEF TypeOK
  <2> QED
    BY <2>1, <2>2, OtherClient
<1>12. ClientInv(c)'
  BY <1>1, <1>2, <1>4, <1>8, ZenonT(30) DEF ClientInv
<1>13. CountInv(c)'
  <2>1. Mine(c)' \subseteq Mine(c) \cup {t}
    BY <1>2, <1>7, ZenonT(30) DEF Mine
  <2>2. Rep(c)' = Rep(c) \cup {cur[c]} /\ cur[c] \notin Rep(c)
    BY <1>2, <1>4, Zenon DEF Rep
  <2>3. Clean(c)' <=> Clean(c)
    BY <1>2, <2>2, ZenonT(30) DEF Clean
  <2>4. IsFiniteSet(Mine(c)) /\ IsFiniteSet(Rep(c))
    BY <1>1, <1>3, FiniteMine, ZenonT(30)
  <2>5. t \notin Mine(c)
    BY <1>6, ZenonT(30) DEF Mine
  <2>6. /\ IsFiniteSet(Mine(c) \cup {t})
        /\ Cardinality(Mine(c) \cup {t}) = Cardinality(Mine(c)) + 1
    BY <2>4, <2>5, FS_AddElement
  <2>7. Cardinality(Rep(c)') = Cardinality(Rep(c)) + 1
    BY <2>2, <2>4, FS_AddElement, ZenonT(30)
  <2>8. /\ Cardinality(Mine(c)') <= Cardinality(Mine(c) \cup {t})
        /\ Cardinality(Mine(c)') \in Nat /\ Cardinality(Mine(c)) \in Nat
        /\ Cardinality(Rep(c)) \in Nat
    BY <2>1, <2>4, <2>6, FS_Subset, FS_CardinalityType, ZenonT(30)
  <2>9. Extra(c) = 1 /\ Extra(c)' = 1
    BY <1>1, <1>8, ZenonT(30) DEF Extra
  <2>10. Cardinality(Mine(c)') <= Cardinality(Rep(c)') + Extra(c)'
    BY <1>1, <2>6, <2>7, <2>8, <2>9 DEF CountInv
  <2> QED
    BY <1>1, <1>2, <1>6, <1>8, <2>1, <2>3, <2>10, ZenonT(30) DEF CountInv
<1>14. Ends'
  <2>1. \A k \in Client : cpc[k] = "dead" => cpc'[k] = "dead"
    BY <1>1, <1>8, ZenonT(30)
  <2>2. sup' = sup
    BY <1>2 DEF server
  <2> QED
    BY <1>2, <1>3, <2>1, <2>2, EndsGrow DEF HInv
<1> QED
  BY <1>7, <1>9, <1>10, <1>11, <1>12, <1>13, <1>14, ZenonT(30) DEF HInv

-----------------------------------------------------------------------------
(* New questions. *)

\* One more question.
LEMMA AskedGrows ==
  ASSUME HInv, NEW x \in Question, Len(asked) < MaxAsk, asked' = Append(asked, x)
  PROVE  /\ asked' \in Seq(Question) /\ Len(asked') <= MaxAsk /\ Len(asked) \in Nat
         /\ DOMAIN asked' = DOMAIN asked \cup {Len(asked) + 1}
         /\ Len(asked) + 1 \notin DOMAIN asked /\ Len(asked) + 1 \in 1 .. MaxAsk
         /\ asked'[Len(asked) + 1] = x
         /\ \A q \in DOMAIN asked : asked'[q] = asked[q] /\ q <= Len(asked) + 1
<1>1. asked \in Seq(Question)
  BY ZenonT(30) DEF HInv, TypeOK
<1> QED
  BY <1>1, BoundAssumption

\* Messages that were well routed still are when a question is added.
LEMMA RoutedGrows ==
  ASSUME Routed, \A q \in DOMAIN asked : q \in DOMAIN asked' /\ asked'[q] = asked[q],
         \A q \in DOMAIN asked' : q \in DOMAIN asked
                                  \/ (asked'[q].client = Elsewhere => asked'[q].host = Self),
         UNCHANGED <<cq, server, daemon>>,
         \A m \in net' : m \in net \/ (/\ m.q \in DOMAIN asked' /\ m.kind = "request"
                                       /\ asked'[m.q] = [client |-> Elsewhere, host |-> Self])
  PROVE  Routed'
<1>1. /\ sq' = sq /\ shold' = shold /\ dq' = dq /\ dhold' = dhold /\ local' = local
      /\ up' = up /\ cq' = cq
  BY ZenonT(30) DEF server, daemon
<1>2. \A m : Known(m) => m.q \in DOMAIN asked' /\ asked'[m.q] = asked[m.q]
  BY ZenonT(30) DEF Known
<1>3. \A q \in DOMAIN asked' : asked'[q].client = Elsewhere => asked'[q].host = Self
  BY ZenonT(30) DEF Routed
<1>4. \A m \in net' : m.q \in DOMAIN asked' /\ IF m.kind = "request"
                        THEN asked'[m.q].host = Self <=> asked'[m.q].client = Elsewhere
                        ELSE asked'[m.q].client \in Client
  <2> SUFFICES ASSUME NEW m \in net'
               PROVE  m.q \in DOMAIN asked' /\ IF m.kind = "request"
                        THEN asked'[m.q].host = Self <=> asked'[m.q].client = Elsewhere
                        ELSE asked'[m.q].client \in Client
    OBVIOUS
  <2>1. CASE m \in net
    <3>1. Known(m) /\ IF m.kind = "request"
                       THEN Asked(m) = Self <=> Asker(m) = Elsewhere
                       ELSE Asker(m) \in Client
      BY <2>1, ZenonT(30) DEF Routed
    <3> QED
      BY <1>2, <3>1, ZenonT(30) DEF Asked, Asker
  <2>2. CASE m \notin net
    <3>1. /\ m.q \in DOMAIN asked' /\ m.kind = "request"
          /\ asked'[m.q] = [client |-> Elsewhere, host |-> Self]
      BY <2>2, ZenonT(30)
    <3> QED
      BY <3>1
  <2> QED
    BY <2>1, <2>2, ZenonT(30)
<1>5. DaemonRouted /\ ServerRouted /\ ClientRouted /\ HandRouted /\ ReplyRouted
  BY RoutedParts, ZenonT(30)
<1>6. DaemonRouted'
  BY <1>1, <1>2, <1>5, ZenonT(30) DEF DaemonRouted, Known, Asked, Asker
<1>7. ServerRouted'
  BY <1>1, <1>2, <1>5, ZenonT(30) DEF ServerRouted, Known, Asked
<1>8. ClientRouted'
  BY <1>1, <1>2, <1>5 DEF ClientRouted, Known, Asker
<1>9. NetRouted'
  BY <1>4, ZenonT(30) DEF NetRouted, Known, Asked, Asker
<1>10. HandRouted'
  BY <1>1, <1>2, <1>5, ZenonT(30) DEF HandRouted, Known, Asked, Asker
<1>11. ReplyRouted'
  BY <1>1, <1>2, <1>5, ZenonT(30) DEF ReplyRouted, Known, Asked
<1>12. AskedRouted'
  BY <1>3 DEF AskedRouted
<1> QED
  BY <1>6, <1>7, <1>8, <1>9, <1>10, <1>11, <1>12, RoutedPartsNext, ZenonT(30)

LEMMA AskStep == ASSUME HInv, NEW c \in Client, NEW h \in Remote \cup {Self}, Ask(c, h) PROVE HInv'
<1>1. /\ TypeOK /\ ClientTypes /\ ClientInv(c) /\ CountInv(c) /\ cpc[c] = "prompt"
      /\ cq \in [Client -> Seq(Message)]
  BY ClientFacts DEF Ask
<1> PICK x : x = [client |-> c, host |-> h]
  BY Zenon
<1> PICK n : n = Len(asked) + 1
  OBVIOUS
<1>2. /\ Len(asked) < MaxAsk /\ asked' = Append(asked, x)
      /\ cpc' = [cpc EXCEPT ![c] = "send"] /\ cur' = [cur EXCEPT ![c] = n]
      /\ armed' = [armed EXCEPT ![c] = TRUE]
      /\ UNCHANGED <<repeated, early, jmp, mparams, killed, cq, server, daemon, net, failed,
                     lost, faults>>
  BY DEF Ask, mishap
<1>3. OnePlace /\ Routed /\ TokenInv /\ repeated \subseteq DOMAIN asked
  BY DEF HInv
<1>4. x \in Question /\ x.client = c /\ c # Elsewhere
  BY HostAssumption, ZenonT(30) DEF Question
<1>5. /\ asked' \in Seq(Question) /\ Len(asked') <= MaxAsk
      /\ DOMAIN asked' = DOMAIN asked \cup {n}
      /\ n \notin DOMAIN asked /\ n \in 1 .. MaxAsk /\ asked'[n] = x
      /\ \A q \in DOMAIN asked : asked'[q] = asked[q] /\ q <= n
  BY <1>2, <1>4, AskedGrows, ZenonT(30)
<1>6. /\ cpc'[c] = "send" /\ armed'[c] = TRUE /\ cur'[c] = n
      /\ \A k \in Client \ {c} : cpc'[k] = cpc[k] /\ armed'[k] = armed[k] /\ cur'[k] = cur[k]
  BY <1>1, <1>2, ZenonT(30) DEF ClientTypes
<1>7. About(Held') = About(Held) /\ Apart(Held)'
  <2>1. Held' = Held
    BY <1>2 DEF Held, server, daemon
  <2> QED
    BY <1>3, <2>1 DEF OnePlace
<1>8. TypeOK'
  <2>1. armed' \in [Client -> BOOLEAN]
    BY <1>1, <1>2, Zenon DEF ClientTypes
  <2>2. cpc' \in [Client -> Locations] /\ cur' \in [Client -> 0 .. MaxAsk]
    <3>1. n \in 0 .. MaxAsk
      BY <1>5, BoundAssumption
    <3> QED
      BY <1>1, <1>2, <3>1, ZenonT(30) DEF ClientTypes, Locations
  <2>3. ClientTypes'
    BY <1>1, <1>2, <1>5, <2>1, <2>2, ZenonT(30) DEF ClientTypes
  <2>4. MessageTypes'
    BY <1>1, <1>2, TypeParts, ZenonT(30) DEF MessageTypes, server, daemon
  <2> QED
    BY <2>3, <2>4, TypePartsNext
<1>9. OnePlace'
  BY <1>2, <1>3, <1>7, ZenonT(30) DEF OnePlace, server, daemon
<1>10. Routed'
  BY <1>2, <1>3, <1>4, <1>5, RoutedGrows, ZenonT(30)
<1>11. TokenInv' /\ (repeated \subseteq DOMAIN asked)'
  <2>1. DOMAIN asked \subseteq DOMAIN asked' /\ repeated' = repeated
    BY <1>2, <1>5, ZenonT(30)
  <2>2. ASSUME NEW t \in About(Held')
        PROVE  t \in (DOMAIN asked') \X {1, 2} /\ (t[2] = 2 => t[1] \in repeated')
    <3>1. t \in (DOMAIN asked) \X {1, 2} /\ (t[2] = 2 => t[1] \in repeated)
      BY <1>3, <1>7, ZenonT(30) DEF TokenInv
    <3> QED
      BY <2>1, <3>1
  <2> QED
    BY <1>3, <2>1, <2>2, ZenonT(30) DEF TokenInv
<1>12. ASSUME NEW k \in Client, k # c PROVE ClientInv(k)' /\ CountInv(k)'
  <2>1. Undisturbed(k)
    <3>1. /\ \A q \in DOMAIN asked : q \in DOMAIN asked' /\ asked'[q] = asked[q]
          /\ \A q \in DOMAIN asked' : q \in DOMAIN asked \/ asked'[q].client # k
      BY <1>4, <1>5, <1>12, ZenonT(30)
    <3>2. jmp' = jmp /\ mparams' = mparams /\ killed' = killed /\ repeated' = repeated
      BY <1>2
    <3> QED
      BY <1>6, <1>7, <1>12, <3>1, <3>2, ZenonT(30) DEF Undisturbed
  <2> QED
    BY <1>5, <2>1, OtherClient, ZenonT(30)
<1>13. \A t \in About(Held) : t[1] \in DOMAIN asked
  BY <1>3, ZenonT(30) DEF TokenInv
<1>14. ClientInv(c)'
  <2>1. n # 0 /\ n \notin repeated
    BY <1>3, <1>5
  <2>2. \A t \in About(Held') : t[1] # n
    BY <1>5, <1>7, <1>13, ZenonT(30)
  <2>3. n <= n
    BY <1>5
  <2>4. \A q \in DOMAIN asked' : q <= n
    BY <1>5, <2>3, ZenonT(30)
  <2> QED
    <3>1. n \in DOMAIN asked' /\ asked'[n].client = c
      BY <1>4, <1>5, ZenonT(30)
    <3> QED
      BY <1>2, <1>6, <2>1, <2>2, <2>4, <3>1 DEF ClientInv
<1>15. CountInv(c)'
  <2>1. Mine(c)' = Mine(c)
    BY <1>5, <1>7, <1>13, ZenonT(30) DEF Mine
  <2>2. Rep(c)' = Rep(c)
    BY <1>2, <1>3, <1>5, ZenonT(30) DEF Rep
  <2>3. Extra(c) = 0 /\ Extra(c)' = 0
    BY <1>1, <1>6, ZenonT(30) DEF Extra
  <2>4. Clean(c)' => Mine(c) = {}
    <3> SUFFICES ASSUME Clean(c)' PROVE Mine(c) = {}
      OBVIOUS
    <3>1. Rep(c) = {}
      <4>1. \A q \in Rep(c) : q = n /\ q \in DOMAIN asked
        BY <1>3, <1>6, <2>2, ZenonT(30) DEF Clean, Rep
      <4> QED
        BY <1>5, <4>1, ZenonT(30)
    <3>2. IsFiniteSet(Mine(c)) /\ Cardinality(Mine(c)) \in Nat /\ Cardinality(Rep(c)) = 0
      BY <1>1, <1>3, <3>1, FiniteMine, FS_CardinalityType, FS_EmptySet, ZenonT(30)
    <3>3. Cardinality(Mine(c)) = 0
      <4>1. Cardinality(Mine(c)) <= Cardinality(Rep(c)) + Extra(c)
        BY <1>1, ZenonT(30) DEF CountInv
      <4> QED
        BY <2>3, <3>2, <4>1
    <3> QED
      BY <3>2, <3>3, FS_EmptySet, ZenonT(30)
  <2> QED
    BY <1>1, <1>6, <2>1, <2>2, <2>3, <2>4, ZenonT(30) DEF CountInv
<1>16. Ends'
  <2>1. \A k \in Client : cpc[k] = "dead" => cpc'[k] = "dead"
    BY <1>1, <1>6, ZenonT(30)
  <2>2. \A q \in DOMAIN asked : q \in DOMAIN asked' /\ asked'[q] = asked[q]
    BY <1>5, ZenonT(30)
  <2>3. up' = up /\ sup' = sup /\ failed' = failed /\ killed' = killed /\ repeated' = repeated
    BY <1>2 DEF server, daemon
  <2> QED
    BY <1>3, <2>1, <2>2, <2>3, EndsGrow DEF HInv
<1> QED
  BY <1>8, <1>9, <1>10, <1>11, <1>12, <1>14, <1>15, <1>16, ZenonT(30) DEF HInv

LEMMA AskedElsewhereStep == HInv /\ AskedElsewhere => HInv'
<1> SUFFICES ASSUME HInv, AskedElsewhere PROVE HInv'
  OBVIOUS
<1> PICK x : x = [client |-> Elsewhere, host |-> Self]
  BY Zenon
<1> PICK n : n = Len(asked) + 1
  OBVIOUS
<1> PICK m : m = request(n, 1)
  OBVIOUS
<1>1. /\ Len(asked) < MaxAsk /\ asked' = Append(asked, x) /\ net' = net \cup {m}
      /\ UNCHANGED <<repeated, early, client, cq, server, daemon, mishap>>
  BY DEF AskedElsewhere
<1>2. TypeOK /\ OnePlace /\ Routed /\ TokenInv /\ repeated \subseteq DOMAIN asked
  BY DEF HInv
<1>3. x \in Question /\ x.client = Elsewhere /\ x.client \notin Client
  BY HostAssumption, ZenonT(30) DEF Question
<1>4. /\ asked' \in Seq(Question) /\ Len(asked') <= MaxAsk
      /\ DOMAIN asked' = DOMAIN asked \cup {n}
      /\ n \notin DOMAIN asked /\ n \in 1 .. MaxAsk /\ asked'[n] = x
      /\ \A q \in DOMAIN asked : asked'[q] = asked[q] /\ q <= n
  BY <1>1, <1>3, AskedGrows, ZenonT(30)
<1>5. m \in Message /\ m.q = n /\ m.kind = "request" /\ tok(m) = <<n, 1>>
  BY <1>4, RequestFacts, ZenonT(30)
<1>6. tok(m) \notin About(Held)
  BY <1>2, <1>4, <1>5 DEF TokenInv
<1>7. Only(<<5, Elsewhere>>, tok(m)) /\ tok(m) \notin {tok(y) : y \in net}
  <2>1. Only(<<5, Elsewhere>>, tok(m)) /\ Only(<<1, Elsewhere>>, tok(m))
    BY <1>6, Nowhere, ZenonT(30)
  <2> QED
    BY <2>1 DEF Only
<1>8. Arrives(tok(m)) /\ Only(<<5, Elsewhere>>, tok(m))'
  BY <1>1, <1>7, ZenonT(30) DEF Only, Arrives, server, daemon
<1>9. Apart(Held)' /\ About(Held') \subseteq About(Held) \cup {tok(m)}
  BY <1>2, <1>8, ComesApart, ZenonT(30) DEF OnePlace
<1>10. TypeOK'
  <2>1. ClientTypes'
    BY <1>1, <1>2, <1>4, TypeParts, ZenonT(30) DEF ClientTypes, client, mishap
  <2>2. MessageTypes'
    BY <1>1, <1>2, <1>5, TypeParts, ZenonT(30) DEF MessageTypes, server, daemon
  <2> QED
    BY <2>1, <2>2, TypePartsNext, ZenonT(30)
<1>11. OnePlace'
  <2>1. \A y, z \in net' : tok(y) = tok(z) => y = z
    BY <1>1, <1>2, <1>7 DEF OnePlace
  <2> QED
    BY <1>1, <1>2, <1>9, <2>1, ZenonT(30) DEF OnePlace, server, daemon
<1>12. Routed'
  <2>1. asked'[n] = [client |-> Elsewhere, host |-> Self]
    BY <1>4
  <2>2. x.host = Self
    OBVIOUS
  <2> QED
    BY <1>1, <1>2, <1>4, <1>5, <2>1, <2>2, RoutedGrows, ZenonT(30)
<1>13. TokenInv' /\ (repeated \subseteq DOMAIN asked)'
  <2>1. DOMAIN asked \subseteq DOMAIN asked' /\ n \in DOMAIN asked' /\ repeated' = repeated
    BY <1>1, <1>4, ZenonT(30)
  <2>2. ASSUME NEW t \in About(Held')
        PROVE  t \in (DOMAIN asked') \X {1, 2} /\ (t[2] = 2 => t[1] \in repeated')
    <3>1. CASE t \in About(Held)
      <4>1. t \in (DOMAIN asked) \X {1, 2} /\ (t[2] = 2 => t[1] \in repeated)
        BY <1>2, <3>1, ZenonT(30) DEF TokenInv
      <4> QED
        BY <2>1, <4>1
    <3>2. CASE t = tok(m)
      BY <1>5, <2>1, <3>2
    <3> QED
      BY <1>9, <3>1, <3>2, ZenonT(30)
  <2> QED
    BY <1>2, <2>1, <2>2, ZenonT(30) DEF TokenInv
<1>14. ASSUME NEW k \in Client PROVE ClientInv(k)' /\ CountInv(k)'
  <2>1. Undisturbed(k)
    <3>1. /\ \A q \in DOMAIN asked : q \in DOMAIN asked' /\ asked'[q] = asked[q]
          /\ \A q \in DOMAIN asked' : q \in DOMAIN asked \/ asked'[q].client # k
      BY <1>3, <1>4, ZenonT(30)
    <3>2. /\ cpc' = cpc /\ armed' = armed /\ jmp' = jmp /\ cur' = cur /\ mparams' = mparams
          /\ killed' = killed /\ repeated' = repeated
      BY <1>1, ZenonT(30) DEF client
    <3>3. \A t \in About(Held') : t \in About(Held) \/ asked'[t[1]].client # k
      <4>1. x.client # k
        BY HostAssumption, ZenonT(30)
      <4>2. asked'[tok(m)[1]].client # k
        BY <1>4, <1>5, <4>1
      <4> QED
        BY <1>9, <4>2, ZenonT(30)
    <3> QED
      BY <3>1, <3>2, <3>3, ZenonT(30) DEF Undisturbed
  <2> QED
    BY <1>4, <2>1, OtherClient
<1>15. Ends'
  <2>1. \A q \in DOMAIN asked : q \in DOMAIN asked' /\ asked'[q] = asked[q]
    BY <1>4, ZenonT(30)
  <2>2. /\ up' = up /\ sup' = sup /\ failed' = failed /\ killed' = killed /\ cpc' = cpc
        /\ repeated' = repeated
    BY <1>1 DEF server, daemon, client, mishap
  <2> QED
    BY <1>2, <2>1, <2>2, EndsGrow DEF HInv
<1> QED
  BY <1>10, <1>11, <1>12, <1>13, <1>14, <1>15, ZenonT(30) DEF HInv

-----------------------------------------------------------------------------
(* The invariant holds, and what follows from it. *)

LEMMA InitHInv == Init => HInv
<1> SUFFICES ASSUME Init PROVE HInv
  OBVIOUS
<1>1. TypeOK
  <2>1. ClientTypes
    BY CapAssumption, BoundAssumption DEF Init, ClientTypes, Locations
  <2>2. <<>> \in Seq(Message) /\ Len(<<>>) = 0 /\ 0 <= Cap
    BY CapAssumption
  <2>3. MessageTypes
    BY <2>2, ZenonT(30) DEF Init, MessageTypes
  <2> QED
    BY <2>1, <2>3, TypeParts, ZenonT(30)
<1>2. \A l \in Place : Held[l] = {}
  <2>1. Toks(<<>>) = {} /\ InHand(Nobody) = {}
    BY EmptyToks DEF InHand
  <2> QED
    BY <2>1, HeldFacts, PlaceFacts DEF Init
<1>3. About(Held) = {} /\ Apart(Held)
  BY <1>2 DEF About, Apart
<1>4. OnePlace
  BY <1>3, EmptyToks, ZenonT(30) DEF Init, OnePlace
<1>5. Routed
  BY DEF Init, Routed
<1>6. TokenInv /\ repeated \subseteq DOMAIN asked /\ Ends
  BY <1>3, ZenonT(30) DEF Init, TokenInv, Ends, DaemonOutlivesClients
<1>7. ASSUME NEW c \in Client PROVE ClientInv(c) /\ CountInv(c)
  <2>1. ClientInv(c)
    <3>1. /\ asked = <<>> /\ repeated = {} /\ cur[c] = 0 /\ cpc[c] = "prompt"
          /\ armed[c] = FALSE
      BY DEF Init
    <3>2. DOMAIN asked = {}
      BY <3>1
    <3> QED
      BY <3>1, <3>2, ZenonT(30) DEF ClientInv
  <2>2. Mine(c) = {} /\ Rep(c) = {} /\ Extra(c) = 0 /\ cpc[c] = "prompt"
    BY <1>3 DEF Init, Mine, Rep, Extra
  <2> QED
    <3>1. Cardinality(Mine(c)) = 0 /\ Cardinality(Rep(c)) = 0
      BY <2>2, FS_EmptySet, ZenonT(30)
    <3>2. Cardinality(Mine(c)) <= Cardinality(Rep(c)) + Extra(c)
      BY <2>2, <3>1
    <3> QED
      BY <2>1, <2>2, <3>2, ZenonT(30) DEF CountInv
<1> QED
  BY <1>1, <1>4, <1>5, <1>6, <1>7 DEF HInv

LEMMA NextHInv == HInv /\ [Next]_vars => HInv'
<1> SUFFICES ASSUME HInv, [Next]_vars PROVE HInv'
  OBVIOUS
<1>1. ASSUME NEW c \in Client, ClientStep(c) \/ Alarm(c) \/ Exit(c) \/ Kill(c)
      PROVE  HInv'
  BY <1>1, SendStep, SetJmpStep, ResendStep, ReadStep, PrintedStep, AlarmStep, ExitStep,
     KillStep DEF ClientStep
<1>2. ASSUME NEW c \in Client, NEW h \in Remote \cup {Self}, Ask(c, h) PROVE HInv'
  BY <1>2, AskStep
<1>3. CASE ServerStep \/ ServerKilled \/ ServerStart
  BY <1>3, ServerRecvStep, ServerSendStep, ServerKilledStep, ServerStartStep DEF ServerStep
<1>4. CASE DaemonStep \/ DaemonEnds
  BY <1>4, PeerHereStep, PeerLeavesStep, DeliverServerStep, DeliverClientStep,
     DeliverNobodyStep, DaemonEndsStep DEF DaemonStep
<1>5. ASSUME NEW m \in net, FromWire(m) \/ AnsweredElsewhere(m) \/ Lose(m) PROVE HInv'
  BY <1>5, FromWireStep, AnsweredElsewhereStep, LoseStep, ZenonT(30)
<1>6. CASE AskedElsewhere
  BY <1>6, AskedElsewhereStep, ZenonT(30)
<1>7. CASE UNCHANGED vars
  <2>1. /\ UNCHANGED <<asked, repeated, early, client, cq, sq, shold, sup, dq, dhold, local, up,
                       net, mishap>>
    BY <1>7 DEF vars, server, daemon
  <2>2. Held' = Held
    BY <2>1 DEF Held
  <2>3. About(Held') \subseteq About(Held) /\ (Apart(Held)' <=> Apart(Held))
    BY <2>2, ZenonT(30)
  <2>4. TypeOK'
    BY <2>1, ZenonT(30) DEF HInv, TypeOK, client, mishap
  <2>5. OnePlace'
    BY <2>1, <2>3, ZenonT(30) DEF HInv, OnePlace
  <2>6. Routed'
    BY <2>1, ZenonT(30) DEF HInv, Routed, Known, Asked, Asker
  <2>7. Ends'
    BY <2>1, EndsKept DEF HInv, mishap
  <2> QED
    BY <2>1, <2>3, <2>4, <2>5, <2>6, <2>7, StandStill, ZenonT(30) DEF HInv
<1> QED
  BY <1>1, <1>2, <1>3, <1>4, <1>5, <1>6, <1>7, ZenonT(30) DEF Next

LEMMA HostInvariance == Spec => []HInv
BY InitHInv, NextHInv, PTL DEF Spec

\* Queues hold no more than Cap datagrams, and everything has its type.
THEOREM HostTypes == Spec => []TypeOK
<1>1. HInv => TypeOK
  BY DEF HInv
<1> QED
  BY <1>1, HostInvariance, PTL

\* The daemon ends only because it was killed or could not send a frame, or
\* because a client here had asked this machine and the server was killed or the
\* client left with an answer to come.
THEOREM DaemonLives == Spec => []DaemonOutlivesClients
<1>1. HInv => DaemonOutlivesClients
  BY ZenonT(30) DEF HInv, Ends
<1> QED
  BY <1>1, HostInvariance, PTL

\* The time client prints is that of the machine asked, unless the client had
\* repeated an earlier question.
THEOREM AnswersRight == Spec => []RightAnswer
<1>1. HInv => RightAnswer
  <2> SUFFICES ASSUME HInv, NEW c \in Client, cpc[c] = "read", mparams[c] # cur[c]
               PROVE  \E q \in repeated : q < cur[c] /\ asked[q].client = c
    BY DEF RightAnswer
  <2>1. ClientInv(c) /\ CountInv(c) /\ TypeOK /\ repeated \subseteq DOMAIN asked
    BY ZenonT(30) DEF HInv
  <2>2. PICK q \in Rep(c) : q # cur[c]
    BY <2>1, ZenonT(30) DEF CountInv, Clean
  <2>3. q \in repeated /\ q \in DOMAIN asked /\ asked[q].client = c /\ q <= cur[c]
    BY <2>1, <2>2, ZenonT(30) DEF Rep, ClientInv
  <2>4. q \in Int /\ cur[c] \in Int
    <3>1. asked \in Seq(Question) /\ cur \in [Client -> 0 .. MaxAsk]
      BY <2>1, ZenonT(30) DEF TypeOK
    <3> QED
      BY <2>3, <3>1
  <2> QED
    BY <2>2, <2>3, <2>4
<1> QED
  BY <1>1, HostInvariance, PTL

\* A client at its prompt holds up the daemon only after more than Cap of its
\* questions were repeated.
THEOREM PromptNeeds == Spec => []PromptHoldsUp
<1>1. HInv => PromptHoldsUp
  <2> SUFFICES ASSUME HInv, NEW c \in Client, cpc[c] = "prompt", WaitsForClient(c)
               PROVE  Cardinality({q \in repeated : asked[q].client = c}) > Cap
    BY DEF PromptHoldsUp
  <2> PICK m : m = dhold
    OBVIOUS
  <2>1. /\ TypeOK /\ OnePlace /\ Routed /\ TokenInv /\ repeated \subseteq DOMAIN asked
        /\ CountInv(c)
    BY DEF HInv
  <2>2. /\ dhold # Nobody /\ Asker(m) = c /\ Len(cq[c]) = Cap
    BY DEF WaitsForClient
  <2>3. m \in Message /\ Only(<<2, Elsewhere>>, tok(m)) /\ tok(m) \in About(Held)
    BY <2>1, <2>2, HandFacts, ZenonT(30)
  <2>4. cq[c] \in Seq(Message) /\ Distinct(cq[c])
    BY <2>1, ZenonT(30) DEF TypeOK, OnePlace
  <2>5. IsFiniteSet(Toks(cq[c])) /\ Cardinality(Toks(cq[c])) = Cap
    BY <2>2, <2>4, ToksCount, ZenonT(30)
  <2>6. tok(m) \notin Toks(cq[c])
    BY <2>3 DEF Only
  <2>7. /\ IsFiniteSet(Toks(cq[c]) \cup {tok(m)})
        /\ Cardinality(Toks(cq[c]) \cup {tok(m)}) = Cap + 1
    BY <2>5, <2>6, FS_AddElement, ZenonT(30)
  <2>8. Toks(cq[c]) \cup {tok(m)} \subseteq Mine(c)
    <3>1. tok(m) \in Mine(c)
      BY <2>2, <2>3, Tokens DEF Mine, Asker
    <3>2. ASSUME NEW i \in DOMAIN cq[c] PROVE tok(cq[c][i]) \in Mine(c)
      <4>1. cq[c][i] \in Message /\ asked[cq[c][i].q].client = c
        <5>1. cq[c][i] \in Message
          BY <2>4
        <5>2. \A j \in DOMAIN cq[c] : Asker(cq[c][j]) = c
          BY <2>1, ZenonT(30) DEF Routed
        <5> QED
          BY <5>1, <5>2, ZenonT(30) DEF Asker
      <4>2. tok(cq[c][i]) \in About(Held)
        BY HeldFacts, PlaceFacts, ZenonT(30) DEF About, Toks
      <4> QED
        BY <4>1, <4>2, Tokens, ZenonT(30) DEF Mine
    <3> QED
      BY <3>1, <3>2, ZenonT(30) DEF Toks
  <2>9. IsFiniteSet(Mine(c)) /\ IsFiniteSet(Rep(c)) /\ Extra(c) = 0
    BY <2>1, FiniteMine, ZenonT(30) DEF Extra
  <2>10. Cap + 1 <= Cardinality(Mine(c)) /\ Cardinality(Mine(c)) <= Cardinality(Rep(c))
    <3>1. Cardinality(Mine(c)) \in Nat /\ Cardinality(Rep(c)) \in Nat
      BY <2>9, FS_CardinalityType, ZenonT(30)
    <3>2. Cap + 1 <= Cardinality(Mine(c))
      <4>1. Cardinality(Toks(cq[c]) \cup {tok(m)}) <= Cardinality(Mine(c))
        BY <2>8, <2>9, FS_Subset, ZenonT(30)
      <4> QED
        BY <2>7, <4>1, ZenonT(30)
    <3>3. Cardinality(Mine(c)) <= Cardinality(Rep(c)) + Extra(c)
      BY <2>1, ZenonT(30) DEF CountInv
    <3> QED
      BY <2>9, <3>1, <3>2, <3>3
  <2>11. Cardinality(Mine(c)) \in Nat /\ Cardinality(Rep(c)) \in Nat
    BY <2>9, FS_CardinalityType
  <2> QED
    <3>1. Cardinality(Rep(c)) > Cap
      BY <2>10, <2>11, CapAssumption
    <3> QED
      BY <3>1, ZenonT(30) DEF Rep
<1> QED
  BY <1>1, HostInvariance, PTL

LEMMA Column ==
  ASSUME NEW S, IsFiniteSet(S), NEW x
  PROVE  IsFiniteSet(S \X {x}) /\ Cardinality(S \X {x}) = Cardinality(S)
<1>1. IsFiniteSet({x}) /\ Cardinality({x}) = 1
  BY FS_Singleton, ZenonT(30)
<1>2. Cardinality(S) \in Nat
  BY FS_CardinalityType
<1>3. IsFiniteSet(S \X {x}) /\ Cardinality(S \X {x}) = Cardinality(S) * Cardinality({x})
  BY <1>1, FS_Product, ZenonT(30)
<1> QED
  BY <1>1, <1>2, <1>3

\* Daemon and server wait for each other only when 2 * Cap + 2 requests are about.
THEOREM MutualWaitNeeds == Spec => []MutualWaitTakes
<1>1. HInv => MutualWaitTakes
  <2> SUFFICES ASSUME HInv, MutualWait
               PROVE  Len(asked) + Cardinality(repeated) >= 2 * Cap + 2
    BY DEF MutualWaitTakes
  <2>1. /\ TypeOK /\ OnePlace /\ TokenInv /\ repeated \subseteq DOMAIN asked
    BY DEF HInv
  <2>2. dhold # Nobody /\ shold # Nobody /\ Len(sq) = Cap /\ Len(dq) = Cap
    BY ZenonT(30) DEF MutualWait, WaitsForServer
  <2> DEFINE A == Toks(dq) \cup Toks(sq)
             B == A \cup {tok(dhold)}
             C == B \cup {tok(shold)}
             Once  == (1 .. Len(asked)) \X {1}
             Twice == repeated \X {2}
  <2>3. /\ IsFiniteSet(Toks(dq)) /\ Cardinality(Toks(dq)) = Cap
        /\ IsFiniteSet(Toks(sq)) /\ Cardinality(Toks(sq)) = Cap
    BY <2>1, <2>2, ToksCount, ZenonT(30) DEF TypeOK, OnePlace
  <2>4. /\ Held[<<1, Elsewhere>>] = Toks(dq) /\ Held[<<2, Elsewhere>>] = {tok(dhold)}
        /\ Held[<<3, Elsewhere>>] = Toks(sq) /\ Held[<<4, Elsewhere>>] = {tok(shold)}
    BY <2>2, HeldFacts, ZenonT(30) DEF InHand
  <2>5. /\ Toks(dq) \cap Toks(sq) = {}
        /\ tok(dhold) \notin Toks(dq) /\ tok(dhold) \notin Toks(sq)
        /\ tok(shold) \notin Toks(dq) /\ tok(shold) \notin Toks(sq)
        /\ tok(shold) # tok(dhold)
    <3>1. \A k, l \in Place : k # l => Held[k] \cap Held[l] = {}
      BY <2>1 DEF OnePlace, Apart
    <3>2. <<1, Elsewhere>> # <<3, Elsewhere>> /\ <<1, Elsewhere>> # <<2, Elsewhere>>
          /\ <<3, Elsewhere>> # <<2, Elsewhere>> /\ <<1, Elsewhere>> # <<4, Elsewhere>>
          /\ <<3, Elsewhere>> # <<4, Elsewhere>> /\ <<2, Elsewhere>> # <<4, Elsewhere>>
      OBVIOUS
    <3> QED
      BY <2>4, <3>1, <3>2, PlaceFacts
  <2>6. IsFiniteSet(A) /\ Cardinality(A) = 2 * Cap
    <3>1. Cardinality(Toks(dq) \cap Toks(sq)) = 0
      BY <2>5, FS_EmptySet, ZenonT(30)
    <3>2. IsFiniteSet(A) /\ Cardinality(A) = Cap + Cap - 0
      BY <2>3, <3>1, FS_Union, ZenonT(30)
    <3> QED
      BY <3>2, CapAssumption
  <2>7. tok(dhold) \notin A /\ tok(shold) \notin B
    BY <2>5
  <2> HIDE DEF A
  <2>8. IsFiniteSet(B) /\ Cardinality(B) = 2 * Cap + 1
    BY <2>6, <2>7, FS_AddElement, ZenonT(30)
  <2>9. C \subseteq About(Held)
    BY <2>4, PlaceFacts, ZenonT(30) DEF About, A
  <2> HIDE DEF B
  <2>10. IsFiniteSet(C) /\ Cardinality(C) = (2 * Cap + 1) + 1
    BY <2>7, <2>8, FS_AddElement
  <2>11. About(Held) \subseteq Once \cup Twice
    <3>1. DOMAIN asked = 1 .. Len(asked)
      BY <2>1 DEF TypeOK
    <3>2. ASSUME NEW t \in About(Held) PROVE t \in Once \cup Twice
      <4>1. t \in (1 .. Len(asked)) \X {1, 2} /\ (t[2] = 2 => t[1] \in repeated)
        BY <2>1, <3>1 DEF TokenInv
      <4>2. t = <<t[1], t[2]>> /\ t[1] \in 1 .. Len(asked) /\ t[2] \in {1, 2}
        BY <4>1
      <4> QED
        BY <4>1, <4>2
    <3> QED
      BY <3>2, ZenonT(30)
  <2>12. Len(asked) \in Nat /\ IsFiniteSet(1 .. Len(asked)) /\ IsFiniteSet(repeated)
         /\ Cardinality(1 .. Len(asked)) = Len(asked) /\ Cardinality(repeated) \in Nat
    <3>1. Len(asked) \in Nat
      BY <2>1 DEF TypeOK
    <3>2. IsFiniteSet(1 .. Len(asked)) /\ Cardinality(1 .. Len(asked)) = Len(asked)
      BY <3>1, UpTo, ZenonT(30)
    <3>3. IsFiniteSet(repeated) /\ Cardinality(repeated) \in Nat
      BY <2>1, FiniteMine, FS_CardinalityType
    <3> QED
      BY <3>1, <3>2, <3>3, ZenonT(30)
  <2>13. IsFiniteSet(Once) /\ Cardinality(Once) = Len(asked)
    BY <2>12, Column, Zenon
  <2>14. IsFiniteSet(Twice) /\ Cardinality(Twice) = Cardinality(repeated)
    BY <2>12, Column, Zenon
  <2>15. Once \cap Twice = {}
    OBVIOUS
  <2> HIDE DEF C, Once, Twice
  <2>16. IsFiniteSet(Once \cup Twice)
         /\ Cardinality(Once \cup Twice) = Len(asked) + Cardinality(repeated) - 0
    <3>1. Cardinality(Once \cap Twice) = 0
      BY <2>15, FS_EmptySet, ZenonT(30)
    <3> QED
      BY <2>13, <2>14, <3>1, FS_Union, ZenonT(30)
  <2>17. Cardinality(C) <= Cardinality(Once \cup Twice)
    BY <2>9, <2>11, <2>16, FS_Subset, ZenonT(30)
  <2> QED
    BY <2>10, <2>12, <2>16, <2>17, CapAssumption
<1> QED
  BY <1>1, HostInvariance, PTL
=============================================================================
