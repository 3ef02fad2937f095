------------------------------- MODULE MCOdr -------------------------------
(* Small networks, and users of them, for TLC. *)
EXTENDS OdrProps, TLC

CONSTANTS a, b, c, d,           \* machines
          s1, s2, s3, s4,       \* segments
          c1, c2, sv            \* two clients' paths, the server's path

Two   == {a, b}
Three == {a, b, c}
Four  == {a, b, c, d}

\* a -- b
PairSeg == {s1}
Pair    == s1 :> {a, b}

\* a -- b -- c
LineSeg == {s1, s2}
Line    == s1 :> {a, b} @@ s2 :> {b, c}

\* a, b and c in a ring
RingSeg == {s1, s2, s3}
Ring    == s1 :> {a, b} @@ s2 :> {b, c} @@ s3 :> {a, c}

\* a ring a, b, c with d behind c
PawSeg == {s1, s2, s3, s4}
Paw    == s1 :> {a, b} @@ s2 :> {b, c} @@ s3 :> {a, c} @@ s4 :> {c, d}

\* The pairs of nodes at most k links apart, and the distances of a connected
\* network.
Ball[k \in 0 .. Cardinality(Node)] ==
  IF k = 0 THEN {<<n, n>> : n \in Node}
  ELSE Ball[k - 1] \cup {q \in Node \X Node :
         \E l \in Link : l.to = q[2] /\ <<q[1], l.from>> \in Ball[k - 1]}

ShortestPath == [s, n \in Node |->
  CHOOSE k \in 0 .. Cardinality(Node) :
    <<s, n>> \in Ball[k] /\ \A j \in 0 .. (k - 1) : <<s, n>> \notin Ball[j]]

\* Every machine runs its server and the clients.
Clients   == {c1, c2}
OneClient == {c1}
AllBound  == [n \in Node |-> Path]

ask(n, p, dst, flag) == [node |-> n, path |-> p, dest |-> dst, flag |-> flag]

AtoC       == {ask(a, c1, c, 0)}
AtoD       == {ask(a, c1, d, 0)}
AtoCTwice  == {ask(a, c1, c, 0), ask(a, c1, c, 1), ask(a, c2, c, 0)}
AtoCBoth   == {ask(a, c1, c, 0), ask(a, c2, c, 0)}
AllTwice   == AtoCTwice \cup {ask(c, c1, a, 0), ask(b, c1, c, 0)}
AandBtoC   == {ask(a, c1, c, 0), ask(b, c1, c, 0)}
Anyone     == {ask(n, c1, m, 0) : n, m \in Node}
AnyoneRetry == Anyone \cup {ask(a, c1, c, 1)}
RetryLocal == {ask(a, c1, c, 0), ask(a, c1, c, 1), ask(a, c2, c, 0), ask(c, c1, c, 0)}
LocalOnly  == {ask(a, c1, a, 0)}
=============================================================================
