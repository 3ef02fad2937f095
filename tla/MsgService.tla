----------------------------- MODULE MsgService -----------------------------
(***************************************************************************)
(* What a network of ODR daemons promises to time clients and servers: a   *)
(* request or a reply is handed over at most once, to the process it is    *)
(* for, or it is lost.  Nothing is said of routes, frames or ports.        *)
(*                                                                         *)
(* Request m has the identity m and its reply the identity MaxMsg + m.     *)
(***************************************************************************)
EXTENDS Integers, Sequences

CONSTANTS Node, ServPath, Want, MaxMsg

VARIABLES asked,   \* the requests made so far
          where    \* where[m]: where the one copy of message m is

vars == <<asked, where>>

Msg == 1 .. 2 * MaxMsg

\* Places: not sent yet, lost, or read; on its way; on the socket bound to p on n.
Nowhere  == <<>>
Flight   == <<"flight">>
At(n, p) == <<n, p>>

\* The process message m is for.
Recipient(m) == IF m <= MaxMsg THEN At(asked[m].dest, ServPath)
                               ELSE At(asked[m - MaxMsg].node, asked[m - MaxMsg].path)

Init ==
  /\ asked = <<>>
  /\ where = [m \in Msg |-> Nowhere]

\* A client sends a request, which may be lost at once.
Ask(w) ==
  /\ Len(asked) < MaxMsg
  /\ asked' = Append(asked, w)
  /\ \E t \in {Nowhere, Flight} : where' = [where EXCEPT ![Len(asked) + 1] = t]

\* The message reaches its recipient.
Arrive(m) ==
  /\ where[m] = Flight
  /\ where' = [where EXCEPT ![m] = Recipient(m)]
  /\ UNCHANGED asked

\* A server reads a request and sends the reply to it.
Answer(m) ==
  /\ m <= MaxMsg
  /\ where[m] \notin {Nowhere, Flight}
  /\ \E t \in {Nowhere, Flight} :
       where' = [where EXCEPT ![m] = Nowhere, ![MaxMsg + m] = t]
  /\ UNCHANGED asked

\* Messages are lost: on the wire, with a daemon's memory, or with a socket.
Vanish ==
  /\ UNCHANGED asked
  /\ LET old == where IN
       \E lost \in SUBSET {m \in Msg : old[m] # Nowhere} :
         where' = [m \in Msg |-> IF m \in lost THEN Nowhere ELSE old[m]]

Next ==
  \/ Vanish
  \/ \E w \in Want : Ask(w)
  \/ \E m \in Msg : Arrive(m) \/ Answer(m)

Spec == Init /\ [][Next]_vars

=============================================================================
