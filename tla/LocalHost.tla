----------------------------- MODULE LocalHost -----------------------------
(***************************************************************************)
(* One machine: time clients (client_and.c), the time server               *)
(* (server_and.c) and the daemon between them, with Unix-domain datagram   *)
(* queues that are bounded, so that sendto blocks when one is full.  The   *)
(* client's alarm may go off anywhere between alarm(5) and alarm(0).  Each *)
(* process may be killed; the server may be started again.                 *)
(*                                                                         *)
(* The network is what module MsgService promises: a message is handed     *)
(* over at most once, to the process it is for, or it is lost.             *)
(***************************************************************************)
EXTENDS Integers, Sequences, FiniteSets

CONSTANTS Client,    \* the time clients on this machine
          Self,      \* this machine
          Remote,    \* the other machines
          Cap,       \* datagrams a socket's queue holds (net.unix.max_dgram_qlen)
          MaxAsk,    \* bound: questions in a behaviour
          MaxLoss,   \* bound: messages the network loses in a behaviour
          MaxFault   \* bound: processes killed and sends failed in a behaviour

Elsewhere == "elsewhere"

ASSUME HostAssumption == Self \notin Remote /\ Elsewhere \notin Client
ASSUME CapAssumption  == Cap \in Nat \ {0}
ASSUME BoundAssumption == MaxAsk \in Nat /\ MaxLoss \in Nat /\ MaxFault \in Nat

\* A user's question, or one of a client elsewhere: who asks which machine.
Question == [client : Client \cup {Elsewhere}, host : Remote \cup {Self}]

\* A question's request is sent once, and a second time when the alarm went
\* off; each request may be answered.
Message == [q : 1 .. MaxAsk, try : {1, 2}, kind : {"request", "answer"}]
Nobody  == [q |-> 0]

VARIABLES
  asked,    \* the questions so far, a history
  repeated, \* the questions asked a second time, a history
  early,    \* the questions whose alarm did not go off in msg_recv, a history
  cpc,      \* cpc[c]: where client c is
  armed,    \* armed[c]: its alarm is set
  jmp,      \* jmp[c]: sigsetjmp has filled jmp
  cur,      \* cur[c]: the question it is busy with
  mparams,  \* mparams[c]: the question the datagram it read is an answer to
  killed,   \* the clients that ended elsewhere than at the prompt, a history
  cq,       \* cq[c]: datagrams on its socket
  sq,       \* datagrams on the server's socket
  shold,    \* the answer the server is sending, or Nobody
  sup,      \* the server is running
  dq,       \* datagrams on the daemon's socket
  dhold,    \* the message the daemon is delivering, or Nobody
  local,    \* it came from a process of this machine
  up,       \* the daemon's main loop is running
  failed,   \* whether the server or the daemon ended, a history
  net,      \* messages on their way between machines
  lost,     \* messages lost so far
  faults    \* processes killed and sends failed so far

client == <<cpc, armed, jmp, cur, mparams, killed>>
server == <<sq, shold, sup>>
daemon == <<dq, dhold, local, up>>
mishap == <<failed, lost, faults>>
vars   == <<asked, repeated, early, client, cq, server, daemon, net, mishap>>

Locations == {"prompt", "send", "set", "wait", "read", "resend", "dead"}

\* One type invariant for the whole state; no queue is longer than Cap.
TypeOK ==
  /\ asked \in Seq(Question) /\ Len(asked) <= MaxAsk
  /\ repeated \in SUBSET (1 .. MaxAsk) /\ early \in SUBSET (1 .. MaxAsk)
  /\ cpc \in [Client -> Locations]
  /\ armed \in [Client -> BOOLEAN]
  /\ jmp \in [Client -> BOOLEAN]
  /\ cur \in [Client -> 0 .. MaxAsk]
  /\ mparams \in [Client -> 0 .. MaxAsk]
  /\ killed \in SUBSET Client
  /\ cq \in [Client -> Seq(Message)] /\ \A c \in Client : Len(cq[c]) <= Cap
  /\ sq \in Seq(Message) /\ Len(sq) <= Cap
  /\ shold \in Message \cup {Nobody}
  /\ sup \in BOOLEAN
  /\ dq \in Seq(Message) /\ Len(dq) <= Cap
  /\ dhold \in Message \cup {Nobody}
  /\ local \in BOOLEAN
  /\ up \in BOOLEAN
  /\ net \in SUBSET Message
  /\ failed \in SUBSET {"server", "daemon"}
  /\ lost \in Nat /\ faults \in Nat

Init ==
  /\ asked = <<>> /\ repeated = {} /\ early = {}
  /\ cpc = [c \in Client |-> "prompt"]
  /\ armed = [c \in Client |-> FALSE]
  /\ jmp = [c \in Client |-> FALSE]
  /\ cur = [c \in Client |-> 0]
  /\ mparams = [c \in Client |-> 0]
  /\ killed = {}
  /\ cq = [c \in Client |-> <<>>]
  /\ sq = <<>> /\ shold = Nobody /\ sup = TRUE
  /\ dq = <<>> /\ dhold = Nobody /\ local = FALSE
  /\ up = TRUE
  /\ net = {}
  /\ failed = {} /\ lost = 0 /\ faults = 0

request(q, try) == [q |-> q, try |-> try, kind |-> "request"]
answer(m)       == [m EXCEPT !.kind = "answer"]

Asker(m) == asked[m.q].client
Asked(m) == asked[m.q].host

\* One more fault that nothing in the programs causes.
Fault == faults < MaxFault /\ faults' = faults + 1 /\ lost' = lost

-----------------------------------------------------------------------------
(* sendto.  msg_send to a daemon that is not running fails, and no caller  *)
(* looks at its result.                                                    *)

\* Wrong on purpose: one datagram too many fits.
msg_send_over(m) ==
  \/ up /\ Len(dq) <= Cap /\ dq' = Append(dq, m)
  \/ ~up /\ dq' = dq

msg_send(m) ==
  \/ up /\ Len(dq) < Cap /\ dq' = Append(dq, m)
  \/ ~up /\ dq' = dq

-----------------------------------------------------------------------------
(* The time client. *)

\* The user types the name of a machine; alarm(5).
Ask(c, h) ==
  /\ cpc[c] = "prompt" /\ Len(asked) < MaxAsk
  /\ asked' = Append(asked, [client |-> c, host |-> h])
  /\ cpc' = [cpc EXCEPT ![c] = "send"]
  /\ cur' = [cur EXCEPT ![c] = Len(asked) + 1]
  /\ armed' = [armed EXCEPT ![c] = TRUE]
  /\ UNCHANGED <<repeated, early, jmp, mparams, killed, cq, server, daemon, net,
                 mishap>>

\* A client ends before its user has an answer; its socket goes with it.
Die(c) ==
  /\ cpc' = [cpc EXCEPT ![c] = "dead"]
  /\ cq' = [cq EXCEPT ![c] = <<>>]
  /\ killed' = killed \cup {c}

\* It is killed, in the middle of a question.
Kill(c) ==
  /\ cpc[c] \notin {"prompt", "dead"} /\ Fault
  /\ Die(c)
  /\ armed' = [armed EXCEPT ![c] = FALSE]
  /\ UNCHANGED <<asked, repeated, early, jmp, cur, mparams, server, daemon, net,
                 failed>>

\* The user types "exit".
Exit(c) ==
  /\ cpc[c] = "prompt"
  /\ cpc' = [cpc EXCEPT ![c] = "dead"]
  /\ cq' = [cq EXCEPT ![c] = <<>>]
  /\ UNCHANGED <<asked, repeated, early, armed, jmp, cur, mparams, killed, server,
                 daemon, net, mishap>>

Send(c) ==
  /\ cpc[c] = "send"
  /\ msg_send(request(cur[c], 1))
  /\ cpc' = [cpc EXCEPT ![c] = "set"]
  /\ UNCHANGED <<asked, repeated, early, armed, jmp, cur, mparams, killed, cq, server,
                 dhold, local, up, net, mishap>>

\* sigsetjmp returns 0; the client goes on to msg_recv.
SetJmp(c) ==
  /\ cpc[c] = "set"
  /\ cpc' = [cpc EXCEPT ![c] = "wait"]
  /\ jmp' = [jmp EXCEPT ![c] = TRUE]
  /\ UNCHANGED <<asked, repeated, early, armed, cur, mparams, killed, cq, server,
                 daemon, net, mishap>>

\* Wrong on purpose: the handler returns.
Alarm_ignored(c) ==
  /\ armed[c]
  /\ early' = IF cpc[c] \in {"send", "read"} THEN early \cup {cur[c]} ELSE early
  /\ armed' = [armed EXCEPT ![c] = FALSE]
  /\ UNCHANGED <<asked, repeated, cpc, jmp, cur, mparams, killed, cq, server, daemon,
                 net, mishap>>

\* SIGALRM: siglongjmp goes to where sigsetjmp was called last, for this
\* question or for an earlier one, or nowhere if it was not called yet.
Alarm(c) ==
  /\ armed[c]
  /\ early' = IF cpc[c] \in {"send", "read"} THEN early \cup {cur[c]} ELSE early
  /\ armed' = [armed EXCEPT ![c] = FALSE]
  /\ IF jmp[c]
     THEN /\ cpc' = [cpc EXCEPT ![c] = "resend"]
          /\ UNCHANGED <<cq, killed>>
     ELSE Die(c)
  /\ UNCHANGED <<asked, repeated, jmp, cur, mparams, server, daemon, net, mishap>>

\* The request once more; the alarm is not set again.
Resend(c) ==
  /\ cpc[c] = "resend"
  /\ msg_send(request(cur[c], 2))
  /\ repeated' = repeated \cup {cur[c]}
  /\ cpc' = [cpc EXCEPT ![c] = "wait"]
  /\ UNCHANGED <<asked, early, armed, jmp, cur, mparams, killed, cq, server, dhold,
                 local, up, net, mishap>>

\* Wrong on purpose: the datagram stays on the socket.
Read_peek(c) ==
  /\ cpc[c] = "wait" /\ cq[c] # <<>>
  /\ mparams' = [mparams EXCEPT ![c] = Head(cq[c]).q]
  /\ cq' = cq
  /\ cpc' = [cpc EXCEPT ![c] = "read"]
  /\ UNCHANGED <<asked, repeated, early, armed, jmp, cur, killed, server, daemon,
                 net, mishap>>

\* msg_recv: the first datagram there is, whatever it answers.
Read(c) ==
  /\ cpc[c] = "wait" /\ cq[c] # <<>>
  /\ mparams' = [mparams EXCEPT ![c] = Head(cq[c]).q]
  /\ cq' = [cq EXCEPT ![c] = Tail(@)]
  /\ cpc' = [cpc EXCEPT ![c] = "read"]
  /\ UNCHANGED <<asked, repeated, early, armed, jmp, cur, killed, server, daemon,
                 net, mishap>>

\* alarm(0), and the time is printed under the name of the machine asked.
Printed(c) ==
  /\ cpc[c] = "read"
  /\ armed' = [armed EXCEPT ![c] = FALSE]
  /\ cpc' = [cpc EXCEPT ![c] = "prompt"]
  /\ UNCHANGED <<asked, repeated, early, jmp, cur, mparams, killed, cq, server,
                 daemon, net, mishap>>

-----------------------------------------------------------------------------
(* The time server. *)

\* Wrong on purpose: the datagram stays on the socket.
ServerRecv_peek ==
  /\ shold = Nobody /\ sq # <<>>
  /\ shold' = answer(Head(sq))
  /\ sq' = sq
  /\ UNCHANGED <<asked, repeated, early, client, cq, sup, daemon, net, mishap>>

ServerRecv ==
  /\ shold = Nobody /\ sq # <<>>
  /\ shold' = answer(Head(sq))
  /\ sq' = Tail(sq)
  /\ UNCHANGED <<asked, repeated, early, client, cq, sup, daemon, net, mishap>>

ServerSend ==
  /\ shold # Nobody
  /\ msg_send(shold)
  /\ shold' = Nobody
  /\ UNCHANGED <<asked, repeated, early, client, cq, sq, sup, dhold, local, up, net,
                 mishap>>

\* It is killed; what is on its socket or in its hands is gone.
ServerKilled ==
  /\ sup /\ Fault
  /\ sup' = FALSE /\ sq' = <<>> /\ shold' = Nobody
  /\ failed' = failed \cup {"server"}
  /\ UNCHANGED <<asked, repeated, early, client, cq, daemon, net>>

\* It is started again: unlink, socket, bind.
ServerStart ==
  /\ ~sup /\ sup' = TRUE
  /\ UNCHANGED <<asked, repeated, early, client, cq, sq, shold, daemon, net, mishap>>

-----------------------------------------------------------------------------
(* The daemon.  It handles one message after the other, so while it waits  *)
(* in send_to_peer_process for room on a socket it does nothing else.      *)

Idle == up /\ dhold = Nobody

Hold(m, fromhere) == dhold' = m /\ local' = fromhere

\* handle_peer_msg: a message for this machine is delivered, any other leaves.
PeerHere ==
  /\ Idle /\ dq # <<>>
  /\ LET m == Head(dq) IN
       /\ \/ m.kind = "request" /\ Asked(m) = Self
          \/ m.kind = "answer" /\ Asker(m) \in Client
       /\ Hold(m, TRUE)
  /\ dq' = Tail(dq)
  /\ UNCHANGED <<asked, repeated, early, client, cq, server, up, net, mishap>>

PeerLeaves ==
  /\ Idle /\ dq # <<>>
  /\ LET m == Head(dq) IN
       \/ m.kind = "request" /\ Asked(m) # Self /\ net' = net \cup {m}
       \/ m.kind = "answer" /\ Asker(m) = Elsewhere /\ net' = net
  /\ dq' = Tail(dq)
  /\ UNCHANGED <<asked, repeated, early, client, cq, server, dhold, local, up, mishap>>

\* handle_ethernet_msg: a message for this machine comes from the network.
FromWire(m) ==
  /\ Idle /\ m \in net
  /\ m.kind = "answer" \/ Asker(m) = Elsewhere
  /\ Hold(m, FALSE)
  /\ net' = net \ {m}
  /\ UNCHANGED <<asked, repeated, early, client, cq, server, dq, up, mishap>>

\* send_to_peer_process to the server.
DeliverServer ==
  /\ dhold # Nobody /\ dhold.kind = "request"
  /\ sup /\ Len(sq) < Cap
  /\ sq' = Append(sq, dhold)
  /\ dhold' = Nobody
  /\ UNCHANGED <<asked, repeated, early, client, cq, shold, sup, dq, local, up, net,
                 mishap>>

\* Wrong on purpose: a message that was delivered is delivered again.
DeliverClient_again ==
  /\ dhold # Nobody /\ dhold.kind = "answer"
  /\ LET c == Asker(dhold) IN
       /\ cpc[c] # "dead" /\ Len(cq[c]) < Cap
       /\ cq' = [cq EXCEPT ![c] = Append(@, dhold)]
  /\ dhold' = dhold
  /\ UNCHANGED <<asked, repeated, early, client, server, dq, local, up, net, mishap>>

DeliverClient ==
  /\ dhold # Nobody /\ dhold.kind = "answer"
  /\ LET c == Asker(dhold) IN
       /\ cpc[c] # "dead" /\ Len(cq[c]) < Cap
       /\ cq' = [cq EXCEPT ![c] = Append(@, dhold)]
  /\ dhold' = Nobody
  /\ UNCHANGED <<asked, repeated, early, client, server, dq, local, up, net, mishap>>

\* The process the daemon delivers to is gone.
Gone == IF dhold.kind = "request" THEN ~sup ELSE cpc[Asker(dhold)] = "dead"

\* Wrong on purpose: main returns whatever handler failed.
DeliverNobody_always ==
  /\ dhold # Nobody /\ Gone
  /\ dhold' = Nobody
  /\ up' = FALSE /\ dq' = <<>>
  /\ UNCHANGED <<asked, repeated, early, client, cq, server, local, net, mishap>>

\* send_to_peer_process to a process that is gone fails.  handle_ethernet_msg
\* takes no notice; handle_peer_msg returns -1, and so does main.
DeliverNobody ==
  /\ dhold # Nobody /\ Gone
  /\ dhold' = Nobody
  /\ IF local THEN up' = FALSE /\ dq' = <<>> ELSE UNCHANGED <<up, dq>>
  /\ UNCHANGED <<asked, repeated, early, client, cq, server, local, net, mishap>>

\* A frame cannot be sent, and main returns: one for PeerLeaves, or one that
\* handle_ethernet_msg passes on between other machines.  Or the daemon is
\* killed, whatever it is doing.
DaemonEnds ==
  /\ up /\ Fault
  /\ up' = FALSE /\ dq' = <<>> /\ dhold' = Nobody
  /\ failed' = failed \cup {"daemon"}
  /\ UNCHANGED <<asked, repeated, early, client, cq, server, local, net>>

-----------------------------------------------------------------------------
(* The rest of the network. *)

\* A server elsewhere answers.
AnsweredElsewhere(m) ==
  /\ m \in net /\ m.kind = "request" /\ Asked(m) # Self
  /\ net' = (net \ {m}) \cup {answer(m)}
  /\ UNCHANGED <<asked, repeated, early, client, cq, server, daemon, mishap>>

\* A client elsewhere asks this machine's server.
AskedElsewhere ==
  /\ Len(asked) < MaxAsk
  /\ asked' = Append(asked, [client |-> Elsewhere, host |-> Self])
  /\ net' = net \cup {request(Len(asked) + 1, 1)}
  /\ UNCHANGED <<repeated, early, client, cq, server, daemon, mishap>>

Lose(m) ==
  /\ m \in net /\ lost < MaxLoss
  /\ net' = net \ {m}
  /\ lost' = lost + 1
  /\ UNCHANGED <<asked, repeated, early, client, cq, server, daemon, failed, faults>>

-----------------------------------------------------------------------------
ClientStep(c) == Send(c) \/ SetJmp(c) \/ Resend(c) \/ Read(c) \/ Printed(c)
ServerStep    == ServerRecv \/ ServerSend
DaemonStep    == \/ PeerHere \/ PeerLeaves
                 \/ DeliverServer \/ DeliverClient \/ DeliverNobody

Next ==
  \/ \E c \in Client : ClientStep(c) \/ Alarm(c) \/ Exit(c) \/ Kill(c)
  \/ \E c \in Client, h \in Remote \cup {Self} : Ask(c, h)
  \/ ServerStep \/ ServerKilled \/ ServerStart
  \/ DaemonStep \/ DaemonEnds
  \/ \E m \in net : FromWire(m) \/ AnsweredElsewhere(m) \/ Lose(m)
  \/ AskedElsewhere

Spec == Init /\ [][Next]_vars

\* The processes run, an alarm that stays set goes off, and what is on its way
\* arrives unless it is lost.  Users owe nothing, not even to come back.
FairSpec ==
  /\ Spec
  /\ \A c \in Client : WF_vars(ClientStep(c)) /\ WF_vars(Alarm(c))
  /\ WF_vars(ServerStep) /\ WF_vars(DaemonStep)
  /\ WF_vars(\E m \in net : FromWire(m) \/ AnsweredElsewhere(m))

-----------------------------------------------------------------------------
(* Properties *)

\* The daemon waits for room on the server's or on c's socket.
WaitsForServer    == dhold # Nobody /\ dhold.kind = "request" /\ Len(sq) = Cap
WaitsForClient(c) == /\ dhold # Nobody /\ dhold.kind = "answer" /\ Asker(dhold) = c
                     /\ cpc[c] # "dead" /\ Len(cq[c]) = Cap

\* client_and.c prints "Server at %s replied with time" with the name of the
\* machine asked last, and does not look where the datagram came from.  It is
\* right as long as the client has asked none of its earlier questions twice;
\* after that every answer may be that of an earlier question.
RightAnswer ==
  \A c \in Client : cpc[c] = "read" =>
    \/ mparams[c] = cur[c]
    \/ \E q \in repeated : q < cur[c] /\ asked[q].client = c

\* handle_peer_msg ends the daemon when a local process is gone.  While nobody
\* kills the daemon, that takes a client that asked this machine's server, and
\* either the server was killed or the client left with an answer still to come:
\* because it was killed itself, because its first alarm went off before
\* sigsetjmp, or because it had asked some question twice.  What clients
\* elsewhere ask never ends it.
DaemonOutlivesClients ==
  ~up => \/ "daemon" \in failed
         \/ \E c \in Client :
              /\ \E q \in DOMAIN asked : asked[q] = [client |-> c, host |-> Self]
              /\ \/ "server" \in failed
                 \/ cpc[c] = "dead" /\ c \in killed
                 \/ cpc[c] = "dead" /\ \E q \in repeated : asked[q].client = c

\* The server waits in msg_send for the daemon while the daemon waits in
\* send_to_peer_process for the server: nothing less than two full queues, with
\* a message in the hands of each, can bring this about.
MutualWait == WaitsForServer /\ shold # Nobody /\ up /\ Len(dq) = Cap
MutualWaitTakes ==
  MutualWait => Len(asked) + Cardinality(repeated) >= 2 * Cap + 2

\* A client at its prompt reads nothing.  It holds up the daemon, and with it
\* every route through this machine, only after more than Cap of its questions
\* were asked twice.
PromptHoldsUp ==
  \A c \in Client : cpc[c] = "prompt" /\ WaitsForClient(c) =>
    Cardinality({q \in repeated : asked[q].client = c}) > Cap

\* One lost message is survived: a client waits for ever only if the daemon has
\* ended or waits for ever itself, if the server was killed, or if the alarm went
\* off before the request was sent or after the answer was read, so that one of
\* the two was wasted.
OneLossSurvived ==
  \A c \in Client :
    <>[](cpc[c] = "wait") =>
      <>[](\/ ~up \/ WaitsForServer \/ \E k \in Client : WaitsForClient(k)
           \/ "server" \in failed \/ cur[c] \in early)

=============================================================================
