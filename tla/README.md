# A TLA+ model of On-Demand Routing (ODR)

ODR is a simplified AODV: a daemon on each machine finds routes by flooding
requests over raw Ethernet frames, keeps them in a table whose entries expire,
and carries the datagrams of a time client and a time server. This directory
models the daemons, the network between them and the applications' side of their
sockets; the linked lists the daemons keep; and the processes of one machine with
their bounded sockets and the client's alarm. TLC checks small instances; TLAPS
proves the main properties for every instance.

## Inventory of the system

| Part | State | Operations | Source |
|---|---|---|---|
| daemon, application side | Unix socket | `handle_peer_msg`: deliver locally, discover and park, send | `odr_and.c` 115-229 |
| daemon, network side | packet socket | `handle_ethernet_msg`: RREQ, RREP, DATA, ASENT | `odr_and.c` 244-615 |
| main loop | which socket is ready | `main`: select, one handler call per ready socket, return on -1 | `odr_and.c` 617-735 |
| routing table | list of `r_entry_t` | `get_r_entry` (also removes), `insert_r_entry`, `check_r_entry`, `update_r_entry`, `is_broadid_greater` | `odr_functions.c` 381-520, 722-740 |
| pending queue | list of parked frames | `insert_pending_queue`, `lookup_pending_queue` (also removes) | `odr_functions.c` 523-584 |
| port table | list of `map_port_sp_t`, port counter | `insert_map_port_sp`, `fetch_entry_path`, `fetch_entry_port` | `odr_and.c` 32-81, `odr_functions.c` 9-33 |
| frames | none | `construct_odr`, the two byte-order conversions, `send_rrep_packet`, `send_req_broadcast`, `send_raw_frame` | `odr_functions.c` |
| broadcast ids | static counter | `get_broadcast_id` | `utils.c` 32-37 |
| message API | none | `msg_send`, `msg_recv` | `utils.c` 40-123 |
| time server | none | receive, answer | `server_and.c` |
| time client | timer | ask, repeat once with the flag after 5 s, read | `client_and.c` |
| host and interface lookup | cached lists | `get_hw_addrs`, `get_self_ip`, `get_name_ip` | `utils.c` |
| scripts | none | start, kill, copy | `kill_apps`, `start_app`, ... |

How they interact. A client's `msg_send` puts a datagram on its daemon's Unix
socket. The daemon lists the client's path under a port, then delivers locally,
sends DATA along a route, or floods an RREQ and parks the message. Every node
that receives any frame learns a route to the frame's source. The destination, or
a node that has a route to it, answers with an RREP, which releases one parked
frame. The server answers through its own daemon in the same way.

What makes it hard: floods cross each other; replies are made by third parties
from tables that others are changing; an entry may expire between a request and
its reply, so that frames are parked in the middle of the network; the client's
repeat purges routes while earlier answers travel; ids of several counters meet
in one comparison; a daemon restarts with its counters reset; an alarm goes off
where the client does not expect it; a full socket blocks its sender.

What should hold, per part:

- routing table: one entry per destination; every entry usable; hop counts that
  mean something; news accepted when it is newer or shorter;
- pending queue: host byte order; nothing duplicated; nothing left behind;
- floods: one identity per source and id; they end;
- port table: a reply reaches the process that asked; a local reply's port is listed;
- linked lists: well linked after every insertion and removal, and equal to the
  set and the sequence the handlers believe in;
- one machine: the right answer printed, a daemon that outlives its clients and
  its server, no processes waiting for each other, a client that survives a lost message;
- whole system: a message is handed over at most once and to nobody else;
  requests are answered, and the network falls silent.

## Modules

| Module | Contents |
|---|---|
| `Tables` | the routing table as a set and the pending queue as a sequence: pure operators, shared by the next two groups |
| `Odr` | all daemons, the segments, the applications' sockets, clocks and faults; `Spec` and `FairSpec` |
| `OdrProps` | the properties of `Odr`, and the refinement mapping to `MsgService` |
| `MsgService` | abstract: what the daemons promise to applications |
| `OdrProofs` | proofs about `Odr`: the inductive invariant, tables, frames and ports |
| `OdrMessages` | where messages are: none is duplicated |
| `OdrRecipients` | who gets a message, as long as no daemon is restarted |
| `OdrService` | `Odr` implements `MsgService` |
| `OdrRoutes` | floods, and where routes lead while none is lost |
| `TableSpec` | abstract: table and queue as objects with atomic operations |
| `Lists` | the two doubly linked lists, pointer by pointer, and the refinement mapping to `TableSpec` |
| `ListsProofs` | proofs about `Lists` |
| `LocalHost` | one machine: clients with their alarm, server, daemon, bounded sockets; and its properties |
| `HostTokens` | proofs about `LocalHost`: the invariant, and the steps that move messages |
| `LocalHostProofs` | the clients' steps, and the theorems |
| `MCOdr`, `MCLists`, `MCLocalHost` | small instances for TLC |

How they fit together. `Odr` computes on tables with the operators of `Tables`.
`TableSpec` does the same operators one call at a time, and `Lists` implements
`TableSpec`: so the list code does what `Odr` takes for granted. `Odr` implements
`MsgService`, and the network of `LocalHost` is what `MsgService` promises: a
message arrives at most once, where it belongs, or is lost.

### Odr

Each daemon is a single process, and a handler runs to its end before the next
one starts. One action is therefore one handler call, with all its table changes
and sends. Daemons, applications and frames interleave freely.

| Variable | Code |
|---|---|
| `rtable[n]` | list at `routing_table_head`, as a set |
| `pending[n]` | list at `pending_queue_head`, head first |
| `bid[n]`, `portno[n]` | statics of `get_broadcast_id`, `get_next_portno` |
| `port_spath[n]` | list at `port_spath_head`, head first |
| `up[n]` | the daemon runs |
| `chan[l]` | frames on their way over a link, in order |
| `proc_q[n]`, `app_q[n][p]` | datagrams queued on the daemon's and on an application's Unix socket |
| `bound[n]` | paths with an application behind them |
| `asked`, `ticks`, `faults` | history of requests; budgets |

| Actions | Code |
|---|---|
| `PeerLocal`, `PeerDiscover`, `PeerSend` | branches of `handle_peer_msg` |
| `IgnoreDuplicate` | `odr_and.c` 282-290 |
| `RreqAtDest`, `RreqFromTable`, `RreqFlood` | case `__RREQ` |
| `RrepAtDest`, `RrepUnused`, `RrepForward`, `RrepPark` | case `__RREP` |
| `DataAtDest`, `DataForward`, `DataPark` | case `__DATA` |
| `Asent` | case `__ASENT` |
| `ClientSend`, `ServerReply` | the loops of the applications |
| `Kill`, `Restart`, `AppExit`, `ServerStart` | ends and starts of processes |
| `Tick`, `Lose`, `Unheard` | clocks and network |

### Lists

One step is one round of a `for` loop, or one call of an insertion. `data`, `next`,
`prev` are the cells; `rhead`, `phead` the two heads; `curr` the loop variable;
`pc`, `key`, `flag`, `news` the call that is going on; `answer` what it returned.
`rorder` and `porder` are histories that say in which order the cells are linked.

| Actions | Code |
|---|---|
| `StartPeek`, `StartLearn`, `RouteNext`, `RouteDrop`, `RouteFound`, `RouteMissed` | `get_r_entry`, alone or followed by `insert_r_entry` or `check_r_entry` |
| `insert_pending_queue`, `StartRelease`, `PendingNext`, `PendingFound`, `PendingMissed` | the pending queue |
| `Age` | the clock |

### LocalHost

| Variable | Code |
|---|---|
| `cpc[c]`, `armed[c]`, `jmp[c]`, `cur[c]`, `mparams[c]` | where a client is, its alarm, whether `sigsetjmp` has run, its question, what it read |
| `cq[c]`, `sq`, `dq` | datagrams on the clients', the server's and the daemon's sockets, at most `Cap` each |
| `shold`, `dhold`, `local` | a message in a blocking `sendto` of the server or the daemon, and where it came from |
| `net`, `lost` | messages between machines, losses |
| `up`, `sup` | the daemon runs, the server runs |
| `failed`, `killed`, `faults` | histories: the server was killed, the daemon was killed or could not send a frame; the clients that ended elsewhere than at their prompt; a budget |
| `asked`, `repeated`, `early` | histories: questions, those asked twice, those whose alarm went off outside `msg_recv` |

| Actions | Code |
|---|---|
| `Ask`, `Send`, `SetJmp`, `Read`, `Printed`, `Exit` | the client's loop, `client_and.c` 58-93 |
| `Alarm`, `Resend` | `signal_handler` and the repeat |
| `Kill`, `ServerKilled`, `ServerStart` | processes killed by `kill_apps` or their user; the server started again |
| `ServerRecv`, `ServerSend` | the server's loop |
| `PeerHere`, `PeerLeaves`, `FromWire`, `DeliverServer`, `DeliverClient`, `DeliverNobody` | the daemon, reduced to what it does with its sockets |
| `DaemonEnds` | a frame cannot be sent, this machine's or one passed on for another, or the daemon is killed |
| `AskedElsewhere`, `AnsweredElsewhere`, `Lose` | other machines and the network |

Operators keep the C names. The operators under comments that begin "Wrong on
purpose" are deliberate faults. The specifications do not use them; each
shows that a property notices that fault.

## Abstractions

- A machine stands for its canonical address and its interfaces' hardware
  addresses; a segment stands for the interface on it. `eth0` and `lo`, which
  floods skip, are not segments.
- An entry's age counts seconds up to `StaleParam`: only the comparison matters.
  Each machine has its own clock. The two lookups of one handler see the same second.
- The routing table is a set because a destination is never listed twice, which
  is proved (`UniqueRoutes`). Nothing else depends on the list's order. That the
  list behaves like the set is proved too (`ListsImplementTables`).
- A payload is a number: request `m`, and `MaxMsg + m` for its reply.
- The byte order of a frame is a tag that each conversion toggles.
- Local queues are unbounded in `Odr` and bounded in `LocalHost`.
- `LocalHost` bounds a socket by the number of datagrams on it (`Cap`). A
  `sendto` to a full socket waits; the sender does nothing else meanwhile.
- In `LocalHost` a daemon that has ended stays down; `Odr` has it started again.
  A client that is killed loses its socket with what is on it, and the server
  likewise. A server that is started again has a new, empty socket.
- An alarm may go off at any moment from `alarm(5)` on, until `alarm(0)`: the
  five seconds are not compared with anything.
- After a failed send the daemon is down. Its memory is then unobservable, and
  the model does not distinguish how far the handler came with it.
- `get_send_params` copies strings without their terminator into memory from
  `malloc`. The model takes the strings as sent, which assumes that memory is zero.
  The daemon frees almost nothing, which makes that likely but does not guarantee it.
- `Init` has every daemon running, with empty tables.

## Runs

Networks of `MCOdr`: a line a-b-c; a ring a, b, c; for violations also a paw (a ring
a, b, c with d behind c).

| Run | Instance, bounds | Result | Distinct states |
|---|---|---|---|
| `line_expiry` | line, two clients, 2 requests from any node (plain, repeated), 1 tick, fair | holds | 76968 |
| `line_faults` | line, two clients, 2 requests (plain, repeated, local), 1 tick, 1 loss, failed send, exit or kill, restarts | holds | 747436 |
| `ring_live` | ring, 2 requests from a and b, fair | holds | 37343 |
| `line_live` | line, any 2 requests and a repeated one, fair | holds | 10832 |
| `lists` | 3 cells, 3 addresses, 4 frames to learn from, 2 to park, fair | holds | 283438 |
| `host` | 1 client, 3 questions, sockets of 1 datagram, 1 loss, 1 process killed or frame not sent, fair | holds | 699463 |
| `self_route`, `hops_too_many`, `hops_too_few`, `update_policy`, `shortest_hop`, `peer_listed` | see below | violated | |

- `line_expiry`: tables stay well formed, the byte order is kept, floods keep
  their identity and ports are unique, wherever the expiry falls. The daemons
  implement the message service (`ServiceProvided`): each message is in one place,
  is handed over at most once, to the process it is for, and does not come back. What
  an end of the line asks after the last expiry is answered, whatever frames the
  expiry left parked on the way, as long as the middle has asked nothing
  (`AnsweredAfterExpiry`; see below for the middle).
- `line_faults`: one fault anywhere, a daemon that is killed and started again
  included. Its former frames are still on the wire then, and its counters start
  again. Tables stay well formed and no message is handed over twice (`AtMostOnce`).
  A port that is given out anew may bring a reply to the other client of the machine,
  so the message service is not claimed here; but a reply is only handed over on the
  machine that asked, and a request only where it was sent to (`RightMachine`). A
  flood's identity is not checked, because a restarted daemon uses its ids again.
- `ring_live`, `line_live`: answers, release of parked frames, listed ports and,
  in the ring, silence in the end. No clock ticks in these runs, so no route is lost
  but by a repeated request of `line_live`. In the ring, where a node's own flood comes
  back to it, a flood ends (`FloodBounded`), the next hop of a route has a route too
  or is the destination (`NextHopKnows`), and nothing is parked on the way
  (`ParkedAtHome`). On the line, hop counts are not below the distance until a user
  forces a new search (`HopsCoverDistance`). These four are proved for every network
  (`OdrRoutes`). Silence is not claimed for every network, and is false in the paw. A
  node can answer its own RREQ from its table, after which two nodes hold routes
  through each other and a message circles between them until the routes expire.
- `lists`: every sequence of lookups, drops, updates, insertions and releases.
  The lists are linked after every step (`ListsLinked`), every search returns what
  the set or the sequence would have returned (`TablesImplemented`), and every
  search ends (`SearchesEnd`).
- `host`: what it takes for things to go wrong on one machine, with the alarm at
  every possible moment. A wrong answer takes an earlier question asked twice
  (`RightAnswer`). The daemon ends when it is killed or cannot send a frame. Otherwise
  its end takes a client that asked this machine's own server, and either that server
  killed or that client gone with an answer to come: killed, ended by an alarm before
  its first `sigsetjmp`, or after asking some question twice
  (`DaemonOutlivesClients`). Daemon and server waiting for each other takes
  two full sockets and two more messages (`MutualWaitTakes`). A client at its prompt
  holds up the daemon only after more repeats than its socket holds
  (`PromptHoldsUp`). One lost message never blocks a client for ever, unless the
  alarm was wasted or the server was killed (`OneLossSurvived`).

Why the bounds are enough to be interesting: a line of three has a node that forwards,
parks and answers for another; a ring is the smallest network with two ways, in which
a node's own flood comes back to it. Two requests let two discoveries overlap. One
tick with `StaleParam` 1 expires all of one node's routes at any moment. Three cells
give a list a head, a middle and an end. With sockets of one datagram, three questions
and their repeats fill two sockets and the hands of both processes, and every
hypothesis of the `host` invariants occurs; one killed process or failed send
(`MaxFault`) at any moment reaches each end of a process once. Deadlock checking is
off because the systems may rightly stop: they wait for users.

Fairness. In `Odr`: weak fairness of each daemon's handler calls, per link for
frames, and of the server's loop. `select` reports both sockets and the loop
serves each ready one in every round; the packet socket is first in, first out.
In `Lists`: a call goes on. In `LocalHost`: the processes run, an alarm that stays
set goes off, and the network hands over or loses what it has. Users, clocks and
faults owe nothing.

### Where the code and its words differ

- `self_route`: `odr_and.c` 277 compares two pointers, so a node never recognises
  its own RREQ and learns a route to itself.
- `hops_too_many`: `odr_and.c` 190 swaps the id and the hop count of a parked message.
  It goes unnoticed where an entry for the source exists, which has a higher id; after
  one expiry at the middle node the message makes an entry of 13 hops there.
- `hops_too_few`: a parked RREP is released with the hop count it arrived with.
- `update_policy`: `src/assign3/README.md` 85-86 says "If entry is with higher
  broadcast id or lower hopcount, we update it". `check_r_entry` looks at the hop
  count only when the ids are equal, so a node that has the second of two floods over
  the long way keeps that route when the first comes straight from its source. With equal ids an equally
  long route replaces the entry too.
- `shortest_hop`: a reply from a table carries the replier's id, and a longer
  route replaces the direct one.
- `peer_listed`: the assertion on `peer_entry` fails after a restart between a
  local request and its reply.

Met in modelling, and not the subject of a run:

- With a staleness of 0, which `main` accepts, a flood never ends: `FloodBounded`
  fails in the paw, with one request, once `StaleParam` is 0.
- `AnsweredAfterExpiry` speaks of runs in which only the ends of the line have asked.
  For a request from the middle it would fail: b's routes expire, b asks for c, and a
  answers from its table with a route that leads through b. Each then sends the
  message to the other.
- After one repeated question the client's answers may lag behind its questions for
  ever, and it prints them under the wrong server's name (`client_and.c` 92).
- `get_r_entry` (`odr_functions.c` 492) drops an entry on the flag alone, where the
  comments there (490) and in `odr_and.c` (168-169) also ask for a greater
  broadcast id.

- A search may die out. In a line a, b, c, d, first b and then c ask a, and then a
  asks d. The answer to c comes from b's table and carries an id of b's counter
  (`odr_functions.c` 188), so c's entry for a has a higher id than the RREQ of a that
  follows. c takes that RREQ for old news and, without a route to d, drops it; the
  comment at `odr_and.c` 235-238 says "If no, broadcast RREQ over all other
  interfaces". a's message stays parked. `NoStranded` fails so in a scratch instance
  of `Odr` (`MaxMsg` 3, no faults); in the instances of the runs it holds.

## Proofs

All theorems are about `Spec` and hold for all values of the constants that satisfy
the named assumptions of the modules: `Attached`, `Want` and the bounds have their
types, the server's path is no client's, and `Dist` is 0 from a node to itself and
grows by at most one over a link. Some hold in given circumstances only:

- `NoRestart`: no daemon is killed and started again. A restarted daemon forgets its
  routes and ports and counts its ids from the start. `AtMostOnce` needs no such thing.
- `EnoughPorts`: a machine has a port below the server's for every client, that is,
  at most 4591. The next client would be given the server's own port.
- No route is lost: `NoRestart`; `NoFlags`, no user forces a new search; and
  `[]Unexpired`, no entry in a table has reached its staleness. `hops_too_few` shows
  what one expiry does to `HopsCoverDistance`, and an expiry on the way is what makes
  a daemon park a frame of another.

| Theorem | Property | Holds |
|---|---|---|
| `OdrProofs!Invariance` | `IInv`, the inductive invariant | always |
| `OdrProofs!TypeCorrect` | `TypeOK` | always |
| `OdrProofs!UsableRoutes` | `RoutesUsable` | always |
| `OdrProofs!UniqueRoutes` | `OneEntryPerDest` | always |
| `OdrProofs!OrderKept` | `ByteOrder` | always |
| `OdrProofs!FlagsConfined` | `FlagOnlyOnRreq` | always |
| `OdrProofs!PortsApart` | `PortsUnique` | always |
| `OdrMessages!NeverTwice` | `AtMostOnce` | always |
| `OdrRecipients!RightRecipients` | `RightRecipient` | `NoRestart`, `EnoughPorts` |
| `OdrRecipients!PeersListed` | `PeerListed` | `NoRestart`, `EnoughPorts` |
| `OdrService!ServiceImplemented` | `ServiceProvided` | `NoRestart`, `EnoughPorts` |
| `OdrRoutes!FloodsIdentity` | `FloodIdentity` | `NoRestart` |
| `OdrRoutes!NextHopsKnow` | `NextHopKnows` | no route lost |
| `OdrRoutes!OnlyOwnParked` | `ParkedAtHome` | no route lost |
| `OdrRoutes!HopsNeverShort` | `HopsCoverDistance` | no route lost |
| `OdrRoutes!FloodsBounded` | `FloodBounded` | no route lost |
| `ListsProofs!ListsStayLinked` | `ListsLinked` | always |
| `ListsProofs!ListsImplementTables` | `TablesImplemented` | always |
| `LocalHostProofs!HostTypes` | `TypeOK` | always |
| `LocalHostProofs!DaemonLives` | `DaemonOutlivesClients` | always |
| `LocalHostProofs!AnswersRight` | `RightAnswer` | always |
| `LocalHostProofs!PromptNeeds` | `PromptHoldsUp` | always |
| `LocalHostProofs!MutualWaitNeeds` | `MutualWaitTakes` | always |

`OdrProofs`. `IInv` joins `TypeOK`, `RoutesUsable` and `OneEntryPerDest` with the
shape of frames on the wire (`WireFrame`: network order, flag only on RREQs) and in
the queue (`ParkedFrame`: host order, unflagged, an RREP or DATA), both with source
and destination different. The strengthening is needed because frames move both
ways: byte order and flags hold on the wire only because they hold in the queue, and
the other way round. A flag stays on RREQs because a flagged lookup returns no entry,
so neither DATA nor ASENT is made from it. A route is usable because an entry learned
over a link leads back over the same link. A destination is listed once because the
lookup leaves at most the entry it returned, and learning replaces that one. Lemmas
give the type and shape of what each helper returns; one lemma per action shows that
it keeps `IInv`. `PortsApart` needs `PInv`: every listed port but
the server's is below the counter, while the counter has not passed the server's.

`ListsProofs`. The invariant joins `ListsLinked` with what a search in progress knows:
the cells it has passed do not match, and `curr` is the next one or `NULL`. Each
insertion and each removal, with all its assignments, is one step, and is proved to
keep the links, at the head, in the middle and at the end. For the refinement, the
steps of a search that have no effect map to stutters, and the step that returns maps
to the atomic operation.

`OdrMessages`. A request and the reply made from it are one token. `MInv` says, on top
of `IInv`, that no token is twice in one place or in two places, where a place is a
socket, a link or a pending queue, and that a frame without a message carries no
payload. A lemma per action says what the handler does to the places: it takes at most
one message from one place and puts it in at most one other, or drops it. The
invariant follows from these effects alone, whatever faults there are.

`OdrRecipients`. `RInv` adds what a message says about itself: a request on its way
names the port under which its sender lists the client, a reply the port its request
named. It needs the port tables to grow only (`CInv`, `Grown`) and ports to differ
(`PInv`), which is where restarts and the 4592nd client come in.

`OdrService`. The refinement, step by step: a message that is nowhere, under way or
on a socket in `Odr` is so in `MsgService` (`PlaceOf`). A handler that puts a datagram
on a socket maps to `Arrive`, one that loses a message to `Vanish`, the applications'
sends to `Ask` and `Answer`, and everything else (floods, replies, learning, parking,
forwarding) to a stutter. `RInv` says that a datagram arrives where it belongs.

`OdrRoutes`. For floods, `FInv`: the ids on the links have been counted by their
source, and floods with one source and id agree; whoever passes a flood on leaves its
identity alone. For routes, `RouteInv`. When no route is lost, tables only grow: each
entry stays or makes room for one with a higher id, or the same id and no more hops
(`Grows`). So what a node once knew it knows for ever, and these facts survive: the
sender of a frame knows the frame's source, and a reply or a message goes to a node
that knows its destination. The receiver's new entry therefore has a next hop that
knows, and it finds a route for whatever it has to pass on. Hop counts cover the
distance because each hop adds one and parked frames, all of them local, start anew.
For the bound on floods the invariant keeps the nodes a frame has been passed on by
(`Visited`). Each of them has an entry for the source at least as good as the frame
was there (`Covers`), so it would not pass the frame on again. The nodes are therefore
different, which is what `FloodBounded` asks for. The source may be one of them, once.

`HostTokens`, `LocalHostProofs`. The argument is one of counting. A request and the
answer made from it are one token, and a token is in one place at a time (`OnePlace`).
A client sends one token per question and one more per repeat, and takes one off
before it asks again. So the tokens of a client that are about never outnumber its
repeated questions by more than one (`CountInv`). `HInv` joins this with where each
kind of message may be (`Routed`) and with the client's locations (`ClientInv`).
`Routed` also says that a local message in the daemon's hands was asked here, and by
whom, which is what the end of the daemon is blamed on. A killed process takes its
tokens with it, so the counts only fall. Each theorem then counts: a full socket, or
an answer that comes too late, needs that many tokens.

Only model-checked: `NoStranded`, which holds in the networks of `ring_live` and
`line_live` but not in every one (see the last of the points met in modelling, above),
so there is no theorem to prove; and `EventuallyAnswered`, `EventuallyQuiet`,
`AnsweredAfterExpiry`, `SearchesEnd` and `OneLossSurvived`, because liveness is out of
the prover's reach. Freedom from routing loops is not claimed at all: `NextHopKnows`
lets two nodes hold routes through each other, and in the paw they may.

## Not modelled

- Host and interface lookup and MAC formatting (`utils.c`): calls of `ioctl` and of
  the resolver. Their results are the constants `Node`, `Seg` and `Attached`.
- Printing and traces: they change no state. `remove_r_entry` and `get_file_name` are
  never called.
- The text format of datagrams between applications and daemons.
- Copying files to the machines (`deploy_app`, `setup_vms`, `cleanup_vms`, `rm_file`).
- The vendored Stevens library (`src/assign3/Stevens`), a textbook's collection of
  example programs. It makes up 95 of 100 lines of the repository. The program links
  its socket wrappers and its list of interfaces, and nothing else of it runs. The
  wrappers add an error exit to a system call, so there is no state to model; the
  programs, TCP and UDP examples among them, are not part of the system.
- Times: five seconds of the alarm are not compared with round trips.

## Plan

Done: the protocol, its abstract service, the lists, one machine; proofs of every safety
property that holds in every network. Next: for which networks and requests a search
cannot die out, so that `NoStranded` can be stated, and proved, for these.
