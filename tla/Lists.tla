------------------------------- MODULE Lists -------------------------------
(***************************************************************************)
(* The doubly linked lists at routing_table_head and pending_queue_head    *)
(* (odr_functions.c), pointer by pointer.  A search takes a step for each   *)
(* round of its for loop.  The handlers that search and insert run one at  *)
(* a time, so one curr is enough.                                          *)
(***************************************************************************)
EXTENDS Tables

CONSTANTS Dest, News, Parked,   \* as in TableSpec
          MaxAlloc              \* bound: calls of calloc in a behaviour

ASSUME AllocAssumption == MaxAlloc \in Nat

NULL == 0
Addr == 1 .. MaxAlloc

VARIABLES
  used,      \* calls of calloc so far; an entry that is unlinked is not freed
  data,      \* data[x]: the routing entry or the parked frame at x
  next,      \* next[x], prev[x]: the pointers of the cell at x
  prev,
  rhead,     \* routing_table_head
  phead,     \* pending_queue_head
  pc,        \* "idle", or the search that is going on
  key,       \* the address searched for
  flag,      \* route_disc_flag of a search in the routing table
  news,      \* the frame that is learned from
  curr,      \* the loop variable
  answer,    \* what the last search returned
  rorder,    \* history: the cells of the routing table, the head first
  porder     \* history: the cells of the pending queue, the head first

heap == <<used, data, next, prev, rhead, phead, rorder, porder>>
call == <<pc, key, flag, news>>
vars == <<heap, call, curr, answer>>

Nothing == [nothing |-> TRUE]     \* what calloc has not handed out yet holds

Init ==
  /\ used = 0
  /\ data = [x \in Addr |-> Nothing]
  /\ next = [x \in Addr |-> NULL]
  /\ prev = [x \in Addr |-> NULL]
  /\ rhead = NULL /\ phead = NULL
  /\ pc = "idle" /\ key = NULL /\ flag = 0 /\ news = Nothing
  /\ curr = NULL
  /\ answer = {}
  /\ rorder = <<>> /\ porder = <<>>

\* The function returns: its arguments are gone, and the caller has the result.
Return(result) ==
  /\ pc' = "idle" /\ key' = NULL /\ flag' = 0 /\ news' = Nothing
  /\ curr' = NULL
  /\ answer' = result

\* Wrong on purpose: the loop variable is not advanced.
Advance_stay == UNCHANGED vars

\* The for loops go on with the next cell.
Advance ==
  /\ curr' = next[curr]
  /\ UNCHANGED <<heap, call, answer>>

\* The sequence s without its element x.
Without(s, x) == remove_pending(s, CHOOSE i \in DOMAIN s : s[i] = x)

\* Wrong on purpose: the pointer back is forgotten.
LinkPast_oneway(x) ==
  /\ next' = IF prev[x] # NULL THEN [next EXCEPT ![prev[x]] = next[x]] ELSE next
  /\ prev' = prev

\* curr->prev->next = curr->next and curr->next->prev = curr->prev, where there
\* are such neighbours.
LinkPast(x) ==
  /\ next' = IF prev[x] # NULL THEN [next EXCEPT ![prev[x]] = next[x]] ELSE next
  /\ prev' = IF next[x] # NULL THEN [prev EXCEPT ![next[x]] = prev[x]] ELSE prev

\* calloc, and the new cell in front of the list at "head".
InsertCell(head, value) ==
  /\ used' = used + 1
  /\ data' = [data EXCEPT ![used + 1] = value]
  /\ next' = [next EXCEPT ![used + 1] = head]
  /\ prev' = IF head # NULL THEN [prev EXCEPT ![head] = used + 1] ELSE prev

-----------------------------------------------------------------------------
(* The routing table. *)

\* get_r_entry for a destination, and for the source of a frame.
StartPeek(d, fl) ==
  /\ pc = "idle"
  /\ pc' = "peek" /\ key' = d /\ flag' = fl /\ news' = news
  /\ curr' = rhead
  /\ UNCHANGED <<heap, answer>>

StartLearn(f) ==
  /\ pc = "idle" /\ used < MaxAlloc
  /\ pc' = "learn" /\ key' = f.src_ip /\ flag' = 0 /\ news' = f
  /\ curr' = rhead
  /\ UNCHANGED <<heap, answer>>

InRoutes == pc \in {"peek", "learn"}
RouteHit == curr # NULL /\ data[curr].destip = key

RouteNext ==
  /\ InRoutes /\ curr # NULL /\ ~RouteHit
  /\ Advance

\* The entry is stale or has to be dropped: it is unlinked, and the loop ends.
RouteDrop ==
  /\ InRoutes /\ RouteHit
  /\ stale(data[curr]) \/ flag = 1
  /\ rhead' = IF rhead = curr THEN next[curr] ELSE rhead
  /\ LinkPast(curr)
  /\ rorder' = Without(rorder, curr)
  /\ curr' = NULL
  /\ UNCHANGED <<used, data, phead, porder, call, answer>>

RouteFound ==
  /\ InRoutes /\ RouteHit
  /\ ~(stale(data[curr]) \/ flag = 1)
  /\ IF pc = "learn" /\ check_r_entry(news, data[curr])
     THEN /\ data' = [data EXCEPT ![curr] = update_r_entry(news, news.if_no, news.next_hop)]
          /\ Return({data'[curr]})
     ELSE /\ data' = data
          /\ Return({data[curr]})
  /\ UNCHANGED <<used, next, prev, rhead, phead, rorder, porder>>

\* Nothing was found.  The caller goes on without an entry, or inserts one for
\* the source.
RouteMissed ==
  /\ pc = "peek" /\ curr = NULL
  /\ Return({})
  /\ UNCHANGED heap

insert_r_entry ==
  /\ pc = "learn" /\ curr = NULL
  /\ LET e == update_r_entry(news, news.if_no, news.next_hop) IN
       /\ InsertCell(rhead, e)
       /\ Return({e})
  /\ rhead' = used + 1
  /\ rorder' = <<used + 1>> \o rorder
  /\ UNCHANGED <<phead, porder>>

\* A second passes.  get_r_entry reads the clock once, before its loop.
Age ==
  /\ pc = "idle"
  /\ data' = [x \in Addr |-> IF \E i \in DOMAIN rorder : rorder[i] = x
                             THEN aged(data[x]) ELSE data[x]]
  /\ UNCHANGED <<used, next, prev, rhead, phead, rorder, porder, call, curr, answer>>

-----------------------------------------------------------------------------
(* The pending queue. *)

insert_pending_queue(f) ==
  /\ pc = "idle" /\ used < MaxAlloc
  /\ InsertCell(phead, f)
  /\ phead' = used + 1
  /\ porder' = <<used + 1>> \o porder
  /\ UNCHANGED <<rhead, rorder, call, curr, answer>>

StartRelease(d) ==
  /\ pc = "idle"
  /\ pc' = "release" /\ key' = d /\ flag' = 0 /\ news' = news
  /\ curr' = phead
  /\ UNCHANGED <<heap, answer>>

\* Wrong on purpose: strcmp's result is taken the wrong way round.
PendingHit_inverted == curr # NULL /\ data[curr].dest_ip # key

PendingHit == curr # NULL /\ data[curr].dest_ip = key

PendingNext ==
  /\ pc = "release" /\ curr # NULL /\ ~PendingHit
  /\ Advance

\* The head is unlinked without a look at the pointers back: the new head goes
\* on pointing to the cell that was unlinked.
PendingFound ==
  /\ pc = "release" /\ PendingHit
  /\ IF curr = phead
     THEN /\ phead' = next[phead]
          /\ next' = [next EXCEPT ![curr] = NULL]
          /\ prev' = prev
     ELSE /\ phead' = phead
          /\ LinkPast(curr)
  /\ porder' = Without(porder, curr)
  /\ Return({data[curr]})
  /\ UNCHANGED <<used, data, rhead, rorder>>

PendingMissed ==
  /\ pc = "release" /\ curr = NULL
  /\ Return({})
  /\ UNCHANGED heap

-----------------------------------------------------------------------------
Search ==
  \/ RouteNext \/ RouteDrop \/ RouteFound \/ RouteMissed \/ insert_r_entry
  \/ PendingNext \/ PendingFound \/ PendingMissed

Next ==
  \/ \E d \in Dest : StartRelease(d) \/ \E fl \in {0, 1} : StartPeek(d, fl)
  \/ \E f \in News : StartLearn(f)
  \/ \E f \in Parked : insert_pending_queue(f)
  \/ Search
  \/ Age

Spec == Init /\ [][Next]_vars

\* The daemon does not stop in the middle of a loop.
FairSpec == Spec /\ WF_vars(Search)

-----------------------------------------------------------------------------
(* Properties *)

\* The cells of a list, the head first, are linked in both directions, and the
\* list ends.  Only the pointer back of the pending queue's head may be wrong.
Linked(order, head) ==
  /\ head = IF order = <<>> THEN NULL ELSE order[1]
  /\ \A i, j \in DOMAIN order : order[i] = order[j] => i = j
  /\ \A i \in DOMAIN order :
       /\ order[i] \in 1 .. used
       /\ next[order[i]] = IF i < Len(order) THEN order[i + 1] ELSE NULL
       /\ i > 1 => prev[order[i]] = order[i - 1]

\* Whatever is inserted, dropped and released, in any order: both lists stay
\* well formed, and no cell is in both.
ListsLinked ==
  /\ Linked(rorder, rhead)
  /\ Linked(porder, phead)
  /\ rorder # <<>> => prev[rhead] = NULL
  /\ \A i \in DOMAIN rorder, j \in DOMAIN porder : rorder[i] # porder[j]

\* Seen from the handlers, the lists are the table and the queue: every search
\* returns what a lookup in the set or the sequence would have returned.
Table == INSTANCE TableSpec WITH
           rtable  <- {data[rorder[i]] : i \in DOMAIN rorder},
           pending <- [i \in DOMAIN porder |-> data[porder[i]]],
           NoArg   <- NULL,
           NoNews  <- Nothing

TablesImplemented == Table!Spec

\* Every search comes to an end: no loop follows a pointer round a cycle.
SearchesEnd == []<>(pc = "idle")

=============================================================================
