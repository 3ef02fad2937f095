------------------------------- MODULE Tables -------------------------------
(***************************************************************************)
(* The routing table and the pending queue of a daemon (odr_functions.c),  *)
(* as values: a set of entries, of which no two are for one destination,   *)
(* and a sequence of frames, the newest first.  Module Lists shows that    *)
(* the linked lists of the code behave like them.                          *)
(***************************************************************************)
EXTENDS Integers, Sequences

CONSTANT StaleParam   \* stale_param, in clock ticks

stale(e) == e.age >= StaleParam

\* Wrong on purpose: the route discovery flag does not matter.
got_r_entry_any_flag(T, d, flag) == {e \in T : e.destip = d /\ ~stale(e)}

\* Wrong on purpose: an entry counts as stale a second early.
got_r_entry_early(T, d, flag) == {e \in T : e.destip = d /\ e.age + 1 < StaleParam /\ flag # 1}

\* Wrong on purpose: the entry found is removed even if it is fresh.
after_r_lookup_drop(T, d, flag) == {e \in T : e.destip # d}

\* get_r_entry(dest_ip, &r_entry, route_disc_flag): the entry it returns, if
\* any, and what it leaves of the table.
got_r_entry(T, d, flag)   == {e \in T : e.destip = d /\ ~stale(e) /\ flag # 1}
after_r_lookup(T, d, flag) == {e \in T : e.destip # d \/ (~stale(e) /\ flag # 1)}

is_broadid_greater(T, srcip, b) ==
  \A e \in T : ~(e.destip = srcip /\ e.broadcast_id >= b)

\* Wrong on purpose: the hop to the neighbour is subtracted; the source is
\* taken for the next hop.
update_r_entry_minus(f, intf_n, next_hop) ==
  [destip |-> f.src_ip, next_hop |-> next_hop, if_no |-> intf_n,
   no_hops |-> f.hop_count - 1, broadcast_id |-> f.broadcast_id, age |-> 0]

update_r_entry_src(f, intf_n, next_hop) ==
  [destip |-> f.src_ip, next_hop |-> f.src_ip, if_no |-> intf_n,
   no_hops |-> f.hop_count + 1, broadcast_id |-> f.broadcast_id, age |-> 0]

update_r_entry(f, intf_n, next_hop) ==
  [destip |-> f.src_ip, next_hop |-> next_hop, if_no |-> intf_n,
   no_hops |-> f.hop_count + 1, broadcast_id |-> f.broadcast_id, age |-> 0]

\* Wrong on purpose: the same id always counts; only fewer hops count.
check_r_entry_same_id(f, e) == f.broadcast_id >= e.broadcast_id

check_r_entry_hops(f, e) == f.hop_count + 1 < e.no_hops

\* check_r_entry: does f replace the entry e for its source?
check_r_entry(f, e) ==
  \/ f.broadcast_id > e.broadcast_id
  \/ f.broadcast_id = e.broadcast_id /\ f.hop_count + 1 <= e.no_hops

\* A second passes: the age of an entry is counted up to StaleParam.
aged(e) == [e EXCEPT !.age = IF @ < StaleParam THEN @ + 1 ELSE @]

-----------------------------------------------------------------------------
(* The pending queue. *)

\* Wrong on purpose: the wrong address is compared.
lookup_pending_queue_src(q, i, destip) ==
  /\ q[i].src_ip = destip
  /\ \A j \in 1 .. (i - 1) : q[j].src_ip # destip

\* lookup_pending_queue: is entry i of the queue the one found for destip?
lookup_pending_queue(q, i, destip) ==
  /\ q[i].dest_ip = destip
  /\ \A j \in 1 .. (i - 1) : q[j].dest_ip # destip

\* Wrong on purpose: the entry found is not unlinked.
remove_pending_none(q, i) == q

\* Wrong on purpose: curr->next is cleared before it is linked past the entry.
remove_pending_rest(q, i) == SubSeq(q, 1, i - 1)

remove_pending(q, i) == SubSeq(q, 1, i - 1) \o SubSeq(q, i + 1, Len(q))

=============================================================================
