----------------------------- MODULE TableSpec -----------------------------
(***************************************************************************)
(* What the routing table and the pending queue promise the handlers that  *)
(* use them, whatever they are made of.  A handler calls an operation, the *)
(* operation takes effect in one step on the values of module Tables, and  *)
(* the handler gets the answer.                                            *)
(***************************************************************************)
EXTENDS Tables

CONSTANTS Dest,     \* addresses that are looked up
          News,     \* received frames, as far as the table reads them
          Parked,   \* frames that may be parked
          NoArg, NoNews   \* what stands for an argument when there is none

VARIABLES rtable,   \* the routing entries
          pending,  \* the parked frames, the newest first
          pc,       \* the operation that was called, or "idle"
          key,      \* its arguments
          flag,
          news,
          answer    \* what the last operation returned

call == <<pc, key, flag, news>>
vars == <<rtable, pending, call, answer>>

Init ==
  /\ rtable = {} /\ pending = <<>>
  /\ pc = "idle" /\ key = NoArg /\ flag = 0 /\ news = NoNews
  /\ answer = {}

Call ==
  /\ pc = "idle"
  /\ \/ pc' = "peek" /\ key' \in Dest /\ flag' \in {0, 1} /\ news' = NoNews
     \/ pc' = "learn" /\ news' \in News /\ key' = news'.src_ip /\ flag' = 0
     \/ pc' = "release" /\ key' \in Dest /\ flag' = 0 /\ news' = NoNews
  /\ UNCHANGED <<rtable, pending, answer>>

Return(result) ==
  /\ pc' = "idle" /\ key' = NoArg /\ flag' = 0 /\ news' = NoNews
  /\ answer' = result

\* get_r_entry may drop the entry it finds before it returns.
Purge ==
  /\ pc \in {"peek", "learn"}
  /\ rtable' = after_r_lookup(rtable, key, flag)
  /\ UNCHANGED <<pending, call, answer>>

\* get_r_entry for a frame's or a request's destination.
Peek ==
  /\ pc = "peek"
  /\ rtable' = after_r_lookup(rtable, key, flag)
  /\ Return(got_r_entry(rtable, key, flag))
  /\ UNCHANGED pending

\* get_r_entry for a frame's source, then check_r_entry or insert_r_entry.
Learn ==
  /\ pc = "learn"
  /\ LET src  == got_r_entry(rtable, key, flag)
         kept == after_r_lookup(rtable, key, flag)
         new  == update_r_entry(news, news.if_no, news.next_hop)
     IN  IF \A e \in src : check_r_entry(news, e)
         THEN rtable' = (kept \ src) \cup {new} /\ Return({new})
         ELSE rtable' = kept /\ Return(src)
  /\ UNCHANGED pending

Release ==
  /\ pc = "release"
  /\ \/ \E i \in DOMAIN pending :
          /\ lookup_pending_queue(pending, i, key)
          /\ pending' = remove_pending(pending, i)
          /\ Return({pending[i]})
     \/ /\ \A i \in DOMAIN pending : pending[i].dest_ip # key
        /\ pending' = pending
        /\ Return({})
  /\ UNCHANGED rtable

Park(f) ==
  /\ pc = "idle"
  /\ pending' = <<f>> \o pending
  /\ UNCHANGED <<rtable, call, answer>>

Age ==
  /\ pc = "idle"
  /\ rtable' = {aged(e) : e \in rtable}
  /\ UNCHANGED <<pending, call, answer>>

Next ==
  \/ Call \/ Purge \/ Peek \/ Learn \/ Release \/ Age
  \/ \E f \in Parked : Park(f)

Spec == Init /\ [][Next]_vars

=============================================================================
