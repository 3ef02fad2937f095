------------------------------ MODULE MCLists ------------------------------
(* Three addresses, so that there is a middle of a list, and a few frames. *)
EXTENDS Lists, TLC

CONSTANTS d1, d2, d3

Three == {d1, d2, d3}

\* What a frame from an address says of it: the same from each, newer from d1.
OneNews(src, b) ==
  [src_ip |-> src, broadcast_id |-> b, hop_count |-> 0, if_no |-> 1, next_hop |-> src]
SomeNews == {OneNews(src, 1) : src \in Three} \cup {OneNews(d1, 2)}

Frames == {[dest_ip |-> dst] : dst \in {d1, d2}}
=============================================================================
