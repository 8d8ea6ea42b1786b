---------------------------- MODULE MCUserLists ----------------------------
(* Small user lists: which entries there are, and what the server may have. *)
EXTENDS UserLists

CONSTANTS a1, watching, completed, c1

Distinct == [i \in Id |-> i]

\* An entry is on the list of its status, or absent; when it is watched it may
\* be on a custom list, which it keeps when its status changes.
Listed == {Absent} \cup {[status |-> s, lists |-> {s}] : s \in Status}
              \cup {[status |-> watching, lists |-> {watching} \cup Custom]}

=============================================================================
