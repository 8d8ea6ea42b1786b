--------------------------- MODULE MCRecognition ---------------------------
(***************************************************************************)
(* Recognition on a small instance.  t1 is named like e1 and, as long as   *)
(* its relation is loaded, leads to e1 with an offset.  t2 leads to e2,    *)
(* which the lists show without a title because there is none in their     *)
(* language: t2 goes to the search all the same, and so does t1 before e1  *)
(* is on the list.  An empty search finds e2, if anything.                 *)
(***************************************************************************)
EXTENDS Recognition

CONSTANTS e1, e2, t1, t2

MCEpisode  == [t \in Title |-> IF t = t1 THEN 3 ELSE 1]
MCNames    == [t \in Title |-> IF t = t1 THEN e1 ELSE e2]
MCFound    == [t \in Title |-> IF t = t1 THEN NoEntry ELSE e2]
MCAlias    == [t \in Title |-> IF t = t1 THEN e1 ELSE NoEntry]
MCOffset   == [t \in Title |-> IF t = t1 THEN 1 ELSE 0]
MCEpisodes == [a \in Entry |-> IF a = e1 THEN 2 ELSE 0]

\* What the server says of an entry at first.
MCPlanned   == {[progress |-> 0, status |-> "other"]}
MCUnwatched == {[progress |-> 0, status |-> s] : s \in {"watching", "other"}}

=============================================================================
