----------------------------- MODULE MCSession -----------------------------
(* Session with custom lists that are made, renamed, exchanged or deleted.  *)
EXTENDS Session

CONSTANTS c1, c2

MCSites == {<<c1>>, <<c2, c1>>}

=============================================================================
