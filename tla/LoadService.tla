---------------------------- MODULE LoadService ----------------------------
(***************************************************************************)
(* What the callers of User::loadAnimeData rely on: requests are served in *)
(* the order in which they were made, one at a time, each exactly once.    *)
(* The loader keeps that promise until it breaks for good: a broken        *)
(* service forgets its requests and answers no more.                       *)
(***************************************************************************)
EXTENDS Sequences

CONSTANT Request

VARIABLES
    waiting,  \* the requests nobody has begun to serve, oldest first
    serving,  \* the request being served, a set of at most one
    broken

vars == <<waiting, serving, broken>>

Init ==
    /\ waiting = <<>>
    /\ serving = {}
    /\ broken = FALSE

Ask ==
    /\ ~broken
    /\ \E r \in Request : waiting' = Append(waiting, r)
    /\ UNCHANGED <<serving, broken>>

Serve ==
    /\ ~broken
    /\ serving = {}
    /\ waiting # <<>>
    /\ serving' = {Head(waiting)}
    /\ waiting' = Tail(waiting)
    /\ UNCHANGED broken

Finish ==
    /\ ~broken
    /\ serving # {}
    /\ serving' = {}
    /\ UNCHANGED <<waiting, broken>>

Break ==
    /\ broken' = TRUE
    /\ waiting' = <<>>
    /\ serving' = {}

Next == Ask \/ Serve \/ Finish \/ Break

Spec == Init /\ [][Next]_vars
=============================================================================
