----------------------------- MODULE MCBrowser -----------------------------
(* A small season: r1 is on the user's list, r2 is not, and the entry e2   *)
(* has no title in one of the languages.                                   *)
EXTENDS Browser

CONSTANTS spring, summer, any, few, r1, r2, e1, e2

MCResults == [c \in Boxes \X Genres |->
                 IF c = <<spring, any>> THEN <<r1, r2>>
                 ELSE IF c = <<spring, few>> THEN <<r2>> ELSE <<r2, r1>>]
MCKnown == [r \in Result |-> IF r = r1 THEN e1 ELSE NoEntry]

=============================================================================
