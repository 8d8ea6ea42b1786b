------------------------------ MODULE Browser ------------------------------
(***************************************************************************)
(* The season browser (src/gui/browserhelper.cpp).  "Browse" empties the   *)
(* page, asks the server for the season that the boxes and the genres say, *)
(* and makes a card of each result; for a result whose data are missing it *)
(* asks the metadata loader first.  It waits for both, the server and the  *)
(* loader, in local event loops, in which the user may change the boxes    *)
(* and click "Browse" again.                                               *)
(*                                                                         *)
(* The loader is what LoadService says of it.  An entry of the user's list *)
(* is its own Anime; for any other result the load that met it makes one,  *)
(* which is named by the number of the load.                               *)
(***************************************************************************)
EXTENDS Naturals, Sequences

CONSTANTS
    Boxes,      \* what season, year, type and status may be
    Genres,     \* what the check boxes of the genres may be
    Result,     \* the results there are
    Results,    \* [Boxes \X Genres -> Seq(Result)]
    Entry,      \* entries of the user's list
    Known,      \* [Result -> Entry \cup {NoEntry}]: the entry with its title
    Untitled,   \* an entry that an empty title finds, or NoEntry
    MaxLoads,   \* bound: clicks
    MaxChoices, \* bound: changes of the boxes and the genres
    MaxOthers,  \* bound: requests to the loader from elsewhere
    NoEntry

Load == 1..MaxLoads
Anime == Entry \cup Load

ASSUME BrowserAssumption ==
    /\ Results \in [Boxes \X Genres -> Seq(Result)]
    /\ Known \in [Result -> Entry \cup {NoEntry}]
    /\ Untitled \in Entry \cup {NoEntry}
    /\ NoEntry \notin Anime
    /\ Entry \cap Nat = {}
    /\ MaxLoads \in Nat /\ MaxChoices \in Nat /\ MaxOthers \in Nat

VARIABLES
    boxes, genres,  \* what is chosen now
    layout2,        \* the cards of the page
    loads,          \* the calls of loadBrowserData, innermost last
    needLoad,       \* the Anime whose data were not loaded yet
    needCover,      \* those whose cover was not
    waiting, serving, broken, \* the loader
    box,            \* the error box of a cover that failed stands
    choices, others,
    clicks,
    \* History variables: they guide no step.
    due,            \* the results of the last click, once they are there
    kept,           \* the boxes are those of the last click since then
    missed          \* a load began to wait for an answer it had had

loaderVars == <<waiting, serving, broken, box>>
choiceVars == <<boxes, genres, choices, kept>>
pageVars == <<layout2, due, clicks>>
dataVars == <<needLoad, needCover>>
vars == <<choiceVars, pageVars, loads, dataVars, loaderVars, others, missed>>

Request == [anime : Anime, cover : BOOLEAN]
Loader == INSTANCE LoadService

Innermost == loads[Len(loads)]
Outer == SubSeq(loads, 1, Len(loads) - 1)
\* The main thread is in an event loop, its own or one of a load.
HandlesEvents == loads # <<>> => Innermost.pc \in {"get", "waits"}
Goes(load) == loads' = Append(Outer, load)

Init ==
    /\ boxes \in Boxes /\ genres \in Genres
    /\ layout2 = <<>> /\ loads = <<>>
    /\ needCover \in SUBSET Entry
    /\ needLoad \in SUBSET needCover
    /\ Loader!Init /\ box = FALSE
    /\ choices = 0 /\ others = 0 /\ clicks = 0
    /\ due = <<>> /\ kept = TRUE /\ missed = FALSE

-----------------------------------------------------------------------------
(* The user.                                                                *)
Choose(b, g) ==
    /\ HandlesEvents
    /\ choices < MaxChoices
    /\ <<b, g>> # <<boxes, genres>>
    /\ boxes' = b /\ genres' = g
    /\ choices' = choices + 1
    /\ kept' = (kept /\ b = boxes)
    /\ UNCHANGED <<pageVars, loads, dataVars, loaderVars, others, missed>>

\* Slip: the cards of the load before stay.
BrowseOnTop ==
    /\ HandlesEvents
    /\ clicks < MaxLoads
    /\ clicks' = clicks + 1
    /\ loads' = Append(loads, [n |-> clicks', boxes |-> boxes, genres |-> genres,
                               pc |-> "get", results |-> <<>>, i |-> 1,
                               anime |-> NoEntry, quit |-> FALSE])
    /\ due' = <<>> /\ kept' = TRUE
    /\ UNCHANGED <<boxes, genres, choices, layout2, dataVars, loaderVars, others, missed>>

(* loadBrowserData up to its request.                                       *)
Browse ==
    /\ HandlesEvents
    /\ clicks < MaxLoads
    /\ clicks' = clicks + 1
    /\ layout2' = <<>>
    /\ loads' = Append(loads, [n |-> clicks', boxes |-> boxes, genres |-> genres,
                               pc |-> "get", results |-> <<>>, i |-> 1,
                               anime |-> NoEntry, quit |-> FALSE])
    /\ due' = <<>> /\ kept' = TRUE
    /\ UNCHANGED <<boxes, genres, choices, dataVars, loaderVars, others, missed>>

(* The answer; a request that failed has no results.                        *)
GetReturns ==
    /\ loads # <<>>
    /\ Innermost.pc = "get"
    /\ \E answer \in {Results[<<Innermost.boxes, Innermost.genres>>], <<>>} :
          /\ Goes([Innermost EXCEPT !.pc = "next", !.results = answer])
          /\ due' = IF Innermost.n = clicks THEN answer ELSE due
    /\ UNCHANGED <<choiceVars, layout2, clicks, dataVars, loaderVars, others, missed>>

-----------------------------------------------------------------------------
(* The loop over the results goes one beyond the last: what is read there   *)
(* has an empty title and no id.                                            *)
Last(load) == Len(load.results) + 1
Entered(load) == IF load.i < Last(load) THEN Known[load.results[load.i]] ELSE Untitled

Card(load) == [load |-> load.n, boxes |-> load.boxes, at |-> load.i]

\* Slip: the boxes are not looked at again.
AddCardAnyway(load) ==
    /\ layout2' = Append(layout2, Card(load))
    /\ Goes([load EXCEPT !.pc = "next", !.i = @ + 1])

(* The card; then the load ends if other boxes were chosen meanwhile.       *)
AddCard(load) ==
    /\ layout2' = Append(layout2, Card(load))
    /\ IF boxes # load.boxes THEN loads' = Outer
                             ELSE Goes([load EXCEPT !.pc = "next", !.i = @ + 1])

(* A result whose Anime is there.                                           *)
ShowKnown ==
    /\ loads # <<>>
    /\ Innermost.pc = "next" /\ Innermost.i <= Last(Innermost)
    /\ Entered(Innermost) \in Entry \ (needLoad \cup needCover)
    /\ AddCard(Innermost)
    /\ UNCHANGED <<choiceVars, due, clicks, dataVars, loaderVars, others, missed>>

\* A loader that is broken forgets the request.
Asks(r) ==
    /\ waiting' = IF broken THEN <<>> ELSE Append(waiting, r)
    /\ UNCHANGED <<serving, broken, box>>

(* A result whose data or cover are missing: loadAnimeData.                 *)
AskLoader ==
    /\ loads # <<>>
    /\ Innermost.pc = "next" /\ Innermost.i <= Last(Innermost)
    /\ LET e == Entered(Innermost)
           a == IF e = NoEntry THEN Innermost.n ELSE e
       IN  /\ IF e = NoEntry THEN Innermost.i < Last(Innermost)
                             ELSE e \in needLoad \cup needCover
           /\ needLoad' = needLoad \cup ({a} \ Entry)
           /\ Asks([anime |-> a, cover |-> TRUE])
           /\ Goes([Innermost EXCEPT !.pc = "asked", !.anime = a])
    /\ UNCHANGED <<choiceVars, pageVars, needCover, others, missed>>

(* The connection is made after the request, which may have been served.    *)
Connect ==
    /\ loads # <<>>
    /\ Innermost.pc = "asked"
    /\ LET pending == serving \cup {waiting[j] : j \in DOMAIN waiting}
       IN  missed' = (missed \/ \A r \in pending : r.anime # Innermost.anime)
    /\ Goes([Innermost EXCEPT !.pc = "waits", !.quit = FALSE])
    /\ UNCHANGED <<choiceVars, pageVars, dataVars, loaderVars, others>>

LoopReturns ==
    /\ loads # <<>>
    /\ Innermost.pc = "waits" /\ Innermost.quit
    /\ AddCard(Innermost)
    /\ UNCHANGED <<choiceVars, due, clicks, dataVars, loaderVars, others, missed>>

(* Behind the last result, which no entry is found for.                     *)
Return ==
    /\ loads # <<>>
    /\ Innermost.pc = "next"
    /\ \/ Innermost.i > Last(Innermost)
       \/ Innermost.i = Last(Innermost) /\ Untitled = NoEntry
    /\ loads' = Outer
    /\ UNCHANGED <<choiceVars, pageVars, dataVars, loaderVars, others, missed>>

-----------------------------------------------------------------------------
(* The loader.                                                              *)
Serve ==
    /\ Loader!Serve
    /\ UNCHANGED <<choiceVars, pageVars, loads, dataVars, box, others, missed>>

(* FileDownloader: a cover that failed opens an error box, and the loader   *)
(* waits until it is closed.                                                *)
CoverFails ==
    /\ ~box
    /\ \E r \in serving : r.cover
    /\ box' = TRUE
    /\ UNCHANGED <<choiceVars, pageVars, loads, dataVars, waiting, serving,
                   broken, others, missed>>

\* Slip: nobody is told.
FinishUnheard ==
    /\ Loader!Finish
    /\ ~box
    /\ \E r \in serving :
          /\ needLoad' = needLoad \ {r.anime}
          /\ needCover' = IF r.cover THEN needCover \ {r.anime} ELSE needCover
    /\ UNCHANGED <<choiceVars, pageVars, loads, box, others, missed>>

(* finishedReloading of an Anime ends every event loop that is connected.   *)
FinishReload ==
    /\ Loader!Finish
    /\ box' = FALSE
    /\ \E r \in serving :
          /\ needLoad' = needLoad \ {r.anime}
          /\ needCover' = IF r.cover THEN needCover \ {r.anime} ELSE needCover
          /\ loads' = [j \in DOMAIN loads |->
                          [loads[j] EXCEPT !.quit =
                              @ \/ (loads[j].pc = "waits" /\ loads[j].anime = r.anime)]]
    /\ UNCHANGED <<choiceVars, pageVars, others, missed>>

Finish == ~box /\ FinishReload

BoxClosed == box /\ FinishReload

Break ==
    /\ ~broken
    /\ Loader!Break
    /\ box' = FALSE
    /\ UNCHANGED <<choiceVars, pageVars, loads, dataVars, others, missed>>

\* A request from the lists, the airing cards or the search panel.
Other(e) ==
    /\ HandlesEvents
    /\ others < MaxOthers
    /\ Asks([anime |-> e, cover |-> FALSE])
    /\ others' = others + 1
    /\ UNCHANGED <<choiceVars, pageVars, loads, dataVars, missed>>

Main == GetReturns \/ ShowKnown \/ AskLoader \/ Connect \/ LoopReturns \/ Return

Next ==
    \/ \E b \in Boxes, g \in Genres : Choose(b, g)
    \/ Browse \/ Main
    \/ Serve \/ CoverFails \/ Finish \/ BoxClosed \/ Break
    \/ \E e \in Entry : Other(e)

Spec == Init /\ [][Next]_vars

(* Requests to the server are answered, if only with an error; the main     *)
(* thread goes on with what it can; the loader serves.  No choice, click or *)
(* request from elsewhere has to come, and an error box may stand for ever. *)
FairSpec == Spec /\ WF_vars(Main) /\ WF_vars(Serve) /\ WF_vars(Finish)

-----------------------------------------------------------------------------
(* Properties.                                                              *)

(* While the boxes stay what they were at the last click, the cards of that *)
(* click come first on the page, in the order of its results; when its load *)
(* has returned every result has its card, and so has the entry that the    *)
(* empty title beyond the last one finds; and a load for other boxes that   *)
(* it overtook leaves one card on the page at most.                         *)
InOrder ==
    \A j \in DOMAIN layout2 :
        layout2[j].load = clicks =>
            /\ layout2[j].at = j
            /\ j > 1 => layout2[j - 1].load = clicks
Complete ==
    \A k \in 1..Len(due) + (IF Untitled = NoEntry THEN 0 ELSE 1) :
        k \in DOMAIN layout2 /\ layout2[k].load = clicks
OneLateCard ==
    \A i, j \in DOMAIN layout2 :
        layout2[i].load = layout2[j].load /\ layout2[i].boxes # boxes => i = j

AskedIsShown ==
    kept =>
        /\ InOrder
        /\ clicks > 0 /\ (\A j \in DOMAIN loads : loads[j].n # clicks) => Complete
        /\ OneLateCard

(* If no error box of a cover is left standing, a load returns, unless an   *)
(* answer came before it listened or the loader broke.                      *)
BrowsingEnds ==
    []<>~box => (loads # <<>> ~> loads = <<>> \/ missed \/ broken)

=============================================================================
