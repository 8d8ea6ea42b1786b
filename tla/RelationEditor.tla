--------------------------- MODULE RelationEditor ---------------------------
(***************************************************************************)
(* The relations ("smart titles") in the settings dialog (src/gui/         *)
(* settingsdialog.cpp): other names under which a player shows an anime,   *)
(* with an offset of the episodes.  A row of the list widget is a text of  *)
(* parts, which are found again by splitting it: the alias, the title, its *)
(* id and the offset.  Whatever the fields tell of, a new value of the     *)
(* spin box set by the program included, writes the row that is current.   *)
(*                                                                         *)
(* The box with the titles can be typed into.  What it shows, its text, is *)
(* then not the item it has as the current one, its index.                 *)
(***************************************************************************)
EXTENDS Integers, Sequences, SequencesExt

CONSTANTS
    Dialog,       \* the settings dialogs that are ever opened
    Alias,        \* aliases
    Title,        \* titles of the list; a title's id goes by the same name
    FirstTitle,   \* the first of them in their order
    Typed,        \* a text that is no title
    Empty,        \* the empty text
    New,          \* "**New**"
    MaxOffset,    \* bound: the largest offset
    OldRelations, \* what relations.json may have first
    MaxActs       \* bound: actions of the user

TitleText(t) == <<t, t>>
Offset == 0..MaxOffset
Relation == {<<alias>> \o TitleText(t) \o <<offset>> :
                alias \in Alias, t \in Title, offset \in Offset}

ASSUME RelationEditorAssumption ==
    /\ FirstTitle \in Title
    /\ MaxOffset \in Nat /\ MaxActs \in Nat
    /\ OldRelations \subseteq Seq(Relation)

VARIABLES
    relations_json, \* the file
    dialog,         \* what each dialog shows and keeps
    acts,
    corrupt,        \* a part that does not exist was used
    \* History variables, per dialog: they guide no step.
    loaded,         \* relations.json when it was opened
    touched,        \* rows the user has edited, deleted or reset
    entered         \* rows as the user has entered them last

historyVars == <<loaded, touched, entered>>
vars == <<relations_json, dialog, acts, corrupt, historyVars>>

\* `disturbed' and `free' are history: rows that were written by showing
\* them, and whether the box had a text without an id.
Closed == [state |-> "closed", list |-> <<>>, row |-> 0, alias |-> Empty,
           titles |-> {}, text |-> <<Empty>>, index |-> <<Empty>>, offset |-> 0,
           disturbed |-> {}, free |-> FALSE]

Init ==
    /\ relations_json \in OldRelations
    /\ dialog = [d \in Dialog |-> Closed]
    /\ acts = 0 /\ corrupt = FALSE
    /\ loaded = [d \in Dialog |-> <<>>]
    /\ touched = [d \in Dialog |-> {}]
    /\ entered = [d \in Dialog |-> {}]

-----------------------------------------------------------------------------
(* Operations of a dialog D.                                                *)

toInt(part) == IF part \in Offset THEN part ELSE 0
LineText(D) == <<D.alias>> \o D.text \o <<D.offset>>

\* Slip: the title is the item of the box, and not what it shows.
updateByIndex(D) ==
    IF D.row = 0 THEN D
    ELSE [D EXCEPT !.list[D.row] = <<D.alias>> \o D.index \o <<D.offset>>]

updateSmartTitleName(D) ==
    IF D.row = 0 THEN D ELSE [D EXCEPT !.list[D.row] = LineText(D)]

(* setValue of the spin box tells of a value that is another.               *)
SetOffset(D, offset) ==
    IF offset = D.offset THEN D
    ELSE updateSmartTitleName([D EXCEPT !.offset = offset])

(* currentItemChanged: row is the current one now.  Its offset is shown     *)
(* before its title.                                                        *)
Changed(D, row) ==
    LET text == D.list[row]
        E == SetOffset([D EXCEPT !.row = row, !.alias = text[1]], toInt(Last(text)))
    IN  [E EXCEPT
            !.text = IF Len(text) > 2 THEN <<text[2], text[3]>> ELSE @,
            !.disturbed = IF E.list[row] = text THEN @ ELSE @ \cup {text}]

\* The row that becomes the current one when that row is removed.
Neighbour(D) == IF D.row < Len(D.list) THEN D.row + 1 ELSE D.row - 1

\* Slip: the current item is asked for again when it is deleted.
RemovedAgain(D) ==
    IF Len(D.list) = 1 THEN [D EXCEPT !.list = <<>>, !.row = 0]
    ELSE LET next == Neighbour(D)
         IN  [Changed(D, next) EXCEPT !.list = RemoveAt(@, next),
                                      !.row = IF next > D.row THEN D.row ELSE next]

(* The current item is deleted: another one becomes the current one while   *)
(* it is still in the list.                                                 *)
Removed(D) ==
    IF Len(D.list) = 1 THEN [D EXCEPT !.list = <<>>, !.row = 0]
    ELSE LET next == Neighbour(D)
         IN  [Changed(D, next) EXCEPT
                !.list = RemoveAt(@, D.row),
                !.row = IF next > D.row THEN next - 1 ELSE next]

(* saveSmartTitles: rows without an id are left out, ...                    *)
Saved(D) ==
    LET arr[n \in 0..Len(D.list)] ==
            IF n = 0 THEN <<>>
            ELSE IF Len(D.list[n]) >= 3 THEN Append(arr[n - 1], D.list[n])
            ELSE arr[n - 1]
    IN  arr[Len(D.list)]
(* ... and the fourth part of each other one is used.                       *)
Fails(D) == \E i \in DOMAIN D.list : Len(D.list[i]) = 3

FirstText(titles) == IF titles = {} THEN <<Empty>> ELSE TitleText(FirstTitle)

-----------------------------------------------------------------------------
IsOpen(d) == dialog[d].state = "open"

UserActs ==
    /\ acts < MaxActs
    /\ acts' = acts + 1

Show(d, D) ==
    /\ dialog' = [dialog EXCEPT ![d] = D]
    /\ UNCHANGED <<relations_json, corrupt, loaded>>

\* The constructor.  The list whose titles are offered may not have come.
Loaded(titles) ==
    [Closed EXCEPT !.state = "open", !.list = relations_json, !.titles = titles,
                   !.text = FirstText(titles), !.index = FirstText(titles),
                   !.free = (titles = {})]

Open(d, D) ==
    /\ dialog[d].state = "closed"
    /\ UserActs
    /\ dialog' = [dialog EXCEPT ![d] = D]
    /\ loaded' = [loaded EXCEPT ![d] = relations_json]
    /\ UNCHANGED <<relations_json, corrupt, touched, entered>>

showSettings(d, titles) == Open(d, Loaded(titles))

showSmartTitles(d, titles) ==
    LET D == Loaded(titles) IN Open(d, IF D.list = <<>> THEN D ELSE Changed(D, 1))

(* A row is clicked.                                                        *)
Select(d, row) ==
    /\ IsOpen(d)
    /\ row \in DOMAIN dialog[d].list \ {dialog[d].row}
    /\ UserActs
    /\ Show(d, Changed(dialog[d], row))
    /\ UNCHANGED <<touched, entered>>

newTitle(d) ==
    /\ IsOpen(d)
    /\ UserActs
    /\ LET D == [dialog[d] EXCEPT !.list = Append(@, <<New>>)]
       IN  Show(d, Changed(D, Len(D.list)))
    /\ UNCHANGED <<touched, entered>>

(* The button "Delete".                                                     *)
deleteTitle(d) ==
    /\ IsOpen(d)
    /\ dialog[d].row # 0
    /\ UserActs
    /\ LET D == dialog[d]
           E == Removed(D)
           row == IF D.row > 1 THEN D.row - 1 ELSE 1
       IN  /\ Show(d, IF E.list = <<>> \/ E.row = row THEN E ELSE Changed(E, row))
           /\ touched' = [touched EXCEPT ![d] = @ \cup {D.list[D.row]}]
           /\ entered' = [entered EXCEPT ![d] = @ \ {D.list[D.row]}]

\* The user changes a field, which makes the dialog D; what was heard of is
\* what the fields say.
Edit(d, D, heard) ==
    /\ IsOpen(d)
    /\ UserActs
    /\ Show(d, D)
    /\ IF D.row = 0 THEN UNCHANGED <<touched, entered>>
       ELSE LET before == dialog[d].list[D.row]
            IN  /\ touched' = [touched EXCEPT ![d] = @ \cup {before}]
                /\ entered' = IF heard THEN [entered EXCEPT
                                              ![d] = (@ \ {before}) \cup {LineText(D)}]
                              ELSE entered

aliasEdited(d, alias) ==
    /\ alias # dialog[d].alias
    /\ Edit(d, updateSmartTitleName([dialog[d] EXCEPT !.alias = alias]), TRUE)

offsetEdited(d, offset) ==
    /\ offset # dialog[d].offset
    /\ Edit(d, SetOffset(dialog[d], offset), TRUE)

(* A title is chosen.  One that is the index is shown and told to nobody.   *)
ChooseTitle(d, t) ==
    LET D == [dialog[d] EXCEPT !.text = TitleText(t)]
    IN  /\ t \in D.titles
        /\ IF D.index = D.text THEN D # dialog[d] /\ Edit(d, D, FALSE)
           ELSE Edit(d, updateSmartTitleName([D EXCEPT !.index = D.text]), TRUE)

TypeTitle(d, text) ==
    /\ dialog[d].text # <<text>>
    /\ Edit(d, [dialog[d] EXCEPT !.text = <<text>>, !.free = TRUE], FALSE)

(* The box is left, or Enter makes what it shows an item.                   *)
EnterTitle(d) ==
    LET D == dialog[d]
    IN  /\ D.text \notin {D.index, <<Empty>>}
        /\ Edit(d, updateSmartTitleName([D EXCEPT !.index = D.text]), TRUE)

(* The button "OK".  The file is emptied first.                             *)
accept(d) ==
    /\ IsOpen(d)
    /\ UserActs
    /\ corrupt' = Fails(dialog[d])
    /\ relations_json' = IF corrupt' THEN <<>> ELSE Saved(dialog[d])
    /\ dialog' = [dialog EXCEPT ![d] = [Closed EXCEPT !.state = "accepted"]]
    /\ UNCHANGED historyVars

reject(d) ==
    /\ IsOpen(d)
    /\ UserActs
    /\ dialog' = [dialog EXCEPT ![d] = [Closed EXCEPT !.state = "rejected"]]
    /\ UNCHANGED <<relations_json, corrupt, historyVars>>

(* The button "Defaults".                                                   *)
defaultSettings(d) ==
    /\ IsOpen(d)
    /\ UserActs
    /\ relations_json' = <<>>
    /\ LET first == FirstText(dialog[d].titles)
       IN  dialog' = [dialog EXCEPT
                        ![d] = [@ EXCEPT !.list = <<>>, !.row = 0, !.alias = Empty,
                                         !.text = first, !.index = first, !.offset = 0]]
    /\ touched' = [touched EXCEPT ![d] = @ \cup ToSet(loaded[d])]
    /\ entered' = [entered EXCEPT ![d] = {}]
    /\ UNCHANGED <<corrupt, loaded>>

Step(d) ==
    \/ \E titles \in {{}, Title} : showSettings(d, titles) \/ showSmartTitles(d, titles)
    \/ \E row \in DOMAIN dialog[d].list : Select(d, row)
    \/ newTitle(d) \/ deleteTitle(d)
    \/ \E alias \in Alias \cup {Empty} : aliasEdited(d, alias)
    \/ \E offset \in Offset : offsetEdited(d, offset)
    \/ \E t \in Title : ChooseTitle(d, t)
    \/ \E text \in {Typed, Empty} : TypeTitle(d, text)
    \/ EnterTitle(d)
    \/ accept(d) \/ reject(d) \/ defaultSettings(d)

Next == ~corrupt /\ \E d \in Dialog : Step(d)

Spec == Init /\ [][Next]_vars

-----------------------------------------------------------------------------
(* Properties.                                                              *)

(* A relation that the user has not edited, deleted or reset is still in    *)
(* relations.json after every save, unless it was written over when its row *)
(* was shown under another offset, a title without an id was about, or      *)
(* another dialog has saved meanwhile.                                      *)
RelationsSurvive ==
    [][\A relation \in ToSet(relations_json) :
         \/ relation \in ToSet(relations_json')
         \/ \E d \in Dialog : IsOpen(d) /\
               \/ relation \in touched'[d] \cup dialog[d].disturbed
               \/ dialog[d].free
               \/ relations_json # loaded[d]]_vars

Saves(d) == IsOpen(d) /\ dialog'[d].state = "accepted" /\ ~corrupt'

(* What the user has entered last for a row is in relations.json when "OK"  *)
(* returns, however many rows were visited, made and deleted since, unless  *)
(* showing the row again has written it over.                               *)
EntriesArrive ==
    [][\A d \in Dialog :
         Saves(d) => entered[d] \ dialog[d].disturbed \subseteq ToSet(relations_json')]_vars

=============================================================================
