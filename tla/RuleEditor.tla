----------------------------- MODULE RuleEditor -----------------------------
(***************************************************************************)
(* The torrent rules in the settings dialog (src/gui/settingsdialog.cpp).  *)
(* A dialog has a list widget of texts and a map of rules by key, and      *)
(* finds one in the other by the text.  What is in the fields is put back  *)
(* into the map when another row becomes the current one, and when the     *)
(* settings are accepted.  Dialogs are not modal: several may be open, and *)
(* each writes the whole of rules.json.                                    *)
(*                                                                         *)
(* Deleting an item of the list makes another row the current one while    *)
(* the item is still there.  The box of the resolution has a few items and *)
(* takes no other text: a rule with another resolution is shown with the   *)
(* one the box had, and put back with it.                                  *)
(***************************************************************************)
EXTENDS Integers, Sequences, SequencesExt, Functions

CONSTANTS
    Dialog,    \* the settings dialogs that are ever opened
    Name,      \* titles of anime and expressions for files
    Empty,     \* the empty text
    New,       \* "**New**"
    Subgroup, Resolution,
    Items,     \* the resolutions that the box has
    Default,   \* subgroup and resolution of a new rule
    KeyOrder,  \* the keys in the order of QJsonObject::keys()
    OldRules,  \* what rules.json may have first
    MaxActs    \* bound: actions of the user

Text == Name \cup {Empty, New}
Detail == [subgroup : Subgroup, resolution : Resolution]
Offered(detail) == detail.resolution \in Items
NewRule == [type |-> "none", name |-> Empty, detail |-> Default]
RuleValue == [type : {"basic", "advanced"}, name : Name \cup {Empty}, detail : Detail]
Rules == UNION {[S -> RuleValue] : S \in SUBSET Text}

\* Rules are stored under their names, and the unnamed ones under "" or New.
WellNamed(rules) ==
    \A key \in DOMAIN rules : rules[key].type = "basic" =>
        rules[key].name = IF key \in Name THEN key ELSE Empty

ASSUME RuleEditorAssumption ==
    /\ Empty # New /\ Empty \notin Name /\ New \notin Name
    /\ Items \subseteq Resolution /\ Default \in Detail /\ Offered(Default)
    /\ KeyOrder \in Seq(Text) /\ Range(KeyOrder) = Text /\ IsInjective(KeyOrder)
    /\ OldRules \subseteq Rules /\ \A rules \in OldRules : WellNamed(rules)
    /\ MaxActs \in Nat

VARIABLES
    rules_json, \* the file: rules by key
    dialog,     \* what each dialog shows and keeps
    acts,
    corrupt,    \* an item that does not exist was used
    \* History variables, per dialog: they guide no step.
    loaded,     \* rules.json when it was opened
    touched,    \* keys the user has had to do with, and those of misfits shown
    entered,    \* the basic rules as the user entered them last
    deleted     \* keys the user has deleted

historyVars == <<loaded, touched, entered, deleted>>
vars == <<rules_json, dialog, acts, corrupt, historyVars>>

Put(rules, key, rule) ==
    [k \in DOMAIN rules \cup {key} |-> IF k = key THEN rule ELSE rules[k]]
Without(rules, keys) == Restrict(rules, DOMAIN rules \ keys)

Closed == [state |-> "closed", list |-> <<>>, row |-> 0, torrent_rules |-> <<>>,
           current_rule |-> Empty, title |-> Empty, regex |-> Empty,
           detail |-> Default, basic |-> TRUE]

Init ==
    /\ rules_json \in OldRules
    /\ dialog = [d \in Dialog |-> Closed]
    /\ acts = 0 /\ corrupt = FALSE
    /\ loaded = [d \in Dialog |-> <<>>]
    /\ touched = [d \in Dialog |-> {}]
    /\ entered = [d \in Dialog |-> <<>>]
    /\ deleted = [d \in Dialog |-> {}]

-----------------------------------------------------------------------------
(* Operations of a dialog D.                                                *)

\* The row findItems(current_rule).at(0), or 0.
Found(D) == SelectInSeq(D.list, LAMBDA text : text = D.current_rule)
IsRenamed(D) == D.row # 0 /\ D.list[D.row] # D.current_rule

\* What the fields say.
FieldName(D) == IF D.basic THEN D.title ELSE D.regex
FieldRule(D) ==
    IF D.basic THEN [type |-> "basic", name |-> D.title, detail |-> D.detail]
    ELSE [type |-> "advanced", name |-> D.regex, detail |-> Default]

\* Slip: nothing is put back unless the rule is renamed.
CommittedNames(D) ==
    IF D.current_rule = Empty \/ FieldName(D) = D.current_rule THEN D
    ELSE LET key == IF FieldName(D) = Empty THEN New ELSE FieldName(D)
         IN  [D EXCEPT
                !.torrent_rules = Put(Without(@, {D.current_rule}), key, FieldRule(D)),
                !.list[Found(D)] = key]

(* The current rule is put back under the name it has now.                  *)
Committed(D) ==
    IF D.current_rule = Empty THEN D
    ELSE LET key == IF FieldName(D) = Empty THEN New ELSE FieldName(D)
         IN  [D EXCEPT
                !.torrent_rules = Put(Without(@, {D.current_rule}), key, FieldRule(D)),
                !.list[Found(D)] = key]

(* What the widgets show for detail: setCurrentText of a text that the box  *)
(* of the resolution does not have leaves the box as it is.                 *)
InBox(D, detail) ==
    IF Offered(detail) THEN detail
    ELSE [detail EXCEPT !.resolution = D.detail.resolution]

(* The rule of a row is put into the fields; one that is not basic leaves   *)
(* those of a basic one, and the box of these checked.                      *)
Shown(D, row) ==
    LET key == D.list[row]
        rule == IF key \in DOMAIN D.torrent_rules THEN D.torrent_rules[key] ELSE NewRule
        isBasic == rule.type = "basic"
    IN  [D EXCEPT
            !.row = row, !.current_rule = key, !.basic = TRUE,
            !.title = IF isBasic THEN rule.name ELSE @,
            !.detail = IF isBasic THEN InBox(D, rule.detail) ELSE @,
            !.regex = IF rule.type = "advanced" THEN rule.name
                      ELSE IF isBasic THEN @ ELSE Empty]

\* Slip: the rule is shown before the one that was current is put back.
ChangedEarly(D, row) == Committed(Shown(D, row))

(* currentItemChanged: row is the current one now.                          *)
Changed(D, row) == Shown(Committed(D), row)

\* Slip: the name of the current rule is not checked.
FailsUnchecked(D) == Found(D) = 0

(* It uses an item it has not found.                                        *)
Fails(D) == D.current_rule # Empty /\ Found(D) = 0

(* The row that becomes the current one when that row is removed.           *)
Neighbour(D) == IF D.row < Len(D.list) THEN D.row + 1 ELSE D.row - 1

(* The current item is deleted, with another one below or above.            *)
Removed(D) ==
    LET next == Neighbour(D)
    IN  [Changed(D, next) EXCEPT
            !.list = RemoveAt(@, D.row),
            !.row = IF next > D.row THEN next - 1 ELSE next]

(* saveTorrentRules.  It deletes the item it found, which changes the rule  *)
(* in the fields if that is the current one, and puts back what is then     *)
(* there.                                                                   *)
Remaining(D) ==
    LET without == [D EXCEPT !.torrent_rules = Without(@, {D.current_rule})]
    IN  IF Found(D) = D.row THEN Removed(without) ELSE without
Saved(D) ==
    IF D.current_rule = Empty THEN D.torrent_rules
    ELSE LET E == Remaining(D) IN Put(E.torrent_rules, FieldName(E), FieldRule(E))

\* The rule that D shows with a resolution it does not have.
Misfit(D) ==
    {key \in {D.current_rule} \cap DOMAIN D.torrent_rules :
        ~Offered(D.torrent_rules[key].detail)}

-----------------------------------------------------------------------------
IsOpen(d) == dialog[d].state = "open"

UserActs ==
    /\ acts < MaxActs
    /\ acts' = acts + 1

Touch(d, keys) == touched' = [touched EXCEPT ![d] = @ \cup keys]

\* The user enters the basic rule in the fields, which had another name.
\* What is entered for the rule with the empty key is not kept anywhere.
Enter(d, D) ==
    /\ entered' = [entered EXCEPT
          ![d] = LET others == Without(@, {dialog[d].title, FieldName(D)})
                 IN  IF D.basic /\ D.title # Empty /\ D.current_rule # Empty
                     THEN Put(others, D.title, FieldRule(D)) ELSE others]
    /\ deleted' = [deleted EXCEPT ![d] = @ \ {D.title}]

\* The keys of rules in their order: QJsonObject::keys().
Keys(rules) ==
    LET keys[n \in 0..Len(KeyOrder)] ==
            IF n = 0 THEN <<>>
            ELSE IF KeyOrder[n] \in DOMAIN rules THEN Append(keys[n - 1], KeyOrder[n])
            ELSE keys[n - 1]
    IN  keys[Len(KeyOrder)]

\* The constructor of SettingsDialog: loadTorrentRules.
Loaded == [Closed EXCEPT
    !.state = "open",
    !.torrent_rules = rules_json,
    !.list = Keys(rules_json)]

showSettings(d) ==
    /\ dialog[d].state = "closed"
    /\ UserActs
    /\ dialog' = [dialog EXCEPT ![d] = Loaded]
    /\ loaded' = [loaded EXCEPT ![d] = rules_json]
    /\ UNCHANGED <<rules_json, corrupt, touched, entered, deleted>>

(* The button "New".  The rule that was current is put back after the row   *)
(* has been added.                                                          *)
WithRow(D) == [D EXCEPT !.list = Append(@, New)]
Added(D) ==
    [Changed(WithRow(D), Len(D.list) + 1) EXCEPT
        !.title = Empty, !.regex = Empty, !.detail = Default]

(* "Create rule" of the torrents tab: createRule and showTorrentRules.      *)
showTorrentRules(d, title, detail, file) ==
    /\ dialog[d].state = "closed"
    /\ UserActs
    /\ LET E == Added(Loaded)
           D == [E EXCEPT !.title = title, !.detail = InBox(E, detail), !.regex = file,
                          !.list[E.row] = title]
       IN  /\ dialog' = [dialog EXCEPT ![d] = D]
           /\ Enter(d, D)
    /\ Touch(d, {title})
    /\ loaded' = [loaded EXCEPT ![d] = rules_json]
    /\ UNCHANGED <<rules_json, corrupt>>

\* The dialog changes to D, and the user has had to do with keys.
ChangeTo(d, fails, D, keys) ==
    /\ corrupt' = fails
    /\ dialog' = IF fails THEN dialog ELSE [dialog EXCEPT ![d] = D]
    /\ Touch(d, IF fails THEN {} ELSE keys \cup Misfit(D))
    /\ UNCHANGED <<rules_json, loaded>>

(* A row is clicked.  A rule that is not basic will be written over.        *)
Select(d, row) ==
    /\ IsOpen(d)
    /\ row \in DOMAIN dialog[d].list \ {dialog[d].row}
    /\ UserActs
    /\ ChangeTo(d, Fails(dialog[d]), Changed(dialog[d], row), {})
    /\ UNCHANGED <<entered, deleted>>

\* A new rule that has been given a name goes to the row of the next one.
TakesRow(D) == D.current_rule = New /\ Found(D) = 0

(* Then the two are one rule, with the name of the first and empty fields,  *)
(* and what was entered for the first is lost.                              *)
newTorrentRule(d) ==
    /\ IsOpen(d)
    /\ UserActs
    /\ LET D == dialog[d]
       IN  /\ ChangeTo(d, Fails(WithRow(D)), Added(D), {})
           /\ entered' = IF TakesRow(D)
                         THEN [entered EXCEPT ![d] = Without(@, {FieldName(D)})] ELSE entered
    /\ UNCHANGED deleted

(* The button "Delete".                                                     *)
deleteTorrentRule(d) ==
    /\ IsOpen(d)
    /\ dialog[d].row # 0
    /\ UserActs
    /\ LET D == dialog[d]
           E == Removed(D)
           row == IF D.row > 1 THEN D.row - 1 ELSE 1
       IN  /\ ChangeTo(d, Fails(D) \/ Len(D.list) = 1,
                       IF E.row = row THEN E ELSE Changed(E, row),
                       {D.current_rule, D.list[D.row]} \cup Misfit(E))
           /\ entered' = [entered EXCEPT ![d] = Without(@, {D.title})]
           /\ deleted' = [deleted EXCEPT ![d] = @ \cup {D.list[D.row]}]

(* The user types into a field; its name is put into the list.              *)
Type(d, D, name) ==
    /\ IsOpen(d)
    /\ UserActs
    /\ corrupt' = (D.row = 0)
    /\ dialog' = IF D.row = 0 THEN dialog
                 ELSE [dialog EXCEPT ![d] = [D EXCEPT !.list[D.row] = name]]
    /\ Touch(d, {D.current_rule, name})
    /\ Enter(d, D)
    /\ UNCHANGED <<rules_json, loaded>>

animeTitleEdited(d, title) ==
    /\ dialog[d].basic
    /\ title # dialog[d].title
    /\ Type(d, [dialog[d] EXCEPT !.title = title], title)

fileRegexEdited(d, regex) ==
    /\ ~dialog[d].basic
    /\ regex # dialog[d].regex
    /\ Type(d, [dialog[d] EXCEPT !.regex = regex], regex)

\* A change that is not put into the list.
Set(d, D) ==
    /\ IsOpen(d)
    /\ UserActs
    /\ dialog' = [dialog EXCEPT ![d] = D]
    /\ Touch(d, {D.current_rule, FieldName(D)})
    /\ IF D.row # 0 THEN Enter(d, D) ELSE UNCHANGED <<entered, deleted>>
    /\ UNCHANGED <<rules_json, corrupt, loaded>>

\* The user types a subgroup or takes an item of the box.
SetDetail(d, detail) ==
    /\ dialog[d].basic
    /\ Offered(detail)
    /\ detail # dialog[d].detail
    /\ Set(d, [dialog[d] EXCEPT !.detail = detail])

toggleBasic(d) == Set(d, [dialog[d] EXCEPT !.basic = ~@])

(* The button "OK".  Without the item a build may go on or end.             *)
accept(d) ==
    /\ IsOpen(d)
    /\ UserActs
    /\ LET D == dialog[d]
           last == D.current_rule # Empty /\ Found(D) = D.row /\ Len(D.list) = 1
       IN  /\ corrupt' \in {last} \cup (IF Fails(D) THEN BOOLEAN ELSE {})
           /\ rules_json' = IF corrupt' THEN rules_json ELSE Saved(D)
           /\ Touch(d, IF corrupt' \/ D.current_rule = Empty THEN {} ELSE Misfit(Remaining(D)))
    /\ dialog' = [dialog EXCEPT ![d] = [Closed EXCEPT !.state = "accepted"]]
    /\ UNCHANGED <<loaded, entered, deleted>>

reject(d) ==
    /\ IsOpen(d)
    /\ UserActs
    /\ dialog' = [dialog EXCEPT ![d] = [Closed EXCEPT !.state = "rejected"]]
    /\ UNCHANGED <<rules_json, corrupt, historyVars>>

(* The button "Defaults", which clears the list and saves: without a        *)
(* current row there is nothing to put back.                                *)
defaultSettings(d) ==
    /\ IsOpen(d)
    /\ UserActs
    /\ LET D == dialog[d] IN
       /\ corrupt' = (D.row # 0)
       /\ rules_json' = IF D.row # 0 THEN rules_json ELSE D.torrent_rules
       /\ dialog' = IF D.row # 0 THEN dialog
                    ELSE [dialog EXCEPT
                            ![d] = [D EXCEPT !.list = <<>>, !.title = Empty,
                                             !.regex = Empty, !.detail = Default]]
    /\ UNCHANGED historyVars

Typed == Name \cup {Empty}

Step(d) ==
    \/ showSettings(d)
    \/ \E title, file \in Name, detail \in Detail : showTorrentRules(d, title, detail, file)
    \/ \E row \in DOMAIN dialog[d].list : Select(d, row)
    \/ newTorrentRule(d)
    \/ deleteTorrentRule(d)
    \/ \E text \in Typed : animeTitleEdited(d, text) \/ fileRegexEdited(d, text)
    \/ \E detail \in Detail : SetDetail(d, detail)
    \/ toggleBasic(d)
    \/ accept(d)
    \/ reject(d)
    \/ defaultSettings(d)

Next == ~corrupt /\ \E d \in Dialog : Step(d)

Spec == Init /\ [][Next]_vars

-----------------------------------------------------------------------------
(* Properties.                                                              *)

(* The dialog fails only when its only rule is deleted or accepted, a       *)
(* renamed rule is left, the defaults are taken with a row selected, or     *)
(* something is typed without one: no selection, no new rule, no change of  *)
(* the subgroup or the kind, and no deletion with other rules does it.      *)
FailsOnlyAsKnown ==
    [][corrupt' =>
         \E d \in Dialog : IsOpen(d) /\
            \/ Len(dialog[d].list) = 1
            \/ IsRenamed(dialog[d])
            \/ defaultSettings(d)
            \/ dialog[d].row = 0 /\ \E text \in Typed :
                   animeTitleEdited(d, text) \/ fileRegexEdited(d, text)]_vars

(* A basic rule that the user has neither edited nor deleted nor given the  *)
(* name of another is the same in rules.json whatever is saved, unless it   *)
(* was changed by another dialog while this one was open, or has a          *)
(* resolution that the box does not have and was shown: to show such a rule *)
(* is to change it, and "OK" shows the rule next to the one it saves.       *)
UntouchedRulesSurvive ==
    [][\A name \in Name \cap DOMAIN rules_json :
         \/ rules_json[name].type # "basic"
         \/ name \in DOMAIN rules_json' /\ rules_json'[name] = rules_json[name]
         \/ \E d \in Dialog :
               IsOpen(d) /\ (name \in touched'[d] \/ rules_json # loaded[d])]_vars

Saves(d) == IsOpen(d) /\ dialog'[d].state = "accepted" /\ ~corrupt'

(* What the user has entered for a basic rule, in any row and however many  *)
(* other rows were visited since, is in rules.json when "OK" returns, but   *)
(* for the row of a rule without a key, and for a new rule after which      *)
(* another one was added before its row was left: see newTorrentRule.  The  *)
(* resolution is what the box shows, which for "Create rule" is that of the *)
(* torrent only if the box has it.                                          *)
EditsArrive ==
    [][\A d \in Dialog : Saves(d) =>
         \A name \in DOMAIN entered[d] :
            name \in DOMAIN rules_json' /\ rules_json'[name] = entered[d][name]]_vars

(* A rule the user has deleted with the button "Delete" and not entered     *)
(* again is not in rules.json after "OK", with no other dialog around.      *)
DeletedRuleIsGone ==
    \A d \in Dialog :
        /\ dialog[d].state = "accepted" /\ ~corrupt
        /\ \A e \in Dialog \ {d} : dialog[e].state = "closed"
        => deleted[d] \cap DOMAIN rules_json = {}

=============================================================================
