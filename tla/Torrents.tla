------------------------------ MODULE Torrents ------------------------------
(***************************************************************************)
(* The torrents tab (src/gui/torrentshelper.cpp): the table of the feed,   *)
(* its refreshes by the countdown and the button, the context menu, the    *)
(* rules and what is downloaded by them.  rules.json, the directory of     *)
(* rules that older versions used, and the history of downloads are files  *)
(* and outlive the program, which may end at any moment.                   *)
(*                                                                         *)
(* A refresh waits for the feed in a local event loop, and the context     *)
(* menu runs one of its own: `loops' is the stack of them.  The feed is    *)
(* what TorrentFeed says TorrentRSS may deliver, empty if it failed.       *)
(*                                                                         *)
(* Only the rules of the old directory may have expired.  The date of a    *)
(* rule of rules.json never has: daysTo() of a date that QDate::fromString *)
(* cannot read is 0, and neither the default "2420-01-01" nor the ISO form *)
(* a QDate becomes in a QVariant is in the format it reads.                *)
(*                                                                         *)
(* Nobody looks whether rules.json could be opened or written.             *)
(***************************************************************************)
EXTENDS Integers, Sequences, FiniteSets

CONSTANTS
    File,       \* torrents with a title, an episode and a link
    Rule,       \* rules, basic or advanced
    Kind,       \* [Rule -> {"basic", "advanced"}]
    Name,       \* [Rule -> anything]: the key of a rule in rules.json
    Matches,    \* [Rule -> SUBSET File]: what the user wants to be downloaded
    Stuck,      \* rules of the old directory whose file cannot be removed
    Expired,    \* rules whose file in the old directory says they are over
    Outcomes,   \* what may become of an access to rules.json
    Unwritable, \* files whose name is not one the history can be written with
    Feeds,      \* what a refresh may receive
    Interval,   \* the intervals the spin box may have, 0 among them
    OldRules,   \* the old directory and rules.json before the first start
    MaxNested,  \* bound: menus and refreshes of the user at a time
    MaxActs,    \* bound: settings saved by the user
    MaxEnds,    \* bound: ends of the program
    Unusable,   \* an item of the feed without episode or link
    Blank       \* a row of the table whose items were deleted

RulesFile == [text : {"empty", "object", "broken"}, rules : SUBSET Rule]
RulesDir == [exists : BOOLEAN, rules : SUBSET Rule]
\* Only a file with an object has rules, and only a directory that exists.
Stored(json, dir) ==
    /\ json \in RulesFile /\ (json.text # "object" => json.rules = {})
    /\ dir \in RulesDir /\ (~dir.exists => dir.rules = {})

ASSUME TorrentsAssumption ==
    /\ IsFiniteSet(Rule)
    /\ Kind \in [Rule -> {"basic", "advanced"}]
    /\ DOMAIN Name = Rule
    /\ Matches \in [Rule -> SUBSET File]
    /\ Stuck \subseteq Rule /\ Expired \subseteq Rule
    /\ Outcomes \subseteq {"done", "unopened", "unwritten"}
    /\ Unwritable \subseteq File
    /\ Unusable \notin File /\ Blank \notin File
    /\ Feeds \subseteq Seq(File \cup {Unusable})
    /\ Interval \subseteq Nat
    /\ \A old \in OldRules : Stored(old.json, old.dir)
    /\ MaxNested \in Nat /\ MaxActs \in Nat /\ MaxEnds \in Nat

VARIABLES
    up,                   \* the program runs
    event_timer,          \* the timer of MainWindow::eventTick runs
    torrentTable,         \* the rows of the table
    loops,                \* the local event loops, innermost last
    torrent_refresh_time, \* the countdown in seconds; below 0 it goes on down
    torrents_enabled,     \* MainWindow::torrents_enabled
    settings,             \* the stored settings
    rules_json,           \* rules.json: its rules, and whether it can be read
    rule_dir,             \* the old directory
    history,              \* the torrents with a file in history/
    acts, ends,
    corrupt,              \* a cell or a rule that does not exist was used
    \* History variables: they guide no step.
    downloads,            \* how often a rule downloaded each file, up to 2
    interrupted,          \* the program ended between a download and its note
    owned,                \* the rules the user has entered and not deleted
    lost,                 \* a known way to lose rules was taken
    shrunk,               \* a feed had fewer items than the table rows
    overrun,              \* advanced rules outnumbered basic ones
    replaced,             \* a torrent was picked in a menu older than the table
    misread,              \* the torrent picked was not the one under the menu
    settled,              \* the rules of the file were applied to this table
    zero                  \* an interval of 0 was put into the countdown

fileVars == <<rules_json, rule_dir, owned, lost>>
timeVars == <<torrent_refresh_time, zero>>
matchVars == <<history, downloads, settled>>
menuVars == <<replaced, misread>>
causeVars == <<shrunk, overrun>>
vars == <<up, event_timer, torrentTable, loops, timeVars, torrents_enabled, settings,
          fileVars, matchVars, menuVars, causeVars, interrupted, acts, ends,
          corrupt>>

Basic(S) == {r \in S : Kind[r] = "basic"}
Advanced(S) == {r \in S : Kind[r] = "advanced"}
Names(S) == {Name[r] : r \in S}
Distinct(S) == \A q, r \in S : Name[q] = Name[r] => q = r
Least(m, n) == IF m < n THEN m ELSE n

Refresh(tick) == [op |-> "refresh", tick |-> tick, answered |-> FALSE, feed |-> <<>>]
Menu(row) == [op |-> "menu", row |-> row, file |-> torrentTable[row],
              stale |-> FALSE, open |-> TRUE]

(* torrents_enabled is not initialized until the settings are accepted.     *)
Init ==
    /\ up = FALSE /\ event_timer = FALSE
    /\ torrentTable = <<>> /\ loops = <<>>
    /\ torrent_refresh_time = 0 /\ zero = FALSE
    /\ torrents_enabled \in BOOLEAN
    /\ settings \in [interval : Interval, download : BOOLEAN]
    /\ \E old \in OldRules :
          /\ rules_json = old.json /\ rule_dir = old.dir
          /\ owned = old.json.rules \cup (old.dir.rules \ Expired)
    /\ history = {} /\ acts = 0 /\ ends = 0 /\ corrupt = FALSE
    /\ downloads = [f \in File |-> 0]
    /\ interrupted = {} /\ lost = FALSE
    /\ shrunk = FALSE /\ overrun = FALSE /\ replaced = FALSE /\ misread = FALSE
    /\ settled = FALSE

-----------------------------------------------------------------------------
(* reloadRules.  The rules of the old directory that have not expired are   *)
(* put under their names, the last one of a name wins, and so does any over *)
(* one in rules.json.                                                       *)
Taken == rule_dir.rules \ Expired
Merges(S, D) ==
    {{r \in S : Name[r] \notin Names(D)} \cup M :
        M \in {M \in SUBSET D : Distinct(M) /\ Names(M) = Names(D)}}
\* What the rules in force may be; a file that was not opened reads as empty.
InForce(json, io) == Merges(IF io = "unopened" THEN {} ELSE json.rules, Taken)

Broken == [text |-> "broken", rules |-> {}]

(* The text is written behind what was read from the file, which then has   *)
(* two objects and cannot be read; or only a part of it is written.         *)
Written(json, M, io) ==
    IF ~rule_dir.exists \/ io = "unopened" THEN {json}
    ELSE IF io = "unwritten" THEN {json, Broken}
    ELSE IF json.text = "empty" THEN {[text |-> "object", rules |-> M]}
    ELSE {Broken}

\* The known ways to lose a rule here.
Loses(json, io) ==
    \/ rule_dir.exists /\ (json.text # "empty" \/ io # "done")
    \/ ~Distinct(Taken)

\* Slip: the directory is removed and the new file not written.
reloadRulesUnwritten(json, M, io) ==
    /\ rule_dir' = [exists |-> rule_dir.exists /\ rule_dir.rules \cap Stuck # {},
                    rules |-> rule_dir.rules \cap Stuck]
    /\ rules_json' = json

(* M is what it ends with, json the file.                                   *)
reloadRules(json, M, io) ==
    /\ rule_dir' = [exists |-> rule_dir.exists /\ rule_dir.rules \cap Stuck # {},
                    rules |-> rule_dir.rules \cap Stuck]
    /\ rules_json' \in Written(json, M, io)

(* The rules of the directory are in the lists twice, but an advanced rule  *)
(* of rules.json is stored as "regex" and read as "regexp": it matches no   *)
(* file.                                                                    *)
Calls(f, D, M) ==
    Cardinality({r \in D : f \in Matches[r]}) +
    Cardinality({r \in Basic(M) : f \in Matches[r]})
\* The loop over adv_rules indexes basic_rules.
Overrun(D, M) ==
    Cardinality(Advanced(D)) + Cardinality(Advanced(M)) >
        Cardinality(Basic(D)) + Cardinality(Basic(M))

\* Slip: the history is not looked at.
GotAnew(f, table, n, D, M) ==
    LET calls == Cardinality({j \in 1..n : table[j] = f}) * Calls(f, D, M)
    IN  IF ~settings.download THEN 0
        ELSE IF f \in Unwritable THEN calls ELSE Least(calls, 1)

(* verifyAndDownload for the rows 1..n: how often f is downloaded.          *)
Got(f, table, n, D, M) ==
    LET calls == Cardinality({j \in 1..n : table[j] = f}) * Calls(f, D, M)
    IN  IF ~settings.download \/ f \in history THEN 0
        ELSE IF f \in Unwritable THEN calls ELSE Least(calls, 1)

\* Slip: the last row is not looked at.
MatchRowsButLast(table, n, D, M) ==
    LET got(f) == Got(f, table, n - 1, D, M) IN
    /\ history' = history \cup {f \in File : got(f) > 0 /\ f \notin Unwritable}
    /\ downloads' = [f \in File |-> Least(downloads[f] + got(f), 2)]

MatchRows(table, n, D, M) ==
    LET got(f) == Got(f, table, n, D, M) IN
    /\ history' = history \cup {f \in File : got(f) > 0 /\ f \notin Unwritable}
    /\ downloads' = [f \in File |-> Least(downloads[f] + got(f), 2)]

-----------------------------------------------------------------------------
(* The table.  The items of the last feed are deleted, which leaves their   *)
(* rows empty; rows are added up to the length of the feed; the usable      *)
(* items fill the first ones, and as many rows are removed at the end as    *)
(* there were unusable ones.                                                *)
Usable(feed) == SelectSeq(feed, LAMBDA x : x # Unusable)
offset(feed) == Cardinality({j \in DOMAIN feed : feed[j] = Unusable})

\* Slip: the rows of unusable items stay.
FilledAll(feed) ==
    LET usable == Usable(feed)
        rows == IF Len(feed) > Len(torrentTable) THEN Len(feed) ELSE Len(torrentTable)
    IN  [j \in 1..rows |-> IF j <= Len(usable) THEN usable[j] ELSE Blank]

Filled(feed) ==
    LET usable == Usable(feed)
        rows == IF Len(feed) > Len(torrentTable) THEN Len(feed) ELSE Len(torrentTable)
    IN  [j \in 1..rows - offset(feed) |->
            IF j <= Len(usable) THEN usable[j] ELSE Blank]

Innermost == loops[Len(loops)]
Outer == SubSeq(loops, 1, Len(loops) - 1)
IsTick(loop) == loop.op = "refresh" /\ loop.tick
UsersLoops == Cardinality({i \in DOMAIN loops : ~IsTick(loops[i])})
\* The table is replaced under the menus that are open.
MadeStale(s) ==
    [i \in DOMAIN s |-> IF s[i].op = "menu" THEN [s[i] EXCEPT !.stale = TRUE] ELSE s[i]]

(* The innermost event loop is that of a refresh whose feed is there.       *)
FeedIsThere ==
    /\ up
    /\ loops # <<>>
    /\ Innermost.op = "refresh"
    /\ Innermost.answered

(* The rest of refreshTorrentListing, and of eventTick if that started it.  *)
(* A row without items, or an advanced rule without a basic one at the same *)
(* index, is undefined behaviour: the rows behind it are not reached.       *)
RefreshReturns ==
    /\ FeedIsThere
    /\ \E io \in Outcomes : \E M \in InForce(rules_json, io) :
        LET D == Taken
            table == Filled(Innermost.feed)
            usable == Len(Innermost.feed) - offset(Innermost.feed)
            bad == table # <<>> /\ Overrun(D, M)
        IN
        /\ torrentTable' = table
        /\ shrunk' = (shrunk \/ Len(Innermost.feed) < Len(torrentTable))
        /\ reloadRules(rules_json, M, io)
        /\ lost' = (lost \/ Loses(rules_json, io))
        /\ settled' = (settings.download /\ io = "done")
        /\ MatchRows(table, IF bad THEN Least(usable, 1) ELSE usable, D, M)
        /\ overrun' = (overrun \/ bad)
        /\ corrupt' = (bad \/ Len(table) > usable)
    /\ loops' = MadeStale(Outer)
    /\ torrent_refresh_time' = torrent_refresh_time - (IF Innermost.tick THEN 1 ELSE 0)
    /\ UNCHANGED <<up, event_timer, zero, torrents_enabled, settings, menuVars, owned,
                   interrupted, acts, ends>>

(* refreshTorrentListing up to its event loop.                              *)
StartRefresh(tick) ==
    /\ loops' = Append(loops, Refresh(tick))
    /\ torrent_refresh_time' = settings.interval
    /\ zero' = (settings.interval = 0)
    /\ UNCHANGED <<up, event_timer, torrentTable, torrents_enabled, settings, fileVars,
                   matchVars, menuVars, causeVars, interrupted, acts, ends,
                   corrupt>>

\* The button.
Click ==
    /\ up
    /\ UsersLoops < MaxNested
    /\ StartRefresh(FALSE)

CountDown ==
    /\ torrent_refresh_time' = torrent_refresh_time - 1
    /\ UNCHANGED <<up, event_timer, torrentTable, loops, zero, torrents_enabled, settings,
                   fileVars, matchVars, menuVars, causeVars, interrupted,
                   acts, ends, corrupt>>

\* Slip: the countdown goes on before it is compared.
eventTickLate ==
    /\ up /\ event_timer
    /\ torrents_enabled
    /\ \A i \in DOMAIN loops : ~IsTick(loops[i])
    /\ torrent_refresh_time >= 0
    /\ IF torrent_refresh_time - 1 = 0 THEN StartRefresh(TRUE) ELSE CountDown

(* eventTick, once a second.  Qt does not fire a timer again while its slot *)
(* runs.  A countdown below 0 only goes further down; the model stops it.   *)
eventTick ==
    /\ up /\ event_timer
    /\ torrents_enabled
    /\ \A i \in DOMAIN loops : ~IsTick(loops[i])
    /\ torrent_refresh_time >= 0
    /\ IF torrent_refresh_time = 0 THEN StartRefresh(TRUE) ELSE CountDown

(* The feed of a refresh has arrived, or failed to.                         *)
FeedArrives(i, feed) ==
    /\ i \in DOMAIN loops
    /\ loops[i].op = "refresh"
    /\ ~loops[i].answered
    /\ loops' = [loops EXCEPT ![i].answered = TRUE, ![i].feed = feed]
    /\ UNCHANGED <<up, event_timer, torrentTable, timeVars, torrents_enabled,
                   settings, fileVars, matchVars, menuVars, causeVars, interrupted,
                   acts, ends, corrupt>>

-----------------------------------------------------------------------------
MenuIsOpen(i) == loops[i].op = "menu" /\ loops[i].open

\* Slip: the row below.
torrentContextMenuBelow(row) ==
    /\ up
    /\ row \in 1..Len(torrentTable) - 1
    /\ UsersLoops < MaxNested
    /\ \A i \in DOMAIN loops : ~MenuIsOpen(i)
    /\ loops' = Append(loops, [Menu(row) EXCEPT !.row = row + 1])
    /\ UNCHANGED <<up, event_timer, torrentTable, timeVars, torrents_enabled,
                   settings, fileVars, matchVars, menuVars, causeVars, interrupted,
                   acts, ends, corrupt>>

(* torrentContextMenu on a cell; the signal mappers keep the row.           *)
torrentContextMenu(row) ==
    /\ up
    /\ row \in 1..Len(torrentTable)
    /\ UsersLoops < MaxNested
    /\ \A i \in DOMAIN loops : ~MenuIsOpen(i)
    /\ loops' = Append(loops, Menu(row))
    /\ UNCHANGED <<up, event_timer, torrentTable, timeVars, torrents_enabled,
                   settings, fileVars, matchVars, menuVars, causeVars, interrupted,
                   acts, ends, corrupt>>

(* "Download" and "Create rule" read the cells of that row now.             *)
Pick(i) ==
    /\ i \in DOMAIN loops
    /\ MenuIsOpen(i)
    /\ LET menu == loops[i]
           there == menu.row <= Len(torrentTable)
       IN  /\ corrupt' = ~there
           /\ misread' = (misread \/ (there /\ torrentTable[menu.row] # menu.file))
           /\ replaced' = (replaced \/ menu.stale)
    /\ loops' = [loops EXCEPT ![i].open = FALSE]
    /\ UNCHANGED <<up, event_timer, torrentTable, timeVars, torrents_enabled,
                   settings, fileVars, matchVars, causeVars, interrupted, acts, ends>>

Dismiss(i) ==
    /\ i \in DOMAIN loops
    /\ MenuIsOpen(i)
    /\ loops' = [loops EXCEPT ![i].open = FALSE]
    /\ UNCHANGED <<up, event_timer, torrentTable, timeVars, torrents_enabled,
                   settings, fileVars, matchVars, menuVars, causeVars, interrupted,
                   acts, ends, corrupt>>

MenuReturns ==
    /\ loops # <<>>
    /\ Innermost.op = "menu" /\ ~Innermost.open
    /\ loops' = Outer
    /\ UNCHANGED <<up, event_timer, torrentTable, timeVars, torrents_enabled,
                   settings, fileVars, matchVars, menuVars, causeVars, interrupted,
                   acts, ends, corrupt>>

(* The settings are accepted: the dialog writes the settings and rules.json *)
(* anew, and the window takes over the flag and reloads the rules.  A file  *)
(* that was opened is empty before it is written.                           *)
Emptied == {[text |-> "empty", rules |-> {}], Broken}

Saved(S, io) ==
    CASE io = "done" -> {[text |-> "object", rules |-> S]}
      [] io = "unopened" -> {rules_json}
      [] io = "unwritten" -> Emptied

SaveSettings(S) ==
    /\ up
    /\ acts < MaxActs
    /\ Distinct(S)
    /\ settings' \in [interval : Interval, download : BOOLEAN]
    /\ torrents_enabled' \in BOOLEAN
    /\ \E saved, io \in Outcomes :
          \E json \in Saved(S, saved) : \E M \in InForce(json, io) :
             /\ reloadRules(json, M, io)
             /\ lost' = (lost \/ saved # "done" \/ Loses(json, io))
    /\ owned' = S \cup Taken
    /\ settled' = FALSE
    /\ acts' = acts + 1
    /\ UNCHANGED <<up, event_timer, torrentTable, loops, timeVars, history,
                   downloads, menuVars, causeVars, interrupted, ends, corrupt>>

-----------------------------------------------------------------------------
(* The program starts: the constructor of MainWindow.                       *)
Start ==
    /\ ~up
    /\ up' = TRUE
    /\ torrents_enabled' \in BOOLEAN
    /\ \E io \in Outcomes : \E M \in InForce(rules_json, io) :
          /\ reloadRules(rules_json, M, io)
          /\ lost' = (lost \/ Loses(rules_json, io))
    /\ UNCHANGED <<event_timer, torrentTable, loops, timeVars, settings,
                   matchVars, owned, menuVars, causeVars, interrupted, acts,
                   ends, corrupt>>

(* access_granted starts the timer of eventTick, if it ever comes.          *)
accessGranted ==
    /\ up
    /\ ~event_timer
    /\ event_timer' = TRUE
    /\ UNCHANGED <<up, torrentTable, loops, timeVars, torrents_enabled,
                   settings, fileVars, matchVars, menuVars, causeVars,
                   interrupted, acts, ends, corrupt>>

Ends ==
    /\ ends < MaxEnds
    /\ ends' = ends + 1
    /\ up' = FALSE /\ event_timer' = FALSE
    /\ torrentTable' = <<>> /\ loops' = <<>>
    /\ torrent_refresh_time' = 0 /\ zero' = FALSE
    /\ settled' = FALSE
    /\ UNCHANGED <<torrents_enabled, menuVars, overrun, corrupt>>

\* The program ends, by the user or not.
End ==
    /\ up
    /\ Ends
    /\ UNCHANGED <<settings, acts, fileVars, history, downloads, shrunk,
                   interrupted>>

(* It ends while it takes over the old directory, which only a start meets: *)
(* some files are gone and rules.json is not written yet, or in part.       *)
EndInMigration ==
    /\ ~up
    /\ rule_dir.exists
    /\ Ends
    /\ \E gone \in SUBSET (rule_dir.rules \ Stuck), exists, started \in BOOLEAN :
          /\ exists \/ gone = rule_dir.rules
          /\ started => gone = rule_dir.rules \ Stuck
          /\ rule_dir' = [exists |-> exists, rules |-> rule_dir.rules \ gone]
          /\ rules_json' = IF started THEN Broken ELSE rules_json
          /\ lost' = (lost \/ started \/ gone \ Expired # {})
    /\ UNCHANGED <<settings, acts, owned, history, downloads, shrunk,
                   interrupted>>

(* It ends while the dialog saves: rules.json is emptied and not written,   *)
(* or in part.                                                              *)
EndInSave(S) ==
    /\ up
    /\ acts < MaxActs
    /\ Distinct(S)
    /\ Ends
    /\ settings' \in [interval : Interval, download : BOOLEAN]
    /\ rules_json' \in Emptied
    /\ owned' = S \cup Taken
    /\ lost' = TRUE
    /\ acts' = acts + 1
    /\ UNCHANGED <<rule_dir, history, downloads, shrunk, interrupted>>

(* It ends while the rules are applied, between the download of the torrent *)
(* in row n + 1 and the note of it in the history.                          *)
EndInDownload(n) ==
    /\ FeedIsThere
    /\ \E io \in Outcomes : \E M \in InForce(rules_json, io) :
        LET D == Taken
            table == Usable(Innermost.feed)
            f == table[n + 1]
            got(g) == Got(g, table, IF g = f THEN n + 1 ELSE n, D, M)
        IN
        /\ n < Len(table)
        /\ n = 0 \/ ~Overrun(D, M)
        /\ f \notin Unwritable
        /\ Got(f, table, n, D, M) = 0 /\ got(f) = 1
        /\ history' = history \cup {g \in File \ (Unwritable \cup {f}) : got(g) > 0}
        /\ downloads' = [g \in File |-> Least(downloads[g] + got(g), 2)]
        /\ interrupted' = interrupted \cup {f}
        /\ reloadRules(rules_json, M, io)
        /\ lost' = (lost \/ Loses(rules_json, io))
    /\ shrunk' = (shrunk \/ Len(Innermost.feed) < Len(torrentTable))
    /\ Ends
    /\ UNCHANGED <<settings, acts, owned>>

Program ==
    \/ Start \/ RefreshReturns \/ eventTick \/ MenuReturns
    \/ \E i \in DOMAIN loops, feed \in Feeds : FeedArrives(i, feed)

User ==
    \/ Click
    \/ \E row \in 1..Len(torrentTable) : torrentContextMenu(row)
    \/ \E i \in DOMAIN loops : Pick(i) \/ Dismiss(i)
    \/ \E S \in SUBSET Rule : SaveSettings(S)

Next ==
    /\ ~corrupt
    /\ \/ Program \/ User
       \/ accessGranted
       \/ End \/ EndInMigration \/ \E S \in SUBSET Rule : EndInSave(S)
       \/ FeedIsThere /\ \E n \in 0..Len(Innermost.feed) - 1 : EndInDownload(n)

Spec == Init /\ [][Next]_vars

(* The program is started, its timer fires if it runs, a feed arrives or    *)
(* fails, and event loops return.  The access need not be granted, nobody   *)
(* has to click, and a menu may stay open.                                  *)
Fairness ==
    /\ WF_vars(~corrupt /\ Start)
    /\ WF_vars(~corrupt /\ eventTick)
    /\ WF_vars(~corrupt /\ RefreshReturns)
    /\ WF_vars(~corrupt /\ MenuReturns)
    /\ \A i \in 1..MaxNested + 1 :
          WF_vars(~corrupt /\ \E feed \in Feeds : FeedArrives(i, feed))

FairSpec == Spec /\ Fairness

-----------------------------------------------------------------------------
(* Properties.                                                              *)

(* A refresh or a menu fails only after a feed with fewer items than the    *)
(* table has rows, with more advanced than basic rules, or on a menu that   *)
(* is older than the table: the count of the rows is right otherwise.       *)
FailsOnlyAsKnown == corrupt => shrunk \/ overrun \/ replaced

(* The rules download a torrent once, over refreshes that overlap, rules    *)
(* that are listed twice, and starts, unless its name cannot be written to  *)
(* the history or the program ended before it was.                          *)
DownloadedOnce ==
    \A f \in File : downloads[f] > 1 => f \in Unwritable \cup interrupted

(* When the rules were read, written if need be, and applied to the table,  *)
(* every torrent in it that a basic rule of rules.json names has been       *)
(* downloaded.                                                              *)
Applied(S) ==
    settled /\ ~corrupt =>
        \A j \in DOMAIN torrentTable, r \in S :
            torrentTable[j] \in Matches[r] => torrentTable[j] \in history \cup Unwritable
BasicRulesApply == Applied(Basic(rules_json.rules))

(* A rule the user has entered, if it has not expired, is in rules.json or  *)
(* still in the directory of an older version, unless the rules of the      *)
(* directory were put behind other rules, two of them have one name, the    *)
(* program ended while it took them over or while the dialog had emptied    *)
(* rules.json, or rules.json could not be opened or written.                *)
RulesSurvive == owned \subseteq rules_json.rules \cup rule_dir.rules \/ lost

(* The menu acts on the torrent it was opened on, unless a refresh has      *)
(* replaced the table meanwhile.                                            *)
MenuActsOnItsTorrent == misread => replaced

(* The countdown passes zero without a refresh only if the last refresh     *)
(* took an interval of zero.                                                *)
CountdownStopsOnlyAtZero == torrent_refresh_time < 0 => zero

(* Once the access is granted, a countdown that has not passed zero leads   *)
(* to a refresh, whatever the user does with the button, the menu and the   *)
(* interval meanwhile.                                                      *)
RefreshComes ==
    up /\ event_timer /\ torrents_enabled /\ torrent_refresh_time >= 0 ~>
        \/ \E i \in DOMAIN loops : loops[i].op = "refresh"
        \/ ~up \/ ~torrents_enabled \/ corrupt

=============================================================================
