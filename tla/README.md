# A TLA+ model of Shinjiru

Shinjiru (version 1.7.3) is a desktop client for AniList written with Qt: it
keeps the user's anime lists, recognizes what a media player shows and counts
it, browses seasons, and downloads torrents by rules. It has one main thread,
whose event loop is entered again wherever the code waits for the network, and
tasks in Qt's thread pool that work on the same objects without a lock. These
modules say what the program does under every interleaving of the two, what can
be relied on nevertheless, and what cannot.

All paths below are relative to `src/src/`. The AniListAPI, Anitomy, QtAwesome
and Fervor submodules are not in the repository; what they do is modelled from
the calls of this code and marked external.

## Inventory

| Component | State | Operations | Hard because | Correct when |
|---|---|---|---|---|
| **Metadata loader** `api/user.cpp` 349-432, `api/user.h` 87-98, `api/anime.cpp` | `queue`, `async_registry`, `cancel`, the `needLoad`/`needCover` flags of `Anime` | `loadAnimeData`, `loadNext`, `quit`, `remove` | a queue and a registry shared without a lock, a chain of tasks that start each other, callers in nested event loops, deletion of what is loaded, shutdown meanwhile | every request is served once and in order, callers that wait go on, shutdown waits for what runs |
| **Automatic updates** `gui/mainwindow.cpp` 485-615, `lib/windowwatcher.cpp`, `api/smarttitle.*`, `gui/trayhelper.cpp` | `currently_watching`, `cw_anime`, `cw_episode`, `watch_timer`, `smart_titles` | `watch`, `updateEpisode`, `cancelUpdate`, `toggleAnimeRecognition`, `reloadSmartTitles` | a delay between decision and effect, a search request that lets other titles in, edits and downloads meanwhile, lost requests | what is counted is what plays, progress only rises, list and server agree |
| **User lists** `api/user.cpp` 103-347, 461-689, `gui/userlisthelper.cpp`, `gui/animepanel.cpp`, `gui/browseanime.cpp` | `User::anime_list`, `User::user_lists`, the `Anime` objects, panels, cards | `loadUserList`, `fetchUpdatedList`, `addToList`, `removeFromList`, `remove`, context menu, panels | two refreshes at a time, copies of lists that are written back, handlers that wait for the server between two halves of a move, pointers that outlive their object | lists hold live objects, one object per entry, an entry is in the list of its status |
| **Refresh control** `gui/userhelper.cpp`, `gui/mainwindow.cpp` 616-632, `api/user.cpp` 434-480 | `actionRL`, `user_refresh_time`, `hasUser`, the two future watchers, the profile | `loadUser`, `userLoaded`, `userListLoaded`, `eventTick`, `remake` | the future of one watcher is replaced; a countdown that only acts on zero; profile and lists come from different requests | a refresh can always be started again, the lists come, custom lists go by their own names |
| **Shutdown** `gui/mainwindow.cpp` 265-301, 712-745 | `quitting`, the registries | `elegantClose`, `~MainWindow` | called twice, handles events while it waits, waits for tasks that may wait for the main thread | returns, and nothing runs on deleted objects |
| **Torrents** `gui/torrentshelper.cpp`, `lib/torrentrss.cpp`, `gui/mainwindow.cpp` 602-614 | the table, `basic_rules`, `adv_rules`, `rules.json`, `history/`, counters | refresh, match, download, context menu | nested event loop, rows that outlive their items, a rule list changed while it is walked, a history file written late | a matching file is downloaded once |
| **Torrent rule editor** `gui/settingsdialog.cpp` 95-190, 519-566 | `torrent_rules`, `current_rule`, the list widget | select, edit, new, delete, save | two structures matched by a text the user edits | what is shown is what is saved |
| **Settings dialog** `gui/settingsdialog.cpp`, `settings.cpp` | the list of relations ("smart titles") with its fields, `relations.json`, key/value settings, the order list | select, edit, new, delete, choose and type a title, defaults, save | rows that are texts, fields that write the row when the program sets them, a combo box with a text and an index | relations nobody touched stay, what was entered arrives |
| **Statistics** `gui/statshelper.cpp` | none | `loadStatistics` | boundary cases | the numbers are what their labels say |
| **Season browser** `gui/browserhelper.cpp`, `gui/browseanime.cpp` | the cards of the page, the boxes and genres that are chosen | `loadBrowserData` | a request and a wait for every card in local event loops, in which the button works | the page is that of the last click, and every load of it ends |
| **Search panel** `gui/searchpanel.cpp` | the web view | search, open a result | nested event loop, unlisted `Anime` | as the loader |
| **Authorization** `api/api.cpp` | `API::m_API`, whether access was granted | `verifyAPI`, `accessGranted`, `accessDenied` | starts everything else, from a dialog or without one | start-up goes on |
| **Singletons** `User`, `API`, `SkinManager` | `m_Instance` | `sharedX`, `deleteInstance` | double-checked locking, a constructor that waits in a local event loop with the lock held | one instance, and nobody waits for it for ever |
| Widgets: tray, airing cards, flow layout, scroll text, overlay | geometry | paint, layout | - | not modelled |
| `main.cpp`, `lib/crashhandler` (vendored breakpad) | - | - | - | not modelled |

The components interact by calls on the main thread (panels, cards and menus
call `User` and the loader), by pool tasks on the shared objects (the loader's
chain, the downloads), by Qt signals (`finishedReloading` ends a nested event
loop, the watchers of futures call `userLoaded` and `userListLoaded`), and by
requests to the server, each of which is a point where other events of the main
thread are handled.

## Modules

| Module | What it is |
|---|---|
| `LoadService` | abstract: a FIFO server of requests, one at a time |
| `AnimeLoader` | the metadata loader, its callers, deletion and shutdown |
| `AnimeLoaderProofs` | theorems about it |
| `Recognition` | automatic updates with the edits, downloads and requests around them |
| `RecognitionProofs` | theorems about it |
| `UserLists` | the objects and lists, overlapping downloads, waiting handlers |
| `UserListsProofs` | theorems about it: types, live objects, what a download leaves on the lists, which object and which list an entry has |
| `TorrentFeed` | the download and the incremental parser of the torrent feed |
| `TorrentFeedProofs` | theorems about it |
| `Torrents` | table, countdown, menu, rules, downloads and their history |
| `TorrentsProofs` | theorems about its countdown, menu, rules, downloads, table and what makes it fail |
| `RuleEditor` | the page of torrent rules of the settings dialogs |
| `RelationEditor` | the page of relations of the settings dialogs |
| `SettingsProofs` | theorems about both pages |
| `Session` | start-up, the one `User`, profile and refreshes, closing |
| `SessionProofs` | theorems about it |
| `Browser` | the season browser, on top of `LoadService` |
| `BrowserProofs` | theorems about it |
| `MCRecognition`, `MCUserLists`, `MCTorrents`, `MCRuleEditor`, `MCRelationEditor`, `MCSession`, `MCBrowser` | small instances |

### AnimeLoader

The main thread is one process (`main`: where it is in `loadAnimeData`; `loops`:
the nested event loops it is in; `quit`: where it is in `User::quit`) and each
pool task is one (`phase[t]`: where it is in `loadNext`). No lock protects the
queue, so each call of a container operation is a step: `ReadSize` / `Push` /
`Run` / `AppendFuture` are `loadAnimeData`; `CheckSize` / `CheckCancel` /
`Front` / `Pop` / `Get` / `CoverArrives` / `Emit` / `ClearNeedLoad` /
`TailStarts`, `TailEnds` / `TailAppends` are `loadNext`. A cover that cannot be fetched
(`CoverFails`) opens a modal box in the thread of the task (`lib/filedownloader.cpp:20`)
before `downloaded()` ends its wait: the task is in `"box"` until somebody closes it
(`BoxClosed`). `QueueLoad`,
`ReloadAfterEpisode`, `SearchLoad`, `BrowserLoad` are the callers, the last two
enter a nested event loop (`ConnectAndExec`, `LoopReturns`). `Remove` deletes an
object, `Close` and the `Quit...` actions are `elegantClose` and `User::quit`.
Undefined behaviour (front or pop of an empty queue, a deleted `Anime`, an
append that moves the list `quit` walks over) sets `corrupt`, after which the
model stops: anything may happen then. The steps are container calls and not
instructions: races inside `std::queue` and `QList` themselves are not modelled.

`LoadService` is what callers rely on. `ImplementsService` says that the loader
implements it under the mapping that reads the queue up to the first overlap.

### Recognition

`Watch` is one report of the window watcher and `MainWindow::watch` with the
branch it takes: known by name or by relation, or searched for, as is an entry of the
list whose title is empty in the language of the lists (`Nameless`). `waiting` is the
stack of calls that wait for an answer in a nested event loop: searches of `watch`
(`SearchReturns`) and the PUT of `updateEpisode` (`UpdateReturns`), after which
`cw_anime` is used once more. `UpdateEpisode` is the timer's call up to that PUT; it
tells the server "watching" whatever the status here is, or "completed" after the last
episode, and only the latter is also done here. `CancelUpdate`, `ToggleRecognition`,
`ReloadSmartTitles`, `DeleteEntry` and the edits
(`Increment`, `UpdateStatus`, `OpenPanel`, `Accept`) are what the user does;
`FetchAnswered` and `CopyEntry` a download; `Deliver` and `Lose` what happens to a
request. An entry stands for the objects with its id (which objects there are is
the subject of `UserLists`), one download runs at a time, one panel is open at a
time, and nobody changes the list on the site. Six ghost variables record what
has happened; no guard reads them: `settled` (the update of this showing was written or
cancelled), `reentered` (`watch` was entered while a search waited), `removed` (a
deletion met a running timer, a waiting update or an open panel), `forgotten` (`watch`
searched for a title while an update waited), `touched` (the progress changed while the
timer ran) and `suspect` (entries about which list and server may disagree).

### UserLists

`objects` are the `Anime` made so far, `dead` those deleted, `user_lists[l][i]`
the object list `l` has for entry `i`. `Answered` to `EndDownload` are the first
download (task 1) and the refreshes, with a copy of one list at a time in the
task, written back by `EndList`; `Finished` is the future watcher. The context
menu, panels, cards and the search panel are actions whose requests to the
server let the main thread handle other events (`waiting` is the stack of
handlers). `Watch` is what `MainWindow::watch` does to `cw_anime` and `watch_timer`,
`StopTimer` the tray or a new title, `UpdateEpisode` the timer with its two branches, of
which the ordinary one tells the server "watching" (`gui/mainwindow.cpp:571`) and leaves
status and lists here as they are, and `UpdateReturns` the rest of it after the PUT. The
calls that wait there are counted in `updates` and may return in any order among the
handlers of `waiting`, which allows more than the stack of event loops does. That a
call of `watch` may go on after its search and set `cw_anime` to null while a timer runs
that another call has started is part of `Watch`; what it mixes up otherwise is the
subject of `Recognition`. `UpdateNothing` is the timer in that case.
`RemoteChange` is a change on the site. `anime_list` is a set: its
order matters only for which of two entries of the same title a lookup finds,
and that is a choice among those that match.

### TorrentFeed

One `TorrentRSS` object and its parser. `HeadersArrive` and `Redirect` are
`metaDataChanged`, `ReadyRead` hands any number of the next tokens to `parseXml`
(`Token` for one after the other), `Error`, `Finished` and `OldFinished` end replies, and
`LoopReturns` is the refresh that goes on. Whether an item is being read is a
local variable of `parseXml`, so a chunk that ends inside an item spoils it
(`cut`); what else is in the lists are the items of the feed.

### Torrents

`loops` is the stack of local event loops: refreshes that wait for their feed and
context menus. `eventTick` counts down or starts a refresh, `Click` is the
button, `FeedArrives` the end of a `TorrentFeed`, of which only the list of items
matters here, and `RefreshReturns` the rest of `refreshTorrentListing` with
`reloadRules`, `checkForMatches` and `verifyAndDownload`: matching and downloading
have no event loop in them and are one step, except that the program may end
between a download and its note (`EndInDownload`) or while it takes over the rule
files of an older version (`EndInMigration`). `accessGranted` starts the timer of
`eventTick` (`event_timer`), if it ever comes. Rows whose items were deleted are
`Blank`, and using one sets `corrupt`. A rule of the old directory may have expired
(`Expired`): its file is removed with the others and it is not taken over. A rule of
rules.json never has: `QDate::fromString` reads neither form of date it is given there,
and `daysTo` an invalid date is 0. `SaveSettings` is a settings dialog that writes rules
which can be read again; what a dialog does with them is `RuleEditor`. Nobody looks
whether rules.json was opened or written, when it is read or when it is saved, so each
access has one of the `Outcomes`: done, not opened, or opened and not wholly written.
Saving empties the file before it writes (`Emptied`), and the program may end in between
(`EndInSave`).

### RuleEditor

`dialog[d]` is the list widget, the current row, `torrent_rules`, `current_rule`
and the fields of a dialog. `Changed` is the handler of `currentItemChanged`: the
fields are put back into the map under the text the row was found by
(`Committed`), then the new row is shown (`Shown`). Deleting an item makes the
next row the current one while the item is still in the list (`Removed`), in the
handler of "Delete" and in `saveTorrentRules`. `findItems(...).at(0)` of nothing is
undefined: selecting a row then ends the program; "OK" ends it or, as a release
build does with the null pointer in an empty `QList`, goes on. A rule's `detail` is its
subgroup and its resolution. The box of the resolution is not editable and has the three
`Items` of `gui/settingsdialog.ui:654`; a resolution it does not have (a rule of the old
directory, or "Create rule" of a file whose name says none or another one) leaves it as
it was (`InBox`), and leaving the row puts the rule back with what the box says. The rules
a dialog first finds are `WellNamed`: rules.json is written only by `saveTorrentRules` and
by the migration of the old files, which store a rule under its name. It is written in one
step here; `Torrents` has the file that is emptied first. `touched`, `entered` and
`deleted` are history variables: what the user did, rules shown with a resolution that is
not theirs counted among the touched (`Misfit`).

"New" adds its row before `currentItemChanged` puts the rule of the fields back
(`gui/settingsdialog.cpp:172`), and that finds its row by the text "**New**". When the
rule of the fields is a new one that has been named, the only row with that text is
the one just added: the rule is put there, its name comes to stand in two rows, and the
fields are emptied with it as the current rule. Naming the second rule then removes the
first from the map: settings, "New", a title, "New", another title, "OK" leaves one rule
(`TakesRow`). `EditsArrive` leaves this case out, since what was entered is then
`entered` no more; the proof of `Edits` found it.

### RelationEditor

A row of the list of relations is a text of parts that is split again wherever a
part is needed; so it is a sequence here, and saving, showing and failing depend on
its length as in the code (`Saved`, `Changed`, `Fails`). A field that the user or
the program changes writes the current row (`updateSmartTitleName`); `SetOffset` is
the spin box, which tells of every new value, also of the one that `Changed` sets
when a row is selected, before it sets the title. The box of titles has a text and
an index, which typing, choosing and leaving it change apart (`TypeTitle`,
`ChooseTitle`, `EnterTitle`). Deleting the current row shows its neighbour first
(`Removed`). `disturbed` are rows that showing them has written over, `free` whether
a text without an id was in the box, `touched` and `entered` what the user did.

### Session

One process is the main thread, one each slot for a future of the pool; `pc` says
where each is. `loadUser` starts a task for the profile, `TaskStarts` is the lambda
in it, `Lock` and `Built` are `User::sharedUser()` with its two looks at the pointer,
the lock between them, and the constructor that waits for the profile in a local
event loop: on the main thread (`useUser`) it lets the other actions of that thread
happen, and one of them that asks for the `User` makes it wait for itself
(`"stuck"`). `remake`, `AskLists`, `ListsArrive` and `CopyLists` are a refresh with
the two requests it makes; of the lists only whose they are and under which custom
name they are kept matters here, the entries are the subject of `UserLists`.
`userLoaded` and `userListLoaded` are the slots of the two watchers, `listChanged`
the same slot when an edit calls it, `eventTick` the countdown. The profile image comes
through `FileDownloader` in the constructor of `User` and in `remake`: a task is in
`"image"`, or in `"box"` after `ImageFails` until `BoxClosed`, before it goes on
(`ImageSet`). Qt allows no widgets outside the main thread, so a box that a pool thread
opened while the main thread is blocked in `waitForFinished()` may be one that cannot be
closed; the model lets it be closed, and no property says that it is. `elegantClose` walks
over the futures: `EventsDone` ends its `processEvents()`, `FutureWaited` its
`waitForFinished()`. `changeSite` is the user on the web site. An answer that is
lost, or that comes without access, is an empty one.

### Browser

`loads` is the stack of calls of `loadBrowserData`. Each waits for the server (`Browse`
to `GetReturns`) and, for a result whose data or cover are missing, for the loader
(`AskLoader`, `Connect`, `LoopReturns`), and while it waits the user may choose
something else or click again, which empties the page. The loader is an instance of
`LoadService`, with the requests of the other parts in its queue (`Other`) and with the
freedom to break that `AnimeLoader` needs: what `loader` shows the code to implement is
what the browser is checked against. `CoverFails` and `BoxClosed` are the error box of a
cover, which holds the loader up. After each card the code looks whether
the four boxes are still what they were; it does not look at the genres, and it goes to
the next result first. The loop reads one result beyond the last: an object without
members, whose empty title finds an entry that has no title in one of the languages
(`Untitled`).

## Runs

| Run | Instance | Shows |
|---|---|---|
| `loader` | 2 anime, 2 tasks, 2 threads, 2 requests, 1 nested loop, fair | the lost wakeup is the only way to lose a request, overlapping chains the only way to meet an empty queue; until chains overlap the loader is a FIFO server; which tasks shutdown waits for; as long as the error boxes of covers are closed, the queue is emptied, callers return, shutdown ends |
| `recognition` | 2 entries, one without a title in the language of the lists, 2 titles, search, relation, 2 calls that wait | what a pending update will count, and what makes it use a deleted entry or none |
| `recognition_lists` | 1 entry played under an alias with an offset, 1 edit, 2 downloads, 1 call that waits, lost requests, fair | list and server, what a download repairs, and that a known title that plays on is counted |
| `user_lists` | 1 entry on a custom list or not, 2 statuses, 2 refreshes, 2 operations, 2 waiting handlers, automatic updates | one object per entry, the list of its status, what a download shows, lists hold live objects, what uses a deleted one or none |
| `torrent_feed` | 2 items, 2 redirects, every way to cut the feed | what is listed, and that the refresh goes on |
| `torrents` | 4 feeds of up to 2 items, a click or a menu beside the countdown, fair | what makes a refresh or a menu fail, which torrent the menu acts on, where the countdown stops and that, once access was granted, it leads to a refresh |
| `torrent_rules` | 3 rules of 2 names, one of them expired, an old directory with a file that stays, beside rules.json or before it, accesses that fail, 2 starts, 1 save | a download is made once and made at all, no rule is lost but in the known ways |
| `rule_editor` | 2 dialogs, 2 names, 3 resolutions of which the box has 2, 6 actions | what is entered is saved, a rule nobody edits stays, when the dialog fails |
| `rule_delete` | 1 dialog, 2 rules, 4 actions | expected violation, see below |
| `relations` | 2 dialogs, up to 2 stored relations, 2 titles or none to choose from, 2 offsets, 6 actions | which relations a save may lose or change that the user did not, and that what was entered arrives |
| `session` | 2 futures at a time, 2 custom lists that are made, renamed or deleted, countdowns of 0 and 1, 2 events beyond the countdown, fair | one `User`; custom lists under their names; as long as the error boxes of the profile image are closed, the lists come and the window closes |
| `browser` | 2 clicks, 2 changes of boxes or genres, seasons of 1 and 2 results, an entry without a title, 1 request from elsewhere, fair | the page is that of the last click, what an overtaken load leaves on it; as long as the error boxes of covers are closed, every load ends unless the loader told too early or broke |

Why the bounds are enough: the races of the loader need two tasks that meet, and the lost
wakeup two requests. Two anime tell the order of service apart. The errors of a pending
update need a title that interrupts another one's search (two titles), an entry that is
searched for although it is on the list, and a search that begins while an update waits, or
an update while a search does (two calls that wait). List and server differ after one lost
or overtaken request, be it of an edit or of an automatic update; a second download shows
that the repair holds. Two refreshes overlap with the first download and with each other;
two operations are one that starts to wait and one that gets in between, or a video that
begins to play and one that meets its update. Four objects are one that each download makes
and one of the search panel or the browser. Entries meet only where two have one title,
which the theorems about `UserLists` cover and the run does not. A feed is cut inside an
item, between two, and before the first; a table shrinks after a longer feed; one menu or
click beside a refresh of the timer is what `torrents` lets overlap, since the timer's slot
is not entered twice. Redirects of the feed are bounded, while the code follows as many as
come: two are one whose first reply ends late, and one that meets it. Two starts are one
that takes the old rules over, or relapses into them after an older version was used once
more, and may end in it, in a save or in a download, and the one after it. Six actions in a
dialog are opening it, an edit, a change of the row, another edit, a deletion, and "OK", or
opening two and a use and an "OK" of each; the same six do for relations. Two resolutions of
the box and one that it does not have tell a rule that was put back with another row's
resolution from one that was not. The two dialogs of `rule_editor` are symmetric: no
definition tells one from another. In a session, two futures are one that makes the `User`
and one that wants it, or a refresh and the next one, since the reload action lets no third
one start before one of the two was reported; two events are a use of the `User` in its own
constructor, a change on the site between a profile and its lists, or two answers lost in a
row, or one of these and the closing of the window. In the browser a load is overtaken by
one other, at its request or at a card, and what a third would overtake is again a load
under a later one; two changes of the boxes leave them and come back. Deadlock is not
checked: users may stop, bounds end behaviours, and `corrupt` ends the model.

The mutants listed in `PROJECT.json` are slips in the code (a dropped guard, a
swapped order, a missing reset); each property fails for the one listed with it.

### Fairness

Pool tasks make progress because the operating system runs the threads and every request of
AniListAPI and every reply for a feed ends, if with an error. An image is another matter:
`FileDownloader` opens a modal box on an error (`lib/filedownloader.cpp:20`) and emits
`downloaded()` only when it is closed. So a cover or a profile image arrives or fails, which
is fair, and `BoxClosed` is not. The liveness properties of `AnimeLoader`, `Session` and
`Browser` assume that no box stands for ever (`BoxesClosed`), and say nothing if one does.
The main thread makes progress in what it has begun. Timers fire (`Watch` is the watcher's
periodic timer, `UpdateEpisode` the delay timer, `eventTick` the one of a second), local
event loops return once they were told to, and `processEvents()` returns. The timer of a
second runs from `access_granted` on (`gui/mainwindow.cpp:248`): in `Torrents` that is
`accessGranted`, not fair, and `RefreshComes` is about the time after it. `SearchReturns`
and `UpdateReturns` are fair because a request that is waited for is answered or fails. In
`Session` a step of a task includes the answer it waits for, since a request of AniListAPI
that fails is answered with nothing. In `Browser` the loader serves what is in its queue, as
`QueueDrains` says, but it need not serve in time: an answer before the browser listens is
`missed`. `UserLists` has no liveness property: that the reload action comes back is part of
`ListsCome` in `Session`. No action of the user, no access granted, no delivery of a request
of an edit and no change on the site is fair.

### What differs from the documentation

The page of torrent rules has a button "Delete" (`gui/settingsdialog.ui:619`).
`rule_delete` shows that a rule deleted with it is in rules.json after "OK": the row
that becomes the current one puts the fields of the deleted rule back.

Automatic updates have a limit no document names, though nothing contradicts it: a
player that was open before the list had arrived is not counted as long as it plays,
since `watch` stores the title before it looks for the entry and returns early for a title it
has stored (`gui/mainwindow.cpp:516`). `KnownTitleIsCounted` says what holds: a title
that is known when it is first seen.

The settings offer download rules with a "File Regex:" (`gui/settingsdialog.ui:707`).
The page stores it under "regex" and the matcher reads "regexp"
(`gui/torrentshelper.cpp:272` and `:319`), which only rules of the old directory have:
an advanced rule of rules.json downloads nothing. `Torrents` follows the code;
`BasicRulesApply` is about the other kind of rules.

Three more things the code does, and no document denies, are excepted by name in the
properties. An automatic update that is not of the last episode tells the server
"watching" and leaves the entry in the list it is in (`gui/mainwindow.cpp:571`): a planned
entry that is watched stays planned here, and a refresh finds it on a list where it has no
object. A rule with a resolution that the box does not have changes it when it is only
looked at (`gui/settingsdialog.cpp:149`). And an image that does not come stops the loader
until somebody closes its error box.

## What is proved

The proofs are for every value of the constants under the named assumptions of
the modules (the sets are disjoint from their null values, bounds are naturals,
tables are functions of the right type).

* **AnimeLoader**: `TypeCorrect` (strengthened by `TypeInv`: a task that is to be
  registered exists); `NothingStranded`: the invariant `Attended` says that while
  the queue is not empty and nothing was missed, some task is active or the main
  thread is about to start one; `OneTaskAtATime` (its own invariant, given
  types); `UndefinedBehaviourHasACause`, from `OneAtATime` (a lone task finds what
  the size promised) and `ReferencesLive` (nothing refers to a deleted object
  unless `freedInUse`); `LoaderImplementsService`: `HeldIsFirst` says that what a
  lone task copied is still first when it pops, so every step maps to a step of
  `LoadService` or a stutter; `QuitWaits`: after shutdown only a task that was
  not yet registered at its last look may touch an `Anime`.
* **Recognition**: `TypeCorrect`; `UpdatesWhatPlays`, `UpdatesRaise` and
  `InvalidUseHasACause` from one invariant, `PendingInv`, about the stack of
  waiting searches, the pointer `cw_anime` and the pending update;
  `InvalidUseHasACause` names three causes: a deletion under a running timer, a waiting
  update or an open panel, a search that began while an update waited, and `watch` entered
  again. `ServerAgreement` from `AgreeInv`: an entry that is not suspect has the same
  data here, on the server with the requests under way, and in an answer that is
  not outdated; `DownloadsRepair`.
* **TorrentFeed**: `Listing` (`ItemsAreTheFeeds`) and `WholeFeed` (`ReturnsWithTheFeed`)
  from `FeedInv`, for a feed of any length and any way to cut it. Its main part, `Good`,
  says after each token what the parser has: all items before in their order and, of the
  item under way, the tag and the texts read up to there, unless a chunk ended inside it.
  `TokenStep` is one token of each kind. That a chunk of any length keeps `Good` is proved
  from the first token that would not (`ParsesTheChunk`): what is wrong somewhere is wrong
  first at a least number (`Least`), by which the recursion of `parseXml` is also shown to
  exist (`Reading`).
* **Torrents**: `CountdownSafe` from `CountdownInv`: the property alone is not inductive,
  because a refresh that the timer has started counts once more when it returns, after other
  refreshes may have set the countdown to another interval. The invariant adds that there is
  one such refresh at most and that the countdown is above zero while it waits, unless it
  was set to zero. `MenuSafe` from `MenuInv`: the row of a menu has the torrent it had until
  a refresh returns under it. `RulesKept`: `RulesSurvive` is inductive once the two stores
  are known to hold rules (`StoreOK`); what carries it is the lemma `Merging` about taking
  old rules over those of rules.json. A rule is lost, as the theorem names it, by a merge
  with other rules, by a second rule of its name, by an end in the migration or while
  rules.json is empty, or by an access to it that fails. `OneDownload` from `OnceInv`: what
  was downloaded once is in the history, unless it cannot be written there or the program
  ended in between; the lemmas about calls count how often a matching row is downloaded in
  one step. `RulesAreApplied` from `AppliedInv`, which relates the rows of the table to the
  rules that were there when it was matched. `FailuresAreKnown`: the table has as many rows
  as the items of the last feed unless a feed was shorter than the table (`MenuInv` and the
  length of the table).
* **UserLists**: `TypeCorrect`; `ListsLive` and `DeadUseHasACause` from one invariant of
  five parts: who made an object (`MadeInv`), what a task copied and will write back
  (`TaskInv`), what the lists hold (`ListedInv`), what cards, panels and waiting handlers
  hold (`HeldInv`), and what `cw_anime` is while an update is pending or waits (`WatchInv`).
  The causes it names are a deletion that met a download (`crossed`) or one of these holders
  (`orphaned`), and `watch` setting `cw_anime` to null under an update (`unwatched`). The
  lists alone are not inductive, since a task's copy becomes a list again. The lemmas about
  `Copying` and `Listing` carry the steps of the tasks. `ShowsServer`
  (`DownloadShowsServer`) adds what a download is through with: each entry of a finished
  list is shown, in the list or in what is put by for the custom lists, with the status of
  the answer (`CopyingShows`). That survives the steps of others because whoever changes the
  lists marks the download as disturbed (`Others`). The first download goes through
  `anime_list` for titles, so two more parts are needed: while it copies, `anime_list` holds
  only what it copied (`FirstInv`), and what is on a list is in `anime_list` or deleted
  (`KnownInv`), which makes the branch that takes an object from a list without a match a
  use of a deleted `Anime`. `OneAnime` (`OneAnimePerEntry`) from `EveryInv`. The property is
  far from inductive: a download makes an object for what its copy of a list lacks, so one
  has to know that nobody else has one for the entry or is about to bring it in. The
  invariant says of an entry that did not move which object is its own (`Mine`: in
  `anime_list`, or held by a handler that is going to put it there), that the server has the
  status of that object, that a list without it that the server has it on is one a waiting
  handler is going to add it to, that a copying download answers what the server still has,
  is through with what is in its slots (`Through`), and makes an object only where there is
  none, and only one (`MakesOne`). `UnmovedInItsList` (`UnmovedEntryIsInItsList`) adds that
  the server has every such entry unless a handler is going to delete it, that a list of
  another status that has it is the one a handler is going to take it from, and that what a
  download answers is what the object has (`PlacesInv`). It assumes that no entry is hidden
  from the list of its status on the server at first or by a change on the site
  (`NothingHidden`), as in the run: the object of a hidden entry is in no such list. Both
  theorems rest on `StartAssumption`: AniList has an entry in no list of a status it does
  not have. The proof of `OneAnime` found one way in which two entries with one title get a
  second object: the first download, at a custom list, gives one the object of the other,
  which is deleted later, and a refresh finds no object where it made one before. `moved`
  names it, as it names an automatic update that tells the server a status the entry does
  not have here.
* **RuleEditor**: `RulesAreKept` is the invariant the other three rest on. The properties
  speak of rules.json and of steps; what carries them is what a dialog has in between
  (`Held`, `Keeps`): each rule that was entered, and each basic rule of the file that the
  user left alone and that was not shown with a resolution the box does not have (`Left`),
  is in the map unchanged or is the rule in the fields, under its own name, so that no rule
  which is put back replaces another one of them. For that a row may differ from its rule
  only by what the user typed (`RenamedByUser`), and an unnamed rule may have no key but ""
  or "**New**" (`WellNamed`). The lemmas about `Committed`, `Shown`, `Changed`, `Removed`
  and `Saved` say what each keeps, `Keys` is shown to be a sequence of the keys there are,
  and there is one lemma for each action. From these follow `Failures` (`FailsOnlyAsKnown`),
  `Untouched` (`UntouchedRulesSurvive`) and `Edits` (`EditsArrive`).
* **RelationEditor** (in `SettingsProofs` too, as the instance `R` with variables of its own
  and its assumption as a hypothesis): `RelationsAreKept` is the invariant, one `PageRight`
  for each page. What was entered is in the list or among the rows that showing them has
  written over (`disturbed`), and so is every relation the page was opened with that the user
  has not `touched`. As long as no text without an id was in the box of titles, no row
  has three parts, the length at which saving fails (`Complete`). `EditRow` and
  `HeardIsEdited` carry the fields, whose every change writes the current row. What is saved
  is exactly the rows of at least three parts (`SavedRows`); as for `Keys` of the rules,
  the recursion is shown to exist by `Reading`. From these follow `Survive`
  (`RelationsSurvive`) and `Entries` (`EntriesArrive`).
* **Session**: `TypeCorrect`; `OneUserMade` from `MutexInv`: whoever is between the lock
  and the pointer holds the lock, and the pointer is set before it is given back;
  `NamesFit`: a custom list is under its own name unless the site changed between
  the profile and the lists, or the profile did not come, from invariants on the `User`, the
  futures, the answers under way and the site.
* **Browser**: `TypeCorrect`; `PageIsOfLastClick`: while the load of the last click runs
  it is the innermost and the page has its cards only (`LastInv`), afterwards they stay
  in front (`ShownInv`), and an overtaken load that still runs for other boxes has no card
  yet (`LateInv`), so that the one it makes is its only one.

Two entries may have one title in all of these (but for the first download in
`DownloadShowsServer`, which says so), any number of objects, downloads, clicks
and starts is allowed, and the loader under the browser may do what it likes.

Every safety property of a passing run is stated by a theorem. Model-checked only are the
liveness properties, which rest on fairness and so on ENABLED, and the violation that
`rule_delete` shows.

## Plan

1. An abstract list of rules that `RuleEditor` implements as long as no rule is
   renamed or deleted; an abstract downloader for `Torrents`.
2. The conditions of the advanced rules one by one, and the notifications without
   download.
3. The ownership of panels and cards, which would make a panel die with its parent.
4. Statistics as operators against reference definitions.

## Not modelled

Painting, layout, the skin, the tray's texts, logging, the crash handler, the updater
(with the restart it causes) and the vendored code. The web view of the authorization is
compiled out (`VER_USEWEBVIEW_BOOL`), and what the pin is exchanged for happens in a
submodule; quitting from the dialog for the pin is left out of `Session`.

The races inside Qt's containers and on single words are below the granularity of these
modules, and so is the order in which another thread sees the pointer to the `User` and
what it points to (`api/user.cpp:18`). A pool thread is assumed for every task: that
`waitForFinished()` may take a queued task over does not occur.

* **Lists**: `loadUser` removes finished futures while it walks over the registry
  (`gui/userhelper.cpp`), which goes wrong with three at a time. A panel opened from an
  airing card dies with the card when the next list arrives (`gui/airinganime.cpp:75`).
  The tabs and the filter only show.
* **Torrents**: the filter of the table, the notifications without download, the counters.
* **Settings**: pages that read and write one value each, the order list, which only moves
  its rows, and the table of all values, which writes a value as it is typed.
* **Browser**: how the URL is put together, its paging (`addPage` is called by nobody),
  the margins, and the removal of an entry while its card waits, of which `AnimeLoader` has
  the load and `UserLists` the card.
* **Statistics** (`gui/statshelper.cpp`): one function without state. Its boundary cases
  are for unit tests: with one score the deviation divides zero by zero, and its sum
  adds differences and not their squares (line 105); the median is read before the scores
  are sorted; the last run of equal scores is never compared with the mode.
