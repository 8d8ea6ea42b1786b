---------------------------- MODULE Recognition ----------------------------
(***************************************************************************)
(* Automatic updates: the window watcher reports the title of the video    *)
(* that is playing (src/lib/windowwatcher.cpp), MainWindow::watch decides  *)
(* which entry and episode it is and starts watch_timer, and               *)
(* MainWindow::updateEpisode writes the progress when the timer fires      *)
(* (src/gui/mainwindow.cpp).  Around it: the edits that change the same    *)
(* entries (animepanel.cpp, userlisthelper.cpp), the refresh that copies   *)
(* the server's list over the local one (user.cpp), and the AniList server *)
(* the requests go to.                                                     *)
(*                                                                         *)
(* AniListAPI is not part of the source tree.  Its get and put return the  *)
(* answer of a network request, so the thread that calls them runs a local *)
(* event loop meanwhile: other events of the main thread may be handled    *)
(* while watch() waits for a search or updateEpisode() for the answer to   *)
(* its PUT, and two requests may be under way together.  A request may be  *)
(* lost, and requests may overtake each other.  The other handlers wait    *)
(* for their PUTs too, but do not use cw_anime after that.                 *)
(*                                                                         *)
(* An entry stands for the Anime objects with its id; which list holds     *)
(* them is left to the user lists.                                         *)
(***************************************************************************)
EXTENDS Integers, Sequences, SequencesExt, FiniteSets

CONSTANTS
    Entry,       \* the entries of the user's list on the server
    Title,       \* the window titles the user may play
    Episode,     \* [Title -> Nat]: the number Anitomy parses, 0 if none
    Names,       \* [Title -> Entry or NoEntry]: whose title or synonym it is
    Found,       \* [Title -> Entry or NoEntry]: what the server's search finds
    Alias,       \* [Title -> Entry or NoEntry]: relations.json, by custom title
    Offset,      \* [Title -> Nat]: the offset of that relation
    Episodes,    \* [Entry -> Nat]: Anime::getEpisodeCount(), 0 if unknown
    Untitled,    \* the entries with an empty title or synonym
    Nameless,    \* those of them whose getTitle(), of one language, is empty
    Start,       \* what the server may have about an entry at first
    Progress,    \* the episode counts a user may enter
    MaxWaits,    \* bound: calls that wait for an answer at the same time
    MaxActs,     \* bound: cancelling, toggling, deleting, editing relations
    MaxEdits,    \* bound: edits of entries by the user
    MaxFetches,  \* bound: downloads of the user's list
    NoTitle, NoEntry

\* The user's part of an entry; "other": on-hold, plan to watch or dropped.
Status == {"watching", "completed", "other"}
Data == [progress : Int, status : Status]

ASSUME RecognitionAssumption ==
    /\ NoTitle \notin Title
    /\ NoEntry \notin Entry
    /\ Episode \in [Title -> Nat]
    /\ Names \in [Title -> Entry \cup {NoEntry}]
    /\ Found \in [Title -> Entry \cup {NoEntry}]
    /\ Alias \in [Title -> Entry \cup {NoEntry}]
    /\ Offset \in [Title -> Nat]
    /\ Episodes \in [Entry -> Nat]
    /\ Untitled \subseteq Entry /\ Nameless \subseteq Untitled
    /\ Start \subseteq Data
    /\ Progress \subseteq Nat
    /\ MaxWaits \in Nat
    /\ MaxActs \in Nat
    /\ MaxEdits \in Nat
    /\ MaxFetches \in Nat

VARIABLES
    playing,            \* the title of the media player's window
    enabled,            \* the watcher's timer runs
    currently_watching, \* MainWindow::currently_watching
    cw_anime,           \* MainWindow::cw_anime; NoEntry: null or deleted
    cw_episode,         \* MainWindow::cw_episode
    watch_timer,        \* watch_timer is active
    waiting,            \* the calls that wait for an answer, innermost last:
                        \* for a watch() the title, for an
                        \* updateEpisode() Updating
    aliases,            \* the titles with a loaded relation (smart_titles)
    update_offset,      \* Anime::update_offset
    anime_list,         \* User::anime_list
    local,              \* progress and status of each Anime
    panel,              \* the AnimePanel that is open
    fetch,              \* the download of the list that is under way
    fetches,            \* how many downloads began
    server,             \* the entries as the server has them
    requests,           \* the PUTs and DELETEs that have not reached the server
    acts, edits,        \* how often the user did what MaxActs, MaxEdits bound
    corrupt,            \* the program used a null or deleted Anime
    \* History variables: they guide no step.
    settled,    \* the update for this showing was written or cancelled
    reentered,  \* watch() was entered while another watch() waited
    removed,    \* an Anime was deleted while cw_anime or a panel pointed to it
    forgotten,  \* watch() searched for a title while updateEpisode() waited
    touched,    \* the progress of cw_anime changed since the timer started
    suspect     \* entries whose local copy may differ from the server's

watchVars == <<currently_watching, cw_anime, cw_episode, watch_timer, waiting>>
listVars  == <<anime_list, local, update_offset>>
fetchVars == <<fetch, fetches>>
ghostVars == <<settled, reentered, removed, forgotten, touched, suspect>>
vars == <<playing, enabled, watchVars, aliases, listVars, panel, fetchVars,
          server, requests, acts, edits, corrupt, ghostVars>>

Deleted == [progress |-> 0, status |-> "deleted"]

(* A PUT names the fields it changes; a DELETE is one that deletes.         *)
Put(a, d, fields) ==
    [entry |-> a, progress |-> d.progress, status |-> d.status,
     fields |-> fields]
Field == {"progress", "status"}
Request == [entry : Entry, progress : Int, status : Status \cup {"deleted"},
            fields : SUBSET Field]

Updating == NoTitle
IsWaiting(call) == call \in Range(waiting)
Searching == \E t \in Title : IsWaiting(t)

NoPanel == [open |-> FALSE, entry |-> NoEntry, shown |-> Deleted]
NoFetch == [todo |-> {}, answer |-> [a \in Entry |-> Deleted], outdated |-> {}]

Init ==
    /\ playing = NoTitle
    /\ enabled = TRUE
    /\ currently_watching = NoTitle
    /\ cw_anime = NoEntry
    /\ cw_episode = 0
    /\ watch_timer = FALSE
    /\ waiting = <<>>
    /\ aliases = {t \in Title : Alias[t] # NoEntry}
    /\ update_offset = [a \in Entry |-> 0]
    /\ anime_list = {}
    /\ local = [a \in Entry |-> Deleted]
    /\ panel = NoPanel
    /\ fetch = NoFetch
    /\ fetches = 0
    /\ server \in [Entry -> Start]
    /\ requests = {}
    /\ acts = 0
    /\ edits = 0
    /\ corrupt = FALSE
    /\ settled = FALSE
    /\ reentered = FALSE
    /\ removed = FALSE
    /\ forgotten = FALSE
    /\ touched = FALSE
    /\ suspect = {}

-----------------------------------------------------------------------------
(* Requests and the server.                                                 *)

\* What a request makes of the entry d on the server.
Answer(r, d) ==
    IF r.status = "deleted" \/ d.status = "deleted" THEN Deleted
    ELSE [progress |-> IF "progress" \in r.fields THEN r.progress
                                                 ELSE d.progress,
          status   |-> IF "status" \in r.fields THEN r.status ELSE d.status]

InFlight == {r.entry : r \in requests}

(* The request r leaves; `differs' when what it asks for is not what the    *)
(* program keeps locally.  The download under way may have been answered    *)
(* before r arrives, and an earlier request may arrive after it.            *)
Send(r, differs) ==
    /\ requests' = requests \cup {r}
    /\ fetch' = IF fetch.todo = {} THEN fetch
                ELSE [fetch EXCEPT !.outdated = @ \cup {r.entry}]
    /\ suspect' = IF differs \/ r.entry \in InFlight
                  THEN suspect \cup {r.entry} ELSE suspect

Deliver(r) ==
    /\ server' = [server EXCEPT ![r.entry] = Answer(r, @)]
    /\ requests' = requests \ {r}
    /\ UNCHANGED <<playing, enabled, watchVars, aliases, listVars, panel,
                   fetchVars, acts, edits, corrupt, ghostVars>>

(* Nobody looks at the answer but the notification of updateEpisode; a      *)
(* request that fails is not repeated.                                      *)
Lose(r) ==
    /\ requests' = requests \ {r}
    /\ suspect' = suspect \cup {r.entry}
    /\ UNCHANGED <<playing, enabled, watchVars, aliases, listVars, panel,
                   fetchVars, server, acts, edits, corrupt, settled, reentered,
                   removed, forgotten, touched>>

-----------------------------------------------------------------------------
(* The download: User::loadUserList the first time, fetchUpdatedList after  *)
(* that.  A worker thread copies one entry after the other from the answer. *)
(* Neither removes an entry that the answer does not contain.               *)

FetchAnswered ==
    /\ fetch.todo = {}
    /\ fetches < MaxFetches
    /\ fetches' = fetches + 1
    /\ fetch' = [todo |-> {a \in Entry : server[a].status # "deleted"},
                 answer |-> server, outdated |-> InFlight]
    /\ UNCHANGED <<playing, enabled, watchVars, aliases, listVars, panel,
                   server, requests, acts, edits, corrupt, ghostVars>>

\* Slip: the progress is read from a field the answer does not have.
CopyEntryLosesProgress(a) ==
    /\ a \in fetch.todo
    /\ local' = [local EXCEPT ![a] = [fetch.answer[a] EXCEPT !.progress = 0]]
    /\ anime_list' = anime_list \cup {a}
    /\ fetch' = IF fetch.todo = {a} THEN NoFetch
                ELSE [fetch EXCEPT !.todo = @ \ {a}]
    /\ suspect' = IF a \in fetch.outdated THEN suspect \cup {a}
                  ELSE suspect \ {a}
    /\ touched' = (touched \/ a = cw_anime)
    /\ UNCHANGED <<playing, enabled, watchVars, aliases, panel, fetches,
                   server, requests, acts, edits, corrupt, settled, reentered,
                   removed, forgotten, update_offset>>

CopyEntry(a) ==
    /\ a \in fetch.todo
    /\ local' = [local EXCEPT ![a] = fetch.answer[a]]
    /\ anime_list' = anime_list \cup {a}
    /\ update_offset' = IF a \in anime_list THEN update_offset
                        ELSE [update_offset EXCEPT ![a] = 0]
    /\ fetch' = IF fetch.todo = {a} THEN NoFetch
                ELSE [fetch EXCEPT !.todo = @ \ {a}]
    /\ suspect' = IF a \in fetch.outdated THEN suspect \cup {a}
                  ELSE suspect \ {a}
    /\ touched' = (touched \/ a = cw_anime)
    /\ UNCHANGED <<playing, enabled, watchVars, aliases, panel, fetches,
                   server, requests, acts, edits, corrupt, settled, reentered,
                   removed, forgotten>>

-----------------------------------------------------------------------------
(* MainWindow::watch.                                                       *)

\* The titles Anitomy finds an anime and an episode in.
Watchable == {t \in Title : Episode[t] > 0}

\* The user plays another video, or none.
Play(t) ==
    /\ t # playing
    /\ playing' = t
    /\ UNCHANGED <<enabled, watchVars, aliases, listVars, panel, fetchVars,
                   server, requests, acts, edits, corrupt, ghostVars>>

(* User::resolveSmartTitle and User::getAnimeByTitle: a loaded relation     *)
(* comes first, and sets the offset of the entry it leads to.               *)
ByAlias(t) == t \in aliases /\ Alias[t] \in anime_list
Known(t) ==
    IF ByAlias(t) THEN Alias[t]
    ELSE IF Names[t] \in anime_list THEN Names[t] ELSE NoEntry
OffsetFor(t) == IF ByAlias(t) THEN Offset[t] ELSE update_offset[Known(t)]

\* Slip: the same episode once more counts as news.
DecideAgain(a, episode, started) ==
    /\ cw_anime' = a
    /\ cw_episode' = episode
    /\ IF local[a].progress > episode
       THEN watch_timer' = started /\ touched' = touched
       ELSE watch_timer' = TRUE /\ touched' = FALSE

\* Slip: the comparison is the wrong way round.
DecideInverted(a, episode, started) ==
    /\ cw_anime' = a
    /\ cw_episode' = episode
    /\ IF local[a].progress < episode
       THEN watch_timer' = started /\ touched' = touched
       ELSE watch_timer' = TRUE /\ touched' = FALSE

(* The end of watch(): the offset is taken off the number in cw_episode,    *)
(* and the timer starts when that is news.                                  *)
Decide(a, episode, started) ==
    /\ cw_anime' = a
    /\ cw_episode' = episode
    /\ IF local[a].progress >= episode
       THEN watch_timer' = started /\ touched' = touched
       ELSE watch_timer' = TRUE /\ touched' = FALSE

(* WindowWatcher::timeOut emits title_found; watch() ignores a title it saw *)
(* the time before.                                                         *)
NewTitle ==
    /\ enabled
    /\ playing # currently_watching
    /\ currently_watching' = playing
    /\ settled' = FALSE
    /\ reentered' = Searching
    /\ UNCHANGED <<playing, enabled, aliases, anime_list, local, panel,
                   fetchVars, server, requests, acts, edits, corrupt, removed,
                   suspect>>

\* Slip: the timer is stopped only after the name was found to be of use.
WatchNothingGoesOn ==
    /\ NewTitle
    /\ playing \notin Watchable
    /\ cw_episode' = 0
    /\ UNCHANGED <<watch_timer, cw_anime, waiting, update_offset, forgotten,
                   touched>>

\* No video, or no title or episode number in its name.
WatchNothing ==
    /\ NewTitle
    /\ playing \notin Watchable
    /\ watch_timer' = FALSE
    /\ cw_episode' = 0
    /\ UNCHANGED <<cw_anime, waiting, update_offset, forgotten, touched>>

\* The title of the entry is looked at, not the one that led to it.
WatchKnown ==
    /\ NewTitle
    /\ playing \in Watchable
    /\ Known(playing) \notin {NoEntry} \cup Nameless
    /\ update_offset' =
          [update_offset EXCEPT ![Known(playing)] = OffsetFor(playing)]
    /\ Decide(Known(playing), Episode[playing] - OffsetFor(playing), FALSE)
    /\ UNCHANGED <<waiting, forgotten>>

\* Slip: the timer is stopped only where a new one may be started.
WatchUnknownGoesOn ==
    /\ NewTitle
    /\ playing \in Watchable
    /\ Known(playing) \in {NoEntry} \cup Nameless
    /\ Len(waiting) < MaxWaits
    /\ cw_anime' = Known(playing)
    /\ cw_episode' = Episode[playing]
    /\ waiting' = Append(waiting, playing)
    /\ forgotten' = (forgotten \/ IsWaiting(Updating))
    /\ UNCHANGED <<watch_timer, update_offset, touched>>

\* The title is not on the list, or its entry has none: watch() asks the
\* server and waits.
WatchUnknown ==
    /\ NewTitle
    /\ playing \in Watchable
    /\ Known(playing) \in {NoEntry} \cup Nameless
    /\ Len(waiting) < MaxWaits
    /\ watch_timer' = FALSE
    /\ cw_anime' = Known(playing)
    /\ update_offset' =
          IF Known(playing) = NoEntry THEN update_offset
          ELSE [update_offset EXCEPT ![Known(playing)] = OffsetFor(playing)]
    /\ cw_episode' = Episode[playing]
    /\ waiting' = Append(waiting, playing)
    /\ forgotten' = (forgotten \/ IsWaiting(Updating))
    /\ UNCHANGED touched

\* The entries an answer leads to: without one the title searched is "".
SearchResults(t) ==
    LET empty == IF Untitled \cap anime_list = {} THEN {NoEntry}
                 ELSE Untitled \cap anime_list
    IN  empty \cup (IF Found[t] = NoEntry THEN {}
                    ELSE {Found[t]} \cap anime_list)
              \cup (IF Found[t] \in Entry \ anime_list THEN {NoEntry} ELSE {})

(* The innermost call waits for a search, and that returns.  watch() works  *)
(* on with the members cw_episode and cw_anime, whoever wrote them          *)
(* meanwhile.                                                               *)
SearchReturns ==
    /\ waiting # <<>> /\ Last(waiting) # Updating
    /\ waiting' = Front(waiting)
    /\ \E a \in SearchResults(Last(waiting)) :
          IF a = NoEntry
          THEN cw_anime' = NoEntry /\ UNCHANGED <<cw_episode, watch_timer, touched>>
          ELSE Decide(a, cw_episode - update_offset[a], watch_timer)
    /\ UNCHANGED <<playing, enabled, currently_watching, aliases, listVars,
                   panel, fetchVars, server, requests, acts, edits, corrupt,
                   settled, reentered, removed, forgotten, suspect>>

-----------------------------------------------------------------------------
(* MainWindow::updateEpisode.                                               *)

\* watch_timer, a single shot, fires: the entry is changed, the lists are
\* shown again, and the server is told.
UpdateEpisode ==
    /\ watch_timer
    /\ Len(waiting) < MaxWaits
    /\ watch_timer' = FALSE
    /\ settled' = TRUE
    /\ IF cw_anime = NoEntry
       THEN /\ corrupt' = TRUE
            /\ UNCHANGED <<waiting, local, requests, fetch, suspect>>
       ELSE LET done == cw_episode = Episodes[cw_anime] /\ Episodes[cw_anime] # 0
                now  == [progress |-> cw_episode,
                         status |-> IF done THEN "completed"
                                    ELSE local[cw_anime].status]
                sent == IF done THEN "completed" ELSE "watching"
            IN  /\ local' = [local EXCEPT ![cw_anime] = now]
                /\ Send(Put(cw_anime, [now EXCEPT !.status = sent], Field),
                        sent # now.status)
                /\ waiting' = Append(waiting, Updating)
                /\ UNCHANGED corrupt
    /\ UNCHANGED <<playing, enabled, currently_watching, cw_anime, cw_episode,
                   aliases, anime_list, update_offset, panel,
                   fetches, server, acts, edits, reentered, removed, forgotten, touched>>

(* The answer comes, or none: the notification, which can be switched off,  *)
(* has the title of what cw_anime is now.                                   *)
UpdateReturns ==
    /\ waiting # <<>> /\ Last(waiting) = Updating
    /\ waiting' = Front(waiting)
    /\ corrupt' \in (IF cw_anime = NoEntry THEN BOOLEAN ELSE {FALSE})
    /\ UNCHANGED <<playing, enabled, currently_watching, cw_anime, cw_episode,
                   watch_timer, aliases, listVars, panel, fetchVars, server,
                   requests, acts, edits, ghostVars>>

-----------------------------------------------------------------------------
(* What the user does.                                                      *)

UserActs == acts < MaxActs /\ acts' = acts + 1 /\ UNCHANGED edits
UserEdits == edits < MaxEdits /\ edits' = edits + 1 /\ UNCHANGED acts

\* The tray's "Cancel Update".
CancelUpdate ==
    /\ UserActs
    /\ watch_timer
    /\ watch_timer' = FALSE
    /\ settled' = TRUE
    /\ UNCHANGED <<playing, enabled, currently_watching, cw_anime, cw_episode,
                   waiting, aliases, listVars, panel, fetchVars, server,
                   requests, corrupt, reentered, removed, forgotten, touched, suspect>>

\* toggleAnimeRecognition: the watcher's timer only, not watch_timer.
ToggleRecognition ==
    /\ UserActs
    /\ enabled' = ~enabled
    /\ UNCHANGED <<playing, watchVars, aliases, listVars, panel, fetchVars,
                   server, requests, corrupt, ghostVars>>

(* reloadSmartTitles after the settings dialog wrote relations.json.  The   *)
(* offsets that relations set before stay where they are.                   *)
ReloadSmartTitles(s) ==
    /\ UserActs
    /\ aliases' = s
    /\ UNCHANGED <<playing, enabled, watchVars, listVars, panel, fetchVars,
                   server, requests, corrupt, ghostVars>>

\* Slip: the request is put together before the entry is changed.
EditSendsOld(a, d, f) ==
    /\ local' = [local EXCEPT ![a] = d]
    /\ touched' = (touched \/ (a = cw_anime /\ "progress" \in f))
    /\ Send(Put(a, local[a], f), FALSE)

\* The entry a gets the data d, and the server is told the fields f.
Edit(a, d, f) ==
    /\ local' = [local EXCEPT ![a] = d]
    /\ touched' = (touched \/ (a = cw_anime /\ "progress" \in f))
    /\ Send(Put(a, d, f), FALSE)

\* The context menu's episode increment; there is no upper bound.
Increment(a) ==
    /\ UserEdits
    /\ a \in anime_list
    /\ Edit(a, [local[a] EXCEPT !.progress = @ + 1], {"progress"})
    /\ UNCHANGED <<playing, enabled, watchVars, aliases, anime_list,
                   update_offset, panel, fetches, server, corrupt, settled,
                   reentered, removed, forgotten>>

\* updateStatus of the context menu.
UpdateStatus(a, s) ==
    /\ UserEdits
    /\ a \in anime_list
    /\ Edit(a, [local[a] EXCEPT !.status = s], {"status"})
    /\ UNCHANGED <<playing, enabled, watchVars, aliases, anime_list,
                   update_offset, panel, fetches, server, corrupt, settled,
                   reentered, removed, forgotten>>

\* What the spin box for the episodes can show: 0 up to the episode count.
InRange(a, n) ==
    IF n < 0 THEN 0
    ELSE IF Episodes[a] # 0 /\ n > Episodes[a] THEN Episodes[a] ELSE n

(* AnimePanel: the widgets are filled when the panel opens, and it stays    *)
(* open while everything else goes on.  One panel at a time is modelled.    *)
OpenPanel(a) ==
    /\ ~panel.open
    /\ a \in anime_list
    /\ panel' = [open |-> TRUE, entry |-> a,
                shown |-> [local[a] EXCEPT !.progress = InRange(a, @)]]
    /\ UserEdits
    /\ UNCHANGED <<playing, enabled, watchVars, aliases, listVars, fetchVars,
                   server, requests, corrupt, ghostVars>>

(* AnimePanel::accept: every field whose widget differs from the entry is   *)
(* written, whether the user or somebody else changed it.                   *)
Accept(d) ==
    /\ panel.open
    /\ panel' = NoPanel
    /\ IF panel.entry = NoEntry
       THEN corrupt' = TRUE /\ UNCHANGED <<local, requests, fetch, touched, suspect>>
       ELSE LET a == panel.entry
                f == {g \in Field : d[g] # local[a][g]}
            IN  /\ IF f = {} THEN UNCHANGED <<local, requests, fetch, touched, suspect>>
                   ELSE Edit(a, d, f)
                /\ UNCHANGED corrupt
    /\ UNCHANGED <<playing, enabled, watchVars, aliases, anime_list,
                   update_offset, fetches, server, acts, edits, settled, reentered,
                   removed, forgotten>>

\* The widgets as they were, or one of them changed by the user.
Entered ==
    {[panel.shown EXCEPT !.status = x] : x \in Status} \cup
    {[panel.shown EXCEPT !.progress = n] :
        n \in {m \in Progress : panel.entry \in Entry => m = InRange(panel.entry, m)}}

\* The context menu's "Delete Entry": DELETE, then User::remove.
DeleteEntry(a) ==
    /\ UserActs
    /\ a \in anime_list
    /\ anime_list' = anime_list \ {a}
    /\ local' = [local EXCEPT ![a] = Deleted]
    /\ Send(Put(a, Deleted, {}), FALSE)
    /\ cw_anime' = IF a = cw_anime THEN NoEntry ELSE cw_anime
    /\ panel' = IF a = panel.entry THEN [panel EXCEPT !.entry = NoEntry]
                ELSE panel
    /\ removed' = (removed \/ a = panel.entry
                  \/ (a = cw_anime /\ (watch_timer \/ IsWaiting(Updating))))
    /\ UNCHANGED <<playing, enabled, currently_watching, cw_episode,
                   watch_timer, waiting, aliases, update_offset, fetches,
                   server, corrupt, settled, reentered, forgotten, touched>>

-----------------------------------------------------------------------------
Sound == ~corrupt

Server == Sound /\ \E r \in requests : Deliver(r) \/ Lose(r)
Worker == Sound /\ (FetchAnswered \/ \E a \in Entry : CopyEntry(a))
Watch  == Sound /\ (WatchNothing \/ WatchKnown \/ WatchUnknown)
User   == /\ Sound
          /\ \/ \E t \in Title \cup {NoTitle} : Play(t)
             \/ CancelUpdate
             \/ ToggleRecognition
             \/ \E s \in SUBSET {t \in Title : Alias[t] # NoEntry} : ReloadSmartTitles(s)
             \/ \E a \in Entry : Increment(a) \/ OpenPanel(a) \/ DeleteEntry(a)
             \/ \E a \in Entry, s \in Status : UpdateStatus(a, s)
             \/ \E d \in Entered : Accept(d)

Next ==
    \/ Server
    \/ Worker
    \/ Watch
    \/ Sound /\ SearchReturns
    \/ Sound /\ UpdateEpisode
    \/ Sound /\ UpdateReturns
    \/ User

Spec == Init /\ [][Next]_vars

(* The watcher's timer keeps firing, the watch_timer fires when its time is *)
(* up, a request that is waited for is answered or fails, and the list is   *)
(* downloaded at least once.                                                *)
Fairness ==
    /\ WF_vars(Watch)
    /\ WF_vars(Sound /\ SearchReturns)
    /\ WF_vars(Sound /\ UpdateEpisode)
    /\ WF_vars(Sound /\ UpdateReturns)
    /\ WF_vars(Sound /\ fetches = 0 /\ FetchAnswered)
    /\ \A a \in Entry : WF_vars(Sound /\ CopyEntry(a))

FairSpec == Spec /\ Fairness

-----------------------------------------------------------------------------
(* Properties.                                                              *)

(* Every variable keeps its type, and a deleted entry has no local data.    *)
TypeOK ==
    /\ playing \in Title \cup {NoTitle}
    /\ enabled \in BOOLEAN
    /\ currently_watching \in Title \cup {NoTitle}
    /\ cw_anime \in anime_list \cup {NoEntry}
    /\ cw_episode \in Int
    /\ watch_timer \in BOOLEAN
    /\ waiting \in Seq(Title \cup {Updating})
    /\ aliases \in SUBSET Title
    /\ update_offset \in [Entry -> Nat]
    /\ anime_list \in SUBSET Entry
    /\ local \in [Entry -> Data \cup {Deleted}]
    /\ \A a \in anime_list : local[a] \in Data
    /\ panel \in [open : BOOLEAN, entry : anime_list \cup {NoEntry},
                  shown : Data \cup {Deleted}]
    /\ panel.open => panel.shown \in Data
    /\ fetch \in [todo : SUBSET Entry, answer : [Entry -> Data \cup {Deleted}],
                  outdated : SUBSET Entry]
    /\ \A a \in fetch.todo : fetch.answer[a] \in Data
    /\ fetches \in 0..MaxFetches
    /\ server \in [Entry -> Data \cup {Deleted}]
    /\ requests \in SUBSET Request
    /\ acts \in 0..MaxActs
    /\ edits \in 0..MaxEdits
    /\ corrupt \in BOOLEAN
    /\ settled \in BOOLEAN
    /\ reentered \in BOOLEAN
    /\ removed \in BOOLEAN
    /\ forgotten \in BOOLEAN
    /\ touched \in BOOLEAN
    /\ suspect \in SUBSET Entry

(* A pending update is for the title that plays or played last: for the     *)
(* entry its relation, its name or the search leads to (or, after an empty  *)
(* search, one without a title), for no later episode than the title says,  *)
(* and it is the first one for this showing: a title whose update was       *)
(* written or cancelled is not counted again.  Only a watch() entered while *)
(* another one waits for its search mixes two titles up.                    *)
PendingUpdateIsWhatPlays ==
    watch_timer /\ ~reentered =>
        /\ currently_watching # NoTitle
        /\ cw_anime \in {Alias[currently_watching], Names[currently_watching],
                         Found[currently_watching], NoEntry} \cup Untitled
        /\ cw_episode <= Episode[currently_watching]
        /\ ~settled

(* The timer never writes a progress that is not a step forward, unless the *)
(* progress changed while it ran (updateEpisode does not look again) or two *)
(* watch() calls were mixed up.                                             *)
PendingUpdateRaises ==
    watch_timer /\ ~reentered /\ ~touched /\ cw_anime # NoEntry =>
        local[cw_anime].progress < cw_episode

(* A null or deleted Anime is used only after an entry was deleted while a  *)
(* running timer, an update that waits for its answer or an open panel      *)
(* needed it, after watch() searched for a title while an update waited, or *)
(* after two watch() calls were mixed up.                                   *)
CorruptHasACause == corrupt => removed \/ forgotten \/ reentered

(* The program and the server agree about an entry when no request for it   *)
(* is under way, unless one was lost, overtaken or crossed a download, or   *)
(* an automatic update told the server a status the program did not take    *)
(* over itself.  One download that nothing crosses repairs all of these.    *)
ListAgreesWithServer ==
    \A a \in anime_list \ suspect :
        a \notin InFlight => local[a] = server[a]

(* A download changes nothing in an entry that was in agreement with the    *)
(* server when it was asked for and that nobody changed since: it never     *)
(* takes back an edit, except one that crossed it.                          *)
DownloadOnlyRepairs ==
    [][\A a \in anime_list \cap fetch.todo :
          a \notin fetch'.todo /\ local'[a] # local[a]
              => a \in suspect \cup fetch.outdated]_vars

(* A title that leads to an entry with a title of its own when it begins to *)
(* play is counted in the end, if it keeps playing and nobody cancels the   *)
(* update or edits the relations or deletes the entry.                      *)
KnownTitleIsCounted ==
    \A t \in Title, s \in SUBSET Title :
        (/\ playing = t
         /\ currently_watching # t
         /\ enabled
         /\ t \in Watchable
         /\ aliases = s
         /\ Known(t) \notin {NoEntry} \cup Nameless)
        ~> (\/ Known(t) # NoEntry /\ local[Known(t)].progress >= Episode[t] - OffsetFor(t)
            \/ settled
            \/ playing # t
            \/ ~enabled
            \/ aliases # s
            \/ Known(t) = NoEntry
            \/ corrupt)

=============================================================================
