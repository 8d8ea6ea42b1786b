----------------------------- MODULE UserLists -----------------------------
(***************************************************************************)
(* The user's lists: User::user_lists, the pointers to Anime objects the   *)
(* tabs show, and User::anime_list, the objects every lookup goes through  *)
(* (src/api/user.cpp).  They are written by the first download and by      *)
(* refreshes, which run in pool threads, and by the main thread for what   *)
(* the user does in the context menu, in panels, on cards of the browser   *)
(* and by watching (src/gui/userlisthelper.cpp, mainwindow.cpp,            *)
(* searchpanel.cpp, browseanime.cpp).  The server's lists change by these  *)
(* requests, which may be lost, and on the web site.                       *)
(*                                                                         *)
(* put and deleteResource belong to AniListAPI, which is not part of the   *)
(* source tree; they return the server's answer, so the main thread runs a *)
(* local event loop in them and may handle other events before it goes on. *)
(***************************************************************************)
EXTENDS Integers, Sequences, FiniteSets

CONSTANTS
    Id,           \* the entries
    Status,       \* the list statuses; each is also the name of its list
    Custom,       \* the names of the user's custom lists
    Title,        \* [Id -> anything]: what Anime::getTitle() gives
    Watching,     \* the status an automatic update tells the server, or,
    Completed,    \* after the last episode, this one
    Start,        \* what the server may have of an entry at first
    MaxObjects,   \* bound: Anime objects made
    MaxRefreshes, \* bound: refreshes after the first download
    MaxChanges,   \* bound: operations of the user
    MaxWaiting,   \* bound: handlers that wait for an answer at the same time
    NoList, NoStatus

List == Status \cup Custom
Absent == [status |-> NoStatus, lists |-> {}]
Entries == {Absent} \cup [status : Status, lists : SUBSET List]
Object == 1..MaxObjects
Task == 1..MaxRefreshes + 1   \* 1: loadUserList, the others fetchUpdatedList

ASSUME UserListsAssumption ==
    /\ Custom \cap Status = {}
    /\ NoList \notin List
    /\ NoStatus \notin Status
    /\ Watching \in Status /\ Completed \in Status
    /\ Start \subseteq Entries
    /\ MaxObjects \in Nat /\ MaxRefreshes \in Nat
    /\ MaxChanges \in Nat /\ MaxWaiting \in Nat

\* The site keeps an entry in the list of its status, or hides it from there.
ASSUME StartAssumption == \A e \in Start : e.lists \cap Status \subseteq {e.status}

VARIABLES
    objects,    \* the Anime objects made so far, in this order
    dead,       \* those that were deleted
    anime_list, \* User::anime_list
    user_lists, \* User::user_lists; 0: the list does not contain the entry
    rows,       \* the entries in the tables userListLoaded built last
    cards,      \* the objects of the cards the season browser shows
    panels,     \* the open AnimePanels
    waiting,    \* the handlers that wait for an answer, innermost last
    cw_anime,   \* MainWindow::cw_anime; 0: null
    watch_timer, \* watch_timer is active
    updates,    \* how many calls of updateEpisode wait for an answer
    actionRL,   \* a refresh may be started
    tasks,      \* the downloads
    server,     \* the lists as the server has them
    changes,    \* how much of MaxChanges is used
    corrupt,    \* a deleted or null Anime was used
    \* History variables: they guide no step.
    moved,      \* entries that changed lists, appeared on several lists, or
                \* gave their place on one to another of the same title, in
                \* a way that a refresh does not match
    crossed,    \* an Anime was deleted while a download ran, or by one
    overlapped, \* two downloads ran at the same time
    orphaned,   \* an Anime was deleted that a panel, card, handler or update
                \* holds
    unwatched   \* watch() set cw_anime to null while the timer ran or an
                \* update waited

heapVars == <<objects, dead>>
listVars == <<anime_list, user_lists>>
viewVars == <<rows, actionRL, corrupt>>
watchVars == <<cw_anime, watch_timer, updates>>
ghostVars == <<moved, crossed, orphaned, overlapped, unwatched>>
vars == <<heapVars, listVars, viewVars, watchVars, cards, panels, waiting, tasks,
          server, changes, ghostVars>>

Empty == [i \in Id |-> 0]
NoTask == [state |-> "none", answer |-> [i \in Id |-> Absent], todo |-> {},
           list |-> NoList, copy |-> Empty, ids |-> {},
           custom |-> [c \in Custom |-> Empty], alone |-> TRUE]

\* userLoaded has just started the first download.
Init ==
    /\ objects = <<>>
    /\ dead = {}
    /\ anime_list = {}
    /\ user_lists = [l \in List |-> Empty]
    /\ rows = {}
    /\ cards = {}
    /\ panels = {}
    /\ waiting = <<>>
    /\ cw_anime = 0
    /\ watch_timer = FALSE
    /\ updates = 0
    /\ actionRL = FALSE
    /\ tasks = [k \in Task |-> IF k = 1 THEN [NoTask EXCEPT !.state = "asking"]
                               ELSE NoTask]
    /\ server \in [Id -> Start]
    /\ changes = 0
    /\ corrupt = FALSE
    /\ moved = {}
    /\ crossed = FALSE
    /\ overlapped = FALSE
    /\ orphaned = FALSE
    /\ unwatched = FALSE

-----------------------------------------------------------------------------
IdOf(o) == objects[o].id
StatusOf(o) == objects[o].status
Live == anime_list \ dead

\* A new Anime; `made' is the name it gets.
made == Len(objects) + 1
New(i, s) ==
    /\ made \in Object
    /\ objects' = Append(objects, [id |-> i, status |-> s])

\* The server gets to know that the entry i is e now, or the request is lost.
Tell(i, e) == server' \in {server, [server EXCEPT ![i] = e]}
WithStatus(e, s) ==
    IF e = Absent THEN Absent
    ELSE [status |-> s,
          lists |-> IF e.status \in e.lists THEN (e.lists \ {e.status}) \cup {s}
                    ELSE e.lists]

Running(k) == tasks[k].state \in {"asking", "copying"}
SomeRunning == \E k \in Task : Running(k)
\* Somebody other than the download k changes the lists.
Disturbed(k) ==
    [j \in Task |-> IF j # k /\ tasks[j].state \in {"copying", "done"}
                    THEN [tasks[j] EXCEPT !.alone = FALSE] ELSE tasks[j]]
Disturb == tasks' = Disturbed(0)

(* MainWindow::userListLoaded reads every Anime of every list, builds the   *)
(* tables and lets the user refresh again.                                  *)
userListLoaded(lists, deleted) ==
    /\ rows' = {i \in Id : \E l \in List : lists[l][i] # 0}
    /\ actionRL' = TRUE
    /\ corrupt' = \E l \in List, i \in Id : lists[l][i] \in deleted

\* Slip: the name of the list is not brought into the form of the keys.
removeFromListByStatus(l, i) == user_lists

removeFromList(l, i) == [user_lists EXCEPT ![l][i] = 0]
addToList(lists, l, o) ==
    IF lists[l][IdOf(o)] = 0 THEN [lists EXCEPT ![l][IdOf(o)] = o] ELSE lists

-----------------------------------------------------------------------------
(* The downloads: User::loadUserList and User::fetchUpdatedList.            *)

\* The answer arrives; loadUserList deletes what it finds in anime_list.
Answered(k) ==
    /\ tasks[k].state = "asking"
    /\ tasks' = [Disturbed(k) EXCEPT
           ![k].state = "copying",
           ![k].answer = server,
           ![k].todo = UNION {server[i].lists : i \in Id},
           ![k].alone = \A j \in Task \ {k} : ~Running(j)]
    /\ dead' = IF k = 1 THEN dead \cup anime_list ELSE dead
    /\ anime_list' = IF k = 1 THEN {} ELSE anime_list
    /\ crossed' = (crossed \/ (k = 1 /\ anime_list # {}))
    /\ overlapped' = (overlapped \/ \E j \in Task \ {k} : Running(j))
    /\ moved' = moved \cup {IdOf(waiting[n].obj) : n \in DOMAIN waiting}
                     \cup {i \in Id : k # 1 /\ (\E l, m \in server[i].lists : l # m)
                                   /\ \A o \in Live : IdOf(o) # i}
    /\ UNCHANGED <<objects, user_lists, viewVars, watchVars, cards, panels,
                   waiting, server, changes, orphaned, unwatched>>

\* The next list of the answer; the custom lists come last.
BeginList(k, l) ==
    /\ tasks[k].state = "copying"
    /\ tasks[k].list = NoList
    /\ l \in tasks[k].todo
    /\ l \in Custom => tasks[k].todo \subseteq Custom
    /\ tasks' = [tasks EXCEPT
           ![k].list = l,
           ![k].copy = IF k = 1 THEN Empty ELSE user_lists[l],
           ![k].ids = {i \in Id : l \in tasks[k].answer[i].lists}]
    /\ UNCHANGED <<heapVars, listVars, viewVars, watchVars, cards, panels,
                   waiting, server, changes, ghostVars>>

\* The entry i of the list gets the object o.
Copied(k, i, key, o) ==
    tasks' = [Disturbed(k) EXCEPT ![k].copy[key] = o,
                                  ![k].ids = @ \ {i}]

\* Slip: what the server says is not copied into an object that exists.
UpdateEntryKeepsStatus(k, i) ==
    LET t == tasks[k]
        o == t.copy[i]
    IN  /\ k # 1
        /\ IF o # 0
           THEN /\ corrupt' = (o \in dead)
                /\ Copied(k, i, i, o)
                /\ UNCHANGED <<objects, anime_list>>
           ELSE /\ New(i, t.answer[i].status)
                /\ Copied(k, i, i, made)
                /\ anime_list' = anime_list \cup {made}
                /\ UNCHANGED corrupt
        /\ UNCHANGED <<dead, crossed, moved>>

\* Slip: every refresh makes new objects.
UpdateEntryAnew(k, i) ==
    /\ k # 1
    /\ New(i, tasks[k].answer[i].status)
    /\ Copied(k, i, i, made)
    /\ anime_list' = anime_list \cup {made}
    /\ UNCHANGED <<dead, corrupt, crossed, moved>>

\* fetchUpdatedList goes on with the object the list had, or makes one.
UpdateEntry(k, i) ==
    LET t == tasks[k]
        o == t.copy[i]
    IN  /\ k # 1
        /\ IF o # 0
           THEN /\ objects' = [objects EXCEPT ![o].status = t.answer[i].status]
                /\ corrupt' = (o \in dead)
                /\ Copied(k, i, i, o)
                /\ anime_list' = anime_list \cup {o}
           ELSE /\ New(i, t.answer[i].status)
                /\ Copied(k, i, i, made)
                /\ anime_list' = anime_list \cup {made}
                /\ UNCHANGED corrupt
        /\ UNCHANGED <<dead, crossed, moved>>

\* loadUserList makes an object for every entry of a list of a status ...
LoadEntry(k, i) ==
    /\ k = 1
    /\ tasks[k].list \in Status
    /\ New(i, tasks[k].answer[i].status)
    /\ Copied(k, i, i, made)
    /\ anime_list' = anime_list \cup {made}
    /\ UNCHANGED <<dead, corrupt, crossed, moved>>

(* ... and, for a custom list, goes through anime_list for objects with the *)
(* title of the entry.  It takes the one it meets last, and deletes the one *)
(* it had before at every match: first the object made for the entry, then  *)
(* the matches.                                                             *)
LoadCustomEntry(k, i) ==
    LET t == tasks[k]
        same == {o \in anime_list : Title[IdOf(o)] = Title[i]}
        listed == user_lists[t.answer[i].status][i]
    IN  /\ k = 1
        /\ t.list \in Custom
        /\ corrupt' = (anime_list \cap dead # {} \/ (same = {} /\ listed \in dead))
        /\ \/ \E o \in same :
                 /\ Copied(k, i, IdOf(o), o)
                 /\ dead' = dead \cup (same \ {o})
                 /\ crossed' = (crossed \/ same # {o})
                 /\ moved' = IF IdOf(o) = i THEN moved ELSE moved \cup {i}
                 /\ UNCHANGED <<objects, anime_list>>
           \/ /\ same = {} /\ listed # 0
              /\ Copied(k, i, IdOf(listed), listed)
              /\ UNCHANGED <<objects, dead, anime_list, crossed, moved>>
           \/ /\ same = {} /\ listed = 0
              /\ New(i, t.answer[i].status)
              /\ Copied(k, i, i, made)
              /\ anime_list' = anime_list \cup {made}
              /\ UNCHANGED <<dead, crossed, moved>>

CopyEntry(k, i) ==
    /\ tasks[k].state = "copying"
    /\ i \in tasks[k].ids
    /\ UpdateEntry(k, i) \/ LoadEntry(k, i) \/ LoadCustomEntry(k, i)
    /\ UNCHANGED <<user_lists, rows, actionRL, watchVars, cards, panels,
                   waiting, server, changes, orphaned, overlapped, unwatched>>

\* The list is written back; a custom list is kept for the end.
EndList(k) ==
    LET t == tasks[k]
        done == [t EXCEPT !.list = NoList, !.copy = Empty,
                          !.todo = @ \ {t.list}]
    IN  /\ t.list # NoList
        /\ t.ids = {}
        /\ IF t.list \in Custom
           THEN /\ tasks' = [tasks EXCEPT
                       ![k] = [done EXCEPT !.custom[t.list] = t.copy]]
                /\ UNCHANGED user_lists
           ELSE /\ tasks' = [Disturbed(k) EXCEPT ![k] = done]
                /\ user_lists' = [user_lists EXCEPT ![t.list] = t.copy]
        /\ UNCHANGED <<heapVars, anime_list, viewVars, watchVars, cards,
                       panels, waiting, server, changes, ghostVars>>

\* All custom lists are replaced, those without entries in the answer too.
EndDownload(k) ==
    /\ tasks[k].state = "copying"
    /\ tasks[k].todo = {}
    /\ user_lists' = [l \in List |-> IF l \in Custom THEN tasks[k].custom[l]
                                     ELSE user_lists[l]]
    /\ tasks' = [Disturbed(k) EXCEPT ![k].state = "done",
                                     ![k].custom = NoTask.custom]
    /\ UNCHANGED <<heapVars, anime_list, viewVars, watchVars, cards, panels,
                   waiting, server, changes, ghostVars>>

(* The main thread learns that a download ended: the first one and the      *)
(* latest refresh, since setFuture forgets the one before.                  *)
Finished(k) ==
    /\ tasks[k].state = "done"
    /\ k = 1 \/ \A j \in Task : j > k => tasks[j].state = "none"
    /\ tasks' = [tasks EXCEPT ![k] = [NoTask EXCEPT !.state = "finished"]]
    /\ userListLoaded(user_lists, dead)
    /\ UNCHANGED <<heapVars, listVars, watchVars, cards, panels, waiting,
                   server, changes, ghostVars>>

\* loadUser, by the user or the timer.
StartRefresh(k) ==
    /\ actionRL
    /\ actionRL' = FALSE
    /\ k # 1
    /\ tasks[k].state = "none"
    /\ \A j \in 1..k - 1 : tasks[j].state # "none"
    /\ tasks' = [tasks EXCEPT ![k].state = "asking"]
    /\ UNCHANGED <<heapVars, listVars, rows, corrupt, watchVars, cards, panels,
                   waiting, server, changes, ghostVars>>

-----------------------------------------------------------------------------
(* The main thread.                                                         *)

Change == changes < MaxChanges /\ changes' = changes + 1

\* A handler goes on only after those that began while it waited.
Wait(op, o, old, mover) ==
    /\ Len(waiting) < MaxWaiting
    /\ waiting' = Append(waiting,
                         [op |-> op, obj |-> o, old |-> old, mover |-> mover])
Top == waiting[Len(waiting)]
Resume(op) ==
    /\ waiting # <<>>
    /\ Top.op = op
    /\ waiting' = SubSeq(waiting, 1, Len(waiting) - 1)

(* getAnimeByData and getAnimeByTitle read all of anime_list; an entry with *)
(* the same title may be found as well.                                     *)
Found(i) == {o \in anime_list : Title[IdOf(o)] = Title[i]}
Shown(o) == \E i \in rows : o \in Found(i)
Readable == anime_list \cap dead = {}

\* A row whose entry is not found, or a deleted Anime that is looked at.
BadLookup(i) ==
    /\ Change
    /\ (i \in rows /\ Found(i) = {}) \/ ~Readable
    /\ corrupt' = TRUE
    /\ UNCHANGED <<heapVars, listVars, rows, actionRL, watchVars, cards,
                   panels, waiting, tasks, server, ghostVars>>

\* updateStatus of the context menu, up to the PUT, and after it.
UpdateStatus(o, s) ==
    /\ Change
    /\ Readable /\ Shown(o)
    /\ s # StatusOf(o)
    /\ objects' = [objects EXCEPT ![o].status = s]
    /\ Tell(IdOf(o), WithStatus(server[IdOf(o)], s))
    /\ Wait("status", o, StatusOf(o), TRUE)
    /\ moved' = moved \cup {IdOf(o)}
    /\ Disturb
    /\ UNCHANGED <<dead, listVars, viewVars, watchVars, cards, panels, crossed,
                   orphaned, overlapped, unwatched>>

StatusReturns ==
    /\ Resume("status")
    /\ IF Top.obj \in dead
       THEN corrupt' = TRUE /\ UNCHANGED <<user_lists, rows, actionRL>>
       ELSE /\ user_lists' = removeFromList(Top.old, IdOf(Top.obj))
            /\ userListLoaded(user_lists', dead)
    /\ Disturb
    /\ UNCHANGED <<heapVars, anime_list, watchVars, cards, panels, server,
                   changes, ghostVars>>

\* "Delete Entry", up to the DELETE, and User::remove after it.
DeleteEntry(o) ==
    /\ Change
    /\ Readable /\ Shown(o)
    /\ Tell(IdOf(o), Absent)
    /\ Wait("remove", o, NoStatus, TRUE)
    /\ UNCHANGED <<heapVars, listVars, viewVars, watchVars, cards, panels,
                   tasks, ghostVars>>

Held(o) ==
    \/ o \in cards
    \/ \E p \in panels : p.obj = o
    \/ \E n \in 1..Len(waiting) - 1 : waiting[n].obj = o
    \/ o = cw_anime /\ (watch_timer \/ updates > 0)

\* Slip: only the list of the entry's status forgets it.
removeFromOneList ==
    /\ Resume("remove")
    /\ LET o == Top.obj
       IN  IF o \in dead
           THEN /\ corrupt' = TRUE
                /\ UNCHANGED <<listVars, dead, rows, actionRL, crossed,
                               orphaned, moved>>
           ELSE /\ user_lists' = removeFromList(StatusOf(o), IdOf(o))
                /\ anime_list' = anime_list \ {o}
                /\ dead' = dead \cup {o}
                /\ userListLoaded(user_lists', dead')
                /\ crossed' = (crossed \/ SomeRunning)
                /\ moved' = IF SomeRunning THEN moved \cup {IdOf(o)} ELSE moved
                /\ orphaned' = (orphaned \/ Held(o))
    /\ Disturb
    /\ UNCHANGED <<objects, watchVars, cards, panels, server, changes,
                   overlapped, unwatched>>

\* Slip: anime_list keeps the object.
removeFromLists ==
    /\ Resume("remove")
    /\ LET o == Top.obj
       IN  IF o \in dead
           THEN /\ corrupt' = TRUE
                /\ UNCHANGED <<listVars, dead, rows, actionRL, crossed,
                               orphaned, moved>>
           ELSE /\ user_lists' = [l \in List |-> [user_lists[l] EXCEPT ![IdOf(o)] = 0]]
                /\ anime_list' = anime_list
                /\ dead' = dead \cup {o}
                /\ userListLoaded(user_lists', dead')
                /\ crossed' = (crossed \/ SomeRunning)
                /\ moved' = IF SomeRunning THEN moved \cup {IdOf(o)} ELSE moved
                /\ orphaned' = (orphaned \/ Held(o))
    /\ Disturb
    /\ UNCHANGED <<objects, watchVars, cards, panels, server, changes,
                   overlapped, unwatched>>

\* After the DELETE: User::remove.
remove ==
    /\ Resume("remove")
    /\ LET o == Top.obj
       IN  IF o \in dead
           THEN /\ corrupt' = TRUE
                /\ UNCHANGED <<listVars, dead, rows, actionRL, crossed,
                               orphaned, moved>>
           ELSE /\ user_lists' = [l \in List |-> [user_lists[l] EXCEPT ![IdOf(o)] = 0]]
                /\ anime_list' = anime_list \ {o}
                /\ dead' = dead \cup {o}
                /\ userListLoaded(user_lists', dead')
                /\ crossed' = (crossed \/ SomeRunning)
                /\ moved' = IF SomeRunning THEN moved \cup {IdOf(o)} ELSE moved
                /\ orphaned' = (orphaned \/ Held(o))
    /\ Disturb
    /\ UNCHANGED <<objects, watchVars, cards, panels, server, changes,
                   overlapped, unwatched>>

(* MainWindow::watch found the entry of what plays, or none (0): cw_anime   *)
(* is null then, and while watch() asks the server.  The timer starts when  *)
(* the episode is news, and may run all the same, for another title that    *)
(* watch() met while this call was waiting for the server.                  *)
Watch(o, timer) ==
    /\ Change
    /\ Readable
    /\ o \in anime_list \cup {0}
    /\ timer => o # 0 \/ watch_timer
    /\ cw_anime' = o
    /\ watch_timer' = timer
    /\ unwatched' = (unwatched \/ (o = 0 /\ (timer \/ updates > 0)))
    /\ UNCHANGED <<heapVars, listVars, viewVars, updates, cards, panels,
                   waiting, tasks, server, moved, crossed, orphaned,
                   overlapped>>

\* A title without an episode, or the tray's "Cancel Update".
StopTimer ==
    /\ watch_timer
    /\ watch_timer' = FALSE
    /\ UNCHANGED <<heapVars, listVars, viewVars, cw_anime, updates, cards,
                   panels, waiting, tasks, server, changes, ghostVars>>

(* MainWindow::updateEpisode, up to the PUT: the server is told "watching", *)
(* which the entry is not set to, or "completed" after the last episode.    *)
UpdateEpisode(o, last) ==
    LET i == IdOf(o)
    IN  /\ watch_timer /\ o = cw_anime
        /\ watch_timer' = FALSE
        /\ IF o \in dead
           THEN /\ corrupt' = TRUE
                /\ UNCHANGED <<objects, rows, actionRL, updates, tasks, server,
                               moved>>
           ELSE /\ updates < MaxWaiting
                /\ updates' = updates + 1
                /\ objects' = IF last THEN [objects EXCEPT ![o].status = Completed]
                              ELSE objects
                /\ tasks' = IF last THEN Disturbed(0) ELSE tasks
                /\ Tell(i, WithStatus(server[i], IF last THEN Completed ELSE Watching))
                /\ userListLoaded(user_lists, dead)
                /\ moved' = IF UNCHANGED <<objects, server>> THEN moved
                            ELSE moved \cup {i}
        /\ UNCHANGED <<dead, listVars, cw_anime, cards, panels, waiting,
                       changes, crossed, orphaned, overlapped, unwatched>>

\* The timer fires when there is no entry.
UpdateNothing ==
    /\ watch_timer /\ cw_anime = 0
    /\ corrupt' = TRUE
    /\ UNCHANGED <<heapVars, listVars, rows, actionRL, watchVars, cards,
                   panels, waiting, tasks, server, changes, ghostVars>>

(* The answer comes, and the notification, unless it is switched off, has   *)
(* the title of what cw_anime is now.  The other handlers need not wait for *)
(* the ones that began later here: they go on in more orders than they can. *)
UpdateReturns ==
    /\ updates > 0
    /\ updates' = updates - 1
    /\ corrupt' \in (IF cw_anime \in dead \cup {0} THEN BOOLEAN ELSE {FALSE})
    /\ UNCHANGED <<heapVars, listVars, rows, actionRL, cw_anime, watch_timer,
                   cards, panels, waiting, tasks, server, changes, ghostVars>>

\* The menu's custom lists: the local lists stay as they are.
ToggleCustom(o, c) ==
    LET e == server[IdOf(o)]
    IN  /\ Change
        /\ Readable /\ Shown(o)
        /\ Tell(IdOf(o), IF e = Absent THEN e ELSE
              [e EXCEPT !.lists = IF c \in @ THEN @ \ {c} ELSE @ \cup {c}])
        /\ UNCHANGED <<heapVars, listVars, watchVars, cards, panels, waiting,
                       tasks, crossed, orphaned, overlapped, unwatched>>
        /\ userListLoaded(user_lists', dead)
        /\ moved' = moved \cup {IdOf(o)}

\* The menu's "Hide Default": nothing is put back when it is unchecked.
HideDefault(o, selected) ==
    LET e == server[IdOf(o)]
    IN  /\ Change
        /\ Readable /\ Shown(o)
        /\ user_lists' = IF selected THEN removeFromList(StatusOf(o), IdOf(o))
                         ELSE user_lists
        /\ Tell(IdOf(o), IF e = Absent THEN e ELSE
              [e EXCEPT !.lists = IF selected THEN @ \ {e.status}
                                  ELSE @ \cup {e.status}])
        /\ UNCHANGED <<heapVars, anime_list, watchVars, cards, panels, waiting,
                       crossed, orphaned, overlapped, unwatched>>
        /\ userListLoaded(user_lists', dead)
        /\ moved' = moved \cup {IdOf(o)}
        /\ Disturb

\* The web site changes an entry, or another client does.
RemoteChange(i, e) ==
    /\ Change
    /\ server' = [server EXCEPT ![i] = e]
    /\ moved' = IF SomeRunning \/ \E o \in DOMAIN objects : IdOf(o) = i
                THEN moved \cup {i} ELSE moved
    /\ UNCHANGED <<heapVars, listVars, viewVars, watchVars, cards, panels,
                   waiting, tasks, crossed, orphaned, overlapped, unwatched>>

(* AnimePanel: from a row or a search (mover: the handler of accepted()     *)
(* moves the entry between the lists), or from a card (it does not).        *)
Panel(o, old, mover) ==
    [obj |-> o, old |-> old, mover |-> mover, new_entry |-> o \notin anime_list]

OpenPanel(o) ==
    /\ Change
    /\ panels = {}
    /\ Readable /\ o \in anime_list
    /\ panels' = {Panel(o, StatusOf(o), TRUE)}
    /\ UNCHANGED <<heapVars, listVars, viewVars, watchVars, cards, waiting,
                   tasks, server, ghostVars>>

\* The search panel makes an Anime for a title that is not on the list.
OpenNew(i) ==
    /\ Change
    /\ panels = {}
    /\ Readable /\ Found(i) = {}
    /\ New(i, NoStatus)
    /\ panels' = {Panel(made, NoStatus, TRUE)}
    /\ UNCHANGED <<dead, listVars, viewVars, watchVars, cards, waiting, tasks,
                   server, ghostVars>>

\* So does the browser.  New cards replace the old ones, with their panels.
Browse(i) ==
    /\ Change
    /\ Readable
    /\ IF Found(i) # {}
       THEN (\E o \in Found(i) : cards' = {o}) /\ UNCHANGED objects
       ELSE New(i, NoStatus) /\ cards' = {made}
    /\ panels' = {p \in panels : p.mover}
    /\ UNCHANGED <<dead, listVars, viewVars, watchVars, waiting, tasks, server,
                   ghostVars>>

OpenCard(o) ==
    /\ Change
    /\ panels = {}
    /\ o \in cards
    /\ o \notin dead
    /\ panels' = {Panel(o, StatusOf(o), FALSE)}
    /\ UNCHANGED <<heapVars, listVars, viewVars, watchVars, cards, waiting,
                   tasks, server, ghostVars>>

PaintCard(o) ==
    /\ o \in cards \cap dead
    /\ corrupt' = TRUE
    /\ UNCHANGED <<heapVars, listVars, rows, actionRL, watchVars, cards,
                   panels, waiting, tasks, server, changes, ghostVars>>

\* AnimePanel::accept, up to the PUT or POST, and the handler after it.
Accept(p, s) ==
    LET o == p.obj
        e == server[IdOf(o)]
    IN  /\ Change
        /\ panels' = panels \ {p}
        /\ IF o \in dead
           THEN corrupt' = TRUE /\ UNCHANGED <<objects, server, waiting,
                                               moved>>
           ELSE /\ objects' = [objects EXCEPT ![o].status = s]
                /\ Wait("accept", o, p.old, p.mover)
                /\ IF p.new_entry /\ e = Absent
                   THEN Tell(IdOf(o), [status |-> s, lists |-> {s}])
                   ELSE IF p.new_entry \/ s # StatusOf(o)
                   THEN Tell(IdOf(o), WithStatus(e, s)) ELSE UNCHANGED server
                /\ moved' = IF \/ SomeRunning
                               \/ server'[IdOf(o)].status # s
                               \/ p.old # StatusOf(o)
                               \/ p.new_entry /\ (e # Absent \/ \E q \in anime_list : IdOf(q) = IdOf(o))
                               \/ ~p.mover /\ s # StatusOf(o)
                            THEN moved \cup {IdOf(o)} ELSE moved
                /\ UNCHANGED corrupt
        /\ Disturb
        /\ UNCHANGED <<dead, listVars, rows, actionRL, watchVars, cards,
                       crossed, orphaned, overlapped, unwatched>>

AcceptReturns ==
    /\ Resume("accept")
    /\ LET o == Top.obj
           old == Top.old
           moves == StatusOf(o) # old
       IN  IF ~Top.mover
           THEN UNCHANGED <<listVars, viewVars, moved>>
           ELSE IF o \in dead
           THEN corrupt' = TRUE /\ UNCHANGED <<listVars, rows, actionRL,
                                               moved>>
           ELSE /\ user_lists' =
                      IF ~moves THEN user_lists
                      ELSE addToList(IF old = NoStatus THEN user_lists
                                     ELSE removeFromList(old, IdOf(o)),
                                     StatusOf(o), o)
                /\ anime_list' = IF moves THEN anime_list \cup {o} ELSE anime_list
                /\ userListLoaded(user_lists', dead)
                /\ moved' = IF SomeRunning THEN moved \cup {IdOf(o)} ELSE moved
    /\ Disturb
    /\ UNCHANGED <<heapVars, watchVars, cards, panels, server, changes,
                   crossed, orphaned, overlapped, unwatched>>

-----------------------------------------------------------------------------
Sound == ~corrupt

Download == Sound /\ \E k \in Task :
    \/ Answered(k) \/ EndList(k) \/ EndDownload(k)
    \/ \E l \in List : BeginList(k, l)
    \/ \E i \in Id : CopyEntry(k, i)
Refresh == Sound /\ \E k \in Task : StartRefresh(k) \/ Finished(k)
Handlers == Sound /\ (StatusReturns \/ remove \/ AcceptReturns)
User ==
    /\ Sound
    /\ \/ \E o \in DOMAIN objects, s \in Status : UpdateStatus(o, s)
       \/ \E o \in DOMAIN objects : DeleteEntry(o)
       \/ \E o \in Object \cup {0}, timer \in BOOLEAN : Watch(o, timer)
       \/ \E o \in DOMAIN objects, last \in BOOLEAN : UpdateEpisode(o, last)
       \/ StopTimer \/ UpdateNothing \/ UpdateReturns
       \/ \E o \in DOMAIN objects, c \in Custom : ToggleCustom(o, c)
       \/ \E o \in DOMAIN objects, b \in BOOLEAN : HideDefault(o, b)
       \/ \E i \in Id, e \in Start : RemoteChange(i, e)
       \/ \E o \in DOMAIN objects : OpenPanel(o) \/ OpenCard(o) \/ PaintCard(o)
       \/ \E i \in Id : OpenNew(i) \/ Browse(i) \/ BadLookup(i)
       \/ \E p \in panels, s \in Status : Accept(p, s)

Next == Download \/ Refresh \/ Handlers \/ User

Spec == Init /\ [][Next]_vars

-----------------------------------------------------------------------------
(* Properties.                                                              *)

AnimeRecord == [id : Id, status : Status \cup {NoStatus}]
PanelRecord == [obj : Object, old : Status \cup {NoStatus}, mover : BOOLEAN,
                new_entry : BOOLEAN]
HandlerRecord == [op : {"status", "remove", "accept"}, obj : Object,
                  old : Status \cup {NoStatus}, mover : BOOLEAN]
Slots == [Id -> {0} \cup Object]
TaskRecord == [state : {"none", "asking", "copying", "done", "finished"},
               answer : [Id -> Entries], todo : SUBSET List,
               list : List \cup {NoList}, copy : Slots, ids : SUBSET Id,
               custom : [Custom -> Slots], alone : BOOLEAN]

HeapOK == objects \in Seq(AnimeRecord) /\ Len(objects) <= MaxObjects
ListsOK ==
    /\ dead \subseteq Object /\ anime_list \subseteq Object
    /\ user_lists \in [List -> Slots]
ViewOK ==
    /\ rows \subseteq Id /\ cards \subseteq Object /\ panels \subseteq PanelRecord
    /\ waiting \in Seq(HandlerRecord)
    /\ actionRL \in BOOLEAN /\ corrupt \in BOOLEAN
WatchOK ==
    /\ cw_anime \in Object \cup {0} /\ watch_timer \in BOOLEAN
    /\ updates \in 0..MaxWaiting /\ unwatched \in BOOLEAN
TasksOK == tasks \in [Task -> TaskRecord]
WorldOK ==
    /\ server \in [Id -> Entries]
    /\ changes \in 0..MaxChanges
    /\ moved \subseteq Id
    /\ crossed \in BOOLEAN /\ overlapped \in BOOLEAN /\ orphaned \in BOOLEAN

(* Every variable has its type.                                             *)
TypeOK == HeapOK /\ ListsOK /\ ViewOK /\ WatchOK /\ TasksOK /\ WorldOK

(* The lists point to no deleted Anime, unless one was deleted while a      *)
(* download ran or by the first download.                                   *)
ListsPointToLiveAnime ==
    ~crossed =>
        /\ anime_list \cap dead = {}
        /\ \A l \in List, i \in Id : user_lists[l][i] \notin dead

(* A deleted or null Anime is used only after a deletion that met a         *)
(* download, or the card, the panel or the handler of the same entry, or a  *)
(* pending or waiting update of it, or after watch() set cw_anime to null   *)
(* while an update was pending or waited.                                   *)
CorruptHasACause == corrupt => crossed \/ orphaned \/ unwatched

(* An entry has one Anime, unless it changed lists in a way that the next   *)
(* refresh cannot match, or two downloads overlapped.                       *)
OneAnimePerEntry ==
    ~overlapped =>
        \A o, p \in Live : o # p /\ IdOf(o) = IdOf(p) => IdOf(o) \in moved

(* An entry that did not change lists so is in the list of its status and   *)
(* in no list of another status when nothing is under way.                  *)
UnmovedEntryIsInItsList ==
    ~crossed /\ ~overlapped /\ ~SomeRunning /\ waiting = <<>> =>
        \A o \in Live : IdOf(o) \notin moved =>
            \A l \in Status : user_lists[l][IdOf(o)] = IF l = StatusOf(o) THEN o ELSE 0

(* When a download ends that nobody disturbed, every list shows every entry *)
(* it has on the server, with the status it has there.  The first download  *)
(* takes entries with the same title for one another.                       *)
DownloadShowsServer ==
    \A k \in Task :
        /\ tasks[k].state = "done"
        /\ tasks[k].alone
        /\ k = 1 => \A i, j \in Id : Title[i] = Title[j] => i = j
        =>
            \A i \in Id : \A l \in tasks[k].answer[i].lists :
                /\ user_lists[l][i] # 0
                /\ StatusOf(user_lists[l][i]) = tasks[k].answer[i].status

=============================================================================
