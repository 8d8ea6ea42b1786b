-------------------------- MODULE UserListsProofs --------------------------
(***************************************************************************)
(* Theorems about UserLists.  The first part: the lists point to live      *)
(* Anime objects, and what may lead to the use of a deleted one.  The      *)
(* second, about the entries: a download that nobody disturbed leaves      *)
(* lists that show what the server answered; an entry has one Anime, and   *)
(* is in the list of its status and in no other, however the user's        *)
(* handlers, the downloads and the web site take turns, as long as it does *)
(* not change lists in one of the ways a refresh does not match.           *)
(***************************************************************************)
EXTENDS UserLists, SequenceTheorems, TLAPS

-----------------------------------------------------------------------------
(* The invariant.                                                           *)

(* Whatever is referred to was made, and is in a list under its own id.     *)
Heap == DOMAIN objects
FitsIn(f, heap) ==
    \A i \in Id : f[i] # 0 => f[i] \in DOMAIN heap /\ heap[f[i]].id = i
MadeInv ==
    /\ dead \subseteq Heap /\ anime_list \subseteq Heap /\ cards \subseteq Heap
    /\ \A p \in panels : p.obj \in Heap
    /\ \A n \in DOMAIN waiting : waiting[n].obj \in Heap
    /\ \A l \in List : FitsIn(user_lists[l], objects)
    /\ \A k \in Task : FitsIn(tasks[k].copy, objects)
    /\ \A k \in Task, c \in Custom : FitsIn(tasks[k].custom[c], objects)

(* Only a download that copies holds copies of lists; it copies what the    *)
(* answer has on the list.                                                  *)
TaskInv ==
    \A k \in Task :
        /\ tasks[k].list # NoList
              => tasks[k].list \in tasks[k].todo /\ tasks[k].state = "copying"
        /\ tasks[k].list = NoList => tasks[k].copy = Empty /\ tasks[k].ids = {}
        /\ tasks[k].state # "copying" => tasks[k].custom = NoTask.custom
        /\ \A i \in tasks[k].ids : tasks[k].answer[i].status \in Status

(* As long as no deletion met a download, what is on a list, in a copy of   *)
(* one or in a table is in anime_list, and nothing in it is deleted.        *)
ListedIn(f, S) == \A i \in Id : f[i] # 0 => f[i] \in S
ListedInv ==
    ~crossed =>
        /\ anime_list \cap dead = {}
        /\ \A l \in List : ListedIn(user_lists[l], anime_list)
        /\ \A k \in Task : ListedIn(tasks[k].copy, anime_list)
        /\ \A k \in Task, c \in Custom : ListedIn(tasks[k].custom[c], anime_list)
        /\ \A i \in rows : \E o \in anime_list : IdOf(o) = i

(* A card, a panel or a waiting handler holds no deleted Anime, unless the  *)
(* deletion met a download or one of these.                                 *)
HeldInv ==
    ~crossed /\ ~orphaned =>
        /\ cards \cap dead = {}
        /\ \A p \in panels : p.obj \notin dead
        /\ \A n \in DOMAIN waiting : waiting[n].obj \notin dead

(* Nor is cw_anime deleted while an update of it is pending or waits; and   *)
(* watch() has not set it to null then, unless unwatched says so.           *)
WatchInv ==
    /\ ~unwatched /\ watch_timer => cw_anime # 0
    /\ ~crossed /\ ~orphaned /\ watch_timer => cw_anime \notin dead
    /\ ~crossed /\ ~orphaned /\ ~unwatched /\ updates > 0
          => cw_anime \notin dead \cup {0}

-----------------------------------------------------------------------------
(* The heap of Anime objects.                                               *)

LEMMA Constants == /\ 0 \notin Object /\ Object \subseteq Nat
                   /\ 1 \in Task /\ 0 \notin Task
                   /\ NoList \notin List /\ Status \subseteq List /\ Custom \subseteq List
                   /\ Completed \in Status /\ Watching \in Status /\ Status \cap Custom = {}
                   /\ Absent \in Entries /\ Start \subseteq Entries
  BY UserListsAssumption DEF Object, Task, List, Entries

LEMMA Existing ==
    ASSUME HeapOK
    PROVE  /\ Heap = 1..Len(objects) /\ Len(objects) \in Nat
           /\ Heap \subseteq Object /\ 0 \notin Heap
           /\ \A o \in Heap : /\ objects[o] \in AnimeRecord
                              /\ IdOf(o) \in Id /\ StatusOf(o) \in Status \cup {NoStatus}
<1>1. objects \in Seq(AnimeRecord) /\ Len(objects) <= MaxObjects
  BY DEF HeapOK
<1>2. Heap = 1..Len(objects) /\ Len(objects) \in Nat
  BY <1>1 DEF Heap
<1>3. Heap \subseteq Object /\ 0 \notin Heap
  BY <1>1, <1>2, UserListsAssumption DEF Object
<1>4. \A o \in Heap : objects[o] \in AnimeRecord
  BY <1>1, <1>2
<1>5. \A o \in Heap : IdOf(o) \in Id /\ StatusOf(o) \in Status \cup {NoStatus}
  BY <1>4 DEF IdOf, StatusOf, AnimeRecord
<1>6. QED
  BY <1>2, <1>3, <1>4, <1>5

Grows ==
    /\ HeapOK' /\ Heap \subseteq Heap'
    /\ \A o \in Heap : objects'[o].id = objects[o].id

LEMMA Making ==
    ASSUME HeapOK, NEW i \in Id, NEW s \in Status \cup {NoStatus}, New(i, s)
    PROVE  /\ Grows
           /\ made \in Object /\ made \in Heap' /\ made \notin Heap
           /\ objects'[made].id = i
<1>1. [id |-> i, status |-> s] \in AnimeRecord
  BY DEF AnimeRecord
<1>2. objects \in Seq(AnimeRecord) /\ Len(objects) \in Nat /\ Heap = 1..Len(objects)
  BY Existing DEF HeapOK
<1>3. objects' = Append(objects, [id |-> i, status |-> s]) /\ made \in Object
  BY DEF New
<1>4. /\ objects' \in Seq(AnimeRecord)
      /\ Len(objects') = Len(objects) + 1
      /\ \A n \in 1..Len(objects) : objects'[n] = objects[n]
      /\ objects'[Len(objects) + 1] = [id |-> i, status |-> s]
  BY <1>1, <1>2, <1>3, AppendProperties
<1>5. HeapOK' /\ Heap' = 1..Len(objects) + 1
  BY <1>2, <1>3, <1>4, UserListsAssumption DEF HeapOK, made, Object, Heap
<1>6. QED
  BY <1>2, <1>3, <1>4, <1>5 DEF Grows, made

LEMMA Marking ==
    ASSUME HeapOK, NEW o \in Heap, NEW s \in Status \cup {NoStatus},
           objects' = [objects EXCEPT ![o].status = s]
    PROVE  Grows
<1>1. objects \in Seq(AnimeRecord) /\ o \in 1..Len(objects)
  BY Existing DEF HeapOK
<1>2. [objects[o] EXCEPT !.status = s] \in AnimeRecord
  <2>1. objects[o] \in AnimeRecord
    BY Existing
  <2>2. QED
    BY <2>1 DEF AnimeRecord
<1>3. objects' = [objects EXCEPT ![o] = [objects[o] EXCEPT !.status = s]]
  OBVIOUS
<1>4. /\ objects' \in Seq(AnimeRecord)
      /\ Len(objects') = Len(objects)
      /\ \A n \in 1..Len(objects) :
            objects'[n] = IF n = o THEN [objects[o] EXCEPT !.status = s] ELSE objects[n]
  BY <1>1, <1>2, <1>3, ExceptSeq
<1>5. HeapOK' /\ Heap' = Heap
  BY <1>1, <1>4 DEF HeapOK, Heap
<1>6. ASSUME NEW n \in Heap PROVE objects'[n].id = objects[n].id
  BY <1>1, <1>4 DEF Heap, AnimeRecord
<1>7. QED
  BY <1>5, <1>6 DEF Grows

LEMMA Keeping ==
    ASSUME HeapOK, UNCHANGED objects PROVE Grows
  BY DEF Grows, HeapOK, Heap

(* The handlers that wait.                                                  *)
LEMMA Resuming ==
    ASSUME TypeOK, MadeInv, NEW op, Resume(op)
    PROVE  /\ Top \in HandlerRecord /\ Top.obj \in Heap
           /\ Len(waiting) \in DOMAIN waiting /\ Top = waiting[Len(waiting)]
           /\ waiting' \in Seq(HandlerRecord)
           /\ \A n \in DOMAIN waiting' : /\ n \in DOMAIN waiting
                                         /\ n \in 1..Len(waiting) - 1
                                         /\ waiting'[n] = waiting[n]
<1>1. waiting \in Seq(HandlerRecord) /\ waiting # <<>>
  BY DEF TypeOK, ViewOK, Resume
<1>2. Len(waiting) \in DOMAIN waiting /\ DOMAIN waiting = 1..Len(waiting) /\ Len(waiting) \in Nat
  BY <1>1
<1>3. Top \in HandlerRecord /\ Top.obj \in Heap /\ Top = waiting[Len(waiting)]
  BY <1>1, <1>2 DEF Top, MadeInv
<1>4. waiting' = SubSeq(waiting, 1, Len(waiting) - 1)
  BY DEF Resume
<1>5. /\ waiting' \in Seq(HandlerRecord)
      /\ Len(waiting') = Len(waiting) - 1
      /\ \A n \in 1..Len(waiting) - 1 : waiting'[n] = waiting[n]
  BY <1>1, <1>2, <1>4
<1>6. QED
  BY <1>2, <1>3, <1>5

LEMMA Suspending ==
    ASSUME TypeOK, NEW op \in {"status", "remove", "accept"}, NEW o \in Object,
           NEW old \in Status \cup {NoStatus}, NEW mover \in BOOLEAN,
           Wait(op, o, old, mover)
    PROVE  /\ waiting' \in Seq(HandlerRecord)
           /\ \A n \in DOMAIN waiting' :
                 \/ waiting'[n].obj = o
                 \/ n \in DOMAIN waiting /\ waiting'[n] = waiting[n]
<1> DEFINE h == [op |-> op, obj |-> o, old |-> old, mover |-> mover]
<1>1. waiting \in Seq(HandlerRecord) /\ h \in HandlerRecord
  BY DEF TypeOK, ViewOK, HandlerRecord
<1>2. waiting' = Append(waiting, h) /\ h.obj = o
  BY DEF Wait
<1> HIDE DEF h
<1>3. /\ waiting' \in Seq(HandlerRecord)
      /\ Len(waiting') = Len(waiting) + 1
      /\ \A n \in 1..Len(waiting) : waiting'[n] = waiting[n]
      /\ waiting'[Len(waiting) + 1] = h
  BY <1>1, <1>2, AppendProperties
<1>4. DOMAIN waiting' = 1..Len(waiting) + 1 /\ DOMAIN waiting = 1..Len(waiting)
      /\ Len(waiting) \in Nat
  BY <1>1, <1>3
<1>5. QED
  BY <1>2, <1>3, <1>4

(* The downloads: Disturbed only notes that somebody changed the lists.     *)
Alike(s, t) ==
    /\ s.state = t.state /\ s.answer = t.answer /\ s.todo = t.todo /\ s.list = t.list
    /\ s.copy = t.copy /\ s.ids = t.ids /\ s.custom = t.custom

LEMMA Disturbing ==
    ASSUME TasksOK, NEW k
    PROVE  /\ Disturbed(k) \in [Task -> TaskRecord]
           /\ \A j \in Task : Alike(Disturbed(k)[j], tasks[j])
<1>1. ASSUME NEW j \in Task
      PROVE  /\ tasks[j] \in TaskRecord
             /\ [tasks[j] EXCEPT !.alone = FALSE] \in TaskRecord
             /\ Alike([tasks[j] EXCEPT !.alone = FALSE], tasks[j])
             /\ Alike(tasks[j], tasks[j])
  BY <1>1 DEF TasksOK, TaskRecord, Alike
<1>2. QED
  BY <1>1 DEF Disturbed

-----------------------------------------------------------------------------
(* Types.                                                                   *)

LEMMA TypeInit == Init => TypeOK /\ MadeInv /\ TaskInv
<1>1. SUFFICES ASSUME Init PROVE TypeOK /\ MadeInv /\ TaskInv
  OBVIOUS
<1>2. objects = <<>> /\ waiting = <<>> /\ DOMAIN waiting = {}
  BY <1>1 DEF Init
<1>3. HeapOK
  BY <1>2, UserListsAssumption DEF HeapOK
<1>4. Empty \in Slots /\ \A i \in Id : Empty[i] = 0
  BY DEF Empty, Slots
<1>5. ListsOK
  BY <1>1, <1>4 DEF Init, ListsOK
<1>6. waiting \in Seq(HandlerRecord)
  BY <1>2
<1>7. ViewOK
  BY <1>1, <1>6 DEF Init, ViewOK
<1>8. NoTask \in TaskRecord /\ [NoTask EXCEPT !.state = "asking"] \in TaskRecord
  BY <1>4, Constants DEF NoTask, TaskRecord
<1>9. TasksOK
  BY <1>1, <1>8 DEF Init, TasksOK
<1>10. WorldOK
  <2>1. server \in [Id -> Entries]
    BY <1>1, Constants DEF Init
  <2>2. changes \in 0..MaxChanges
    BY <1>1, UserListsAssumption DEF Init
  <2>3. QED
    BY <1>1, <2>1, <2>2 DEF Init, WorldOK
<1>15. WatchOK
  <2>1. cw_anime = 0 /\ updates = 0 /\ watch_timer = FALSE /\ unwatched = FALSE
    BY <1>1 DEF Init
  <2>2. updates \in 0..MaxWaiting
    BY <2>1, UserListsAssumption
  <2>3. QED
    BY <2>1, <2>2 DEF WatchOK
<1>11. \A k \in Task : /\ tasks[k].copy = Empty /\ tasks[k].ids = {}
                       /\ tasks[k].list = NoList /\ tasks[k].custom = NoTask.custom
                       /\ \A c \in Custom : tasks[k].custom[c] = Empty
  BY <1>1 DEF Init, NoTask
<1>12. MadeInv
  BY <1>1, <1>2, <1>4, <1>11 DEF Init, MadeInv, FitsIn
<1>13. TaskInv
  BY <1>11 DEF TaskInv
<1>14. QED
  BY <1>3, <1>5, <1>7, <1>9, <1>10, <1>12, <1>13, <1>15 DEF TypeOK

(* The three ways in which an entry is copied.                              *)
Copies(k, i) == UpdateEntry(k, i) \/ LoadEntry(k, i) \/ LoadCustomEntry(k, i)

LEMMA HeapNext == TypeOK /\ MadeInv /\ Next => Grows
<1> USE DEF heapVars, listVars, viewVars, ghostVars
<1>1. SUFFICES ASSUME TypeOK, MadeInv, Next PROVE Grows
  OBVIOUS
<1>2. HeapOK /\ TasksOK /\ ListsOK /\ WorldOK
  BY <1>1 DEF TypeOK
<1>3. CASE UNCHANGED objects
  BY <1>2, <1>3, Keeping
<1>4. ASSUME NEW o \in DOMAIN objects, NEW s \in Status,
             objects' = [objects EXCEPT ![o].status = s]
      PROVE  Grows
  BY <1>2, <1>4, Marking DEF Heap
<1>5. ASSUME NEW i \in Id, NEW s \in Status \cup {NoStatus}, New(i, s) PROVE Grows
  BY <1>2, <1>5, Making
<1>6. ASSUME NEW k \in Task, NEW i \in Id, CopyEntry(k, i) PROVE Grows
  <2>1. tasks[k].answer[i].status \in Status \cup {NoStatus}
    BY <1>2, Constants DEF TasksOK, TaskRecord, Entries, Absent
  <2>2. CASE UpdateEntry(k, i)
    <3>1. CASE tasks[k].copy[i] # 0
      <4>1. tasks[k].copy[i] \in Heap
        BY <1>1, <3>1 DEF MadeInv, FitsIn, Heap
      <4>2. QED
        BY <1>2, <2>1, <2>2, <3>1, <4>1, Marking DEF UpdateEntry
    <3>2. CASE tasks[k].copy[i] = 0
      BY <1>5, <2>1, <2>2, <3>2 DEF UpdateEntry
    <3>3. QED
      BY <3>1, <3>2
  <2>3. CASE LoadEntry(k, i)
    BY <1>5, <2>1, <2>3 DEF LoadEntry
  <2>4. CASE LoadCustomEntry(k, i)
    BY <1>3, <1>5, <2>1, <2>4 DEF LoadCustomEntry
  <2>5. QED
    BY <1>6, <2>2, <2>3, <2>4 DEF CopyEntry
<1>7. CASE Download
  BY <1>3, <1>6, <1>7 DEF Download, Answered, EndList, EndDownload, BeginList
<1>8. CASE Refresh \/ Handlers
  BY <1>3, <1>8 DEF Refresh, Handlers, StartRefresh, Finished, StatusReturns, remove,
                    AcceptReturns
<1>9. CASE User
  <2>1. ASSUME NEW o \in DOMAIN objects, NEW s \in Status, UpdateStatus(o, s) PROVE Grows
    BY <1>4, <2>1 DEF UpdateStatus
  <2>2. ASSUME NEW o \in DOMAIN objects, NEW last \in BOOLEAN, UpdateEpisode(o, last)
        PROVE  Grows
    BY <1>3, <1>4, <2>2, Constants DEF UpdateEpisode
  <2>3. ASSUME NEW i \in Id, OpenNew(i) \/ Browse(i) PROVE Grows
    BY <1>3, <1>5, <2>3 DEF OpenNew, Browse
  <2>4. ASSUME NEW p \in panels, NEW s \in Status, Accept(p, s) PROVE Grows
    <3>1. p.obj \in DOMAIN objects
      BY <1>1 DEF MadeInv, Heap
    <3>2. QED
      BY <1>3, <1>4, <2>4, <3>1 DEF Accept
  <2>5. QED
    BY <1>3, <1>9, <2>1, <2>2, <2>3, <2>4
       DEF User, Watch, StopTimer, UpdateNothing, UpdateReturns, DeleteEntry,
           ToggleCustom, HideDefault, RemoteChange, OpenPanel, OpenCard, PaintCard,
           BadLookup
<1>10. QED
  BY <1>1, <1>7, <1>8, <1>9 DEF Next

LEMMA Removing ==
    ASSUME ListsOK, NEW l, NEW i \in Id
    PROVE  /\ removeFromList(l, i) \in [List -> Slots]
           /\ \A m \in List, j \in Id :
                 removeFromList(l, i)[m][j] = IF m = l /\ j = i THEN 0 ELSE user_lists[m][j]
<1>1. CASE l \in List
  BY <1>1 DEF ListsOK, removeFromList, Slots
<1>2. CASE l \notin List
  BY <1>2 DEF ListsOK, removeFromList, Slots
<1>3. QED
  BY <1>1, <1>2

LEMMA Adding ==
    ASSUME HeapOK, NEW lists \in [List -> Slots], NEW l, NEW o \in Heap
    PROVE  /\ addToList(lists, l, o) \in [List -> Slots]
           /\ \A m \in List, j \in Id :
                 \/ addToList(lists, l, o)[m][j] = lists[m][j]
                 \/ addToList(lists, l, o)[m][j] = o /\ j = IdOf(o)
<1>1. o \in Object /\ IdOf(o) \in Id
  BY Existing
<1>2. CASE l \in List
  BY <1>1, <1>2 DEF addToList, Slots
<1>3. CASE l \notin List
  BY <1>3 DEF addToList
<1>4. QED
  BY <1>2, <1>3

\* The lists after AcceptReturns, when the entry moves.
Moved(old, o) ==
    addToList(IF old = NoStatus THEN user_lists ELSE removeFromList(old, IdOf(o)),
              StatusOf(o), o)

LEMMA MovedIs ==
    ASSUME HeapOK, ListsOK, NEW old, NEW o \in Heap
    PROVE  /\ Moved(old, o) \in [List -> Slots]
           /\ \A m \in List, j \in Id :
                 \/ Moved(old, o)[m][j] \in {0, user_lists[m][j]}
                 \/ Moved(old, o)[m][j] = o /\ j = IdOf(o)
<1> DEFINE lists == IF old = NoStatus THEN user_lists ELSE removeFromList(old, IdOf(o))
<1>1. IdOf(o) \in Id
  BY Existing
<1>2. /\ lists \in [List -> Slots]
      /\ \A m \in List, j \in Id : lists[m][j] \in {0, user_lists[m][j]}
  BY <1>1, Removing DEF ListsOK
<1> HIDE DEF lists
<1>3. Moved(old, o) = addToList(lists, StatusOf(o), o)
  BY DEF Moved, lists
<1>4. QED
  BY <1>2, <1>3, Adding

LEMMA ListsNext == TypeOK /\ MadeInv /\ Next => ListsOK'
<1> USE DEF heapVars, listVars, viewVars, ghostVars
<1>1. SUFFICES ASSUME TypeOK, MadeInv, Next PROVE ListsOK'
  OBVIOUS
<1>2. HeapOK /\ TasksOK /\ ListsOK
  BY <1>1 DEF TypeOK
<1>3. CASE UNCHANGED <<dead, listVars>>
  BY <1>2, <1>3 DEF ListsOK
<1>4. CASE Download
  <2>1. ASSUME NEW k \in Task, Answered(k) PROVE ListsOK'
    BY <1>2, <2>1 DEF Answered, ListsOK
  <2>2. ASSUME NEW k \in Task, NEW i \in Id, CopyEntry(k, i) PROVE ListsOK'
    <3>1. tasks[k].answer[i].status \in Status \cup {NoStatus}
      BY <1>2, Constants DEF TasksOK, TaskRecord, Entries, Absent
    <3>2. \A s \in Status \cup {NoStatus} : New(i, s) => made \in Object
      BY DEF New
    <3>3. CASE UpdateEntry(k, i)
      <4>1. tasks[k].copy[i] # 0 => tasks[k].copy[i] \in Object
        BY <1>1, <1>2, Existing DEF MadeInv, FitsIn, Heap
      <4>2. QED
        BY <1>2, <2>2, <3>1, <3>2, <3>3, <4>1 DEF UpdateEntry, CopyEntry, ListsOK
    <3>4. CASE LoadEntry(k, i)
      BY <1>2, <2>2, <3>1, <3>2, <3>4 DEF LoadEntry, CopyEntry, ListsOK
    <3>5. CASE LoadCustomEntry(k, i)
      BY <1>2, <2>2, <3>1, <3>2, <3>5 DEF LoadCustomEntry, CopyEntry, ListsOK
    <3>6. QED
      BY <2>2, <3>3, <3>4, <3>5 DEF CopyEntry
  <2>3. ASSUME NEW k \in Task, EndList(k) PROVE ListsOK'
    BY <1>2, <2>3 DEF EndList, ListsOK, TasksOK, TaskRecord
  <2>4. ASSUME NEW k \in Task, EndDownload(k) PROVE ListsOK'
    BY <1>2, <2>4 DEF EndDownload, ListsOK, TasksOK, TaskRecord
  <2>5. QED
    BY <1>3, <1>4, <2>1, <2>2, <2>3, <2>4 DEF Download, BeginList
<1>5. CASE Refresh
  BY <1>3, <1>5 DEF Refresh, StartRefresh, Finished
<1>6. CASE Handlers
  <2>1. CASE StatusReturns
    <3>1. Top.obj \in Heap
      BY <1>1, <2>1, Resuming DEF StatusReturns
    <3>2. QED
      BY <1>2, <2>1, <3>1, Existing, Removing DEF StatusReturns, ListsOK
  <2>2. CASE remove
    BY <1>2, <2>2, Existing, Resuming, <1>1 DEF remove, ListsOK, Slots
  <2>3. CASE AcceptReturns
    <3>1. Top.obj \in Heap /\ Top.obj \in Object
      BY <1>1, <1>2, <2>3, Resuming, Existing DEF AcceptReturns
    <3>2. user_lists' \in {user_lists, Moved(Top.old, Top.obj)}
      BY <2>3 DEF AcceptReturns, Moved
    <3>3. anime_list' \subseteq anime_list \cup {Top.obj} /\ dead' = dead
      BY <2>3 DEF AcceptReturns
    <3>4. QED
      BY <1>2, <3>1, <3>2, <3>3, MovedIs DEF ListsOK
  <2>4. QED
    BY <1>6, <2>1, <2>2, <2>3 DEF Handlers
<1>7. CASE User
  <2>1. ASSUME NEW o \in DOMAIN objects, NEW b \in BOOLEAN, HideDefault(o, b) PROVE ListsOK'
    <3>1. IdOf(o) \in Id
      BY <1>2, Existing DEF Heap
    <3>2. QED
      BY <1>2, <2>1, <3>1, Removing DEF HideDefault, ListsOK
  <2>2. QED
    BY <1>3, <1>7, <2>1
       DEF User, UpdateStatus, DeleteEntry, UpdateEpisode, Watch, StopTimer,
           UpdateNothing, UpdateReturns, ToggleCustom, RemoteChange, OpenPanel, OpenCard,
           PaintCard, OpenNew, Browse, BadLookup, Accept
<1>8. QED
  BY <1>1, <1>4, <1>5, <1>6, <1>7 DEF Next

LEMMA TasksNext == TypeOK /\ MadeInv /\ TaskInv /\ Next => TasksOK'
<1> USE DEF heapVars, listVars, viewVars, ghostVars
<1>1. SUFFICES ASSUME TypeOK, MadeInv, TaskInv, Next PROVE TasksOK'
  OBVIOUS
<1>2. HeapOK /\ TasksOK /\ ListsOK /\ WorldOK
  BY <1>1 DEF TypeOK
<1>3. CASE tasks' = tasks \/ \E k \in Task \cup {0} : tasks' = Disturbed(k)
  BY <1>2, <1>3, Disturbing DEF TasksOK
<1>4. ASSUME NEW k \in Task, NEW t \in TaskRecord,
             NEW old \in [Task -> TaskRecord], tasks' = [old EXCEPT ![k] = t]
      PROVE  TasksOK'
  BY <1>4 DEF TasksOK
<1>5. CASE Download
  <2>1. ASSUME NEW k \in Task, Answered(k) PROVE TasksOK'
    <3> DEFINE D == Disturbed(k)
    <3>1. D \in [Task -> TaskRecord] /\ D[k] \in TaskRecord
      BY <1>2, Disturbing
    <3> HIDE DEF D
    <3>2. tasks' = [D EXCEPT ![k] = [D[k] EXCEPT
             !.state = "copying", !.answer = server,
             !.todo = UNION {server[i].lists : i \in Id},
             !.alone = \A j \in Task \ {k} : ~Running(j)]]
      BY <2>1, <3>1 DEF Answered, D
    <3>3. UNION {server[i].lists : i \in Id} \subseteq List
      BY <1>2 DEF WorldOK, Entries, Absent
    <3>4. server \in [Id -> Entries]
      BY <1>2 DEF WorldOK
    <3>5. [D[k] EXCEPT
             !.state = "copying", !.answer = server,
             !.todo = UNION {server[i].lists : i \in Id},
             !.alone = \A j \in Task \ {k} : ~Running(j)] \in TaskRecord
      BY <3>1, <3>3, <3>4 DEF TaskRecord
    <3>6. QED
      BY <1>4, <3>1, <3>2, <3>5
  <2>2. ASSUME NEW k \in Task, NEW l \in List, BeginList(k, l) PROVE TasksOK'
    <3> DEFINE f == IF k = 1 THEN Empty ELSE user_lists[l]
               ids == {i \in Id : l \in tasks[k].answer[i].lists}
    <3>1. f \in Slots /\ ids \subseteq Id /\ tasks[k] \in TaskRecord
      BY <1>2 DEF ListsOK, Slots, Empty, TasksOK
    <3>2. tasks' = [tasks EXCEPT ![k] = [tasks[k] EXCEPT !.list = l, !.copy = f, !.ids = ids]]
      BY <1>2, <2>2 DEF BeginList, TasksOK
    <3> HIDE DEF f, ids
    <3>3. [tasks[k] EXCEPT !.list = l, !.copy = f, !.ids = ids] \in TaskRecord
      BY <3>1 DEF TaskRecord
    <3>4. QED
      BY <1>2, <1>4, <3>2, <3>3 DEF TasksOK
  <2>3. ASSUME NEW k \in Task, NEW i \in Id, NEW key \in Id, NEW o \in Object,
               Copied(k, i, key, o)
        PROVE  TasksOK'
    <3> DEFINE D == Disturbed(k)
    <3>1. D \in [Task -> TaskRecord] /\ D[k] \in TaskRecord
      BY <1>2, Disturbing
    <3> HIDE DEF D
    <3>2. tasks' = [D EXCEPT ![k] = [D[k] EXCEPT !.copy = [D[k].copy EXCEPT ![key] = o],
                                                 !.ids = D[k].ids \ {i}]]
      BY <2>3, <3>1 DEF Copied, D
    <3>3. [D[k].copy EXCEPT ![key] = o] \in Slots
      BY <3>1 DEF TaskRecord, Slots
    <3>4. [D[k] EXCEPT !.copy = [D[k].copy EXCEPT ![key] = o],
                       !.ids = D[k].ids \ {i}] \in TaskRecord
      BY <3>1, <3>3 DEF TaskRecord
    <3>5. QED
      BY <1>4, <3>1, <3>2, <3>4
  <2>4. ASSUME NEW k \in Task, NEW i \in Id, CopyEntry(k, i) PROVE TasksOK'
    <3>1. tasks[k].answer[i].status \in Status \cup {NoStatus}
      BY <1>2, Constants DEF TasksOK, TaskRecord, Entries, Absent
    <3>2. \A s \in Status \cup {NoStatus} : New(i, s) => made \in Object
      BY DEF New
    <3>3. CASE UpdateEntry(k, i)
      <4>1. tasks[k].copy[i] # 0 => tasks[k].copy[i] \in Object
        BY <1>1, <1>2, Existing DEF MadeInv, FitsIn, Heap
      <4>2. QED
        BY <2>3, <3>1, <3>2, <3>3, <4>1 DEF UpdateEntry
    <3>4. CASE LoadEntry(k, i)
      BY <2>3, <3>1, <3>2, <3>4 DEF LoadEntry
    <3>5. CASE LoadCustomEntry(k, i)
      <4>1. ASSUME NEW o \in anime_list, Copied(k, i, IdOf(o), o) PROVE TasksOK'
        <5>1. o \in Object /\ IdOf(o) \in Id
          BY <1>1, <1>2, Existing DEF MadeInv
        <5>2. QED
          BY <2>3, <4>1, <5>1
      <4>2. ASSUME NEW s \in Status, user_lists[s][i] # 0,
                   Copied(k, i, IdOf(user_lists[s][i]), user_lists[s][i])
            PROVE  TasksOK'
        <5>1. user_lists[s][i] \in Heap
          BY <1>1, <4>2, Constants DEF MadeInv, FitsIn, Heap
        <5>2. user_lists[s][i] \in Object /\ IdOf(user_lists[s][i]) \in Id
          BY <1>2, <5>1, Existing
        <5>3. QED
          BY <2>3, <4>2, <5>2
      <4>3. tasks[k].answer[i].status \in Status
        BY <1>1, <2>4 DEF TaskInv, CopyEntry
      <4>4. QED
        BY <2>3, <3>2, <3>5, <4>1, <4>2, <4>3 DEF LoadCustomEntry
    <3>6. QED
      BY <2>4, <3>3, <3>4, <3>5 DEF CopyEntry
  <2>5. ASSUME NEW k \in Task, EndList(k) PROVE TasksOK'
    <3> DEFINE t == tasks[k]
               D == Disturbed(k)
               done == [t EXCEPT !.list = NoList, !.copy = Empty, !.todo = t.todo \ {t.list}]
    <3>1. t \in TaskRecord /\ D \in [Task -> TaskRecord]
      BY <1>2, Disturbing DEF TasksOK
    <3>2. Empty \in Slots
      BY DEF Empty, Slots
    <3>3. done \in TaskRecord /\ done.custom = t.custom
      BY <3>1, <3>2 DEF TaskRecord
    <3> HIDE DEF D, done
    <3>4. CASE t.list \in Custom
      <4>1. [done EXCEPT !.custom = [t.custom EXCEPT ![t.list] = t.copy]] \in TaskRecord
        BY <3>1, <3>3, <3>4 DEF TaskRecord
      <4>2. tasks' = [tasks EXCEPT ![k] =
                        [done EXCEPT !.custom = [t.custom EXCEPT ![t.list] = t.copy]]]
        BY <2>5, <3>3, <3>4 DEF EndList, done
      <4>3. QED
        BY <1>2, <1>4, <4>1, <4>2 DEF TasksOK
    <3>5. CASE t.list \notin Custom
      <4>1. tasks' = [D EXCEPT ![k] = done]
        BY <2>5, <3>5 DEF EndList, done, D
      <4>2. QED
        BY <1>4, <3>1, <3>3, <4>1
    <3>6. QED
      BY <3>4, <3>5
  <2>6. ASSUME NEW k \in Task, EndDownload(k) PROVE TasksOK'
    <3> DEFINE D == Disturbed(k)
    <3>1. D \in [Task -> TaskRecord] /\ D[k] \in TaskRecord
      BY <1>2, Disturbing
    <3> HIDE DEF D
    <3>2. tasks' = [D EXCEPT ![k] = [D[k] EXCEPT !.state = "done", !.custom = NoTask.custom]]
      BY <2>6, <3>1 DEF EndDownload, D
    <3>3. NoTask.custom \in [Custom -> Slots]
      BY DEF NoTask, Empty, Slots
    <3>4. [D[k] EXCEPT !.state = "done", !.custom = NoTask.custom] \in TaskRecord
      BY <3>1, <3>3 DEF TaskRecord
    <3>5. QED
      BY <1>4, <3>1, <3>2, <3>4
  <2>7. QED
    BY <1>5, <2>1, <2>2, <2>4, <2>5, <2>6 DEF Download
<1>6. CASE Refresh
  <2>1. ASSUME NEW k \in Task, Finished(k) PROVE TasksOK'
    <3>1. [NoTask EXCEPT !.state = "finished"] \in TaskRecord
      BY Constants DEF NoTask, TaskRecord, Empty, Slots, Entries, Absent
    <3>2. QED
      BY <1>2, <1>4, <2>1, <3>1 DEF Finished, TasksOK
  <2>2. ASSUME NEW k \in Task, StartRefresh(k) PROVE TasksOK'
    <3>1. [tasks[k] EXCEPT !.state = "asking"] \in TaskRecord
      BY <1>2 DEF TasksOK, TaskRecord
    <3>2. tasks' = [tasks EXCEPT ![k] = [tasks[k] EXCEPT !.state = "asking"]]
      BY <2>2 DEF StartRefresh
    <3>3. QED
      BY <1>2, <1>4, <3>1, <3>2 DEF TasksOK
  <2>3. QED
    BY <1>6, <2>1, <2>2 DEF Refresh
<1>7. CASE Handlers \/ User
  BY <1>3, <1>7
     DEF Handlers, User, Disturb, StatusReturns, remove, AcceptReturns, UpdateStatus,
         DeleteEntry, UpdateEpisode, Watch, StopTimer, UpdateNothing, UpdateReturns,
         ToggleCustom, HideDefault, RemoteChange, OpenPanel, OpenCard, PaintCard, OpenNew,
         Browse, BadLookup, Accept
<1>8. QED
  BY <1>1, <1>5, <1>6, <1>7 DEF Next

LEMMA ViewNext == TypeOK /\ MadeInv /\ Next => ViewOK'
<1> USE DEF heapVars, listVars, viewVars, ghostVars
<1>1. SUFFICES ASSUME TypeOK, MadeInv, Next PROVE ViewOK'
  OBVIOUS
<1>2. HeapOK /\ TasksOK /\ ListsOK /\ ViewOK
  BY <1>1 DEF TypeOK
<1>3. \A lists, deleted : userListLoaded(lists, deleted)
         => rows' \subseteq Id /\ actionRL' \in BOOLEAN /\ corrupt' \in BOOLEAN
  BY DEF userListLoaded
<1>4. CASE UNCHANGED <<cards, panels, waiting, viewVars>>
  BY <1>2, <1>4 DEF ViewOK
<1>10. ASSUME UNCHANGED <<cards, panels, waiting>>,
              \/ UNCHANGED <<rows, actionRL>> /\ corrupt' = TRUE
              \/ \E lists, deleted : userListLoaded(lists, deleted)
       PROVE  ViewOK'
  BY <1>2, <1>3, <1>10 DEF ViewOK
<1>5. CASE Download
  <2>1. ASSUME NEW k \in Task, NEW i \in Id, CopyEntry(k, i) PROVE ViewOK'
    <3>1. corrupt' \in BOOLEAN
      <4>1. CASE UpdateEntry(k, i)
        <5>1. CASE tasks[k].copy[i] # 0
          BY <4>1, <5>1 DEF UpdateEntry
        <5>2. CASE tasks[k].copy[i] = 0
          BY <1>2, <4>1, <5>2 DEF UpdateEntry, ViewOK
        <5>3. QED
          BY <5>1, <5>2
      <4>2. CASE LoadEntry(k, i)
        BY <1>2, <4>2 DEF LoadEntry, ViewOK
      <4>3. CASE LoadCustomEntry(k, i)
        BY <1>2, <4>3 DEF LoadCustomEntry, ViewOK
      <4>4. QED
        BY <2>1, <4>1, <4>2, <4>3 DEF CopyEntry
    <3>2. QED
      BY <1>2, <2>1, <3>1 DEF CopyEntry, ViewOK
  <2>2. QED
    BY <1>4, <1>5, <2>1 DEF Download, Answered, EndList, EndDownload, BeginList
<1>6. CASE Refresh
  <2>1. ASSUME NEW k \in Task, StartRefresh(k) PROVE ViewOK'
    BY <1>2, <2>1 DEF StartRefresh, ViewOK
  <2>2. QED
    BY <1>6, <1>10, <2>1 DEF Refresh, Finished
<1>7. CASE Handlers
  <2>1. waiting' \in Seq(HandlerRecord)
    BY <1>1, <1>7, Resuming DEF Handlers, StatusReturns, remove, AcceptReturns
  <2>2. /\ rows' \subseteq Id /\ actionRL' \in BOOLEAN /\ corrupt' \in BOOLEAN
        /\ UNCHANGED <<cards, panels>>
    BY <1>2, <1>3, <1>7 DEF Handlers, StatusReturns, remove, AcceptReturns, ViewOK
  <2>3. QED
    BY <1>2, <2>1, <2>2 DEF ViewOK
<1>8. CASE User
  <2>1. ASSUME NEW o \in DOMAIN objects, NEW s \in Status, UpdateStatus(o, s) PROVE ViewOK'
    <3>1. o \in Object /\ StatusOf(o) \in Status \cup {NoStatus}
      BY <1>2, Existing DEF Heap
    <3>2. waiting' \in Seq(HandlerRecord)
      BY <1>1, <2>1, <3>1, Suspending DEF UpdateStatus
    <3>3. QED
      BY <1>2, <2>1, <3>2 DEF UpdateStatus, ViewOK
  <2>2. ASSUME NEW o \in DOMAIN objects, DeleteEntry(o) PROVE ViewOK'
    <3>1. o \in Object
      BY <1>2, Existing DEF Heap
    <3>2. waiting' \in Seq(HandlerRecord)
      BY <1>1, <2>2, <3>1, Suspending DEF DeleteEntry
    <3>3. QED
      BY <1>2, <2>2, <3>2 DEF DeleteEntry, ViewOK
  <2>3. ASSUME NEW o \in Object, NEW old \in Status \cup {NoStatus}, NEW mover \in BOOLEAN,
               panels' = {Panel(o, old, mover)}, UNCHANGED <<viewVars, cards, waiting>>
        PROVE  ViewOK'
    <3>1. Panel(o, old, mover) \in PanelRecord
      BY <2>3 DEF Panel, PanelRecord
    <3>2. QED
      BY <1>2, <2>3, <3>1 DEF ViewOK
  <2>4. ASSUME NEW o \in DOMAIN objects, OpenPanel(o) \/ OpenCard(o) PROVE ViewOK'
    <3>1. o \in Object /\ StatusOf(o) \in Status \cup {NoStatus}
      BY <1>2, Existing DEF Heap
    <3>2. QED
      BY <2>3, <2>4, <3>1 DEF OpenPanel, OpenCard
  <2>5. ASSUME NEW i \in Id, OpenNew(i) PROVE ViewOK'
    BY <2>3, <2>5 DEF OpenNew, New
  <2>6. ASSUME NEW i \in Id, Browse(i) PROVE ViewOK'
    <3>1. cards' \subseteq Object
      BY <1>2, <2>6 DEF Browse, New, Found, ListsOK
    <3>2. QED
      BY <1>2, <2>6, <3>1 DEF Browse, ViewOK
  <2>7. ASSUME NEW p \in panels, NEW s \in Status, Accept(p, s) PROVE ViewOK'
    <3>1. p \in PanelRecord
      BY <1>2 DEF ViewOK
    <3>2. p.obj \in Object /\ p.old \in Status \cup {NoStatus} /\ p.mover \in BOOLEAN
      BY <3>1 DEF PanelRecord
    <3>3. waiting' \in Seq(HandlerRecord) /\ corrupt' \in BOOLEAN
      BY <1>1, <1>2, <2>7, <3>2, Suspending DEF Accept, ViewOK
    <3>4. QED
      BY <1>2, <2>7, <3>3 DEF Accept, ViewOK
  <2>8. ASSUME NEW o \in DOMAIN objects, NEW last \in BOOLEAN, UpdateEpisode(o, last)
        PROVE  ViewOK'
    BY <1>10, <2>8 DEF UpdateEpisode
  <2>9. ASSUME NEW o \in DOMAIN objects, NEW c \in Custom, ToggleCustom(o, c) PROVE ViewOK'
    BY <1>10, <2>9 DEF ToggleCustom
  <2>10. ASSUME NEW o \in DOMAIN objects, NEW b \in BOOLEAN, HideDefault(o, b) PROVE ViewOK'
    BY <1>10, <2>10 DEF HideDefault
  <2>11. ASSUME NEW i \in Id, BadLookup(i) PROVE ViewOK'
    BY <1>10, <2>11 DEF BadLookup
  <2>12. ASSUME NEW o \in DOMAIN objects, PaintCard(o) PROVE ViewOK'
    BY <1>10, <2>12 DEF PaintCard
  <2>13. ASSUME NEW i \in Id, NEW e \in Start, RemoteChange(i, e) PROVE ViewOK'
    BY <1>4, <2>13 DEF RemoteChange
  <2>15. ASSUME \/ \E o \in Object \cup {0}, timer \in BOOLEAN : Watch(o, timer)
                \/ StopTimer
         PROVE  ViewOK'
    BY <1>4, <2>15 DEF Watch, StopTimer
  <2>18. CASE UpdateNothing
    BY <1>10, <2>18 DEF UpdateNothing
  <2>16. CASE UpdateReturns
    <3>1. corrupt' \in BOOLEAN /\ UNCHANGED <<rows, actionRL, cards, panels, waiting>>
      BY <2>16 DEF UpdateReturns
    <3>2. QED
      BY <1>2, <3>1 DEF ViewOK
  <2>14. QED
    BY <1>8, <2>1, <2>2, <2>4, <2>5, <2>6, <2>7, <2>8, <2>9, <2>10, <2>11, <2>12, <2>13,
       <2>15, <2>16, <2>18 DEF User
<1>9. QED
  BY <1>1, <1>5, <1>6, <1>7, <1>8 DEF Next

LEMMA WorldNext == TypeOK /\ MadeInv /\ Next => WorldOK'
<1> USE DEF heapVars, listVars, viewVars, ghostVars
<1>1. SUFFICES ASSUME TypeOK, MadeInv, Next PROVE WorldOK'
  OBVIOUS
<1>2. HeapOK /\ TasksOK /\ ListsOK /\ ViewOK /\ WorldOK
  BY <1>1 DEF TypeOK
<1>3. CASE UNCHANGED <<server, changes, ghostVars>>
  BY <1>2, <1>3 DEF WorldOK
<1>4. /\ crossed' \in BOOLEAN /\ overlapped' \in BOOLEAN /\ orphaned' \in BOOLEAN
      /\ changes' \in 0..MaxChanges
  <2>1. Change => changes' \in 0..MaxChanges
    <3>1. changes \in 0..MaxChanges /\ MaxChanges \in Nat
      BY <1>2, UserListsAssumption DEF WorldOK
    <3>2. QED
      BY <3>1 DEF Change
  <2>2. CASE Download
    <3>1. UNCHANGED <<changes, orphaned>>
      BY <2>2 DEF Download, Answered, EndList, EndDownload, BeginList, CopyEntry
    <3>2. overlapped' \in BOOLEAN
      BY <1>2, <2>2
         DEF Download, Answered, EndList, EndDownload, BeginList, CopyEntry, WorldOK
    <3>3. ASSUME NEW k \in Task, NEW i \in Id, CopyEntry(k, i) PROVE crossed' \in BOOLEAN
      BY <1>2, <3>3 DEF CopyEntry, UpdateEntry, LoadEntry, LoadCustomEntry, WorldOK
    <3>4. crossed' \in BOOLEAN
      BY <1>2, <2>2, <3>3
         DEF Download, Answered, EndList, EndDownload, BeginList, WorldOK
    <3>5. QED
      BY <1>2, <3>1, <3>2, <3>4 DEF WorldOK
  <2>3. CASE Refresh \/ Handlers
    BY <1>2, <2>3
       DEF Refresh, Handlers, StartRefresh, Finished, StatusReturns, remove, AcceptReturns,
           WorldOK
  <2>4. CASE User
    BY <1>2, <2>1, <2>4
       DEF User, UpdateStatus, DeleteEntry, UpdateEpisode, Watch, StopTimer,
           UpdateNothing, UpdateReturns, ToggleCustom, HideDefault, RemoteChange,
           OpenPanel, OpenCard, PaintCard, OpenNew, Browse, BadLookup, Accept, WorldOK
  <2>5. QED
    BY <1>1, <2>2, <2>3, <2>4 DEF Next
<1>5. moved' \subseteq Id
  <2>1. \A o \in Heap : IdOf(o) \in Id
    BY <1>2, Existing
  <2>2. CASE UNCHANGED moved
    BY <1>2, <2>2 DEF WorldOK
  <2>3. ASSUME NEW k \in Task, Answered(k) PROVE moved' \subseteq Id
    <3>1. \A n \in DOMAIN waiting : IdOf(waiting[n].obj) \in Id
      BY <1>1, <2>1 DEF MadeInv
    <3>2. QED
      BY <1>2, <2>3, <3>1 DEF Answered, WorldOK
  <2>4. ASSUME NEW o \in Heap, moved' \in {moved, moved \cup {IdOf(o)}} PROVE moved' \subseteq Id
    BY <1>2, <2>1, <2>4 DEF WorldOK
  <2>10. ASSUME NEW k \in Task, NEW i \in Id, CopyEntry(k, i) PROVE moved' \subseteq Id
    <3>1. moved' \in {moved, moved \cup {i}}
      BY <2>10 DEF CopyEntry, UpdateEntry, LoadEntry, LoadCustomEntry
    <3>2. QED
      BY <1>2, <3>1 DEF WorldOK
  <2>5. CASE Download
    BY <2>2, <2>3, <2>5, <2>10 DEF Download, EndList, EndDownload, BeginList
  <2>6. CASE Refresh
    BY <2>2, <2>6 DEF Refresh, StartRefresh, Finished
  <2>7. CASE Handlers
    <3>1. CASE StatusReturns
      BY <2>2, <3>1 DEF StatusReturns
    <3>2. CASE remove \/ AcceptReturns
      <4>1. Top.obj \in Heap
        BY <1>1, <3>2, Resuming DEF remove, AcceptReturns
      <4>2. QED
        BY <2>4, <3>2, <4>1 DEF remove, AcceptReturns
    <3>3. QED
      BY <2>7, <3>1, <3>2 DEF Handlers
  <2>8. CASE User
    <3>1. ASSUME NEW o \in DOMAIN objects, NEW s \in Status, NEW c \in Custom, NEW b \in BOOLEAN,
                 NEW last \in BOOLEAN,
                 \/ UpdateStatus(o, s) \/ UpdateEpisode(o, last)
                 \/ ToggleCustom(o, c) \/ HideDefault(o, b)
          PROVE  moved' \subseteq Id
      BY <2>4, <3>1 DEF UpdateStatus, UpdateEpisode, ToggleCustom, HideDefault, Heap
    <3>2. ASSUME NEW p \in panels, NEW s \in Status, Accept(p, s) PROVE moved' \subseteq Id
      <4>1. p.obj \in Heap
        BY <1>1 DEF MadeInv
      <4>2. QED
        BY <2>2, <2>4, <3>2, <4>1 DEF Accept
    <3>3. ASSUME NEW i \in Id, NEW e \in Start, RemoteChange(i, e) PROVE moved' \subseteq Id
      BY <1>2, <3>3 DEF RemoteChange, WorldOK
    <3>4. ASSUME NEW o \in DOMAIN objects, NEW s \in Status, NEW b \in BOOLEAN,
                 NEW last \in BOOLEAN,
                 UpdateStatus(o, s) \/ UpdateEpisode(o, last) \/ HideDefault(o, b)
          PROVE  moved' \subseteq Id
      BY <2>4, <3>4 DEF UpdateStatus, UpdateEpisode, HideDefault, Heap
    <3>5. QED
      BY <2>2, <2>8, <3>1, <3>2, <3>3, <3>4, Constants
         DEF User, Watch, StopTimer, UpdateNothing, UpdateReturns, DeleteEntry, OpenPanel,
             OpenCard, PaintCard, OpenNew, Browse, BadLookup
  <2>9. QED
    BY <1>1, <2>5, <2>6, <2>7, <2>8 DEF Next
<1>6. server' \in [Id -> Entries]
  <2>1. ASSUME NEW i \in Id, NEW e \in Entries,
               server' \in {server, [server EXCEPT ![i] = e]}
        PROVE  server' \in [Id -> Entries]
    BY <1>2, <2>1 DEF WorldOK
  <2>2. \A i \in Id : server[i] \in Entries
    BY <1>2 DEF WorldOK
  <2>3. \A e \in Entries, s \in Status : WithStatus(e, s) \in Entries
    BY Constants DEF WithStatus, Entries
  <2>4. CASE UNCHANGED server
    BY <1>2, <2>4 DEF WorldOK
  <2>5. \A o \in DOMAIN objects : IdOf(o) \in Id
    BY <1>2, Existing DEF Heap
  <2>6. CASE Download \/ Refresh \/ Handlers
    BY <2>4, <2>6
       DEF Download, Answered, EndList, EndDownload, BeginList, CopyEntry, Refresh, Handlers,
           StartRefresh, Finished, StatusReturns, remove, AcceptReturns
  <2>7. CASE User
    <3>1. ASSUME NEW o \in DOMAIN objects, NEW s \in Status, UpdateStatus(o, s)
          PROVE  server' \in [Id -> Entries]
      BY <2>1, <2>2, <2>3, <2>5, <3>1 DEF UpdateStatus, Tell
    <3>2. ASSUME NEW o \in DOMAIN objects, NEW last \in BOOLEAN,
                 DeleteEntry(o) \/ UpdateEpisode(o, last)
          PROVE  server' \in [Id -> Entries]
      BY <2>1, <2>2, <2>3, <2>5, <3>2, Constants DEF DeleteEntry, UpdateEpisode, Tell
    <3>3. ASSUME NEW e \in Entries, NEW S \in SUBSET List
          PROVE  e # Absent => [e EXCEPT !.lists = S] \in Entries /\ e.lists \subseteq List
                               /\ e.status \in Status
      BY <3>3 DEF Entries
    <3>4. ASSUME NEW o \in DOMAIN objects, NEW c \in Custom, ToggleCustom(o, c)
          PROVE  server' \in [Id -> Entries]
      <4> DEFINE e == server[IdOf(o)]
                 S == IF c \in e.lists THEN e.lists \ {c} ELSE e.lists \cup {c}
      <4>1. e \in Entries
        BY <2>2, <2>5
      <4>2. e # Absent => S \subseteq List
        BY <3>3, <4>1, Constants
      <4>3. (IF e = Absent THEN e ELSE [e EXCEPT !.lists = S]) \in Entries
        BY <3>3, <4>1, <4>2
      <4>4. QED
        BY <2>1, <2>5, <3>4, <4>3 DEF ToggleCustom, Tell
    <3>5. ASSUME NEW o \in DOMAIN objects, NEW b \in BOOLEAN, HideDefault(o, b)
          PROVE  server' \in [Id -> Entries]
      <4> DEFINE e == server[IdOf(o)]
                 S == IF b THEN e.lists \ {e.status} ELSE e.lists \cup {e.status}
      <4>1. e \in Entries
        BY <2>2, <2>5
      <4>2. e # Absent => S \subseteq List
        BY <3>3, <4>1, Constants
      <4>3. (IF e = Absent THEN e ELSE [e EXCEPT !.lists = S]) \in Entries
        BY <3>3, <4>1, <4>2
      <4>4. QED
        BY <2>1, <2>5, <3>5, <4>3 DEF HideDefault, Tell
    <3>6. ASSUME NEW i \in Id, NEW e \in Start, RemoteChange(i, e)
          PROVE  server' \in [Id -> Entries]
      BY <2>1, <3>6, Constants DEF RemoteChange
    <3>7. ASSUME NEW p \in panels, NEW s \in Status, Accept(p, s)
          PROVE  server' \in [Id -> Entries]
      <4>1. p.obj \in DOMAIN objects
        BY <1>1 DEF MadeInv, Heap
      <4>2. [status |-> s, lists |-> {s}] \in Entries
        BY Constants DEF Entries
      <4>3. QED
        BY <2>1, <2>2, <2>3, <2>4, <2>5, <3>7, <4>1, <4>2 DEF Accept, Tell
    <3>8. QED
      BY <2>4, <2>7, <3>1, <3>2, <3>4, <3>5, <3>6, <3>7
         DEF User, Watch, StopTimer, UpdateNothing, UpdateReturns, OpenPanel, OpenCard,
             PaintCard, OpenNew, Browse, BadLookup
  <2>8. QED
    BY <1>1, <2>6, <2>7 DEF Next
<1>7. QED
  BY <1>4, <1>5, <1>6 DEF WorldOK


(* What plays: the timer, and the updates that wait.                        *)
LEMMA WatchOnly ==
    ASSUME Next
    PROVE  \/ UNCHANGED <<watchVars, unwatched>>
           \/ \E o \in Object \cup {0}, timer \in BOOLEAN : Watch(o, timer)
           \/ \E o \in DOMAIN objects, last \in BOOLEAN : UpdateEpisode(o, last)
           \/ StopTimer \/ UpdateNothing \/ UpdateReturns
<1> USE DEF ghostVars
<1>1. CASE Download
  BY <1>1 DEF Download, Answered, EndList, EndDownload, BeginList, CopyEntry
<1>2. CASE Refresh \/ Handlers
  BY <1>2
     DEF Refresh, Handlers, StartRefresh, Finished, StatusReturns, remove, AcceptReturns
<1>3. CASE User
  BY <1>3
     DEF User, UpdateStatus, DeleteEntry, ToggleCustom, HideDefault, RemoteChange,
         OpenPanel, OpenCard, PaintCard, OpenNew, Browse, BadLookup, Accept
<1>4. QED
  BY <1>1, <1>2, <1>3 DEF Next

LEMMA WatchNext == TypeOK /\ Next => WatchOK'
<1>1. SUFFICES ASSUME TypeOK, Next PROVE WatchOK'
  OBVIOUS
<1>2. HeapOK /\ WatchOK /\ MaxWaiting \in Nat
  BY <1>1, UserListsAssumption DEF TypeOK
<1>3. CASE UNCHANGED <<watchVars, unwatched>>
  BY <1>2, <1>3 DEF WatchOK, watchVars
<1>4. ASSUME NEW o \in Object \cup {0}, NEW timer \in BOOLEAN, Watch(o, timer) PROVE WatchOK'
  BY <1>2, <1>4 DEF Watch, WatchOK
<1>5. ASSUME NEW o \in DOMAIN objects, NEW last \in BOOLEAN, UpdateEpisode(o, last)
      PROVE  WatchOK'
  <2>1. updates' \in 0..MaxWaiting
    BY <1>2, <1>5 DEF UpdateEpisode, WatchOK
  <2>2. watch_timer' = FALSE /\ UNCHANGED <<cw_anime, unwatched>>
    BY <1>5 DEF UpdateEpisode
  <2>3. QED
    BY <1>2, <2>1, <2>2 DEF WatchOK
<1>6. CASE StopTimer \/ UpdateNothing
  BY <1>2, <1>6 DEF StopTimer, UpdateNothing, WatchOK, watchVars, ghostVars
<1>7. CASE UpdateReturns
  BY <1>2, <1>7 DEF UpdateReturns, WatchOK, ghostVars
<1>8. QED
  BY <1>1, <1>3, <1>4, <1>5, <1>6, <1>7, WatchOnly

-----------------------------------------------------------------------------
(* The downloads.                                                           *)

(* What a step of the download k does to the downloads.                     *)
LEMMA Steps ==
    ASSUME TasksOK, NEW k \in Task
    PROVE  /\ Answered(k) =>
                 /\ \A j \in Task \ {k} : Alike(tasks'[j], tasks[j])
                 /\ tasks'[k].state = "copying"
                 /\ tasks'[k].list = tasks[k].list /\ tasks'[k].copy = tasks[k].copy
                 /\ tasks'[k].ids = tasks[k].ids /\ tasks'[k].custom = tasks[k].custom
           /\ \A l \in List : BeginList(k, l) =>
                 /\ \A j \in Task \ {k} : Alike(tasks'[j], tasks[j])
                 /\ tasks'[k].list = l /\ tasks'[k].todo = tasks[k].todo
                 /\ tasks'[k].copy = IF k = 1 THEN Empty ELSE user_lists[l]
                 /\ tasks'[k].ids = {i \in Id : l \in tasks[k].answer[i].lists}
                 /\ tasks'[k].answer = tasks[k].answer
                 /\ tasks'[k].state = tasks[k].state /\ tasks'[k].custom = tasks[k].custom
           /\ EndList(k) =>
                 /\ \A j \in Task \ {k} : Alike(tasks'[j], tasks[j])
                 /\ tasks'[k].list = NoList /\ tasks'[k].copy = Empty
                 /\ tasks'[k].ids = {} /\ tasks'[k].state = tasks[k].state
                 /\ \A c \in Custom :
                       tasks'[k].custom[c] \in {tasks[k].custom[c], tasks[k].copy}
           /\ EndDownload(k) =>
                 /\ \A j \in Task \ {k} : Alike(tasks'[j], tasks[j])
                 /\ tasks'[k].list = tasks[k].list /\ tasks'[k].copy = tasks[k].copy
                 /\ tasks'[k].ids = tasks[k].ids /\ tasks'[k].custom = NoTask.custom
           /\ Finished(k) =>
                 /\ \A j \in Task \ {k} : Alike(tasks'[j], tasks[j])
                 /\ tasks'[k].list = NoList /\ tasks'[k].copy = Empty
                 /\ tasks'[k].ids = {} /\ tasks'[k].custom = NoTask.custom
           /\ StartRefresh(k) =>
                 /\ \A j \in Task \ {k} : Alike(tasks'[j], tasks[j])
                 /\ tasks'[k].list = tasks[k].list /\ tasks'[k].copy = tasks[k].copy
                 /\ tasks'[k].ids = tasks[k].ids /\ tasks'[k].custom = tasks[k].custom
                 /\ tasks[k].state = "none" /\ tasks'[k].state = "asking"
           /\ \A i, key, o : Copied(k, i, key, o) =>
                 /\ \A j \in Task \ {k} : Alike(tasks'[j], tasks[j])
                 /\ tasks'[k].list = tasks[k].list /\ tasks'[k].todo = tasks[k].todo
                 /\ tasks'[k].state = tasks[k].state /\ tasks'[k].answer = tasks[k].answer
                 /\ tasks'[k].ids \subseteq tasks[k].ids
                 /\ tasks'[k].custom = tasks[k].custom
                 /\ \A n \in Id :
                       tasks'[k].copy[n] = IF n = key THEN o ELSE tasks[k].copy[n]
<1> DEFINE D == Disturbed(k)
<1>1. /\ D \in [Task -> TaskRecord]
      /\ \A j \in Task : Alike(D[j], tasks[j])
      /\ \A j \in Task : Alike(tasks[j], tasks[j])
      /\ tasks \in [Task -> TaskRecord] /\ tasks[k] \in TaskRecord /\ D[k] \in TaskRecord
  BY Disturbing DEF Alike, TasksOK
<1>2. NoTask.list = NoList /\ NoTask.copy = Empty /\ NoTask.ids = {}
      /\ NoTask.state = "none"
  BY DEF NoTask
<1>3. Answered(k) =>
         tasks' = [D EXCEPT ![k] = [D[k] EXCEPT
             !.state = "copying", !.answer = server,
             !.todo = UNION {server[i].lists : i \in Id},
             !.alone = \A j \in Task \ {k} : ~Running(j)]]
  BY <1>1 DEF Answered
<1>4. EndDownload(k) =>
         tasks' = [D EXCEPT ![k] = [D[k] EXCEPT !.state = "done", !.custom = NoTask.custom]]
  BY <1>1 DEF EndDownload
<1>5. \A i, key, o : Copied(k, i, key, o) =>
         tasks' = [D EXCEPT ![k] = [D[k] EXCEPT !.copy = [D[k].copy EXCEPT ![key] = o],
                                                !.ids = D[k].ids \ {i}]]
  BY <1>1 DEF Copied
<1>6. ASSUME EndList(k)
      PROVE  /\ \A j \in Task \ {k} : Alike(tasks'[j], tasks[j])
             /\ tasks'[k].list = NoList /\ tasks'[k].copy = Empty
             /\ tasks'[k].ids = {} /\ tasks'[k].state = tasks[k].state
             /\ \A c \in Custom :
                   tasks'[k].custom[c] \in {tasks[k].custom[c], tasks[k].copy}
  <2> DEFINE t == tasks[k]
             done == [t EXCEPT !.list = NoList, !.copy = Empty, !.todo = t.todo \ {t.list}]
  <2>1. /\ done.list = NoList /\ done.copy = Empty /\ done.ids = {}
        /\ done.state = t.state /\ done.custom = t.custom
    BY <1>1, <1>6 DEF EndList, TaskRecord
  <2>2. CASE t.list \in Custom
    <3>1. tasks' = [tasks EXCEPT ![k] =
                      [done EXCEPT !.custom = [t.custom EXCEPT ![t.list] = t.copy]]]
      BY <1>6, <2>1, <2>2 DEF EndList
    <3>2. DOMAIN t.custom = Custom
      BY <1>1 DEF TaskRecord
    <3>3. DOMAIN done = DOMAIN t /\ "custom" \in DOMAIN t
      BY <1>1 DEF TaskRecord
    <3> HIDE DEF done
    <3>4. tasks'[k] = [done EXCEPT !.custom = [t.custom EXCEPT ![t.list] = t.copy]]
      BY <1>1, <3>1
    <3>5. /\ tasks'[k].list = done.list /\ tasks'[k].copy = done.copy
          /\ tasks'[k].ids = done.ids /\ tasks'[k].state = done.state
          /\ tasks'[k].custom = [t.custom EXCEPT ![t.list] = t.copy]
      BY <3>3, <3>4
    <3>6. QED
      BY <1>1, <2>1, <3>1, <3>2, <3>5
  <2>3. CASE t.list \notin Custom
    <3>1. tasks' = [D EXCEPT ![k] = done]
      BY <1>6, <2>3 DEF EndList
    <3> HIDE DEF done, D
    <3>2. QED
      BY <1>1, <2>1, <3>1
  <2>4. QED
    BY <2>2, <2>3
<1>7. Finished(k) =>
         /\ \A j \in Task \ {k} : Alike(tasks'[j], tasks[j])
         /\ tasks'[k].list = NoList /\ tasks'[k].copy = Empty
         /\ tasks'[k].ids = {} /\ tasks'[k].custom = NoTask.custom
  BY <1>1 DEF Finished, NoTask
<1>8. StartRefresh(k) =>
         tasks' = [tasks EXCEPT ![k] = [tasks[k] EXCEPT !.state = "asking"]]
  BY <1>1 DEF StartRefresh
<1>9. \A l \in List : BeginList(k, l) =>
         tasks' = [tasks EXCEPT ![k] = [tasks[k] EXCEPT
             !.list = l, !.copy = IF k = 1 THEN Empty ELSE user_lists[l],
             !.ids = {i \in Id : l \in tasks[k].answer[i].lists}]]
  BY <1>1 DEF BeginList
<1> HIDE DEF D
<1>10. Answered(k) =>
         /\ \A j \in Task \ {k} : Alike(tasks'[j], tasks[j])
         /\ tasks'[k].state = "copying"
         /\ tasks'[k].list = tasks[k].list /\ tasks'[k].copy = tasks[k].copy
         /\ tasks'[k].ids = tasks[k].ids /\ tasks'[k].custom = tasks[k].custom
  <2>1. SUFFICES ASSUME Answered(k)
                 PROVE  /\ \A j \in Task \ {k} : Alike(tasks'[j], tasks[j])
                        /\ tasks'[k].state = "copying"
                        /\ tasks'[k].list = tasks[k].list /\ tasks'[k].copy = tasks[k].copy
                        /\ tasks'[k].ids = tasks[k].ids /\ tasks'[k].custom = tasks[k].custom
    OBVIOUS
  <2>2. PICK todo, alone :
           tasks' = [D EXCEPT ![k] = [D[k] EXCEPT
               !.state = "copying", !.answer = server, !.todo = todo, !.alone = alone]]
    BY <1>3, <2>1
  <2>3. /\ tasks'[k].state = "copying"
        /\ tasks'[k].list = D[k].list /\ tasks'[k].copy = D[k].copy
        /\ tasks'[k].ids = D[k].ids /\ tasks'[k].custom = D[k].custom
    BY <1>1, <2>2 DEF TaskRecord
  <2>4. \A j \in Task \ {k} : tasks'[j] = D[j]
    BY <1>1, <2>2
  <2>5. QED
    BY <1>1, <2>3, <2>4 DEF Alike
<1>11. \A l \in List : BeginList(k, l) =>
         /\ \A j \in Task \ {k} : Alike(tasks'[j], tasks[j])
         /\ tasks'[k].list = l /\ tasks'[k].todo = tasks[k].todo
         /\ tasks'[k].copy = IF k = 1 THEN Empty ELSE user_lists[l]
         /\ tasks'[k].ids = {i \in Id : l \in tasks[k].answer[i].lists}
         /\ tasks'[k].answer = tasks[k].answer
         /\ tasks'[k].state = tasks[k].state /\ tasks'[k].custom = tasks[k].custom
  <2>1. SUFFICES ASSUME NEW l \in List, BeginList(k, l)
                 PROVE  /\ \A j \in Task \ {k} : Alike(tasks'[j], tasks[j])
                        /\ tasks'[k].list = l /\ tasks'[k].todo = tasks[k].todo
                        /\ tasks'[k].copy = IF k = 1 THEN Empty ELSE user_lists[l]
                        /\ tasks'[k].ids = {i \in Id : l \in tasks[k].answer[i].lists}
                        /\ tasks'[k].answer = tasks[k].answer
                        /\ tasks'[k].state = tasks[k].state
                        /\ tasks'[k].custom = tasks[k].custom
    OBVIOUS
  <2> DEFINE copy == IF k = 1 THEN Empty ELSE user_lists[l]
             ids == {i \in Id : l \in tasks[k].answer[i].lists}
  <2>2. tasks' = [tasks EXCEPT ![k] = [tasks[k] EXCEPT !.list = l, !.copy = copy, !.ids = ids]]
    BY <1>9, <2>1
  <2> HIDE DEF copy, ids
  <2>3. /\ tasks'[k].list = l /\ tasks'[k].todo = tasks[k].todo
        /\ tasks'[k].copy = copy /\ tasks'[k].ids = ids
        /\ tasks'[k].answer = tasks[k].answer
        /\ tasks'[k].state = tasks[k].state
        /\ tasks'[k].custom = tasks[k].custom
    BY <1>1, <2>2 DEF TaskRecord
  <2>4. \A j \in Task \ {k} : tasks'[j] = tasks[j]
    BY <1>1, <2>2
  <2>5. QED
    BY <1>1, <2>3, <2>4 DEF copy, ids
<1>12. EndDownload(k) =>
         /\ \A j \in Task \ {k} : Alike(tasks'[j], tasks[j])
         /\ tasks'[k].list = tasks[k].list /\ tasks'[k].copy = tasks[k].copy
         /\ tasks'[k].ids = tasks[k].ids /\ tasks'[k].custom = NoTask.custom
  <2>1. SUFFICES ASSUME EndDownload(k)
                 PROVE  /\ \A j \in Task \ {k} : Alike(tasks'[j], tasks[j])
                        /\ tasks'[k].list = tasks[k].list /\ tasks'[k].copy = tasks[k].copy
                        /\ tasks'[k].ids = tasks[k].ids
                        /\ tasks'[k].custom = NoTask.custom
    OBVIOUS
  <2> DEFINE custom == NoTask.custom
  <2>2. tasks' = [D EXCEPT ![k] = [D[k] EXCEPT !.state = "done", !.custom = custom]]
    BY <1>4, <2>1
  <2> HIDE DEF custom
  <2>3. /\ tasks'[k].list = D[k].list /\ tasks'[k].copy = D[k].copy
        /\ tasks'[k].ids = D[k].ids /\ tasks'[k].custom = custom
        /\ \A j \in Task \ {k} : tasks'[j] = D[j]
    BY <1>1, <2>2 DEF TaskRecord
  <2>4. QED
    BY <1>1, <2>3 DEF Alike, custom
<1>13. StartRefresh(k) =>
         /\ \A j \in Task \ {k} : Alike(tasks'[j], tasks[j])
         /\ tasks'[k].list = tasks[k].list /\ tasks'[k].copy = tasks[k].copy
         /\ tasks'[k].ids = tasks[k].ids /\ tasks'[k].custom = tasks[k].custom
         /\ tasks[k].state = "none" /\ tasks'[k].state = "asking"
  BY <1>1, <1>8 DEF Alike, TaskRecord, StartRefresh
<1>14. ASSUME NEW i, NEW key, NEW o, Copied(k, i, key, o)
       PROVE  /\ \A j \in Task \ {k} : Alike(tasks'[j], tasks[j])
              /\ tasks'[k].list = tasks[k].list /\ tasks'[k].todo = tasks[k].todo
              /\ tasks'[k].state = tasks[k].state /\ tasks'[k].answer = tasks[k].answer
              /\ tasks'[k].ids \subseteq tasks[k].ids
              /\ tasks'[k].custom = tasks[k].custom
              /\ \A n \in Id :
                    tasks'[k].copy[n] = IF n = key THEN o ELSE tasks[k].copy[n]
  <2>1. tasks' = [D EXCEPT ![k] = [D[k] EXCEPT !.copy = [D[k].copy EXCEPT ![key] = o],
                                               !.ids = D[k].ids \ {i}]]
    BY <1>5, <1>14
  <2>2. D[k].copy = tasks[k].copy /\ DOMAIN tasks[k].copy = Id
    BY <1>1 DEF Alike, TaskRecord, Slots
  <2>3. tasks'[k] = [D[k] EXCEPT !.copy = [D[k].copy EXCEPT ![key] = o],
                                 !.ids = D[k].ids \ {i}]
    BY <1>1, <2>1
  <2>4. tasks'[k].copy = [tasks[k].copy EXCEPT ![key] = o]
    BY <1>1, <2>2, <2>3 DEF TaskRecord
  <2>5. \A j \in Task \ {k} : Alike(tasks'[j], tasks[j])
    BY <1>1, <2>1
  <2>6. /\ tasks'[k].list = D[k].list /\ tasks'[k].todo = D[k].todo
        /\ tasks'[k].state = D[k].state /\ tasks'[k].answer = D[k].answer
        /\ tasks'[k].ids \subseteq D[k].ids
        /\ tasks'[k].custom = D[k].custom
    BY <1>1, <2>3 DEF TaskRecord
  <2>7. QED
    BY <1>1, <2>2, <2>4, <2>5, <2>6 DEF Alike
<1>15. QED
  BY <1>6, <1>7, <1>10, <1>11, <1>12, <1>13, <1>14

LEMMA TaskInvNext == TypeOK /\ TaskInv /\ Next => TaskInv'
<1> USE DEF heapVars, listVars, viewVars, ghostVars
<1>1. SUFFICES ASSUME TypeOK, TaskInv, Next PROVE TaskInv'
  OBVIOUS
<1> DEFINE P(t) == /\ t.list # NoList => t.list \in t.todo /\ t.state = "copying"
                   /\ t.list = NoList => t.copy = Empty /\ t.ids = {}
                   /\ t.state # "copying" => t.custom = NoTask.custom
                   /\ \A i \in t.ids : t.answer[i].status \in Status
<1>2. TasksOK /\ \A k \in Task : P(tasks[k])
  BY <1>1 DEF TypeOK, TaskInv
<1>3. \A s, t : Alike(s, t) /\ P(t) => P(s)
  BY DEF Alike
<1>4. ASSUME NEW k \in Task, P(tasks'[k]),
             \A j \in Task \ {k} : Alike(tasks'[j], tasks[j])
      PROVE  TaskInv'
  <2>1. \A j \in Task : P(tasks'[j])
    BY <1>2, <1>3, <1>4
  <2>2. QED
    BY <2>1 DEF TaskInv
<1>5. CASE tasks' = tasks \/ tasks' = Disturbed(0)
  <2>1. \A j \in Task : Alike(tasks'[j], tasks[j])
    BY <1>2, <1>5, Disturbing DEF Alike
  <2>2. \A j \in Task : P(tasks'[j])
    BY <1>2, <1>3, <2>1
  <2>3. QED
    BY <2>2 DEF TaskInv
<1>6. CASE Download
  <2>1. ASSUME NEW k \in Task, Answered(k) PROVE TaskInv'
    <3>1. tasks[k].list = NoList
      BY <1>2, <2>1 DEF Answered
    <3>2. P(tasks'[k])
      BY <1>2, <2>1, <3>1, Steps
    <3>3. QED
      BY <1>2, <1>4, <2>1, <3>2, Steps
  <2>2. ASSUME NEW k \in Task, NEW l \in List, BeginList(k, l) PROVE TaskInv'
    <3>1. \A i \in Id : l \in tasks[k].answer[i].lists => tasks[k].answer[i].status \in Status
      BY <1>2 DEF TasksOK, TaskRecord, Entries, Absent
    <3>2. P(tasks'[k])
      <4>1. /\ tasks'[k].list = l /\ tasks'[k].todo = tasks[k].todo
            /\ tasks'[k].ids = {i \in Id : l \in tasks[k].answer[i].lists}
            /\ tasks'[k].answer = tasks[k].answer /\ tasks'[k].state = tasks[k].state
        BY <1>2, <2>2, Steps
      <4>2. tasks[k].state = "copying" /\ l \in tasks[k].todo /\ l # NoList
        BY <2>2, Constants DEF BeginList
      <4>3. \A i \in tasks'[k].ids : tasks'[k].answer[i].status \in Status
        BY <3>1, <4>1
      <4>4. QED
        BY <4>1, <4>2, <4>3
    <3>3. QED
      BY <1>2, <1>4, <2>2, <3>2, Steps
  <2>3. ASSUME NEW k \in Task, NEW i \in Id, CopyEntry(k, i) PROVE TaskInv'
    <3>1. PICK key, o : Copied(k, i, key, o)
      BY <2>3 DEF CopyEntry, UpdateEntry, LoadEntry, LoadCustomEntry
    <3>2. /\ \A j \in Task \ {k} : Alike(tasks'[j], tasks[j])
          /\ tasks'[k].list = tasks[k].list /\ tasks'[k].todo = tasks[k].todo
          /\ tasks'[k].state = tasks[k].state /\ tasks'[k].answer = tasks[k].answer
          /\ tasks'[k].ids \subseteq tasks[k].ids
          /\ tasks'[k].custom = tasks[k].custom
      BY <1>2, <3>1, Steps
    <3>3. tasks[k].list # NoList
      BY <1>2, <2>3 DEF CopyEntry
    <3>4. P(tasks'[k])
      BY <1>2, <3>2, <3>3
    <3>5. QED
      BY <1>4, <3>2, <3>4
  <2>4. ASSUME NEW k \in Task, EndList(k) PROVE TaskInv'
    <3>1. tasks[k].state = "copying"
      BY <1>2, <2>4 DEF EndList
    <3>2. P(tasks'[k])
      BY <1>2, <2>4, <3>1, Steps
    <3>3. QED
      BY <1>2, <1>4, <2>4, <3>2, Steps
  <2>5. ASSUME NEW k \in Task, EndDownload(k) PROVE TaskInv'
    <3>1. tasks[k].list = NoList
      BY <1>2, <2>5 DEF EndDownload
    <3>2. P(tasks'[k])
      BY <1>2, <2>5, <3>1, Steps
    <3>3. QED
      BY <1>2, <1>4, <2>5, <3>2, Steps
  <2>6. QED
    BY <1>6, <2>1, <2>2, <2>3, <2>4, <2>5 DEF Download
<1>7. CASE Refresh
  <2>1. ASSUME NEW k \in Task, Finished(k) PROVE TaskInv'
    <3>1. P(tasks'[k])
      BY <1>2, <2>1, Steps
    <3>2. QED
      BY <1>2, <1>4, <2>1, <3>1, Steps
  <2>2. ASSUME NEW k \in Task, StartRefresh(k) PROVE TaskInv'
    <3>1. tasks[k].list = NoList /\ tasks[k].ids = {}
      BY <1>2, <2>2 DEF StartRefresh
    <3>2. P(tasks'[k])
      BY <1>2, <2>2, <3>1, Steps
    <3>3. QED
      BY <1>2, <1>4, <2>2, <3>2, Steps
  <2>3. QED
    BY <1>7, <2>1, <2>2 DEF Refresh
<1>8. CASE Handlers \/ User
  BY <1>5, <1>8
     DEF Handlers, User, Disturb, StatusReturns, remove, AcceptReturns, UpdateStatus,
         DeleteEntry, UpdateEpisode, Watch, StopTimer, UpdateNothing, UpdateReturns,
         ToggleCustom, HideDefault, RemoteChange, OpenPanel, OpenCard, PaintCard, OpenNew,
         Browse, BadLookup, Accept
<1>9. QED
  BY <1>1, <1>6, <1>7, <1>8 DEF Next

(* Where the entries of the copies and of the lists come from in a step.    *)
Fresh(o, i) == o \in anime_list' \cap Heap' /\ objects'[o].id = i
CopiedFrom(k) ==
    /\ \A i \in Id :
          \/ tasks'[k].copy[i] \in {0, tasks[k].copy[i]}
          \/ \E l \in List : tasks'[k].copy[i] = user_lists[l][i]
          \/ Fresh(tasks'[k].copy[i], i)
    /\ \A c \in Custom, i \in Id :
          tasks'[k].custom[c][i] \in {0, tasks[k].custom[c][i], tasks[k].copy[i]}
ListedFrom ==
    \A l \in List, i \in Id :
        \/ user_lists'[l][i] \in {0, user_lists[l][i]}
        \/ \E k \in Task : user_lists'[l][i] = tasks[k].copy[i]
        \/ \E k \in Task, c \in Custom : user_lists'[l][i] = tasks[k].custom[c][i]
        \/ Fresh(user_lists'[l][i], i)

LEMMA Copying ==
    ASSUME TypeOK, MadeInv, TaskInv, Next
    PROVE  \A j \in Task : CopiedFrom(j)
<1> USE DEF heapVars, listVars, viewVars, ghostVars
<1>1. HeapOK /\ TasksOK /\ ListsOK /\ Grows
  BY HeapNext DEF TypeOK
<1>2. \A j \in Task : Alike(tasks'[j], tasks[j]) => CopiedFrom(j)
  BY DEF Alike, CopiedFrom
<1>3. \A i \in Id : Empty[i] = 0 /\ \A c \in Custom : NoTask.custom[c][i] = 0
  BY DEF NoTask, Empty
<1>4. CASE tasks' = tasks \/ tasks' = Disturbed(0)
  <2>1. \A j \in Task : Alike(tasks'[j], tasks[j])
    BY <1>1, <1>4, Disturbing DEF Alike
  <2>2. QED
    BY <1>2, <2>1
<1>5. ASSUME NEW k \in Task, CopiedFrom(k),
             \A j \in Task \ {k} : Alike(tasks'[j], tasks[j])
      PROVE  \A j \in Task : CopiedFrom(j)
  BY <1>2, <1>5
<1>6. CASE Download
  <2>1. ASSUME NEW k \in Task, Answered(k) PROVE \A j \in Task : CopiedFrom(j)
    <3>1. CopiedFrom(k)
      BY <1>1, <2>1, Steps DEF CopiedFrom
    <3>2. QED
      BY <1>1, <1>5, <2>1, <3>1, Steps
  <2>2. ASSUME NEW k \in Task, NEW l \in List, BeginList(k, l)
        PROVE  \A j \in Task : CopiedFrom(j)
    <3>1. CopiedFrom(k)
      BY <1>1, <1>3, <2>2, Steps DEF CopiedFrom
    <3>2. QED
      BY <1>1, <1>5, <2>2, <3>1, Steps
  <2>3. ASSUME NEW k \in Task, NEW i \in Id, NEW key \in Id, NEW o,
               Copied(k, i, key, o),
               \/ o \in {0, tasks[k].copy[key]}
               \/ \E l \in List : o = user_lists[l][key]
               \/ Fresh(o, key)
        PROVE  \A j \in Task : CopiedFrom(j)
    <3>1. /\ tasks'[k].custom = tasks[k].custom
          /\ \A n \in Id : tasks'[k].copy[n] = IF n = key THEN o ELSE tasks[k].copy[n]
      BY <1>1, <2>3, Steps
    <3>2. CopiedFrom(k)
      BY <2>3, <3>1 DEF CopiedFrom
    <3>3. QED
      BY <1>1, <1>5, <2>3, <3>2, Steps
  <2>4. ASSUME NEW k \in Task, NEW i \in Id, CopyEntry(k, i)
        PROVE  \A j \in Task : CopiedFrom(j)
    <3>1. tasks[k].answer[i].status \in Status
      BY <2>4 DEF TaskInv, CopyEntry
    <3>2. ASSUME New(i, tasks[k].answer[i].status), made \in anime_list'
          PROVE  Fresh(made, i)
      BY <1>1, <3>1, <3>2, Making DEF Fresh
    <3>3. CASE UpdateEntry(k, i)
      <4>1. CASE tasks[k].copy[i] # 0
        BY <2>3, <3>3, <4>1 DEF UpdateEntry
      <4>2. CASE tasks[k].copy[i] = 0
        BY <2>3, <3>2, <3>3, <4>2 DEF UpdateEntry
      <4>3. QED
        BY <4>1, <4>2
    <3>4. CASE LoadEntry(k, i)
      BY <2>3, <3>2, <3>4 DEF LoadEntry
    <3>5. CASE LoadCustomEntry(k, i)
      <4> DEFINE listed == user_lists[tasks[k].answer[i].status][i]
      <4>1. ASSUME NEW o \in anime_list, Copied(k, i, IdOf(o), o), UNCHANGED anime_list
            PROVE  \A j \in Task : CopiedFrom(j)
        <5>1. o \in Heap /\ IdOf(o) \in Id
          BY <1>1, Existing DEF MadeInv
        <5>2. Fresh(o, IdOf(o))
          BY <1>1, <4>1, <5>1 DEF Fresh, Grows, IdOf
        <5>3. QED
          BY <2>3, <4>1, <5>1, <5>2
      <4>2. ASSUME listed # 0, Copied(k, i, IdOf(listed), listed)
            PROVE  \A j \in Task : CopiedFrom(j)
        <5>1. IdOf(listed) = i
          BY <3>1, <4>2, Constants DEF MadeInv, FitsIn, IdOf
        <5>2. \E l \in List : listed = user_lists[l][i]
          BY <3>1, Constants
        <5>3. QED
          BY <2>3, <4>2, <5>1, <5>2
      <4>3. ASSUME New(i, tasks[k].answer[i].status), Copied(k, i, i, made),
                   anime_list' = anime_list \cup {made}
            PROVE  \A j \in Task : CopiedFrom(j)
        BY <2>3, <3>2, <4>3
      <4>4. QED
        BY <3>5, <4>1, <4>2, <4>3 DEF LoadCustomEntry
    <3>6. QED
      BY <2>4, <3>3, <3>4, <3>5 DEF CopyEntry
  <2>5. ASSUME NEW k \in Task, EndList(k) PROVE \A j \in Task : CopiedFrom(j)
    <3>1. CopiedFrom(k)
      BY <1>1, <1>3, <2>5, Steps DEF CopiedFrom
    <3>2. QED
      BY <1>1, <1>5, <2>5, <3>1, Steps
  <2>6. ASSUME NEW k \in Task, EndDownload(k) PROVE \A j \in Task : CopiedFrom(j)
    <3>1. CopiedFrom(k)
      BY <1>1, <1>3, <2>6, Steps DEF CopiedFrom
    <3>2. QED
      BY <1>1, <1>5, <2>6, <3>1, Steps
  <2>7. QED
    BY <1>6, <2>1, <2>2, <2>4, <2>5, <2>6 DEF Download
<1>7. CASE Refresh
  <2>1. ASSUME NEW k \in Task, Finished(k) \/ StartRefresh(k)
        PROVE  \A j \in Task : CopiedFrom(j)
    <3>1. CopiedFrom(k)
      BY <1>1, <1>3, <2>1, Steps DEF CopiedFrom
    <3>2. QED
      BY <1>1, <1>5, <2>1, <3>1, Steps
  <2>2. QED
    BY <1>7, <2>1 DEF Refresh
<1>8. CASE Handlers \/ User
  BY <1>4, <1>8
     DEF Handlers, User, Disturb, StatusReturns, remove, AcceptReturns, UpdateStatus,
         DeleteEntry, UpdateEpisode, Watch, StopTimer, UpdateNothing, UpdateReturns,
         ToggleCustom, HideDefault, RemoteChange, OpenPanel, OpenCard, PaintCard, OpenNew,
         Browse, BadLookup, Accept
<1>9. QED
  BY <1>6, <1>7, <1>8 DEF Next

LEMMA Listing ==
    ASSUME TypeOK, MadeInv, TaskInv, Next
    PROVE  ListedFrom
<1> USE DEF heapVars, listVars, viewVars, ghostVars
<1>1. HeapOK /\ TasksOK /\ ListsOK /\ Grows
  BY HeapNext DEF TypeOK
<1>2. CASE UNCHANGED user_lists
  BY <1>2 DEF ListedFrom
<1>3. ASSUME NEW k \in Task, EndList(k) PROVE ListedFrom
  <2>1. user_lists' \in {user_lists, [user_lists EXCEPT ![tasks[k].list] = tasks[k].copy]}
    BY <1>3 DEF EndList
  <2>2. QED
    BY <1>1, <2>1 DEF ListsOK, ListedFrom
<1>4. ASSUME NEW k \in Task, EndDownload(k) PROVE ListedFrom
  <2>1. \A l \in List : user_lists'[l] = IF l \in Custom THEN tasks[k].custom[l]
                                         ELSE user_lists[l]
    BY <1>4 DEF EndDownload
  <2>2. QED
    BY <2>1 DEF ListedFrom
<1>5. CASE Download
  BY <1>2, <1>3, <1>4, <1>5 DEF Download, Answered, BeginList, CopyEntry
<1>6. CASE Refresh
  BY <1>2, <1>6 DEF Refresh, StartRefresh, Finished
<1>7. CASE StatusReturns
  <2>1. IdOf(Top.obj) \in Id
    BY <1>1, <1>7, Resuming, Existing DEF StatusReturns
  <2>2. user_lists' \in {user_lists, removeFromList(Top.old, IdOf(Top.obj))}
    BY <1>7 DEF StatusReturns
  <2>3. QED
    BY <1>1, <2>1, <2>2, Removing DEF ListedFrom
<1>8. CASE remove
  <2>1. user_lists' \in
           {user_lists, [l \in List |-> [user_lists[l] EXCEPT ![IdOf(Top.obj)] = 0]]}
    BY <1>8 DEF remove
  <2>2. QED
    BY <1>1, <2>1 DEF ListsOK, Slots, ListedFrom
<1>9. CASE AcceptReturns
  <2>1. Top.obj \in Heap
    BY <1>9, Resuming DEF AcceptReturns
  <2>2. CASE user_lists' = Moved(Top.old, Top.obj) /\ Top.obj \in anime_list'
    <3>1. Fresh(Top.obj, IdOf(Top.obj))
      BY <1>1, <2>1, <2>2 DEF Fresh, Grows, IdOf
    <3>2. QED
      BY <1>1, <2>1, <2>2, <3>1, MovedIs DEF ListedFrom
  <2>3. QED
    BY <1>2, <1>9, <2>2 DEF AcceptReturns, Moved
<1>10. ASSUME NEW o \in DOMAIN objects, NEW b \in BOOLEAN, HideDefault(o, b)
       PROVE  ListedFrom
  <2>1. IdOf(o) \in Id
    BY <1>1, Existing DEF Heap
  <2>2. user_lists' \in {user_lists, removeFromList(StatusOf(o), IdOf(o))}
    BY <1>10 DEF HideDefault
  <2>3. QED
    BY <1>1, <2>1, <2>2, Removing DEF ListedFrom
<1>11. CASE User
  BY <1>2, <1>10, <1>11
     DEF User, UpdateStatus, DeleteEntry, UpdateEpisode, Watch, StopTimer, UpdateNothing,
         UpdateReturns, ToggleCustom, RemoteChange, OpenPanel, OpenCard, PaintCard,
         OpenNew, Browse, BadLookup, Accept
<1>12. QED
  BY <1>5, <1>6, <1>7, <1>8, <1>9, <1>11 DEF Next, Handlers

-----------------------------------------------------------------------------
(* Whatever is referred to was made.                                        *)

LEMMA MadeNext == TypeOK /\ MadeInv /\ TaskInv /\ Next => MadeInv'
<1> USE DEF heapVars, listVars, viewVars, ghostVars
<1>1. SUFFICES ASSUME TypeOK, MadeInv, TaskInv, Next PROVE MadeInv'
  OBVIOUS
<1>2. HeapOK /\ TasksOK /\ ListsOK /\ Grows
  BY <1>1, HeapNext DEF TypeOK
<1>3. /\ dead \subseteq Heap' /\ anime_list \subseteq Heap' /\ cards \subseteq Heap'
      /\ \A p \in panels : p.obj \in Heap'
      /\ \A n \in DOMAIN waiting : waiting[n].obj \in Heap'
  BY <1>1, <1>2 DEF MadeInv, Grows
<1>4. \A o : o \in Heap => o \in Heap'
  BY <1>2 DEF Grows
<1>5. ASSUME NEW i \in Id, NEW s \in Status \cup {NoStatus}, New(i, s) PROVE made \in Heap'
  BY <1>2, <1>5, Making
<1>6. dead' \subseteq Heap' /\ anime_list' \subseteq Heap'
  <2>1. CASE UNCHANGED <<dead, anime_list>>
    BY <1>3, <2>1
  <2>2. ASSUME NEW k \in Task, NEW i \in Id, CopyEntry(k, i)
        PROVE  dead' \subseteq Heap' /\ anime_list' \subseteq Heap'
    <3>1. tasks[k].answer[i].status \in Status
      BY <1>1, <2>2 DEF TaskInv, CopyEntry
    <3>2. New(i, tasks[k].answer[i].status) => made \in Heap'
      BY <1>5, <3>1
    <3>3. CASE UpdateEntry(k, i)
      <4>1. tasks[k].copy[i] # 0 => tasks[k].copy[i] \in Heap'
        BY <1>1, <1>4 DEF MadeInv, FitsIn, Heap
      <4>2. QED
        BY <1>3, <3>2, <3>3, <4>1 DEF UpdateEntry
    <3>4. CASE LoadEntry(k, i)
      BY <1>3, <3>2, <3>4 DEF LoadEntry
    <3>5. CASE LoadCustomEntry(k, i)
      BY <1>3, <3>2, <3>5 DEF LoadCustomEntry
    <3>6. QED
      BY <2>2, <3>3, <3>4, <3>5 DEF CopyEntry
  <2>3. CASE Download
    BY <1>3, <2>1, <2>2, <2>3 DEF Download, Answered, EndList, EndDownload, BeginList
  <2>4. CASE Refresh
    BY <2>1, <2>4 DEF Refresh, StartRefresh, Finished
  <2>5. CASE Handlers
    <3>1. CASE remove \/ AcceptReturns
      <4>1. Top.obj \in Heap'
        BY <1>1, <1>4, <3>1, Resuming DEF remove, AcceptReturns
      <4>2. QED
        BY <1>3, <3>1, <4>1 DEF remove, AcceptReturns
    <3>2. QED
      BY <2>1, <2>5, <3>1 DEF Handlers, StatusReturns
  <2>6. CASE User
    BY <2>1, <2>6
       DEF User, UpdateStatus, DeleteEntry, UpdateEpisode, Watch, StopTimer,
           UpdateNothing, UpdateReturns, ToggleCustom, HideDefault, RemoteChange,
           OpenPanel, OpenCard, PaintCard, OpenNew, Browse, BadLookup, Accept
  <2>7. QED
    BY <1>1, <2>3, <2>4, <2>5, <2>6 DEF Next
<1>7. /\ cards' \subseteq Heap'
      /\ \A p \in panels' : p.obj \in Heap'
      /\ \A n \in DOMAIN waiting' : waiting'[n].obj \in Heap'
  <2>1. CASE UNCHANGED <<cards, panels, waiting>>
    BY <1>3, <2>1
  <2>2. CASE Download \/ Refresh
    <3>1. CASE Refresh
      BY <2>1, <3>1 DEF Refresh, StartRefresh, Finished
    <3>2. ASSUME NEW k \in Task, Answered(k) PROVE UNCHANGED <<cards, panels, waiting>>
      BY <3>2 DEF Answered
    <3>3. ASSUME NEW k \in Task, NEW i \in Id, CopyEntry(k, i)
          PROVE  UNCHANGED <<cards, panels, waiting>>
      BY <3>3 DEF CopyEntry
    <3>4. ASSUME NEW k \in Task, EndList(k) \/ EndDownload(k) \/ \E l \in List : BeginList(k, l)
          PROVE  UNCHANGED <<cards, panels, waiting>>
      BY <3>4 DEF EndList, EndDownload, BeginList
    <3>5. CASE Download
      BY <2>1, <3>2, <3>3, <3>4, <3>5 DEF Download
    <3>6. QED
      BY <2>2, <3>1, <3>5
  <2>3. CASE Handlers
    <3>1. \A n \in DOMAIN waiting' : n \in DOMAIN waiting /\ waiting'[n] = waiting[n]
      BY <1>1, <2>3, Resuming DEF Handlers, StatusReturns, remove, AcceptReturns
    <3>2. UNCHANGED <<cards, panels>>
      BY <2>3 DEF Handlers, StatusReturns, remove, AcceptReturns
    <3>3. QED
      BY <1>3, <3>1, <3>2
  <2>4. ASSUME NEW op \in {"status", "remove", "accept"}, NEW o \in Heap,
               NEW old \in Status \cup {NoStatus}, NEW mover \in BOOLEAN,
               Wait(op, o, old, mover)
        PROVE  \A n \in DOMAIN waiting' : waiting'[n].obj \in Heap'
    BY <1>1, <1>2, <1>3, <1>4, <2>4, Suspending, Existing
  <2>5. ASSUME NEW o \in DOMAIN objects, NEW s \in Status, UpdateStatus(o, s)
        PROVE  \A n \in DOMAIN waiting' : waiting'[n].obj \in Heap'
    <3>1. o \in Heap /\ StatusOf(o) \in Status \cup {NoStatus}
      BY <1>2, Existing DEF Heap
    <3>2. QED
      BY <2>4, <2>5, <3>1 DEF UpdateStatus
  <2>6. ASSUME NEW o \in DOMAIN objects, DeleteEntry(o)
        PROVE  \A n \in DOMAIN waiting' : waiting'[n].obj \in Heap'
    BY <2>4, <2>6 DEF DeleteEntry, Heap
  <2>7. ASSUME NEW o \in DOMAIN objects, OpenPanel(o) \/ OpenCard(o)
        PROVE  \A p \in panels' : p.obj \in Heap'
    BY <1>4, <2>7 DEF OpenPanel, OpenCard, Panel, Heap
  <2>8. ASSUME NEW i \in Id, OpenNew(i) PROVE \A p \in panels' : p.obj \in Heap'
    BY <1>5, <2>8 DEF OpenNew, Panel
  <2>9. ASSUME NEW i \in Id, Browse(i)
        PROVE  cards' \subseteq Heap' /\ panels' \subseteq panels
    BY <1>3, <1>5, <2>9 DEF Browse, Found
  <2>10. ASSUME NEW p \in panels, NEW s \in Status, Accept(p, s)
         PROVE  /\ panels' \subseteq panels
                /\ \A n \in DOMAIN waiting' : waiting'[n].obj \in Heap'
    <3>1. p.obj \in Heap /\ p.old \in Status \cup {NoStatus} /\ p.mover \in BOOLEAN
      BY <1>1 DEF MadeInv, TypeOK, ViewOK, PanelRecord
    <3>2. QED
      BY <1>3, <2>4, <2>10, <3>1 DEF Accept
  <2>11. CASE User
    <3>1. cards' \subseteq Heap'
      BY <1>3, <2>9, <2>11
         DEF User, UpdateStatus, DeleteEntry, UpdateEpisode, Watch, StopTimer,
             UpdateNothing, UpdateReturns, ToggleCustom, HideDefault, RemoteChange,
             OpenPanel, OpenCard, PaintCard, OpenNew, BadLookup, Accept
    <3>2. \A p \in panels' : p.obj \in Heap'
      BY <1>3, <2>7, <2>8, <2>9, <2>10, <2>11
         DEF User, UpdateStatus, DeleteEntry, UpdateEpisode, Watch, StopTimer,
             UpdateNothing, UpdateReturns, ToggleCustom, HideDefault, RemoteChange,
             PaintCard, BadLookup
    <3>3. \A n \in DOMAIN waiting' : waiting'[n].obj \in Heap'
      BY <1>3, <2>5, <2>6, <2>10, <2>11
         DEF User, UpdateEpisode, Watch, StopTimer, UpdateNothing, UpdateReturns,
             ToggleCustom, HideDefault, RemoteChange, OpenPanel, OpenCard, PaintCard,
             OpenNew, Browse, BadLookup
    <3>4. QED
      BY <3>1, <3>2, <3>3
  <2>12. QED
    BY <1>1, <2>2, <2>3, <2>11 DEF Next
<1>8. \A f : FitsIn(f, objects) => FitsIn(f, objects')
  BY <1>2 DEF FitsIn, Grows, Heap
<1>9. \A l \in List : FitsIn(user_lists[l], objects')
  BY <1>1, <1>8 DEF MadeInv
<1>10. \A k \in Task : FitsIn(tasks[k].copy, objects')
  BY <1>1, <1>8 DEF MadeInv
<1>11. \A k \in Task, c \in Custom : FitsIn(tasks[k].custom[c], objects')
  BY <1>1, <1>8 DEF MadeInv
<1>12. ASSUME NEW k \in Task PROVE FitsIn(tasks'[k].copy, objects')
  <2>1. CopiedFrom(k)
    BY <1>1, Copying
  <2>2. QED
    BY <1>9, <1>10, <2>1 DEF CopiedFrom, FitsIn, Fresh, Heap
<1>13. ASSUME NEW k \in Task, NEW c \in Custom PROVE FitsIn(tasks'[k].custom[c], objects')
  <2>1. CopiedFrom(k)
    BY <1>1, Copying
  <2>2. QED
    BY <1>10, <1>11, <2>1 DEF CopiedFrom, FitsIn
<1>14. ASSUME NEW l \in List PROVE FitsIn(user_lists'[l], objects')
  <2>1. ListedFrom
    BY <1>1, Listing
  <2>2. QED
    BY <1>9, <1>10, <1>11, <2>1 DEF ListedFrom, FitsIn, Fresh, Heap
<1>15. QED
  BY <1>6, <1>7, <1>12, <1>13, <1>14 DEF MadeInv

-----------------------------------------------------------------------------
(* What is deleted, and when.                                               *)

LEMMA CausesStay ==
    TypeOK /\ Next => /\ crossed = TRUE => crossed' = TRUE
                      /\ orphaned = TRUE => orphaned' = TRUE
                      /\ unwatched = TRUE => unwatched' = TRUE
<1> USE DEF heapVars, listVars, viewVars, ghostVars
<1> DEFINE Stay == /\ crossed = TRUE => crossed' = TRUE
                   /\ orphaned = TRUE => orphaned' = TRUE
                   /\ unwatched = TRUE => unwatched' = TRUE
<1>1. SUFFICES ASSUME TypeOK, Next PROVE Stay
  OBVIOUS
<1>2. crossed \in BOOLEAN /\ orphaned \in BOOLEAN /\ unwatched \in BOOLEAN
  BY <1>1 DEF TypeOK, WorldOK, WatchOK
<1>3. ASSUME NEW k \in Task, NEW i \in Id, CopyEntry(k, i)
      PROVE  /\ crossed = TRUE => crossed' = TRUE
             /\ orphaned' = orphaned /\ unwatched' = unwatched
  BY <1>2, <1>3, Zenon DEF CopyEntry, UpdateEntry, LoadEntry, LoadCustomEntry
<1>4. CASE Download
  <2>1. ASSUME NEW k \in Task, Answered(k)
        PROVE  /\ crossed = TRUE => crossed' = TRUE
               /\ orphaned' = orphaned /\ unwatched' = unwatched
    BY <1>2, <2>1 DEF Answered
  <2>2. QED
    BY <1>2, <1>3, <1>4, <2>1 DEF Download, EndList, EndDownload, BeginList
<1>5. CASE Refresh \/ Handlers
  BY <1>2, <1>5
     DEF Refresh, Handlers, StartRefresh, Finished, StatusReturns, remove, AcceptReturns
<1>6. CASE User
  BY <1>2, <1>6
     DEF User, UpdateStatus, DeleteEntry, UpdateEpisode, Watch, StopTimer, UpdateNothing,
         UpdateReturns, ToggleCustom, HideDefault, RemoteChange, OpenPanel, OpenCard,
         PaintCard, OpenNew, Browse, BadLookup, Accept
<1>7. QED
  BY <1>1, <1>4, <1>5, <1>6 DEF Next

(* Without a deletion that meets a download, only User::remove deletes, and *)
(* nothing that is deleted gets into anime_list.                            *)
LEMMA Deleting ==
    ASSUME TypeOK, MadeInv, TaskInv, ListedInv, Next, ~crossed'
    PROVE  \/ remove /\ Top.obj \notin dead
           \/ /\ dead' = dead /\ anime_list \subseteq anime_list'
              /\ anime_list' \cap dead = {}
              /\ \/ rows' = rows
                 \/ rows' = {i \in Id : \E l \in List : user_lists'[l][i] # 0}
<1> USE DEF heapVars, listVars, viewVars, ghostVars
<1> DEFINE Goal == /\ dead' = dead /\ anime_list \subseteq anime_list'
                   /\ anime_list' \cap dead = {}
                   /\ \/ rows' = rows
                      \/ rows' = {i \in Id : \E l \in List : user_lists'[l][i] # 0}
<1>1. HeapOK /\ TasksOK /\ ListsOK /\ ~crossed /\ dead \subseteq Heap
  BY CausesStay DEF TypeOK, MadeInv
<1>2. /\ anime_list \cap dead = {}
      /\ \A l \in List : ListedIn(user_lists[l], anime_list)
      /\ \A k \in Task : ListedIn(tasks[k].copy, anime_list)
  BY <1>1 DEF ListedInv
<1>3. CASE /\ UNCHANGED <<dead, anime_list>>
           /\ \/ rows' = rows
              \/ \E deleted : userListLoaded(user_lists', deleted)
  BY <1>2, <1>3 DEF userListLoaded
<1>4. ASSUME NEW i \in Id, NEW s \in Status, New(i, s)
      PROVE  made \notin dead
  BY <1>1, <1>4, Making
<1>5. CASE Download
  <2>1. ASSUME NEW k \in Task, Answered(k) PROVE Goal
    BY <1>2, <2>1 DEF Answered
  <2>2. ASSUME NEW k \in Task, NEW i \in Id, CopyEntry(k, i) PROVE Goal
    <3>1. tasks[k].answer[i].status \in Status /\ rows' = rows
      BY <2>2 DEF TaskInv, CopyEntry
    <3>2. New(i, tasks[k].answer[i].status) => made \notin dead
      BY <1>4, <3>1
    <3>3. CASE UpdateEntry(k, i)
      <4>1. tasks[k].copy[i] # 0 => tasks[k].copy[i] \notin dead
        BY <1>2 DEF ListedIn
      <4>2. QED
        BY <1>2, <3>1, <3>2, <3>3, <4>1 DEF UpdateEntry
    <3>4. CASE LoadEntry(k, i)
      BY <1>2, <3>1, <3>2, <3>4 DEF LoadEntry
    <3>5. CASE LoadCustomEntry(k, i)
      BY <1>2, <3>1, <3>2, <3>5 DEF LoadCustomEntry
    <3>6. QED
      BY <2>2, <3>3, <3>4, <3>5 DEF CopyEntry
  <2>3. QED
    BY <1>3, <1>5, <2>1, <2>2 DEF Download, EndList, EndDownload, BeginList
<1>6. CASE Refresh
  BY <1>3, <1>6 DEF Refresh, StartRefresh, Finished
<1>7. CASE StatusReturns
  BY <1>3, <1>7 DEF StatusReturns
<1>8. CASE remove
  BY <1>3, <1>8 DEF remove
<1>9. CASE AcceptReturns
  BY <1>2, <1>3, <1>9 DEF AcceptReturns, userListLoaded
<1>10. CASE User
  BY <1>3, <1>10
     DEF User, UpdateStatus, DeleteEntry, UpdateEpisode, Watch, StopTimer, UpdateNothing,
         UpdateReturns, ToggleCustom, HideDefault, RemoteChange, OpenPanel, OpenCard,
         PaintCard, OpenNew, Browse, BadLookup, Accept
<1>11. QED
  BY <1>5, <1>6, <1>7, <1>8, <1>9, <1>10 DEF Next, Handlers

(* User::remove, when no download runs.                                     *)
LEMMA Removal ==
    ASSUME TypeOK, MadeInv, TaskInv, ListedInv, remove, Top.obj \notin dead, ~crossed'
    PROVE  /\ dead' = dead \cup {Top.obj} /\ anime_list' = anime_list \ {Top.obj}
           /\ \A l \in List : ListedIn(user_lists'[l], anime_list')
           /\ \A k \in Task : /\ \A i \in Id : tasks'[k].copy[i] = 0
                              /\ \A c \in Custom, i \in Id : tasks'[k].custom[c][i] = 0
           /\ rows' = {i \in Id : \E l \in List : user_lists'[l][i] # 0}
           /\ ~orphaned' => ~Held(Top.obj)
<1>1. HeapOK /\ TasksOK /\ ListsOK
  BY DEF TypeOK
<1>2. Top.obj \in Heap
  BY Resuming DEF remove
<1>3. ~crossed /\ ~SomeRunning
  BY DEF remove
<1>4. /\ dead' = dead \cup {Top.obj} /\ anime_list' = anime_list \ {Top.obj}
      /\ rows' = {i \in Id : \E l \in List : user_lists'[l][i] # 0}
      /\ ~orphaned' => ~Held(Top.obj)
      /\ user_lists' = [l \in List |-> [user_lists[l] EXCEPT ![IdOf(Top.obj)] = 0]]
  BY DEF remove, userListLoaded
<1>5. ASSUME NEW l \in List, NEW i \in Id, user_lists'[l][i] # 0
      PROVE  user_lists'[l][i] \in anime_list'
  <2>1. IdOf(Top.obj) # i /\ user_lists'[l][i] = user_lists[l][i]
    BY <1>1, <1>4, <1>5 DEF ListsOK, Slots
  <2>2. user_lists[l][i] \in anime_list /\ IdOf(user_lists[l][i]) = i
    BY <1>3, <1>5, <2>1 DEF ListedInv, ListedIn, MadeInv, FitsIn, IdOf
  <2>3. QED
    BY <1>4, <2>1, <2>2
<1>6. ASSUME NEW k \in Task
      PROVE  /\ \A i \in Id : tasks'[k].copy[i] = 0
             /\ \A c \in Custom, i \in Id : tasks'[k].custom[c][i] = 0
  <2>1. Alike(tasks'[k], tasks[k])
    BY <1>1, Disturbing DEF remove, Disturb
  <2>2. tasks[k].state # "copying"
    BY <1>3 DEF SomeRunning, Running
  <2>3. tasks[k].copy = Empty /\ tasks[k].custom = NoTask.custom
    BY <2>2 DEF TaskInv
  <2>4. QED
    BY <2>1, <2>3 DEF Alike, Empty, NoTask
<1>7. QED
  BY <1>4, <1>5, <1>6 DEF ListedIn

LEMMA ListedNext == TypeOK /\ MadeInv /\ TaskInv /\ ListedInv /\ Next => ListedInv'
<1>1. SUFFICES ASSUME TypeOK, MadeInv, TaskInv, ListedInv, Next, ~crossed'
               PROVE  /\ anime_list' \cap dead' = {}
                      /\ \A l \in List : ListedIn(user_lists'[l], anime_list')
                      /\ \A k \in Task : ListedIn(tasks'[k].copy, anime_list')
                      /\ \A k \in Task, c \in Custom :
                            ListedIn(tasks'[k].custom[c], anime_list')
                      /\ \A i \in rows' : \E o \in anime_list' : objects'[o].id = i
  BY DEF ListedInv, IdOf
<1>2. ~crossed /\ MadeInv' /\ Grows
  BY <1>1, CausesStay, MadeNext, HeapNext DEF TypeOK, WorldOK
<1>3. /\ anime_list \cap dead = {} /\ anime_list \subseteq Heap
      /\ \A l \in List : ListedIn(user_lists[l], anime_list)
      /\ \A k \in Task : ListedIn(tasks[k].copy, anime_list)
      /\ \A k \in Task, c \in Custom : ListedIn(tasks[k].custom[c], anime_list)
      /\ \A i \in rows : \E o \in anime_list : objects[o].id = i
  BY <1>1, <1>2 DEF ListedInv, IdOf, MadeInv
<1>4. CASE remove /\ Top.obj \notin dead
  <2>1. /\ dead' = dead \cup {Top.obj} /\ anime_list' = anime_list \ {Top.obj}
        /\ \A l \in List : ListedIn(user_lists'[l], anime_list')
        /\ \A k \in Task : /\ \A i \in Id : tasks'[k].copy[i] = 0
                           /\ \A c \in Custom, i \in Id : tasks'[k].custom[c][i] = 0
        /\ rows' = {i \in Id : \E l \in List : user_lists'[l][i] # 0}
    BY <1>1, <1>4, Removal
  <2>2. \A i \in rows' : \E o \in anime_list' : objects'[o].id = i
    BY <1>2, <2>1 DEF MadeInv, FitsIn, ListedIn
  <2>3. QED
    BY <1>3, <2>1, <2>2 DEF ListedIn
<1>5. CASE /\ dead' = dead /\ anime_list \subseteq anime_list'
           /\ anime_list' \cap dead = {}
           /\ \/ rows' = rows
              \/ rows' = {i \in Id : \E l \in List : user_lists'[l][i] # 0}
  <2>1. \A k \in Task : CopiedFrom(k)
    BY <1>1, Copying
  <2>2. ListedFrom
    BY <1>1, Listing
  <2>3. ASSUME NEW k \in Task PROVE ListedIn(tasks'[k].copy, anime_list')
    BY <1>3, <1>5, <2>1 DEF CopiedFrom, ListedIn, Fresh
  <2>4. ASSUME NEW k \in Task, NEW c \in Custom
        PROVE  ListedIn(tasks'[k].custom[c], anime_list')
    BY <1>3, <1>5, <2>1 DEF CopiedFrom, ListedIn
  <2>5. ASSUME NEW l \in List PROVE ListedIn(user_lists'[l], anime_list')
    BY <1>3, <1>5, <2>2 DEF ListedFrom, ListedIn, Fresh
  <2>6. \A i \in rows' : \E o \in anime_list' : objects'[o].id = i
    <3>1. CASE rows' = rows
      BY <1>2, <1>3, <1>5, <3>1 DEF Grows
    <3>2. CASE rows' = {i \in Id : \E l \in List : user_lists'[l][i] # 0}
      BY <1>2, <2>5, <3>2 DEF MadeInv, FitsIn, ListedIn
    <3>3. QED
      BY <1>5, <3>1, <3>2
  <2>7. QED
    BY <1>5, <2>3, <2>4, <2>5, <2>6
<1>6. QED
  BY <1>1, <1>4, <1>5, Deleting

LEMMA HeldNext ==
    TypeOK /\ MadeInv /\ TaskInv /\ ListedInv /\ HeldInv /\ Next => HeldInv'
<1> USE DEF heapVars, listVars, viewVars, ghostVars
<1>1. SUFFICES ASSUME TypeOK, MadeInv, TaskInv, ListedInv, HeldInv, Next, ~crossed', ~orphaned'
               PROVE  /\ cards' \cap dead' = {}
                      /\ \A p \in panels' : p.obj \notin dead'
                      /\ \A n \in DOMAIN waiting' : waiting'[n].obj \notin dead'
  BY DEF HeldInv
<1>2. ~crossed /\ ~orphaned /\ HeapOK /\ dead \subseteq Heap
  BY <1>1, CausesStay DEF TypeOK, WorldOK, MadeInv
<1>3. /\ cards \cap dead = {} /\ anime_list \cap dead = {}
      /\ \A p \in panels : p.obj \notin dead
      /\ \A n \in DOMAIN waiting : waiting[n].obj \notin dead
  BY <1>1, <1>2 DEF HeldInv, ListedInv
<1>4. CASE remove /\ Top.obj \notin dead
  <2>1. dead' = dead \cup {Top.obj} /\ ~Held(Top.obj)
    BY <1>1, <1>4, Removal
  <2>2. UNCHANGED <<cards, panels>>
    BY <1>4 DEF remove
  <2>3. \A n \in DOMAIN waiting' : /\ n \in DOMAIN waiting /\ n \in 1..Len(waiting) - 1
                                   /\ waiting'[n] = waiting[n]
    BY <1>1, <1>4, Resuming DEF remove
  <2>4. QED
    BY <1>3, <2>1, <2>2, <2>3 DEF Held
<1>5. CASE dead' = dead
  <2>1. CASE UNCHANGED <<cards, panels, waiting>>
    BY <1>3, <1>5, <2>1
  <2>2. CASE Download \/ Refresh
    <3>1. CASE Download
      <4>1. \A k \in Task, i \in Id :
               CopyEntry(k, i) => UNCHANGED <<cards, panels, waiting>>
        BY DEF CopyEntry
      <4>2. UNCHANGED <<cards, panels, waiting>>
        BY <3>1, <4>1 DEF Download, Answered, EndList, EndDownload, BeginList
      <4>3. QED
        BY <2>1, <4>2
    <3>2. CASE Refresh
      <4>1. UNCHANGED <<cards, panels, waiting>>
        BY <3>2 DEF Refresh, StartRefresh, Finished
      <4>2. QED
        BY <2>1, <4>1
    <3>3. QED
      BY <2>2, <3>1, <3>2
  <2>3. CASE Handlers
    <3>1. \A n \in DOMAIN waiting' : n \in DOMAIN waiting /\ waiting'[n] = waiting[n]
      BY <1>1, <2>3, Resuming DEF Handlers, StatusReturns, remove, AcceptReturns
    <3>2. UNCHANGED <<cards, panels>>
      BY <2>3 DEF Handlers, StatusReturns, remove, AcceptReturns
    <3>3. QED
      BY <1>3, <1>5, <3>1, <3>2
  <2>4. ASSUME NEW op \in {"status", "remove", "accept"}, NEW o \in Heap, o \notin dead,
               NEW old \in Status \cup {NoStatus}, NEW mover \in BOOLEAN,
               Wait(op, o, old, mover)
        PROVE  \A n \in DOMAIN waiting' : waiting'[n].obj \notin dead'
    BY <1>1, <1>2, <1>3, <1>5, <2>4, Suspending, Existing
  <2>5. \A o : Readable /\ Shown(o) => o \notin dead
    BY DEF Readable, Shown, Found
  <2>6. ASSUME NEW i \in Id, New(i, NoStatus) PROVE made \notin dead
    BY <1>2, <2>6, Making
  <2>7. ASSUME NEW o \in DOMAIN objects, NEW s \in Status, UpdateStatus(o, s)
        PROVE  \A n \in DOMAIN waiting' : waiting'[n].obj \notin dead'
    <3>1. o \in Heap /\ StatusOf(o) \in Status \cup {NoStatus} /\ o \notin dead
      BY <1>2, <2>5, <2>7, Existing DEF Heap, UpdateStatus
    <3>2. QED
      BY <2>4, <2>7, <3>1 DEF UpdateStatus
  <2>8. ASSUME NEW o \in DOMAIN objects, DeleteEntry(o)
        PROVE  \A n \in DOMAIN waiting' : waiting'[n].obj \notin dead'
    BY <2>4, <2>5, <2>8 DEF DeleteEntry, Heap
  <2>9. ASSUME NEW o \in DOMAIN objects, OpenPanel(o) \/ OpenCard(o)
        PROVE  \A p \in panels' : p.obj \notin dead'
    BY <1>3, <1>5, <2>9 DEF OpenPanel, OpenCard, Panel
  <2>10. ASSUME NEW i \in Id, OpenNew(i) PROVE \A p \in panels' : p.obj \notin dead'
    BY <1>5, <2>6, <2>10 DEF OpenNew, Panel
  <2>11. ASSUME NEW i \in Id, Browse(i)
         PROVE  cards' \cap dead' = {} /\ panels' \subseteq panels
    BY <1>3, <1>5, <2>6, <2>11 DEF Browse, Found
  <2>12. ASSUME NEW p \in panels, NEW s \in Status, Accept(p, s)
         PROVE  /\ panels' \subseteq panels
                /\ \A n \in DOMAIN waiting' : waiting'[n].obj \notin dead'
    <3>1. /\ p.obj \in Heap /\ p.obj \notin dead
          /\ p.old \in Status \cup {NoStatus} /\ p.mover \in BOOLEAN
      BY <1>1, <1>3 DEF MadeInv, TypeOK, ViewOK, PanelRecord
    <3>2. QED
      BY <2>4, <2>12, <3>1 DEF Accept
  <2>13. CASE User
    <3>1. cards' \cap dead' = {}
      BY <1>3, <1>5, <2>11, <2>13
         DEF User, UpdateStatus, DeleteEntry, UpdateEpisode, Watch, StopTimer,
             UpdateNothing, UpdateReturns, ToggleCustom, HideDefault, RemoteChange,
             OpenPanel, OpenCard, PaintCard, OpenNew, BadLookup, Accept
    <3>2. \A p \in panels' : p.obj \notin dead'
      BY <1>3, <1>5, <2>9, <2>10, <2>11, <2>12, <2>13
         DEF User, UpdateStatus, DeleteEntry, UpdateEpisode, Watch, StopTimer,
             UpdateNothing, UpdateReturns, ToggleCustom, HideDefault, RemoteChange,
             PaintCard, BadLookup
    <3>3. \A n \in DOMAIN waiting' : waiting'[n].obj \notin dead'
      BY <1>3, <1>5, <2>7, <2>8, <2>12, <2>13
         DEF User, UpdateEpisode, Watch, StopTimer, UpdateNothing, UpdateReturns,
             ToggleCustom, HideDefault, RemoteChange, OpenPanel, OpenCard, PaintCard,
             OpenNew, Browse, BadLookup
    <3>4. QED
      BY <3>1, <3>2, <3>3
  <2>14. QED
    BY <1>1, <2>2, <2>3, <2>13 DEF Next
<1>6. QED
  BY <1>1, <1>4, <1>5, Deleting

LEMMA WatchInvNext ==
    TypeOK /\ MadeInv /\ TaskInv /\ ListedInv /\ WatchInv /\ Next => WatchInv'
<1> USE DEF heapVars, listVars, viewVars, watchVars, ghostVars
<1>1. SUFFICES ASSUME TypeOK, MadeInv, TaskInv, ListedInv, WatchInv, Next PROVE WatchInv'
  OBVIOUS
<1>2. /\ WatchOK /\ 0 \notin dead
      /\ crossed \in BOOLEAN /\ orphaned \in BOOLEAN /\ unwatched \in BOOLEAN
      /\ crossed' \in BOOLEAN /\ orphaned' \in BOOLEAN /\ unwatched' \in BOOLEAN
  BY <1>1, Existing, WorldNext, WatchNext DEF TypeOK, WorldOK, WatchOK, MadeInv
<1>3. (crossed => crossed') /\ (orphaned => orphaned') /\ (unwatched => unwatched')
  BY <1>1, <1>2, CausesStay
<1>4. CASE UNCHANGED <<watchVars, unwatched>>
  <2>1. CASE crossed' \/ dead' = dead
    BY <1>1, <1>3, <1>4, <2>1 DEF WatchInv
  <2>2. CASE ~crossed' /\ remove /\ Top.obj \notin dead
    <3>1. dead' = dead \cup {Top.obj} /\ (~orphaned' => ~Held(Top.obj))
      BY <1>1, <2>2, Removal
    <3>2. Held(Top.obj) \/ Top.obj # cw_anime \/ ~(watch_timer \/ updates > 0)
      BY DEF Held
    <3>3. QED
      BY <1>1, <1>3, <1>4, <3>1, <3>2 DEF WatchInv
  <2>3. QED
    BY <1>1, <2>1, <2>2, Deleting
<1>5. ASSUME NEW o \in Object \cup {0}, NEW timer \in BOOLEAN, Watch(o, timer)
      PROVE  WatchInv'
  <2>1. o \notin dead /\ dead' = dead /\ cw_anime' = o /\ updates' = updates
    BY <1>2, <1>5 DEF Watch, Readable
  <2>2. ~unwatched' => ~unwatched
    BY <1>2, <1>3
  <2>3. o = 0 /\ (watch_timer' \/ updates > 0) => unwatched'
    BY <1>5 DEF Watch
  <2>4. QED
    BY <2>1, <2>2, <2>3 DEF WatchInv
<1>6. ASSUME NEW o \in DOMAIN objects, NEW last \in BOOLEAN, UpdateEpisode(o, last)
      PROVE  WatchInv'
  <2>1. /\ watch_timer /\ o = cw_anime /\ ~watch_timer'
        /\ UNCHANGED <<dead, cw_anime, crossed, orphaned, unwatched>>
    BY <1>6 DEF UpdateEpisode
  <2>2. ~crossed /\ ~orphaned /\ ~unwatched => cw_anime \notin dead \cup {0}
    BY <1>1, <2>1 DEF WatchInv
  <2>3. QED
    BY <2>1, <2>2 DEF WatchInv
<1>7. CASE StopTimer \/ UpdateNothing
  BY <1>1, <1>7 DEF StopTimer, UpdateNothing, WatchInv
<1>8. CASE UpdateReturns
  <2>1. updates > 0 /\ UNCHANGED <<dead, cw_anime, watch_timer, crossed, orphaned, unwatched>>
    BY <1>8 DEF UpdateReturns
  <2>2. QED
    BY <1>1, <2>1 DEF WatchInv
<1>9. QED
  BY <1>1, <1>4, <1>5, <1>6, <1>7, <1>8, WatchOnly

(* What is used is live.                                                    *)
LEMMA UseIsSound ==
    ASSUME TypeOK, MadeInv, TaskInv, ListedInv, HeldInv, WatchInv, Next,
           ~crossed', ~orphaned', ~unwatched'
    PROVE  ~corrupt'
<1> USE DEF heapVars, listVars, viewVars, ghostVars
<1>1. /\ ~crossed /\ ~orphaned /\ ~unwatched
      /\ HeapOK /\ dead \subseteq Heap /\ 0 \notin dead
  BY CausesStay, Existing DEF TypeOK, WorldOK, WatchOK, MadeInv
<1>2. ~corrupt
  BY DEF Next, Download, Refresh, Handlers, User, Sound
<1>3. /\ anime_list \cap dead = {}
      /\ \A l \in List : ListedIn(user_lists[l], anime_list)
      /\ \A k \in Task : ListedIn(tasks[k].copy, anime_list)
      /\ \A i \in rows : \E o \in anime_list : IdOf(o) = i
      /\ cards \cap dead = {}
      /\ \A p \in panels : p.obj \notin dead
      /\ \A n \in DOMAIN waiting : waiting[n].obj \notin dead
  BY <1>1 DEF ListedInv, HeldInv
<1>4. /\ anime_list' \cap dead' = {} /\ 0 \notin dead'
      /\ \A l \in List : ListedIn(user_lists'[l], anime_list')
  <2>1. ListedInv' /\ MadeInv' /\ Grows
    BY ListedNext, MadeNext, HeapNext
  <2>2. 0 \notin Heap'
    BY <2>1 DEF Grows, HeapOK, Heap
  <2>3. QED
    BY <2>1, <2>2 DEF ListedInv, MadeInv
<1>5. userListLoaded(user_lists', dead') => ~corrupt'
  BY <1>4 DEF userListLoaded, ListedIn
<1>6. CASE UNCHANGED corrupt
  BY <1>2, <1>6
<1>7. CASE Download
  <2>1. ASSUME NEW k \in Task, NEW i \in Id, CopyEntry(k, i) PROVE ~corrupt'
    <3>1. CASE UpdateEntry(k, i)
      <4>1. tasks[k].copy[i] # 0 => tasks[k].copy[i] \notin dead
        BY <1>3 DEF ListedIn
      <4>2. QED
        BY <1>2, <3>1, <4>1 DEF UpdateEntry
    <3>2. CASE LoadEntry(k, i)
      BY <1>2, <3>2 DEF LoadEntry
    <3>3. CASE LoadCustomEntry(k, i)
      <4>1. tasks[k].answer[i].status \in Status
        BY <2>1 DEF TaskInv, CopyEntry
      <4>2. user_lists[tasks[k].answer[i].status][i] \notin dead
        BY <1>1, <1>3, <4>1, Constants DEF ListedIn
      <4>3. QED
        BY <1>3, <3>3, <4>2 DEF LoadCustomEntry
    <3>4. QED
      BY <2>1, <3>1, <3>2, <3>3 DEF CopyEntry
  <2>2. QED
    BY <1>6, <1>7, <2>1 DEF Download, Answered, EndList, EndDownload, BeginList
<1>8. CASE Refresh
  <2>1. ASSUME NEW k \in Task, Finished(k) PROVE ~corrupt'
    BY <1>5, <2>1 DEF Finished
  <2>2. QED
    BY <1>6, <1>8, <2>1 DEF Refresh, StartRefresh
<1>9. CASE Handlers
  <2>1. Top.obj \notin dead
    BY <1>3, <1>9, Resuming DEF Handlers, StatusReturns, remove, AcceptReturns
  <2>2. CASE StatusReturns
    BY <1>5, <2>1, <2>2 DEF StatusReturns
  <2>3. CASE remove
    BY <1>5, <2>1, <2>3 DEF remove
  <2>4. CASE AcceptReturns
    BY <1>5, <1>6, <2>1, <2>4 DEF AcceptReturns
  <2>5. QED
    BY <1>9, <2>2, <2>3, <2>4 DEF Handlers
<1>10. CASE User
  <2>1. ASSUME NEW o \in DOMAIN objects, NEW last \in BOOLEAN, UpdateEpisode(o, last)
        PROVE  ~corrupt'
    <3>1. o \notin dead
      BY <1>1, <2>1 DEF UpdateEpisode, WatchInv
    <3>2. QED
      BY <1>5, <2>1, <3>1 DEF UpdateEpisode
  <2>2. ASSUME NEW o \in DOMAIN objects, NEW c \in Custom, ToggleCustom(o, c) PROVE ~corrupt'
    BY <1>5, <2>2 DEF ToggleCustom
  <2>3. ASSUME NEW o \in DOMAIN objects, NEW b \in BOOLEAN, HideDefault(o, b) PROVE ~corrupt'
    BY <1>5, <2>3 DEF HideDefault
  <2>4. ASSUME NEW p \in panels, NEW s \in Status, Accept(p, s) PROVE ~corrupt'
    BY <1>3, <1>6, <2>4 DEF Accept
  <2>5. ASSUME NEW i \in Id PROVE ~BadLookup(i)
    <3>1. Readable /\ (i \in rows => Found(i) # {})
      BY <1>3 DEF Found, Readable
    <3>2. QED
      BY <3>1 DEF BadLookup
  <2>6. \A o : ~PaintCard(o)
    BY <1>3 DEF PaintCard
  <2>8. CASE UpdateReturns
    <3>1. cw_anime \notin dead \cup {0}
      BY <1>1, <2>8 DEF UpdateReturns, WatchInv
    <3>2. QED
      BY <2>8, <3>1 DEF UpdateReturns
  <2>9. ~UpdateNothing
    BY <1>1 DEF UpdateNothing, WatchInv
  <2>7. QED
    BY <1>6, <1>10, <2>1, <2>2, <2>3, <2>4, <2>5, <2>6, <2>8, <2>9
       DEF User, Watch, StopTimer, UpdateNothing, UpdateStatus, DeleteEntry, RemoteChange,
           OpenPanel, OpenCard, OpenNew, Browse
<1>11. QED
  BY <1>7, <1>8, <1>9, <1>10 DEF Next

-----------------------------------------------------------------------------
(* The theorems.                                                            *)

Inv ==
    /\ TypeOK /\ MadeInv /\ TaskInv /\ ListedInv /\ HeldInv /\ WatchInv
    /\ CorruptHasACause

LEMMA InvInit == Init => Inv
<1>1. SUFFICES ASSUME Init PROVE Inv
  OBVIOUS
<1>2. TypeOK /\ MadeInv /\ TaskInv
  BY <1>1, TypeInit
<1>3. \A k \in Task : tasks[k].copy = Empty /\ tasks[k].custom = NoTask.custom
  BY <1>1 DEF Init, NoTask
<1>4. \A i \in Id : Empty[i] = 0 /\ \A c \in Custom : NoTask.custom[c][i] = 0
  BY DEF NoTask, Empty
<1>5. ListedInv
  BY <1>1, <1>3, <1>4 DEF Init, ListedInv, ListedIn
<1>6. HeldInv /\ WatchInv /\ CorruptHasACause
  BY <1>1 DEF Init, HeldInv, WatchInv, CorruptHasACause
<1>7. QED
  BY <1>2, <1>5, <1>6 DEF Inv

LEMMA InvNext == Inv /\ [Next]_vars => Inv'
<1>1. SUFFICES ASSUME Inv, [Next]_vars PROVE Inv'
  OBVIOUS
<1>2. TypeOK /\ MadeInv /\ TaskInv /\ ListedInv /\ HeldInv /\ WatchInv
  BY <1>1 DEF Inv
<1>3. CASE Next
  <2>1. HeapOK' /\ ListsOK' /\ ViewOK' /\ WatchOK' /\ TasksOK' /\ WorldOK'
    BY <1>2, <1>3, HeapNext, ListsNext, ViewNext, WatchNext, TasksNext, WorldNext DEF Grows
  <2>2. TypeOK'
    BY <2>1 DEF TypeOK
  <2>3. MadeInv' /\ TaskInv' /\ ListedInv' /\ HeldInv' /\ WatchInv'
    BY <1>2, <1>3, MadeNext, TaskInvNext, ListedNext, HeldNext, WatchInvNext
  <2>4. CorruptHasACause'
    BY <1>2, <1>3, UseIsSound DEF CorruptHasACause
  <2>5. QED
    BY <2>2, <2>3, <2>4 DEF Inv
<1>4. CASE UNCHANGED vars
  <2> USE DEF vars, heapVars, listVars, viewVars, watchVars, ghostVars
  <2>1. TypeOK'
    BY <1>2, <1>4 DEF TypeOK, HeapOK, ListsOK, ViewOK, WatchOK, TasksOK, WorldOK
  <2>2. MadeInv' /\ TaskInv'
    BY <1>2, <1>4 DEF MadeInv, TaskInv, Heap
  <2>3. ListedInv' /\ HeldInv' /\ WatchInv' /\ CorruptHasACause'
    BY <1>1, <1>4 DEF Inv, ListedInv, HeldInv, WatchInv, CorruptHasACause, IdOf
  <2>4. QED
    BY <2>1, <2>2, <2>3 DEF Inv
<1>5. QED
  BY <1>1, <1>3, <1>4

LEMMA Invariance == Spec => []Inv
  BY InvInit, InvNext, PTL DEF Spec

(* Every variable has its type, whatever the user, the server and the       *)
(* downloads do.                                                            *)
THEOREM TypeCorrect == Spec => []TypeOK
<1>1. Inv => TypeOK
  BY DEF Inv
<1>2. QED
  BY <1>1, Invariance, PTL

(* As long as no Anime is deleted while a download runs or by the first     *)
(* one, neither the lookup nor a list points to a deleted Anime.            *)
THEOREM ListsLive == Spec => []ListsPointToLiveAnime
<1>1. Inv => ListsPointToLiveAnime
  <2>1. SUFFICES ASSUME Inv, ~crossed
                 PROVE  /\ anime_list \cap dead = {}
                        /\ \A l \in List, i \in Id : user_lists[l][i] \notin dead
    BY DEF ListsPointToLiveAnime
  <2>2. /\ anime_list \cap dead = {}
        /\ \A l \in List : ListedIn(user_lists[l], anime_list)
    BY <2>1 DEF Inv, ListedInv
  <2>3. 0 \notin dead
    BY <2>1, Existing DEF Inv, TypeOK, MadeInv
  <2>4. QED
    BY <2>2, <2>3 DEF ListedIn
<1>2. QED
  BY <1>1, Invariance, PTL

(* A deleted or null Anime is only ever used after a deletion that met a    *)
(* download, or the card, the panel or the handler of the same entry, or a  *)
(* pending or waiting update of it, or after watch() set cw_anime to null   *)
(* while an update was pending or waited.                                   *)
THEOREM DeadUseHasACause == Spec => []CorruptHasACause
<1>1. Inv => CorruptHasACause
  BY DEF Inv
<1>2. QED
  BY <1>1, Invariance, PTL

-----------------------------------------------------------------------------
(* What the downloads show: the invariant.                                  *)

(* What is on a list or in a copy of one is in anime_list or deleted.       *)
Known == anime_list \cup dead
KnownInv ==
    /\ \A l \in List : ListedIn(user_lists[l], Known)
    /\ \A k \in Task : ListedIn(tasks[k].copy, Known)
    /\ \A k \in Task, c \in Custom : ListedIn(tasks[k].custom[c], Known)

\* The download k is as DownloadShowsServer wants it.
Titles == \A i, j \in Id : Title[i] = Title[j] => i = j
Calm(k) == tasks[k].alone /\ (k = 1 => Titles)

(* The first download, while it copies, has an object in anime_list only    *)
(* for what it copied.                                                      *)
FirstInv ==
    tasks[1].state = "copying" /\ Calm(1) =>
        \A o \in anime_list : StatusOf(o) = tasks[1].answer[IdOf(o)].status

\* The list f shows the entry i as the download k got it.
Shows(f, i, k) == f[i] # 0 /\ StatusOf(f[i]) = tasks[k].answer[i].status

(* A download shows the entries of each list it is through with, in the     *)
(* list itself or, for a custom list, in what it has put by for the end.    *)
CopyingShows(k) ==
    /\ \A i \in Id, l \in Status \ tasks[k].todo :
          l \in tasks[k].answer[i].lists => Shows(user_lists[l], i, k)
    /\ \A i \in Id, c \in Custom \ tasks[k].todo :
          c \in tasks[k].answer[i].lists => Shows(tasks[k].custom[c], i, k)
    /\ \A i \in Id \ tasks[k].ids :
          tasks[k].list # NoList /\ tasks[k].list \in tasks[k].answer[i].lists
              => Shows(tasks[k].copy, i, k)
DoneShows(k) ==
    \A i \in Id, l \in List :
        l \in tasks[k].answer[i].lists => Shows(user_lists[l], i, k)
ServerInv ==
    \A k \in Task : Calm(k) =>
        /\ tasks[k].state = "copying" /\ ~corrupt => CopyingShows(k)
        /\ tasks[k].state = "done" => DoneShows(k)

-----------------------------------------------------------------------------
LEMMA KnownGrows ==
    ASSUME TypeOK, MadeInv, TaskInv, Next
    PROVE  Known \subseteq Known'
<1> USE DEF heapVars, listVars, viewVars, ghostVars
<1>1. CASE UNCHANGED <<anime_list, dead>>
  BY <1>1 DEF Known
<1>2. CASE Download
  <2>1. ASSUME NEW k \in Task, Answered(k) PROVE Known \subseteq Known'
    BY <2>1 DEF Answered, Known
  <2>2. ASSUME NEW k \in Task, NEW i \in Id, CopyEntry(k, i)
        PROVE  Known \subseteq Known'
    BY <2>2 DEF CopyEntry, UpdateEntry, LoadEntry, LoadCustomEntry, Known
  <2>3. ASSUME NEW k \in Task, EndList(k) \/ EndDownload(k) \/ \E l \in List : BeginList(k, l)
        PROVE  Known \subseteq Known'
    BY <2>3, <1>1 DEF EndList, EndDownload, BeginList
  <2> QED BY <1>2, <2>1, <2>2, <2>3 DEF Download
<1>3. CASE Refresh
  BY <1>1, <1>3 DEF Refresh, StartRefresh, Finished
<1>4. CASE Handlers
  BY <1>4 DEF Handlers, StatusReturns, remove, AcceptReturns, Known
<1>5. CASE User
  BY <1>1, <1>5
     DEF User, UpdateStatus, DeleteEntry, UpdateEpisode, Watch, StopTimer, UpdateNothing,
         UpdateReturns, ToggleCustom, HideDefault, RemoteChange, OpenPanel, OpenCard,
         PaintCard, OpenNew, Browse, BadLookup, Accept
<1> QED BY <1>2, <1>3, <1>4, <1>5 DEF Next

LEMMA KnownNext ==
    ASSUME TypeOK, MadeInv, TaskInv, KnownInv, Next
    PROVE  KnownInv'
<1>1. Known \subseteq Known' /\ anime_list' \subseteq Known'
  BY KnownGrows DEF Known
<1>2. /\ \A k \in Task : CopiedFrom(k)
      /\ ListedFrom
  BY Copying, Listing
<1>3. ASSUME NEW k \in Task PROVE ListedIn(tasks'[k].copy, Known')
  BY <1>1, <1>2 DEF KnownInv, CopiedFrom, ListedIn, Fresh
<1>4. ASSUME NEW k \in Task, NEW c \in Custom PROVE ListedIn(tasks'[k].custom[c], Known')
  BY <1>1, <1>2 DEF KnownInv, CopiedFrom, ListedIn
<1>5. ASSUME NEW l \in List PROVE ListedIn(user_lists'[l], Known')
  BY <1>1, <1>2 DEF KnownInv, ListedFrom, ListedIn, Fresh
<1> QED BY <1>3, <1>4, <1>5 DEF KnownInv

-----------------------------------------------------------------------------
(* What the download k does not do itself.                                  *)

\* It sees nothing of the step but new objects.
Quiet(k) ==
    /\ tasks'[k] = tasks[k]
    /\ UNCHANGED <<user_lists, anime_list>>
    /\ Heap \subseteq Heap'
    /\ \A o \in Heap : objects'[o] = objects[o]
Own(k) ==
    \/ Answered(k) \/ EndList(k) \/ EndDownload(k)
    \/ \E l \in List : BeginList(k, l)
    \/ \E i \in Id : CopyEntry(k, i)

LEMMA MakingAppends ==
    ASSUME HeapOK, NEW i, NEW s, New(i, s)
    PROVE  /\ made \in Heap' /\ made \notin Heap /\ Heap \subseteq Heap'
           /\ objects'[made] = [id |-> i, status |-> s]
           /\ \A o \in Heap : objects'[o] = objects[o]
<1>1. objects \in Seq(AnimeRecord) /\ Len(objects) \in Nat /\ Heap = 1..Len(objects)
  BY Existing DEF HeapOK
<1>2. objects' = Append(objects, [id |-> i, status |-> s])
  BY DEF New
<1>3. /\ Len(objects') = Len(objects) + 1
      /\ \A n \in 1..Len(objects) : objects'[n] = objects[n]
      /\ objects'[Len(objects) + 1] = [id |-> i, status |-> s]
      /\ DOMAIN objects' = 1..Len(objects) + 1
  BY <1>1, <1>2
<1> QED BY <1>1, <1>3 DEF made, Heap

LEMMA DisturbedIs ==
    ASSUME TasksOK, NEW j, NEW k \in Task, k # j,
           tasks[k].state \in {"copying", "done"}
    PROVE  Disturbed(j)[k].alone = FALSE
BY DEF Disturbed, TasksOK, TaskRecord

LEMMA Others ==
    ASSUME TypeOK, MadeInv, TaskInv, Next, NEW k \in Task,
           tasks'[k].alone, tasks'[k].state \in {"copying", "done"}
    PROVE  Own(k) \/ Quiet(k)
<1> USE DEF heapVars, listVars, viewVars, ghostVars
<1>1. HeapOK /\ TasksOK /\ \A j \in Task : tasks[j] \in TaskRecord
  BY DEF TypeOK, TasksOK
<1>2. SUFFICES ASSUME ~Own(k) PROVE Quiet(k)
  OBVIOUS
\* Whoever changes the lists disturbs k.
<1>3. ASSUME NEW j \in Task \cup {0}, k # j, tasks'[k] = Disturbed(j)[k] PROVE FALSE
  <2>1. Alike(tasks'[k], tasks[k])
    BY <1>1, <1>3, Disturbing
  <2> QED BY <1>1, <1>3, <2>1, DisturbedIs DEF Alike
<1>4. ~Disturb
  <2>1. 0 \notin Task
    BY Constants
  <2> QED BY <1>3, <2>1 DEF Disturb
<1>5. ASSUME UNCHANGED <<objects, user_lists, anime_list>>, tasks'[k] = tasks[k]
      PROVE  Quiet(k)
  BY <1>5 DEF Quiet, Heap
<1>6. CASE Download
  <2>1. PICK j \in Task : Own(j)
    BY <1>6 DEF Download, Own
  <2>2. k # j
    BY <1>2, <2>1
  <2>3. CASE Answered(j)
    <3>1. tasks'[k] = Disturbed(j)[k]
      BY <1>1, <2>2, <2>3 DEF Answered, Disturbed
    <3> QED BY <1>3, <2>2, <3>1
  <2>4. CASE EndDownload(j)
    <3>1. tasks'[k] = Disturbed(j)[k]
      BY <1>1, <2>2, <2>4 DEF EndDownload, Disturbed
    <3> QED BY <1>3, <2>2, <3>1
  <2>5. CASE EndList(j)
    <3>1. CASE tasks[j].list \in Custom
      BY <1>1, <1>5, <2>2, <2>5, <3>1 DEF EndList, TasksOK
    <3>2. CASE tasks[j].list \notin Custom
      <4>1. tasks'[k] = Disturbed(j)[k]
        BY <1>1, <2>2, <2>5, <3>2 DEF EndList, Disturbed
      <4> QED BY <1>3, <2>2, <4>1
    <3> QED BY <3>1, <3>2
  <2>6. ASSUME NEW l \in List, BeginList(j, l) PROVE Quiet(k)
    BY <1>1, <1>5, <2>2, <2>6 DEF BeginList, TasksOK
  <2>7. ASSUME NEW i \in Id, CopyEntry(j, i) PROVE Quiet(k)
    <3>1. \E key, o : Copied(j, i, key, o)
      BY <2>7 DEF CopyEntry, UpdateEntry, LoadEntry, LoadCustomEntry
    <3>2. tasks'[k] = Disturbed(j)[k]
      BY <1>1, <2>2, <3>1 DEF Copied, Disturbed
    <3> QED BY <1>3, <2>2, <3>2
  <2> QED BY <2>1, <2>3, <2>4, <2>5, <2>6, <2>7 DEF Own
<1>7. CASE Refresh
  <2>1. ASSUME NEW j \in Task, StartRefresh(j) PROVE Quiet(k)
    <3>1. tasks' = [tasks EXCEPT ![j].state = "asking"]
      BY <2>1 DEF StartRefresh
    <3>2. k # j
      BY <1>1, <3>1 DEF TasksOK, TaskRecord
    <3> QED BY <1>1, <1>5, <2>1, <3>1, <3>2 DEF StartRefresh, TasksOK
  <2>2. ASSUME NEW j \in Task, Finished(j) PROVE Quiet(k)
    <3>1. tasks' = [tasks EXCEPT ![j] = [NoTask EXCEPT !.state = "finished"]]
      BY <2>2 DEF Finished
    <3>2. k # j
      BY <1>1, <3>1 DEF TasksOK, NoTask
    <3> QED BY <1>1, <1>5, <2>2, <3>1, <3>2 DEF Finished, TasksOK
  <2> QED BY <1>7, <2>1, <2>2 DEF Refresh
<1>8. CASE Handlers
  BY <1>4, <1>8 DEF Handlers, StatusReturns, remove, AcceptReturns
<1>9. CASE User
  <2>1. ASSUME NEW i \in Id, OpenNew(i) \/ Browse(i) PROVE Quiet(k)
    <3>1. tasks' = tasks /\ UNCHANGED <<user_lists, anime_list>>
      BY <2>1 DEF OpenNew, Browse
    <3>2. UNCHANGED objects \/ New(i, NoStatus)
      BY <2>1 DEF OpenNew, Browse
    <3> QED BY <1>1, <1>5, <3>1, <3>2, MakingAppends DEF Quiet
  <2>3. ASSUME NEW o, NEW last, UpdateEpisode(o, last)
        PROVE  Disturb \/ UNCHANGED <<objects, tasks, user_lists, anime_list>>
    BY <2>3 DEF UpdateEpisode, Disturb
  <2>2. (\E i \in Id : OpenNew(i) \/ Browse(i)) \/ Disturb
            \/ UNCHANGED <<objects, tasks, user_lists, anime_list>>
    BY <1>9, <2>3
       DEF User, UpdateStatus, DeleteEntry, Watch, StopTimer, UpdateNothing,
           UpdateReturns, ToggleCustom, HideDefault, RemoteChange, OpenPanel, OpenCard,
           PaintCard, BadLookup, Accept
  <2> QED BY <1>4, <1>5, <2>1, <2>2
<1> QED BY <1>6, <1>7, <1>8, <1>9 DEF Next

-----------------------------------------------------------------------------
(* What the download k notes of its own steps.                              *)

LEMMA Itself ==
    ASSUME TasksOK, NEW k \in Task
    PROVE  /\ Disturbed(k) \in [Task -> TaskRecord] /\ tasks[k] \in TaskRecord
           /\ Disturbed(k)[k] = tasks[k]
BY Disturbing DEF Disturbed, TasksOK

LEMMA Answering ==
    ASSUME TasksOK, NEW k \in Task, Answered(k)
    PROVE  /\ tasks[k].state = "asking" /\ tasks'[k].state = "copying"
           /\ tasks'[k].answer = server
           /\ tasks'[k].todo = UNION {server[i].lists : i \in Id}
           /\ tasks'[k].list = tasks[k].list
<1>1. /\ Disturbed(k) \in [Task -> TaskRecord] /\ tasks[k] \in TaskRecord
      /\ Disturbed(k)[k] = tasks[k]
  BY Itself
<1> DEFINE a == \A j \in Task \ {k} : ~Running(j)
           todo == UNION {server[i].lists : i \in Id}
<1>2. tasks'[k] = [tasks[k] EXCEPT !.state = "copying", !.answer = server,
                                   !.todo = todo, !.alone = a]
  BY <1>1 DEF Answered
<1> HIDE DEF a, todo
<1>3. /\ tasks'[k].state = "copying" /\ tasks'[k].answer = server
      /\ tasks'[k].todo = todo /\ tasks'[k].list = tasks[k].list
  BY <1>1, <1>2 DEF TaskRecord
<1> QED BY <1>3 DEF todo, Answered

\* Nothing but the copy changes, and what is left to copy.
LEMMA CopyingNotes ==
    ASSUME TasksOK, NEW k \in Task, NEW i \in Id, NEW key, NEW o, Copied(k, i, key, o)
    PROVE  LET s == tasks[k]
               t == tasks'[k]
           IN  /\ t.state = s.state /\ t.answer = s.answer /\ t.todo = s.todo
               /\ t.list = s.list /\ t.custom = s.custom /\ t.alone = s.alone
               /\ t.ids = s.ids \ {i}
               /\ key \in Id => t.copy[key] = o
               /\ \A j \in Id : j # key => t.copy[j] = s.copy[j]
<1>1. /\ Disturbed(k) \in [Task -> TaskRecord] /\ tasks[k] \in TaskRecord
      /\ Disturbed(k)[k] = tasks[k]
  BY Itself
<1>2. tasks' = [Disturbed(k) EXCEPT ![k] = [tasks[k] EXCEPT !.copy[key] = o,
                                                            !.ids = tasks[k].ids \ {i}]]
  BY <1>1 DEF Copied
<1>3. tasks'[k] = [tasks[k] EXCEPT !.copy[key] = o, !.ids = tasks[k].ids \ {i}]
  BY <1>1, <1>2
<1>4. tasks'[k].copy = [tasks[k].copy EXCEPT ![key] = o]
  BY <1>1, <1>3 DEF TaskRecord
<1>5. tasks[k].copy \in [Id -> {0} \cup Object]
  BY <1>1 DEF TaskRecord, Slots
<1> QED BY <1>1, <1>3, <1>4, <1>5 DEF TaskRecord

LEMMA BeginningNotes ==
    ASSUME TasksOK, NEW k \in Task, NEW l \in List, BeginList(k, l)
    PROVE  LET s == tasks[k]
               t == tasks'[k]
           IN  /\ s.state = "copying" /\ s.list = NoList
               /\ t.state = s.state /\ t.answer = s.answer /\ t.todo = s.todo
               /\ t.list = l /\ t.custom = s.custom /\ t.alone = s.alone
               /\ t.ids = {i \in Id : l \in s.answer[i].lists}
<1>1. tasks[k] \in TaskRecord
  BY DEF TasksOK
<1> QED BY <1>1 DEF BeginList, TasksOK, TaskRecord

LEMMA EndingNotes ==
    ASSUME TasksOK, NEW k \in Task, EndList(k)
    PROVE  LET s == tasks[k]
               t == tasks'[k]
           IN  /\ s.list # NoList /\ s.ids = {}
               /\ t.state = s.state /\ t.answer = s.answer /\ t.alone = s.alone
               /\ t.list = NoList /\ t.todo = s.todo \ {s.list}
               /\ t.custom = IF s.list \in Custom
                             THEN [s.custom EXCEPT ![s.list] = s.copy] ELSE s.custom
<1> DEFINE s == tasks[k]
           done == [s EXCEPT !.list = NoList, !.copy = Empty, !.todo = @ \ {s.list}]
<1>1. /\ Disturbed(k) \in [Task -> TaskRecord] /\ tasks[k] \in TaskRecord
      /\ tasks \in [Task -> TaskRecord]
  BY Itself DEF TasksOK
<1>2. /\ done.state = s.state /\ done.answer = s.answer /\ done.alone = s.alone
      /\ done.list = NoList /\ done.todo = s.todo \ {s.list} /\ done.custom = s.custom
      /\ DOMAIN done = DOMAIN s
  BY <1>1 DEF TaskRecord
<1>3. CASE s.list \in Custom
  <2>1. tasks'[k] = [done EXCEPT !.custom[s.list] = s.copy]
    BY <1>1, <1>3 DEF EndList
  <2> QED BY <1>1, <1>3, <2>1 DEF EndList, TaskRecord
<1>4. CASE s.list \notin Custom
  <2>1. tasks'[k] = done
    BY <1>1, <1>4 DEF EndList
  <2> QED BY <1>2, <1>4, <2>1 DEF EndList
<1> QED BY <1>3, <1>4

LEMMA ReturningNotes ==
    ASSUME TasksOK, NEW k \in Task, EndDownload(k)
    PROVE  /\ tasks[k].state = "copying" /\ tasks[k].todo = {}
           /\ tasks'[k].state = "done" /\ tasks'[k].answer = tasks[k].answer
           /\ tasks'[k].alone = tasks[k].alone
BY Itself DEF EndDownload, TaskRecord

-----------------------------------------------------------------------------
(* What was shown as the download k got it still is.                        *)

Kept(k) ==
    /\ tasks'[k].answer = tasks[k].answer
    /\ \A o \in Heap :
          LET status == tasks[k].answer[objects[o].id].status
          IN  objects[o].status = status => objects'[o].status = status

LEMMA StillShown ==
    ASSUME NEW k \in Task, Kept(k), NEW f, FitsIn(f, objects), NEW i \in Id, Shows(f, i, k)
    PROVE  f[i] # 0 /\ objects'[f[i]].status = tasks'[k].answer[i].status
<1>1. f[i] # 0 /\ f[i] \in Heap /\ objects[f[i]].id = i
  BY DEF Shows, FitsIn, Heap
<1>2. objects[f[i]].status = tasks[k].answer[i].status
  BY DEF Shows, StatusOf
<1> QED BY <1>1, <1>2 DEF Kept

\* The entry i is copied as the answer has it.
LEMMA CopiesShow ==
    ASSUME TypeOK, MadeInv, TaskInv, KnownInv, FirstInv,
           NEW k \in Task, NEW i \in Id, CopyEntry(k, i), Calm(k), ~corrupt'
    PROVE  /\ Kept(k)
           /\ \E o : /\ Copied(k, i, i, o) /\ o # 0
                     /\ objects'[o].status = tasks[k].answer[i].status
<1>1. /\ HeapOK /\ TasksOK /\ tasks[k] \in TaskRecord /\ i \in tasks[k].ids
      /\ tasks[k].answer[i].status \in Status /\ tasks[k].state = "copying"
  BY DEF TypeOK, TasksOK, TaskInv, CopyEntry
<1>2. ASSUME NEW key, NEW o, Copied(k, i, key, o)
      PROVE  tasks'[k].answer = tasks[k].answer
  BY <1>1, <1>2, CopyingNotes
<1>3. ASSUME New(i, tasks[k].answer[i].status), Copied(k, i, i, made)
      PROVE  /\ Kept(k)
             /\ made # 0 /\ objects'[made].status = tasks[k].answer[i].status
  <2>1. made # 0
    BY <1>1, <1>3, Constants DEF New
  <2>2. /\ objects'[made] = [id |-> i, status |-> tasks[k].answer[i].status]
        /\ \A o \in Heap : objects'[o] = objects[o]
    BY <1>1, <1>3, MakingAppends
  <2>3. objects'[made].status = tasks[k].answer[i].status
    BY <2>2
  <2>4. Kept(k)
    BY <1>2, <1>3, <2>2 DEF Kept
  <2> QED BY <2>1, <2>3, <2>4
<1>4. CASE UpdateEntry(k, i)
  <2>1. CASE tasks[k].copy[i] = 0
    BY <1>3, <1>4, <2>1 DEF UpdateEntry
  <2>2. CASE tasks[k].copy[i] # 0
    <3> DEFINE o == tasks[k].copy[i]
    <3>1. o \in Heap /\ objects[o].id = i
      BY <2>2 DEF MadeInv, FitsIn, Heap
    <3>2. /\ objects' = [objects EXCEPT ![o].status = tasks[k].answer[i].status]
          /\ Copied(k, i, i, o)
      BY <1>4, <2>2 DEF UpdateEntry
    <3>3. objects[o] \in AnimeRecord
      BY <1>1, <3>1, Existing
    <3>4. objects'[o].status = tasks[k].answer[i].status
      BY <3>1, <3>2, <3>3 DEF Heap, AnimeRecord
    <3>5. \A p \in Heap : p # o => objects'[p] = objects[p]
      BY <3>2 DEF Heap
    <3>6. Kept(k)
      BY <1>2, <3>1, <3>2, <3>4, <3>5 DEF Kept
    <3> QED BY <2>2, <3>2, <3>4, <3>6
  <2> QED BY <2>1, <2>2
<1>5. CASE LoadEntry(k, i)
  BY <1>3, <1>5 DEF LoadEntry
<1>6. CASE LoadCustomEntry(k, i)
  <2> DEFINE same == {o \in anime_list : Title[IdOf(o)] = Title[i]}
             listed == user_lists[tasks[k].answer[i].status][i]
  <2>1. k = 1 /\ Titles
    BY <1>6 DEF LoadCustomEntry, Calm
  <2>2. ASSUME UNCHANGED objects, NEW key, NEW o, Copied(k, i, key, o) PROVE Kept(k)
    BY <1>2, <2>2 DEF Kept
  <2>3. ASSUME NEW o \in same, Copied(k, i, IdOf(o), o), UNCHANGED objects
        PROVE  /\ Copied(k, i, i, o) /\ o # 0
               /\ objects'[o].status = tasks[k].answer[i].status
    <3>1. o \in Heap /\ o # 0 /\ IdOf(o) \in Id
      BY <1>1, Existing DEF MadeInv
    <3>2. IdOf(o) = i
      BY <2>1, <3>1 DEF Titles
    <3>3. StatusOf(o) = tasks[k].answer[i].status
      BY <1>1, <2>1, <3>2 DEF FirstInv
    <3> QED BY <2>3, <3>1, <3>2, <3>3 DEF StatusOf
  <2>4. ~(same = {} /\ listed # 0)
    <3>1. SUFFICES ASSUME same = {}, listed # 0 PROVE FALSE
      OBVIOUS
    <3>2. listed \in anime_list \cup dead /\ IdOf(listed) = i
      BY <1>1, <3>1, Constants DEF KnownInv, ListedIn, Known, MadeInv, FitsIn, IdOf
    <3>3. listed \notin dead
      BY <1>6, <3>1 DEF LoadCustomEntry
    <3> QED BY <3>1, <3>2, <3>3
  <2>5. CASE same = {} /\ listed = 0
    BY <1>3, <1>6, <2>5 DEF LoadCustomEntry
  <2>6. CASE \E o \in same : Copied(k, i, IdOf(o), o) /\ UNCHANGED objects
    BY <2>2, <2>3, <2>6
  <2> QED BY <1>6, <2>4, <2>5, <2>6 DEF LoadCustomEntry
<1> QED BY <1>4, <1>5, <1>6 DEF CopyEntry

LEMMA OthersKeep ==
    ASSUME TypeOK, MadeInv, NEW k \in Task,
           \/ Quiet(k) \/ EndList(k) \/ EndDownload(k)
           \/ \E l \in List : BeginList(k, l)
    PROVE  Kept(k)
<1> USE DEF heapVars, listVars
<1>1. TasksOK /\ tasks[k] \in TaskRecord
  BY DEF TypeOK, TasksOK
<1>2. CASE Quiet(k)
  BY <1>2 DEF Quiet, Kept
<1>3. ASSUME UNCHANGED objects, tasks'[k].answer = tasks[k].answer PROVE Kept(k)
  BY <1>3 DEF Kept
<1>4. CASE EndList(k)
  BY <1>1, <1>3, <1>4, EndingNotes DEF EndList
<1>5. CASE EndDownload(k)
  BY <1>1, <1>3, <1>5, ReturningNotes DEF EndDownload
<1>6. ASSUME NEW l \in List, BeginList(k, l) PROVE Kept(k)
  BY <1>1, <1>3, <1>6, BeginningNotes DEF BeginList
<1> QED BY <1>2, <1>4, <1>5, <1>6

-----------------------------------------------------------------------------
(* Every step keeps the invariant.                                          *)

LEMMA FirstNext ==
    ASSUME TypeOK, MadeInv, TaskInv, KnownInv, FirstInv, Next
    PROVE  FirstInv' \/ corrupt'
<1> USE DEF heapVars, listVars, viewVars, ghostVars
<1>1. SUFFICES ASSUME tasks'[1].state = "copying", Calm(1)', ~corrupt'
               PROVE  \A o \in anime_list' :
                          objects'[o].status = tasks'[1].answer[objects'[o].id].status
  BY DEF FirstInv, StatusOf, IdOf
<1>2. /\ HeapOK /\ TasksOK /\ 1 \in Task /\ tasks[1] \in TaskRecord /\ tasks'[1].alone
      /\ anime_list \subseteq Heap
  BY <1>1, Constants DEF TypeOK, TasksOK, Calm, MadeInv
<1>3. Own(1) \/ Quiet(1)
  BY <1>1, <1>2, Others
<1>4. Grows
  BY HeapNext
<1>5. CASE Answered(1)
  BY <1>5 DEF Answered
<1>6. ASSUME tasks[1].state = "copying", Calm(1), Kept(1)
      PROVE  \A o \in anime_list :
                 objects'[o].status = tasks'[1].answer[objects'[o].id].status
  BY <1>2, <1>4, <1>6 DEF FirstInv, StatusOf, IdOf, Kept, Grows
<1>7. CASE Quiet(1)
  <2>1. tasks[1].state = "copying" /\ Calm(1) /\ anime_list' = anime_list
    BY <1>1, <1>7 DEF Quiet, Calm
  <2> QED BY <1>2, <1>6, <1>7, <2>1, OthersKeep
<1>8. ASSUME NEW l \in List, BeginList(1, l)
      PROVE  /\ tasks[1].state = "copying" /\ Calm(1) /\ anime_list' = anime_list
  BY <1>1, <1>2, <1>8, BeginningNotes DEF BeginList, Calm
<1>9. ASSUME EndList(1)
      PROVE  /\ tasks[1].state = "copying" /\ Calm(1) /\ anime_list' = anime_list
  BY <1>1, <1>2, <1>9, EndingNotes DEF EndList, Calm, TaskInv
<1>10. CASE EndDownload(1)
  BY <1>1, <1>2, <1>10, ReturningNotes
<1>11. ASSUME NEW i \in Id, CopyEntry(1, i)
       PROVE  \A o \in anime_list' :
                  objects'[o].status = tasks'[1].answer[objects'[o].id].status
  <2>1. tasks[1].state = "copying" /\ \E key, o : Copied(1, i, key, o)
    BY <1>11 DEF CopyEntry, UpdateEntry, LoadEntry, LoadCustomEntry
  <2>2. tasks'[1].alone = tasks[1].alone
    BY <1>2, <2>1, CopyingNotes
  <2>3. Calm(1)
    BY <1>1, <2>2 DEF Calm
  <2>4. Kept(1)
    BY <1>1, <1>2, <1>11, <2>3, CopiesShow
  <2>5. CASE anime_list' = anime_list
    BY <1>6, <2>1, <2>3, <2>4, <2>5
  <2>6. CASE New(i, tasks[1].answer[i].status) /\ anime_list' = anime_list \cup {made}
    <3>1. objects'[made] = [id |-> i, status |-> tasks[1].answer[i].status]
      BY <1>2, <2>6, MakingAppends
    <3>2. objects'[made].status = tasks'[1].answer[objects'[made].id].status
      BY <2>4, <3>1 DEF Kept
    <3> QED BY <1>6, <2>1, <2>3, <2>4, <2>6, <3>2
  <2> QED BY <1>11, <2>5, <2>6 DEF CopyEntry, UpdateEntry, LoadEntry, LoadCustomEntry
<1> QED BY <1>2, <1>3, <1>5, <1>6, <1>7, <1>8, <1>9, <1>10, <1>11, OthersKeep DEF Own

LEMMA ServerNext ==
    ASSUME TypeOK, MadeInv, TaskInv, KnownInv, FirstInv, ServerInv, Next
    PROVE  ServerInv'
<1> USE DEF heapVars, listVars, viewVars, ghostVars
<1>1. SUFFICES ASSUME NEW k \in Task, Calm(k)'
               PROVE  /\ tasks'[k].state = "copying" /\ ~corrupt' => CopyingShows(k)'
                      /\ tasks'[k].state = "done" => DoneShows(k)'
  BY DEF ServerInv
<1>2. SUFFICES ASSUME tasks'[k].state \in {"copying", "done"}
               PROVE  /\ tasks'[k].state = "copying" /\ ~corrupt' => CopyingShows(k)'
                      /\ tasks'[k].state = "done" => DoneShows(k)'
  OBVIOUS
<1>3. /\ HeapOK /\ TasksOK /\ tasks[k] \in TaskRecord /\ tasks'[k].alone
      /\ ListsOK /\ ~corrupt /\ tasks' \in [Task -> TaskRecord]
  BY <1>1, TasksNext
     DEF TypeOK, TasksOK, Calm, Next, Download, Refresh, Handlers, User, Watch, StopTimer,
         UpdateNothing, UpdateReturns, Sound
<1>4. Own(k) \/ Quiet(k)
  BY <1>2, <1>3, Others
<1>5. /\ \A l \in List : FitsIn(user_lists[l], objects)
      /\ FitsIn(tasks[k].copy, objects)
      /\ \A c \in Custom : FitsIn(tasks[k].custom[c], objects)
  BY DEF MadeInv
<1>6. ASSUME Answered(k)
      PROVE  CopyingShows(k)' /\ tasks'[k].state = "copying"
  <2>1. /\ tasks'[k].state = "copying"
        /\ tasks'[k].todo = UNION {tasks'[k].answer[i].lists : i \in Id}
        /\ tasks'[k].list = tasks[k].list /\ tasks[k].state = "asking"
    BY <1>3, <1>6, Answering
  <2>2. tasks[k].list = NoList
    BY <2>1 DEF TaskInv
  <2>3. \A i \in Id : tasks'[k].answer[i].lists \subseteq tasks'[k].todo
    BY <2>1
  <2> QED BY <2>1, <2>2, <2>3 DEF CopyingShows
\* What is shown at k in a list that stays, or is copied, still is.
<1>7. ASSUME Kept(k), NEW f, NEW g, FitsIn(f, objects), NEW i \in Id, Shows(f, i, k), g[i] = f[i]
      PROVE  g[i] # 0 /\ objects'[g[i]].status = tasks'[k].answer[i].status
  BY <1>7, StillShown
<1>8. ASSUME Kept(k), CopyingShows(k), NEW i \in Id, NEW l \in Status,
             l \notin tasks[k].todo, l \in tasks'[k].answer[i].lists,
             user_lists'[l] = user_lists[l]
      PROVE  Shows(user_lists[l], i, k)'
  <2>1. Shows(user_lists[l], i, k)
    BY <1>8 DEF CopyingShows, Kept
  <2>2. FitsIn(user_lists[l], objects)
    BY <1>5, Constants
  <2> QED BY <1>7, <1>8, <2>1, <2>2 DEF Shows, StatusOf
<1>9. ASSUME Kept(k), CopyingShows(k), NEW i \in Id, NEW c \in Custom,
             c \notin tasks[k].todo, c \in tasks'[k].answer[i].lists,
             NEW g, g[i] = tasks[k].custom[c][i]
      PROVE  g[i] # 0 /\ objects'[g[i]].status = tasks'[k].answer[i].status
  <2>1. Shows(tasks[k].custom[c], i, k)
    BY <1>9 DEF CopyingShows, Kept
  <2>2. FitsIn(tasks[k].custom[c], objects)
    BY <1>5
  <2> QED BY <1>7, <1>9, <2>1, <2>2
<1>10. ASSUME Kept(k), CopyingShows(k), NEW i \in Id, i \notin tasks[k].ids,
              tasks[k].list # NoList, tasks[k].list \in tasks'[k].answer[i].lists,
              NEW g, g[i] = tasks[k].copy[i]
       PROVE  g[i] # 0 /\ objects'[g[i]].status = tasks'[k].answer[i].status
  <2>1. Shows(tasks[k].copy, i, k)
    BY <1>10 DEF CopyingShows, Kept
  <2> QED BY <1>5, <1>7, <1>10, <2>1
<1>11. CASE Quiet(k)
  <2>1. Kept(k) /\ Calm(k) /\ tasks'[k] = tasks[k] /\ user_lists' = user_lists
    BY <1>1, <1>11, OthersKeep DEF Quiet, Calm
  <2>2. CASE tasks[k].state = "copying"
    <3>1. CopyingShows(k)
      BY <1>3, <2>1, <2>2 DEF ServerInv
    <3>2. \A i \in Id, l \in Status \ tasks'[k].todo :
             l \in tasks'[k].answer[i].lists => Shows(user_lists[l], i, k)'
      BY <1>8, <2>1, <3>1
    <3>3. \A i \in Id, c \in Custom \ tasks'[k].todo :
             c \in tasks'[k].answer[i].lists => Shows(tasks[k].custom[c], i, k)'
      BY <1>9, <2>1, <3>1 DEF Shows, StatusOf
    <3>4. \A i \in Id \ tasks'[k].ids :
             tasks'[k].list # NoList /\ tasks'[k].list \in tasks'[k].answer[i].lists
                 => Shows(tasks[k].copy, i, k)'
      BY <1>10, <2>1, <3>1 DEF Shows, StatusOf
    <3> QED BY <2>1, <2>2, <3>2, <3>3, <3>4 DEF CopyingShows
  <2>3. CASE tasks[k].state = "done"
    <3>1. DoneShows(k)
      BY <2>1, <2>3 DEF ServerInv
    <3>2. ASSUME NEW i \in Id, NEW l \in List, l \in tasks'[k].answer[i].lists
          PROVE  Shows(user_lists[l], i, k)'
      <4>1. Shows(user_lists[l], i, k)
        BY <2>1, <3>1, <3>2 DEF DoneShows
      <4> QED BY <1>5, <1>7, <2>1, <4>1 DEF Shows, StatusOf
    <3> QED BY <2>1, <2>3, <3>2 DEF DoneShows
  <2> QED BY <1>2, <2>1, <2>2, <2>3
<1>12. ASSUME NEW l \in List, BeginList(k, l)
       PROVE  CopyingShows(k)' /\ tasks'[k].state = "copying"
  <2>1. /\ Kept(k) /\ Calm(k) /\ tasks[k].state = "copying" /\ user_lists' = user_lists
        /\ tasks'[k].todo = tasks[k].todo /\ tasks'[k].custom = tasks[k].custom
        /\ tasks'[k].list = l /\ tasks'[k].state = "copying"
        /\ tasks'[k].ids = {i \in Id : l \in tasks'[k].answer[i].lists}
    <3>1. /\ tasks[k].state = "copying" /\ tasks'[k].answer = tasks[k].answer
          /\ tasks'[k].state = tasks[k].state /\ tasks'[k].alone = tasks[k].alone
          /\ tasks'[k].todo = tasks[k].todo /\ tasks'[k].custom = tasks[k].custom
          /\ tasks'[k].list = l
          /\ tasks'[k].ids = {i \in Id : l \in tasks[k].answer[i].lists}
      BY <1>3, <1>12, BeginningNotes
    <3>2. Kept(k)
      BY <1>12, OthersKeep
    <3>3. user_lists' = user_lists
      BY <1>12 DEF BeginList
    <3>4. Calm(k)
      BY <1>1, <3>1 DEF Calm
    <3> QED BY <3>1, <3>2, <3>3, <3>4
  <2>2. CopyingShows(k)
    BY <1>3, <2>1 DEF ServerInv
  <2>3. \A i \in Id, s \in Status \ tasks'[k].todo :
           s \in tasks'[k].answer[i].lists => Shows(user_lists[s], i, k)'
    BY <1>8, <2>1, <2>2
  <2>4. \A i \in Id, c \in Custom \ tasks'[k].todo :
           c \in tasks'[k].answer[i].lists => Shows(tasks[k].custom[c], i, k)'
    BY <1>9, <2>1, <2>2 DEF Shows, StatusOf
  <2> QED BY <2>1, <2>3, <2>4 DEF CopyingShows
<1>13. ASSUME NEW i \in Id, CopyEntry(k, i)
       PROVE  (~corrupt' => CopyingShows(k)') /\ tasks'[k].state = "copying"
  <2>1. \E key, o : Copied(k, i, key, o)
    BY <1>13 DEF CopyEntry, UpdateEntry, LoadEntry, LoadCustomEntry
  <2>2. tasks[k].state = "copying" /\ user_lists' = user_lists /\ Calm(k)
    BY <1>1, <1>3, <1>13, <2>1, CopyingNotes DEF CopyEntry, Calm
  <2>3. tasks'[k].state = "copying"
    BY <1>3, <2>1, <2>2, CopyingNotes
  <2>4. SUFFICES ASSUME ~corrupt' PROVE CopyingShows(k)'
    BY <2>3
  <2>5. PICK o : /\ Copied(k, i, i, o) /\ o # 0
                 /\ objects'[o].status = tasks[k].answer[i].status
    BY <1>13, <2>2, <2>4, CopiesShow
  <2>6. Kept(k) /\ CopyingShows(k)
    <3>1. Kept(k)
      BY <1>13, <2>2, <2>4, CopiesShow
    <3>2. CopyingShows(k)
      BY <1>3, <2>2 DEF ServerInv
    <3> QED BY <3>1, <3>2
  <2>7. /\ tasks'[k].todo = tasks[k].todo /\ tasks'[k].custom = tasks[k].custom
        /\ tasks'[k].list = tasks[k].list /\ tasks'[k].state = "copying"
        /\ tasks'[k].copy[i] = o
        /\ \A j \in Id : j # i => tasks'[k].copy[j] = tasks[k].copy[j]
        /\ tasks'[k].ids = tasks[k].ids \ {i}
        /\ tasks'[k].answer = tasks[k].answer
    BY <1>3, <1>13, <2>2, <2>5, CopyingNotes
  <2>8. \A j \in Id, s \in Status \ tasks'[k].todo :
           s \in tasks'[k].answer[j].lists => Shows(user_lists[s], j, k)'
    BY <1>8, <2>2, <2>6, <2>7
  <2>9. \A j \in Id, c \in Custom \ tasks'[k].todo :
           c \in tasks'[k].answer[j].lists => Shows(tasks[k].custom[c], j, k)'
    BY <1>9, <2>6, <2>7 DEF Shows, StatusOf
  <2>10. ASSUME NEW j \in Id, j \notin tasks'[k].ids, tasks'[k].list # NoList,
               tasks'[k].list \in tasks'[k].answer[j].lists
        PROVE  Shows(tasks[k].copy, j, k)'
    <3>1. CASE j = i
      BY <2>5, <2>7, <3>1 DEF Shows, StatusOf
    <3>2. CASE j # i
      <4>1. tasks'[k].copy[j] = tasks[k].copy[j] /\ j \notin tasks[k].ids
        BY <2>7, <2>10, <3>2
      <4> QED BY <1>10, <2>6, <2>7, <2>10, <4>1 DEF Shows, StatusOf
    <3> QED BY <3>1, <3>2
  <2> QED BY <2>7, <2>8, <2>9, <2>10 DEF CopyingShows
<1>14. ASSUME EndList(k)
       PROVE  CopyingShows(k)' /\ tasks'[k].state = "copying"
  <2> DEFINE m == tasks[k].list
  <2>1. /\ m # NoList /\ tasks[k].ids = {} /\ m \in List
        /\ tasks'[k].state = tasks[k].state /\ tasks'[k].alone = tasks[k].alone
        /\ tasks'[k].list = NoList /\ tasks'[k].todo = tasks[k].todo \ {m}
        /\ tasks'[k].custom = IF m \in Custom
                              THEN [tasks[k].custom EXCEPT ![m] = tasks[k].copy]
                              ELSE tasks[k].custom
        /\ user_lists' = IF m \in Custom THEN user_lists
                         ELSE [user_lists EXCEPT ![m] = tasks[k].copy]
    <3>1. m # NoList => m \in List
      BY <1>3 DEF TaskRecord
    <3>2. user_lists' = IF m \in Custom THEN user_lists
                        ELSE [user_lists EXCEPT ![m] = tasks[k].copy]
      BY <1>14 DEF EndList
    <3> QED BY <1>3, <1>14, <3>1, <3>2, EndingNotes
  <2>2. tasks[k].state = "copying" /\ Calm(k) /\ Kept(k)
    BY <1>1, <1>14, <2>1, OthersKeep DEF TaskInv, Calm
  <2>3. CopyingShows(k)
    BY <1>3, <2>2 DEF ServerInv
  <2>4. /\ user_lists \in [List -> Slots] /\ tasks[k].custom \in [Custom -> Slots]
        /\ Status \cap Custom = {} /\ List = Status \cup Custom
    BY <1>3, Constants DEF ListsOK, TaskRecord, List
  <2>5. ASSUME NEW i \in Id, NEW l \in Status, l \notin tasks'[k].todo,
               l \in tasks'[k].answer[i].lists
        PROVE  Shows(user_lists[l], i, k)'
    <3>1. CASE l = m
      <4>1. user_lists'[l][i] = tasks[k].copy[i]
        BY <2>1, <2>4, <3>1
      <4> QED BY <1>10, <2>1, <2>2, <2>3, <2>5, <3>1, <4>1 DEF Shows, StatusOf
    <3>2. CASE l # m
      <4>1. user_lists'[l] = user_lists[l] /\ l \notin tasks[k].todo
        BY <2>1, <2>4, <2>5, <3>2
      <4> QED BY <1>8, <2>2, <2>3, <2>5, <4>1
    <3> QED BY <3>1, <3>2
  <2>6. ASSUME NEW i \in Id, NEW c \in Custom, c \notin tasks'[k].todo,
               c \in tasks'[k].answer[i].lists
        PROVE  Shows(tasks[k].custom[c], i, k)'
    <3>1. CASE c = m
      <4>1. tasks'[k].custom[c][i] = tasks[k].copy[i]
        BY <2>1, <2>4, <3>1
      <4> QED BY <1>10, <2>1, <2>2, <2>3, <2>6, <3>1, <4>1 DEF Shows, StatusOf
    <3>2. CASE c # m
      <4>1. tasks'[k].custom[c][i] = tasks[k].custom[c][i] /\ c \notin tasks[k].todo
        BY <2>1, <2>4, <2>6, <3>2
      <4> QED BY <1>9, <2>2, <2>3, <2>6, <4>1 DEF Shows, StatusOf
    <3> QED BY <3>1, <3>2
  <2> QED BY <2>1, <2>2, <2>5, <2>6 DEF CopyingShows
<1>15. ASSUME EndDownload(k)
       PROVE  DoneShows(k)' /\ tasks'[k].state = "done"
  <2>1. /\ tasks[k].state = "copying" /\ tasks[k].todo = {} /\ Calm(k) /\ Kept(k)
        /\ tasks'[k].state = "done"
        /\ user_lists' = [l \in List |-> IF l \in Custom THEN tasks[k].custom[l]
                                         ELSE user_lists[l]]
    BY <1>1, <1>3, <1>15, ReturningNotes, OthersKeep DEF EndDownload, Calm
  <2>2. CopyingShows(k)
    BY <1>3, <2>1 DEF ServerInv
  <2>3. ASSUME NEW i \in Id, NEW l \in List, l \in tasks'[k].answer[i].lists
        PROVE  Shows(user_lists[l], i, k)'
    <3>1. CASE l \in Custom
      <4>1. user_lists'[l][i] = tasks[k].custom[l][i]
        BY <2>1, <3>1
      <4> QED BY <1>9, <2>1, <2>2, <2>3, <3>1, <4>1 DEF Shows, StatusOf
    <3>2. CASE l \notin Custom
      <4>1. user_lists'[l] = user_lists[l] /\ l \in Status
        BY <2>1, <3>2 DEF List
      <4> QED BY <1>8, <2>1, <2>2, <2>3, <4>1
    <3> QED BY <3>1, <3>2
  <2> QED BY <2>1, <2>3 DEF DoneShows
<1>16. CASE Own(k)
  BY <1>6, <1>12, <1>13, <1>14, <1>15, <1>16 DEF Own
<1> QED BY <1>4, <1>11, <1>16

-----------------------------------------------------------------------------
(* The theorem.                                                             *)

(* No step follows the use of a deleted Anime, and what the lists show no   *)
(* longer counts after it while the download copies.                        *)
ShownInv ==
    /\ Inv /\ KnownInv
    /\ ~corrupt => FirstInv
    /\ ServerInv

LEMMA ShownInit == Init => ShownInv
<1>1. SUFFICES ASSUME Init PROVE ShownInv
  OBVIOUS
<1>2. Inv
  BY <1>1, InvInit
<1>3. /\ \A l \in List : user_lists[l] = Empty
      /\ \A k \in Task : /\ tasks[k].copy = Empty /\ tasks[k].custom = NoTask.custom
                         /\ tasks[k].state \in {"none", "asking"}
  BY <1>1 DEF Init, NoTask
<1>4. \A i \in Id : Empty[i] = 0 /\ \A c \in Custom : NoTask.custom[c][i] = 0
  BY DEF NoTask, Empty
<1>5. KnownInv
  BY <1>3, <1>4 DEF KnownInv, ListedIn
<1>6. FirstInv /\ ServerInv
  BY <1>3, Constants DEF FirstInv, ServerInv
<1> QED BY <1>2, <1>5, <1>6 DEF ShownInv

LEMMA ShownNext == ShownInv /\ [Next]_vars => ShownInv'
<1>1. SUFFICES ASSUME ShownInv, [Next]_vars PROVE ShownInv'
  OBVIOUS
<1>2. Inv' /\ TypeOK /\ MadeInv /\ TaskInv /\ KnownInv /\ ServerInv
  BY <1>1, InvNext DEF ShownInv, Inv
<1>3. CASE Next
  <2>1. FirstInv
    BY <1>1, <1>3 DEF ShownInv, Next, Download, Refresh, Handlers, User, Watch,
                      StopTimer, UpdateNothing, UpdateReturns, Sound
  <2>2. KnownInv'
    BY <1>2, <1>3, KnownNext
  <2>3. FirstInv' \/ corrupt'
    BY <1>2, <1>3, <2>1, FirstNext
  <2>4. ServerInv'
    BY <1>2, <1>3, <2>1, ServerNext
  <2> QED BY <1>2, <2>2, <2>3, <2>4 DEF ShownInv
<1>4. CASE UNCHANGED vars
  <2> USE DEF vars, heapVars, listVars, viewVars, ghostVars
  <2>1. KnownInv'
    BY <1>2, <1>4 DEF KnownInv, Known, ListedIn
  <2>2. (~corrupt => FirstInv)'
    BY <1>1, <1>4 DEF ShownInv, FirstInv, Calm, StatusOf, IdOf
  <2>3. ServerInv'
    BY <1>2, <1>4 DEF ServerInv, CopyingShows, DoneShows, Shows, StatusOf, Calm
  <2> QED BY <1>2, <2>1, <2>2, <2>3 DEF ShownInv
<1> QED BY <1>1, <1>3, <1>4

(* When a download ends that nobody disturbed, every list shows every entry *)
(* the server answered for it, as it was there: fetchUpdatedList and        *)
(* loadUserList lose none, however many entries and lists there are.        *)
THEOREM ShowsServer == Spec => []DownloadShowsServer
<1>1. ShownInv => DownloadShowsServer
  BY DEF ShownInv, ServerInv, DoneShows, Shows, Calm, Titles, DownloadShowsServer,
         Inv, TypeOK, TasksOK, TaskRecord, Entries, Absent
<1>2. Spec => []ShownInv
  BY ShownInit, ShownNext, PTL DEF Spec
<1> QED BY <1>1, <1>2, PTL

-----------------------------------------------------------------------------
(* One Anime for an entry: the invariant.                                   *)

Busy(k) == tasks[k].state = "copying"
Idle == \A k \in Task : ~Busy(k)

(* The server keeps an entry in no list of another status.                  *)
InOwnList(e) == e.lists \cap Status \subseteq {e.status}
WorldInv ==
    /\ \A i \in Id : InOwnList(server[i])
    /\ \A k \in Task, i \in Id : InOwnList(tasks[k].answer[i])

(* What the handlers and panels hold is known, unless it is new.            *)
HoldersInv ==
    /\ \A n \in DOMAIN waiting :
          /\ waiting[n].op = "status" => IdOf(waiting[n].obj) \in moved
          /\ waiting[n].op = "remove" => waiting[n].obj \in Known
    /\ \A p \in panels :
          /\ ~p.new_entry => p.obj \in Known
          /\ p.new_entry /\ p.mover => p.old = NoStatus

(* Custom lists come last, and nothing is copied that is not on the list.   *)
OrderInv ==
    \A k \in Task :
        /\ tasks[k].list \in Custom => tasks[k].todo \subseteq Custom
        /\ \A i \in tasks[k].ids : tasks[k].list \in tasks[k].answer[i].lists
OneBusy == ~overlapped => \A j, k \in Task : Busy(j) /\ Busy(k) => j = k

\* A handler waits that is going to move o from the list `old' to another.
Joined(o, old) ==
    \E n \in DOMAIN waiting :
        /\ waiting[n].op = "accept" /\ waiting[n].mover
        /\ waiting[n].obj = o /\ waiting[n].old = old
Old == Status \cup {NoStatus}

\* A handler waits that is going to delete o.
Leaving(o) == \E n \in DOMAIN waiting : waiting[n].op = "remove" /\ waiting[n].obj = o

\* The objects that are, or are going to be, in anime_list for the entry.
Mine(i) ==
    {o \in Heap \ dead :
        IdOf(o) = i /\ (o \in anime_list \/ \E old \in Old : Joined(o, old))}
Single(i) == \A o, p \in Mine(i) : o = p

\* The download k has to copy the entry i to the list l yet.
ToCopy(k, l, i) ==
    /\ l \in tasks[k].answer[i].lists
    /\ IF l = tasks[k].list THEN i \in tasks[k].ids ELSE l \in tasks[k].todo
\* Where it takes the object from, and puts it.
Slot(k, l, i) ==
    IF l = tasks[k].list THEN tasks[k].copy[i]
    ELSE IF l \in Custom \ tasks[k].todo THEN tasks[k].custom[l][i]
    ELSE user_lists[l][i]
\* It is going to make a new one.
Makes(k, l, i) ==
    ToCopy(k, l, i) /\ IF k = 1 THEN l \in Status ELSE Slot(k, l, i) = 0

(* The server has the status the object has; an object that is not in       *)
(* anime_list yet has been saved.  A list without the object that the       *)
(* server has the entry on is one a handler is going to add it to.          *)
Agrees(i) == \A o \in Mine(i) : server[i] = Absent \/ server[i].status = StatusOf(o)
Saved(i) == \A o \in Mine(i) : o \in anime_list \/ server[i] # Absent
Settled(i) == \A o \in Mine(i), old \in Old : Joined(o, old) => Idle
Listed(i) ==
    Idle => \A o \in Mine(i), l \in server[i].lists :
               \/ user_lists[l][i] # 0
               \/ l = StatusOf(o) /\ \E old \in Old : old # l /\ Joined(o, old)

(* A download answers what the server still has, unless it is deleted; what *)
(* it is through with is in its lists; it makes an object when there is     *)
(* none, and then only one.                                                 *)
Current(k, i) == server[i] \in {Absent, tasks[k].answer[i]}
Through(k, i) ==
    \A l \in tasks[k].answer[i].lists : ~ToCopy(k, l, i) => Slot(k, l, i) # 0
MakesOne(k, i) ==
    \A l \in List : Makes(k, l, i) =>
        Mine(i) = {} /\ \A m \in List : Makes(k, m, i) => m = l
Fits(i) == \A k \in Task : Busy(k) => Current(k, i) /\ Through(k, i) /\ MakesOne(k, i)

EntryInv(i) == Agrees(i) /\ Saved(i) /\ Settled(i) /\ Listed(i) /\ Fits(i)

EntriesInv == ~overlapped => \A i \in Id \ moved : Single(i) /\ EntryInv(i)
SidesInv == WorldInv /\ HoldersInv /\ OrderInv /\ OneBusy

-----------------------------------------------------------------------------
(* The handlers and the heap.                                               *)

LEMMA JoinedStays ==
    ASSUME NEW o, NEW old, UNCHANGED waiting
    PROVE  Joined(o, old)' <=> Joined(o, old)
BY DEF Joined

LEMMA Waits ==
    ASSUME TypeOK, NEW op, NEW p, NEW from, NEW mover, Wait(op, p, from, mover)
    PROVE  LET m == Len(waiting) + 1
           IN  /\ DOMAIN waiting' = DOMAIN waiting \cup {m}
               /\ \A n \in DOMAIN waiting : waiting'[n] = waiting[n]
               /\ waiting'[m].op = op /\ waiting'[m].obj = p
               /\ waiting'[m].old = from /\ waiting'[m].mover = mover
<1> DEFINE h == [op |-> op, obj |-> p, old |-> from, mover |-> mover]
<1>1. waiting \in Seq(HandlerRecord)
  BY DEF TypeOK, ViewOK
<1>2. waiting' = Append(waiting, h) /\ h.obj = p /\ h.op = op /\ h.old = from /\ h.mover = mover
  BY DEF Wait
<1> HIDE DEF h
<1>3. /\ \A n \in 1..Len(waiting) : waiting'[n] = waiting[n]
      /\ waiting'[Len(waiting) + 1] = h
      /\ DOMAIN waiting' = 1..Len(waiting) + 1 /\ DOMAIN waiting = 1..Len(waiting)
      /\ Len(waiting) \in Nat
  BY <1>1, <1>2
<1>4. DOMAIN waiting' = DOMAIN waiting \cup {Len(waiting) + 1}
  BY <1>3
<1> QED BY <1>2, <1>3, <1>4

LEMMA JoinedWaits ==
    ASSUME TypeOK, NEW op, NEW p, NEW from, NEW mover,
           Wait(op, p, from, mover), NEW o, NEW old
    PROVE  Joined(o, old)' <=>
               \/ Joined(o, old)
               \/ op = "accept" /\ mover /\ p = o /\ from = old
BY Waits DEF Joined

LEMMA LeavingWaits ==
    ASSUME TypeOK, NEW op, NEW p, NEW from, NEW mover,
           Wait(op, p, from, mover), NEW o
    PROVE  /\ Leaving(o) => Leaving(o)'
           /\ op = "remove" /\ p = o => Leaving(o)'
BY Waits DEF Leaving

LEMMA OthersWait ==
    ASSUME TypeOK, NEW op, NEW p, NEW from, NEW mover,
           Wait(op, p, from, mover), op # "accept", NEW o, NEW old
    PROVE  Joined(o, old)' <=> Joined(o, old)
BY JoinedWaits

LEMMA Resumes ==
    ASSUME TypeOK, NEW op, Resume(op)
    PROVE  /\ DOMAIN waiting = DOMAIN waiting' \cup {Len(waiting)}
           /\ \A n \in DOMAIN waiting' : waiting'[n] = waiting[n]
           /\ Top = waiting[Len(waiting)] /\ Top.op = op
<1>1. waiting \in Seq(HandlerRecord) /\ waiting # <<>> /\ Top.op = op
  BY DEF TypeOK, ViewOK, Resume
<1>2. Len(waiting) \in DOMAIN waiting /\ DOMAIN waiting = 1..Len(waiting) /\ Len(waiting) \in Nat
  BY <1>1
<1>3. waiting' = SubSeq(waiting, 1, Len(waiting) - 1)
  BY DEF Resume
<1>4. /\ waiting' \in Seq(HandlerRecord)
      /\ Len(waiting') = Len(waiting) - 1
      /\ \A n \in 1..Len(waiting) - 1 : waiting'[n] = waiting[n]
  BY <1>1, <1>2, <1>3
<1>5. \A m \in Int : m > 0 => 1..m = 1..(m - 1) \cup {m}
  OBVIOUS
<1>6. DOMAIN waiting' = 1..Len(waiting) - 1 /\ Len(waiting) > 0
  BY <1>2, <1>4
<1>7. /\ DOMAIN waiting = DOMAIN waiting' \cup {Len(waiting)}
      /\ \A n \in DOMAIN waiting' : waiting'[n] = waiting[n]
  BY <1>2, <1>4, <1>5, <1>6
<1> QED BY <1>1, <1>7 DEF Top

LEMMA JoinedResumes ==
    ASSUME TypeOK, NEW op, Resume(op), NEW o, NEW old
    PROVE  Joined(o, old) <=>
               \/ Joined(o, old)'
               \/ op = "accept" /\ Top.mover /\ Top.obj = o /\ Top.old = old
BY Resumes DEF Joined

LEMMA LeavingResumes ==
    ASSUME TypeOK, NEW op, Resume(op), NEW o
    PROVE  Leaving(o) => Leaving(o)' \/ (op = "remove" /\ Top.obj = o)
BY Resumes DEF Leaving

-----------------------------------------------------------------------------
(* The downloads.                                                           *)

\* What does not belong to a download leaves those that copy alone.
Rests(k) ==
    /\ ~Busy(k) /\ ~Busy(k)'
    /\ tasks'[k].list = NoList /\ tasks'[k].ids = {}
    /\ tasks'[k].answer \in {tasks[k].answer, NoTask.answer}
Onward == \A k \in Task : Alike(tasks'[k], tasks[k]) \/ Rests(k)

LEMMA Onwards ==
    ASSUME TypeOK, TaskInv, Refresh \/ Handlers \/ User
    PROVE  Onward
<1>1. TasksOK /\ tasks \in [Task -> TaskRecord]
  BY DEF TypeOK, TasksOK
<1>2. CASE tasks' = tasks \/ Disturb
  <2>1. \A k \in Task : Alike(tasks[k], tasks[k]) /\ Alike(Disturbed(0)[k], tasks[k])
    BY <1>1, Disturbing DEF Alike
  <2> QED BY <1>2, <2>1 DEF Onward, Disturb
<1>3. ASSUME NEW k \in Task, StartRefresh(k) PROVE Onward
  <2>1. tasks' = [tasks EXCEPT ![k].state = "asking"] /\ tasks[k].state = "none"
    BY <1>3 DEF StartRefresh
  <2>2. /\ tasks'[k].state = "asking" /\ tasks'[k].list = tasks[k].list
        /\ tasks'[k].ids = tasks[k].ids /\ tasks'[k].answer = tasks[k].answer
    BY <1>1, <2>1 DEF TaskRecord
  <2>3. Rests(k)
    BY <2>1, <2>2 DEF Rests, Busy, TaskInv
  <2>4. \A j \in Task \ {k} : Alike(tasks'[j], tasks[j])
    BY <1>1, <2>1 DEF Alike
  <2> QED BY <2>3, <2>4 DEF Onward
<1>4. ASSUME NEW k \in Task, Finished(k) PROVE Onward
  <2>1. tasks' = [tasks EXCEPT ![k] = [NoTask EXCEPT !.state = "finished"]]
        /\ tasks[k].state = "done"
    BY <1>4 DEF Finished
  <2>2. /\ tasks'[k].state = "finished" /\ tasks'[k].list = NoList
        /\ tasks'[k].ids = {} /\ tasks'[k].answer = NoTask.answer
    BY <1>1, <2>1 DEF NoTask
  <2>3. Rests(k)
    BY <2>1, <2>2 DEF Rests, Busy
  <2>4. \A j \in Task \ {k} : Alike(tasks'[j], tasks[j])
    BY <1>1, <2>1 DEF Alike
  <2> QED BY <2>3, <2>4 DEF Onward
<1>6. ASSUME NEW o, NEW last, UpdateEpisode(o, last) PROVE tasks' = tasks \/ Disturb
  BY <1>6 DEF UpdateEpisode, Disturb
<1>5. CASE Handlers \/ User
  BY <1>2, <1>5, <1>6
     DEF Handlers, User, StatusReturns, remove, AcceptReturns, UpdateStatus, DeleteEntry,
         Watch, StopTimer, UpdateNothing, UpdateReturns, ToggleCustom, HideDefault,
         RemoteChange, OpenPanel, OpenCard, PaintCard, OpenNew, Browse, BadLookup, Accept
<1> QED BY <1>3, <1>4, <1>5 DEF Refresh

LEMMA OwnSteps ==
    ASSUME TypeOK, TaskInv, NEW k \in Task, Own(k)
    PROVE  /\ \A j \in Task \ {k} : Alike(tasks'[j], tasks[j])
           /\ tasks[k].state \in {"asking", "copying"}
           /\ \/ Answered(k)
              \/ tasks[k].state = "copying" /\ tasks'[k].answer = tasks[k].answer
<1>1. TasksOK
  BY DEF TypeOK
<1>2. CASE Answered(k)
  <2>1. tasks[k].state = "asking"
    BY <1>2 DEF Answered
  <2>2. \A j \in Task \ {k} : Alike(tasks'[j], tasks[j])
    BY <1>1, <1>2, Steps
  <2> QED BY <1>2, <2>1, <2>2
<1>3. CASE EndList(k)
  BY <1>1, <1>3, Steps, EndingNotes DEF TaskInv
<1>4. CASE EndDownload(k)
  BY <1>1, <1>4, Steps, ReturningNotes
<1>5. ASSUME NEW l \in List, BeginList(k, l)
      PROVE  /\ \A j \in Task \ {k} : Alike(tasks'[j], tasks[j])
             /\ tasks[k].state = "copying" /\ tasks'[k].answer = tasks[k].answer
  BY <1>1, <1>5, Steps, BeginningNotes
<1>6. ASSUME NEW i \in Id, CopyEntry(k, i)
      PROVE  /\ \A j \in Task \ {k} : Alike(tasks'[j], tasks[j])
             /\ tasks[k].state = "copying" /\ tasks'[k].answer = tasks[k].answer
  <2>1. tasks[k].state = "copying" /\ \E key, o : Copied(k, i, key, o)
    BY <1>6 DEF CopyEntry, UpdateEntry, LoadEntry, LoadCustomEntry
  <2> QED BY <1>1, <2>1, Steps, CopyingNotes
<1> QED BY <1>2, <1>3, <1>4, <1>5, <1>6 DEF Own

LEMMA OrderNext ==
    ASSUME TypeOK, TaskInv, OrderInv, Next
    PROVE  OrderInv'
<1> DEFINE P(t) == /\ t.list \in Custom => t.todo \subseteq Custom
                   /\ \A i \in t.ids : t.list \in t.answer[i].lists
<1>1. TasksOK /\ (\A j \in Task : P(tasks[j])) /\ NoList \notin Custom
  BY Constants DEF OrderInv, TypeOK, List
<1>2. \A s, t : Alike(s, t) /\ P(t) => P(s)
  BY DEF Alike
<1>3. SUFFICES \A j \in Task : P(tasks'[j])
  BY DEF OrderInv
<1>4. CASE Refresh \/ Handlers \/ User
  <2>1. Onward
    BY <1>4, Onwards
  <2> QED BY <1>1, <1>2, <2>1 DEF Onward, Rests
<1>5. ASSUME NEW k \in Task, Own(k) PROVE \A j \in Task : P(tasks'[j])
  <2>1. \A j \in Task \ {k} : P(tasks'[j])
    BY <1>1, <1>2, <1>5, OwnSteps
  <2>2. CASE Answered(k)
    <3>1. /\ tasks'[k].list = tasks[k].list /\ tasks'[k].ids = tasks[k].ids
          /\ tasks[k].state = "asking"
      BY <1>1, <2>2, Steps, Answering
    <3>2. tasks[k].list = NoList /\ tasks[k].ids = {}
      BY <3>1 DEF TaskInv
    <3> QED BY <1>1, <2>1, <3>1, <3>2
  <2>3. CASE EndList(k)
    <3>1. tasks'[k].list = NoList /\ tasks'[k].ids = {}
      BY <1>1, <2>3, Steps
    <3> QED BY <1>1, <2>1, <3>1
  <2>4. CASE EndDownload(k)
    <3>1. /\ tasks'[k].list = tasks[k].list /\ tasks'[k].ids = tasks[k].ids
          /\ tasks[k].todo = {}
      BY <1>1, <2>4, Steps, ReturningNotes
    <3>2. tasks[k].list = NoList /\ tasks[k].ids = {}
      BY <3>1 DEF TaskInv
    <3> QED BY <1>1, <2>1, <3>1, <3>2
  <2>5. ASSUME NEW l \in List, BeginList(k, l) PROVE P(tasks'[k])
    <3>1. /\ tasks'[k].list = l /\ tasks'[k].todo = tasks[k].todo
          /\ tasks'[k].answer = tasks[k].answer
          /\ tasks'[k].ids = {i \in Id : l \in tasks[k].answer[i].lists}
      BY <1>1, <2>5, Steps
    <3>2. l \in Custom => tasks[k].todo \subseteq Custom
      BY <2>5 DEF BeginList
    <3> QED BY <3>1, <3>2
  <2>6. ASSUME NEW i \in Id, CopyEntry(k, i) PROVE P(tasks'[k])
    <3>1. \E key, o : Copied(k, i, key, o)
      BY <2>6 DEF CopyEntry, UpdateEntry, LoadEntry, LoadCustomEntry
    <3>2. /\ tasks'[k].list = tasks[k].list /\ tasks'[k].todo = tasks[k].todo
          /\ tasks'[k].answer = tasks[k].answer /\ tasks'[k].ids \subseteq tasks[k].ids
      BY <1>1, <3>1, Steps
    <3> QED BY <1>1, <3>2
  <2> QED BY <1>5, <2>1, <2>2, <2>3, <2>4, <2>5, <2>6 DEF Own
<1> QED BY <1>4, <1>5 DEF Next, Download, Own

\* Two downloads copy at the same time only after an answer met a download.
LEMMA OneBusyNext ==
    ASSUME TypeOK, TaskInv, OneBusy, Next
    PROVE  OneBusy'
<1>1. SUFFICES ASSUME ~overlapped', NEW j \in Task, NEW k \in Task, Busy(j)', Busy(k)'
               PROVE  j = k
  BY DEF OneBusy
<1>2. ~overlapped
  BY <1>1
     DEF Next, Download, Refresh, Handlers, User, Answered, EndList, EndDownload,
         BeginList, CopyEntry, StartRefresh, Finished, StatusReturns, remove,
         AcceptReturns, UpdateStatus, DeleteEntry, UpdateEpisode, Watch, StopTimer,
         UpdateNothing, UpdateReturns, ToggleCustom, HideDefault, RemoteChange, OpenPanel,
         OpenCard, PaintCard, OpenNew, Browse, BadLookup, Accept, ghostVars
<1>3. \A m \in Task : Alike(tasks'[m], tasks[m]) => (Busy(m)' <=> Busy(m))
  BY DEF Alike, Busy
<1>4. CASE Refresh \/ Handlers \/ User
  <2>1. Onward
    BY <1>4, Onwards
  <2>2. Busy(j) /\ Busy(k)
    BY <1>1, <1>3, <2>1 DEF Onward, Rests
  <2> QED BY <1>2, <2>2 DEF OneBusy
<1>5. ASSUME NEW m \in Task, Own(m) PROVE j = k
  <2>1. \A n \in Task \ {m} : Busy(n)' <=> Busy(n)
    BY <1>3, <1>5, OwnSteps
  <2>2. CASE Answered(m)
    <3>1. \A n \in Task \ {m} : ~Busy(n)
      BY <1>1, <2>2 DEF Answered, Running, Busy
    <3> QED BY <1>1, <2>1, <3>1
  <2>3. CASE ~Answered(m)
    <3>1. Busy(m)
      BY <1>5, <2>3, OwnSteps DEF Busy
    <3> QED BY <1>1, <1>2, <2>1, <3>1 DEF OneBusy
  <2> QED BY <2>2, <2>3
<1> QED BY <1>4, <1>5 DEF Next, Download, Own

-----------------------------------------------------------------------------
(* What the server has.                                                     *)

LEMMA Telling ==
    ASSUME WorldOK, WorldInv, NEW i, NEW e, InOwnList(e), Tell(i, e)
    PROVE  \A j \in Id : InOwnList(server'[j])
BY DEF WorldOK, WorldInv, Tell

LEMMA WithStatusIs ==
    ASSUME NEW e \in Entries, InOwnList(e), NEW s \in Status
    PROVE  InOwnList(WithStatus(e, s))
<1>1. CASE e = Absent
  BY <1>1 DEF WithStatus
<1>2. CASE e # Absent
  <2> DEFINE w == WithStatus(e, s)
  <2>1. w.status = s /\ w.lists = IF e.status \in e.lists THEN (e.lists \ {e.status}) \cup {s}
                                  ELSE e.lists
    BY <1>2 DEF WithStatus
  <2> QED BY <2>1 DEF InOwnList
<1> QED BY <1>1, <1>2

LEMMA WorldInvNext ==
    ASSUME TypeOK, MadeInv, TaskInv, WorldInv, Next
    PROVE  WorldInv'
<1> USE DEF heapVars, listVars, viewVars, ghostVars
<1>1. TasksOK /\ WorldOK /\ HeapOK /\ server \in [Id -> Entries]
  BY DEF TypeOK, WorldOK
<1>2. InOwnList(Absent) /\ \A i \in Id : NoTask.answer[i] = Absent
  BY DEF InOwnList, Absent, NoTask
<1>3. ASSUME NEW k \in Task, NEW i \in Id PROVE InOwnList(tasks'[k].answer[i])
  <2>1. ASSUME Alike(tasks'[k], tasks[k]) PROVE tasks'[k].answer = tasks[k].answer
    BY <2>1 DEF Alike
  <2>2. CASE Refresh \/ Handlers \/ User
    <3>1. Onward
      BY <2>2, Onwards
    <3> QED BY <1>2, <2>1, <3>1 DEF Onward, Rests, WorldInv
  <2>3. ASSUME NEW m \in Task, Own(m)
        PROVE  tasks'[k].answer = tasks[k].answer \/ tasks'[k].answer = server
    <3>1. CASE m # k
      BY <2>1, <2>3, <3>1, OwnSteps
    <3>2. CASE m = k
      BY <1>1, <2>3, <3>2, OwnSteps, Answering
    <3> QED BY <3>1, <3>2
  <2> QED BY <2>2, <2>3 DEF WorldInv, Next, Download, Own
<1>4. ASSUME UNCHANGED server PROVE \A i \in Id : InOwnList(server'[i])
  BY <1>4 DEF WorldInv
<1>5. ASSUME Download \/ Refresh \/ Handlers PROVE \A i \in Id : InOwnList(server'[i])
  <2>1. UNCHANGED server
    BY <1>5
       DEF Download, Answered, BeginList, EndList, EndDownload, CopyEntry, Refresh,
           StartRefresh, Finished, Handlers, StatusReturns, remove, AcceptReturns
  <2> QED BY <1>4, <2>1
<1>6. ASSUME User PROVE \A i \in Id : InOwnList(server'[i])
  <2>1. ASSUME NEW o \in DOMAIN objects
        PROVE  server[IdOf(o)] \in Entries /\ InOwnList(server[IdOf(o)])
    BY <1>1, Existing DEF Heap, WorldInv
  <2>2. ASSUME NEW o \in DOMAIN objects, NEW s \in Status
        PROVE  InOwnList(WithStatus(server[IdOf(o)], s))
    BY <2>1, WithStatusIs
  <2>3. ASSUME NEW o \in DOMAIN objects, NEW s \in Status, UpdateStatus(o, s)
        PROVE  \A i \in Id : InOwnList(server'[i])
    BY <1>1, <2>2, <2>3, Telling DEF UpdateStatus
  <2>4. ASSUME NEW o \in DOMAIN objects, NEW last \in BOOLEAN, UpdateEpisode(o, last)
        PROVE  \A i \in Id : InOwnList(server'[i])
    <3> DEFINE told == WithStatus(server[IdOf(o)], IF last THEN Completed ELSE Watching)
    <3>1. InOwnList(told)
      BY <2>2, Constants
    <3>2. UNCHANGED server \/ Tell(IdOf(o), told)
      BY <2>4 DEF UpdateEpisode
    <3> HIDE DEF told
    <3> QED BY <1>1, <1>4, <3>1, <3>2, Telling
  <2>5. ASSUME NEW o \in DOMAIN objects, DeleteEntry(o)
        PROVE  \A i \in Id : InOwnList(server'[i])
    BY <1>1, <1>2, <2>5, Telling DEF DeleteEntry
  <2>6. ASSUME NEW o \in DOMAIN objects, NEW c \in Custom, ToggleCustom(o, c)
        PROVE  \A i \in Id : InOwnList(server'[i])
    <3> DEFINE e == server[IdOf(o)]
               d == IF e = Absent THEN e
                    ELSE [e EXCEPT !.lists = IF c \in @ THEN @ \ {c} ELSE @ \cup {c}]
    <3>1. Tell(IdOf(o), d)
      BY <2>6 DEF ToggleCustom
    <3>2. InOwnList(d)
      <4>1. CASE e # Absent
        <5>1. e \in [status : Status, lists : SUBSET List] /\ InOwnList(e)
          BY <2>1, <4>1 DEF Entries
        <5>2. d.status = e.status /\ d.lists = IF c \in e.lists THEN e.lists \ {c} ELSE e.lists \cup {c}
          BY <4>1, <5>1
        <5> QED BY <5>1, <5>2, Constants DEF InOwnList
      <4> QED BY <1>2, <4>1
    <3> QED BY <1>1, <3>1, <3>2, Telling
  <2>7. ASSUME NEW o \in DOMAIN objects, NEW b \in BOOLEAN, HideDefault(o, b)
        PROVE  \A i \in Id : InOwnList(server'[i])
    <3> DEFINE e == server[IdOf(o)]
               d == IF e = Absent THEN e
                    ELSE [e EXCEPT !.lists = IF b THEN @ \ {e.status} ELSE @ \cup {e.status}]
    <3>1. Tell(IdOf(o), d)
      BY <2>7 DEF HideDefault
    <3>2. InOwnList(d)
      <4>1. CASE e # Absent
        <5>1. e \in [status : Status, lists : SUBSET List] /\ InOwnList(e)
          BY <2>1, <4>1 DEF Entries
        <5>2. d.status = e.status
              /\ d.lists = IF b THEN e.lists \ {e.status} ELSE e.lists \cup {e.status}
          BY <4>1, <5>1
        <5> QED BY <5>1, <5>2 DEF InOwnList
      <4> QED BY <1>2, <4>1
    <3> QED BY <1>1, <3>1, <3>2, Telling
  <2>8. ASSUME NEW i \in Id, NEW e \in Start, RemoteChange(i, e)
        PROVE  \A j \in Id : InOwnList(server'[j])
    <3>1. InOwnList(e)
      BY StartAssumption DEF InOwnList
    <3> QED BY <1>1, <2>8, <3>1 DEF RemoteChange, WorldInv
  <2>9. ASSUME NEW p \in panels, NEW s \in Status, Accept(p, s)
        PROVE  \A i \in Id : InOwnList(server'[i])
    <3>1. p.obj \in DOMAIN objects
      BY DEF MadeInv, Heap
    <3>2. InOwnList(WithStatus(server[IdOf(p.obj)], s))
      BY <2>2, <3>1
    <3>3. InOwnList([status |-> s, lists |-> {s}])
      BY DEF InOwnList
    <3>4. \/ UNCHANGED server
          \/ Tell(IdOf(p.obj), WithStatus(server[IdOf(p.obj)], s))
          \/ Tell(IdOf(p.obj), [status |-> s, lists |-> {s}])
      BY <2>9 DEF Accept
    <3>5. ASSUME NEW e, InOwnList(e), Tell(IdOf(p.obj), e) PROVE \A i \in Id : InOwnList(server'[i])
      BY <1>1, <3>5, Telling
    <3> QED BY <1>4, <3>2, <3>3, <3>4, <3>5
  <2>10. ASSUME \/ \E o \in DOMAIN objects : OpenPanel(o) \/ OpenCard(o) \/ PaintCard(o)
                \/ \E i \in Id : OpenNew(i) \/ Browse(i) \/ BadLookup(i)
                \/ \E o \in Object \cup {0}, timer \in BOOLEAN : Watch(o, timer)
                \/ StopTimer \/ UpdateNothing \/ UpdateReturns
         PROVE  \A i \in Id : InOwnList(server'[i])
    <3>1. UNCHANGED server
      BY <2>10
         DEF OpenPanel, OpenCard, PaintCard, OpenNew, Browse, BadLookup, Watch, StopTimer,
             UpdateNothing, UpdateReturns
    <3> QED BY <1>4, <3>1
  <2> QED BY <1>6, <2>3, <2>4, <2>5, <2>6, <2>7, <2>8, <2>9, <2>10 DEF User
<1>7. \A i \in Id : InOwnList(server'[i])
  BY <1>5, <1>6 DEF Next
<1> QED BY <1>3, <1>7 DEF WorldInv

-----------------------------------------------------------------------------
(* Handlers and panels.                                                     *)

LEMMA MovedGrows ==
    ASSUME Next
    PROVE  moved \subseteq moved'
<1> USE DEF ghostVars
<1>4. ASSUME NEW k \in Task, NEW i \in Id, CopyEntry(k, i) PROVE moved \subseteq moved'
  BY <1>4 DEF CopyEntry, UpdateEntry, LoadEntry, LoadCustomEntry
<1>1. CASE Download
  BY <1>1, <1>4 DEF Download, Answered, EndList, EndDownload, BeginList
<1>2. CASE Refresh \/ Handlers
  BY <1>2 DEF Refresh, StartRefresh, Finished, Handlers, StatusReturns, remove, AcceptReturns
<1>3. CASE User
  BY <1>3
     DEF User, UpdateStatus, DeleteEntry, UpdateEpisode, Watch, StopTimer, UpdateNothing,
         UpdateReturns, ToggleCustom, HideDefault, RemoteChange, OpenPanel, OpenCard,
         PaintCard, OpenNew, Browse, BadLookup, Accept
<1> QED BY <1>1, <1>2, <1>3 DEF Next

LEMMA HoldersNext ==
    ASSUME TypeOK, MadeInv, TaskInv, HoldersInv, Next
    PROVE  HoldersInv'
<1> USE DEF heapVars, listVars, viewVars, ghostVars
<1> DEFINE H(h, heap, set, known) ==
               /\ h.op = "status" => heap[h.obj].id \in set
               /\ h.op = "remove" => h.obj \in known
           P(p, known) == /\ ~p.new_entry => p.obj \in known
                          /\ p.new_entry /\ p.mover => p.old = NoStatus
<1>1. /\ Known \subseteq Known' /\ moved \subseteq moved' /\ Grows
      /\ \A n \in DOMAIN waiting : waiting[n].obj \in Heap
      /\ \A n \in DOMAIN waiting : H(waiting[n], objects, moved, Known)
      /\ \A p \in panels : P(p, Known)
  BY KnownGrows, MovedGrows, HeapNext DEF MadeInv, HoldersInv, IdOf
<1>2. \A n \in DOMAIN waiting : H(waiting[n], objects', moved', Known')
  BY <1>1 DEF Grows
<1>3. \A p \in panels : P(p, Known')
  BY <1>1
<1>4. ASSUME NEW n \in DOMAIN waiting' PROVE H(waiting'[n], objects', moved', Known')
  <2>1. CASE UNCHANGED waiting
    BY <1>2, <1>4, <2>1
  <2>2. ASSUME NEW op, Resume(op) PROVE H(waiting'[n], objects', moved', Known')
    BY <1>2, <1>4, <2>2, Resuming
  <2>3. ASSUME NEW o \in Heap, NEW s, UpdateStatus(o, s)
        PROVE  H(waiting'[n], objects', moved', Known')
    <3>1. \/ n \in DOMAIN waiting /\ waiting'[n] = waiting[n]
          \/ waiting'[n].op = "status" /\ waiting'[n].obj = o
      BY <1>4, <2>3, Waits DEF UpdateStatus
    <3>2. objects[o].id \in moved' /\ objects'[o].id = objects[o].id
      BY <1>1, <2>3 DEF UpdateStatus, IdOf, Grows
    <3> QED BY <1>2, <3>1, <3>2
  <2>4. ASSUME NEW o \in Heap, DeleteEntry(o)
        PROVE  H(waiting'[n], objects', moved', Known')
    <3>1. \/ n \in DOMAIN waiting /\ waiting'[n] = waiting[n]
          \/ waiting'[n].op = "remove" /\ waiting'[n].obj = o
      BY <1>4, <2>4, Waits DEF DeleteEntry
    <3>2. o \in Known
      BY <2>4 DEF DeleteEntry, Shown, Found, Known
    <3> QED BY <1>1, <1>2, <3>1, <3>2
  <2>5. ASSUME NEW p \in panels, NEW s \in Status, Accept(p, s)
        PROVE  H(waiting'[n], objects', moved', Known')
    <3>1. CASE p.obj \in dead
      BY <2>1, <2>5, <3>1 DEF Accept
    <3>2. CASE p.obj \notin dead
      <4>1. \/ n \in DOMAIN waiting /\ waiting'[n] = waiting[n]
            \/ waiting'[n].op = "accept"
        BY <1>4, <2>5, <3>2, Waits DEF Accept
      <4> QED BY <1>2, <4>1
    <3> QED BY <3>1, <3>2
  <2>6. CASE Download \/ Refresh
    BY <2>1, <2>6
       DEF Download, Answered, EndList, EndDownload, BeginList, CopyEntry, Refresh,
           StartRefresh, Finished
  <2>7. CASE Handlers
    BY <2>2, <2>7 DEF Handlers, StatusReturns, remove, AcceptReturns
  <2>8. CASE User
    BY <2>1, <2>3, <2>4, <2>5, <2>8
       DEF User, Heap, UpdateEpisode, Watch, StopTimer, UpdateNothing, UpdateReturns,
           ToggleCustom, HideDefault, RemoteChange, OpenPanel, OpenCard, PaintCard,
           OpenNew, Browse, BadLookup
  <2> QED BY <2>6, <2>7, <2>8 DEF Next
<1>5. ASSUME NEW p \in panels' PROVE P(p, Known')
  <2>1. CASE panels' \subseteq panels
    BY <1>3, <1>5, <2>1
  <2>2. ASSUME NEW o, NEW old, NEW mover, panels' = {Panel(o, old, mover)}, UNCHANGED anime_list,
               mover /\ o \notin anime_list => old = NoStatus
        PROVE  P(p, Known')
    <3>1. /\ p.obj = o /\ p.new_entry = (o \notin anime_list)
          /\ p.mover = mover /\ p.old = old
      BY <1>5, <2>2 DEF Panel
    <3> QED BY <2>2, <3>1 DEF Known
  <2>3. CASE Download \/ Refresh \/ Handlers
    BY <2>1, <2>3
       DEF Download, Answered, EndList, EndDownload, BeginList, CopyEntry, Refresh,
           StartRefresh, Finished, Handlers, StatusReturns, remove, AcceptReturns
  <2>4. ASSUME NEW o, OpenPanel(o) \/ OpenCard(o) PROVE P(p, Known')
    BY <2>2, <2>4 DEF OpenPanel, OpenCard
  <2>5. ASSUME NEW i, OpenNew(i) PROVE P(p, Known')
    BY <2>2, <2>5 DEF OpenNew
  <2>6. CASE User
    BY <2>1, <2>4, <2>5, <2>6
       DEF User, UpdateStatus, DeleteEntry, UpdateEpisode, Watch, StopTimer,
           UpdateNothing, UpdateReturns, ToggleCustom, HideDefault, RemoteChange,
           PaintCard, Browse, BadLookup, Accept
  <2> QED BY <2>3, <2>6 DEF Next
<1> QED BY <1>4, <1>5 DEF HoldersInv, IdOf

-----------------------------------------------------------------------------
(* Steps that leave the entry i alone.                                      *)

Apart(i) ==
    /\ \A l \in List : user_lists'[l][i] = user_lists[l][i]
    /\ Mine(i)' = Mine(i)
    /\ \A o \in Mine(i) :
          /\ StatusOf(o)' = StatusOf(o)
          /\ o \in anime_list => o \in anime_list'
          /\ \A old \in Old : Joined(o, old)' <=> Joined(o, old)

LEMMA Staying ==
    ASSUME HeapOK, MadeInv, Grows, NEW i \in Id,
           \A l \in List : user_lists'[l][i] = user_lists[l][i],
           \A o \in Heap : objects[o].id = i =>
               /\ objects'[o].status = objects[o].status
               /\ o \in anime_list' <=> o \in anime_list
               /\ o \in dead' <=> o \in dead,
           \A o \in Heap' : objects'[o].id = i /\ o \in anime_list' => o \in Heap,
           \A o, old : IdOf(o)' = i /\ o \notin dead => (Joined(o, old)' <=> Joined(o, old))
    PROVE  Apart(i)
<1>1. \A o \in Heap : IdOf(o)' = IdOf(o)
  BY DEF Grows, IdOf
<1>2. \A o, old : Joined(o, old) => o \in Heap
  BY DEF Joined, MadeInv
<1>3. ASSUME NEW o \in Heap, IdOf(o) = i
      PROVE  o \in Mine(i)' <=> o \in Mine(i)
  <2>1. /\ IdOf(o)' = i /\ o \in Heap'
        /\ o \in anime_list' <=> o \in anime_list
        /\ o \in dead' <=> o \in dead
    BY <1>1, <1>3 DEF Grows, IdOf
  <2>2. CASE o \in dead
    BY <2>1, <2>2 DEF Mine
  <2>3. CASE o \notin dead
    <3>1. \A old \in Old : Joined(o, old)' <=> Joined(o, old)
      BY <2>1, <2>3
    <3> QED BY <1>3, <2>1, <3>1 DEF Mine
  <2> QED BY <2>2, <2>3
<1>4. ASSUME NEW o \in Heap', IdOf(o)' = i, o \notin Heap PROVE o \notin Mine(i)'
  <2>1. o \notin dead /\ o \notin anime_list' /\ \A old : ~Joined(o, old)
    BY <1>2, <1>4 DEF MadeInv, IdOf
  <2>2. \A old : ~Joined(o, old)'
    BY <1>4, <2>1
  <2> QED BY <2>1, <2>2 DEF Mine
<1>5. Mine(i)' = Mine(i)
  <2>1. \A o : o \in Mine(i) => o \in Heap /\ IdOf(o) = i
    BY DEF Mine
  <2>2. \A o : o \in Mine(i)' => o \in Heap' /\ IdOf(o)' = i
    BY DEF Mine
  <2> QED BY <1>1, <1>3, <1>4, <2>1, <2>2
<1>6. ASSUME NEW o \in Mine(i)
      PROVE  /\ StatusOf(o)' = StatusOf(o)
             /\ o \in anime_list => o \in anime_list'
             /\ \A old \in Old : Joined(o, old)' <=> Joined(o, old)
  <2>1. o \in Heap \ dead /\ IdOf(o) = i /\ IdOf(o)' = i
    BY <1>1, <1>6 DEF Mine
  <2> QED BY <2>1 DEF StatusOf, IdOf
<1> QED BY <1>5, <1>6 DEF Apart

\* What a download copies for the entry stays as well.
LEMMA FitsStays ==
    ASSUME TypeOK, Onward, NEW i \in Id, Fits(i),
           \A l \in List : user_lists'[l][i] = user_lists[l][i],
           Mine(i)' \subseteq Mine(i), server'[i] \in {Absent, server[i]}
    PROVE  Fits(i)'
<1>1. SUFFICES ASSUME NEW k \in Task, Busy(k)'
               PROVE  Current(k, i)' /\ Through(k, i)' /\ MakesOne(k, i)'
  BY DEF Fits
<1>2. Alike(tasks'[k], tasks[k]) /\ Busy(k)
  BY <1>1 DEF Onward, Rests, Alike, Busy
<1>3. Current(k, i) /\ Through(k, i) /\ MakesOne(k, i)
  BY <1>2 DEF Fits
<1>4. tasks[k].answer[i].lists \subseteq List
  BY DEF TypeOK, TasksOK, TaskRecord, Entries, Absent
<1>5. ASSUME NEW l \in List
      PROVE  /\ ToCopy(k, l, i)' <=> ToCopy(k, l, i)
             /\ Slot(k, l, i)' = Slot(k, l, i)
  BY <1>2 DEF Alike, ToCopy, Slot
<1>6. Current(k, i)'
  BY <1>2, <1>3 DEF Alike, Current
<1>7. Through(k, i)'
  BY <1>2, <1>3, <1>4, <1>5 DEF Alike, Through
<1>8. \A l \in List : Makes(k, l, i)' <=> Makes(k, l, i)
  BY <1>5 DEF Makes
<1>9. MakesOne(k, i)'
  BY <1>3, <1>8 DEF MakesOne
<1> QED BY <1>6, <1>7, <1>9

LEMMA Idling ==
    ASSUME Onward
    PROVE  Idle' <=> Idle
<1>1. \A k \in Task : Busy(k)' <=> Busy(k)
  BY DEF Onward, Rests, Alike, Busy
<1> QED BY <1>1 DEF Idle

LEMMA EntryStays ==
    ASSUME TypeOK, MadeInv, Onward, NEW i \in Id, Apart(i), Single(i), EntryInv(i),
           \/ server'[i] = server[i]
           \/ server'[i] = Absent /\ \A o \in Mine(i) : o \in anime_list
    PROVE  Single(i)' /\ EntryInv(i)'
<1>1. Mine(i)' = Mine(i) /\ Single(i)'
  BY DEF Apart, Single
<1>2. Agrees(i)'
  BY <1>1 DEF Apart, EntryInv, Agrees
<1>3. Saved(i)'
  BY <1>1 DEF Apart, EntryInv, Saved
<1>4. Settled(i)'
  BY <1>1, Idling DEF Apart, EntryInv, Settled
<1>5. Listed(i)'
  <2>1. SUFFICES ASSUME Idle', NEW o \in Mine(i), NEW l \in server'[i].lists
                 PROVE  \/ user_lists'[l][i] # 0
                        \/ l = StatusOf(o)' /\ \E old \in Old : old # l /\ Joined(o, old)'
    BY <1>1 DEF Listed
  <2>2. server'[i] = server[i] /\ l \in List
    <3>1. server'[i] = server[i]
      BY <2>1 DEF Absent
    <3> QED BY <2>1, <3>1 DEF TypeOK, WorldOK, Entries, Absent
  <2>3. \/ user_lists[l][i] # 0
        \/ l = StatusOf(o) /\ \E old \in Old : old # l /\ Joined(o, old)
    BY <2>1, <2>2, Idling DEF EntryInv, Listed
  <2> QED BY <2>2, <2>3 DEF Apart
<1>6. Fits(i)'
  BY <1>1, FitsStays DEF Apart, EntryInv
<1> QED BY <1>1, <1>2, <1>3, <1>4, <1>5, <1>6 DEF EntryInv

\* Nobody but the web site changes the entry i on the server, or it is deleted.
Told(i) ==
    \/ server'[i] = server[i]
    \/ /\ server'[i] = Absent /\ Mine(i) # {}
       /\ \A o \in Mine(i) : o \in anime_list /\ Leaving(o)'

\* The lookups of the handlers' entries, the heap and the lists stay.
LEMMA StayingPut ==
    ASSUME HeapOK, MadeInv, Grows, NEW i \in Id,
           UNCHANGED <<dead, anime_list>>,
           \A l \in List : user_lists'[l][i] = user_lists[l][i],
           \A o \in Heap : objects[o].id = i => objects'[o].status = objects[o].status,
           \A o, old : IdOf(o)' = i /\ o \notin dead => (Joined(o, old)' <=> Joined(o, old))
    PROVE  Apart(i)
<1>1. \A o \in Heap' : objects'[o].id = i /\ o \in anime_list' => o \in Heap
  BY DEF MadeInv
<1> QED BY <1>1, Staying

LEMMA TellingOne ==
    ASSUME WorldOK, NEW i \in Id, NEW j, NEW e, Tell(j, e)
    PROVE  server'[i] = server[i] \/ (j = i /\ server'[i] = e)
<1>1. server \in [Id -> Entries] /\ server' \in {server, [server EXCEPT ![j] = e]}
  BY DEF WorldOK, Tell
<1>2. CASE j = i
  BY <1>1, <1>2
<1>3. CASE j # i
  BY <1>1, <1>3
<1> QED BY <1>2, <1>3

LEMMA MarkingOthers ==
    ASSUME HeapOK, NEW i, NEW o \in Heap, IdOf(o) # i, NEW s,
           objects' = [objects EXCEPT ![o].status = s]
    PROVE  \A p \in Heap : objects[p].id = i => objects'[p].status = objects[p].status
BY DEF Heap, IdOf

LEMMA UserAside ==
    ASSUME TypeOK, MadeInv, Next, User, NEW i \in Id \ moved', Single(i)
    PROVE  \/ Apart(i) /\ Told(i)
           \/ Apart(i) /\ Mine(i) = {} /\ ~SomeRunning
           \/ \E p \in panels, s \in Status :
                 Accept(p, s) /\ p.obj \notin dead /\ IdOf(p.obj) = i
<1> USE DEF heapVars, listVars, viewVars, ghostVars
<1>1. HeapOK /\ ListsOK /\ WorldOK /\ Grows
  BY HeapNext DEF TypeOK
<1>2. \A o \in Heap : IdOf(o)' = IdOf(o)
  BY <1>1 DEF Grows, IdOf
<1>3. ASSUME UNCHANGED <<objects, dead, anime_list, user_lists, waiting>> PROVE Apart(i)
  BY <1>1, <1>3, StayingPut, JoinedStays
<1>4. ASSUME NEW o \in Heap, NEW s \in Status, UpdateStatus(o, s)
      PROVE  Apart(i) /\ Told(i)
  <2>1. IdOf(o) # i
    BY <1>4 DEF UpdateStatus
  <2>2. server'[i] = server[i]
    BY <1>1, <1>4, <2>1, TellingOne DEF UpdateStatus
  <2>3. \A p, old : Joined(p, old)' <=> Joined(p, old)
    <3>1. Wait("status", o, StatusOf(o), TRUE)
      BY <1>4 DEF UpdateStatus
    <3> QED BY <3>1, OthersWait
  <2>4. \A p \in Heap : objects[p].id = i => objects'[p].status = objects[p].status
    BY <1>1, <1>4, <2>1, MarkingOthers DEF UpdateStatus
  <2>5. UNCHANGED <<dead, anime_list, user_lists>>
    BY <1>4 DEF UpdateStatus
  <2>6. Apart(i)
    BY <1>1, <2>3, <2>4, <2>5, StayingPut
  <2> QED BY <2>2, <2>6 DEF Told
<1>5. ASSUME NEW o \in Heap, NEW last \in BOOLEAN, UpdateEpisode(o, last)
      PROVE  Apart(i) /\ Told(i)
  <2>1. UNCHANGED <<dead, anime_list, user_lists, waiting>>
    BY <1>5 DEF UpdateEpisode
  <2>2. CASE UNCHANGED <<objects, server>>
    BY <1>3, <2>1, <2>2 DEF Told
  <2>3. CASE ~UNCHANGED <<objects, server>>
    <3>1. o \notin dead /\ IdOf(o) # i
      BY <1>5, <2>3 DEF UpdateEpisode
    <3>2. server'[i] = server[i]
      BY <1>1, <1>5, <3>1, TellingOne DEF UpdateEpisode
    <3>3. \A p, old : Joined(p, old)' <=> Joined(p, old)
      BY <2>1, JoinedStays
    <3>4. UNCHANGED objects \/ objects' = [objects EXCEPT ![o].status = Completed]
      BY <1>5, <3>1 DEF UpdateEpisode
    <3>5. \A p \in Heap : objects[p].id = i => objects'[p].status = objects[p].status
      BY <1>1, <3>1, <3>4, MarkingOthers
    <3>6. Apart(i)
      BY <1>1, <2>1, <3>3, <3>5, StayingPut
    <3> QED BY <3>2, <3>6 DEF Told
  <2> QED BY <2>2, <2>3
<1>6. ASSUME NEW o \in Heap, DeleteEntry(o)
      PROVE  Apart(i) /\ Told(i)
  <2>1. \A p, old : Joined(p, old)' <=> Joined(p, old)
    <3>1. Wait("remove", o, NoStatus, TRUE)
      BY <1>6 DEF DeleteEntry
    <3> QED BY <3>1, OthersWait
  <2>2. UNCHANGED <<objects, dead, anime_list, user_lists>>
    BY <1>6 DEF DeleteEntry
  <2>3. Apart(i)
    BY <1>1, <2>1, <2>2, StayingPut
  <2>4. server'[i] = server[i] \/ (server'[i] = Absent /\ IdOf(o) = i)
    BY <1>1, <1>6, TellingOne DEF DeleteEntry
  <2>5. o \in anime_list \ dead
    BY <1>6 DEF DeleteEntry, Readable, Shown, Found
  <2>6. IdOf(o) = i => o \in Mine(i)
    BY <2>5 DEF Mine
  <2>7. Leaving(o)'
    BY <1>6, LeavingWaits DEF DeleteEntry
  <2>8. Told(i)
    BY <2>4, <2>5, <2>6, <2>7 DEF Told, Single
  <2> QED BY <2>3, <2>8
<1>7. ASSUME NEW o \in Heap, NEW c \in Custom, ToggleCustom(o, c)
      PROVE  Apart(i) /\ Told(i)
  <2>1. IdOf(o) # i
    BY <1>7 DEF ToggleCustom
  <2>2. server'[i] = server[i]
    BY <1>1, <1>7, <2>1, TellingOne DEF ToggleCustom
  <2>3. Apart(i)
    BY <1>3, <1>7 DEF ToggleCustom
  <2> QED BY <2>2, <2>3 DEF Told
<1>8. ASSUME NEW o \in Heap, NEW b \in BOOLEAN, HideDefault(o, b)
      PROVE  Apart(i) /\ Told(i)
  <2>1. IdOf(o) # i /\ IdOf(o) \in Id
    BY <1>1, <1>8, Existing DEF HideDefault
  <2>2. server'[i] = server[i]
    BY <1>1, <1>8, <2>1, TellingOne DEF HideDefault
  <2>3. UNCHANGED <<objects, dead, anime_list, waiting>>
    BY <1>8 DEF HideDefault
  <2>4. user_lists' \in {user_lists, removeFromList(StatusOf(o), IdOf(o))}
    BY <1>8 DEF HideDefault
  <2>5. \A l \in List : user_lists'[l][i] = user_lists[l][i]
    BY <1>1, <2>1, <2>4, Removing
  <2>6. Apart(i)
    BY <1>1, <2>3, <2>5, StayingPut, JoinedStays
  <2> QED BY <2>2, <2>6 DEF Told
<1>9. ASSUME NEW j \in Id, NEW e \in Start, RemoteChange(j, e)
      PROVE  Apart(i) /\ (Told(i) \/ (Mine(i) = {} /\ ~SomeRunning))
  <2>1. Apart(i)
    BY <1>3, <1>9 DEF RemoteChange
  <2>2. CASE j = i
    <3>1. ~SomeRunning /\ \A o \in Heap : IdOf(o) # i
      BY <1>9, <2>2 DEF RemoteChange, Heap
    <3>2. Mine(i) = {}
      BY <3>1 DEF Mine
    <3> QED BY <2>1, <3>1, <3>2
  <2>3. CASE j # i
    <3>1. server'[i] = server[i]
      <4>1. server' = [server EXCEPT ![j] = e] /\ server \in [Id -> Entries]
        BY <1>1, <1>9 DEF RemoteChange, WorldOK
      <4> QED BY <2>3, <4>1
    <3> QED BY <2>1, <3>1 DEF Told
  <2> QED BY <2>2, <2>3
<1>10. ASSUME NEW j \in Id, OpenNew(j) \/ Browse(j)
       PROVE  Apart(i) /\ Told(i)
  <2>1. UNCHANGED <<dead, anime_list, user_lists, waiting, server>>
    BY <1>10 DEF OpenNew, Browse
  <2>2. UNCHANGED objects \/ New(j, NoStatus)
    BY <1>10 DEF OpenNew, Browse
  <2>3. \A o \in Heap : objects'[o] = objects[o]
    BY <1>1, <2>2, MakingAppends
  <2>4. Apart(i)
    BY <1>1, <2>1, <2>3, StayingPut, JoinedStays
  <2> QED BY <2>1, <2>4 DEF Told
<1>11. ASSUME \/ \E o \in Heap : OpenPanel(o) \/ OpenCard(o) \/ PaintCard(o)
              \/ \E j \in Id : BadLookup(j)
              \/ \E o \in Object \cup {0}, timer \in BOOLEAN : Watch(o, timer)
              \/ StopTimer \/ UpdateNothing \/ UpdateReturns
       PROVE  Apart(i) /\ Told(i)
  <2>1. UNCHANGED <<objects, dead, anime_list, user_lists, waiting, server>>
    BY <1>11 DEF OpenPanel, OpenCard, PaintCard, BadLookup, Watch, StopTimer,
        UpdateNothing, UpdateReturns
  <2> QED BY <1>3, <2>1 DEF Told
<1>12. ASSUME NEW p \in panels, NEW s \in Status, Accept(p, s),
              p.obj \in dead \/ IdOf(p.obj) # i
       PROVE  Apart(i) /\ Told(i)
  <2>1. CASE p.obj \in dead
    <3>1. UNCHANGED <<objects, dead, anime_list, user_lists, waiting, server>>
      BY <1>12, <2>1 DEF Accept
    <3> QED BY <1>3, <3>1 DEF Told
  <2>2. CASE p.obj \notin dead /\ IdOf(p.obj) # i
    <3> DEFINE o == p.obj
    <3>1. o \in Heap /\ IdOf(o)' # i
      BY <1>2, <2>2 DEF MadeInv
    <3>2. server'[i] = server[i]
      BY <1>1, <1>12, <2>2, TellingOne DEF Accept
    <3>3. Wait("accept", o, p.old, p.mover) /\ objects' = [objects EXCEPT ![o].status = s]
      BY <1>12, <2>2 DEF Accept
    <3>4. \A q, old : IdOf(q)' = i => (Joined(q, old)' <=> Joined(q, old))
      BY <3>1, <3>3, JoinedWaits
    <3>5. \A q \in Heap : objects[q].id = i => objects'[q].status = objects[q].status
      BY <1>1, <2>2, <3>1, <3>3, MarkingOthers
    <3>6. UNCHANGED <<dead, anime_list, user_lists>>
      BY <1>12 DEF Accept
    <3>7. Apart(i)
      BY <1>1, <3>4, <3>5, <3>6, StayingPut
    <3> QED BY <3>2, <3>7 DEF Told
  <2> QED BY <1>12, <2>1, <2>2
<1> QED BY <1>4, <1>5, <1>6, <1>7, <1>8, <1>9, <1>10, <1>11, <1>12 DEF User, Heap

LEMMA MovedElsewhere ==
    ASSUME HeapOK, ListsOK, NEW old, NEW o \in Heap, NEW l \in List, NEW i \in Id, i # IdOf(o)
    PROVE  Moved(old, o)[l][i] = user_lists[l][i]
<1> DEFINE lists == IF old = NoStatus THEN user_lists ELSE removeFromList(old, IdOf(o))
<1>1. IdOf(o) \in Id
  BY Existing
<1>2. lists \in [List -> Slots] /\ lists[l][i] = user_lists[l][i]
  BY <1>1, Removing DEF ListsOK
<1> HIDE DEF lists
<1>3. Moved(old, o) = addToList(lists, StatusOf(o), o)
  BY DEF Moved, lists
<1> QED BY <1>2, <1>3, Adding

LEMMA HandlersAside ==
    ASSUME TypeOK, MadeInv, HoldersInv, Next, Refresh \/ Handlers, NEW i \in Id \ moved'
    PROVE  \/ Apart(i)
           \/ remove /\ Top.obj \notin dead /\ IdOf(Top.obj) = i
           \/ AcceptReturns /\ Top.mover /\ Top.obj \notin dead /\ IdOf(Top.obj) = i
<1> USE DEF heapVars, listVars, viewVars, ghostVars
<1>1. HeapOK /\ ListsOK /\ WorldOK /\ Grows /\ moved \subseteq moved'
  BY HeapNext, MovedGrows DEF TypeOK
<1>2. \A o \in Heap : IdOf(o)' = IdOf(o)
  BY <1>1 DEF Grows, IdOf
<1>3. CASE Refresh
  <2>1. UNCHANGED <<objects, dead, anime_list, user_lists, waiting>>
    BY <1>3 DEF Refresh, StartRefresh, Finished
  <2> QED BY <1>1, <2>1, StayingPut, JoinedStays
<1>4. CASE StatusReturns
  <2> DEFINE o == Top.obj
  <2>1. Resume("status") /\ UNCHANGED <<objects, dead, anime_list>>
    BY <1>4 DEF StatusReturns
  <2>2. o \in Heap /\ IdOf(o) \in moved
    <3>1. o \in Heap /\ Len(waiting) \in DOMAIN waiting /\ Top = waiting[Len(waiting)]
      BY <2>1, Resuming
    <3> QED BY <2>1, <3>1 DEF HoldersInv, Resume
  <2>3. IdOf(o) # i /\ IdOf(o) \in Id
    BY <1>1, <2>2, Existing
  <2>4. user_lists' \in {user_lists, removeFromList(Top.old, IdOf(o))}
    BY <1>4 DEF StatusReturns
  <2>5. \A l \in List : user_lists'[l][i] = user_lists[l][i]
    BY <1>1, <2>3, <2>4, Removing
  <2>6. \A p, old : Joined(p, old)' <=> Joined(p, old)
    BY <2>1, JoinedResumes
  <2> QED BY <1>1, <2>1, <2>5, <2>6, StayingPut
<1>5. CASE remove /\ (Top.obj \in dead \/ IdOf(Top.obj) # i)
  <2> DEFINE o == Top.obj
  <2>1. Resume("remove") /\ UNCHANGED objects
    BY <1>5 DEF remove
  <2>2. o \in Heap /\ IdOf(o) \in Id
    BY <1>1, <2>1, Resuming, Existing
  <2>3. \A p, old : Joined(p, old)' <=> Joined(p, old)
    BY <2>1, JoinedResumes
  <2>4. CASE o \in dead
    <3>1. UNCHANGED <<dead, anime_list, user_lists>>
      BY <1>5, <2>4 DEF remove
    <3> QED BY <1>1, <2>1, <2>3, <3>1, StayingPut
  <2>5. CASE o \notin dead /\ IdOf(o) # i
    <3>1. /\ anime_list' = anime_list \ {o} /\ dead' = dead \cup {o}
          /\ user_lists' = [l \in List |-> [user_lists[l] EXCEPT ![IdOf(o)] = 0]]
      BY <1>5, <2>5 DEF remove
    <3>2. \A l \in List : user_lists'[l][i] = user_lists[l][i]
      BY <1>1, <2>5, <3>1 DEF ListsOK, Slots
    <3>3. \A p \in Heap : objects[p].id = i =>
              /\ objects'[p].status = objects[p].status
              /\ p \in anime_list' <=> p \in anime_list
              /\ p \in dead' <=> p \in dead
      BY <2>1, <2>5, <3>1 DEF IdOf
    <3>4. \A p \in Heap' : objects'[p].id = i /\ p \in anime_list' => p \in Heap
      BY <2>1 DEF Heap
    <3> QED BY <1>1, <2>3, <3>2, <3>3, <3>4, Staying
  <2> QED BY <1>5, <2>4, <2>5
<1>6. CASE /\ AcceptReturns
           /\ ~Top.mover \/ Top.obj \in dead \/ IdOf(Top.obj) # i
  <2> DEFINE o == Top.obj
  <2>1. Resume("accept") /\ UNCHANGED <<objects, dead>>
    BY <1>6 DEF AcceptReturns
  <2>2. o \in Heap /\ IdOf(o) \in Id
    BY <1>1, <2>1, Resuming, Existing
  <2>3. \A p, old : Joined(p, old) <=> Joined(p, old)' \/ (Top.mover /\ o = p /\ Top.old = old)
    BY <2>1, JoinedResumes
  <2>4. CASE ~Top.mover \/ o \in dead
    <3>1. UNCHANGED <<anime_list, user_lists>>
      BY <1>6, <2>4 DEF AcceptReturns
    <3>2. \A p, old : p \notin dead => (Joined(p, old)' <=> Joined(p, old))
      BY <2>3, <2>4
    <3> QED BY <1>1, <2>1, <3>1, <3>2, StayingPut
  <2>5. CASE IdOf(o) # i
    <3>1. anime_list' \in {anime_list, anime_list \cup {o}}
      BY <1>6 DEF AcceptReturns
    <3>2. user_lists' \in {user_lists, Moved(Top.old, o)}
      BY <1>6 DEF AcceptReturns, Moved
    <3>3. \A l \in List : user_lists'[l][i] = user_lists[l][i]
      BY <1>1, <2>2, <2>5, <3>2, MovedElsewhere
    <3>4. \A p \in Heap : objects[p].id = i =>
              /\ objects'[p].status = objects[p].status
              /\ p \in anime_list' <=> p \in anime_list
              /\ p \in dead' <=> p \in dead
      BY <2>1, <2>5, <3>1 DEF IdOf
    <3>5. \A p \in Heap' : objects'[p].id = i /\ p \in anime_list' => p \in Heap
      BY <2>1 DEF Heap
    <3>6. \A p, old : IdOf(p)' = i => (Joined(p, old)' <=> Joined(p, old))
      BY <1>2, <2>2, <2>3, <2>5
    <3> QED BY <1>1, <3>3, <3>4, <3>5, <3>6, Staying
  <2> QED BY <1>6, <2>4, <2>5
<1> QED BY <1>3, <1>4, <1>5, <1>6 DEF Handlers

-----------------------------------------------------------------------------
(* Steps of the handlers and of the web site that change the entry i.       *)

LEMMA Calming ==
    ASSUME Onward, ~SomeRunning
    PROVE  Idle /\ Idle'
<1>1. Idle
  BY DEF SomeRunning, Running, Idle, Busy
<1> QED BY <1>1, Idling

LEMMA NobodyHome ==
    ASSUME NEW i \in Id, Mine(i)' = {}, Idle'
    PROVE  Single(i)' /\ EntryInv(i)'
BY DEF Single, EntryInv, Agrees, Saved, Settled, Listed, Fits, Idle

LEMMA RemoveLeaves ==
    ASSUME TypeOK, MadeInv, HoldersInv, Onward, Grows, remove,
           NEW i \in Id \ moved', Top.obj \notin dead, IdOf(Top.obj) = i, Single(i)
    PROVE  Mine(i)' = {} /\ Idle'
<1> DEFINE o == Top.obj
<1>1. /\ Resume("remove") /\ UNCHANGED objects /\ ~SomeRunning
      /\ dead' = dead \cup {o} /\ anime_list' = anime_list \ {o}
  BY DEF remove
<1>2. o \in Heap /\ Len(waiting) \in DOMAIN waiting /\ Top = waiting[Len(waiting)]
  BY <1>1, Resuming
<1>3. o \in anime_list
  BY <1>1, <1>2 DEF HoldersInv, Known, Resume
<1>4. \A p \in Mine(i) : p = o
  BY <1>2, <1>3 DEF Mine, Single
<1>5. \A p, old : Joined(p, old)' => Joined(p, old)
  BY <1>1, JoinedResumes
<1>6. \A p \in Mine(i)' : p \in Mine(i) /\ p # o
  BY <1>1, <1>5 DEF Mine, Heap, IdOf
<1>7. Mine(i)' = {}
  BY <1>4, <1>6
<1> QED BY <1>1, <1>7, Calming

LEMMA MovedHere ==
    ASSUME HeapOK, ListsOK, NEW old, NEW o \in Heap, NEW l \in List
    PROVE  /\ l = StatusOf(o) => Moved(old, o)[l][IdOf(o)] # 0
           /\ l # StatusOf(o) /\ (l = old => old = NoStatus)
                 => Moved(old, o)[l][IdOf(o)] = user_lists[l][IdOf(o)]
<1> DEFINE lists == IF old = NoStatus THEN user_lists ELSE removeFromList(old, IdOf(o))
<1>1. IdOf(o) \in Id /\ o # 0
  BY Existing
<1>2. /\ lists \in [List -> Slots]
      /\ (l = old => old = NoStatus) => lists[l][IdOf(o)] = user_lists[l][IdOf(o)]
  BY <1>1, Removing DEF ListsOK
<1> HIDE DEF lists
<1>3. Moved(old, o) = addToList(lists, StatusOf(o), o)
  BY DEF Moved, lists
<1>4. CASE l = StatusOf(o)
  BY <1>1, <1>2, <1>3, <1>4 DEF addToList, Slots
<1>5. CASE l # StatusOf(o)
  BY <1>1, <1>2, <1>3, <1>5 DEF addToList, Slots
<1> QED BY <1>4, <1>5

LEMMA AcceptReturnsOne ==
    ASSUME TypeOK, MadeInv, WorldInv, Onward, AcceptReturns, NEW i \in Id \ moved',
           NEW o, o \notin dead, NEW from, Top.mover, Top.obj = o, Top.old = from, IdOf(o) = i,
           Single(i), EntryInv(i)
    PROVE  Single(i)' /\ EntryInv(i)'
<1> USE DEF heapVars, listVars
<1> DEFINE moves == StatusOf(o) # from
<1>1. /\ Resume("accept") /\ UNCHANGED <<objects, dead, server>> /\ ~SomeRunning
      /\ user_lists' = IF moves THEN Moved(from, o) ELSE user_lists
      /\ anime_list' = IF moves THEN anime_list \cup {o} ELSE anime_list
  BY DEF AcceptReturns, Moved
<1>2. /\ HeapOK /\ ListsOK /\ o \in Heap /\ from \in Old
      /\ server[i] \in Entries /\ Status \cap Custom = {} /\ List = Status \cup Custom
  BY <1>1, Resuming, Constants DEF TypeOK, WorldOK, HandlerRecord, Old, List
<1>3. \A p, old : Joined(p, old) <=> Joined(p, old)' \/ (o = p /\ from = old)
  BY <1>1, JoinedResumes
<1>4. o \in Mine(i) /\ \A p \in Mine(i) : p = o
  BY <1>2, <1>3 DEF Mine, Single
<1>5. \A p \in Mine(i)' : p = o
  <2>1. ASSUME NEW p \in Mine(i)', p # o PROVE p \in Mine(i)
    BY <1>1, <1>3, <2>1 DEF Mine, Heap, IdOf
  <2> QED BY <1>4, <2>1
<1>6. Single(i)'
  BY <1>5 DEF Single
<1>7. Idle /\ Idle'
  BY <1>1, Calming
<1>8. StatusOf(o)' = StatusOf(o) /\ IdOf(o) = i
  BY <1>1 DEF StatusOf
<1>9. Agrees(i)'
  BY <1>1, <1>4, <1>5, <1>8 DEF EntryInv, Agrees
<1>10. Saved(i)'
  BY <1>1, <1>4, <1>5 DEF EntryInv, Saved
<1>11. Settled(i)' /\ Fits(i)'
  BY <1>7 DEF Settled, Fits, Idle
<1>12. ASSUME NEW l \in server[i].lists
       PROVE  \/ user_lists'[l][i] # 0
              \/ l = StatusOf(o) /\ \E old \in Old : old # l /\ Joined(o, old)'
  <2>1. \/ user_lists[l][i] # 0
        \/ l = StatusOf(o) /\ \E old \in Old : old # l /\ Joined(o, old)
    BY <1>4, <1>7, <1>12 DEF EntryInv, Listed
  <2>2. CASE ~moves
    BY <1>1, <1>3, <2>1, <2>2
  <2>3. CASE moves
    <3>1. l \in List
      BY <1>2, <1>12 DEF Entries, Absent
    <3>2. CASE l = StatusOf(o)
      BY <1>1, <1>2, <1>8, <2>3, <3>1, <3>2, MovedHere
    <3>3. CASE l # StatusOf(o)
      <4>1. server[i] # Absent
        BY <1>12 DEF Absent
      <4>2. server[i].status = StatusOf(o)
        BY <1>4, <4>1 DEF EntryInv, Agrees
      <4>3. l \notin Status
        BY <1>12, <3>3, <4>2 DEF WorldInv, InOwnList
      <4>4. l = from => from = NoStatus
        BY <1>2, <4>3 DEF Old
      <4>5. user_lists'[l][i] = user_lists[l][i]
        BY <1>1, <1>2, <1>8, <2>3, <3>1, <3>3, <4>4, MovedHere
      <4> QED BY <2>1, <3>3, <4>5
    <3> QED BY <3>2, <3>3
  <2> QED BY <2>2, <2>3
<1>13. Listed(i)'
  BY <1>1, <1>5, <1>8, <1>12 DEF Listed
<1> QED BY <1>6, <1>9, <1>10, <1>11, <1>13 DEF EntryInv

LEMMA AcceptOne ==
    ASSUME TypeOK, MadeInv, WorldInv, HoldersInv, Onward, Grows,
           NEW i \in Id \ moved', NEW p \in panels, NEW s \in Status, Accept(p, s),
           NEW o, o \notin dead, p.obj = o, IdOf(o) = i, Single(i), EntryInv(i)
    PROVE  Single(i)' /\ EntryInv(i)'
<1> USE DEF heapVars, listVars
<1> DEFINE e == server[i]
<1>1. /\ objects' = [objects EXCEPT ![o].status = s]
      /\ Wait("accept", o, p.old, p.mover)
      /\ UNCHANGED <<dead, anime_list, user_lists>>
  BY DEF Accept
<1>2. /\ ~SomeRunning
      /\ server'[i].status = s
      /\ p.old = StatusOf(o)
      /\ p.new_entry => e = Absent /\ \A q \in anime_list : IdOf(q) # i
      /\ p.mover \/ s = StatusOf(o)
  BY DEF Accept
<1>3. /\ HeapOK /\ o \in Heap /\ p.old \in Old /\ p.mover \in BOOLEAN
      /\ e \in Entries /\ s # NoStatus /\ Absent.status = NoStatus /\ WorldOK
  BY UserListsAssumption DEF TypeOK, MadeInv, ViewOK, PanelRecord, WorldOK, Absent, Old
<1>4. Idle /\ Idle'
  BY <1>2, Calming
<1>5. \A q, old : Joined(q, old)' <=> Joined(q, old) \/ (p.mover /\ q = o /\ old = p.old)
  BY <1>1, JoinedWaits
<1>6. /\ StatusOf(o)' = s /\ IdOf(o)' = i
      /\ \A q \in Heap : IdOf(q)' = IdOf(q)
      /\ DOMAIN objects' = DOMAIN objects
  <2>1. objects[o] \in AnimeRecord
    BY <1>3, Existing
  <2> QED BY <1>1, <1>3, <2>1 DEF StatusOf, IdOf, Grows, Heap, AnimeRecord
<1>7. Settled(i)' /\ Fits(i)'
  BY <1>4 DEF Settled, Fits, Idle
<1>8. \A q \in Mine(i)' : q \in Mine(i) \/ (q = o /\ p.mover)
  BY <1>1, <1>5, <1>6 DEF Mine, Heap
<1>9. CASE p.new_entry
  <2>1. e = Absent /\ Mine(i) = {}
    BY <1>2, <1>9 DEF EntryInv, Saved, Mine
  <2>2. Tell(i, [status |-> s, lists |-> {s}])
    BY <1>9, <2>1 DEF Accept
  <2>3. server'[i] = [status |-> s, lists |-> {s}]
    BY <1>2, <1>3, <2>1, <2>2, TellingOne
  <2>4. server'[i].lists = {s} /\ server'[i] # Absent
    BY <1>2, <1>3, <2>3
  <2>5. \A q \in Mine(i)' : q = o /\ p.mover
    BY <1>8, <2>1
  <2>6. Single(i)' /\ Agrees(i)' /\ Saved(i)'
    BY <1>2, <1>6, <2>4, <2>5 DEF Single, Agrees, Saved
  <2>7. Listed(i)'
    <3>1. SUFFICES ASSUME NEW q \in Mine(i)', NEW l \in server'[i].lists
                   PROVE  l = StatusOf(q)' /\ \E old \in Old : old # l /\ Joined(q, old)'
      BY DEF Listed
    <3>2. q = o /\ p.mover /\ l = s
      BY <2>4, <2>5
    <3>3. p.old = NoStatus
      BY <1>9, <3>2 DEF HoldersInv
    <3> QED BY <1>3, <1>5, <1>6, <3>2, <3>3
  <2> QED BY <1>7, <2>6, <2>7 DEF EntryInv
<1>10. CASE ~p.new_entry
  <2>1. o \in anime_list
    BY <1>10 DEF HoldersInv, Known
  <2>2. o \in Mine(i) /\ \A q \in Mine(i) : q = o
    BY <1>3, <2>1 DEF Mine, Single
  <2>3. \A q \in Mine(i)' : q = o
    BY <1>8, <2>2
  <2>4. Single(i)' /\ Saved(i)' /\ Agrees(i)'
    BY <1>1, <1>2, <1>6, <2>1, <2>3 DEF Single, Saved, Agrees
  <2>5. ASSUME NEW l \in server'[i].lists
        PROVE  \/ user_lists[l][i] # 0
               \/ l = s /\ \E old \in Old : old # l /\ Joined(o, old)'
    <3>1. \A m \in e.lists : \/ user_lists[m][i] # 0
                             \/ m = StatusOf(o) /\ \E old \in Old : old # m /\ Joined(o, old)
      BY <1>4, <2>2 DEF EntryInv, Listed
    <3>2. CASE s = StatusOf(o)
      <4>1. server'[i] = e
        BY <1>10, <3>2 DEF Accept
      <4> QED BY <1>5, <2>5, <3>1, <3>2, <4>1
    <3>3. CASE s # StatusOf(o)
      <4>1. Tell(i, WithStatus(e, s))
        BY <1>10, <3>3 DEF Accept
      <4>2. server'[i] = e \/ server'[i] = WithStatus(e, s)
        BY <1>3, <4>1, TellingOne
      <4>3. e # Absent
        BY <1>2, <1>3, <4>2 DEF WithStatus
      <4>4. e.status = StatusOf(o)
        BY <2>2, <4>3 DEF EntryInv, Agrees
      <4>5. server'[i] = WithStatus(e, s)
        BY <1>2, <3>3, <4>2, <4>4
      <4>6. l = s \/ (l \in e.lists /\ l # e.status)
        BY <2>5, <4>3, <4>5 DEF WithStatus
      <4>7. CASE l = s
        BY <1>2, <1>3, <1>5, <3>3, <4>7
      <4> QED BY <3>1, <4>4, <4>6, <4>7
    <3> QED BY <3>2, <3>3
  <2>6. Listed(i)'
    BY <1>1, <1>6, <2>3, <2>5 DEF Listed
  <2> QED BY <1>7, <2>4, <2>6 DEF EntryInv
<1> QED BY <1>9, <1>10

-----------------------------------------------------------------------------
(* Steps of the downloads.                                                  *)

\* While a download copies, no handler is going to add the entry to a list.
LEMMA CopyingAlone ==
    ASSUME TypeOK, MadeInv, TaskInv, OneBusy, Grows, MadeInv',
           NEW k \in Task, Own(k), ~Answered(k), ~overlapped,
           NEW i \in Id, EntryInv(i)
    PROVE  /\ Busy(k) /\ \A j \in Task \ {k} : ~Busy(j) /\ ~Busy(j)'
           /\ UNCHANGED <<server, waiting>>
           /\ tasks'[k].answer = tasks[k].answer
           /\ dead \subseteq dead' /\ anime_list \subseteq anime_list'
           /\ \A o \in Heap : IdOf(o)' = IdOf(o)
           /\ Mine(i) = {o \in anime_list \ dead : IdOf(o) = i}
           /\ Mine(i)' = {o \in anime_list' \ dead' : IdOf(o)' = i}
           /\ \A o \in Mine(i)', old \in Old : ~Joined(o, old)'
<1> USE DEF heapVars, listVars, viewVars, ghostVars
<1>1. Busy(k) /\ tasks'[k].answer = tasks[k].answer
  BY OwnSteps DEF Busy
<1>2. \A j \in Task \ {k} : ~Busy(j) /\ ~Busy(j)'
  BY <1>1, OwnSteps DEF OneBusy, Alike, Busy
<1>3. ASSUME NEW j \in Id, CopyEntry(k, j)
      PROVE  /\ UNCHANGED <<server, waiting>>
             /\ dead \subseteq dead' /\ anime_list \subseteq anime_list'
  BY <1>3 DEF CopyEntry, UpdateEntry, LoadEntry, LoadCustomEntry
<1>4. /\ UNCHANGED <<server, waiting>>
      /\ dead \subseteq dead' /\ anime_list \subseteq anime_list'
  BY <1>3 DEF Own, EndList, EndDownload, BeginList
<1>5. \A o \in Heap : o \in Heap' /\ IdOf(o)' = IdOf(o)
  BY DEF Grows, IdOf
<1>6. ASSUME NEW o, o \notin dead, NEW old \in Old, Joined(o, old), IdOf(o) = i
      PROVE  FALSE
  <2>1. o \in Heap
    BY <1>6 DEF Joined, MadeInv
  <2>2. o \in Mine(i)
    BY <1>6, <2>1 DEF Mine
  <2> QED BY <1>1, <1>6, <2>2 DEF EntryInv, Settled, Idle
<1>7. ASSUME NEW o, o \notin dead', NEW old \in Old, Joined(o, old)', IdOf(o)' = i
      PROVE  FALSE
  <2>1. Joined(o, old)
    BY <1>4, <1>7, JoinedStays
  <2>2. o \in Heap
    BY <2>1 DEF Joined, MadeInv
  <2> QED BY <1>4, <1>5, <1>6, <1>7, <2>1, <2>2
<1>8. Mine(i) = {o \in anime_list \ dead : IdOf(o) = i}
  BY <1>6 DEF Mine, MadeInv
<1>9. Mine(i)' = {o \in anime_list' \ dead' : IdOf(o)' = i}
  BY <1>7 DEF Mine, MadeInv
<1>10. \A o \in Mine(i)', old \in Old : ~Joined(o, old)'
  BY <1>7, <1>9
<1> QED BY <1>1, <1>2, <1>4, <1>5, <1>8, <1>9, <1>10

\* What is left to show of a step after which the download still copies.
LEMMA StillCopies ==
    ASSUME NEW k \in Task, Busy(k)', \A j \in Task \ {k} : ~Busy(j)',
           NEW i \in Id, Fits(i), Busy(k), tasks'[k].answer = tasks[k].answer,
           UNCHANGED server,
           Mine(i)' \subseteq anime_list', \A o \in Mine(i)', old \in Old : ~Joined(o, old)',
           Single(i)', Agrees(i)', Through(k, i)', MakesOne(k, i)'
    PROVE  Single(i)' /\ EntryInv(i)'
<1>1. Saved(i)' /\ Settled(i)'
  BY DEF Saved, Settled
<1>2. ~Idle'
  BY DEF Idle
<1>3. Listed(i)'
  BY <1>2 DEF Listed
<1>4. Current(k, i)'
  BY DEF Fits, Current
<1>5. Fits(i)'
  BY <1>4 DEF Fits
<1> QED BY <1>1, <1>3, <1>5 DEF EntryInv

\* The objects of the entry stay.
SameMine(i) ==
    /\ Mine(i)' \subseteq Mine(i)
    /\ \A o \in Mine(i)' : StatusOf(o)' = StatusOf(o)

\* A download that began a list or wrote it back has the same to do.
LEMMA TurnsPage ==
    ASSUME TypeOK, NEW k \in Task, NEW i \in Id, SameMine(i),
           Single(i), Through(k, i), MakesOne(k, i), Agrees(i), UNCHANGED server,
           tasks'[k].answer = tasks[k].answer,
           \A l \in List : ToCopy(k, l, i)' <=> ToCopy(k, l, i),
           \A l \in List :
              \/ Slot(k, l, i)' = Slot(k, l, i)
              \/ /\ k = 1
                 /\ l \in tasks[k].answer[i].lists =>
                       ToCopy(k, l, i) \/ Slot(k, l, i)' # 0
    PROVE  Single(i)' /\ Agrees(i)' /\ Through(k, i)' /\ MakesOne(k, i)'
<1>1. tasks[k].answer[i].lists \subseteq List
  BY DEF TypeOK, TasksOK, TaskRecord, Entries, Absent
<1>2. Single(i)' /\ Agrees(i)'
  BY DEF SameMine, Single, Agrees
<1>3. Through(k, i)'
  BY <1>1 DEF Through
<1>4. \A l \in List : Makes(k, l, i)' => Makes(k, l, i)
  BY DEF Makes
<1>5. MakesOne(k, i)'
  BY <1>4 DEF SameMine, MakesOne
<1> QED BY <1>2, <1>3, <1>5

LEMMA BeginOne ==
    ASSUME TypeOK, MadeInv, TaskInv, OneBusy, Grows, MadeInv',
           NEW k \in Task, NEW l \in List, BeginList(k, l), ~overlapped,
           NEW i \in Id, Single(i), EntryInv(i)
    PROVE  Single(i)' /\ EntryInv(i)'
<1>1. TasksOK /\ Own(k) /\ ~Answered(k)
  BY DEF TypeOK, Own, BeginList, Answered
<1>2. UNCHANGED <<objects, dead, anime_list, user_lists>>
  BY DEF BeginList, heapVars, listVars
<1>3. /\ tasks[k].state = "copying" /\ tasks[k].list = NoList
      /\ tasks'[k].state = tasks[k].state /\ tasks'[k].answer = tasks[k].answer
      /\ tasks'[k].todo = tasks[k].todo /\ tasks'[k].custom = tasks[k].custom
      /\ tasks'[k].list = l
      /\ tasks'[k].ids = {j \in Id : l \in tasks[k].answer[j].lists}
      /\ l \in tasks[k].todo
  BY <1>1, BeginningNotes DEF BeginList
<1>4. tasks'[k].copy = IF k = 1 THEN Empty ELSE user_lists[l]
  BY <1>1, Steps
<1>5. Busy(k) /\ Busy(k)' /\ Fits(i) /\ Agrees(i) /\ Through(k, i) /\ MakesOne(k, i)
  BY <1>3 DEF Busy, EntryInv, Fits
<1>6. SameMine(i)
  BY <1>1, <1>2, CopyingAlone DEF SameMine, StatusOf, IdOf
<1>7. \A m \in List : ToCopy(k, m, i)' <=> ToCopy(k, m, i)
  BY <1>3, Constants DEF ToCopy
<1>8. \A m \in List : m # l \/ k # 1 => Slot(k, m, i)' = Slot(k, m, i)
  BY <1>2, <1>3, <1>4, Constants DEF Slot
<1>9. l \in tasks[k].answer[i].lists => ToCopy(k, l, i)
  BY <1>3, Constants DEF ToCopy
<1>10. UNCHANGED server
  BY DEF BeginList
<1>11. Single(i)' /\ Agrees(i)' /\ Through(k, i)' /\ MakesOne(k, i)'
  BY <1>3, <1>5, <1>6, <1>7, <1>8, <1>9, <1>10, TurnsPage
<1> QED BY <1>1, <1>5, <1>11, CopyingAlone, StillCopies

LEMMA EndListOne ==
    ASSUME TypeOK, MadeInv, TaskInv, OneBusy, Grows, MadeInv',
           NEW k \in Task, EndList(k), ~overlapped,
           NEW i \in Id, Single(i), EntryInv(i)
    PROVE  Single(i)' /\ EntryInv(i)'
<1> DEFINE t == tasks[k]
<1>1. TasksOK /\ Own(k) /\ ListsOK /\ t \in TaskRecord
  BY DEF TypeOK, Own, TasksOK
<1>2. UNCHANGED <<objects, dead, anime_list, server>>
  BY DEF EndList, heapVars
<1>3. /\ t.list # NoList /\ t.ids = {} /\ t.list \in t.todo /\ t.state = "copying"
      /\ tasks'[k].state = t.state /\ tasks'[k].answer = t.answer
      /\ tasks'[k].list = NoList /\ tasks'[k].todo = t.todo \ {t.list}
      /\ tasks'[k].custom = IF t.list \in Custom THEN [t.custom EXCEPT ![t.list] = t.copy]
                            ELSE t.custom
  BY <1>1, EndingNotes DEF TaskInv
<1>4. ~Answered(k) /\ t.list \in List
  BY <1>1, <1>3 DEF Answered, TaskRecord
<1>5. user_lists' = IF t.list \in Custom THEN user_lists
                    ELSE [user_lists EXCEPT ![t.list] = t.copy]
  BY DEF EndList
<1>6. Busy(k) /\ Busy(k)' /\ Fits(i) /\ Agrees(i) /\ Through(k, i) /\ MakesOne(k, i)
  BY <1>3 DEF Busy, EntryInv, Fits
<1>7. SameMine(i)
  BY <1>1, <1>2, <1>4, CopyingAlone DEF SameMine, StatusOf, IdOf
<1>8. \A m \in List : ToCopy(k, m, i)' <=> ToCopy(k, m, i)
  BY <1>3, Constants DEF ToCopy
<1>9. ASSUME NEW m \in List PROVE Slot(k, m, i)' = Slot(k, m, i)
  <2>1. Slot(k, m, i)' = IF m \in Custom \ tasks'[k].todo THEN tasks'[k].custom[m][i]
                         ELSE user_lists'[m][i]
    BY <1>3, Constants DEF Slot
  <2>2. CASE m = t.list
    <3>1. CASE m \in Custom
      BY <1>1, <1>3, <2>1, <2>2, <3>1 DEF TaskRecord, Slot
    <3>2. CASE m \notin Custom
      BY <1>1, <1>3, <1>5, <2>1, <2>2, <3>2 DEF ListsOK, Slot
    <3> QED BY <3>1, <3>2
  <2>3. CASE m # t.list
    <3>1. /\ m \in Custom => tasks'[k].custom[m] = t.custom[m]
          /\ user_lists'[m] = user_lists[m]
      BY <1>1, <1>3, <1>5, <2>3 DEF TaskRecord, ListsOK
    <3> QED BY <1>3, <2>1, <2>3, <3>1 DEF Slot
  <2> QED BY <2>2, <2>3
<1>10. Single(i)' /\ Agrees(i)' /\ Through(k, i)' /\ MakesOne(k, i)'
  BY <1>2, <1>3, <1>6, <1>7, <1>8, <1>9, TurnsPage
<1> QED BY <1>1, <1>4, <1>6, <1>10, CopyingAlone, StillCopies

LEMMA EndDownloadOne ==
    ASSUME TypeOK, MadeInv, TaskInv, OneBusy, Grows, MadeInv',
           NEW k \in Task, EndDownload(k), ~overlapped,
           NEW i \in Id, Single(i), EntryInv(i)
    PROVE  Single(i)' /\ EntryInv(i)'
<1> DEFINE t == tasks[k]
<1>1. TasksOK /\ Own(k) /\ ListsOK /\ t \in TaskRecord /\ WorldOK
  BY DEF TypeOK, Own, TasksOK
<1>2. UNCHANGED <<objects, dead, anime_list, server>>
  BY DEF EndDownload, heapVars
<1>3. /\ t.state = "copying" /\ t.todo = {} /\ t.list = NoList
      /\ tasks'[k].state = "done"
  BY <1>1, ReturningNotes DEF TaskInv
<1>4. ~Answered(k) /\ Busy(k) /\ ~Busy(k)'
  BY <1>3 DEF Answered, Busy
<1>5. user_lists' = [l \in List |-> IF l \in Custom THEN t.custom[l] ELSE user_lists[l]]
  BY DEF EndDownload
<1>6. SameMine(i)
  BY <1>1, <1>2, <1>4, CopyingAlone DEF SameMine, StatusOf, IdOf
<1>7. \A j \in Task : ~Busy(j)'
  BY <1>1, <1>4, CopyingAlone
<1>8. Agrees(i) /\ Current(k, i) /\ Through(k, i)
  BY <1>4 DEF EntryInv, Fits
<1>9. Single(i)' /\ Agrees(i)'
  BY <1>2, <1>6, <1>8 DEF SameMine, Single, Agrees
<1>10. Saved(i)' /\ Settled(i)'
  <2>1. Mine(i)' \subseteq anime_list' /\ \A o \in Mine(i)', old \in Old : ~Joined(o, old)'
    BY <1>1, <1>4, CopyingAlone
  <2> QED BY <2>1 DEF Saved, Settled
<1>11. Fits(i)'
  BY <1>7 DEF Fits
<1>12. ASSUME NEW l \in server[i].lists PROVE user_lists'[l][i] # 0
  <2>1. server[i] = t.answer[i] /\ l \in List
    BY <1>1, <1>8, <1>12 DEF Current, Absent, WorldOK, Entries
  <2>2. ~ToCopy(k, l, i)
    BY <1>3, <2>1, Constants DEF ToCopy
  <2>3. Slot(k, l, i) # 0
    BY <1>8, <1>12, <2>1, <2>2 DEF Through
  <2>4. Slot(k, l, i) = IF l \in Custom THEN t.custom[l][i] ELSE user_lists[l][i]
    BY <1>3, <2>1, Constants DEF Slot
  <2> QED BY <1>5, <2>1, <2>3, <2>4
<1>13. Listed(i)'
  BY <1>2, <1>12 DEF Listed
<1> QED BY <1>9, <1>10, <1>11, <1>13 DEF EntryInv

\* What is left to copy of the entry i when the entry j of a list is copied.
LEMMA CopyingSlots ==
    ASSUME TasksOK, NEW k \in Task, NEW j \in Id, NEW key \in Id, NEW o,
           Copied(k, j, key, o), UNCHANGED user_lists, NEW i \in Id
    PROVE  /\ Busy(k) => Busy(k)'
           /\ tasks'[k].answer = tasks[k].answer
           /\ \A l \in List :
                 /\ ToCopy(k, l, i)' <=> ToCopy(k, l, i) /\ (i = j => l # tasks[k].list)
                 /\ l # tasks[k].list \/ i # key => Slot(k, l, i)' = Slot(k, l, i)
                 /\ l = tasks[k].list /\ i = key => Slot(k, l, i)' = o
                 /\ Makes(k, l, i)' => ToCopy(k, l, i)' /\ (k = 1 => l \in Status)
<1>1. /\ tasks'[k].state = tasks[k].state /\ tasks'[k].answer = tasks[k].answer
      /\ tasks'[k].todo = tasks[k].todo /\ tasks'[k].list = tasks[k].list
      /\ tasks'[k].custom = tasks[k].custom /\ tasks'[k].ids = tasks[k].ids \ {j}
      /\ tasks'[k].copy[key] = o
      /\ \A m \in Id : m # key => tasks'[k].copy[m] = tasks[k].copy[m]
  BY CopyingNotes
<1>2. ASSUME NEW l \in List
      PROVE  /\ ToCopy(k, l, i)' <=> ToCopy(k, l, i) /\ (i = j => l # tasks[k].list)
             /\ l # tasks[k].list \/ i # key => Slot(k, l, i)' = Slot(k, l, i)
             /\ l = tasks[k].list /\ i = key => Slot(k, l, i)' = o
             /\ Makes(k, l, i)' => ToCopy(k, l, i)' /\ (k = 1 => l \in Status)
  <2>1. ToCopy(k, l, i)' <=> ToCopy(k, l, i) /\ (i = j => l # tasks[k].list)
    BY <1>1 DEF ToCopy
  <2>2. l # tasks[k].list \/ i # key => Slot(k, l, i)' = Slot(k, l, i)
    BY <1>1 DEF Slot
  <2>3. l = tasks[k].list /\ i = key => Slot(k, l, i)' = o
    BY <1>1 DEF Slot
  <2> QED BY <2>1, <2>2, <2>3 DEF Makes
<1> QED BY <1>1, <1>2 DEF Busy

\* An object for another entry.
LEMMA CopiedOther ==
    ASSUME TypeOK, NEW k \in Task, NEW j \in Id, NEW key \in Id, NEW o,
           Copied(k, j, key, o), UNCHANGED <<user_lists, server>>,
           NEW i \in Id, i # j, key = i => k = 1 /\ o # 0,
           SameMine(i), Single(i), Agrees(i), Through(k, i), MakesOne(k, i)
    PROVE  Single(i)' /\ Agrees(i)' /\ Through(k, i)' /\ MakesOne(k, i)'
<1>1. TasksOK
  BY DEF TypeOK
<1>2. /\ tasks'[k].answer = tasks[k].answer
      /\ \A l \in List :
            /\ ToCopy(k, l, i)' <=> ToCopy(k, l, i)
            /\ l # tasks[k].list \/ i # key => Slot(k, l, i)' = Slot(k, l, i)
            /\ l = tasks[k].list /\ i = key => Slot(k, l, i)' = o
  BY <1>1, CopyingSlots
<1>3. \A l \in List : Slot(k, l, i)' = Slot(k, l, i) \/ (k = 1 /\ Slot(k, l, i)' # 0)
  BY <1>2
<1> QED BY <1>2, <1>3, TurnsPage

\* The object the list had, or one that is found.
LEMMA CopiedSelf ==
    ASSUME TypeOK, NEW k \in Task, NEW i \in Id, NEW o, o # 0,
           Copied(k, i, i, o), UNCHANGED user_lists, Through(k, i)
    PROVE  /\ Through(k, i)'
           /\ \A l \in List : Makes(k, l, i)' => Makes(k, l, i) /\ l # tasks[k].list
<1>1. TasksOK /\ tasks[k].answer[i].lists \subseteq List
  BY DEF TypeOK, TasksOK, TaskRecord, Entries, Absent
<1>2. /\ tasks'[k].answer = tasks[k].answer
      /\ \A l \in List :
            /\ ToCopy(k, l, i)' <=> ToCopy(k, l, i) /\ l # tasks[k].list
            /\ l # tasks[k].list => Slot(k, l, i)' = Slot(k, l, i)
            /\ l = tasks[k].list => Slot(k, l, i)' = o
  BY <1>1, CopyingSlots
<1>3. Through(k, i)'
  BY <1>1, <1>2 DEF Through
<1> QED BY <1>2, <1>3 DEF Makes

\* The objects of the entry stay when others are made, marked or deleted.
LEMMA OthersMade ==
    ASSUME NEW i \in Id,
           Mine(i) = {o \in anime_list \ dead : IdOf(o) = i},
           Mine(i)' = {o \in anime_list' \ dead' : IdOf(o)' = i},
           dead \subseteq dead',
           \A o \in anime_list' \ dead' : IdOf(o)' = i =>
               o \in anime_list /\ StatusOf(o)' = StatusOf(o) /\ IdOf(o)' = IdOf(o)
    PROVE  SameMine(i)
BY DEF SameMine

\* The ways a download gets the object for the entry j.
LEMMA CopyWays ==
    ASSUME TypeOK, MadeInv, TaskInv, NEW k \in Task, NEW j \in Id, CopyEntry(k, j)
    PROVE  LET t == tasks[k]
           IN  \/ /\ k # 1 /\ t.copy[j] # 0
                  /\ objects' = [objects EXCEPT ![t.copy[j]].status = t.answer[j].status]
                  /\ Copied(k, j, j, t.copy[j])
                  /\ anime_list' = anime_list \cup {t.copy[j]} /\ dead' = dead
               \/ /\ \/ k # 1 /\ t.copy[j] = 0
                     \/ k = 1 /\ t.list \in Status
                     \/ /\ k = 1 /\ t.list \in Custom
                        /\ \A o \in anime_list : IdOf(o) # j
                  /\ New(j, t.answer[j].status) /\ Copied(k, j, j, made)
                  /\ anime_list' = anime_list \cup {made} /\ dead' = dead
               \/ \E o \in Heap :
                     /\ k = 1 /\ t.list \in Custom /\ Copied(k, j, IdOf(o), o)
                     /\ IdOf(o) = j \/ j \in moved'
                     /\ UNCHANGED <<objects, anime_list>>
                     /\ crossed' \/ dead' = dead
<1> DEFINE t == tasks[k]
           same == {o \in anime_list : Title[IdOf(o)] = Title[j]}
           listed == user_lists[t.answer[j].status][j]
<1>1. CASE UpdateEntry(k, j)
  BY <1>1 DEF UpdateEntry
<1>2. CASE LoadEntry(k, j)
  BY <1>2 DEF LoadEntry
<1>3. CASE LoadCustomEntry(k, j)
  <2>1. k = 1 /\ t.list \in Custom
    BY <1>3 DEF LoadCustomEntry
  <2>2. ASSUME NEW o \in same, Copied(k, j, IdOf(o), o), UNCHANGED <<objects, anime_list>>,
               moved' = IF IdOf(o) = j THEN moved ELSE moved \cup {j},
               dead' = dead \cup (same \ {o}), crossed' = (crossed \/ same # {o})
        PROVE  o \in Heap /\ (IdOf(o) = j \/ j \in moved') /\ (crossed' \/ dead' = dead)
    <3>1. o \in Heap /\ (IdOf(o) = j \/ j \in moved')
      BY <2>2 DEF MadeInv
    <3>2. CASE same = {o}
      BY <2>2, <3>1, <3>2
    <3>3. CASE same # {o}
      BY <2>2, <3>1, <3>3
    <3> QED BY <3>2, <3>3
  <2>3. ASSUME listed # 0 PROVE listed \in Heap /\ IdOf(listed) = j
    <3>1. t.answer[j].status \in Status
      BY DEF CopyEntry, TaskInv
    <3> QED BY <2>3, <3>1, Constants DEF MadeInv, FitsIn, Heap, IdOf
  <2>4. ASSUME same = {} PROVE \A o \in anime_list : IdOf(o) # j
    BY <2>4
  <2>5. \/ \E o \in same : /\ Copied(k, j, IdOf(o), o) /\ UNCHANGED <<objects, anime_list>>
                           /\ moved' = IF IdOf(o) = j THEN moved ELSE moved \cup {j}
                           /\ dead' = dead \cup (same \ {o})
                           /\ crossed' = (crossed \/ same # {o})
        \/ /\ same = {} /\ listed # 0 /\ dead' = dead
           /\ Copied(k, j, IdOf(listed), listed) /\ UNCHANGED <<objects, anime_list>>
        \/ /\ same = {} /\ New(j, t.answer[j].status) /\ Copied(k, j, j, made)
           /\ anime_list' = anime_list \cup {made} /\ dead' = dead
    BY <1>3 DEF LoadCustomEntry
  <2> HIDE DEF same, listed
  <2> QED BY <2>1, <2>2, <2>3, <2>4, <2>5
<1> QED BY <1>1, <1>2, <1>3 DEF CopyEntry

LEMMA CopyKept ==
    ASSUME TypeOK, MadeInv, KnownInv, NEW k \in Task, NEW j \in Id, NEW o,
           o = tasks[k].copy[j], o # 0, k # 1,
           objects' = [objects EXCEPT ![o].status = tasks[k].answer[j].status],
           Copied(k, j, j, o), anime_list' = anime_list \cup {o},
           UNCHANGED <<dead, user_lists, server>>,
           NEW i \in Id, Single(i), Agrees(i), Current(k, i), Through(k, i), MakesOne(k, i),
           Mine(i) = {p \in anime_list \ dead : IdOf(p) = i},
           Mine(i)' = {p \in anime_list' \ dead' : IdOf(p)' = i}
    PROVE  Single(i)' /\ Agrees(i)' /\ Through(k, i)' /\ MakesOne(k, i)'
<1>1. o \in Heap /\ IdOf(o) = j /\ o \in anime_list \cup dead
  BY DEF MadeInv, FitsIn, Heap, IdOf, KnownInv, ListedIn, Known
<1>2. HeapOK /\ objects[o] \in AnimeRecord
  BY <1>1, Existing DEF TypeOK
<1>3. /\ \A p \in Heap : p # o => objects'[p] = objects[p]
      /\ IdOf(o)' = IdOf(o) /\ StatusOf(o)' = tasks[k].answer[j].status
  BY <1>1, <1>2 DEF Heap, AnimeRecord, IdOf, StatusOf
<1>4. /\ \A p \in anime_list' \ dead' : p \in anime_list \ dead /\ p \in Heap
      /\ \A p \in Heap : IdOf(p)' = IdOf(p)
      /\ \A p \in Heap : p # o => StatusOf(p)' = StatusOf(p)
  BY <1>1, <1>3 DEF MadeInv, IdOf, StatusOf
<1>5. CASE i # j
  <2>1. SameMine(i)
    BY <1>1, <1>4, <1>5 DEF SameMine
  <2> QED BY <1>5, <2>1, CopiedOther
<1>6. CASE i = j
  <2>1. /\ Through(k, i)'
        /\ \A l \in List : Makes(k, l, i)' => Makes(k, l, i) /\ l # tasks[k].list
    BY <1>6, CopiedSelf
  <2>2. Mine(i)' \subseteq Mine(i)
    BY <1>4
  <2>3. MakesOne(k, i)' /\ Single(i)'
    BY <2>1, <2>2 DEF MakesOne, Single
  <2>4. Agrees(i)'
    <3>1. \A p \in Mine(i)' : \/ p = o \/ StatusOf(p)' = StatusOf(p)
      BY <1>4
    <3> QED BY <1>3, <1>6, <2>2, <3>1 DEF Agrees, Current
  <2> QED BY <2>1, <2>3, <2>4
<1> QED BY <1>5, <1>6

LEMMA CopyMade ==
    ASSUME TypeOK, MadeInv, OrderInv, NEW k \in Task, NEW j \in Id,
           j \in tasks[k].ids, tasks[k].list \in List, tasks[k].answer[j].status \in Status,
           NEW o, o = made,
           \/ k # 1 /\ tasks[k].copy[j] = 0
           \/ k = 1 /\ tasks[k].list \in Status
           \/ k = 1 /\ tasks[k].list \in Custom /\ \A p \in anime_list : IdOf(p) # j,
           New(j, tasks[k].answer[j].status),
           Copied(k, j, j, o), anime_list' = anime_list \cup {o},
           UNCHANGED <<dead, user_lists, server>>,
           NEW i \in Id, Single(i), Agrees(i), Current(k, i), Through(k, i), MakesOne(k, i),
           Mine(i) = {p \in anime_list \ dead : IdOf(p) = i},
           Mine(i)' = {p \in anime_list' \ dead' : IdOf(p)' = i}
    PROVE  Single(i)' /\ Agrees(i)' /\ Through(k, i)' /\ MakesOne(k, i)'
<1> DEFINE t == tasks[k]
<1>1. HeapOK /\ 0 \notin Object
  BY Constants DEF TypeOK
<1>2. /\ o # 0 /\ o \in Heap' /\ o \notin Heap
      /\ objects'[o] = [id |-> j, status |-> t.answer[j].status]
      /\ \A p \in Heap : objects'[p] = objects[p]
  BY <1>1, MakingAppends DEF New
<1>3. /\ IdOf(o)' = j /\ StatusOf(o)' = t.answer[j].status
      /\ \A p \in Heap : IdOf(p)' = IdOf(p) /\ StatusOf(p)' = StatusOf(p)
  BY <1>2 DEF IdOf, StatusOf
<1>4. CASE i # j
  <2>1. SameMine(i)
    BY <1>3, <1>4 DEF SameMine, MadeInv
  <2> QED BY <1>2, <1>4, <2>1, CopiedOther
<1>5. CASE i = j
  <2>1. /\ Through(k, i)'
        /\ \A l \in List : Makes(k, l, i)' => Makes(k, l, i) /\ l # t.list
    BY <1>2, <1>5, CopiedSelf
  <2>2. Mine(i) = {} /\ \A l \in List : ~Makes(k, l, i)'
    <3>1. CASE k # 1 \/ t.list \in Status
      <4>1. ToCopy(k, t.list, i)
        BY <1>5 DEF ToCopy, OrderInv
      <4>2. Makes(k, t.list, i)
        BY <1>5, <3>1, <4>1 DEF Makes, Slot
      <4>3. Mine(i) = {} /\ \A m \in List : Makes(k, m, i) => m = t.list
        BY <4>2 DEF MakesOne
      <4> QED BY <2>1, <4>3
    <3>2. CASE k = 1 /\ t.list \in Custom /\ \A p \in anime_list : IdOf(p) # j
      <4>1. Mine(i) = {}
        BY <1>5, <3>2
      <4>2. t.todo \subseteq Custom /\ Status \cap Custom = {}
        BY <3>2, Constants DEF OrderInv
      <4>3. \A l \in List : ~Makes(k, l, i)
        BY <3>2, <4>2 DEF Makes, ToCopy
      <4> QED BY <2>1, <4>1, <4>3
    <3> QED BY <3>1, <3>2
  <2>3. \A p \in Mine(i)' : p = o
    <3>1. \A p \in Mine(i)' : (p \in anime_list \ dead /\ IdOf(p)' = i) \/ p = o
      OBVIOUS
    <3>2. \A p \in anime_list : IdOf(p)' = IdOf(p)
      BY <1>3 DEF MadeInv
    <3> QED BY <2>2, <3>1, <3>2
  <2>4. Single(i)' /\ MakesOne(k, i)'
    BY <2>2, <2>3 DEF Single, MakesOne
  <2>5. Agrees(i)'
    BY <1>3, <1>5, <2>3 DEF Agrees, Current
  <2> QED BY <2>1, <2>4, <2>5
<1> QED BY <1>4, <1>5

LEMMA CopyTaken ==
    ASSUME TypeOK, NEW k \in Task, k = 1, NEW j \in Id, NEW o \in Heap,
           Copied(k, j, IdOf(o), o), UNCHANGED <<objects, anime_list, user_lists, server>>,
           dead \subseteq dead',
           NEW i \in Id, IdOf(o) = j \/ i # j,
           Single(i), Agrees(i), Through(k, i), MakesOne(k, i),
           Mine(i) = {p \in anime_list \ dead : IdOf(p) = i},
           Mine(i)' = {p \in anime_list' \ dead' : IdOf(p)' = i}
    PROVE  Single(i)' /\ Agrees(i)' /\ Through(k, i)' /\ MakesOne(k, i)'
<1>1. IdOf(o) \in Id /\ o # 0
  BY Existing DEF TypeOK
<1>2. SameMine(i)
  BY DEF SameMine, IdOf, StatusOf
<1>3. CASE i # j
  BY <1>1, <1>2, <1>3, CopiedOther
<1>4. CASE i = j
  <2>1. Copied(k, i, i, o)
    BY <1>4
  <2>2. /\ Through(k, i)'
        /\ \A l \in List : Makes(k, l, i)' => Makes(k, l, i)
    BY <1>1, <2>1, CopiedSelf
  <2>3. Single(i)' /\ Agrees(i)' /\ MakesOne(k, i)'
    BY <1>2, <2>2 DEF SameMine, Single, Agrees, MakesOne
  <2> QED BY <2>2, <2>3
<1> QED BY <1>3, <1>4

LEMMA CopyOne ==
    ASSUME TypeOK, MadeInv, TaskInv, KnownInv, OrderInv, OneBusy, Grows, MadeInv',
           NEW k \in Task, NEW j \in Id, CopyEntry(k, j), ~overlapped,
           NEW i \in Id \ moved', Single(i), EntryInv(i)
    PROVE  Single(i)' /\ EntryInv(i)'
<1> DEFINE t == tasks[k]
           Goal == Single(i)' /\ Agrees(i)' /\ Through(k, i)' /\ MakesOne(k, i)'
<1>1. /\ Own(k) /\ ~Answered(k) /\ j \in t.ids /\ t.state = "copying"
      /\ UNCHANGED <<user_lists, server>>
  BY DEF CopyEntry, Own, Answered
<1>2. /\ t.answer[j].status \in Status /\ t.list \in List
      /\ \E key \in Id : \E o : Copied(k, j, key, o)
  <2>1. t.list # NoList /\ t \in TaskRecord /\ t.answer[j].status \in Status
    BY <1>1 DEF TaskInv, TypeOK, TasksOK
  <2>2. \A o \in Heap : IdOf(o) \in Id
    BY Existing DEF TypeOK
  <2> QED BY <2>1, <2>2, CopyWays DEF TaskRecord
<1>3. Busy(k) /\ Busy(k)' /\ tasks'[k].answer = t.answer
  BY <1>1, <1>2, CopyingSlots DEF Busy, TypeOK
<1>4. Fits(i) /\ Current(k, i) /\ Through(k, i) /\ MakesOne(k, i) /\ Agrees(i)
  BY <1>3 DEF EntryInv, Fits
<1>5. /\ dead \subseteq dead'
      /\ Mine(i) = {o \in anime_list \ dead : IdOf(o) = i}
      /\ Mine(i)' = {o \in anime_list' \ dead' : IdOf(o)' = i}
      /\ \A o \in Mine(i)', old \in Old : ~Joined(o, old)'
      /\ \A m \in Task \ {k} : ~Busy(m)'
  BY <1>1, CopyingAlone
<1>6. ASSUME k # 1, t.copy[j] # 0,
             objects' = [objects EXCEPT ![t.copy[j]].status = t.answer[j].status],
             Copied(k, j, j, t.copy[j]),
             anime_list' = anime_list \cup {t.copy[j]}, dead' = dead
      PROVE  Goal
  BY <1>1, <1>4, <1>5, <1>6, CopyKept
<1>7. ASSUME \/ k # 1 /\ t.copy[j] = 0
             \/ k = 1 /\ t.list \in Status
             \/ k = 1 /\ t.list \in Custom /\ \A o \in anime_list : IdOf(o) # j,
             New(j, t.answer[j].status), Copied(k, j, j, made),
             anime_list' = anime_list \cup {made}, dead' = dead
      PROVE  Goal
  BY <1>1, <1>2, <1>4, <1>5, <1>7, CopyMade
<1>8. ASSUME NEW o \in Heap, k = 1, Copied(k, j, IdOf(o), o),
             IdOf(o) = j \/ j \in moved', UNCHANGED <<objects, anime_list>>
      PROVE  Goal
  <2>1. IdOf(o) = j \/ i # j
    BY <1>8
  <2> QED BY <1>1, <1>4, <1>5, <1>8, <2>1, CopyTaken
<1>9. Goal
  BY <1>6, <1>7, <1>8, CopyWays
<1> QED BY <1>1, <1>3, <1>4, <1>5, <1>9, StillCopies

\* The answer: what is not on a list has no object, or is only on this list.
LEMMA AnsweredOne ==
    ASSUME TypeOK, MadeInv, TaskInv, WorldInv, MadeInv',
           NEW k \in Task, Answered(k), ~overlapped',
           NEW i \in Id \ moved', Single(i), EntryInv(i)
    PROVE  Single(i)' /\ EntryInv(i)'
<1> USE DEF heapVars
<1>1. TasksOK /\ server \in [Id -> Entries]
  BY DEF TypeOK, WorldOK
<1>2. /\ tasks[k].state = "asking" /\ tasks'[k].state = "copying"
      /\ tasks'[k].answer = server
      /\ tasks'[k].todo = UNION {server[m].lists : m \in Id}
      /\ tasks'[k].list = NoList /\ tasks'[k].ids = {}
      /\ \A j \in Task \ {k} : Alike(tasks'[j], tasks[j])
  BY <1>1, Answering, Steps DEF TaskInv
<1>3. /\ \A j \in Task \ {k} : ~Busy(j) /\ ~Busy(j)'
      /\ Idle /\ Busy(k)'
  <2>1. \A j \in Task \ {k} : ~Running(j)
    BY DEF Answered
  <2> QED BY <1>2, <2>1 DEF Running, Busy, Alike, Idle
<1>4. /\ UNCHANGED <<objects, user_lists, waiting, server>>
      /\ \A n \in DOMAIN waiting : IdOf(waiting[n].obj) # i
  BY DEF Answered
<1>5. \A o, old : IdOf(o) = i => ~Joined(o, old)
  BY <1>4 DEF Joined
<1>6. \A o, old : IdOf(o)' = i => ~Joined(o, old)'
  BY <1>4, <1>5, JoinedStays DEF IdOf
<1>7. /\ Mine(i) = {o \in anime_list \ dead : IdOf(o) = i}
      /\ Mine(i)' = {o \in anime_list' \ dead' : IdOf(o) = i}
  <2>1. Mine(i) = {o \in anime_list \ dead : IdOf(o) = i}
    BY <1>5 DEF Mine, MadeInv
  <2>2. Mine(i)' = {o \in anime_list' \ dead' : IdOf(o)' = i}
    BY <1>6 DEF Mine, MadeInv
  <2> QED BY <1>4, <2>1, <2>2 DEF IdOf
<1>8. Mine(i)' = IF k = 1 THEN {} ELSE Mine(i)
  <2>1. /\ anime_list' = IF k = 1 THEN {} ELSE anime_list
        /\ dead' = IF k = 1 THEN dead \cup anime_list ELSE dead
    BY DEF Answered
  <2> QED BY <1>7, <2>1
<1>9. ASSUME NEW l \in List
      PROVE  /\ ToCopy(k, l, i)' <=> l \in server[i].lists
             /\ ToCopy(k, l, i)' => Slot(k, l, i)' = user_lists[l][i]
  BY <1>2, <1>4, Constants DEF ToCopy, Slot
<1>10. Single(i)'
  BY <1>8 DEF Single
<1>11. Agrees(i)'
  BY <1>4, <1>8 DEF EntryInv, Agrees, StatusOf
<1>12. Saved(i)' /\ Settled(i)'
  <2>1. Mine(i)' \subseteq anime_list'
    BY <1>7
  <2>2. \A o \in Mine(i)' : IdOf(o)' = i
    BY DEF Mine
  <2> QED BY <1>6, <2>1, <2>2 DEF Saved, Settled
<1>13. Listed(i)'
  BY <1>3 DEF Listed, Idle
<1>14. Current(k, i)' /\ Through(k, i)'
  <2>1. tasks'[k].answer[i].lists \subseteq List
    BY <1>1, <1>2 DEF Entries, Absent
  <2> QED BY <1>2, <1>4, <1>9, <2>1 DEF Current, Through
<1>15. MakesOne(k, i)'
  <2>1. CASE k = 1
    <3>1. \A l \in List : Makes(k, l, i)' => l \in server[i].lists \cap Status
      BY <1>9, <2>1 DEF Makes
    <3>2. \A l \in List : Makes(k, l, i)' => l = server[i].status
      BY <3>1 DEF WorldInv, InOwnList
    <3> QED BY <1>8, <2>1, <3>2 DEF MakesOne
  <2>2. CASE k # 1
    <3>1. \A l \in List : Makes(k, l, i)' => l \in server[i].lists /\ user_lists[l][i] = 0
      BY <1>9, <2>2 DEF Makes
    <3>2. CASE Mine(i) # {}
      <4>1. \A l \in server[i].lists : user_lists[l][i] # 0
        BY <1>3, <1>5, <1>7, <3>2 DEF EntryInv, Listed
      <4> QED BY <3>1, <4>1 DEF MakesOne
    <3>3. CASE Mine(i) = {}
      <4>1. \A o \in Live : IdOf(o) # i
        BY <1>7, <3>3 DEF Live
      <4>2. \A l, m \in server[i].lists : l = m
        BY <2>2, <4>1 DEF Answered
      <4> QED BY <1>8, <2>2, <3>1, <3>3, <4>2 DEF MakesOne
    <3> QED BY <3>2, <3>3
  <2> QED BY <2>1, <2>2
<1>16. Fits(i)'
  BY <1>3, <1>14, <1>15 DEF Fits
<1> QED BY <1>10, <1>11, <1>12, <1>13, <1>16 DEF EntryInv

-----------------------------------------------------------------------------
(* The invariant, and the theorem.                                          *)

LEMMA OverlapStays == Next => (overlapped => overlapped')
<1> USE DEF ghostVars
<1>1. ASSUME NEW k \in Task, NEW i \in Id, CopyEntry(k, i) PROVE overlapped' = overlapped
  BY <1>1 DEF CopyEntry
<1>2. CASE Download
  BY <1>1, <1>2 DEF Download, Answered, EndList, EndDownload, BeginList
<1>3. CASE Refresh \/ Handlers
  BY <1>3 DEF Refresh, StartRefresh, Finished, Handlers, StatusReturns, remove, AcceptReturns
<1>4. CASE User
  BY <1>4
     DEF User, UpdateStatus, DeleteEntry, UpdateEpisode, Watch, StopTimer, UpdateNothing,
         UpdateReturns, ToggleCustom, HideDefault, RemoteChange, OpenPanel, OpenCard,
         PaintCard, OpenNew, Browse, BadLookup, Accept
<1> QED BY <1>2, <1>3, <1>4 DEF Next

LEMMA ServerAside ==
    ASSUME Refresh \/ Handlers
    PROVE  UNCHANGED server
BY DEF Refresh, Handlers, StartRefresh, Finished, StatusReturns, remove, AcceptReturns

LEMMA EntriesNext ==
    ASSUME Inv, Inv', KnownInv, SidesInv, EntriesInv, Next
    PROVE  EntriesInv'
<1>1. SUFFICES ASSUME ~overlapped', NEW i \in Id \ moved'
               PROVE  Single(i)' /\ EntryInv(i)'
  BY DEF EntriesInv
<1>2. /\ TypeOK /\ MadeInv /\ TaskInv /\ WorldInv /\ HoldersInv /\ OrderInv /\ OneBusy
      /\ MadeInv' /\ Grows
  BY HeapNext DEF Inv, SidesInv
<1>3. ~overlapped /\ Single(i) /\ EntryInv(i)
  BY <1>1, OverlapStays, MovedGrows DEF EntriesInv
<1>4. CASE User
  <2>1. Onward
    BY <1>2, <1>4, Onwards
  <2>2. CASE Apart(i) /\ Told(i)
    BY <1>1, <1>2, <1>3, <2>1, <2>2, EntryStays DEF Told
  <2>3. CASE Apart(i) /\ Mine(i) = {} /\ ~SomeRunning
    <3>1. Mine(i)' = {} /\ Idle'
      BY <2>1, <2>3, Calming DEF Apart
    <3> QED BY <3>1, NobodyHome
  <2>4. ASSUME NEW p \in panels, NEW s \in Status, Accept(p, s), p.obj \notin dead, IdOf(p.obj) = i
        PROVE  Single(i)' /\ EntryInv(i)'
    BY <1>1, <1>2, <1>3, <2>1, <2>4, AcceptOne
  <2> QED BY <1>1, <1>2, <1>3, <1>4, <2>2, <2>3, <2>4, UserAside
<1>5. CASE Refresh \/ Handlers
  <2>1. Onward
    BY <1>2, <1>5, Onwards
  <2>2. CASE Apart(i)
    BY <1>1, <1>2, <1>3, <1>5, <2>1, <2>2, EntryStays, ServerAside
  <2>3. CASE remove /\ Top.obj \notin dead /\ IdOf(Top.obj) = i
    BY <1>1, <1>2, <1>3, <2>1, <2>3, RemoveLeaves, NobodyHome
  <2>4. CASE AcceptReturns /\ Top.mover /\ Top.obj \notin dead /\ IdOf(Top.obj) = i
    BY <1>1, <1>2, <1>3, <2>1, <2>4, AcceptReturnsOne
  <2> QED BY <1>1, <1>2, <1>5, <2>2, <2>3, <2>4, HandlersAside
<1>6. ASSUME NEW k \in Task, Own(k) PROVE Single(i)' /\ EntryInv(i)'
  <2>1. CASE Answered(k)
    BY <1>1, <1>2, <1>3, <2>1, AnsweredOne
  <2>2. CASE EndList(k)
    BY <1>1, <1>2, <1>3, <2>2, EndListOne
  <2>3. CASE EndDownload(k)
    BY <1>1, <1>2, <1>3, <2>3, EndDownloadOne
  <2>4. ASSUME NEW l \in List, BeginList(k, l) PROVE Single(i)' /\ EntryInv(i)'
    BY <1>1, <1>2, <1>3, <2>4, BeginOne
  <2>5. ASSUME NEW j \in Id, CopyEntry(k, j) PROVE Single(i)' /\ EntryInv(i)'
    BY <1>1, <1>2, <1>3, <2>5, CopyOne
  <2> QED BY <1>6, <2>1, <2>2, <2>3, <2>4, <2>5 DEF Own
<1> QED BY <1>4, <1>5, <1>6 DEF Next, Download, Own

EveryInv == Inv /\ KnownInv /\ SidesInv /\ EntriesInv

LEMMA EveryInit == Init => EveryInv
<1>1. SUFFICES ASSUME Init PROVE EveryInv
  OBVIOUS
<1>2. Inv /\ KnownInv
  BY <1>1, InvInit, ShownInit DEF ShownInv
<1>3. /\ waiting = <<>> /\ DOMAIN waiting = {} /\ panels = {} /\ anime_list = {}
      /\ server \in [Id -> Start]
      /\ \A k \in Task : /\ tasks[k].state \in {"none", "asking"} /\ tasks[k].list = NoList
                         /\ tasks[k].ids = {} /\ tasks[k].answer = [i \in Id |-> Absent]
  BY <1>1 DEF Init, NoTask
<1>4. InOwnList(Absent)
  BY DEF InOwnList, Absent
<1>5. WorldInv
  BY <1>3, <1>4, StartAssumption DEF WorldInv, InOwnList
<1>6. HoldersInv
  BY <1>3 DEF HoldersInv
<1>7. OrderInv
  BY <1>3, Constants DEF OrderInv
<1>8. \A k \in Task : ~Busy(k)
  BY <1>3 DEF Busy
<1>9. OneBusy
  BY <1>8 DEF OneBusy
<1>10. \A i \in Id : Mine(i) = {}
  BY <1>3 DEF Mine, Joined
<1>11. EntriesInv
  BY <1>8, <1>10 DEF EntriesInv, Single, EntryInv, Agrees, Saved, Settled, Listed, Fits
<1> QED BY <1>2, <1>5, <1>6, <1>7, <1>9, <1>11 DEF EveryInv, SidesInv

LEMMA EveryNext == EveryInv /\ [Next]_vars => EveryInv'
<1>1. SUFFICES ASSUME EveryInv, [Next]_vars PROVE EveryInv'
  OBVIOUS
<1>2. /\ Inv' /\ Inv /\ TypeOK /\ MadeInv /\ TaskInv /\ KnownInv /\ EntriesInv
      /\ SidesInv /\ WorldInv /\ HoldersInv /\ OrderInv /\ OneBusy
  BY <1>1, InvNext DEF EveryInv, SidesInv, Inv
<1>3. CASE Next
  <2>1. KnownInv'
    BY <1>2, <1>3, KnownNext
  <2>2. SidesInv'
    BY <1>2, <1>3, WorldInvNext, HoldersNext, OrderNext, OneBusyNext DEF SidesInv
  <2>3. EntriesInv'
    BY <1>2, <1>3, EntriesNext
  <2> QED BY <1>2, <2>1, <2>2, <2>3 DEF EveryInv
<1>4. CASE UNCHANGED vars
  <2> USE DEF vars, heapVars, listVars, viewVars, ghostVars
  <2>1. KnownInv'
    BY <1>2, <1>4 DEF KnownInv, Known
  <2>2. SidesInv'
    BY <1>2, <1>4
       DEF SidesInv, WorldInv, HoldersInv, Known, IdOf, OrderInv, OneBusy, Busy
  <2>3. ASSUME NEW i \in Id, Single(i), EntryInv(i) PROVE Single(i)' /\ EntryInv(i)'
    BY <1>4, <2>3
       DEF Single, EntryInv, Agrees, Saved, Settled, Listed, Fits, Mine, Joined, Heap, IdOf,
           StatusOf, Idle, Busy, Current, Through, MakesOne, Makes, ToCopy, Slot
  <2>4. EntriesInv'
    BY <1>2, <1>4, <2>3 DEF EntriesInv
  <2> QED BY <1>2, <2>1, <2>2, <2>4 DEF EveryInv
<1> QED BY <1>1, <1>3, <1>4

LEMMA Everything == Spec => []EveryInv
BY EveryInit, EveryNext, PTL DEF Spec

(* An entry has one Anime however the user's edits, the refreshes and the   *)
(* web site take turns: a refresh finds the one there is, and an answer     *)
(* that comes late finds what the handlers did meanwhile.  The exceptions   *)
(* are two downloads at the same time and an entry that changed lists in a  *)
(* way a refresh does not match.                                            *)
THEOREM OneAnime == Spec => []OneAnimePerEntry
<1>1. EveryInv => OneAnimePerEntry
  <2>1. SUFFICES ASSUME EveryInv, ~overlapped, NEW o \in Live, NEW p \in Live,
                        o # p, IdOf(o) = IdOf(p), IdOf(o) \notin moved
                 PROVE  FALSE
    BY DEF OneAnimePerEntry
  <2>2. o \in Heap /\ p \in Heap /\ IdOf(o) \in Id
    BY <2>1, Existing DEF EveryInv, Inv, TypeOK, MadeInv, Live
  <2>3. Single(IdOf(o))
    BY <2>1, <2>2 DEF EveryInv, EntriesInv
  <2>4. o \in Mine(IdOf(o)) /\ p \in Mine(IdOf(o))
    BY <2>1, <2>2 DEF Mine, Live
  <2> QED BY <2>1, <2>3, <2>4 DEF Single
<1> QED BY <1>1, Everything, PTL

-----------------------------------------------------------------------------
(* The list an entry is in, where the site hides no entry from the list of  *)
(* its status.                                                              *)
InItsList(e) == e # Absent => e.status \in e.lists
NothingHidden == \A e \in Start : InItsList(e)

(* The server has the entry in the list of its status, or none when a       *)
(* handler is going to delete the object; a list of another status that has *)
(* the entry is the one a handler is going to take it from.                 *)
Unhidden(i) ==
    /\ InItsList(server[i])
    /\ \A k \in Task : Busy(k) => InItsList(tasks[k].answer[i])
OnServer(i) == \A o \in Mine(i) : server[i] # Absent \/ Leaving(o)
InOneList(i) ==
    \A o \in Mine(i), l \in Status :
        user_lists[l][i] # 0 => l = StatusOf(o) \/ Joined(o, l)

(* What a download answers is what the object has.                          *)
Fetched(i) ==
    \A k \in Task : Busy(k) =>
        /\ Mine(i) = {} => server[i] = tasks[k].answer[i]
        /\ \A o \in Mine(i) :
              /\ tasks[k].answer[i] # Absent
              /\ tasks[k].answer[i].status = StatusOf(o)
              /\ tasks[k].list \in Status /\ tasks[k].copy[i] # 0
                    => tasks[k].list = StatusOf(o)
PlaceInv(i) == OnServer(i) /\ InOneList(i) /\ Fetched(i)
PlacesInv ==
    ~crossed /\ ~overlapped =>
        \A i \in Id \ moved : Unhidden(i) /\ PlaceInv(i)

LEMMA OnListIsMine ==
    ASSUME MadeInv, ListedInv, ~crossed, NEW i \in Id
    PROVE  /\ \A l \in List : user_lists[l][i] # 0 => user_lists[l][i] \in Mine(i)
           /\ \A k \in Task : tasks[k].copy[i] # 0 => tasks[k].copy[i] \in Mine(i)
<1>1. ASSUME NEW o \in anime_list, IdOf(o) = i PROVE o \in Mine(i)
  BY <1>1 DEF Mine, MadeInv, ListedInv
<1>2. ASSUME NEW l \in List, user_lists[l][i] # 0 PROVE user_lists[l][i] \in Mine(i)
  BY <1>1, <1>2 DEF MadeInv, FitsIn, ListedInv, ListedIn, IdOf
<1>3. ASSUME NEW k \in Task, tasks[k].copy[i] # 0 PROVE tasks[k].copy[i] \in Mine(i)
  BY <1>1, <1>3 DEF MadeInv, FitsIn, ListedInv, ListedIn, IdOf
<1> QED BY <1>2, <1>3

-----------------------------------------------------------------------------
(* The server hides no entry that did not move.                             *)

LEMMA WithStatusInList ==
    ASSUME NEW e, InItsList(e), NEW s
    PROVE  InItsList(WithStatus(e, s))
<1>1. CASE e = Absent
  BY <1>1 DEF WithStatus, InItsList
<1>2. CASE e # Absent
  <2> DEFINE w == WithStatus(e, s)
  <2>1. w.status = s /\ w.lists = IF e.status \in e.lists THEN (e.lists \ {e.status}) \cup {s}
                                  ELSE e.lists
    BY <1>2 DEF WithStatus
  <2> QED BY <1>2, <2>1 DEF InItsList
<1> QED BY <1>1, <1>2

LEMMA ServerUnhidden ==
    ASSUME TypeOK, MadeInv, NothingHidden, Next, NEW i \in Id \ moved', InItsList(server[i])
    PROVE  InItsList(server'[i])
<1>1. WorldOK
  BY DEF TypeOK
<1>2. CASE server' = server
  BY <1>2
<1>3. ASSUME NEW j, NEW e, Tell(j, e), j = i => InItsList(e)
      PROVE  InItsList(server'[i])
  BY <1>1, <1>3, TellingOne
<1>4. CASE Download \/ Refresh \/ Handlers
  BY <1>2, <1>4, ServerAside DEF Download, Answered, BeginList, EndList, EndDownload, CopyEntry
<1>6. ASSUME NEW o \in Heap, DeleteEntry(o)
      PROVE  InItsList(server'[i])
  <2>1. Tell(IdOf(o), Absent) /\ InItsList(Absent)
    BY <1>6 DEF DeleteEntry, InItsList
  <2> QED BY <1>3, <2>1
<1>7. ASSUME NEW j \in Id, NEW e \in Start, RemoteChange(j, e)
      PROVE  InItsList(server'[i])
  BY <1>1, <1>7 DEF RemoteChange, NothingHidden, WorldOK
<1>8. ASSUME NEW p \in panels, NEW s \in Status, Accept(p, s)
      PROVE  InItsList(server'[i])
  <2>1. InItsList([status |-> s, lists |-> {s}])
    BY DEF InItsList
  <2>2. InItsList(WithStatus(server[i], s))
    BY WithStatusInList
  <2>3. \/ server' = server
        \/ Tell(IdOf(p.obj), [status |-> s, lists |-> {s}])
        \/ Tell(IdOf(p.obj), WithStatus(server[IdOf(p.obj)], s))
    BY <1>8 DEF Accept
  <2> QED BY <1>2, <1>3, <2>1, <2>2, <2>3
<1>9. ASSUME \/ \E o \in DOMAIN objects : OpenPanel(o) \/ OpenCard(o) \/ PaintCard(o)
             \/ \E j \in Id : OpenNew(j) \/ Browse(j) \/ BadLookup(j)
      PROVE  InItsList(server'[i])
  BY <1>2, <1>9 DEF OpenPanel, OpenCard, PaintCard, OpenNew, Browse, BadLookup
<1>10. CASE User
  <2>1. ASSUME NEW o \in Heap, NEW s \in Status, UpdateStatus(o, s)
        PROVE  InItsList(server'[i])
    <3>1. IdOf(o) # i /\ \E e : Tell(IdOf(o), e)
      BY <2>1 DEF UpdateStatus
    <3> QED BY <1>3, <3>1
  <2>2. ASSUME NEW o \in Heap, NEW last \in BOOLEAN, UpdateEpisode(o, last)
        PROVE  InItsList(server'[i])
    <3>1. server' = server \/ (IdOf(o) # i /\ \E e : Tell(IdOf(o), e))
      BY <2>2 DEF UpdateEpisode
    <3> QED BY <1>2, <1>3, <3>1
  <2>3. ASSUME NEW o \in Heap, NEW c \in Custom, ToggleCustom(o, c) PROVE InItsList(server'[i])
    <3>1. IdOf(o) # i /\ \E e : Tell(IdOf(o), e)
      BY <2>3 DEF ToggleCustom
    <3> QED BY <1>3, <3>1
  <2>4. ASSUME NEW o \in Heap, NEW b \in BOOLEAN, HideDefault(o, b) PROVE InItsList(server'[i])
    <3>1. IdOf(o) # i /\ \E e : Tell(IdOf(o), e)
      BY <2>4 DEF HideDefault
    <3> QED BY <1>3, <3>1
  <2> QED BY <1>6, <1>7, <1>8, <1>9, <1>10, <2>1, <2>2, <2>3, <2>4
            DEF User, Watch, StopTimer, UpdateNothing, UpdateReturns, Heap
<1> QED BY <1>4, <1>10 DEF Next

LEMMA UnhiddenNext ==
    ASSUME TypeOK, MadeInv, TaskInv, NothingHidden, Next, NEW i \in Id \ moved', Unhidden(i)
    PROVE  Unhidden(i)'
<1>1. InItsList(server[i]) /\ InItsList(server'[i])
  BY ServerUnhidden DEF Unhidden
<1>2. ASSUME NEW j \in Task, Busy(j)' PROVE InItsList(tasks'[j].answer[i])
  <2>1. ASSUME Alike(tasks'[j], tasks[j]) PROVE InItsList(tasks'[j].answer[i])
    BY <1>2, <2>1 DEF Alike, Busy, Unhidden
  <2>2. CASE Refresh \/ Handlers \/ User
    BY <1>2, <2>1, <2>2, Onwards DEF Onward, Rests
  <2>3. ASSUME NEW k \in Task, Own(k) PROVE InItsList(tasks'[j].answer[i])
    <3>1. CASE k # j
      BY <2>1, <2>3, <3>1, OwnSteps
    <3>2. CASE k = j /\ Answered(k)
      BY <1>1, <3>2, Answering DEF TypeOK
    <3>3. CASE k = j /\ ~Answered(k)
      <4>1. Busy(j) /\ tasks'[j].answer = tasks[j].answer
        BY <2>3, <3>3, OwnSteps DEF Busy
      <4> QED BY <4>1 DEF Unhidden
    <3> QED BY <3>1, <3>2, <3>3
  <2> QED BY <2>2, <2>3 DEF Next, Download, Own
<1> QED BY <1>1, <1>2 DEF Unhidden

-----------------------------------------------------------------------------
(* Steps of the user and of the handlers.                                   *)

LEMMA PlaceStays ==
    ASSUME Onward, NEW i \in Id, Apart(i), Told(i), PlaceInv(i),
           \A o \in Mine(i) : Leaving(o) => Leaving(o)'
    PROVE  PlaceInv(i)'
<1>1. Mine(i)' = Mine(i)
  BY DEF Apart
<1>2. OnServer(i)'
  BY <1>1 DEF PlaceInv, OnServer, Told
<1>3. InOneList(i)'
  <2>1. \A o \in Mine(i), l \in Status :
            /\ user_lists'[l][i] = user_lists[l][i] /\ StatusOf(o)' = StatusOf(o)
            /\ Joined(o, l)' <=> Joined(o, l)
    BY Constants DEF Apart, Old
  <2> QED BY <1>1, <2>1 DEF PlaceInv, InOneList
<1>4. Fetched(i)'
  <2>1. SUFFICES ASSUME NEW k \in Task, Busy(k)'
                 PROVE  /\ Mine(i) = {} => server'[i] = tasks'[k].answer[i]
                        /\ \A o \in Mine(i) :
                              /\ tasks'[k].answer[i] # Absent
                              /\ tasks'[k].answer[i].status = StatusOf(o)
                              /\ tasks'[k].list \in Status /\ tasks'[k].copy[i] # 0
                                    => tasks'[k].list = StatusOf(o)
    BY <1>1 DEF Fetched, Apart
  <2>2. Busy(k) /\ Alike(tasks'[k], tasks[k])
    BY <2>1 DEF Onward, Rests, Alike, Busy
  <2> QED BY <2>2 DEF PlaceInv, Fetched, Alike, Told
<1> QED BY <1>2, <1>3, <1>4 DEF PlaceInv

LEMMA LeavingStays ==
    ASSUME TypeOK, MadeInv, User, NEW o, Leaving(o)
    PROVE  Leaving(o)'
<1> USE DEF viewVars
<1>1. CASE UNCHANGED waiting
  BY <1>1 DEF Leaving
<1>2. ASSUME NEW op, NEW p, NEW from, NEW mover, Wait(op, p, from, mover)
      PROVE  Leaving(o)'
  BY <1>2, LeavingWaits
<1>3. ASSUME NEW p \in panels, NEW s \in Status, Accept(p, s) PROVE Leaving(o)'
  <2>1. UNCHANGED waiting \/ Wait("accept", p.obj, p.old, p.mover)
    BY <1>3 DEF Accept
  <2> QED BY <1>1, <1>2, <2>1
<1>4. ASSUME NEW p, NEW s \in Status, UpdateStatus(p, s) PROVE Leaving(o)'
  BY <1>2, <1>4 DEF UpdateStatus
<1>5. ASSUME NEW p, DeleteEntry(p) PROVE Leaving(o)'
  BY <1>2, <1>5 DEF DeleteEntry
<1>6. ASSUME \/ \E p \in DOMAIN objects, last \in BOOLEAN : UpdateEpisode(p, last)
             \/ \E p \in DOMAIN objects, c \in Custom : ToggleCustom(p, c)
             \/ \E p \in DOMAIN objects, b \in BOOLEAN : HideDefault(p, b)
             \/ \E i \in Id, e \in Start : RemoteChange(i, e)
             \/ \E p \in DOMAIN objects : OpenPanel(p) \/ OpenCard(p) \/ PaintCard(p)
             \/ \E i \in Id : OpenNew(i) \/ Browse(i) \/ BadLookup(i)
      PROVE  UNCHANGED waiting
  BY <1>6 DEF UpdateEpisode, ToggleCustom, HideDefault, RemoteChange, OpenPanel,
              OpenCard, PaintCard, OpenNew, Browse, BadLookup
<1> QED BY <1>1, <1>3, <1>4, <1>5, <1>6 DEF User, Watch, StopTimer, UpdateNothing, UpdateReturns

\* A handler that goes on deletes no other object of an unmoved entry.
LEMMA LeavingRemains ==
    ASSUME TypeOK, Refresh \/ Handlers, NEW i, NEW o \in Mine(i), Leaving(o),
           ~(remove /\ Top.obj \notin dead /\ IdOf(Top.obj) = i)
    PROVE  Leaving(o)'
<1>1. CASE Refresh
  BY <1>1 DEF Refresh, StartRefresh, Finished, Leaving
<1>2. CASE StatusReturns
  BY <1>2, LeavingResumes DEF StatusReturns
<1>3. CASE AcceptReturns
  BY <1>3, LeavingResumes DEF AcceptReturns
<1>4. CASE remove
  <2>1. Resume("remove") /\ o # Top.obj
    BY <1>4 DEF remove, Mine
  <2> QED BY <2>1, LeavingResumes
<1> QED BY <1>1, <1>2, <1>3, <1>4 DEF Handlers

LEMMA NoPlace ==
    ASSUME NEW i \in Id, Mine(i)' = {}, Idle'
    PROVE  PlaceInv(i)'
BY DEF PlaceInv, OnServer, InOneList, Fetched, Idle

LEMMA MovedAway ==
    ASSUME HeapOK, ListsOK, NEW old \in Status, NEW o \in Heap, StatusOf(o) # old
    PROVE  Moved(old, o)[old][IdOf(o)] = 0
<1> DEFINE lists == removeFromList(old, IdOf(o))
<1>1. IdOf(o) \in Id /\ old \in List /\ old # NoStatus
  BY Existing, Constants, UserListsAssumption
<1>2. lists \in [List -> Slots] /\ lists[old][IdOf(o)] = 0
  BY <1>1, Removing
<1> HIDE DEF lists
<1>3. Moved(old, o) = addToList(lists, StatusOf(o), o)
  BY <1>1 DEF Moved, lists
<1> QED BY <1>1, <1>2, <1>3 DEF addToList, Slots

LEMMA AcceptReturnsPlace ==
    ASSUME TypeOK, MadeInv, Onward, AcceptReturns, NEW i \in Id \ moved',
           NEW o, o \notin dead, NEW from, Top.mover, Top.obj = o, Top.old = from, IdOf(o) = i,
           Single(i), PlaceInv(i)
    PROVE  PlaceInv(i)'
<1> USE DEF heapVars, listVars
<1> DEFINE moves == StatusOf(o) # from
<1>1. /\ Resume("accept") /\ UNCHANGED <<objects, dead, server>> /\ ~SomeRunning
      /\ user_lists' = IF moves THEN Moved(from, o) ELSE user_lists
      /\ anime_list' = IF moves THEN anime_list \cup {o} ELSE anime_list
  BY DEF AcceptReturns, Moved
<1>2. HeapOK /\ ListsOK /\ o \in Heap /\ from \in Old
  BY <1>1, Resuming DEF TypeOK, HandlerRecord, Old
<1>3. \A p, old : Joined(p, old) <=> Joined(p, old)' \/ (o = p /\ from = old)
  BY <1>1, JoinedResumes
<1>4. o \in Mine(i) /\ \A p \in Mine(i) : p = o
  BY <1>2, <1>3 DEF Mine, Single
<1>5. \A p \in Mine(i)' : p = o
  <2>1. ASSUME NEW p \in Mine(i)', p # o PROVE p \in Mine(i)
    BY <1>1, <1>3, <2>1 DEF Mine, Heap, IdOf
  <2> QED BY <1>4, <2>1
<1>6. OnServer(i)'
  <2>1. Leaving(o) => Leaving(o)'
    BY <1>1, LeavingResumes
  <2> QED BY <1>1, <1>4, <1>5, <2>1 DEF PlaceInv, OnServer
<1>7. ASSUME NEW l \in Status, user_lists'[l][i] # 0, l # StatusOf(o)
      PROVE  Joined(o, l)'
  <2>1. l # from /\ user_lists[l][i] # 0
    <3>1. CASE moves
      <4>1. l # from
        BY <1>1, <1>2, <1>7, <3>1, MovedAway
      <4>2. user_lists'[l][i] = user_lists[l][i]
        BY <1>1, <1>2, <1>7, <3>1, <4>1, MovedHere, Constants
      <4> QED BY <1>7, <4>1, <4>2
    <3>2. CASE ~moves
      BY <1>1, <1>7, <3>2
    <3> QED BY <3>1, <3>2
  <2>2. Joined(o, l)
    BY <1>4, <1>7, <2>1 DEF PlaceInv, InOneList
  <2> QED BY <1>3, <2>1, <2>2
<1>8. InOneList(i)'
  <2>1. StatusOf(o)' = StatusOf(o)
    BY <1>1 DEF StatusOf
  <2> QED BY <1>5, <1>7, <2>1 DEF InOneList
<1>9. Fetched(i)'
  BY <1>1, Calming DEF Fetched, Idle
<1> QED BY <1>6, <1>8, <1>9 DEF PlaceInv

LEMMA AcceptPlace ==
    ASSUME TypeOK, MadeInv, ListedInv, HoldersInv, Onward, Grows, ~crossed,
           NEW i \in Id \ moved', NEW p \in panels, NEW s \in Status, Accept(p, s),
           NEW o, o \notin dead, p.obj = o, IdOf(o) = i,
           Single(i), EntryInv(i), PlaceInv(i)
    PROVE  PlaceInv(i)'
<1> USE DEF heapVars, listVars
<1>1. /\ objects' = [objects EXCEPT ![o].status = s]
      /\ Wait("accept", o, p.old, p.mover)
      /\ UNCHANGED <<dead, anime_list, user_lists>>
  BY DEF Accept
<1>2. /\ ~SomeRunning
      /\ server'[i].status = s
      /\ p.old = StatusOf(o)
      /\ p.new_entry => server[i] = Absent /\ \A q \in anime_list : IdOf(q) # i
      /\ p.mover \/ s = StatusOf(o)
  BY DEF Accept
<1>3. /\ HeapOK /\ o \in Heap /\ p.mover \in BOOLEAN
      /\ s # NoStatus /\ Absent.status = NoStatus
  BY UserListsAssumption DEF TypeOK, MadeInv, ViewOK, PanelRecord, Absent
<1>4. \A q, old : Joined(q, old)' <=> Joined(q, old) \/ (p.mover /\ q = o /\ old = p.old)
  BY <1>1, JoinedWaits
<1>5. /\ StatusOf(o)' = s /\ IdOf(o)' = i
      /\ \A q \in Heap : IdOf(q)' = IdOf(q)
      /\ DOMAIN objects' = DOMAIN objects
  <2>1. objects[o] \in AnimeRecord
    BY <1>3, Existing
  <2> QED BY <1>1, <1>3, <2>1 DEF StatusOf, IdOf, Grows, Heap, AnimeRecord
<1>6. \A q \in Mine(i)' : q \in Mine(i) \/ (q = o /\ p.mover)
  BY <1>1, <1>4, <1>5 DEF Mine, Heap
<1>7. OnServer(i)'
  BY <1>2, <1>3 DEF OnServer
<1>8. Fetched(i)'
  BY <1>2, Calming DEF Fetched, Idle
<1>9. InOneList(i)'
  <2>1. CASE p.new_entry
    <3>1. Mine(i) = {}
      BY <1>2, <2>1 DEF EntryInv, Saved, Mine
    <3>2. \A l \in Status : user_lists[l][i] = 0
      BY <3>1, OnListIsMine, Constants
    <3> QED BY <1>1, <3>2 DEF InOneList
  <2>2. CASE ~p.new_entry
    <3>1. o \in Mine(i) /\ \A q \in Mine(i) : q = o
      BY <1>3, <2>2 DEF HoldersInv, Known, Mine, Single
    <3>2. \A q \in Mine(i)' : q = o
      BY <1>6, <3>1
    <3>3. ASSUME NEW l \in Status, user_lists[l][i] # 0 PROVE l = s \/ Joined(o, l)'
      <4>1. l = StatusOf(o) \/ Joined(o, l)
        BY <3>1, <3>3 DEF PlaceInv, InOneList
      <4> QED BY <1>2, <1>3, <1>4, <4>1
    <3> QED BY <1>1, <1>5, <3>2, <3>3 DEF InOneList
  <2> QED BY <2>1, <2>2
<1> QED BY <1>7, <1>8, <1>9 DEF PlaceInv

-----------------------------------------------------------------------------
(* Steps of the downloads.                                                  *)

LEMMA AnsweredPlace ==
    ASSUME TypeOK, MadeInv, TaskInv, MadeInv',
           NEW k \in Task, Answered(k), ~overlapped', ~crossed',
           NEW i \in Id \ moved', EntryInv(i), PlaceInv(i)
    PROVE  PlaceInv(i)'
<1> USE DEF heapVars
<1>1. /\ tasks'[k].answer = server /\ tasks'[k].list = NoList
      /\ tasks[k].state = "asking"
      /\ \A j \in Task \ {k} : Alike(tasks'[j], tasks[j])
  BY Answering, Steps DEF TypeOK, TaskInv
<1>2. \A j \in Task \ {k} : ~Busy(j)'
  <2>1. \A j \in Task \ {k} : ~Running(j)
    BY DEF Answered
  <2> QED BY <1>1, <2>1 DEF Running, Busy, Alike
<1>3. /\ UNCHANGED <<objects, user_lists, waiting, server, dead, anime_list>>
      /\ \A n \in DOMAIN waiting : IdOf(waiting[n].obj) # i
  BY DEF Answered, MadeInv
<1>4. Mine(i)' = Mine(i)
  BY <1>3 DEF Mine, Heap, IdOf, Joined
<1>5. ASSUME NEW o \in Mine(i)
      PROVE  /\ server[i] # Absent /\ server[i].status = StatusOf(o)
             /\ \A l \in Status : user_lists[l][i] # 0 => l = StatusOf(o)
  <2>1. ~Leaving(o) /\ \A l : ~Joined(o, l)
    BY <1>3 DEF Mine, Leaving, Joined
  <2>2. server[i] # Absent
    BY <2>1 DEF PlaceInv, OnServer
  <2>3. server[i].status = StatusOf(o)
    BY <2>2 DEF EntryInv, Agrees
  <2> QED BY <2>1, <2>2, <2>3 DEF PlaceInv, InOneList
<1>6. \A o : StatusOf(o)' = StatusOf(o)
  BY <1>3 DEF StatusOf
<1>7. OnServer(i)' /\ InOneList(i)'
  BY <1>3, <1>4, <1>5, <1>6 DEF OnServer, InOneList
<1>8. Fetched(i)'
  BY <1>1, <1>2, <1>3, <1>4, <1>5, <1>6, Constants DEF Fetched
<1> QED BY <1>7, <1>8 DEF PlaceInv

\* What is left to show of the other steps of a download.
LEMMA StillInPlace ==
    ASSUME TypeOK, NEW k \in Task, Busy(k), \A j \in Task \ {k} : ~Busy(j)',
           tasks'[k].answer = tasks[k].answer, UNCHANGED <<server, waiting>>,
           NEW i \in Id, SameMine(i), Mine(i)' = Mine(i), PlaceInv(i),
           \A o \in Mine(i), l \in Status : user_lists'[l][i] # 0 => l = StatusOf(o),
           Busy(k)' => \A o \in Mine(i) :
               tasks'[k].list \in Status /\ tasks'[k].copy[i] # 0 => tasks'[k].list = StatusOf(o)
    PROVE  PlaceInv(i)'
<1>1. OnServer(i)'
  BY DEF PlaceInv, OnServer, Leaving
<1>2. InOneList(i)'
  BY DEF SameMine, InOneList
<1>3. Fetched(i)'
  BY DEF SameMine, PlaceInv, Fetched
<1> QED BY <1>1, <1>2, <1>3 DEF PlaceInv

LEMMA PagePlace ==
    ASSUME TypeOK, MadeInv, TaskInv, OneBusy, Grows, MadeInv', ~overlapped,
           NEW k \in Task, EndList(k) \/ EndDownload(k) \/ \E l \in List : BeginList(k, l),
           NEW i \in Id, EntryInv(i), PlaceInv(i)
    PROVE  PlaceInv(i)'
<1> USE DEF heapVars, listVars
<1>1. TasksOK /\ ListsOK /\ Own(k) /\ ~Answered(k) /\ UNCHANGED <<objects, dead, anime_list>>
  BY DEF TypeOK, Own, Answered, EndList, EndDownload, BeginList, TaskInv
<1>2. /\ Busy(k) /\ (\A j \in Task \ {k} : ~Busy(j)')
      /\ UNCHANGED <<server, waiting>> /\ tasks'[k].answer = tasks[k].answer
      /\ Mine(i) = {o \in anime_list \ dead : IdOf(o) = i}
      /\ Mine(i)' = {o \in anime_list' \ dead' : IdOf(o)' = i}
      /\ \A o \in Mine(i)', old \in Old : ~Joined(o, old)'
  BY <1>1, CopyingAlone
<1>3. Mine(i)' = Mine(i) /\ SameMine(i)
  BY <1>1, <1>2 DEF SameMine, IdOf, StatusOf
<1>4. ASSUME NEW o \in Mine(i), NEW l \in Status, user_lists[l][i] # 0 PROVE l = StatusOf(o)
  <2>1. ~Joined(o, l)
    BY <1>2, <1>3, JoinedStays DEF Old
  <2> QED BY <1>4, <2>1 DEF PlaceInv, InOneList
<1>5. ASSUME NEW o \in Mine(i), tasks[k].list \in Status, tasks[k].copy[i] # 0
      PROVE  tasks[k].list = StatusOf(o)
  BY <1>2, <1>5 DEF PlaceInv, Fetched
<1>6. CASE EndList(k)
  <2>1. /\ tasks'[k].list = NoList
        /\ user_lists' = IF tasks[k].list \in Custom THEN user_lists
                         ELSE [user_lists EXCEPT ![tasks[k].list] = tasks[k].copy]
    BY <1>1, <1>6, EndingNotes DEF EndList
  <2>2. \A o \in Mine(i), l \in Status : user_lists'[l][i] # 0 => l = StatusOf(o)
    BY <1>1, <1>4, <1>5, <2>1, Constants DEF ListsOK
  <2> QED BY <1>2, <1>3, <2>1, <2>2, Constants, StillInPlace
<1>7. CASE EndDownload(k)
  <2>1. user_lists' = [l \in List |-> IF l \in Custom THEN tasks[k].custom[l] ELSE user_lists[l]]
    BY <1>7 DEF EndDownload
  <2>2. ~Busy(k)'
    BY <1>1, <1>7, ReturningNotes DEF Busy
  <2>3. \A o \in Mine(i), l \in Status : user_lists'[l][i] # 0 => l = StatusOf(o)
    BY <1>4, <2>1, Constants
  <2> QED BY <1>2, <1>3, <2>2, <2>3, StillInPlace
<1>8. ASSUME NEW l \in List, BeginList(k, l) PROVE PlaceInv(i)'
  <2>3. user_lists' = user_lists
    BY <1>8 DEF BeginList
  <2>4. tasks'[k].list = l /\ tasks'[k].copy = IF k = 1 THEN Empty ELSE user_lists[l]
    BY <1>1, <1>8, Steps, BeginningNotes
  <2>1. /\ tasks'[k].list = l /\ tasks'[k].copy = IF k = 1 THEN Empty ELSE user_lists[l]
        /\ user_lists' = user_lists
    BY <2>3, <2>4
  <2>2. \A o \in Mine(i) : l \in Status /\ tasks'[k].copy[i] # 0 => l = StatusOf(o)
    BY <1>4, <2>1 DEF Empty
  <2> QED BY <1>2, <1>3, <1>4, <2>1, <2>2, StillInPlace
<1> QED BY <1>6, <1>7, <1>8

\* Nothing happens to the objects of the entry.
LEMMA CopyStill ==
    ASSUME TypeOK, NEW k \in Task, Busy(k), \A j \in Task \ {k} : ~Busy(j)',
           UNCHANGED <<user_lists, server, waiting>>,
           NEW j \in Id, NEW key \in Id, NEW o, Copied(k, j, key, o),
           NEW i \in Id, key = i => tasks[k].copy[i] # 0 \/ tasks[k].list \in Custom,
           SameMine(i), Mine(i)' = Mine(i), PlaceInv(i),
           \A p \in Mine(i)', old \in Old : ~Joined(p, old)'
    PROVE  PlaceInv(i)'
<1>1. /\ tasks'[k].answer = tasks[k].answer /\ tasks'[k].list = tasks[k].list
      /\ \A m \in Id : m # key => tasks'[k].copy[m] = tasks[k].copy[m]
  BY CopyingNotes DEF TypeOK
<1>2. \A p \in Mine(i), l \in Status : user_lists'[l][i] # 0 => l = StatusOf(p)
  <2>1. \A p \in Mine(i), l \in Status : ~Joined(p, l)
    BY JoinedStays DEF Old
  <2> QED BY <2>1 DEF PlaceInv, InOneList
<1>3. \A p \in Mine(i) :
          tasks'[k].list \in Status /\ tasks'[k].copy[i] # 0 => tasks'[k].list = StatusOf(p)
  BY <1>1, Constants DEF PlaceInv, Fetched
<1> QED BY <1>1, <1>2, <1>3, StillInPlace

\* A new object is in the list of its status, which is the one that is copied.
LEMMA MadePlace ==
    ASSUME TypeOK, MadeInv, ListedInv, WorldInv, OrderInv, ~crossed,
           NEW k \in Task, Busy(k), \A j \in Task \ {k} : ~Busy(j)',
           UNCHANGED <<user_lists, server, waiting>>,
           NEW i \in Id, i \in tasks[k].ids, tasks[k].answer[i].status \in Status,
           NEW o, Copied(k, i, i, o), Mine(i) = {}, PlaceInv(i),
           \A p \in Mine(i)' : p = o, StatusOf(o)' = tasks[k].answer[i].status
    PROVE  PlaceInv(i)'
<1>1. tasks'[k].answer = tasks[k].answer /\ tasks'[k].list = tasks[k].list
  BY CopyingNotes DEF TypeOK
<1>2. server[i] = tasks[k].answer[i] /\ server[i] # Absent
  BY UserListsAssumption DEF PlaceInv, Fetched, Absent
<1>3. \A l \in Status : user_lists[l][i] = 0
  BY OnListIsMine, Constants
<1>4. tasks[k].list \in Status => tasks[k].list = tasks[k].answer[i].status
  BY DEF OrderInv, WorldInv, InOwnList
<1>5. OnServer(i)' /\ InOneList(i)'
  BY <1>2, <1>3 DEF OnServer, InOneList
<1>6. Fetched(i)'
  BY <1>1, <1>2, <1>4 DEF Fetched
<1> QED BY <1>5, <1>6 DEF PlaceInv

LEMMA CopyPlace ==
    ASSUME TypeOK, MadeInv, TaskInv, ListedInv, WorldInv, OrderInv, OneBusy, Grows, MadeInv',
           NEW k \in Task, NEW j \in Id, CopyEntry(k, j), ~overlapped, ~crossed, ~crossed',
           NEW i \in Id \ moved', Single(i), EntryInv(i), PlaceInv(i)
    PROVE  PlaceInv(i)'
<1> DEFINE t == tasks[k]
<1>1. /\ Own(k) /\ ~Answered(k) /\ j \in t.ids /\ t.state = "copying"
      /\ UNCHANGED user_lists
  BY DEF CopyEntry, Own, Answered
<1>2. t.answer[j].status \in Status /\ t.list \in List /\ HeapOK
  BY <1>1 DEF TaskInv, TypeOK, TasksOK, TaskRecord
<1>3. /\ Busy(k) /\ (\A m \in Task \ {k} : ~Busy(m)')
      /\ UNCHANGED <<server, waiting>>
      /\ Mine(i) = {p \in anime_list \ dead : IdOf(p) = i}
      /\ Mine(i)' = {p \in anime_list' \ dead' : IdOf(p)' = i}
      /\ \A p \in Mine(i)', old \in Old : ~Joined(p, old)'
  BY <1>1, CopyingAlone
<1>4. ASSUME NEW o, o = t.copy[j], o # 0,
             objects' = [objects EXCEPT ![o].status = t.answer[j].status],
             Copied(k, j, j, o),
             anime_list' = anime_list \cup {o}, dead' = dead
      PROVE  PlaceInv(i)'
  <2>1. o \in Mine(j)
    BY <1>4, OnListIsMine
  <2>2. /\ o \in Heap /\ IdOf(o) = j /\ o \notin dead
        /\ i = j => o \in anime_list /\ StatusOf(o) = t.answer[j].status
    BY <1>3, <2>1 DEF Mine, PlaceInv, Fetched
  <2>3. /\ \A p \in Heap : IdOf(p)' = IdOf(p)
        /\ \A p \in Heap : IdOf(p) = i => StatusOf(p)' = StatusOf(p)
    <3>1. objects[o] \in AnimeRecord
      BY <1>2, <2>2, Existing
    <3> QED BY <1>4, <2>2, <3>1 DEF Heap, AnimeRecord, IdOf, StatusOf
  <2>4. Mine(i)' = Mine(i) /\ SameMine(i)
    <3>1. anime_list \subseteq Heap
      BY DEF MadeInv
    <3> QED BY <1>3, <1>4, <2>2, <2>3, <3>1 DEF SameMine
  <2> QED BY <1>1, <1>3, <1>4, <2>4, CopyStill
<1>5. ASSUME NEW o, o = made,
             \/ k # 1 /\ t.copy[j] = 0
             \/ k = 1 /\ t.list \in Status
             \/ k = 1 /\ t.list \in Custom /\ \A p \in anime_list : IdOf(p) # j,
             New(j, t.answer[j].status), Copied(k, j, j, o),
             anime_list' = anime_list \cup {o}, dead' = dead
      PROVE  PlaceInv(i)'
  <2>1. /\ o \notin Heap
        /\ objects'[o] = [id |-> j, status |-> t.answer[j].status]
        /\ \A p \in Heap : objects'[p] = objects[p]
    BY <1>2, <1>5, MakingAppends DEF New
  <2>2. /\ IdOf(o)' = j /\ StatusOf(o)' = t.answer[j].status
        /\ \A p \in Heap : IdOf(p)' = IdOf(p) /\ StatusOf(p)' = StatusOf(p)
    BY <2>1 DEF IdOf, StatusOf
  <2>3. anime_list \subseteq Heap
    BY DEF MadeInv
  <2>4. CASE i # j
    <3>1. Mine(i)' = Mine(i) /\ SameMine(i)
      BY <1>3, <1>5, <2>2, <2>3, <2>4 DEF SameMine
    <3> QED BY <1>1, <1>3, <1>5, <2>4, <3>1, CopyStill
  <2>5. CASE i = j
    <3>1. Mine(i) = {}
      <4>1. CASE k # 1 \/ t.list \in Status
        <5>1. ToCopy(k, t.list, i)
          BY <1>1, <2>5 DEF ToCopy, OrderInv
        <5>2. Makes(k, t.list, i)
          BY <1>5, <2>5, <4>1, <5>1 DEF Makes, Slot
        <5> QED BY <1>2, <1>3, <5>2 DEF EntryInv, Fits, MakesOne
      <4>2. CASE \A p \in anime_list : IdOf(p) # j
        BY <1>3, <2>5, <4>2
      <4> QED BY <1>5, <4>1, <4>2
    <3>2. \A p \in Mine(i)' : p = o
      BY <1>3, <1>5, <2>2, <2>3, <3>1
    <3> QED BY <1>1, <1>2, <1>3, <1>5, <2>2, <2>5, <3>1, <3>2, MadePlace
  <2> QED BY <2>4, <2>5
<1>6. ASSUME NEW o \in Heap, k = 1, t.list \in Custom, Copied(k, j, IdOf(o), o),
             UNCHANGED <<objects, anime_list>>, dead' = dead
      PROVE  PlaceInv(i)'
  <2>1. Mine(i)' = Mine(i) /\ SameMine(i)
    BY <1>3, <1>6 DEF SameMine, IdOf, StatusOf
  <2>2. IdOf(o) \in Id
    BY <1>2, Existing
  <2> QED BY <1>1, <1>3, <1>6, <2>1, <2>2, CopyStill
<1> QED BY <1>4, <1>5, <1>6, CopyWays

-----------------------------------------------------------------------------
(* Every step keeps the entries in their lists.                             *)

LEMMA PlacesInit == NothingHidden /\ Init => PlacesInv
<1>1. SUFFICES ASSUME NothingHidden, Init PROVE PlacesInv
  OBVIOUS
<1>2. /\ waiting = <<>> /\ DOMAIN waiting = {} /\ anime_list = {}
      /\ server \in [Id -> Start]
      /\ \A k \in Task : tasks[k].state \in {"none", "asking"}
  BY <1>1 DEF Init, NoTask
<1>3. \A k \in Task : ~Busy(k)
  BY <1>2 DEF Busy
<1>4. \A i \in Id : Mine(i) = {}
  BY <1>2 DEF Mine, Joined
<1>5. \A i \in Id : Unhidden(i)
  BY <1>1, <1>2, <1>3 DEF Unhidden, NothingHidden
<1> QED BY <1>3, <1>4, <1>5 DEF PlacesInv, PlaceInv, OnServer, InOneList, Fetched

LEMMA PlacesNext ==
    ASSUME EveryInv, EveryInv', NothingHidden, PlacesInv, Next
    PROVE  PlacesInv'
<1>1. SUFFICES ASSUME ~crossed', ~overlapped', NEW i \in Id \ moved'
               PROVE  Unhidden(i)' /\ PlaceInv(i)'
  BY DEF PlacesInv
<1>2. /\ TypeOK /\ MadeInv /\ TaskInv /\ ListedInv /\ WorldInv /\ HoldersInv /\ OrderInv
      /\ OneBusy /\ MadeInv' /\ Grows
  BY HeapNext DEF EveryInv, Inv, SidesInv
<1>3. ~crossed /\ ~overlapped /\ i \in Id \ moved
  BY <1>1, <1>2, CausesStay, OverlapStays, MovedGrows DEF TypeOK, WorldOK
<1>4. Single(i) /\ EntryInv(i) /\ Unhidden(i) /\ PlaceInv(i)
  BY <1>3 DEF PlacesInv, EveryInv, EntriesInv
<1>5. Unhidden(i)'
  BY <1>1, <1>2, <1>4, UnhiddenNext
<1>6. ASSUME User PROVE PlaceInv(i)'
  <2>1. Onward
    BY <1>2, <1>6, Onwards
  <2>2. CASE Apart(i) /\ Told(i)
    BY <1>2, <1>4, <1>6, <2>1, <2>2, PlaceStays, LeavingStays
  <2>3. CASE Apart(i) /\ Mine(i) = {} /\ ~SomeRunning
    <3>1. Mine(i)' = {} /\ Idle'
      BY <2>1, <2>3, Calming DEF Apart
    <3> QED BY <3>1, NoPlace
  <2>4. ASSUME NEW p \in panels, NEW s \in Status, Accept(p, s), p.obj \notin dead, IdOf(p.obj) = i
        PROVE  PlaceInv(i)'
    BY <1>1, <1>2, <1>3, <1>4, <2>1, <2>4, AcceptPlace
  <2> QED BY <1>1, <1>2, <1>4, <1>6, <2>2, <2>3, <2>4, UserAside
<1>7. ASSUME Refresh \/ Handlers PROVE PlaceInv(i)'
  <2>1. Onward
    BY <1>2, <1>7, Onwards
  <2>2. CASE remove /\ Top.obj \notin dead /\ IdOf(Top.obj) = i
    BY <1>1, <1>2, <1>4, <2>1, <2>2, RemoveLeaves, NoPlace
  <2>3. CASE AcceptReturns /\ Top.mover /\ Top.obj \notin dead /\ IdOf(Top.obj) = i
    BY <1>1, <1>2, <1>4, <2>1, <2>3, AcceptReturnsPlace
  <2>4. CASE Apart(i) /\ ~(remove /\ Top.obj \notin dead /\ IdOf(Top.obj) = i)
    <3>1. Told(i)
      BY <1>7, ServerAside DEF Told
    <3>2. \A o \in Mine(i) : Leaving(o) => Leaving(o)'
      BY <1>2, <1>7, <2>4, LeavingRemains
    <3> QED BY <1>4, <2>1, <2>4, <3>1, <3>2, PlaceStays
  <2> QED BY <1>1, <1>2, <1>7, <2>2, <2>3, <2>4, HandlersAside
<1>8. ASSUME NEW k \in Task, Own(k) PROVE PlaceInv(i)'
  <2>1. CASE Answered(k)
    BY <1>1, <1>2, <1>4, <2>1, AnsweredPlace
  <2>2. CASE EndList(k) \/ EndDownload(k) \/ \E l \in List : BeginList(k, l)
    BY <1>1, <1>2, <1>3, <1>4, <2>2, PagePlace
  <2>3. ASSUME NEW j \in Id, CopyEntry(k, j) PROVE PlaceInv(i)'
    BY <1>1, <1>2, <1>3, <1>4, <2>3, CopyPlace
  <2> QED BY <1>8, <2>1, <2>2, <2>3 DEF Own
<1> QED BY <1>5, <1>6, <1>7, <1>8 DEF Next, Download, Own

LEMMA PlacesStay == EveryInv /\ EveryInv' /\ NothingHidden /\ PlacesInv /\ [Next]_vars => PlacesInv'
<1>1. SUFFICES ASSUME EveryInv, EveryInv', NothingHidden, PlacesInv, UNCHANGED vars
               PROVE  PlacesInv'
  BY PlacesNext
<1> USE DEF vars, heapVars, listVars, viewVars, ghostVars
<1>2. ASSUME NEW i \in Id, Unhidden(i), PlaceInv(i) PROVE Unhidden(i)' /\ PlaceInv(i)'
  BY <1>1, <1>2
     DEF Unhidden, PlaceInv, OnServer, InOneList, Fetched, Mine, Joined, Leaving, Heap, IdOf,
         StatusOf, Busy
<1> QED BY <1>1, <1>2 DEF PlacesInv

(* An entry that changed lists in no way a refresh does not match is in the *)
(* list of its status and in no list of another status, whenever nothing is *)
(* under way.  The site must hide none of them from the list of its status; *)
(* the user's "Hide Default" is one of the ways a refresh does not match.   *)
THEOREM UnmovedInItsList == NothingHidden => (Spec => []UnmovedEntryIsInItsList)
<1>1. SUFFICES ASSUME NothingHidden PROVE Spec => []UnmovedEntryIsInItsList
  OBVIOUS
<1>2. Init => PlacesInv
  BY <1>1, PlacesInit
<1>3. EveryInv /\ EveryInv' /\ PlacesInv /\ [Next]_vars => PlacesInv'
  BY <1>1, PlacesStay
<1>4. EveryInv /\ PlacesInv => UnmovedEntryIsInItsList
  <2>1. SUFFICES ASSUME EveryInv, PlacesInv, ~crossed, ~overlapped, ~SomeRunning,
                        waiting = <<>>, NEW o \in Live, IdOf(o) \notin moved, NEW l \in Status
                 PROVE  user_lists[l][IdOf(o)] = IF l = StatusOf(o) THEN o ELSE 0
    BY DEF UnmovedEntryIsInItsList
  <2> DEFINE i == IdOf(o)
  <2>2. TypeOK /\ MadeInv /\ ListedInv /\ o \in Heap /\ i \in Id /\ o \in Mine(i)
    BY <2>1, Existing DEF EveryInv, Inv, TypeOK, MadeInv, Live, Mine
  <2>3. Single(i) /\ EntryInv(i) /\ Unhidden(i) /\ PlaceInv(i)
    BY <2>1, <2>2 DEF EveryInv, EntriesInv, PlacesInv
  <2>4. ~Leaving(o) /\ (\A old : ~Joined(o, old)) /\ Idle
    BY <2>1 DEF Leaving, Joined, SomeRunning, Running, Idle, Busy
  <2>5. server[i] # Absent /\ server[i].status = StatusOf(o) /\ StatusOf(o) \in server[i].lists
    BY <2>2, <2>3, <2>4 DEF PlaceInv, OnServer, EntryInv, Agrees, Unhidden, InItsList
  <2>6. user_lists[StatusOf(o)][i] # 0 /\ StatusOf(o) \in List
    <3>1. server[i].lists \subseteq List
      BY <2>2 DEF TypeOK, WorldOK, Entries, Absent
    <3> QED BY <2>2, <2>3, <2>4, <2>5, <3>1 DEF EntryInv, Listed
  <2>7. user_lists[StatusOf(o)][i] = o
    BY <2>1, <2>2, <2>3, <2>6, OnListIsMine DEF Single
  <2>8. l # StatusOf(o) => user_lists[l][i] = 0
    BY <2>2, <2>3, <2>4 DEF PlaceInv, InOneList
  <2> QED BY <2>7, <2>8
<1> QED BY <1>2, <1>3, <1>4, Everything, PTL DEF Spec

=============================================================================
