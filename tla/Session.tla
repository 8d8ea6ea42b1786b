------------------------------ MODULE Session ------------------------------
(***************************************************************************)
(* From start-up to the refreshes that go on: authorization (src/api/      *)
(* api.cpp), the one User, made by whoever asks for it first (src/api/     *)
(* user.cpp), its profile and the names of the custom lists, the downloads *)
(* in pool threads and the countdown to the next (src/gui/userhelper.cpp,  *)
(* userlisthelper.cpp, mainwindow.cpp), and the end of the window.         *)
(*                                                                         *)
(* The constructor of User waits for answers in a local event loop and     *)
(* holds the lock of sharedUser() all the time: the main thread may handle *)
(* events meanwhile, if it is the one that makes the User.                 *)
(*                                                                         *)
(* AniListAPI is not part of the source tree: what it emits and answers is *)
(* taken from its use.  It answers every request, perhaps with nothing.    *)
(* The profile image comes through FileDownloader, which opens an error    *)
(* box when it does not, and ends the wait for it when the box is closed.  *)
(***************************************************************************)
EXTENDS Integers, Sequences

CONSTANTS
    Task,        \* slots for the futures of the pool; bound: so many at once
    Main,        \* the main thread
    Nobody,      \* no thread, no future
    Custom,      \* names of custom lists
    Sites,       \* what the custom lists of the user may be, in this order
    Interval,    \* values of UserRefreshTime
    MaxTime,     \* bound: the largest of them
    MaxEvents,   \* bound: uses of the User before it is made, changes of the
                 \* setting and of the web site, lost answers and closings
    NoList       \* no list was ever stored under a name

Thread == Task \cup {Main}

ASSUME SessionAssumption ==
    /\ Main \notin Task /\ Nobody \notin Thread
    /\ NoList \notin Custom
    /\ Sites \subseteq Seq(Custom)
    /\ \A s \in Sites : \A i, j \in DOMAIN s : s[i] = s[j] => i = j
    /\ MaxTime \in Nat /\ Interval \subseteq 0..MaxTime
    /\ MaxEvents \in Nat

VARIABLES
    auth,              \* how far the authorization is
    pc,                \* where each thread is
    token,             \* the request a thread waits for was sent with access
    mutex,             \* who holds the lock of sharedUser()
    users,             \* how many User objects were made: m_Instance is the last
    profile,           \* display name known or not, custom_lists
    answer,            \* the lists a download got
    user_lists,        \* whose list is stored under each custom name
    hasUser,           \* MainWindow::hasUser
    actionRL,          \* the action "Reload list" is enabled
    userFuture,        \* the future user_future_watcher watches
    listFuture,        \* the one user_list_future_watcher watches
    event_timer,       \* the timer runs
    user_refresh_time, \* the countdown; -1: below zero
    interval,          \* the setting UserRefreshTime
    closing,           \* where the main thread is in elegantClose
    site,              \* the custom lists on the web site
    events,            \* how much of MaxEvents is used
    fault,             \* undefined behaviour: "index" or "registry"
    \* History variables: they guide no step.
    fresh,             \* the last download brought the user's lists
    crossed,           \* the site changed between a profile and its lists
    failed             \* an answer with the profile was empty

userVars == <<mutex, users, profile>>
viewVars == <<hasUser, actionRL, userFuture, listFuture>>
timeVars == <<event_timer, user_refresh_time, interval>>
ghostVars == <<fresh, crossed, failed>>
vars == <<auth, pc, token, userVars, answer, user_lists, viewVars, timeVars,
          closing, site, events, fault, ghostVars>>

Unknown == [named |-> FALSE, lists |-> <<>>]
NoAnswer == [named |-> FALSE, came |-> FALSE, lists |-> <<>>]
Open == [state |-> "no", task |-> Nobody, todo |-> {}, nested |-> FALSE]

\* hasAuthorizationCode(): who has been here before is not asked again.
Init ==
    /\ auth \in {"dialog", "asked"}
    /\ pc = [p \in Thread |-> IF p = Main THEN "free" ELSE "none"]
    /\ token = [p \in Thread |-> FALSE]
    /\ mutex = Nobody /\ users = 0 /\ profile = Unknown
    /\ answer = [t \in Task |-> NoAnswer]
    /\ user_lists = [n \in Custom |-> NoList]
    /\ hasUser = FALSE /\ actionRL = TRUE
    /\ userFuture = Nobody /\ listFuture = Nobody
    /\ event_timer = FALSE
    /\ interval \in Interval /\ user_refresh_time = interval
    /\ closing = Open
    /\ site \in Sites
    /\ events = 0
    /\ fault = "none"
    /\ fresh = FALSE /\ crossed = FALSE /\ failed = FALSE

-----------------------------------------------------------------------------
Ended == {"none", "finished"}
IsRunning(t) == pc[t] \notin Ended
Running == {t \in Task : IsRunning(t)}
Granted == auth = "granted"
Counted ==
    /\ events < MaxEvents
    /\ events' = events + 1

\* Where a thread waits in the constructor of User, or in User::remake().
Image == {"image", "box", "imaged"}
Building == {"building"} \cup Image

\* The main thread handles an event, perhaps in a local event loop.
HandlesEvents ==
    /\ pc[Main] \in {"free"} \cup Building
    /\ closing.state \in {"no", "events"}

\* A future is appended to the registry while elegantClose may go over it.
Registers == fault' \in {"none"} \cup (IF closing.state = "events" THEN {"registry"} ELSE {})

\* The future t is over; the watcher of it will say so.
Finish(t) ==
    pc' = [pc EXCEPT ![t] = IF t \in {userFuture, listFuture} THEN "finished" ELSE "none"]

-----------------------------------------------------------------------------
(* The main thread.                                                         *)

\* The slots of futures that nobody watches or waits for.
Unused == {t \in Task \ closing.todo : pc[t] = "none"}

\* MainWindow::loadUser.  One unused slot is as good as another.
loadUser ==
    IF ~actionRL THEN UNCHANGED <<pc, actionRL, userFuture, fault>>
    ELSE /\ Unused # {}
         /\ LET t == CHOOSE t \in Unused : TRUE
            IN  /\ pc' = [p \in Thread |->
                            IF p = t THEN "queued"
                            ELSE IF p = userFuture /\ pc[p] = "finished" THEN "none"
                            ELSE pc[p]]
                /\ userFuture' = t
         /\ actionRL' = FALSE
         /\ Registers

(* The dialog for the pin returns, and init() after it.                     *)
verifyAPI ==
    /\ auth = "dialog" /\ pc[Main] = "free"
    /\ auth' \in {"asked", "none"}
    /\ UNCHANGED <<pc, token, userVars, answer, user_lists, viewVars, timeVars,
                   closing, site, events, fault, ghostVars>>

accessGranted ==
    /\ auth = "asked" /\ HandlesEvents
    /\ auth' = "granted"
    /\ event_timer' = TRUE
    /\ loadUser
    /\ UNCHANGED <<token, userVars, answer, user_lists, hasUser, listFuture,
                   user_refresh_time, interval, closing, site, events, fresh,
                   crossed, failed>>

accessDenied ==
    /\ auth = "asked" /\ HandlesEvents
    /\ auth' = "denied"
    /\ UNCHANGED <<pc, token, userVars, answer, user_lists, viewVars, timeVars,
                   closing, site, events, fault, ghostVars>>

(* The action "Reload list", which needs no access.                         *)
actionReload ==
    /\ actionRL /\ auth # "dialog" /\ HandlesEvents
    /\ loadUser
    /\ UNCHANGED <<auth, token, userVars, answer, user_lists, hasUser, listFuture,
                   timeVars, closing, site, events, fresh, crossed, failed>>

eventTick ==
    /\ event_timer /\ HandlesEvents
    /\ LET now == IF user_refresh_time = 0 THEN interval ELSE user_refresh_time
       IN  user_refresh_time' = IF now >= 0 THEN now - 1 ELSE now
    /\ IF user_refresh_time = 0 THEN loadUser
       ELSE UNCHANGED <<pc, actionRL, userFuture, fault>>
    /\ UNCHANGED <<auth, token, userVars, answer, user_lists, hasUser, listFuture,
                   event_timer, interval, closing, site, events, fresh, crossed,
                   failed>>

(* The settings are accepted with another UserRefreshTime.                  *)
setInterval ==
    /\ HandlesEvents /\ auth # "dialog"
    /\ Counted
    /\ interval' \in Interval \ {interval}
    /\ UNCHANGED <<auth, pc, token, userVars, answer, user_lists, viewVars,
                   event_timer, user_refresh_time, closing, site, fault, ghostVars>>

(* sharedUser() on the main thread before there is a User: a video is       *)
(* recognized, the settings or the search are opened, the profile is looked *)
(* at.  In its own constructor it waits for itself.                         *)
useUser ==
    /\ HandlesEvents
    /\ users = 0
    /\ Counted
    /\ pc' = [pc EXCEPT ![Main] = IF mutex = Main THEN "stuck" ELSE "locking"]
    /\ UNCHANGED <<auth, token, userVars, answer, user_lists, viewVars, timeVars,
                   closing, site, fault, ghostVars>>

\* Slip: the action is left disabled after a refresh.
userLoadedDisabled ==
    /\ HandlesEvents
    /\ userFuture # Nobody /\ pc[userFuture] = "finished"
    /\ hasUser' = TRUE
    /\ userFuture' = Nobody
    /\ IF hasUser
       THEN /\ pc' = [pc EXCEPT ![userFuture] = "none"]
            /\ UNCHANGED <<listFuture, fault>>
       ELSE /\ pc' = [pc EXCEPT ![userFuture] = "ask"]
            /\ listFuture' = userFuture
            /\ Registers
    /\ UNCHANGED <<auth, token, userVars, answer, user_lists, actionRL, timeVars,
                   closing, site, events, ghostVars>>

\* The first download follows, of whatever name the profile has.
userLoaded ==
    /\ HandlesEvents
    /\ userFuture # Nobody /\ pc[userFuture] = "finished"
    /\ hasUser' = TRUE
    /\ userFuture' = Nobody
    /\ IF hasUser
       THEN /\ pc' = [pc EXCEPT ![userFuture] = "none"]
            /\ actionRL' = TRUE
            /\ UNCHANGED <<listFuture, fault>>
       ELSE /\ pc' = [pc EXCEPT ![userFuture] = "ask"]
            /\ listFuture' = userFuture
            /\ Registers
            /\ UNCHANGED actionRL
    /\ UNCHANGED <<auth, token, userVars, answer, user_lists, timeVars, closing,
                   site, events, ghostVars>>

userListLoaded ==
    /\ HandlesEvents
    /\ listFuture # Nobody /\ pc[listFuture] = "finished"
    /\ pc' = [pc EXCEPT ![listFuture] = "none"]
    /\ listFuture' = Nobody
    /\ actionRL' = TRUE
    /\ UNCHANGED <<auth, token, userVars, answer, user_lists, hasUser, userFuture,
                   timeVars, closing, site, events, fault, ghostVars>>

(* The same slot, called by an edit or an automatic update (reloadRequested *)
(* and updateEpisode), also while a refresh runs.                           *)
listChanged ==
    /\ HandlesEvents
    /\ hasUser /\ ~actionRL
    /\ Unused # {}
    /\ actionRL' = TRUE
    /\ UNCHANGED <<auth, pc, token, userVars, answer, user_lists, hasUser, userFuture,
                   listFuture, timeVars, closing, site, events, fault,
                   ghostVars>>

-----------------------------------------------------------------------------
(* User::sharedUser() and what a thread does with the User.                 *)

Moves(p, to) == pc' = [pc EXCEPT ![p] = to]

\* What a profile request of p is answered with: nothing without access.
ProfileArrives(p) ==
    /\ token' = [token EXCEPT ![p] = FALSE]
    /\ \/ /\ token[p]
          /\ profile' = [named |-> TRUE, lists |-> site]
          /\ UNCHANGED <<failed, events>>
       \/ /\ IF token[p] THEN Counted ELSE UNCHANGED events
          /\ profile' = Unknown
          /\ failed' = TRUE

(* The task of loadUser starts.                                             *)
TaskStarts(t) ==
    /\ pc[t] = "queued"
    /\ \/ hasUser /\ Moves(t, "profile")
       \/ ~hasUser /\ users = 0 /\ Moves(t, "locking")
       \/ ~hasUser /\ users > 0 /\ Finish(t)
    /\ token' = [token EXCEPT ![t] = hasUser /\ Granted]
    /\ UNCHANGED <<auth, userVars, answer, user_lists, hasUser, actionRL, userFuture,
                   listFuture, timeVars, closing, site, events, fault, ghostVars>>

Used(p) ==
    IF p = Main THEN Moves(Main, "free")
    ELSE Finish(p)

\* Slip: no second look at the pointer.
LockOnce(p) ==
    /\ pc[p] = "locking" /\ mutex = Nobody
    /\ mutex' = p
    /\ Moves(p, "building")
    /\ token' = [token EXCEPT ![p] = Granted]
    /\ UNCHANGED <<auth, users, profile, answer, user_lists, viewVars, timeVars,
                   closing, site, events, fault, ghostVars>>

(* mutex.lock() and the second look at m_Instance.  The constructor asks    *)
(* for the profile.                                                         *)
Lock(p) ==
    /\ pc[p] = "locking" /\ mutex = Nobody
    /\ IF users > 0
       THEN Used(p) /\ UNCHANGED <<mutex, token>>
       ELSE /\ mutex' = p
            /\ Moves(p, "building")
            /\ token' = [token EXCEPT ![p] = Granted]
    /\ UNCHANGED <<auth, users, profile, answer, user_lists, hasUser, actionRL,
                   userFuture, listFuture, timeVars, closing, site, events, fault,
                   ghostVars>>

\* Local event loops end innermost first.
LoopEnds(p) ==
    p = Main => \/ closing.state = "no"
                \/ closing.state = "events" /\ ~closing.nested

\* The profile and its image are there: the User is made, or made anew.
Made(p) ==
    IF mutex = p
    THEN /\ users' = users + 1
         /\ mutex' = Nobody
         /\ Used(p)
    ELSE Moves(p, "ask") /\ UNCHANGED <<users, mutex>>

\* loadProfileImage(), if the profile says where an image is.
LoadsImage(p) ==
    /\ profile'.named
    /\ Moves(p, "image")
    /\ UNCHANGED <<users, mutex>>

(* The constructor has the answer.                                          *)
Built(p) ==
    /\ pc[p] = "building"
    /\ LoopEnds(p)
    /\ ProfileArrives(p)
    /\ Made(p) \/ LoadsImage(p)
    /\ UNCHANGED <<auth, answer, user_lists, hasUser, actionRL, userFuture, listFuture,
                   timeVars, closing, site, fault, fresh, crossed>>

\* Slip: the names of the custom lists are left as the constructor set them.
remakeKeepsNames(t) ==
    /\ pc[t] = "profile"
    /\ token' = [token EXCEPT ![t] = FALSE]
    /\ profile' = [profile EXCEPT !.named = token[t]]
    /\ failed' = (failed \/ ~token[t])
    /\ Moves(t, "ask")
    /\ UNCHANGED <<auth, mutex, users, answer, user_lists, viewVars, timeVars,
                   closing, site, events, fault, fresh, crossed>>

(* User::remake: the profile, whatever the answer is, its image, if it is   *)
(* another one than before, ...                                             *)
remake(t) ==
    /\ pc[t] = "profile"
    /\ ProfileArrives(t)
    /\ Made(t) \/ LoadsImage(t)
    /\ UNCHANGED <<auth, answer, user_lists, viewVars, timeVars, closing, site,
                   fault, fresh, crossed>>

ImageMoves ==
    UNCHANGED <<auth, token, userVars, answer, user_lists, viewVars, timeVars,
                closing, site, events, fault, ghostVars>>

\* An event of the main thread is handled there.
Handled(p) == p = Main => HandlesEvents

(* FileDownloader::fileDownloaded emits downloaded() at once, or opens an   *)
(* error box, in whatever thread it is, and does so when that is closed.    *)
ImageArrives(p) ==
    /\ pc[p] = "image" /\ Handled(p)
    /\ Moves(p, "imaged")
    /\ ImageMoves

ImageFails(p) ==
    /\ pc[p] = "image" /\ Handled(p)
    /\ Moves(p, "box")
    /\ ImageMoves

BoxClosed(p) ==
    /\ pc[p] = "box" /\ Handled(p)
    /\ Moves(p, "imaged")
    /\ ImageMoves

\* The event loop of loadProfileImage() returns.
ImageSet(p) ==
    /\ pc[p] = "imaged"
    /\ LoopEnds(p)
    /\ Made(p)
    /\ UNCHANGED <<auth, token, profile, answer, user_lists, hasUser, actionRL,
                   userFuture, listFuture, timeVars, closing, site, events, fault,
                   ghostVars>>

(* ... and the lists of the display name it has now.                        *)
AskLists(t) ==
    /\ pc[t] = "ask"
    /\ answer' = [answer EXCEPT ![t] = [NoAnswer EXCEPT !.named = profile.named]]
    /\ Moves(t, "lists")
    /\ UNCHANGED <<auth, token, userVars, user_lists, viewVars, timeVars, closing,
                   site, events, fault, ghostVars>>

ListsArrive(t) ==
    /\ pc[t] = "lists"
    /\ Moves(t, "copy")
    /\ \/ /\ answer[t].named
          /\ answer' = [answer EXCEPT ![t].came = TRUE, ![t].lists = site]
          /\ UNCHANGED events
       \/ /\ IF answer[t].named THEN Counted ELSE UNCHANGED events
          /\ UNCHANGED answer
    /\ UNCHANGED <<auth, token, userVars, user_lists, viewVars, timeVars, closing,
                   site, fault, ghostVars>>

(* The lists of the answer go by the names of the profile: the i-th by the  *)
(* i-th.                                                                    *)
CopyLists(t) ==
    /\ pc[t] = "copy"
    /\ LET lists == answer[t].lists
           names == profile.lists
       IN  /\ fault' = IF Len(lists) > Len(names) THEN "index" ELSE "none"
           /\ user_lists' =
                 [n \in Custom |->
                    IF \E k \in DOMAIN names : names[k] = n
                    THEN LET k == CHOOSE k \in DOMAIN names : names[k] = n
                         IN  IF k \in DOMAIN lists THEN lists[k] ELSE NoList
                    ELSE user_lists[n]]
    /\ fresh' = answer[t].came
    /\ answer' = [answer EXCEPT ![t] = NoAnswer]
    /\ Finish(t)
    /\ UNCHANGED <<auth, token, userVars, hasUser, actionRL, userFuture, listFuture,
                   timeVars, closing, site, events, crossed, failed>>

(* The user makes, renames or deletes a custom list on the web site.        *)
changeSite ==
    /\ Counted
    /\ site' \in Sites \ {site}
    /\ crossed' = (crossed \/ \E p \in Thread : pc[p] \notin {"none", "free"})
    /\ UNCHANGED <<auth, pc, token, userVars, answer, user_lists, viewVars, timeVars,
                   closing, fault, fresh, failed>>

-----------------------------------------------------------------------------
(* MainWindow::elegantClose: the futures are waited for one after the       *)
(* other, each after a call of processEvents().                             *)

\* The futures `todo' are to be visited; those that are over are passed by.
Visit(todo, nested) ==
    IF todo \cap Running = {} THEN closing' = [Open EXCEPT !.state = "closed"]
    ELSE \E t \in todo \cap Running :
            closing' = [state |-> "events", task |-> t, todo |-> todo, nested |-> nested]

ClosingMoves ==
    UNCHANGED <<auth, pc, token, userVars, answer, user_lists, viewVars, timeVars,
                site, fault, ghostVars>>

\* Before the first event loop it would only end the dialog for the pin.
elegantClose ==
    /\ closing.state = "no" /\ HandlesEvents /\ auth # "dialog"
    /\ Counted
    /\ Visit(Running, pc[Main] # "free")
    /\ ClosingMoves

EventsDone ==
    /\ closing.state = "events"
    /\ pc[Main] \in IF closing.nested THEN Building ELSE {"free"}
    /\ closing' = [closing EXCEPT !.state = "waiting"]
    /\ UNCHANGED events
    /\ ClosingMoves

\* Slip: futures that were appended meanwhile are waited for, too.
FutureWaitedAll ==
    /\ closing.state = "waiting"
    /\ ~IsRunning(closing.task)
    /\ Visit(Running, closing.nested)
    /\ UNCHANGED events
    /\ ClosingMoves

FutureWaited ==
    /\ closing.state = "waiting"
    /\ ~IsRunning(closing.task)
    /\ Visit(closing.todo \ {closing.task}, closing.nested)
    /\ UNCHANGED events
    /\ ClosingMoves

-----------------------------------------------------------------------------
UserActs == verifyAPI \/ actionReload \/ setInterval \/ useUser \/ listChanged
            \/ changeSite \/ elegantClose

\* How a thread gets its User, as far as nobody has to close a box.
Makes(p) == Lock(p) \/ Built(p) \/ ImageArrives(p) \/ ImageFails(p) \/ ImageSet(p)

MainSteps == userLoaded \/ userListLoaded \/ Makes(Main)

CloseSteps == EventsDone \/ FutureWaited

TaskSteps(t) ==
    \/ TaskStarts(t) \/ Makes(t) \/ remake(t)
    \/ AskLists(t) \/ ListsArrive(t) \/ CopyLists(t)

Runs == fault = "none" /\ closing.state # "closed"

Next ==
    /\ Runs
    /\ UserActs \/ accessGranted \/ accessDenied \/ eventTick \/ MainSteps
       \/ CloseSteps \/ (\E t \in Task : TaskSteps(t)) \/ \E p \in Thread : BoxClosed(p)

Spec == Init /\ [][Next]_vars

(* The threads run, the timer ticks, requests are answered, and a call of   *)
(* processEvents() ends.  Nobody has to do anything, not even to close an   *)
(* error box, and no access has to be granted.                              *)
FairSpec ==
    /\ Spec
    /\ WF_vars(Runs /\ MainSteps)
    /\ WF_vars(Runs /\ CloseSteps)
    /\ WF_vars(Runs /\ eventTick)
    /\ \A t \in Task : WF_vars(Runs /\ TaskSteps(t))

-----------------------------------------------------------------------------
Lists == Sites \cup {<<>>}
Pc == {"free", "stuck", "none", "queued", "locking", "profile", "ask",
       "lists", "copy", "finished"} \cup Building

(* Every variable has its type; fault names the undefined behaviour that    *)
(* was met.                                                                 *)
TypeOK ==
    /\ auth \in {"dialog", "asked", "none", "granted", "denied"}
    /\ pc \in [Thread -> Pc]
    /\ token \in [Thread -> BOOLEAN]
    /\ mutex \in Thread \cup {Nobody} /\ users \in Nat
    /\ profile \in [named : BOOLEAN, lists : Lists]
    /\ answer \in [Task -> [named : BOOLEAN, came : BOOLEAN, lists : Lists]]
    /\ user_lists \in [Custom -> Custom \cup {NoList}]
    /\ hasUser \in BOOLEAN /\ actionRL \in BOOLEAN
    /\ userFuture \in Task \cup {Nobody} /\ listFuture \in Task \cup {Nobody}
    /\ event_timer \in BOOLEAN
    /\ user_refresh_time \in -1..MaxTime /\ interval \in Interval
    /\ closing \in [state : {"no", "events", "waiting", "closed"},
                    task : Task \cup {Nobody}, todo : SUBSET Task, nested : BOOLEAN]
    /\ site \in Sites
    /\ events \in 0..MaxEvents
    /\ fault \in {"none", "index", "registry"}
    /\ fresh \in BOOLEAN /\ crossed \in BOOLEAN /\ failed \in BOOLEAN

(* Only one User is ever made, whichever thread asks for it first, and      *)
(* however many do while it is made.                                        *)
OneUser == users <= 1

(* Every custom list is shown under its own name, and no index is out of    *)
(* the range of the names, unless a list was made, renamed or deleted while *)
(* a download ran, or the profile did not come.                             *)
ListsUnderTheirNames ==
    fault = "index" \/ (\E n \in Custom : user_lists[n] \notin {n, NoList})
        => crossed \/ failed

\* Somebody closes the error boxes there are.
BoxesClosed == \A p \in Thread : []<>(pc[p] # "box")

(* If no error box is left standing, the user's lists come after access was *)
(* granted, again after every answer that was lost, unless the countdown    *)
(* was set to zero, the main thread waits for itself, or the window closes. *)
Stopped ==
    \/ fault # "none"
    \/ pc[Main] = "stuck"
    \/ closing.state # "no"
    \/ user_refresh_time < 0
ListsCome == BoxesClosed => (Granted /\ ~fresh ~> fresh \/ Stopped)

(* The window closes, if no error box is left standing, for which it would  *)
(* wait, and the main thread is not making the User.                        *)
CloseReturns ==
    BoxesClosed =>
        (closing.state = "events"
            ~> \/ closing.state = "closed" \/ fault # "none"
               \/ pc[Main] = "stuck" \/ closing.nested)

=============================================================================
