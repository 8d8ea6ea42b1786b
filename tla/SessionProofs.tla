--------------------------- MODULE SessionProofs ---------------------------
(***************************************************************************)
(* Theorems about Session: there is one User, and custom lists are shown   *)
(* under their own names.                                                  *)
(***************************************************************************)
EXTENDS Session, TLAPS

LEMMA Named == /\ Nobody \notin Thread /\ Main \notin Task
               /\ Task \subseteq Thread /\ Main \in Thread
               /\ NoList \notin Custom
               /\ MaxTime \in Nat /\ Interval \subseteq 0..MaxTime /\ MaxEvents \in Nat
  BY SessionAssumption DEF Thread

LEMMA TypeInit == Init => TypeOK
<1>1. SUFFICES ASSUME Init PROVE TypeOK
  OBVIOUS
<1>2. pc \in [Thread -> Pc] /\ token \in [Thread -> BOOLEAN]
  BY <1>1 DEF Init, Pc
<1>3. /\ profile \in [named : BOOLEAN, lists : Lists]
      /\ answer \in [Task -> [named : BOOLEAN, came : BOOLEAN, lists : Lists]]
  BY <1>1 DEF Init, Unknown, NoAnswer, Lists
<1>4. closing \in [state : {"no", "events", "waiting", "closed"},
                   task : Task \cup {Nobody}, todo : SUBSET Task, nested : BOOLEAN]
  BY <1>1 DEF Init, Open
<1>5. user_refresh_time \in -1..MaxTime
  BY <1>1, Named DEF Init
<1>6. events \in 0..MaxEvents
  BY <1>1, Named DEF Init
<1>7. QED
  BY <1>1, <1>2, <1>3, <1>4, <1>5, <1>6 DEF Init, TypeOK

(* What the steps are built from.                                           *)
LEMMA Moving ==
    ASSUME TypeOK, NEW p \in Thread, NEW to \in Pc, Moves(p, to)
    PROVE  pc' \in [Thread -> Pc]
  BY DEF Moves, TypeOK

LEMMA Waiting == Image \subseteq Building /\ Building \subseteq Pc
  BY DEF Image, Building, Pc

LEMMA Finishing ==
    ASSUME TypeOK, NEW t \in Task, Finish(t)
    PROVE  pc' \in [Thread -> Pc]
  BY Named DEF Finish, TypeOK, Pc

LEMMA Using ==
    ASSUME TypeOK, NEW p \in Thread, Used(p)
    PROVE  pc' \in [Thread -> Pc]
<1>1. CASE p = Main
  BY <1>1, Moving DEF Used, Pc
<1>2. CASE p # Main
  BY <1>2, Finishing DEF Used, Thread
<1>3. QED
  BY <1>1, <1>2

LEMMA Making ==
    ASSUME TypeOK, NEW p \in Thread, Made(p)
    PROVE  /\ pc' \in [Thread -> Pc]
           /\ users' \in Nat
           /\ mutex' \in Thread \cup {Nobody}
           /\ Used(p) \/ Moves(p, "ask")
<1>1. CASE mutex = p
  BY <1>1, Using DEF Made, TypeOK
<1>2. CASE mutex # p
  BY <1>2, Moving DEF Made, Pc, TypeOK
<1>3. QED
  BY <1>1, <1>2

LEMMA Imaging ==
    ASSUME TypeOK, NEW p \in Thread, LoadsImage(p)
    PROVE  pc' \in [Thread -> Pc] /\ UNCHANGED <<users, mutex>>
  BY Moving, Waiting DEF LoadsImage, Image

LEMMA Counting ==
    ASSUME TypeOK, Counted \/ UNCHANGED events
    PROVE  events' \in 0..MaxEvents
  BY Named DEF Counted, TypeOK

LEMMA Loading ==
    ASSUME TypeOK, fault = "none", loadUser
    PROVE  /\ pc' \in [Thread -> Pc]
           /\ actionRL' \in BOOLEAN
           /\ userFuture' \in Task \cup {Nobody}
           /\ fault' \in {"none", "registry"}
           /\ ~actionRL => UNCHANGED <<pc, actionRL, userFuture>>
           /\ actionRL => \E t \in Task :
                 /\ pc[t] = "none"
                 /\ pc' = [p \in Thread |->
                             IF p = t THEN "queued"
                             ELSE IF p = userFuture /\ pc[p] = "finished" THEN "none"
                             ELSE pc[p]]
                 /\ userFuture' = t
                 /\ ~actionRL'
<1>1. CASE ~actionRL
  BY <1>1 DEF loadUser, TypeOK
<1>2. CASE actionRL
  <2> DEFINE t == CHOOSE t \in Unused : TRUE
  <2>1. t \in Task /\ pc[t] = "none"
    BY <1>2 DEF loadUser, Unused
  <2>2. /\ pc' = [p \in Thread |->
                    IF p = t THEN "queued"
                    ELSE IF p = userFuture /\ pc[p] = "finished" THEN "none"
                    ELSE pc[p]]
        /\ userFuture' = t /\ actionRL' = FALSE
    BY <1>2 DEF loadUser
  <2>3. fault' \in {"none", "registry"}
    BY <1>2 DEF loadUser, Registers
  <2>4. pc' \in [Thread -> Pc]
    BY <2>2 DEF TypeOK, Pc
  <2> HIDE DEF t
  <2>5. QED
    BY <1>2, <2>1, <2>2, <2>3, <2>4
<1>3. QED
  BY <1>1, <1>2 DEF TypeOK

LEMMA Arriving ==
    ASSUME TypeOK, NEW p \in Thread, ProfileArrives(p)
    PROVE  /\ token' \in [Thread -> BOOLEAN]
           /\ profile' \in [named : BOOLEAN, lists : Lists]
           /\ failed' \in BOOLEAN
           /\ events' \in 0..MaxEvents
<1>1. token' \in [Thread -> BOOLEAN]
  BY DEF ProfileArrives, TypeOK
<1>2. profile' \in [named : BOOLEAN, lists : Lists] /\ failed' \in BOOLEAN
  <2>1. CASE token[p] /\ profile' = [named |-> TRUE, lists |-> site] /\ UNCHANGED failed
    BY <2>1 DEF TypeOK, Lists
  <2>2. CASE profile' = Unknown /\ failed' = TRUE
    BY <2>2 DEF Unknown, Lists
  <2>3. QED
    BY <2>1, <2>2 DEF ProfileArrives
<1>3. events' \in 0..MaxEvents
  BY Counting DEF ProfileArrives
<1>4. QED
  BY <1>1, <1>2, <1>3

LEMMA Visiting ==
    ASSUME TypeOK, NEW todo \in SUBSET Task, NEW nested \in BOOLEAN, Visit(todo, nested)
    PROVE  closing' \in [state : {"no", "events", "waiting", "closed"},
                         task : Task \cup {Nobody}, todo : SUBSET Task, nested : BOOLEAN]
<1>1. CASE closing' = [Open EXCEPT !.state = "closed"]
  BY <1>1 DEF Open
<1>2. CASE \E t \in todo \cap Running :
              closing' = [state |-> "events", task |-> t, todo |-> todo, nested |-> nested]
  BY <1>2
<1>3. QED
  BY <1>1, <1>2 DEF Visit

LEMMA TypeNext == TypeOK /\ [Next]_vars => TypeOK'
<1> USE DEF userVars, viewVars, timeVars, ghostVars
<1>1. SUFFICES ASSUME TypeOK, [Next]_vars PROVE TypeOK'
  OBVIOUS
<1>2. CASE UNCHANGED vars
  BY <1>1, <1>2 DEF vars, TypeOK
<1>3. CASE Next
  <2>0. fault = "none"
    BY <1>3 DEF Next, Runs
  <2>1. CASE verifyAPI \/ accessDenied
    BY <1>1, <2>1 DEF verifyAPI, accessDenied, TypeOK
  <2>2. CASE accessGranted
    BY <1>1, <2>0, <2>2, Loading DEF accessGranted, TypeOK
  <2>3. CASE actionReload
    BY <1>1, <2>0, <2>3, Loading DEF actionReload, TypeOK
  <2>4. CASE eventTick
    <3>1. user_refresh_time' \in -1..MaxTime
      BY <1>1, <2>4, Named DEF eventTick, TypeOK
    <3>2. CASE loadUser
      BY <1>1, <2>0, <2>4, <3>1, <3>2, Loading DEF eventTick, TypeOK
    <3>3. CASE UNCHANGED <<pc, actionRL, userFuture, fault>>
      BY <1>1, <2>4, <3>1, <3>3 DEF eventTick, TypeOK
    <3>4. QED
      BY <2>4, <3>2, <3>3 DEF eventTick
  <2>5. CASE setInterval
    BY <1>1, <2>5, Counting DEF setInterval, TypeOK
  <2>6. CASE useUser
    <3>1. pc' \in [Thread -> Pc]
      BY <1>1, <2>6 DEF useUser, TypeOK, Pc
    <3>2. QED
      BY <1>1, <2>6, <3>1, Counting DEF useUser, TypeOK
  <2>7. CASE userLoaded
    <3>1. pc' \in [Thread -> Pc]
      BY <1>1, <2>7 DEF userLoaded, TypeOK, Pc
    <3>2. fault' \in {"none", "registry"}
      BY <2>0, <2>7 DEF userLoaded, Registers
    <3>3. listFuture' \in Task \cup {Nobody} /\ actionRL' \in BOOLEAN
      BY <1>1, <2>7 DEF userLoaded, TypeOK
    <3>4. QED
      BY <1>1, <2>7, <3>1, <3>2, <3>3 DEF userLoaded, TypeOK
  <2>8. CASE userListLoaded
    <3>1. pc' \in [Thread -> Pc]
      BY <1>1, <2>8 DEF userListLoaded, TypeOK, Pc
    <3>2. QED
      BY <1>1, <2>8, <3>1 DEF userListLoaded, TypeOK
  <2>9. CASE listChanged
    BY <1>1, <2>9 DEF listChanged, TypeOK
  <2>10. ASSUME NEW t \in Task, TaskStarts(t) PROVE TypeOK'
    <3>1. pc' \in [Thread -> Pc]
      BY <1>1, <2>10, Moving, Finishing, Named DEF TaskStarts, Pc
    <3>2. token' \in [Thread -> BOOLEAN]
      BY <1>1, <2>10 DEF TaskStarts, TypeOK, Granted
    <3>3. QED
      BY <1>1, <2>10, <3>1, <3>2 DEF TaskStarts, TypeOK
  <2>11. ASSUME NEW p \in Thread, Lock(p) PROVE TypeOK'
    <3>1. pc' \in [Thread -> Pc]
      BY <1>1, <2>11, Using, Moving DEF Lock, Building, Pc
    <3>2. token' \in [Thread -> BOOLEAN] /\ mutex' \in Thread \cup {Nobody}
      BY <1>1, <2>11 DEF Lock, TypeOK, Granted
    <3>3. QED
      BY <1>1, <2>11, <3>1, <3>2 DEF Lock, TypeOK
  <2>12. ASSUME NEW p \in Thread, Built(p) PROVE TypeOK'
    <3>1. /\ pc' \in [Thread -> Pc]
          /\ users' \in Nat /\ mutex' \in Thread \cup {Nobody}
      BY <1>1, <2>12, Making, Imaging DEF Built, TypeOK
    <3>2. QED
      BY <1>1, <2>12, <3>1, Arriving DEF Built, TypeOK
  <2>13. ASSUME NEW t \in Task, remake(t) PROVE TypeOK'
    <3>1. /\ pc' \in [Thread -> Pc]
          /\ users' \in Nat /\ mutex' \in Thread \cup {Nobody}
      BY <1>1, <2>13, Making, Imaging, Named DEF remake, TypeOK
    <3>2. QED
      BY <1>1, <2>13, <3>1, Arriving, Named DEF remake, TypeOK
  <2>13a. ASSUME NEW p \in Thread, ImageArrives(p) \/ ImageFails(p) \/ BoxClosed(p)
          PROVE  TypeOK'
    <3>1. pc' \in [Thread -> Pc]
      BY <1>1, <2>13a, Moving, Waiting DEF ImageArrives, ImageFails, BoxClosed, Image
    <3>2. QED
      BY <1>1, <2>13a, <3>1
         DEF ImageArrives, ImageFails, BoxClosed, ImageMoves, TypeOK
  <2>13b. ASSUME NEW p \in Thread, ImageSet(p) PROVE TypeOK'
    BY <1>1, <2>13b, Making DEF ImageSet, TypeOK
  <2>14. ASSUME NEW t \in Task, AskLists(t) PROVE TypeOK'
    <3>1. pc' \in [Thread -> Pc]
      BY <1>1, <2>14, Moving, Named DEF AskLists, Pc
    <3>2. answer' \in [Task -> [named : BOOLEAN, came : BOOLEAN, lists : Lists]]
      BY <1>1, <2>14 DEF AskLists, TypeOK, NoAnswer, Lists
    <3>3. QED
      BY <1>1, <2>14, <3>1, <3>2 DEF AskLists, TypeOK
  <2>15. ASSUME NEW t \in Task, ListsArrive(t) PROVE TypeOK'
    <3>1. pc' \in [Thread -> Pc]
      BY <1>1, <2>15, Moving, Named DEF ListsArrive, Pc
    <3>2. answer' \in [Task -> [named : BOOLEAN, came : BOOLEAN, lists : Lists]]
      <4>1. site \in Lists /\ answer[t] \in [named : BOOLEAN, came : BOOLEAN, lists : Lists]
        BY <1>1 DEF TypeOK, Lists
      <4>2. CASE answer' = [answer EXCEPT ![t].came = TRUE, ![t].lists = site]
        BY <1>1, <4>1, <4>2 DEF TypeOK
      <4>3. QED
        BY <1>1, <2>15, <4>2 DEF ListsArrive, TypeOK
    <3>3. events' \in 0..MaxEvents
      BY <1>1, <2>15, Counting DEF ListsArrive
    <3>4. QED
      BY <1>1, <2>15, <3>1, <3>2, <3>3 DEF ListsArrive, TypeOK
  <2>16. ASSUME NEW t \in Task, CopyLists(t) PROVE TypeOK'
    <3>1. pc' \in [Thread -> Pc]
      BY <1>1, <2>16, Finishing DEF CopyLists
    <3>2. answer' \in [Task -> [named : BOOLEAN, came : BOOLEAN, lists : Lists]]
      BY <1>1, <2>16 DEF CopyLists, TypeOK, NoAnswer, Lists
    <3>3. answer[t].lists \in Seq(Custom)
      <4>1. <<>> \in Seq(Custom) /\ Sites \subseteq Seq(Custom)
        BY SessionAssumption
      <4>2. answer[t].lists \in Lists
        BY <1>1 DEF TypeOK
      <4>3. QED
        BY <4>1, <4>2 DEF Lists
    <3>4. user_lists' \in [Custom -> Custom \cup {NoList}]
      BY <1>1, <2>16, <3>3 DEF CopyLists, TypeOK
    <3>5. fault' \in {"none", "index"} /\ fresh' \in BOOLEAN
      BY <1>1, <2>16 DEF CopyLists, TypeOK
    <3>6. QED
      BY <1>1, <2>16, <3>1, <3>2, <3>4, <3>5 DEF CopyLists, TypeOK
  <2>17. CASE changeSite
    BY <1>1, <2>17, Counting DEF changeSite, TypeOK
  <2>18. CASE elegantClose
    <3>1. Running \in SUBSET Task /\ (pc[Main] # "free") \in BOOLEAN
      BY DEF Running
    <3>2. closing' \in [state : {"no", "events", "waiting", "closed"},
                        task : Task \cup {Nobody}, todo : SUBSET Task, nested : BOOLEAN]
      BY <1>1, <2>18, <3>1, Visiting DEF elegantClose
    <3>3. events' \in 0..MaxEvents
      BY <1>1, <2>18, Counting DEF elegantClose
    <3>4. QED
      BY <1>1, <2>18, <3>2, <3>3 DEF elegantClose, ClosingMoves, TypeOK
  <2>19. CASE EventsDone
    BY <1>1, <2>19 DEF EventsDone, ClosingMoves, TypeOK
  <2>20. CASE FutureWaited
    BY <1>1, <2>20, Visiting DEF FutureWaited, ClosingMoves, TypeOK
  <2>21. QED
    BY <1>3, <2>1, <2>2, <2>3, <2>4, <2>5, <2>6, <2>7, <2>8, <2>9, <2>10, <2>11, <2>12,
       <2>13, <2>13a, <2>13b, <2>14, <2>15, <2>16, <2>17, <2>18, <2>19, <2>20, Named
       DEF Next, UserActs, MainSteps, CloseSteps, TaskSteps, Makes
<1>4. QED
  BY <1>1, <1>2, <1>3

(* Every variable has its type in every reachable state.                    *)
THEOREM TypeCorrect == Spec => []TypeOK
<1>1. Init => TypeOK
  BY TypeInit
<1>2. TypeOK /\ [Next]_vars => TypeOK'
  BY TypeNext
<1>3. QED
  BY <1>1, <1>2, PTL DEF Spec

-----------------------------------------------------------------------------
(* Only the thread that holds the lock makes a User, and the lock is not    *)
(* taken again once there is one.                                           *)
MutexInv ==
    /\ \A p \in Thread : pc[p] = "building" => mutex = p
    /\ mutex # Nobody => users = 0
    /\ users <= 1

LEMMA MutexInit == Init => MutexInv
  BY Named DEF Init, MutexInv

LEMMA MutexNext == TypeOK /\ MutexInv /\ [Next]_vars => MutexInv'
<1> USE DEF userVars, viewVars, timeVars, ghostVars
<1>1. SUFFICES ASSUME TypeOK, MutexInv, [Next]_vars PROVE MutexInv'
  OBVIOUS
<1>2. ASSUME UNCHANGED <<mutex, users>>,
             \A p \in Thread : pc'[p] = "building" => pc[p] = "building"
      PROVE  MutexInv'
  BY <1>1, <1>2 DEF MutexInv
<1>3. CASE UNCHANGED vars
  BY <1>2, <1>3 DEF vars
<1>4. CASE Next
  <2>0. fault = "none"
    BY <1>4 DEF Next, Runs
  <2>1. CASE UNCHANGED <<pc, mutex, users>>
    BY <1>2, <2>1
  <2>2. CASE loadUser /\ UNCHANGED <<mutex, users>>
    BY <1>1, <1>2, <2>0, <2>2, Loading
  <2>3. CASE useUser
    BY <1>1, <1>2, <2>3 DEF useUser, TypeOK
  <2>4. CASE userLoaded
    BY <1>1, <1>2, <2>4 DEF userLoaded, TypeOK
  <2>5. CASE userListLoaded
    BY <1>1, <1>2, <2>5 DEF userListLoaded, TypeOK
  <2>6. ASSUME NEW t \in Task, NEW to \in Pc \ {"building"}, Moves(t, to),
               UNCHANGED <<mutex, users>>
        PROVE  MutexInv'
    BY <1>1, <1>2, <2>6 DEF Moves, TypeOK
  <2>7. ASSUME NEW t \in Task, Finish(t), UNCHANGED <<mutex, users>> PROVE MutexInv'
    BY <1>1, <1>2, <2>7 DEF Finish, TypeOK
  <2>8. ASSUME NEW t \in Task,
               TaskStarts(t) \/ AskLists(t) \/ ListsArrive(t) \/ CopyLists(t)
        PROVE  MutexInv'
    BY <2>6, <2>7, <2>8 DEF TaskStarts, AskLists, ListsArrive, CopyLists, Pc
  <2>9. ASSUME NEW p \in Thread, Lock(p) PROVE MutexInv'
    <3>1. CASE users > 0
      BY <1>1, <1>2, <2>9, <3>1, Named DEF Lock, Used, Moves, Finish, TypeOK
    <3>2. CASE ~(users > 0)
      BY <1>1, <2>9, <3>2, Named DEF Lock, Moves, TypeOK, MutexInv
    <3>3. QED
      BY <3>1, <3>2
  <2>10. ASSUME NEW p \in Thread, NEW to \in Pc \ {"building"}, Moves(p, to),
                UNCHANGED <<mutex, users>>
         PROVE  MutexInv'
    BY <1>1, <1>2, <2>10 DEF Moves, TypeOK
  <2>10a. ASSUME NEW p \in Thread, Made(p) PROVE MutexInv'
    <3>1. CASE mutex = p
      <4>1. users = 0 /\ mutex' = Nobody /\ users' = 1
        BY <1>1, <2>10a, <3>1, Named DEF Made, MutexInv
      <4>2. \A q \in Thread : q # p => pc[q] # "building"
        BY <1>1, <3>1 DEF MutexInv
      <4>3. \A q \in Thread : pc'[q] # "building"
        BY <1>1, <2>10a, <3>1, <4>2, Named DEF Made, Used, Moves, Finish, TypeOK
      <4>4. QED
        BY <4>1, <4>3 DEF MutexInv
    <3>2. CASE mutex # p
      BY <2>10, <2>10a, <3>2 DEF Made, Pc
    <3>3. QED
      BY <3>1, <3>2
  <2>10b. ASSUME NEW p \in Thread,
                 \/ Built(p) \/ (p \in Task /\ remake(p)) \/ ImageArrives(p)
                 \/ ImageFails(p) \/ BoxClosed(p) \/ ImageSet(p)
          PROVE  MutexInv'
    BY <2>10, <2>10a, <2>10b
       DEF Built, remake, LoadsImage, ImageArrives, ImageFails, BoxClosed, ImageMoves,
           ImageSet, Pc, Building, Image
  <2>11. QED
    BY <1>4, <2>1, <2>2, <2>3, <2>4, <2>5, <2>8, <2>9, <2>10b, Named
       DEF Next, UserActs, MainSteps, CloseSteps, TaskSteps, Makes, verifyAPI, accessGranted,
           accessDenied, actionReload, eventTick, setInterval, listChanged, changeSite,
           elegantClose, EventsDone, FutureWaited, ClosingMoves
<1>5. QED
  BY <1>1, <1>3, <1>4

(* Only one User is ever made, whichever thread asks for it first: the lock *)
(* of sharedUser() and the second look at the pointer behind it.            *)
THEOREM OneUserMade == Spec => []OneUser
<1>1. Init => TypeOK /\ MutexInv
  BY TypeInit, MutexInit
<1>2. TypeOK /\ MutexInv /\ [Next]_vars => (TypeOK /\ MutexInv)'
  BY TypeNext, MutexNext
<1>3. TypeOK /\ MutexInv => OneUser
  BY DEF MutexInv, OneUser
<1>4. QED
  BY <1>1, <1>2, <1>3, PTL DEF Spec

-----------------------------------------------------------------------------
(* Why the names of the profile are those of the lists that a download got: *)
(* nothing but a User can have ended a future; until the first download     *)
(* there is a future for the profile, so that a change on the site crosses  *)
(* it; only requests with access bring a profile; and while no change       *)
(* crossed one and no profile failed, what a download reads is the site's.  *)
Downloading == {"ask", "lists", "copy"}

UserInv ==
    /\ hasUser => users > 0
    /\ \A t \in Task : pc[t] \in Downloading \cup {"profile", "finished"} => users > 0
    /\ \A t \in Task : pc[t] \in Image => users > 0 \/ mutex = t
    /\ \A t \in Task : pc[t] # "free"

FutureInv ==
    /\ listFuture # Nobody => hasUser
    /\ (Granted \/ ~actionRL) /\ ~hasUser
         => userFuture \in Task /\ pc[userFuture] # "none"

AnswerInv ==
    /\ \A p \in Thread : token[p] => Granted
    /\ \A t \in Task : pc[t] = "lists" => answer[t].lists = <<>>

SiteInv ==
    ~crossed /\ ~failed =>
        /\ \A t \in Task : pc[t] \in Downloading => profile.lists = site
        /\ \A t \in Task : pc[t] = "copy" => answer[t].lists \in {<<>>, site}
        /\ \A p \in Thread : pc[p] \in Image => Granted /\ profile.lists = site
        /\ users > 0 /\ ~hasUser => Granted /\ profile.lists = site
        /\ fault # "index"
        /\ \A n \in Custom : user_lists[n] \in {n, NoList}

NamesInv == UserInv /\ FutureInv /\ AnswerInv /\ SiteInv

LEMMA NamesInit == Init => NamesInv
<1>1. SUFFICES ASSUME Init PROVE NamesInv
  OBVIOUS
<1>2. \A p \in Thread : pc[p] \in {"free", "none"} /\ ~token[p]
  BY <1>1 DEF Init
<1>3. \A t \in Task : pc[t] = "none"
  BY <1>1, Named DEF Init
<1>4. UserInv /\ FutureInv
  BY <1>1, <1>3 DEF Init, UserInv, FutureInv, Granted, Downloading, Image
<1>5. AnswerInv
  BY <1>2, <1>3 DEF AnswerInv
<1>6. SiteInv
  BY <1>1, <1>2, <1>3 DEF Init, SiteInv, Downloading, Image
<1>7. QED
  BY <1>4, <1>5, <1>6 DEF NamesInv

LEMMA UserNext == TypeOK /\ MutexInv /\ UserInv /\ [Next]_vars => UserInv'
<1> USE DEF userVars, viewVars, timeVars, ghostVars, Downloading, Image
<1>1. SUFFICES ASSUME TypeOK, MutexInv, UserInv, [Next]_vars PROVE UserInv'
  OBVIOUS
<1>2. ASSUME UNCHANGED <<users, hasUser>>, mutex' = mutex \/ mutex = Nobody,
             \A t \in Task : \/ pc'[t] = pc[t]
                             \/ pc'[t] \in {"none", "queued", "locking", "building"}
                             \/ pc'[t] \in Image /\ (pc[t] \in Image \/ mutex = t)
                             \/ users > 0 /\ pc'[t] # "free"
      PROVE  UserInv'
  BY <1>1, <1>2, Named DEF UserInv
<1>3. CASE UNCHANGED vars
  BY <1>2, <1>3 DEF vars
<1>4. CASE Next
  <2>0. fault = "none"
    BY <1>4 DEF Next, Runs
  <2>1. CASE UNCHANGED <<pc, users, hasUser, mutex>>
    BY <1>2, <2>1
  <2>2. CASE loadUser /\ UNCHANGED <<users, hasUser, mutex>>
    BY <1>1, <1>2, <2>0, <2>2, Loading, Named
  <2>3. CASE useUser
    BY <1>1, <1>2, <2>3, Named DEF useUser, TypeOK
  <2>4. CASE userLoaded
    <3>1. userFuture \in Task /\ users > 0
      BY <1>1, <2>4 DEF userLoaded, TypeOK, UserInv
    <3>2. QED
      BY <1>1, <2>4, <3>1, Named DEF userLoaded, TypeOK, UserInv
  <2>5. CASE userListLoaded
    BY <1>1, <1>2, <2>5, Named DEF userListLoaded, TypeOK
  <2>6. ASSUME NEW t \in Task, Finish(t), users > 0, UNCHANGED <<users, hasUser, mutex>>
        PROVE  UserInv'
    BY <1>1, <1>2, <2>6, Named DEF Finish, TypeOK
  <2>7. ASSUME NEW t \in Task, TaskStarts(t) PROVE UserInv'
    <3>1. CASE hasUser /\ Moves(t, "profile")
      BY <1>1, <1>2, <2>7, <3>1, Named DEF TaskStarts, Moves, TypeOK, UserInv
    <3>2. CASE Moves(t, "locking")
      BY <1>1, <1>2, <2>7, <3>2, Named DEF TaskStarts, Moves, TypeOK
    <3>3. QED
      BY <2>6, <2>7, <3>1, <3>2 DEF TaskStarts
  <2>8. ASSUME NEW p \in Thread, Lock(p) PROVE UserInv'
    <3>1. CASE p = Main
      BY <1>1, <1>2, <2>8, <3>1, Named DEF Lock, Used, Moves, TypeOK
    <3>2. CASE p # Main
      <4>1. p \in Task
        BY <3>2 DEF Thread
      <4>2. CASE users > 0
        BY <2>6, <2>8, <3>2, <4>1, <4>2 DEF Lock, Used
      <4>3. CASE ~(users > 0)
        BY <1>1, <1>2, <2>8, <4>1, <4>3, Named DEF Lock, Moves, TypeOK
      <4>4. QED
        BY <4>2, <4>3
    <3>3. QED
      BY <3>1, <3>2
  <2>9. ASSUME NEW p \in Thread, Made(p), UNCHANGED hasUser,
               p = Main \/ users > 0 \/ mutex = p
        PROVE  UserInv'
    <3>1. CASE mutex = p
      <4>1. users' > 0
        BY <1>1, <2>9, <3>1 DEF Made, TypeOK
      <4>2. \A t \in Task : pc'[t] # "free"
        BY <1>1, <2>9, <3>1, Named DEF Made, Used, Moves, Finish, TypeOK, UserInv
      <4>3. QED
        BY <4>1, <4>2 DEF UserInv
    <3>2. CASE mutex # p
      BY <1>1, <1>2, <2>9, <3>2, Named DEF Made, Moves, TypeOK
    <3>3. QED
      BY <3>1, <3>2
  <2>9a. ASSUME NEW p \in Thread, LoadsImage(p), UNCHANGED hasUser,
                p = Main \/ users > 0 \/ mutex = p
         PROVE  UserInv'
    BY <1>1, <1>2, <2>9a, Named DEF LoadsImage, Moves, TypeOK
  <2>9b. ASSUME NEW p \in Thread, Built(p) PROVE UserInv'
    BY <1>1, <2>9, <2>9a, <2>9b DEF Built, MutexInv
  <2>9c. ASSUME NEW t \in Task, remake(t) PROVE UserInv'
    BY <1>1, <2>9, <2>9a, <2>9c, Named DEF remake, UserInv
  <2>9d. ASSUME NEW p \in Thread, ImageArrives(p) \/ ImageFails(p) \/ BoxClosed(p)
         PROVE  UserInv'
    BY <1>1, <1>2, <2>9d, Named
       DEF ImageArrives, ImageFails, BoxClosed, ImageMoves, Moves, TypeOK
  <2>9e. ASSUME NEW p \in Thread, ImageSet(p) PROVE UserInv'
    <3>1. p = Main \/ users > 0 \/ mutex = p
      BY <1>1, <2>9e DEF ImageSet, UserInv, Thread
    <3>2. QED
      BY <2>9, <2>9e, <3>1 DEF ImageSet
  <2>10. ASSUME NEW t \in Task, AskLists(t) \/ ListsArrive(t)
         PROVE  UserInv'
    <3>1. users > 0
      BY <1>1, <2>10 DEF AskLists, ListsArrive, UserInv
    <3>2. QED
      BY <1>1, <1>2, <2>10, <3>1, Named
         DEF AskLists, ListsArrive, Moves, TypeOK
  <2>11. ASSUME NEW t \in Task, CopyLists(t) PROVE UserInv'
    <3>1. users > 0
      BY <1>1, <2>11 DEF CopyLists, UserInv
    <3>2. QED
      BY <2>6, <2>11, <3>1 DEF CopyLists
  <2>12. QED
    BY <1>4, <2>1, <2>2, <2>3, <2>4, <2>5, <2>7, <2>8, <2>9b, <2>9c, <2>9d, <2>9e,
       <2>10, <2>11, Named
       DEF Next, UserActs, MainSteps, CloseSteps, TaskSteps, Makes, verifyAPI, accessGranted,
           accessDenied, actionReload, eventTick, setInterval, listChanged, changeSite,
           elegantClose, EventsDone, FutureWaited, ClosingMoves
<1>5. QED
  BY <1>1, <1>3, <1>4

LEMMA FutureNext == TypeOK /\ FutureInv /\ [Next]_vars => FutureInv'
<1> USE DEF userVars, viewVars, timeVars, ghostVars
<1>1. SUFFICES ASSUME TypeOK, FutureInv, [Next]_vars PROVE FutureInv'
  OBVIOUS
<1>2. ASSUME UNCHANGED <<actionRL, hasUser, userFuture, listFuture>>,
             Granted' => Granted,
             \A t \in Task : pc'[t] = "none" => pc[t] = "none" \/ t # userFuture
      PROVE  FutureInv'
  BY <1>1, <1>2 DEF FutureInv
<1>3. CASE UNCHANGED vars
  BY <1>2, <1>3 DEF vars, Granted
<1>4. CASE Next
  <2>0. fault = "none"
    BY <1>4 DEF Next, Runs
  <2>1. CASE /\ UNCHANGED <<pc, actionRL, hasUser, userFuture, listFuture>>
             /\ Granted' => Granted
    BY <1>2, <2>1
  <2>2. CASE loadUser /\ UNCHANGED <<hasUser, listFuture>>
    <3>1. CASE actionRL
      BY <1>1, <2>0, <2>2, <3>1, Loading, Named DEF FutureInv
    <3>2. CASE ~actionRL
      BY <1>1, <2>0, <2>2, <3>2, Loading DEF FutureInv
    <3>3. QED
      BY <3>1, <3>2
  <2>3. CASE useUser
    BY <1>1, <1>2, <2>3, Named DEF useUser, TypeOK, Granted
  <2>4. CASE userLoaded
    BY <1>1, <2>4 DEF userLoaded, FutureInv
  <2>5. CASE userListLoaded \/ listChanged
    BY <1>1, <2>5 DEF userListLoaded, listChanged, FutureInv
  <2>6. ASSUME NEW p \in Thread, NEW to \in Pc \ {"none"}, Moves(p, to),
               UNCHANGED <<actionRL, hasUser, userFuture, listFuture, auth>>
        PROVE  FutureInv'
    BY <1>1, <1>2, <2>6, Named DEF Moves, TypeOK, Granted
  <2>7. ASSUME NEW t \in Task, Finish(t),
               UNCHANGED <<actionRL, hasUser, userFuture, listFuture, auth>>
        PROVE  FutureInv'
    BY <1>1, <1>2, <2>7, Named DEF Finish, TypeOK, Granted
  <2>8. ASSUME NEW p \in Thread, Used(p),
               UNCHANGED <<actionRL, hasUser, userFuture, listFuture, auth>>
        PROVE  FutureInv'
    BY <2>6, <2>7, <2>8 DEF Used, Pc, Thread
  <2>9. ASSUME NEW p \in Thread, Lock(p) PROVE FutureInv'
    BY <2>6, <2>8, <2>9 DEF Lock, Building, Pc
  <2>9a. ASSUME NEW p \in Thread, Made(p) \/ LoadsImage(p),
                UNCHANGED <<actionRL, hasUser, userFuture, listFuture, auth>>
         PROVE  FutureInv'
    BY <2>6, <2>8, <2>9a DEF Made, LoadsImage, Building, Image, Pc
  <2>9b. ASSUME NEW p \in Thread,
                \/ Built(p) \/ (p \in Task /\ remake(p)) \/ ImageArrives(p)
                \/ ImageFails(p) \/ BoxClosed(p) \/ ImageSet(p)
         PROVE  FutureInv'
    BY <2>6, <2>9a, <2>9b
       DEF Built, remake, ImageArrives, ImageFails, BoxClosed, ImageMoves, ImageSet,
           Building, Image, Pc
  <2>10. ASSUME NEW t \in Task,
                TaskStarts(t) \/ AskLists(t) \/ ListsArrive(t) \/ CopyLists(t)
         PROVE  FutureInv'
    BY <2>6, <2>7, <2>10, Named
       DEF TaskStarts, AskLists, ListsArrive, CopyLists, Pc
  <2>11. CASE \/ verifyAPI \/ accessDenied \/ setInterval \/ changeSite
              \/ elegantClose \/ EventsDone \/ FutureWaited
    BY <2>1, <2>11
       DEF verifyAPI, accessDenied, setInterval, changeSite, elegantClose, EventsDone,
           FutureWaited, ClosingMoves, Granted
  <2>12. CASE eventTick
    BY <2>1, <2>2, <2>12 DEF eventTick, Granted
  <2>13. QED
    BY <1>4, <2>2, <2>3, <2>4, <2>5, <2>9, <2>9b, <2>10, <2>11, <2>12, Named
       DEF Next, UserActs, MainSteps, CloseSteps, TaskSteps, Makes, accessGranted, actionReload
<1>5. QED
  BY <1>1, <1>3, <1>4

LEMMA AnswerNext == TypeOK /\ AnswerInv /\ [Next]_vars => AnswerInv'
<1> USE DEF userVars, viewVars, timeVars, ghostVars
<1>1. SUFFICES ASSUME TypeOK, AnswerInv, [Next]_vars PROVE AnswerInv'
  OBVIOUS
<1>2. ASSUME UNCHANGED answer,
             Granted => Granted',
             \A p \in Thread : token'[p] => token[p] \/ Granted,
             \A t \in Task : pc'[t] = "lists" => pc[t] = "lists"
      PROVE  AnswerInv'
  BY <1>1, <1>2 DEF AnswerInv
<1>3. CASE UNCHANGED vars
  BY <1>2, <1>3 DEF vars, Granted
<1>4. CASE Next
  <2>0. fault = "none"
    BY <1>4 DEF Next, Runs
  <2>1. CASE UNCHANGED <<pc, token, answer>> /\ (Granted => Granted')
    BY <1>2, <2>1
  <2>2. CASE loadUser /\ UNCHANGED <<token, answer>> /\ (Granted => Granted')
    BY <1>1, <1>2, <2>0, <2>2, Loading, Named
  <2>3. CASE useUser \/ userLoaded \/ userListLoaded
    <3>1. UNCHANGED <<token, answer>> /\ (Granted => Granted')
      BY <2>3 DEF useUser, userLoaded, userListLoaded, Granted
    <3>2. \A t \in Task : pc'[t] = "lists" => pc[t] = "lists"
      BY <1>1, <2>3, Named DEF useUser, userLoaded, userListLoaded, TypeOK
    <3>3. QED
      BY <1>2, <3>1, <3>2
  <2>4. ASSUME NEW p \in Thread,
               Used(p) \/ (\E to \in Pc \ {"lists"} : Moves(p, to)),
               UNCHANGED <<answer, auth>>,
               \A q \in Thread : token'[q] => token[q] \/ Granted
        PROVE  AnswerInv'
    <3>1. \A t \in Task : pc'[t] = "lists" => pc[t] = "lists"
      BY <1>1, <2>4, Named DEF Used, Moves, Finish, TypeOK
    <3>2. QED
      BY <1>2, <2>4, <3>1 DEF Granted
  <2>5. ASSUME NEW t \in Task, TaskStarts(t) PROVE AnswerInv'
    <3>1. \A q \in Thread : token'[q] => token[q] \/ Granted
      BY <1>1, <2>5 DEF TaskStarts, TypeOK
    <3>2. Finish(t) => Used(t)
      BY Named DEF Used
    <3>3. QED
      BY <2>4, <2>5, <3>1, <3>2, Named DEF TaskStarts, Pc
  <2>6. ASSUME NEW p \in Thread, Lock(p) PROVE AnswerInv'
    <3>1. \A q \in Thread : token'[q] => token[q] \/ Granted
      BY <1>1, <2>6 DEF Lock, TypeOK
    <3>2. QED
      BY <2>4, <2>6, <3>1 DEF Lock, Building, Pc
  <2>7. ASSUME NEW p \in Thread,
               \/ Built(p) \/ (p \in Task /\ remake(p)) \/ ImageArrives(p)
               \/ ImageFails(p) \/ BoxClosed(p) \/ ImageSet(p)
        PROVE  AnswerInv'
    <3>1. UNCHANGED <<answer, auth>> /\ \A q \in Thread : token'[q] => token[q]
      BY <1>1, <2>7
         DEF Built, remake, ProfileArrives, ImageArrives, ImageFails, BoxClosed,
             ImageMoves, ImageSet, TypeOK
    <3>2. \/ Made(p) \/ LoadsImage(p) \/ Moves(p, "imaged") \/ Moves(p, "box")
      BY <2>7 DEF Built, remake, ImageArrives, ImageFails, BoxClosed, ImageSet
    <3>3. Used(p) \/ (\E to \in Pc \ {"lists"} : Moves(p, to))
      BY <3>2 DEF Made, LoadsImage, Building, Image, Pc
    <3>4. QED
      BY <2>4, <3>1, <3>3
  <2>9. ASSUME NEW t \in Task, AskLists(t) PROVE AnswerInv'
    <3>1. \A u \in Task : u # t => pc'[u] = pc[u] /\ answer'[u] = answer[u]
      BY <1>1, <2>9, Named DEF AskLists, Moves, TypeOK
    <3>2. answer'[t].lists = <<>>
      BY <1>1, <2>9 DEF AskLists, NoAnswer, TypeOK
    <3>3. QED
      BY <1>1, <2>9, <3>1, <3>2 DEF AskLists, AnswerInv, Granted
  <2>10. ASSUME NEW t \in Task, ListsArrive(t) PROVE AnswerInv'
    <3>1. \A u \in Task : u # t => pc'[u] = pc[u] /\ answer'[u] = answer[u]
      BY <1>1, <2>10, Named DEF ListsArrive, Moves, TypeOK
    <3>2. pc'[t] = "copy"
      BY <1>1, <2>10, Named DEF ListsArrive, Moves, TypeOK
    <3>3. QED
      BY <1>1, <2>10, <3>1, <3>2 DEF ListsArrive, AnswerInv, Granted
  <2>11. ASSUME NEW t \in Task, CopyLists(t) PROVE AnswerInv'
    <3>1. \A u \in Task : u # t => pc'[u] = pc[u] /\ answer'[u] = answer[u]
      BY <1>1, <2>11, Named DEF CopyLists, Finish, TypeOK
    <3>2. pc'[t] # "lists"
      BY <1>1, <2>11, Named DEF CopyLists, Finish, TypeOK
    <3>3. QED
      BY <1>1, <2>11, <3>1, <3>2 DEF CopyLists, AnswerInv, Granted
  <2>12. CASE \/ verifyAPI \/ accessDenied \/ setInterval \/ listChanged \/ changeSite
              \/ elegantClose \/ EventsDone \/ FutureWaited
    BY <2>1, <2>12
       DEF verifyAPI, accessDenied, setInterval, listChanged, changeSite, elegantClose,
           EventsDone, FutureWaited, ClosingMoves, Granted
  <2>13. CASE accessGranted \/ actionReload \/ eventTick
    BY <2>1, <2>2, <2>13 DEF accessGranted, actionReload, eventTick, Granted
  <2>14. QED
    BY <1>4, <2>3, <2>5, <2>6, <2>7, <2>9, <2>10, <2>11, <2>12, <2>13, Named
       DEF Next, UserActs, MainSteps, CloseSteps, TaskSteps, Makes
<1>5. QED
  BY <1>1, <1>3, <1>4

LEMMA SiteNext ==
    TypeOK /\ MutexInv /\ NamesInv /\ [Next]_vars => SiteInv'
<1> USE DEF userVars, viewVars, timeVars, ghostVars, Downloading, Image
<1>1. SUFFICES ASSUME TypeOK, MutexInv, NamesInv, [Next]_vars, ~crossed', ~failed'
               PROVE  SiteInv'
  BY DEF SiteInv
<1>2. ASSUME UNCHANGED <<site, profile, users, user_lists, crossed, failed>>,
             hasUser => hasUser', Granted => Granted', fault' # "index",
             \A t \in Task : /\ pc'[t] \in Downloading =>
                                 \/ pc[t] \in Downloading
                                 \/ users > 0 /\ ~hasUser
                                 \/ profile.lists = site
                             /\ pc'[t] = "copy" => pc[t] = "copy" /\ answer'[t] = answer[t],
             \A p \in Thread : pc'[p] \in Image => pc[p] \in Image
      PROVE  SiteInv'
  BY <1>1, <1>2 DEF NamesInv, SiteInv
<1>3. CASE UNCHANGED vars
  BY <1>1, <1>3 DEF vars, NamesInv, SiteInv, Granted
<1>4. CASE Next
  <2>0. fault = "none"
    BY <1>4 DEF Next, Runs
  <2>1. CASE /\ UNCHANGED <<pc, answer, site, profile, users, user_lists, crossed, failed,
                            hasUser, fault>>
             /\ Granted => Granted'
    BY <1>2, <2>0, <2>1
  <2>2. CASE /\ loadUser
             /\ UNCHANGED <<answer, site, profile, users, user_lists, crossed, failed,
                            hasUser>>
             /\ Granted => Granted'
    BY <1>1, <1>2, <2>0, <2>2, Loading, Named
  <2>3. CASE useUser \/ userListLoaded
    BY <1>1, <1>2, <2>0, <2>3, Named DEF useUser, userListLoaded, TypeOK, Granted
  <2>4. CASE userLoaded
    <3>1. userFuture \in Task /\ users > 0
      BY <1>1, <2>4 DEF userLoaded, TypeOK, NamesInv, UserInv
    <3>2. \A p \in Thread : p # userFuture => pc'[p] = pc[p]
      BY <1>1, <2>4, <3>1, Named DEF userLoaded, TypeOK
    <3>3. IF hasUser THEN pc'[userFuture] = "none" ELSE pc'[userFuture] = "ask"
      BY <1>1, <2>4, <3>1, Named DEF userLoaded, TypeOK
    <3>4. fault' # "index" /\ hasUser'
      BY <2>0, <2>4 DEF userLoaded, Registers
    <3>5. QED
      BY <1>1, <1>2, <2>4, <3>1, <3>2, <3>3, <3>4, Named DEF userLoaded, Granted
  <2>5. ASSUME NEW t \in Task, TaskStarts(t) PROVE SiteInv'
    <3>1. /\ \A u \in Task : pc'[u] \in Downloading =>
                               pc[u] \in Downloading /\ pc'[u] = pc[u]
          /\ \A q \in Thread : pc'[q] \in Image => pc[q] \in Image
      BY <1>1, <2>5, Named DEF TaskStarts, Moves, Finish, TypeOK
    <3>2. QED
      BY <1>2, <2>0, <2>5, <3>1 DEF TaskStarts, Granted
  <2>6. ASSUME NEW p \in Thread, Lock(p) PROVE SiteInv'
    <3>1. /\ \A u \in Task : pc'[u] \in Downloading =>
                               pc[u] \in Downloading /\ pc'[u] = pc[u]
          /\ \A q \in Thread : pc'[q] \in Image => pc[q] \in Image
      BY <1>1, <2>6, Named DEF Lock, Used, Moves, Finish, TypeOK
    <3>2. QED
      BY <1>2, <2>0, <2>6, <3>1 DEF Lock, Granted
  <2>7. ASSUME UNCHANGED <<site, user_lists, answer, crossed, failed, hasUser, auth,
                           fault>>,
               Granted, profile'.lists = site,
               \A u \in Task : pc'[u] = "copy" => pc[u] = "copy"
        PROVE  SiteInv'
    BY <1>1, <2>0, <2>7 DEF NamesInv, SiteInv, Granted
  <2>7a. ASSUME NEW p \in Thread,
                Made(p) \/ (\E to \in {"image", "box", "imaged"} : Moves(p, to))
         PROVE  \A u \in Task : pc'[u] = "copy" => pc[u] = "copy"
    BY <1>1, <2>7a, Named DEF Made, Used, Moves, Finish, TypeOK
  <2>8. ASSUME NEW p \in Thread, Built(p) \/ (p \in Task /\ remake(p)) PROVE SiteInv'
    <3>1. token[p] /\ profile'.lists = site /\ UNCHANGED <<crossed, failed>>
      BY <1>1, <2>8 DEF Built, remake, ProfileArrives
    <3>2. Granted
      BY <1>1, <3>1 DEF NamesInv, AnswerInv
    <3>3. \A u \in Task : pc'[u] = "copy" => pc[u] = "copy"
      BY <2>7a, <2>8 DEF Built, remake, LoadsImage
    <3>4. QED
      BY <2>7, <2>8, <3>1, <3>2, <3>3 DEF Built, remake
  <2>8a. ASSUME NEW p \in Thread,
                ImageArrives(p) \/ ImageFails(p) \/ BoxClosed(p) \/ ImageSet(p)
         PROVE  SiteInv'
    <3>1. /\ pc[p] \in Image
          /\ UNCHANGED <<site, profile, user_lists, answer, crossed, failed, hasUser,
                         auth, fault>>
      BY <2>8a DEF ImageArrives, ImageFails, BoxClosed, ImageSet, ImageMoves
    <3>2. Granted /\ profile.lists = site
      BY <1>1, <3>1 DEF NamesInv, SiteInv
    <3>3. \A u \in Task : pc'[u] = "copy" => pc[u] = "copy"
      BY <2>7a, <2>8a DEF ImageArrives, ImageFails, BoxClosed, ImageSet
    <3>4. QED
      BY <2>7, <3>1, <3>2, <3>3
  <2>9. ASSUME NEW t \in Task, AskLists(t) PROVE SiteInv'
    <3>1. /\ \A u \in Task : u # t => pc'[u] = pc[u] /\ answer'[u] = answer[u]
          /\ \A q \in Thread : pc'[q] \in Image => pc[q] \in Image
      BY <1>1, <2>9, Named DEF AskLists, Moves, TypeOK
    <3>2. pc'[t] = "lists" /\ pc[t] = "ask"
      BY <1>1, <2>9, Named DEF AskLists, Moves, TypeOK
    <3>3. QED
      BY <1>2, <2>0, <2>9, <3>1, <3>2 DEF AskLists, Granted
  <2>10. ASSUME NEW t \in Task, ListsArrive(t) PROVE SiteInv'
    <3>1. /\ \A u \in Task : u # t => pc'[u] = pc[u] /\ answer'[u] = answer[u]
          /\ \A q \in Thread : pc'[q] \in Image => pc[q] \in Image
      BY <1>1, <2>10, Named DEF ListsArrive, Moves, TypeOK
    <3>2. pc'[t] = "copy" /\ pc[t] = "lists"
      BY <1>1, <2>10, Named DEF ListsArrive, Moves, TypeOK
    <3>3. answer'[t].lists \in {<<>>, site}
      <4>1. answer[t].lists = <<>>
        BY <1>1, <3>2 DEF NamesInv, AnswerInv
      <4>2. QED
        BY <1>1, <2>10, <4>1 DEF ListsArrive, TypeOK
    <3>4. QED
      BY <1>1, <2>0, <2>10, <3>1, <3>2, <3>3 DEF ListsArrive, NamesInv, SiteInv, Granted
  <2>11. ASSUME NEW t \in Task, CopyLists(t) PROVE SiteInv'
    <3>1. /\ UNCHANGED <<site, profile, users, hasUser, auth, crossed, failed>>
          /\ ~crossed /\ ~failed /\ pc[t] = "copy"
      BY <1>1, <2>11 DEF CopyLists
    <3>2. profile.lists = site /\ answer[t].lists \in {<<>>, site}
      BY <1>1, <3>1 DEF NamesInv, SiteInv
    <3>3. site \in Seq(Custom) /\ Len(site) \in Nat /\ DOMAIN site = 1..Len(site)
      BY <1>1, SessionAssumption DEF TypeOK
    <3>4. ~(Len(answer[t].lists) > Len(site))
      BY <3>2, <3>3
    <3>5. fault' # "index"
      BY <2>11, <3>2, <3>4 DEF CopyLists
    <3>6. ASSUME NEW n \in Custom PROVE user_lists'[n] \in {n, NoList}
      <4>1. user_lists[n] \in {n, NoList}
        BY <1>1, <3>1 DEF NamesInv, SiteInv
      <4>2. CASE \E k \in DOMAIN site : site[k] = n
        <5> DEFINE k == CHOOSE k \in DOMAIN site : site[k] = n
        <5>1. k \in DOMAIN site /\ site[k] = n
          BY <4>2
        <5>2. user_lists'[n] = IF k \in DOMAIN answer[t].lists
                               THEN answer[t].lists[k] ELSE NoList
          BY <2>11, <3>2, <4>2 DEF CopyLists
        <5> HIDE DEF k
        <5>3. DOMAIN <<>> = {}
          OBVIOUS
        <5>4. QED
          BY <3>2, <5>1, <5>2, <5>3
      <4>3. CASE ~\E k \in DOMAIN site : site[k] = n
        BY <2>11, <3>2, <4>1, <4>3 DEF CopyLists
      <4>4. QED
        BY <4>2, <4>3
    <3>7. /\ \A u \in Task : u # t => pc'[u] = pc[u] /\ answer'[u] = answer[u]
          /\ \A q \in Thread : pc'[q] \in Image => pc[q] \in Image
      BY <1>1, <2>11, Named DEF CopyLists, Finish, TypeOK
    <3>8. pc'[t] \notin Downloading
      BY <1>1, <2>11, Named DEF CopyLists, Finish, TypeOK
    <3>9. QED
      BY <1>1, <3>1, <3>5, <3>6, <3>7, <3>8 DEF NamesInv, SiteInv, Granted
  <2>12. CASE changeSite
    <3>1. /\ UNCHANGED <<pc, profile, users, user_lists, failed, hasUser, auth, fault>>
          /\ ~crossed /\ \A p \in Thread : pc[p] \in {"none", "free"}
      BY <1>1, <2>12 DEF changeSite
    <3>2. \A t \in Task : pc[t] = "none"
      BY <1>1, <3>1, Named DEF NamesInv, UserInv
    <3>3. ~(users > 0 /\ ~hasUser)
      BY <1>1, <3>1, <3>2 DEF NamesInv, FutureInv, SiteInv
    <3>4. QED
      BY <1>1, <2>0, <3>1, <3>2, <3>3 DEF NamesInv, SiteInv
  <2>13. CASE \/ verifyAPI \/ accessDenied \/ setInterval \/ listChanged
              \/ elegantClose \/ EventsDone \/ FutureWaited
    BY <2>1, <2>13
       DEF verifyAPI, accessDenied, setInterval, listChanged, elegantClose, EventsDone,
           FutureWaited, ClosingMoves, Granted
  <2>14. CASE accessGranted \/ actionReload \/ eventTick
    BY <2>1, <2>2, <2>14 DEF accessGranted, actionReload, eventTick, Granted
  <2>15. QED
    BY <1>4, <2>3, <2>4, <2>5, <2>6, <2>8, <2>8a, <2>9, <2>10, <2>11, <2>12, <2>13, <2>14,
       Named DEF Next, UserActs, MainSteps, CloseSteps, TaskSteps, Makes
<1>5. QED
  BY <1>3, <1>4, <1>1

(* Every custom list is shown under its own name, and no index is out of    *)
(* the range of the names of the profile, unless a change on the site       *)
(* crossed a download or a profile did not come: what User::remake and      *)
(* User::fetchUpdatedList leave to User::loadUserList.                      *)
THEOREM NamesFit == Spec => []ListsUnderTheirNames
<1> DEFINE Inv == TypeOK /\ MutexInv /\ NamesInv
<1>1. Init => Inv
  BY TypeInit, MutexInit, NamesInit
<1>2. Inv /\ [Next]_vars => Inv'
  <2>1. Inv /\ [Next]_vars => NamesInv'
    BY UserNext, FutureNext, AnswerNext, SiteNext DEF NamesInv
  <2>2. QED
    BY <2>1, TypeNext, MutexNext
<1>3. Inv => ListsUnderTheirNames
  BY DEF NamesInv, SiteInv, ListsUnderTheirNames
<1>4. QED
  BY <1>1, <1>2, <1>3, PTL DEF Spec

=============================================================================
