------------------------- MODULE AnimeLoaderProofs -------------------------
(***************************************************************************)
(* Proofs about AnimeLoader, for every number of anime, tasks, pool        *)
(* threads and requests.                                                   *)
(***************************************************************************)
EXTENDS AnimeLoader, TLAPS, SequenceTheorems

(* Every step of the program is one of these.                               *)
LEMMA Steps ==
    ASSUME Next
    PROVE  \/ \E a \in Anime, c, w \in BOOLEAN : a \in live /\ ReadSize(a, c, w)
           \/ \E a \in Anime : Remove(a)
           \/ Push \/ (\E t \in Task : Run(t)) \/ AppendFuture
           \/ ConnectAndExec \/ LoopReturns
           \/ Close \/ QuitSteps
           \/ \E t \in Task : LoadNext(t)
<1>1. ASSUME NEW a \in Anime,
             QueueLoad(a) \/ ReloadAfterEpisode(a) \/ SearchLoad(a) \/ BrowserLoad(a)
      PROVE  \E c, w \in BOOLEAN : a \in live /\ ReadSize(a, c, w)
  <2>1. PICK c, w \in BOOLEAN : ReadSize(a, c, w)
    BY <1>1 DEF QueueLoad, ReloadAfterEpisode, SearchLoad, BrowserLoad
  <2>2. a \in live
    BY <2>1 DEF ReadSize
  <2> QED
    BY <2>1, <2>2
<1> QED
  BY <1>1 DEF Next, Calls, MainSteps

-----------------------------------------------------------------------------
(* The type invariant needs three facts to be inductive: a request of the   *)
(* main thread is one, and who is about to register a future has one.       *)
TypeInv ==
    /\ TypeOK
    /\ main.pc # "idle" => main.req \in Request
    /\ main.pc = "append" => main.task \in Task
    /\ \A t \in Task : phase[t] = "append" => child[t] \in Task

LEMMA InitTypeInv == Init => TypeInv
<1> SUFFICES ASSUME Init PROVE TypeInv
  OBVIOUS
<1> USE LoaderAssumption DEF Init
<1>1. main \in MainState /\ main.pc = "idle"
  BY DEF MainIdle, MainState, MainPc, RequestOrNone
<1>2. phase \in [Task -> Phase] /\ \A t \in Task : phase[t] # "append"
  BY DEF Phase
<1>3. held \in [Task -> RequestOrNone]
  BY DEF RequestOrNone
<1>4. queue \in Seq(Request) /\ loops \in Seq(Loop)
  OBVIOUS
<1>5. requests \in 0..MaxRequests
  OBVIOUS
<1> QED
  BY <1>1, <1>2, <1>3, <1>4, <1>5 DEF TypeInv, TypeOK

LEMMA StepTypeInv == TypeInv /\ [Next]_vars => TypeInv'
<1> SUFFICES ASSUME TypeInv, [Next]_vars PROVE TypeInv'
  OBVIOUS
<1> USE LoaderAssumption
<1>1. CASE UNCHANGED vars
  BY <1>1 DEF vars, workerVars, objectVars, quitVars, ghostVars, TypeInv, TypeOK
<1> USE DEF TypeInv, TypeOK
<1>2. ASSUME NEW a \in Anime, NEW c \in BOOLEAN, NEW w \in BOOLEAN, ReadSize(a, c, w)
      PROVE  TypeInv'
  BY <1>2 DEF ReadSize, workerVars, objectVars, quitVars, ghostVars,
              MainState, MainPc, RequestOrNone, Request
<1>3. ASSUME NEW a \in Anime, Remove(a) PROVE TypeInv'
  BY <1>3 DEF Remove, workerVars, objectVars, quitVars, ghostVars
<1>4. ASSUME main.pc # "idle"
      PROVE  /\ MainAfterQueueing \in MainState
             /\ MainAfterQueueing.pc \in {"idle", "connect"}
             /\ MainAfterQueueing.pc # "idle" => MainAfterQueueing.req \in Request
  BY <1>4 DEF MainAfterQueueing, MainIdle, MainState, MainPc, RequestOrNone
<1>5. CASE Push
  <2>1. queue' \in Seq(Request)
    BY <1>5 DEF Push
  <2>2. main' \in MainState /\ main'.pc # "append"
        /\ (main'.pc # "idle" => main'.req \in Request)
    BY <1>4, <1>5 DEF Push, MainState, MainPc
  <2> QED
    BY <1>5, <2>1, <2>2 DEF Push, workerVars, objectVars, quitVars, ghostVars
<1>6. ASSUME NEW t \in Task, Run(t) PROVE TypeInv'
  <2>1. main' \in MainState /\ main'.task = t /\ main'.req = main.req
    BY <1>6 DEF Run, MainState, MainPc
  <2>2. phase' \in [Task -> Phase]
        /\ \A u \in Task : phase'[u] = "append" => phase[u] = "append"
    BY <1>6 DEF Run, Phase, Active, BeforePop
  <2> QED
    BY <1>6, <2>1, <2>2 DEF Run, objectVars, quitVars
<1>7. CASE AppendFuture
  <2>1. phase' \in [Task -> Phase]
        /\ \A u \in Task : phase'[u] = "append" => phase[u] = "append"
    BY <1>7 DEF AppendFuture, Register, Phase
  <2>2. async_registry' \in SUBSET Task
    BY <1>7 DEF AppendFuture, Register
  <2>3. main' \in MainState /\ main'.pc # "append"
        /\ (main'.pc # "idle" => main'.req \in Request)
    BY <1>4, <1>7 DEF AppendFuture
  <2> QED
    BY <1>7, <2>1, <2>2, <2>3 DEF AppendFuture, objectVars, quitVars, ghostVars
<1>8. CASE ConnectAndExec
  BY <1>8 DEF ConnectAndExec, MainIdle, workerVars, objectVars, quitVars, ghostVars,
              MainState, MainPc, RequestOrNone, Request, NoRequest, Loop
<1>9. CASE LoopReturns
  <2>1. loops' \in Seq(Loop)
    BY <1>9 DEF LoopReturns
  <2> QED
    BY <1>9, <2>1 DEF LoopReturns, workerVars, objectVars, quitVars, ghostVars
<1>10. CASE Close
  BY <1>10 DEF Close, Quit, workerVars, objectVars, ghostVars
<1>11. CASE QuitSteps
  <2>1. CASE AboutToQuit
    BY <2>1 DEF AboutToQuit, Quit, workerVars, objectVars, ghostVars
  <2>2. CASE QuitFinished
    BY <2>2 DEF QuitFinished, workerVars, objectVars, ghostVars
  <2>3. CASE (\E t \in Task : QuitVisits(t)) \/ EventsDone \/ QuitWaited
    BY <2>3 DEF QuitVisits, EventsDone, QuitWaited, QuitMoves,
                workerVars, objectVars, ghostVars
  <2> QED
    BY <1>11, <2>1, <2>2, <2>3 DEF QuitSteps
<1>12. ASSUME NEW t \in Task, LoadNext(t) PROVE TypeInv'
  <2>1. CASE Start(t)
    BY <2>1 DEF Start, Moves, Phase, Active, BeforePop, objectVars, quitVars, ghostVars
  <2>2. CASE CheckSize(t)
    <3>1. held' \in [Task -> RequestOrNone] /\ missed' \in BOOLEAN
      BY <2>2 DEF CheckSize, Ends, NoticeMissedPush, RequestOrNone
    <3>2. phase' \in [Task -> Phase]
          /\ \A u \in Task : phase'[u] = "append" => phase[u] = "append"
      BY <2>2 DEF CheckSize, Ends, Moves, Phase, Active, BeforePop
    <3>3. /\ async_registry' \in SUBSET Task
          /\ toWait' \in SUBSET Task
          /\ unregistered' \in SUBSET Task
      BY <2>2 DEF CheckSize, Ends
    <3> QED
      BY <2>2, <3>1, <3>2, <3>3 DEF CheckSize, objectVars
  <2>3. CASE CheckCancel(t)
    BY <2>3 DEF CheckCancel, Ends, Moves, Phase, Active, BeforePop,
                objectVars, ghostVars, RequestOrNone
  <2>4. CASE Front(t)
    BY <2>4 DEF Front, Moves, Phase, Active, BeforePop, objectVars, quitVars,
                ghostVars, RequestOrNone
  <2>5. CASE Pop(t)
    BY <2>5 DEF Pop, Moves, Phase, Active, Working, objectVars, quitVars, ghostVars
  <2>6. CASE Get(t)
    BY <2>6 DEF Get, Moves, Touches, Phase, Active, Working, quitVars, ghostVars
  <2>7. CASE CoverArrives(t)
    BY <2>7 DEF CoverArrives, Moves, Touches, Phase, Active, Working,
                objectVars, quitVars, ghostVars
  <2>7a. CASE CoverFails(t)
    BY <2>7a DEF CoverFails, Moves, Phase, Active, Working, objectVars,
                 quitVars, ghostVars
  <2>7b. CASE BoxClosed(t)
    BY <2>7b DEF BoxClosed, Moves, Touches, Phase, Active, Working,
                 objectVars, quitVars, ghostVars
  <2>8. CASE Emit(t)
    <3>1. \A l \in Loop : Told(l, held[t].anime) \in Loop
      BY DEF Told, Loop
    <3>2. loops' \in Seq(Loop)
      BY <2>8, <3>1 DEF Emit
    <3> QED
      BY <2>8, <3>2 DEF Emit, Moves, Touches, Phase, Active, Working, objectVars, quitVars
  <2>9. CASE ClearNeedLoad(t)
    BY <2>9 DEF ClearNeedLoad, Moves, Touches, Phase, Active, RequestOrNone,
                quitVars, ghostVars
  <2>10. ASSUME NEW s \in Task, TailStarts(t, s) PROVE TypeInv'
    <3>1. /\ phase' \in [Task -> Phase]
          /\ child' \in [Task -> Task \cup {NoTask}]
      BY <2>10 DEF TailStarts, Phase, Active, BeforePop
    <3> QED
      BY <2>10, <3>1 DEF TailStarts, objectVars, quitVars, ghostVars
  <2>11. CASE TailEnds(t)
    BY <2>11 DEF TailEnds, Ends, NoticeMissedPush, Phase, objectVars, RequestOrNone
  <2>12. CASE TailAppends(t)
    <3>1. child[t] \in Task
      BY <2>12 DEF TailAppends
    <3>2. phase' \in [Task -> Phase]
          /\ \A u \in Task : phase'[u] = "append" => phase[u] = "append" /\ u # t
      BY <2>12, <3>1 DEF TailAppends, Phase
    <3>3. async_registry' \in SUBSET Task
      BY <2>12, <3>1 DEF TailAppends
    <3> QED
      BY <2>12, <3>2, <3>3 DEF TailAppends, objectVars, ghostVars
  <2> QED
    BY <1>12, <2>1, <2>2, <2>3, <2>4, <2>5, <2>6, <2>7, <2>7a, <2>7b, <2>8,
       <2>9, <2>10, <2>11, <2>12 DEF LoadNext
<1>13. CASE Next
  <2> HIDE DEF TypeInv, TypeOK
  <2> QED
    BY <1>2, <1>3, <1>5, <1>6, <1>7, <1>8, <1>9, <1>10, <1>11, <1>12, <1>13, Steps
<1> QED
  BY <1>1, <1>13

(* Type correctness: User::queue holds requests, every task is at a line of *)
(* loadNext, the futures quit() waits for belong to tasks.                  *)
THEOREM TypeCorrect == Spec => []TypeOK
<1>1. TypeInv => TypeOK
  BY DEF TypeInv
<1> QED
  BY <1>1, InitTypeInv, StepTypeInv, PTL DEF Spec

-----------------------------------------------------------------------------
(* Stranded requests.  While no chain ended in the window of a push and     *)
(* quit() was not called, a non-empty queue has somebody to look at it, and *)
(* so has the queue main is about to push to because it saw it non-empty.   *)
SomeActive == \E t \in Task : phase[t] \in Active

Attended ==
    ~missed /\ ~cancel =>
        /\ queue # <<>> => SomeActive \/ main.pc = "run"
        /\ main.pc = "push" /\ ~main.sawEmpty => SomeActive

(* A step of loadNext leaves a task active or has seen an empty queue, or   *)
(* the cancel flag.                                                         *)
LEMMA LoadNextStaysActive ==
    ASSUME TypeInv, NEW t \in Task, LoadNext(t), SomeActive
    PROVE  \/ SomeActive'
           \/ cancel
           \/ queue = <<>> /\ queue' = <<>> /\ NoticeMissedPush
<1> USE DEF TypeInv, TypeOK
<1>1. ASSUME NEW u \in Task, phase'[u] \in Active PROVE SomeActive'
  BY <1>1 DEF SomeActive
<1>2. CASE \/ Start(t) \/ Front(t) \/ Pop(t) \/ Get(t) \/ CoverArrives(t)
           \/ CoverFails(t) \/ BoxClosed(t)
           \/ Emit(t) \/ ClearNeedLoad(t)
  <2>1. phase'[t] \in Active
    BY <1>2 DEF Start, Front, Pop, Get, CoverArrives, CoverFails, BoxClosed,
       Emit, ClearNeedLoad, Moves,
                Active, BeforePop, Working
  <2> QED
    BY <2>1, <1>1
<1>3. CASE CheckSize(t)
  <2>1. CASE queue = <<>>
    BY <1>3, <2>1 DEF CheckSize
  <2>2. CASE queue # <<>>
    <3>1. phase'[t] \in Active
      BY <1>3, <2>2 DEF CheckSize, Moves, Active, BeforePop
    <3> QED
      BY <3>1, <1>1
  <2> QED
    BY <2>1, <2>2
<1>4. CASE CheckCancel(t)
  <2>1. ~cancel => phase'[t] \in Active
    BY <1>4 DEF CheckCancel, Moves, Active, BeforePop
  <2> QED
    BY <2>1, <1>1
<1>5. ASSUME NEW s \in Task, TailStarts(t, s) PROVE SomeActive'
  <2>1. phase'[s] \in Active
    BY <1>5 DEF TailStarts, Active, BeforePop
  <2> QED
    BY <2>1, <1>1
<1>6. CASE TailEnds(t)
  BY <1>6 DEF TailEnds
<1>7. CASE TailAppends(t)
  <2>1. PICK u \in Task : phase[u] \in Active
    BY DEF SomeActive
  <2>2. phase[u] # "append" /\ phase[u] # "finished"
    BY <2>1 DEF Active, BeforePop, Working
  <2>3. phase'[u] = phase[u]
    BY <1>7, <2>2 DEF TailAppends
  <2> QED
    BY <2>1, <2>3, <1>1
<1> QED
  BY <1>2, <1>3, <1>4, <1>5, <1>6, <1>7 DEF LoadNext

LEMMA StepAttended == TypeInv /\ Attended /\ [Next]_vars => Attended'
<1> SUFFICES ASSUME TypeInv, Attended, [Next]_vars, ~missed', ~cancel'
             PROVE  /\ queue' # <<>> => SomeActive' \/ main'.pc = "run"
                    /\ main'.pc = "push" /\ ~main'.sawEmpty => SomeActive'
  BY DEF Attended
<1> USE DEF Attended
<1>1. CASE UNCHANGED vars
  BY <1>1 DEF vars, workerVars, quitVars, ghostVars, SomeActive
<1>2. ASSUME NEW a \in Anime, NEW c \in BOOLEAN, NEW w \in BOOLEAN, ReadSize(a, c, w)
      PROVE  /\ queue' # <<>> => SomeActive' \/ main'.pc = "run"
             /\ main'.pc = "push" /\ ~main'.sawEmpty => SomeActive'
  BY <1>2 DEF ReadSize, HandlesEvents, workerVars, quitVars, ghostVars, SomeActive
<1>3. ASSUME NEW a \in Anime, Remove(a)
      PROVE  /\ queue' # <<>> => SomeActive' \/ main'.pc = "run"
             /\ main'.pc = "push" /\ ~main'.sawEmpty => SomeActive'
  BY <1>3 DEF Remove, HandlesEvents, workerVars, quitVars, SomeActive
<1>4. CASE Push
  BY <1>4 DEF Push, MainAfterQueueing, MainIdle, workerVars, quitVars, ghostVars,
              SomeActive, TypeInv, TypeOK, MainState
<1>5. ASSUME NEW t \in Task, Run(t)
      PROVE  SomeActive'
  BY <1>5 DEF Run, SomeActive, TypeInv, TypeOK, Active, BeforePop
<1>6. CASE AppendFuture
  <2>1. SomeActive => SomeActive'
    BY <1>6 DEF AppendFuture, Register, SomeActive, Active, BeforePop, Working,
       TypeInv, TypeOK
  <2> QED
    BY <1>6, <2>1 DEF AppendFuture, MainAfterQueueing, MainIdle, quitVars, ghostVars,
                      TypeInv, TypeOK, MainState
<1>7. CASE ConnectAndExec \/ LoopReturns
  BY <1>7 DEF ConnectAndExec, LoopReturns, HandlesEvents, MainIdle, workerVars,
              quitVars, ghostVars, SomeActive
<1>8. CASE Close
  BY <1>8 DEF Close, Quit
<1>9. CASE QuitSteps
  BY <1>9 DEF QuitSteps, AboutToQuit, Quit, QuitVisits, EventsDone, QuitWaited,
     QuitFinished,
              QuitMoves, workerVars, ghostVars, SomeActive
<1>10. ASSUME NEW t \in Task, LoadNext(t)
       PROVE  /\ queue' # <<>> => SomeActive' \/ main'.pc = "run"
              /\ main'.pc = "push" /\ ~main'.sawEmpty => SomeActive'
  <2>1. main' = main /\ cancel' = cancel
    BY <1>10 DEF LoadNext, Start, CheckSize, CheckCancel, Front, Pop, Get,
         CoverArrives, CoverFails, BoxClosed, Emit, ClearNeedLoad, TailStarts,
         TailEnds, TailAppends, quitVars
  <2>2. missed => missed'
    BY <1>10 DEF LoadNext, Start, CheckSize, CheckCancel, Front, Pop, Get,
         CoverArrives, CoverFails, BoxClosed, Emit, ClearNeedLoad, TailStarts,
         TailEnds, TailAppends,
         NoticeMissedPush, ghostVars
  <2>3. queue' # <<>> => queue # <<>>
    <3>1. Pop(t) \/ queue' = queue
      BY <1>10 DEF LoadNext, Start, CheckSize, CheckCancel, Front, Get,
           CoverArrives, CoverFails, BoxClosed, Emit, ClearNeedLoad,
           TailStarts, TailEnds, TailAppends
    <3> QED
      BY <3>1 DEF Pop
  <2>4. SomeActive => SomeActive' \/ (queue' = <<>> /\ NoticeMissedPush)
    BY <1>10, <2>1, LoadNextStaysActive
  <2> QED
    BY <2>1, <2>2, <2>3, <2>4 DEF NoticeMissedPush
<1>11. CASE Next
  <2> HIDE DEF Attended
  <2> QED
    BY <1>2, <1>3, <1>4, <1>5, <1>6, <1>7, <1>8, <1>9, <1>10, <1>11, Steps
<1> QED
  BY <1>1, <1>11

(* No request is ever stranded unless the unlocked size()/push() pair of    *)
(* loadAnimeData lost the race it loses by design, or the program closes.   *)
THEOREM NothingStranded == Spec => []StrandedOnlyByMissedPush
<1>1. Init => Attended
  BY DEF Init, Attended, MainIdle
<1>2. Attended => StrandedOnlyByMissedPush
  BY DEF Attended, StrandedOnlyByMissedPush, Stranded, SomeActive, ActiveTasks
<1> QED
  BY <1>1, <1>2, InitTypeInv, StepTypeInv, StepAttended, PTL DEF Spec

-----------------------------------------------------------------------------
(* One chain.  OneAtATime is inductive: main starts a task next to no other *)
(* one while ~overlapped, and a successor starts as its predecessor leaves. *)
LEMMA StepOneAtATime == TypeInv /\ OneAtATime /\ [Next]_vars => OneAtATime'
<1> DEFINE Single  == \A t, u \in Task : phase[t] \in Active /\ phase[u] \in Active => t = u
           Promise == \A t \in Task : phase[t] \in {"cancelled", "front", "pop"} => queue # <<>>
<1>0. OneAtATime <=> (~overlapped => Single /\ Promise)
  BY DEF OneAtATime, ActiveTasks
<1>0a. OneAtATime' <=> (~overlapped' => Single' /\ Promise')
  BY DEF OneAtATime, ActiveTasks
<1> SUFFICES ASSUME TypeInv, ~overlapped => Single /\ Promise, [Next]_vars, ~overlapped'
             PROVE  Single' /\ Promise'
  BY <1>0, <1>0a
<1>1. CASE UNCHANGED vars
  BY <1>1 DEF vars, workerVars, ghostVars
<1>2. ASSUME \/ \E a \in Anime, c, w \in BOOLEAN : ReadSize(a, c, w)
             \/ \E a \in Anime : Remove(a)
             \/ ConnectAndExec \/ LoopReturns \/ Close \/ QuitSteps
      PROVE  Single' /\ Promise'
  BY <1>2 DEF ReadSize, Remove, ConnectAndExec, LoopReturns, Close, Quit,
     QuitSteps, AboutToQuit, QuitVisits,
              EventsDone, QuitWaited, QuitFinished, QuitMoves, workerVars, ghostVars
<1>3. CASE Push
  <2>1. queue' # <<>>
    BY <1>3 DEF Push, TypeInv, TypeOK
  <2> QED
    BY <1>3, <2>1 DEF Push, workerVars, ghostVars
<1>4. ASSUME NEW t \in Task, Run(t) PROVE Single' /\ Promise'
  <2>1. /\ ~overlapped
        /\ \A u \in Task : phase[u] \notin Active
        /\ phase'[t] = "queued"
        /\ \A u \in Task \ {t} : phase'[u] = phase[u]
    BY <1>4 DEF Run, ActiveTasks, TypeInv, TypeOK
  <2> QED
    BY <2>1 DEF Active, BeforePop
<1>5. CASE AppendFuture
  <2>1. \A u \in Task : phase'[u] = phase[u] \/ phase'[u] = "none"
    BY <1>5 DEF AppendFuture, Register, TypeInv, TypeOK
  <2>2. "none" \notin Active
    BY DEF Active, BeforePop, Working
  <2> QED
    BY <1>5, <2>1, <2>2 DEF AppendFuture, ghostVars
<1>6. ASSUME NEW t \in Task, LoadNext(t) PROVE Single' /\ Promise'
  <2>1. ~overlapped
    BY <1>6 DEF LoadNext, Start, CheckSize, CheckCancel, Front, Pop, Get,
         CoverArrives, CoverFails, BoxClosed, Emit, ClearNeedLoad, TailStarts,
         TailEnds, TailAppends, ghostVars
  <2>2. Single /\ Promise
    BY <2>1
  <2>3. CASE \/ Start(t) \/ CheckSize(t) \/ CheckCancel(t) \/ Front(t) \/ Get(t)
             \/ CoverArrives(t) \/ CoverFails(t) \/ BoxClosed(t) \/ Emit(t) \/ ClearNeedLoad(t) \/ TailEnds(t)
    <3>1. /\ queue' = queue
          /\ \A u \in Task \ {t} : phase'[u] = phase[u]
          /\ phase[t] \in Active
          /\ phase'[t] \in {"front", "pop"} => phase[t] \in {"cancelled", "front"}
          /\ phase'[t] = "cancelled" => queue # <<>>
      BY <2>3 DEF Start, CheckSize, CheckCancel, Front, Get, CoverArrives,
         CoverFails, BoxClosed, Emit,
           ClearNeedLoad, TailEnds, Ends, Moves, Active, BeforePop, Working, TypeInv, TypeOK
    <3> QED
      BY <3>1, <2>2
  <2>4. CASE Pop(t)
    <3>1. /\ \A u \in Task \ {t} : phase'[u] = phase[u]
          /\ phase[t] = "pop" /\ phase'[t] = "get"
      BY <2>4 DEF Pop, Moves, TypeInv, TypeOK
    <3>2. "pop" \in Active /\ "cancelled" \in Active /\ "front" \in Active
      BY DEF Active, BeforePop
    <3> QED
      BY <3>1, <3>2, <2>2
  <2>5. ASSUME NEW s \in Task, TailStarts(t, s) PROVE Single' /\ Promise'
    <3>1. /\ queue' = queue
          /\ phase[t] = "tail" /\ s # t
          /\ phase'[t] = "append" /\ phase'[s] = "queued"
          /\ \A u \in Task \ {s, t} : phase'[u] = phase[u]
      BY <2>5 DEF TailStarts, TypeInv, TypeOK
    <3>2. "tail" \in Active /\ "append" \notin Active
      BY DEF Active, BeforePop, Working
    <3> QED
      BY <3>1, <3>2, <2>2
  <2>6. CASE TailAppends(t)
    <3>1. \A u \in Task : phase'[u] = phase[u] \/ phase'[u] \in {"none", "finished"}
      BY <2>6 DEF TailAppends, TypeInv, TypeOK
    <3>2. "none" \notin Active /\ "finished" \notin Active
      BY DEF Active, BeforePop, Working
    <3> QED
      BY <2>6, <3>1, <3>2, <2>2 DEF TailAppends
  <2> QED
    BY <1>6, <2>3, <2>4, <2>5, <2>6 DEF LoadNext
<1>7. CASE Next
  <2> HIDE DEF Single, Promise
  <2> QED
    BY <1>2, <1>3, <1>4, <1>5, <1>6, <1>7, Steps
<1> QED
  BY <1>1, <1>7

(* As long as main starts no task next to a running one, the unlocked queue *)
(* has one reader and what the size check promised is there.                *)
THEOREM OneTaskAtATime == Spec => []OneAtATime
<1>1. Init => OneAtATime
  BY DEF Init, OneAtATime, ActiveTasks, Active, BeforePop, Working
<1> QED
  BY <1>1, InitTypeInv, StepTypeInv, StepOneAtATime, PTL DEF Spec

-----------------------------------------------------------------------------
(* Undefined behaviour.  While no Anime was deleted in use, every reference *)
(* that somebody will follow leads to a live object.                        *)
ReferencesLive ==
    ~freedInUse /\ ~corrupt =>
        /\ \A i \in 1..Len(queue) : queue[i].anime \in live
        /\ \A t \in Task : phase[t] \in {"pop"} \cup Working => held[t].anime \in live
        /\ \A i \in 1..Len(loops) : loops[i].anime \in live
        /\ main.pc # "idle" => main.req.anime \in live

QuitCancels == quit # "no" => cancel

CorruptInv ==
    /\ OneAtATime
    /\ ReferencesLive
    /\ QuitCancels
    /\ CorruptOnlyByKnownRaces

LEMMA StepReferencesLive == TypeInv /\ ReferencesLive /\ [Next]_vars => ReferencesLive'
<1> DEFINE Queued == \A i \in 1..Len(queue) : queue[i].anime \in live
           Held   == \A t \in Task : phase[t] \in {"pop"} \cup Working => held[t].anime \in live
           Looped == \A i \in 1..Len(loops) : loops[i].anime \in live
           Asked  == main.pc # "idle" => main.req.anime \in live
<1> SUFFICES ASSUME TypeInv, ReferencesLive, [Next]_vars, ~freedInUse', ~corrupt'
             PROVE  Queued' /\ Held' /\ Looped' /\ Asked'
  BY DEF ReferencesLive
<1>1. CASE UNCHANGED vars
  <2>1. Queued /\ Held /\ Looped /\ Asked
    BY <1>1 DEF ReferencesLive, vars, ghostVars
  <2> QED
    BY <2>1, <1>1 DEF vars, workerVars, objectVars
<1>2. CASE Next
  <2>0. ~freedInUse /\ ~corrupt
    <3>1. ~corrupt
      BY <1>2 DEF Next
    <3>2. freedInUse => freedInUse'
      BY <1>2, Steps DEF ReadSize, Remove, Push, Run, AppendFuture,
         ConnectAndExec, LoopReturns,
         Close, Quit, QuitSteps, AboutToQuit, QuitVisits, EventsDone,
         QuitWaited, QuitFinished, QuitMoves,
         LoadNext, Start, CheckSize, CheckCancel, Front, Pop, Get,
         CoverArrives, CoverFails, BoxClosed, Emit, ClearNeedLoad, TailStarts,
         TailEnds, TailAppends, ghostVars
    <3> QED
      BY <3>1, <3>2
  <2>1. Queued /\ Held /\ Looped /\ Asked
    BY <2>0 DEF ReferencesLive
  <2> USE <2>1
  <2>2. ASSUME NEW a \in live, NEW c \in BOOLEAN, NEW w \in BOOLEAN, ReadSize(a, c, w)
        PROVE  Queued' /\ Held' /\ Looped' /\ Asked'
    BY <2>2 DEF ReadSize, workerVars, objectVars
  <2>3. ASSUME NEW a \in Anime, Remove(a)
        PROVE  Queued' /\ Held' /\ Looped' /\ Asked'
    <3>1. live' = live \ {a} /\ ~InUse(a) /\ main.pc = "idle"
      BY <2>3 DEF Remove, HandlesEvents
    <3> QED
      BY <2>3, <3>1 DEF Remove, InUse, workerVars
  <2>4. CASE Push
    <3>1. Len(queue') = Len(queue) + 1 /\ queue'[Len(queue) + 1] = main.req
          /\ \A i \in 1..Len(queue) : queue'[i] = queue[i]
      BY <2>4 DEF Push, TypeInv, TypeOK
    <3>2. Queued'
      <4> SUFFICES ASSUME NEW i \in 1..Len(queue') PROVE queue'[i].anime \in live'
        OBVIOUS
      <4>1. i \in 1..Len(queue) \/ i = Len(queue) + 1
        BY <3>1 DEF TypeInv, TypeOK
      <4>2. live' = live /\ main.req.anime \in live
        BY <2>4 DEF Push, objectVars
      <4> QED
        BY <3>1, <4>1, <4>2
    <3>3. Asked'
      BY <2>4 DEF Push, MainAfterQueueing, MainIdle, objectVars, TypeInv, TypeOK, MainState
    <3> QED
      BY <2>4, <3>2, <3>3 DEF Push, workerVars, objectVars
  <2>5. ASSUME NEW t \in Task, Run(t)
        PROVE  Queued' /\ Held' /\ Looped' /\ Asked'
    <3>1. \A u \in Task : phase'[u] = phase[u] \/ phase'[u] = "queued"
      BY <2>5 DEF Run, TypeInv, TypeOK
    <3>2. main'.req = main.req /\ main.pc = "run"
      BY <2>5 DEF Run, TypeInv, TypeOK, MainState
    <3> QED
      BY <2>5, <3>1, <3>2 DEF Run, objectVars, Working
  <2>6. CASE AppendFuture
    <3>1. \A u \in Task : phase'[u] = phase[u] \/ phase'[u] = "none"
      BY <2>6 DEF AppendFuture, Register, TypeInv, TypeOK
    <3>2. Asked'
      BY <2>6 DEF AppendFuture, MainAfterQueueing, MainIdle, objectVars,
         TypeInv, TypeOK, MainState
    <3> QED
      BY <2>6, <3>1, <3>2 DEF AppendFuture, objectVars, Working
  <2>7. CASE ConnectAndExec
    <3>1. Looped'
      BY <2>7 DEF ConnectAndExec, objectVars, TypeInv, TypeOK
    <3> QED
      BY <2>7, <3>1 DEF ConnectAndExec, MainIdle, workerVars, objectVars
  <2>8. CASE LoopReturns
    <3>1. Looped'
      BY <2>8 DEF LoopReturns, objectVars, TypeInv, TypeOK
    <3> QED
      BY <2>8, <3>1 DEF LoopReturns, workerVars, objectVars
  <2>9. CASE Close \/ QuitSteps
    BY <2>9 DEF Close, Quit, QuitSteps, AboutToQuit, QuitVisits, EventsDone,
       QuitWaited, QuitFinished,
                QuitMoves, workerVars, objectVars
  <2>10. ASSUME NEW t \in Task, LoadNext(t)
         PROVE  Queued' /\ Held' /\ Looped' /\ Asked'
    <3> USE DEF TypeInv, TypeOK
    <3>1. CASE Front(t)
      <4>0. queue # <<>>
        BY <3>1 DEF Front
      <4>1. Head(queue).anime \in live
        BY <4>0, HeadTailProperties
      <4>2. /\ phase'[t] = "pop" /\ held'[t] = Head(queue) /\ live' = live
            /\ \A u \in Task \ {t} : phase'[u] = phase[u] /\ held'[u] = held[u]
        BY <3>1, <4>1 DEF Front, Moves, objectVars
      <4>3. Held'
        BY <4>1, <4>2
      <4> QED
        BY <3>1, <4>3 DEF Front, objectVars
    <3>2. CASE Pop(t)
      <4>1. Queued'
        BY <3>2 DEF Pop, objectVars
      <4> QED
        BY <3>2, <4>1 DEF Pop, Moves, objectVars, Working
    <3>3. CASE Emit(t)
      <4>1. Looped'
        BY <3>3 DEF Emit, Told, objectVars
      <4> QED
        BY <3>3, <4>1 DEF Emit, Moves, objectVars, Working
    <3>4. CASE TailAppends(t)
      <4>1. \A u \in Task : phase'[u] = phase[u] \/ phase'[u] \in {"none", "finished"}
        BY <3>4 DEF TailAppends
      <4> QED
        BY <3>4, <4>1 DEF TailAppends, objectVars, Working
    <3>5. CASE Start(t)
      BY <3>5 DEF Start, Moves, objectVars, Working
    <3>6. CASE CheckSize(t) \/ CheckCancel(t) \/ TailEnds(t)
      BY <3>6 DEF CheckSize, CheckCancel, TailEnds, Ends, Moves, objectVars, Working
    <3>7. CASE Get(t)
      BY <3>7 DEF Get, Moves, Working
    <3>8. CASE CoverArrives(t) \/ CoverFails(t) \/ BoxClosed(t)
      BY <3>8 DEF CoverArrives, CoverFails, BoxClosed, Moves, objectVars, Working
    <3>9. CASE ClearNeedLoad(t)
      BY <3>9 DEF ClearNeedLoad, Moves, Working
    <3>10. ASSUME NEW s \in Task, TailStarts(t, s)
           PROVE  Queued' /\ Held' /\ Looped' /\ Asked'
      BY <3>10 DEF TailStarts, objectVars, Working
    <3> QED
      BY <2>10, <3>1, <3>2, <3>3, <3>4, <3>5, <3>6, <3>7, <3>8, <3>9, <3>10 DEF LoadNext
  <2> HIDE DEF Queued, Held, Looped, Asked
  <2> QED
    BY <1>2, <2>2, <2>3, <2>4, <2>5, <2>6, <2>7, <2>8, <2>9, <2>10, Steps
<1> QED
  BY <1>1, <1>2

LEMMA StepQuitCancels == TypeInv /\ QuitCancels /\ [Next]_vars => QuitCancels'
<1> SUFFICES ASSUME TypeInv, QuitCancels, [Next]_vars PROVE QuitCancels'
  OBVIOUS
<1>1. CASE UNCHANGED vars
  BY <1>1 DEF QuitCancels, vars, quitVars
<1>2. CASE Next
  <2>1. \/ quit' = quit /\ cancel' = cancel
        \/ quit # "no" /\ cancel' = cancel
        \/ cancel'
    <3>1. CASE Close \/ QuitSteps
      BY <3>1 DEF Close, Quit, QuitSteps, AboutToQuit, QuitVisits, EventsDone,
                  QuitWaited, QuitFinished, QuitMoves
    <3>2. ASSUME NEW t \in Task, LoadNext(t) PROVE quit' = quit /\ cancel' = cancel
      BY <3>2 DEF LoadNext, Start, CheckSize, CheckCancel, Front, Pop, Get,
         CoverArrives, CoverFails, BoxClosed, Emit, ClearNeedLoad, TailStarts,
         TailEnds, TailAppends, quitVars
    <3> QED
      BY <1>2, <3>1, <3>2, Steps DEF ReadSize, Remove, Push, Run, AppendFuture,
         ConnectAndExec, LoopReturns, quitVars
  <2> QED
    BY <2>1 DEF QuitCancels
<1> QED
  BY <1>1, <1>2

(* A step that executes undefined behaviour finds a race that has happened. *)
LEMMA CorruptingStep ==
    ASSUME TypeInv, OneAtATime, ReferencesLive, QuitCancels, Next, corrupt'
    PROVE  overlapped' \/ freedInUse' \/ cancel'
<1>1. /\ ~corrupt
      /\ overlapped => overlapped'
      /\ freedInUse => freedInUse'
      /\ cancel => cancel'
  <2>1. ~corrupt
    BY DEF Next
  <2>2. overlapped => overlapped'
    BY Steps DEF ReadSize, Remove, Push, Run, AppendFuture, ConnectAndExec, LoopReturns,
         Close, Quit, QuitSteps, AboutToQuit, QuitVisits, EventsDone,
         QuitWaited, QuitFinished, QuitMoves,
         LoadNext, Start, CheckSize, CheckCancel, Front, Pop, Get,
         CoverArrives, CoverFails, BoxClosed, Emit, ClearNeedLoad, TailStarts,
         TailEnds, TailAppends, ghostVars
  <2>3. freedInUse => freedInUse'
    BY Steps DEF ReadSize, Remove, Push, Run, AppendFuture, ConnectAndExec, LoopReturns,
         Close, Quit, QuitSteps, AboutToQuit, QuitVisits, EventsDone,
         QuitWaited, QuitFinished, QuitMoves,
         LoadNext, Start, CheckSize, CheckCancel, Front, Pop, Get,
         CoverArrives, CoverFails, BoxClosed, Emit, ClearNeedLoad, TailStarts,
         TailEnds, TailAppends, ghostVars
  <2>4. cancel => cancel'
    BY Steps DEF ReadSize, Remove, Push, Run, AppendFuture, ConnectAndExec, LoopReturns,
         Close, Quit, QuitSteps, AboutToQuit, QuitVisits, EventsDone,
         QuitWaited, QuitFinished, QuitMoves,
         LoadNext, Start, CheckSize, CheckCancel, Front, Pop, Get,
         CoverArrives, CoverFails, BoxClosed, Emit, ClearNeedLoad, TailStarts,
         TailEnds, TailAppends, quitVars
  <2> QED
    BY <2>1, <2>2, <2>3, <2>4
<1>2. \/ LoopReturns
      \/ \E t \in Task : \/ Front(t) \/ Pop(t) \/ Get(t)
                         \/ CoverArrives(t) \/ CoverFails(t) \/ BoxClosed(t)
                         \/ Emit(t) \/ ClearNeedLoad(t) \/ TailAppends(t)
  BY <1>1, Steps DEF ReadSize, Remove, Push, Run, AppendFuture, ConnectAndExec,
         Close, Quit, QuitSteps, AboutToQuit, QuitVisits, EventsDone,
         QuitWaited, QuitFinished, QuitMoves,
         LoadNext, Start, CheckSize, CheckCancel, TailStarts, TailEnds
<1>3. CASE LoopReturns
  <2>1. loops # <<>> /\ loops[Len(loops)].anime \notin live
    BY <1>3 DEF LoopReturns
  <2>2. Len(loops) \in 1..Len(loops)
    BY <2>1 DEF TypeInv, TypeOK
  <2> QED
    BY <2>1, <2>2, <1>1 DEF ReferencesLive
<1>4. ASSUME NEW t \in Task, Front(t) \/ Pop(t) PROVE overlapped
  BY <1>4 DEF Front, Pop, Moves, OneAtATime
<1>5. ASSUME NEW t \in Task,
             \/ Get(t) \/ CoverArrives(t) \/ CoverFails(t)
             \/ BoxClosed(t) \/ Emit(t) \/ ClearNeedLoad(t)
      PROVE  freedInUse
  <2>1. phase[t] \in Working /\ held[t].anime \notin live
    BY <1>1, <1>5 DEF Get, CoverArrives, CoverFails, BoxClosed, Emit,
       ClearNeedLoad, Moves, Touches, Working
  <2> QED
    BY <2>1, <1>1 DEF ReferencesLive
<1>6. ASSUME NEW t \in Task, TailAppends(t) PROVE cancel
  BY <1>6 DEF TailAppends, QuitCancels
<1> QED
  BY <1>1, <1>2, <1>3, <1>4, <1>5, <1>6

LEMMA StepCorruptInv == TypeInv /\ CorruptInv /\ [Next]_vars => CorruptInv'
<1>1. ASSUME TypeInv, CorruptInv, [Next]_vars PROVE CorruptOnlyByKnownRaces'
  <2>1. CASE UNCHANGED vars
    BY <1>1, <2>1 DEF CorruptInv, CorruptOnlyByKnownRaces, vars, ghostVars, quitVars
  <2>2. CASE Next
    <3>1. OneAtATime /\ ReferencesLive /\ QuitCancels
      BY <1>1 DEF CorruptInv
    <3>2. corrupt' => overlapped' \/ freedInUse' \/ cancel'
      BY <1>1, <2>2, <3>1, CorruptingStep
    <3> QED
      BY <3>2 DEF CorruptOnlyByKnownRaces
  <2> QED
    BY <1>1, <2>1, <2>2
<1> QED
  BY <1>1, StepOneAtATime, StepReferencesLive, StepQuitCancels DEF CorruptInv

(* The loader executes undefined behaviour only if main started a task next *)
(* to a running one, an Anime in use was deleted, or the program is closing.*)
THEOREM UndefinedBehaviourHasACause == Spec => []CorruptOnlyByKnownRaces
<1>1. Init => CorruptInv
  BY DEF Init, CorruptInv, OneAtATime, ActiveTasks, Active, BeforePop, Working,
         ReferencesLive, QuitCancels, CorruptOnlyByKnownRaces, MainIdle
<1>2. CorruptInv => CorruptOnlyByKnownRaces
  BY DEF CorruptInv
<1> QED
  BY <1>1, <1>2, InitTypeInv, StepTypeInv, StepCorruptInv, PTL DEF Spec

-----------------------------------------------------------------------------
(* Once quit() has set the flag no task passes the check any more: those    *)
(* that are past it are waited for, or were not registered when it began.   *)
Late == {"front", "pop"} \cup Working

Waited ==
    quit # "no" =>
        /\ \A t \in Task : phase[t] \in Late => t \in toWait \cup unregistered
        /\ quit \in {"left", "done"} => toWait = {}

LEMMA StepWaited == TypeInv /\ QuitCancels /\ Waited /\ [Next]_vars => Waited'
<1> SUFFICES ASSUME TypeInv, QuitCancels, Waited, [Next]_vars PROVE Waited'
  OBVIOUS
<1>1. CASE UNCHANGED vars
  BY <1>1 DEF Waited, vars, quitVars, workerVars
<1>2. CASE Next
  <2>1. ASSUME NEW a \in Anime, NEW c \in BOOLEAN, NEW w \in BOOLEAN,
               ReadSize(a, c, w) \/ Remove(a)
        PROVE  Waited'
    BY <2>1 DEF Waited, ReadSize, Remove, quitVars, workerVars
  <2>2. CASE Push \/ ConnectAndExec \/ LoopReturns
    BY <2>2 DEF Waited, Push, ConnectAndExec, LoopReturns, quitVars, workerVars
  <2>3. ASSUME NEW t \in Task, Run(t) PROVE Waited'
    BY <2>3 DEF Waited, Run, quitVars, Late, Working, TypeInv, TypeOK
  <2>4. CASE AppendFuture
    BY <2>4 DEF Waited, AppendFuture, Register, quitVars, Late, Working, TypeInv, TypeOK
  <2>5. CASE Close \/ AboutToQuit
    BY <2>5 DEF Waited, Close, AboutToQuit, Quit, workerVars, Late, Working
  <2>6. ASSUME NEW t \in Task, QuitVisits(t) PROVE Waited'
    BY <2>6 DEF Waited, QuitVisits, QuitMoves, workerVars
  <2>7. CASE EventsDone \/ QuitWaited
    BY <2>7 DEF Waited, EventsDone, QuitWaited, QuitMoves, workerVars
  <2>8. CASE QuitFinished
    BY <2>8 DEF Waited, QuitFinished, workerVars
  <2>9. ASSUME NEW t \in Task, LoadNext(t) PROVE Waited'
    <3>1. CASE CheckSize(t) \/ CheckCancel(t) \/ TailEnds(t)
      BY <2>9, <3>1 DEF Waited, CheckSize, CheckCancel, TailEnds, Ends, Moves,
                        QuitCancels, Late, Working, TypeInv, TypeOK
    <3>2. CASE TailAppends(t)
      BY <2>9, <3>2 DEF Waited, TailAppends, Late, Working, TypeInv, TypeOK
    <3>3. ASSUME NEW s \in Task, TailStarts(t, s) PROVE Waited'
      BY <2>9, <3>3 DEF Waited, TailStarts, quitVars, Late, Working, TypeInv, TypeOK
    <3>4. CASE Start(t)
      BY <2>9, <3>4 DEF Waited, Start, Moves, quitVars, Late, Working, TypeInv, TypeOK
    <3>5. CASE Front(t) \/ Pop(t)
      BY <2>9, <3>5 DEF Waited, Front, Pop, Moves, quitVars, Late, Working, TypeInv, TypeOK
    <3>6. CASE \/ Get(t) \/ CoverArrives(t) \/ CoverFails(t)
              \/ BoxClosed(t) \/ Emit(t) \/ ClearNeedLoad(t)
      BY <2>9, <3>6 DEF Waited, Get, CoverArrives, CoverFails, BoxClosed, Emit,
         ClearNeedLoad, Moves, quitVars,
                        Late, Working, TypeInv, TypeOK
    <3> QED
      BY <2>9, <3>1, <3>2, <3>3, <3>4, <3>5, <3>6 DEF LoadNext
  <2> QED
    BY <1>2, <2>1, <2>2, <2>3, <2>4, <2>5, <2>6, <2>7, <2>8, <2>9, Steps DEF QuitSteps
<1> QED
  BY <1>1, <1>2

(* When the User is deleted, no task of the loader is at work but those     *)
(* that ran, and were not registered, when quit() began to wait.            *)
THEOREM QuitWaits == Spec => []QuitWaitsForLoads
<1>1. Init => QuitCancels /\ Waited
  BY DEF Init, QuitCancels, Waited
<1>2. Waited => QuitWaitsForLoads
  BY DEF Waited, QuitWaitsForLoads, Late
<1> QED
  BY <1>1, <1>2, InitTypeInv, StepTypeInv, StepQuitCancels, StepWaited, PTL DEF Spec

-----------------------------------------------------------------------------
(* The loader implements LoadService.  What front() copied is still what    *)
(* pop() will remove.                                                       *)
HeldIsFirst ==
    ~overlapped /\ ~corrupt =>
        \A t \in Task : phase[t] = "pop" => queue # <<>> /\ held[t] = Head(queue)

LEMMA BrokenForGood == ASSUME Next PROVE ~corrupt /\ (overlapped => overlapped')
<1>1. ~corrupt
  BY DEF Next
<1>2. overlapped => overlapped'
  BY Steps DEF ReadSize, Remove, Push, Run, AppendFuture, ConnectAndExec, LoopReturns,
     Close, Quit, QuitSteps, AboutToQuit, QuitVisits, EventsDone,
         QuitWaited, QuitFinished, QuitMoves,
     LoadNext, Start, CheckSize, CheckCancel, Front, Pop, Get,
     CoverArrives, CoverFails, BoxClosed, Emit, ClearNeedLoad, TailStarts,
     TailEnds, TailAppends, ghostVars
<1> QED
  BY <1>1, <1>2

(* What a step of the unbroken loader does to the queue and to the requests *)
(* in service: it asks, serves, finishes, or neither changes.               *)
LEMMA ServiceStep ==
    ASSUME TypeInv, OneAtATime, HeldIsFirst, Next, ~overlapped', ~corrupt'
    PROVE  /\ \/ /\ \E r \in Request : queue' = Append(queue, r)
                 /\ InService' = InService
              \/ /\ queue # <<>> /\ InService = {}
                 /\ queue' = Tail(queue) /\ InService' = {Head(queue)}
              \/ /\ queue' = queue
                 /\ InService # {} /\ InService' = {}
              \/ queue' = queue /\ InService' = InService
           /\ \A t \in Task : phase'[t] = "pop" => queue' # <<>> /\ held'[t] = Head(queue')
<1> DEFINE First == \A t \in Task : phase[t] = "pop" => queue # <<>> /\ held[t] = Head(queue)
           Ask == /\ \E r \in Request : queue' = Append(queue, r)
                  /\ InService' = InService
           Serve == /\ queue # <<>> /\ InService = {}
                    /\ queue' = Tail(queue) /\ InService' = {Head(queue)}
           Finish == queue' = queue /\ InService # {} /\ InService' = {}
           Same == queue' = queue /\ InService' = InService
<1> SUFFICES (Ask \/ Serve \/ Finish \/ Same) /\ First'
  OBVIOUS
<1>0. ~overlapped /\ ~corrupt /\ First
  BY BrokenForGood DEF HeldIsFirst
<1>1. \A t, u \in Task : phase[t] \in Active /\ phase[u] \in Active => t = u
  BY <1>0 DEF OneAtATime, ActiveTasks
<1>2. Working \subseteq Active /\ "pop" \in Active /\ "pop" \notin Working
      /\ {"none", "finished", "append", "queued", "tail"} \cap (Working \cup {"pop"}) = {}
  BY DEF Active, BeforePop, Working
<1>3. ASSUME queue' = queue,
             \A u \in Task : \/ phase'[u] = phase[u] /\ held'[u] = held[u]
                            \/ /\ phase[u] \notin Working /\ phase'[u] \notin Working
                               /\ phase'[u] = "pop" => held'[u] = Head(queue) /\ queue # <<>>
      PROVE  Same /\ First'
  BY <1>0, <1>2, <1>3 DEF InService
<1>4. ASSUME \/ \E a \in Anime, c, w \in BOOLEAN : ReadSize(a, c, w)
             \/ \E a \in Anime : Remove(a)
             \/ ConnectAndExec \/ LoopReturns \/ Close \/ QuitSteps
      PROVE  Same /\ First'
  <2>1. queue' = queue /\ phase' = phase /\ held' = held
    BY <1>4 DEF ReadSize, Remove, ConnectAndExec, LoopReturns, Close, Quit,
       QuitSteps, AboutToQuit, QuitVisits,
              EventsDone, QuitWaited, QuitFinished, QuitMoves, workerVars
  <2> QED
    BY <2>1, <1>3
<1>5. CASE Push
  <2>1. main.req \in Request /\ queue' = Append(queue, main.req)
        /\ phase' = phase /\ held' = held
    BY <1>5 DEF Push, TypeInv, workerVars
  <2>2. Ask
    BY <2>1 DEF InService
  <2>3. queue' # <<>> /\ (queue # <<>> => Head(queue') = Head(queue))
    BY <2>1, AppendProperties, HeadTailProperties DEF TypeInv, TypeOK
  <2>4. First'
    BY <2>1, <2>3, <1>0
  <2> QED
    BY <2>2, <2>4
<1>6. ASSUME NEW t \in Task, Run(t) PROVE Same /\ First'
  <2>1. queue' = queue /\ held' = held
        /\ \A u \in Task : phase'[u] = phase[u] \/ (phase[u] = "none" /\ phase'[u] = "queued")
    BY <1>6 DEF Run, TypeInv, TypeOK
  <2> QED
    BY <2>1, <1>2, <1>3
<1>7. CASE AppendFuture
  <2>1. queue' = queue /\ held' = held
        /\ \A u \in Task : phase'[u] = phase[u] \/ (phase[u] = "finished" /\ phase'[u] = "none")
    BY <1>7 DEF AppendFuture, Register, TypeInv, TypeOK
  <2> QED
    BY <2>1, <1>2, <1>3
<1>8. ASSUME NEW t \in Task, LoadNext(t) PROVE (Ask \/ Serve \/ Finish \/ Same) /\ First'
  <2> USE DEF TypeInv, TypeOK
  <2>1. CASE Front(t)
    <3>1. queue # <<>>
      BY <2>1 DEF Front
    <3>2. /\ phase[t] = "front" /\ phase'[t] = "pop" /\ held'[t] = Head(queue)
          /\ \A u \in Task \ {t} : phase'[u] = phase[u] /\ held'[u] = held[u]
          /\ queue' = queue
      BY <2>1, <3>1 DEF Front, Moves
    <3>3. "front" \notin Working
      BY DEF Working
    <3> QED
      BY <3>1, <3>2, <3>3, <1>2, <1>3
  <2>2. CASE Pop(t)
    <3>1. /\ phase[t] = "pop" /\ phase'[t] = "get" /\ held' = held
          /\ \A u \in Task \ {t} : phase'[u] = phase[u]
      BY <2>2 DEF Pop, Moves
    <3>2. queue # <<>> /\ held[t] = Head(queue)
      BY <3>1, <1>0
    <3>3. queue' = Tail(queue)
      BY <2>2, <3>2 DEF Pop
    <3>4. \A u \in Task \ {t} : phase[u] \notin Active
      BY <3>1, <1>1, <1>2
    <3>5. InService = {}
      BY <3>1, <3>4, <1>2 DEF InService
    <3>6. "get" \in Working
      BY DEF Working
    <3>7. InService' = {Head(queue)}
      BY <3>1, <3>2, <3>4, <3>6, <1>2 DEF InService
    <3>8. First'
      BY <3>1, <3>4, <1>2
    <3> QED
      BY <3>2, <3>3, <3>5, <3>7, <3>8
  <2>3. CASE ClearNeedLoad(t)
    <3>1. /\ phase[t] = "clear" /\ phase'[t] = "tail" /\ queue' = queue
          /\ \A u \in Task \ {t} : phase'[u] = phase[u]
      BY <2>3 DEF ClearNeedLoad, Moves
    <3>2. "clear" \in Working
      BY DEF Working
    <3>3. \A u \in Task \ {t} : phase[u] \notin Active
      BY <3>1, <3>2, <1>1, <1>2
    <3>4. held[t] \in InService
      BY <3>1, <3>2 DEF InService
    <3>5. InService' = {}
      BY <3>1, <3>3, <1>2 DEF InService
    <3>6. First'
      BY <3>1, <3>3, <1>2
    <3> QED
      BY <3>1, <3>4, <3>5, <3>6
  <2>4. CASE Get(t) \/ CoverArrives(t) \/ CoverFails(t) \/ BoxClosed(t) \/ Emit(t)
    <3>1. /\ queue' = queue /\ held' = held
          /\ phase[t] \in Working /\ phase'[t] \in Working
          /\ \A u \in Task \ {t} : phase'[u] = phase[u]
      BY <2>4 DEF Get, CoverArrives, CoverFails, BoxClosed, Emit, Moves, Working
    <3>2. InService' = InService
      BY <3>1 DEF InService
    <3>3. First'
      BY <3>1, <1>0, <1>2
    <3> QED
      BY <3>1, <3>2, <3>3
  <2>5. CASE Start(t) \/ CheckSize(t) \/ CheckCancel(t) \/ TailEnds(t)
    <3>1. /\ queue' = queue
          /\ phase[t] \notin Working /\ phase'[t] \notin Working \cup {"pop"}
          /\ \A u \in Task \ {t} : phase'[u] = phase[u] /\ held'[u] = held[u]
      BY <2>5 DEF Start, CheckSize, CheckCancel, TailEnds, Ends, Moves, Working
    <3> QED
      BY <3>1, <1>3
  <2>6. ASSUME NEW s \in Task, TailStarts(t, s) PROVE Same /\ First'
    <3>1. /\ queue' = queue /\ held' = held
          /\ phase[t] = "tail" /\ phase[s] = "none"
          /\ phase'[t] = "append" /\ phase'[s] = "queued"
          /\ \A u \in Task \ {s, t} : phase'[u] = phase[u]
      BY <2>6 DEF TailStarts
    <3> QED
      BY <3>1, <1>2, <1>3
  <2>7. CASE TailAppends(t)
    <3>1. /\ queue' = queue /\ held' = held
          /\ \A u \in Task : \/ phase'[u] = phase[u]
                            \/ /\ phase[u] \in {"append", "finished"}
                               /\ phase'[u] \in {"none", "finished"}
      BY <2>7 DEF TailAppends
    <3> QED
      BY <3>1, <1>2, <1>3
  <2> HIDE DEF TypeInv, TypeOK, Ask, Serve, Finish, Same, First
  <2> QED
    BY <1>8, <2>1, <2>2, <2>3, <2>4, <2>5, <2>6, <2>7 DEF LoadNext
<1> HIDE DEF Ask, Serve, Finish, Same, First
<1> QED
  BY <1>4, <1>5, <1>6, <1>7, <1>8, Steps

(* The service the callers of loadAnimeData rely on, up to the first time   *)
(* main starts a task next to a running one: first come, first served, one  *)
(* at a time, nothing lost and nothing served twice.                        *)
THEOREM LoaderImplementsService == Spec => ImplementsService
<1>1. Init => HeldIsFirst /\ OneAtATime
  BY DEF Init, HeldIsFirst, OneAtATime, ActiveTasks, Active, BeforePop, Working
<1>2. Init => Service!Init
  BY DEF Init, Service!Init, Broken, InService, Working
<1>3. ASSUME TypeInv, OneAtATime, HeldIsFirst, [Next]_vars
      PROVE  HeldIsFirst' /\ [Service!Next]_(Service!vars)
  <2>1. CASE UNCHANGED vars
    BY <1>3, <2>1 DEF vars, workerVars, ghostVars, HeldIsFirst, Service!vars,
       Broken, InService
  <2>2. CASE Next /\ Broken'
    BY <2>2 DEF Broken, HeldIsFirst, Service!Next, Service!Break
  <2>3. CASE Next /\ ~Broken'
    <3>1. ~overlapped' /\ ~corrupt'
      BY <2>3 DEF Broken
    <3>2. Broken = FALSE /\ Broken' = FALSE
      BY <2>3, <3>1, BrokenForGood DEF Broken
    <3>3. HeldIsFirst'
      BY <1>3, <2>3, <3>1, ServiceStep DEF HeldIsFirst
    <3>4. \/ Service!Ask \/ Service!Serve \/ Service!Finish \/ UNCHANGED Service!vars
      <4>1. CASE (\E r \in Request : queue' = Append(queue, r)) /\ InService' = InService
        BY <2>3, <3>2, <4>1 DEF Service!Ask
      <4>2. CASE /\ queue # <<>> /\ InService = {}
                 /\ queue' = Tail(queue) /\ InService' = {Head(queue)}
        BY <2>3, <3>2, <4>2 DEF Service!Serve
      <4>3. CASE queue' = queue /\ InService # {} /\ InService' = {}
        BY <2>3, <3>2, <4>3 DEF Service!Finish
      <4>4. CASE queue' = queue /\ InService' = InService
        BY <2>3, <3>2, <4>4 DEF Service!vars
      <4> QED
        BY <1>3, <2>3, <3>1, <4>1, <4>2, <4>3, <4>4, ServiceStep
    <3> QED
      BY <3>3, <3>4 DEF Service!Next
  <2> QED
    BY <1>3, <2>1, <2>2, <2>3
<1> QED
  BY <1>1, <1>2, <1>3, InitTypeInv, StepTypeInv, StepOneAtATime, PTL
     DEF Spec, ImplementsService, Service!Spec
=============================================================================
