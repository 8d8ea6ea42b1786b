---------------------------- MODULE AnimeLoader ----------------------------
(***************************************************************************)
(* The metadata loader of User (src/api/user.cpp, user.h) and the callers  *)
(* that put work into it.                                                  *)
(*                                                                         *)
(* The main thread asks for an anime with loadAnimeData: it reads the size *)
(* of a queue, pushes the request and, only when the size it read was 0,   *)
(* starts a pool task that runs loadNext.  loadNext takes one request,     *)
(* fetches it, tells whoever listens, and starts a successor when the      *)
(* queue is not empty.  No lock protects the queue, the list of futures or *)
(* the Anime objects, so each access below is a step of its own.           *)
(*                                                                         *)
(* One call of a container operation (size, push, front, pop, append) is   *)
(* one step.  What such calls do when they are legal C++ is modelled; what *)
(* the program does after front() or pop() on an empty queue, after a      *)
(* dereference of a deleted Anime, or after an append that invalidates the *)
(* iterator of quit() is anything at all: `corrupt' becomes TRUE and the   *)
(* model stops there.                                                      *)
(***************************************************************************)
EXTENDS Naturals, Sequences, FiniteSets

CONSTANTS
    Anime,        \* the Anime objects
    Task,         \* slots for the pool tasks that are not finished yet
    PoolThreads,  \* QThreadPool::maxThreadCount() of the global pool
    MaxRequests,  \* bound: calls of loadAnimeData in one behaviour
    MaxLoops,     \* bound: nested event loops of the main thread
    NoAnime, NoTask

ASSUME LoaderAssumption ==
    /\ PoolThreads \in Nat \ {0}
    /\ MaxRequests \in Nat
    /\ MaxLoops \in Nat
    /\ NoAnime \notin Anime
    /\ NoTask \notin Task

VARIABLES
    queue,           \* User::queue
    async_registry,  \* User::async_registry, restricted to unfinished futures
    cancel,          \* User::cancel
    phase,           \* where each task is in loadNext
    held,            \* the request each task copied with front()
    child,           \* the successor a task started and has yet to register
    needLoad,        \* Anime::needLoad
    needCover,       \* Anime::needCover
    live,            \* the Anime objects that are not deleted
    main,            \* where the main thread is in loadAnimeData
    loops,           \* its stack of local QEventLoops, innermost last
    quit,            \* where the main thread is in User::quit
    toWait,          \* the futures of the list it iterates over, unfinished
    visited,         \* the one it is visiting
    again,           \* this is the call that comes from aboutToQuit
    requests,        \* how often loadAnimeData was called
    corrupt,         \* the program executed undefined behaviour
    \* History variables: they record which race happened and guide no step.
    overlapped,      \* main started a chain while another one was running
    missed,          \* a chain ended between main's size() and its push()
    lostSignal,      \* finishedReloading was emitted before main connected
    freedInUse,      \* an Anime was deleted while something referred to it
    unregistered     \* tasks that ran but were not registered when quit began

workerVars == <<phase, held, child>>
objectVars == <<needLoad, needCover, live>>
quitVars   == <<cancel, quit, toWait, visited, unregistered, again>>
ghostVars  == <<overlapped, missed, lostSignal, freedInUse>>
vars == <<queue, async_registry, workerVars, objectVars, main, loops,
          quitVars, requests, corrupt, ghostVars>>

Request == [anime : Anime, cover : BOOLEAN]
NoRequest == [anime |-> NoAnime, cover |-> FALSE]

MainIdle == [pc |-> "idle", req |-> NoRequest, sawEmpty |-> FALSE,
             waits |-> FALSE, task |-> NoTask]

(* A task is active from the moment it is handed to the pool until loadNext *)
(* has decided whether it starts a successor.                               *)
BeforePop == {"queued", "size", "cancelled", "front", "pop"}
Working   == {"get", "cover", "box", "emit", "clear"}
Active    == BeforePop \cup Working \cup {"tail"}
OnThread  == (Active \ {"queued"}) \cup {"append"}
Phase     == Active \cup {"none", "append", "finished"}

ActiveTasks  == {t \in Task : phase[t] \in Active}
RunningTasks == {t \in Task : phase[t] \in OnThread}

\* Something still refers to the object a.
InUse(a) ==
    \/ \E i \in 1..Len(queue) : queue[i].anime = a
    \/ \E t \in Task : held[t].anime = a
    \/ \E i \in 1..Len(loops) : loops[i].anime = a

Init ==
    /\ queue = <<>>
    /\ async_registry = {}
    /\ cancel = FALSE
    /\ phase = [t \in Task |-> "none"]
    /\ held = [t \in Task |-> NoRequest]
    /\ child = [t \in Task |-> NoTask]
    /\ needLoad = Anime
    /\ needCover = Anime
    /\ live = Anime
    /\ main = MainIdle
    /\ loops = <<>>
    /\ quit = "no"
    /\ toWait = {}
    /\ visited = NoTask
    /\ again = FALSE
    /\ requests = 0
    /\ corrupt = FALSE
    /\ overlapped = FALSE
    /\ missed = FALSE
    /\ lostSignal = FALSE
    /\ freedInUse = FALSE
    /\ unregistered = {}

-----------------------------------------------------------------------------
(* The main thread.  It handles events one at a time; while quit() runs it  *)
(* handles them only inside qApp->processEvents().                          *)

HandlesEvents == main.pc = "idle" /\ quit \in {"no", "events"}

(* loadAnimeData(a, cover), first half: int queue_size = queue.size().      *)
(* `waits' distinguishes the callers that block in a local event loop until *)
(* finishedReloading from those that only queue the request.                *)
ReadSize(a, cover, waits) ==
    /\ HandlesEvents
    /\ requests < MaxRequests
    /\ a \in live
    /\ waits => Len(loops) < MaxLoops
    /\ requests' = requests + 1
    /\ main' = [pc |-> "push", req |-> [anime |-> a, cover |-> cover],
                sawEmpty |-> queue = <<>>, waits |-> waits, task |-> NoTask]
    /\ UNCHANGED <<queue, async_registry, workerVars, objectVars, loops,
                   quitVars, corrupt, ghostVars>>

(* The callers: addAiring, showAnimePanel (both TRUE) and AnimePanel (only   *)
(* a missing cover) queue an anime whose data or cover is missing.          *)
QueueLoad(a) ==
    /\ a \in needLoad \cup needCover
    /\ \/ ReadSize(a, TRUE, FALSE)
       \/ a \notin needCover /\ ReadSize(a, FALSE, FALSE)

(* AiringAnime::tick: an episode aired, the data are fetched again.         *)
ReloadAfterEpisode(a) ==
    /\ a \notin needLoad
    /\ ReadSize(a, FALSE, FALSE)

(* SearchPanel: asks for the data whether or not they are loaded.           *)
SearchLoad(a) == ReadSize(a, FALSE, TRUE)

(* MainWindow::loadBrowserData.                                             *)
BrowserLoad(a) ==
    /\ a \in needLoad \cup needCover
    /\ ReadSize(a, TRUE, TRUE)

MainAfterQueueing == IF main.waits THEN [main EXCEPT !.pc = "connect"] ELSE MainIdle

\* Slip: the size test the wrong way round.
PushInverted ==
    /\ main.pc = "push"
    /\ queue' = Append(queue, main.req)
    /\ main' = IF main.sawEmpty THEN MainAfterQueueing
                                ELSE [main EXCEPT !.pc = "run"]
    /\ UNCHANGED <<async_registry, workerVars, objectVars, loops, quitVars,
                   requests, corrupt, ghostVars>>

(* queue.push(data); a chain is started only on the size read before.       *)
Push ==
    /\ main.pc = "push"
    /\ queue' = Append(queue, main.req)
    /\ main' = IF main.sawEmpty THEN [main EXCEPT !.pc = "run"]
                                ELSE MainAfterQueueing
    /\ UNCHANGED <<async_registry, workerVars, objectVars, loops, quitVars,
                   requests, corrupt, ghostVars>>

(* QtConcurrent::run: the task is in the pool before the future is stored.  *)
Run(t) ==
    /\ main.pc = "run"
    /\ phase[t] = "none"
    /\ phase' = [phase EXCEPT ![t] = "queued"]
    /\ main' = [main EXCEPT !.pc = "append", !.task = t]
    /\ overlapped' = (overlapped \/ ActiveTasks # {})
    /\ UNCHANGED <<queue, async_registry, held, child, objectVars, loops,
                   quitVars, requests, corrupt, missed, lostSignal, freedInUse>>

(* Storing a future: one that has finished meanwhile is not kept.           *)
Register(t, others) ==
    IF phase[t] = "finished"
    THEN /\ phase' = [others EXCEPT ![t] = "none"]
         /\ UNCHANGED async_registry
    ELSE /\ phase' = others
         /\ async_registry' = async_registry \cup {t}

AppendFuture ==
    /\ main.pc = "append"
    /\ Register(main.task, phase)
    /\ main' = MainAfterQueueing
    /\ UNCHANGED <<queue, held, child, objectVars, loops, quitVars, requests,
                   corrupt, ghostVars>>

(* connect(a, finishedReloading, &evt, quit); evt.exec().                   *)
ConnectAndExec ==
    /\ main.pc = "connect"
    /\ loops' = Append(loops, [anime |-> main.req.anime, quit |-> FALSE,
                              inQuit |-> quit = "events"])
    /\ main' = MainIdle
    /\ UNCHANGED <<queue, async_registry, workerVars, objectVars, quitVars,
                   requests, corrupt, ghostVars>>

(* Only the innermost event loop returns, and none that was entered before  *)
(* quit() does while quit() is on the stack.  The caller then uses a.       *)
LoopReturns ==
    /\ HandlesEvents
    /\ loops # <<>>
    /\ loops[Len(loops)].quit
    /\ quit = "events" => loops[Len(loops)].inQuit
    /\ loops' = SubSeq(loops, 1, Len(loops) - 1)
    /\ corrupt' = (loops[Len(loops)].anime \notin live)
    /\ UNCHANGED <<queue, async_registry, workerVars, objectVars, main,
                   quitVars, requests, ghostVars>>

(* User::remove: the entry leaves the lists and the object is deleted.      *)
Remove(a) ==
    /\ HandlesEvents
    /\ a \in live
    /\ live' = live \ {a}
    /\ freedInUse' = (freedInUse \/ InUse(a))
    /\ UNCHANGED <<queue, async_registry, workerVars, needLoad, needCover,
                   main, loops, quitVars, requests, corrupt, overlapped,
                   missed, lostSignal>>

-----------------------------------------------------------------------------
(* The pool task t: loadNext.                                               *)

Moves(t, from, to) ==
    /\ phase[t] = from
    /\ phase' = [phase EXCEPT ![t] = to]

(* The task is over.  A future that is still to be registered is remembered *)
(* as finished; isRunning() of a registered one becomes false.              *)
Ends(t) ==
    /\ phase' = [phase EXCEPT ![t] =
                    IF t \in async_registry THEN "none" ELSE "finished"]
    /\ async_registry' = async_registry \ {t}
    /\ toWait' = toWait \ {t}
    /\ unregistered' = unregistered \ {t}
    /\ held' = [held EXCEPT ![t] = NoRequest]

\* The chain ends: nobody will look at the queue unless main starts a task.
NoticeMissedPush ==
    missed' = (missed \/ (main.pc = "push" /\ ~main.sawEmpty))

\* Every access to the object of a deleted Anime is undefined behaviour.
Touches(t) == corrupt' = (held[t].anime \notin live)

(* A thread of the pool becomes free and runs the task.                     *)
Start(t) ==
    /\ Cardinality(RunningTasks) < PoolThreads
    /\ Moves(t, "queued", "size")
    /\ UNCHANGED <<queue, async_registry, held, child, objectVars, main, loops,
                   quitVars, requests, corrupt, ghostVars>>

(* if (queue.size() == 0) return 1;                                         *)
CheckSize(t) ==
    /\ phase[t] = "size"
    /\ IF queue = <<>>
       THEN Ends(t) /\ NoticeMissedPush
       ELSE /\ Moves(t, "size", "cancelled")
            /\ UNCHANGED <<async_registry, toWait, unregistered, held, missed>>
    /\ UNCHANGED <<queue, child, objectVars, main, loops, cancel, quit, visited,
                   again, requests, corrupt, overlapped, lostSignal, freedInUse>>

\* Slip: continue instead of return.
CheckCancelRetries(t) ==
    /\ Moves(t, "cancelled", IF cancel THEN "size" ELSE "front")
    /\ UNCHANGED <<queue, async_registry, held, child, objectVars, main, loops,
                   quitVars, requests, corrupt, ghostVars>>

(* if (this->cancel) return 1;                                              *)
CheckCancel(t) ==
    /\ phase[t] = "cancelled"
    /\ IF cancel
       THEN Ends(t)
       ELSE /\ Moves(t, "cancelled", "front")
            /\ UNCHANGED <<async_registry, toWait, unregistered, held>>
    /\ UNCHANGED <<queue, child, objectVars, main, loops, cancel, quit, visited,
                   again, requests, corrupt, ghostVars>>

\* Slip: reading the front removes it.
FrontTakes(t) ==
    /\ Moves(t, "front", "pop")
    /\ held' = [held EXCEPT ![t] = IF queue = <<>> THEN NoRequest ELSE Head(queue)]
    /\ queue' = IF queue = <<>> THEN queue ELSE Tail(queue)
    /\ corrupt' = (queue = <<>>)
    /\ UNCHANGED <<async_registry, child, objectVars, main, loops,
                   quitVars, requests, ghostVars>>

\* Slip: back() for front().
FrontIsBack(t) ==
    /\ Moves(t, "front", "pop")
    /\ held' = [held EXCEPT ![t] = IF queue = <<>> THEN NoRequest ELSE queue[Len(queue)]]
    /\ corrupt' = (queue = <<>>)
    /\ UNCHANGED <<queue, async_registry, child, objectVars, main, loops,
                   quitVars, requests, ghostVars>>

(* QMap<Anime *, bool> data = queue.front();                                *)
Front(t) ==
    /\ Moves(t, "front", "pop")
    /\ held' = [held EXCEPT ![t] = IF queue = <<>> THEN NoRequest ELSE Head(queue)]
    /\ corrupt' = (queue = <<>>)
    /\ UNCHANGED <<queue, async_registry, child, objectVars, main, loops,
                   quitVars, requests, ghostVars>>

(* queue.pop(), whatever is first by now; then the request is sent.         *)
Pop(t) ==
    /\ Moves(t, "pop", "get")
    /\ queue' = IF queue = <<>> THEN queue ELSE Tail(queue)
    /\ corrupt' = (queue = <<>>)
    /\ UNCHANGED <<async_registry, held, child, objectVars, main, loops,
                   quitVars, requests, ghostVars>>

(* The reply is here: setCoverURL, and downloadCover if it was asked for.   *)
Get(t) ==
    /\ Moves(t, "get", IF held[t].cover THEN "cover" ELSE "emit")
    /\ needCover' = IF held[t].cover THEN needCover \ {held[t].anime} ELSE needCover
    /\ Touches(t)
    /\ UNCHANGED <<queue, async_registry, held, child, needLoad, live, main,
                   loops, quitVars, requests, ghostVars>>

(* FileDownloader::fileDownloaded: the data are set, and new_image ends the *)
(* local event loop of loadNext ...                                         *)
CoverArrives(t) ==
    /\ Moves(t, "cover", "emit")
    /\ Touches(t)
    /\ UNCHANGED <<queue, async_registry, held, child, objectVars, main, loops,
                   quitVars, requests, ghostVars>>

(* ... but a download that failed opens an error box first, in the thread   *)
(* of the task, which waits until the box is closed ...                     *)
CoverFails(t) ==
    /\ Moves(t, "cover", "box")
    /\ UNCHANGED <<queue, async_registry, held, child, objectVars, main, loops,
                   quitVars, requests, corrupt, ghostVars>>

\* ... and only then ends the loop with what data there are.
BoxClosed(t) ==
    /\ Moves(t, "box", "emit")
    /\ Touches(t)
    /\ UNCHANGED <<queue, async_registry, held, child, objectVars, main, loops,
                   quitVars, requests, ghostVars>>

\* An event loop connected to finishedReloading of a is told to return.
Told(loop, a) == [anime  |-> loop.anime,
                  quit   |-> (loop.quit \/ loop.anime = a),
                  inQuit |-> loop.inQuit]

\* Slip: the signal is not emitted.
EmitForgotten(t) ==
    /\ Moves(t, "emit", "clear")
    /\ Touches(t)
    /\ UNCHANGED <<queue, async_registry, held, child, objectVars, main, loops,
                   quitVars, requests, ghostVars>>

(* The setters, then finishReload: finishedReloading is emitted first and   *)
(* reaches the event loops that are connected by now ...                    *)
Emit(t) ==
    /\ Moves(t, "emit", "clear")
    /\ Touches(t)
    /\ loops' = [i \in 1..Len(loops) |-> Told(loops[i], held[t].anime)]
    /\ lostSignal' = (lostSignal \/ ( /\ main.waits
                                      /\ main.pc # "push"
                                      /\ main.req.anime = held[t].anime))
    /\ UNCHANGED <<queue, async_registry, held, child, objectVars, main,
                   quitVars, requests, overlapped, missed, freedInUse>>

(* ... and only then the flag is cleared.                                   *)
ClearNeedLoad(t) ==
    /\ Moves(t, "clear", "tail")
    /\ Touches(t)
    /\ needLoad' = needLoad \ {held[t].anime}
    /\ held' = [held EXCEPT ![t] = NoRequest]
    /\ UNCHANGED <<queue, async_registry, child, needCover, live, main, loops,
                   quitVars, requests, ghostVars>>

\* Slip: the task goes on as well.
TailStartsAndGoesOn(t, s) ==
    /\ phase[t] = "tail"
    /\ queue # <<>>
    /\ phase[s] = "none"
    /\ phase' = [phase EXCEPT ![t] = "size", ![s] = "queued"]
    /\ child' = [child EXCEPT ![t] = s]
    /\ UNCHANGED <<queue, async_registry, held, objectVars, main, loops,
                   quitVars, requests, corrupt, ghostVars>>

(* if (queue.size() > 0) QtConcurrent::run(loadNext), whatever cancel is.   *)
TailStarts(t, s) ==
    /\ phase[t] = "tail"
    /\ queue # <<>>
    /\ phase[s] = "none"
    /\ phase' = [phase EXCEPT ![t] = "append", ![s] = "queued"]
    /\ child' = [child EXCEPT ![t] = s]
    /\ UNCHANGED <<queue, async_registry, held, objectVars, main, loops,
                   quitVars, requests, corrupt, ghostVars>>

\* Slip: no successor although requests wait.
TailEndsAnyway(t) ==
    /\ phase[t] = "tail"
    /\ Ends(t)
    /\ NoticeMissedPush
    /\ UNCHANGED <<queue, child, objectVars, main, loops, cancel, quit, visited,
                   again, requests, corrupt, overlapped, lostSignal, freedInUse>>

TailEnds(t) ==
    /\ phase[t] = "tail"
    /\ queue = <<>>
    /\ Ends(t)
    /\ NoticeMissedPush
    /\ UNCHANGED <<queue, child, objectVars, main, loops, cancel, quit, visited,
                   again, requests, corrupt, overlapped, lostSignal, freedInUse>>

(* async_registry.append() by the task, which then is over.  While quit()   *)
(* iterates over the list the append may or may not move its storage.       *)
TailAppends(t) ==
    LET s == child[t]
        over(u) == IF u \in async_registry THEN "none" ELSE "finished"
    IN /\ phase[t] = "append"
       /\ phase' = [phase EXCEPT ![t] = over(t),
                                  ![s] = IF @ = "finished" THEN "none" ELSE @]
       /\ async_registry' = IF phase[s] = "finished"
                            THEN async_registry \ {t}
                            ELSE (async_registry \ {t}) \cup {s}
       /\ toWait' = toWait \ {t}
       /\ unregistered' = unregistered \ {t}
       /\ child' = [child EXCEPT ![t] = NoTask]
       /\ corrupt' \in BOOLEAN
       /\ corrupt' => quit \in {"scan", "events", "wait"}
       /\ UNCHANGED <<queue, held, objectVars, main, loops, cancel, quit, visited,
                      again, requests, ghostVars>>

-----------------------------------------------------------------------------
(* User::quit, called on the main thread by MainWindow::elegantClose: once  *)
(* to close the program, and again when the event loop has been left        *)
(* (QCoreApplication::aboutToQuit is connected to elegantClose, too).       *)

Quit(from) ==
    /\ main.pc = "idle"
    /\ quit = from
    /\ cancel' = TRUE
    /\ quit' = "scan"
    /\ toWait' = async_registry
    /\ unregistered' = {t \in Task : phase[t] \notin {"none", "finished"}} \ async_registry
    /\ again' = (from = "left")
    /\ UNCHANGED <<queue, async_registry, workerVars, objectVars, main, loops,
                   visited, requests, corrupt, ghostVars>>

Close       == Quit("no")
AboutToQuit == Quit("left")

QuitMoves(from, to) ==
    /\ quit = from
    /\ quit' = to
    /\ UNCHANGED <<queue, async_registry, workerVars, objectVars, main, loops,
                   cancel, toWait, unregistered, again, requests, corrupt,
                   ghostVars>>

(* if (f.isRunning()) { qApp->processEvents(); f.waitForFinished(); }       *)
(* Finished futures leave toWait; the order of the visits is left open.     *)
QuitVisits(t) == t \in toWait /\ QuitMoves("scan", "events") /\ visited' = t
EventsDone ==
    /\ main.pc = "idle"
    /\ loops # <<>> => ~loops[Len(loops)].inQuit
    /\ QuitMoves("events", "wait")
    /\ UNCHANGED visited
QuitWaited   == visited \notin toWait /\ QuitMoves("wait", "scan") /\ visited' = NoTask

\* Slip: the walk is left after one future.
QuitFinishedEarly ==
    /\ quit = "scan"
    /\ quit' = IF again THEN "done" ELSE "left"
    /\ loops' = <<>>
    /\ UNCHANGED <<queue, async_registry, workerVars, objectVars, main, cancel,
                   toWait, visited, unregistered, again, requests, corrupt,
                   ghostVars>>

(* emit quitFinished(): the first time it is connected to QApplication::quit *)
(* and every event loop of the main thread, nested ones included, is left.  *)
QuitFinished ==
    /\ quit = "scan"
    /\ toWait = {}
    /\ quit' = IF again THEN "done" ELSE "left"
    /\ loops' = <<>>
    /\ UNCHANGED <<queue, async_registry, workerVars, objectVars, main, cancel,
                   toWait, visited, unregistered, again, requests, corrupt,
                   ghostVars>>

-----------------------------------------------------------------------------
Calls ==
    \E a \in Anime : \/ QueueLoad(a) \/ ReloadAfterEpisode(a)
                     \/ SearchLoad(a) \/ BrowserLoad(a) \/ Remove(a)

MainSteps ==
    \/ Push
    \/ \E t \in Task : Run(t)
    \/ AppendFuture
    \/ ConnectAndExec
    \/ LoopReturns

QuitSteps ==
    \/ \E t \in Task : QuitVisits(t)
    \/ EventsDone
    \/ QuitWaited
    \/ QuitFinished
    \/ AboutToQuit

LoadNext(t) ==
    \/ Start(t) \/ CheckSize(t) \/ CheckCancel(t)
    \/ Front(t) \/ Pop(t)
    \/ Get(t) \/ CoverArrives(t) \/ CoverFails(t) \/ BoxClosed(t)
    \/ Emit(t) \/ ClearNeedLoad(t)
    \/ \E s \in Task : TailStarts(t, s)
    \/ TailEnds(t) \/ TailAppends(t)

Next ==
    /\ ~corrupt
    /\ Calls \/ MainSteps \/ Close \/ QuitSteps \/ \E t \in Task : LoadNext(t)

Spec == Init /\ [][Next]_vars

(* The operating system runs both threads, the pool runs what it was given  *)
(* and every reply of the network arrives, if only with an error.  Nobody   *)
(* has to click: an error box may stand for ever, and it is opened outside  *)
(* the main thread, where Qt supports no widgets.                           *)
FairSpec ==
    /\ Spec
    /\ WF_vars(~corrupt /\ MainSteps)
    /\ WF_vars(~corrupt /\ QuitSteps)
    /\ \A t \in Task : WF_vars(~corrupt /\ phase[t] # "box" /\ LoadNext(t))

-----------------------------------------------------------------------------
MainPc == {"idle", "push", "run", "append", "connect"}
RequestOrNone == Request \cup {NoRequest}
MainState == [pc : MainPc, req : RequestOrNone, sawEmpty : BOOLEAN,
              waits : BOOLEAN, task : Task \cup {NoTask}]
Loop == [anime : Anime \cup {NoAnime}, quit : BOOLEAN, inQuit : BOOLEAN]

TypeOK ==
    /\ queue \in Seq(Request)
    /\ async_registry \in SUBSET Task
    /\ cancel \in BOOLEAN
    /\ phase \in [Task -> Phase]
    /\ held \in [Task -> RequestOrNone]
    /\ child \in [Task -> Task \cup {NoTask}]
    /\ needLoad \in SUBSET Anime
    /\ needCover \in SUBSET Anime
    /\ live \in SUBSET Anime
    /\ main \in MainState
    /\ loops \in Seq(Loop)
    /\ quit \in {"no", "scan", "events", "wait", "left", "done"}
    /\ toWait \in SUBSET Task
    /\ visited \in Task \cup {NoTask}
    /\ again \in BOOLEAN
    /\ requests \in 0..MaxRequests
    /\ corrupt \in BOOLEAN
    /\ overlapped \in BOOLEAN
    /\ missed \in BOOLEAN
    /\ lostSignal \in BOOLEAN
    /\ freedInUse \in BOOLEAN
    /\ unregistered \in SUBSET Task

(* A request is stranded in the queue, with nothing left in the program that *)
(* would look at it, only after a chain of tasks ended between the size() and *)
(* the push() of one loadAnimeData call, or once quit() was called.  (The    *)
(* next request does not revive the loader: it reads a size that is not 0.)  *)
Stranded ==
    /\ queue # <<>>
    /\ ActiveTasks = {}
    /\ main.pc # "run"

StrandedOnlyByMissedPush == Stranded => missed \/ cancel

(* front() and pop() meet an empty queue, a request is processed twice and   *)
(* another one dropped, only if main started a task while a task was already *)
(* running: `queue was empty' is not `nobody is working'.  The other causes  *)
(* of undefined behaviour are an Anime deleted while the loader holds it and *)
(* a task that registers its successor while quit() iterates.                *)
CorruptOnlyByKnownRaces == corrupt => overlapped \/ freedInUse \/ cancel

(* As long as main never starts a task next to another one, no two tasks    *)
(* are between their start and their last look at the queue, and what the   *)
(* size check promised a task is still there when it calls front and pop.   *)
OneAtATime ==
    ~overlapped =>
        /\ \A t, u \in ActiveTasks : t = u
        /\ \A t \in Task : phase[t] \in {"cancelled", "front", "pop"} => queue # <<>>

(* Up to the first overlap (or undefined behaviour) the loader is a FIFO    *)
(* service with one server: nothing is lost, doubled or overtaken, in spite *)
(* of the unlocked queue and the tasks that hand over to each other.        *)
Broken == overlapped \/ corrupt
InService == {held[t] : t \in {u \in Task : phase[u] \in Working}}

Service == INSTANCE LoadService WITH
    waiting <- IF Broken THEN <<>> ELSE queue,
    serving <- IF Broken THEN {} ELSE InService,
    broken  <- Broken

ImplementsService == Service!Spec

(* When quit() returns for the last time, and the User is about to be       *)
(* deleted, the only tasks that may still touch an Anime are those that were *)
(* running but not yet in async_registry when it took its last look: no      *)
(* task that starts after the flag was set gets past the check.              *)
QuitWaitsForLoads ==
    quit = "done" =>
        \A t \in Task : phase[t] \in {"front", "pop"} \cup Working => t \in unregistered

(* Somebody closes the error boxes there are.                               *)
BoxesClosed == \A t \in Task : []<>(phase[t] # "box")

(* Every load of the program ends: unless one of the races happened, the    *)
(* program is closing or an error box is left standing, whatever is queued  *)
(* is taken off the queue ...                                               *)
Undisturbed == ~corrupt /\ ~missed /\ ~cancel

QueueDrains == BoxesClosed /\ []Undisturbed => (queue # <<>> ~> queue = <<>>)

(* ... and the search panel and the browser tab, blocked in a nested event  *)
(* loop, go on, if the signal did not come before they listened for it.     *)
LoopsReturn ==
    BoxesClosed /\ [](Undisturbed /\ ~overlapped /\ ~lostSignal)
        => (loops # <<>> ~> loops = <<>>)

(* quit() comes to its end although tasks go on starting tasks, provided    *)
(* that no handler run by its processEvents() waits for a load and that no  *)
(* error box is left standing: waitForFinished() waits for it.              *)
QuitEnds ==
    BoxesClosed /\ [](~corrupt /\ \A i \in 1..Len(loops) : ~loops[i].inQuit)
        => (cancel ~> quit = "done")
=============================================================================
