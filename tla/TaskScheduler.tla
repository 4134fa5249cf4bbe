---------------------------- MODULE TaskScheduler ----------------------------
(***************************************************************************)
(* engine/common/async: TaskScheduler with its three queues, the callbacks *)
(* of Future and the awaiters, from app_init to the end of                 *)
(* stop_engine_threads (application.cpp).                                  *)
(*                                                                         *)
(* A critical section of a queue or of a future is one step, a notify      *)
(* another. A task is a name, and After[t] what comes after it:            *)
(*  - in a chain of futures, the function given to then (an async task) or *)
(*    thenSync (a sync one);                                               *)
(*  - in a coroutine, its next stretch, to which SwitchToWorker, Yield     *)
(*    (async) or SwitchToMainThread (sync) passes, or a file it loads      *)
(*    (loadAsync: an io task), after which its next stretch is resumed.    *)
(* A file in memory has its future ready at once and is no event of the    *)
(* model. Tasks terminate. An exception that leaves the body of a          *)
(* coroutine is kept or swallowed by its promise, and what was to come is  *)
(* lost; one that leaves another task, a callback or the noexcept          *)
(* await_suspend ends the program.                                         *)
(***************************************************************************)
EXTENDS Naturals, Sequences, FiniteSets

CONSTANTS
  Workers, IoWorkers,  \* the threads of workers_ and ioWorkers_
  Tasks,
  Kind,                \* the queue each task is posted to
  After,               \* the continuation of each task, or None
  Coroutine,           \* the tasks that are stretches of a coroutine
  Main, Sim,           \* the main thread and the simulation thread
  None

Kinds   == {"async", "io", "sync"}
Pool    == Workers \cup IoWorkers
Threads == Pool \cup {Main, Sim}

\* The files that coroutines load.
Loads == {t \in Tasks : Kind[t] = "io"}

\* initialize starts at least one thread of each sort. A coroutine resumes on a
\* worker when it has loaded a file; it and a chain of futures do not mix.
ASSUME SchedulerAssumption ==
  /\ IsFiniteSet(Pool) /\ Workers # {} /\ IoWorkers # {}
  /\ Workers \cap IoWorkers = {} /\ Main \notin Pool /\ Sim \notin Pool
  /\ Main # Sim
  /\ Kind \in [Tasks -> Kinds]
  /\ After \in [Tasks -> Tasks \cup {None}] /\ None \notin Tasks
  /\ \A t, u \in Tasks : After[t] = After[u] /\ After[t] # None => t = u
  /\ Coroutine \subseteq Tasks \ Loads
  /\ \A t \in Loads : After[t] \in Coroutine /\ Kind[After[t]] = "async"
  /\ \A t \in Tasks \ Loads : After[t] # None =>
       (t \in Coroutine <=> After[t] \in Coroutine \cup Loads)

\* The queue a pool thread serves, and the threads that serve a queue.
Serves(w)  == IF w \in Workers THEN "async" ELSE "io"
Servers(k) == {w \in Pool : Serves(w) = k}

\* Posted by app_init or by the simulation; every other task comes after one.
Roots == {t \in Tasks : \A p \in Tasks : After[p] # t}

VARIABLES
  queue,      \* asyncQueue_, ioQueue_ and syncQueue_
  batch,      \* readyTasks of process_main_thread_tasks
  stop,       \* stop_
  scheduler,  \* g_currentScheduler is not null
  pc,         \* where each thread is
  held,       \* the task each thread runs, posts or notifies of
  chain,      \* the future the simulation is about to call then on
  attached,   \* tasks whose future has its callback
  ready,      \* tasks whose future is ready, stretches that are over
  lost,       \* files whose load was refused with an exception
  crashed     \* std::terminate

queues  == <<queue, batch>>
threads == <<pc, held>>
futures == <<attached, ready, lost>>
vars    == <<queues, stop, scheduler, threads, chain, futures, crashed>>

Init ==
  /\ queue = [k \in Kinds |-> <<>>] /\ batch = <<>>
  /\ stop = FALSE /\ scheduler = TRUE
  /\ pc = [th \in Threads |-> IF th = Main THEN "init" ELSE "off"]
  /\ held = [th \in Threads |-> None]
  /\ chain = None /\ attached = {} /\ ready = {} /\ lost = {}
  /\ crashed = FALSE

-----------------------------------------------------------------------------
(* What any thread does with the task it holds *)

\* Every step of a thread starts like this: std::terminate ends them all.
At(th, place) == pc[th] = place /\ ~crashed

\* Where a thread goes on when it has dealt with a task: the main thread is in
\* app_init until the other threads have been started.
Home(th) == CASE th = Main -> IF pc[Sim] = "off" THEN "init" ELSE "batch"
              [] th = Sim -> "attach"
              [] OTHER -> "look"

Goto(th, place, task) ==
  pc' = [pc EXCEPT ![th] = place] /\ held' = [held EXCEPT ![th] = task]

\* The task returns and set_value takes the callbacks with the future's lock;
\* a stretch of a coroutine goes on to what comes after it.
Complete(th) ==
  /\ At(th, "run")
  /\ ready' = ready \cup {held[th]}
  /\ LET next == After[held[th]]
     IN  IF next = None \/ held[th] \notin attached \cup Coroutine
         THEN Goto(th, Home(th), None)
         ELSE Goto(th, IF next \in Loads THEN "load" ELSE "post", next)
  /\ UNCHANGED <<queues, stop, scheduler, chain, attached, lost, crashed>>

\* loadAsync; without a scheduler its future is ready, and holds an error.
Load(th) ==
  /\ At(th, "load")
  /\ IF scheduler
     THEN Goto(th, "enqueue", held[th]) /\ UNCHANGED ready
     ELSE Goto(th, "await", held[th]) /\ ready' = ready \cup {held[th]}
  /\ UNCHANGED <<queues, stop, scheduler, chain, attached, lost, crashed>>

\* co_await: await_ready; a future that is ready lets the coroutine go on at
\* once, on the same thread ...
AwaitReady(th) ==
  /\ At(th, "await")
  /\ IF held[th] \in ready THEN Goto(th, "run", After[held[th]])
                           ELSE Goto(th, "suspend", held[th])
  /\ UNCHANGED <<queues, stop, scheduler, chain, futures, crashed>>

\* Mutant: then does not look whether the future has become ready.
SuspendBlindly(th) ==
  /\ At(th, "suspend")
  /\ attached' = attached \cup {held[th]} /\ Goto(th, Home(th), None)
  /\ UNCHANGED <<queues, stop, scheduler, chain, ready, lost, crashed>>

\* ... and await_suspend, which calls then: with the future's lock held, run_now
\* if it has become ready, otherwise the callback is stored.
Suspend(th) ==
  /\ At(th, "suspend")
  /\ IF held[th] \in ready
     THEN Goto(th, "post", After[held[th]]) /\ UNCHANGED attached
     ELSE Goto(th, Home(th), None) /\ attached' = attached \cup {held[th]}
  /\ UNCHANGED <<queues, stop, scheduler, chain, ready, lost, crashed>>

\* A callback or an awaiter: get_current_scheduler(); without one the task is
\* run on the spot.
Post(th) ==
  /\ At(th, "post")
  /\ Goto(th, IF scheduler THEN "enqueue" ELSE "run", held[th])
  /\ UNCHANGED <<queues, stop, scheduler, chain, futures, crashed>>

Push(t) == queue' = [queue EXCEPT ![Kind[t]] = Append(@, t)]

\* Mutant: stop_ is not looked at.
EnqueueAnyway(th) ==
  /\ At(th, "enqueue")
  /\ Push(held[th])
  /\ IF Kind[held[th]] = "sync" THEN Goto(th, Home(th), None)
                                ELSE Goto(th, "notify", held[th])
  /\ UNCHANGED <<batch, stop, scheduler, chain, futures, crashed>>

\* enqueue_async, enqueue_io or enqueue_sync: the critical section
Enqueue(th) ==
  /\ At(th, "enqueue") /\ ~stop
  /\ Push(held[th])
  /\ IF Kind[held[th]] = "sync" THEN Goto(th, Home(th), None)
                                ELSE Goto(th, "notify", held[th])
  /\ UNCHANGED <<batch, stop, scheduler, chain, futures, crashed>>

\* throw std::runtime_error("TaskScheduler is stopped"): from a callback or an
\* awaiter nobody can catch it ...
EnqueueThrows(th) ==
  /\ At(th, "enqueue") /\ stop /\ held[th] \notin Loads
  /\ crashed' = TRUE
  /\ UNCHANGED <<queues, stop, scheduler, threads, chain, futures>>

\* ... from loadAsync it unwinds the coroutine up to FireAndForget's promise,
\* which swallows it: the thread goes on and the rest is not run.
LoadThrows(th) ==
  /\ At(th, "enqueue") /\ stop /\ held[th] \in Loads
  /\ lost' = lost \cup {held[th]} /\ Goto(th, Home(th), None)
  /\ UNCHANGED <<queues, stop, scheduler, chain, attached, ready, crashed>>

Asleep(k) == {w \in Servers(k) : pc[w] = "asleep"}

\* Mutant: enqueue does not notify.
NotifyNobody(th) ==
  /\ At(th, "notify")
  /\ IF held[th] \in Loads THEN Goto(th, "await", held[th]) ELSE Goto(th, Home(th), None)
  /\ UNCHANGED <<queues, stop, scheduler, chain, futures, crashed>>

\* notify_one: some thread that is asleep on the queue's condition wakes. Who
\* has posted a load has its future, and awaits it.
Notify(th) ==
  /\ At(th, "notify")
  /\ held' = [held EXCEPT ![th] = IF @ \in Loads THEN @ ELSE None]
  /\ LET place == IF held[th] \in Loads THEN "await" ELSE Home(th)
     IN  IF Asleep(Kind[held[th]]) = {}
         THEN pc' = [pc EXCEPT ![th] = place]
         ELSE \E w \in Asleep(Kind[held[th]]) :
                pc' = [pc EXCEPT ![th] = place, ![w] = "look"]
  /\ UNCHANGED <<queues, stop, scheduler, chain, futures, crashed>>

HandleTask(th) ==
  \/ Complete(th) \/ Load(th) \/ AwaitReady(th) \/ Suspend(th) \/ Post(th)
  \/ Enqueue(th) \/ EnqueueThrows(th) \/ LoadThrows(th) \/ Notify(th)

-----------------------------------------------------------------------------
(* worker_loop and io_worker_loop *)

\* set_current_scheduler(this)
WorkerStart(w) ==
  /\ At(w, "start")
  /\ pc' = [pc EXCEPT ![w] = "look"] /\ scheduler' = TRUE
  /\ UNCHANGED <<queues, stop, held, chain, futures, crashed>>

\* Mutant: front without pop_front.
TakeWithoutPop(w) ==
  /\ At(w, "look") /\ queue[Serves(w)] # <<>>
  /\ Goto(w, "run", Head(queue[Serves(w)]))
  /\ UNCHANGED <<queues, stop, scheduler, chain, futures, crashed>>

Take(w) ==
  /\ At(w, "look") /\ queue[Serves(w)] # <<>>
  /\ queue' = [queue EXCEPT ![Serves(w)] = Tail(@)]
  /\ Goto(w, "run", Head(queue[Serves(w)]))
  /\ UNCHANGED <<batch, stop, scheduler, chain, futures, crashed>>

\* The predicate is false; the mutex is released and the thread sleeps.
Sleep(w) ==
  /\ At(w, "look") /\ queue[Serves(w)] = <<>> /\ ~stop
  /\ pc' = [pc EXCEPT ![w] = "asleep"]
  /\ UNCHANGED <<queues, stop, scheduler, held, chain, futures, crashed>>

\* Mutant: a worker leaves as soon as it sees stop_.
ExitOnStop(w) ==
  /\ At(w, "look") /\ stop
  /\ pc' = [pc EXCEPT ![w] = "exit"]
  /\ UNCHANGED <<queues, stop, scheduler, held, chain, futures, crashed>>

\* stop_ and nothing left to do
Exit(w) ==
  /\ At(w, "look") /\ queue[Serves(w)] = <<>> /\ stop
  /\ pc' = [pc EXCEPT ![w] = "exit"]
  /\ UNCHANGED <<queues, stop, scheduler, held, chain, futures, crashed>>

WakeSpurious(w) ==
  /\ At(w, "asleep")
  /\ pc' = [pc EXCEPT ![w] = "look"]
  /\ UNCHANGED <<queues, stop, scheduler, held, chain, futures, crashed>>

WorkerStep(w) ==
  WorkerStart(w) \/ Take(w) \/ Sleep(w) \/ Exit(w) \/ HandleTask(w)

-----------------------------------------------------------------------------
(* Where a task is: a thread that notifies of it or awaits it has passed it on *)

Hands(th) == pc[th] \notin {"notify", "await", "suspend"}
Where(t)  == Cardinality({th \in Threads : held[th] = t /\ Hands(th)})
InLine(t) ==
  \/ \E k \in Kinds : \E i \in DOMAIN queue[k] : queue[k][i] = t
  \/ \E i \in DOMAIN batch : batch[i] = t
Posted(t) == t \in ready \cup lost \/ Where(t) > 0 \/ InLine(t)

-----------------------------------------------------------------------------
(* Main thread *)

\* app_init calls a coroutine (setupAsync) that runs up to its first load.
StartSetup(t) ==
  /\ At(Main, "init") /\ t \in Roots \cap Loads /\ ~Posted(t)
  /\ Goto(Main, "load", t)
  /\ UNCHANGED <<queues, stop, scheduler, chain, futures, crashed>>

\* start_engine_threads: initialize, then the simulation's thread
StartThreads ==
  /\ At(Main, "init") /\ \A t \in Roots \cap Loads : Posted(t)
  /\ stop' = FALSE
  /\ pc' = [th \in Threads |->
              CASE th = Main -> "loop" [] th = Sim -> "tick" [] OTHER -> "start"]
  /\ UNCHANGED <<queues, scheduler, held, chain, futures, crashed>>

\* process_main_thread_tasks: the mailbox is swapped out with its lock held ...
TakeBatch ==
  /\ At(Main, "loop") /\ queue["sync"] # <<>>
  /\ batch' = queue["sync"] /\ queue' = [queue EXCEPT !["sync"] = <<>>]
  /\ pc' = [pc EXCEPT ![Main] = "batch"]
  /\ UNCHANGED <<stop, scheduler, held, chain, futures, crashed>>

\* ... and its tasks run in order.
RunBatch ==
  /\ At(Main, "batch")
  /\ IF batch = <<>>
     THEN Goto(Main, "loop", None) /\ UNCHANGED batch
     ELSE Goto(Main, "run", Head(batch)) /\ batch' = Tail(batch)
  /\ UNCHANGED <<queue, stop, scheduler, chain, futures, crashed>>

\* A step of stop_engine_threads: isRunning_ = false ("loop" to "clear") ...
MainGoto(from, to) == At(Main, from) /\ pc' = [pc EXCEPT ![Main] = to]

StopRunning ==
  /\ MainGoto("loop", "clear")
  /\ UNCHANGED <<queues, stop, scheduler, held, chain, futures, crashed>>

ClearScheduler ==
  /\ MainGoto("clear", "stop")
  /\ scheduler' = FALSE
  /\ UNCHANGED <<queues, stop, held, chain, futures, crashed>>

\* ... shutdown: stop_ is set with both mutexes held, everyone is woken ...
SetStop ==
  /\ MainGoto("stop", "wake")
  /\ stop' = TRUE
  /\ UNCHANGED <<queues, scheduler, held, chain, futures, crashed>>

\* Mutant: the I/O threads are not notified.
WakeWorkers ==
  /\ At(Main, "wake")
  /\ pc' = [th \in Threads |->
              CASE th = Main -> "join"
                [] th \in Workers /\ At(th, "asleep") -> "look"
                [] OTHER -> pc[th]]
  /\ UNCHANGED <<queues, stop, scheduler, held, chain, futures, crashed>>

WakeAll ==
  /\ At(Main, "wake")
  /\ pc' = [th \in Threads |->
              CASE th = Main -> "join" [] pc[th] = "asleep" -> "look" [] OTHER -> pc[th]]
  /\ UNCHANGED <<queues, stop, scheduler, held, chain, futures, crashed>>

\* ... and joined; then the simulation's thread is.
JoinPool ==
  /\ MainGoto("join", "joinSim")
  /\ \A w \in Pool : pc[w] = "exit"
  /\ UNCHANGED <<queues, stop, scheduler, held, chain, futures, crashed>>

JoinSim ==
  /\ MainGoto("joinSim", "down")
  /\ At(Sim, "exit")
  /\ UNCHANGED <<queues, stop, scheduler, held, chain, futures, crashed>>

MainStop == ClearScheduler \/ SetStop \/ WakeAll \/ JoinPool \/ JoinSim
Stopping == pc[Main] \in {"clear", "stop", "wake", "join", "joinSim", "down"}

-----------------------------------------------------------------------------
(* Simulation thread *)

\* A button starts a chain of futures (runFutureTest, which has the scheduler
\* at hand) or a coroutine (runAsyncTaskTest: SwitchToWorker, which looks it up).
Submit(t) ==
  /\ At(Sim, "tick") /\ t \in Roots \ Loads /\ ~Posted(t)
  /\ Goto(Sim, IF t \in Coroutine THEN "post" ELSE "enqueue", t)
  /\ chain' = IF t \in Coroutine THEN None ELSE t
  /\ UNCHANGED <<queues, stop, scheduler, futures, crashed>>

\* Mutant: the callback is run at once, ready or not.
AttachRunsNow ==
  /\ At(Sim, "attach")
  /\ IF chain = None \/ After[chain] = None
     THEN Goto(Sim, "tick", None) /\ chain' = None
     ELSE chain' = After[chain] /\ Goto(Sim, "post", After[chain])
  /\ UNCHANGED <<queues, stop, scheduler, futures, crashed>>

\* then, thenSync on each future of the chain: with the future's lock held,
\* run_now if it is ready, otherwise the callback is stored.
Attach ==
  /\ At(Sim, "attach")
  /\ IF chain = None \/ After[chain] = None
     THEN Goto(Sim, "tick", None) /\ chain' = None /\ UNCHANGED attached
     ELSE /\ chain' = After[chain]
          /\ IF chain \in ready
             THEN Goto(Sim, "post", After[chain]) /\ UNCHANGED attached
             ELSE attached' = attached \cup {chain} /\ UNCHANGED threads
  /\ UNCHANGED <<queues, stop, scheduler, ready, lost, crashed>>

SimExit ==
  /\ At(Sim, "tick") /\ Stopping
  /\ pc' = [pc EXCEPT ![Sim] = "exit"]
  /\ UNCHANGED <<queues, stop, scheduler, held, chain, futures, crashed>>

-----------------------------------------------------------------------------
StartUp  == StartThreads \/ \E t \in Roots : StartSetup(t)
MainStep == TakeBatch \/ RunBatch \/ HandleTask(Main) \/ MainStop
SimStep  == Attach \/ SimExit \/ HandleTask(Sim)

Next ==
  \/ StartUp \/ StopRunning \/ MainStep
  \/ (\E t \in Roots : Submit(t)) \/ SimStep
  \/ \E w \in Pool : WorkerStep(w) \/ WakeSpurious(w)

Spec == Init /\ [][Next]_vars

\* Every thread is scheduled and gets a mutex that is free, and app_init calls
\* setupAsync. Nothing obliges the user to start a task or to close the window.
FairSpec ==
  /\ Spec
  /\ WF_vars(StartUp) /\ WF_vars(MainStep) /\ WF_vars(SimStep)
  /\ \A w \in Pool : WF_vars(WorkerStep(w))

-----------------------------------------------------------------------------
(* Correctness *)

Count(t, s) == Cardinality({i \in DOMAIN s : s[i] = t})

\* A task is in one place at a time, a queue, the batch or the hands of one
\* thread, and nowhere once it has run or been refused: with three kinds of thread
\* handing tasks over and then racing set_value, none is run twice.
RunOnce ==
  \A t \in Tasks :
    Count(t, queue["async"]) + Count(t, queue["io"]) + Count(t, queue["sync"])
      + Count(t, batch) + Where(t) <= IF t \in ready \cup lost THEN 0 ELSE 1

Awaiting(t) ==
  \E th \in Threads : held[th] = t /\ t \in Loads /\ ~Hands(th)

\* Then and co_await against set_value: whichever of the two takes the future's
\* lock first, what comes after a task that has run is not lost. It has been
\* posted, or the simulation is still to attach it, or some thread is still to
\* await it. The one thing refused without the program's end is a load that a
\* coroutine asks for once shutdown has begun, and the coroutine ends there.
ContinuationKept ==
  /\ \A t \in Tasks :
       t \in ready /\ After[t] # None => Posted(After[t]) \/ chain = t \/ Awaiting(t)
  /\ lost # {} => stop

\* No lost wake-up: a task in a queue with all its threads asleep is one
\* that somebody is about to notify of.
NoTaskStranded ==
  \A k \in {"async", "io"} :
    queue[k] # <<>> /\ (\A w \in Servers(k) : pc[w] = "asleep") =>
      \/ \E th \in Threads : pc[th] = "notify" /\ Kind[held[th]] = k
      \/ pc[Main] = "wake"

\* shutdown leaves nothing behind in the pools: when the threads have been
\* joined every task their queues accepted has run.
PoolDrained ==
  pc[Main] \in {"joinSim", "down"} => queue["async"] = <<>> /\ queue["io"] = <<>>

\* A task a pool accepted gets run, also when shutdown comes in between.
AcceptedRuns ==
  \A t \in Tasks, k \in {"async", "io"} :
    Count(t, queue[k]) > 0 ~> t \in ready \/ crashed

\* A chain of futures and a coroutine are carried on to their end, over the
\* queues, the mailbox and the awaits, unless the application is closed.
ContinuationRuns ==
  \A t \in Tasks :
    t \in ready /\ After[t] # None ~> After[t] \in ready \/ Stopping \/ crashed

\* Every thread is joined: stop_ against the workers' wait has no window such
\* as isRunning_ has against that of the render thread.
ShutdownEnds == pc[Main] = "clear" ~> pc[Main] = "down" \/ crashed

\* The scheduler implements the abstract pool: each task accepted, run and
\* finished in order and once, a continuation after the task it continues.
Status(t) ==
  CASE t \in ready -> "done"
    [] \E th \in Threads : pc[th] = "run" /\ held[th] = t -> "running"
    [] InLine(t) -> "accepted"
    [] OTHER -> "new"
status   == [t \in Tasks |-> Status(t)]
Abstract == INSTANCE TaskPool
ImplementsPool == Abstract!Spec
=============================================================================
