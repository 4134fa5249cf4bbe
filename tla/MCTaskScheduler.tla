--------------------------- MODULE MCTaskScheduler ---------------------------
(***************************************************************************)
(* TaskScheduler on the application's own use of it (sandbox_app.cpp): the *)
(* chain of futures of runFutureTest (an async task, another, a sync one), *)
(* the coroutine runAsyncTaskTest (it switches to a worker and back to the *)
(* main thread; of its three yields none is kept, and the file it loads is *)
(* in memory) and setupAsync, which app_init calls, with two of the files  *)
(* that a material has on disk and what it does after each.                *)
(***************************************************************************)
EXTENDS TaskScheduler, TLC

CONSTANTS step1, step2, final, switch, back, load1, rest1, load2, rest2

MCTasks     == {step1, step2, final, switch, back, load1, rest1, load2, rest2}
MCKind      == step1 :> "async" @@ step2 :> "async" @@ final :> "sync"
                 @@ switch :> "async" @@ back :> "sync"
                 @@ load1 :> "io" @@ rest1 :> "async" @@ load2 :> "io" @@ rest2 :> "async"
MCAfter     == step1 :> step2 @@ step2 :> final @@ final :> None
                 @@ switch :> back @@ back :> None
                 @@ load1 :> rest1 @@ rest1 :> load2 @@ load2 :> rest2 @@ rest2 :> None
MCCoroutine == {switch, back, rest1, rest2}

\* The workers are interchangeable.
WorkerSymmetry == Permutations(Workers)

\* A smaller instance, for the liveness properties.
FewTasks     == MCTasks \ {switch, back}
FewKind      == [t \in FewTasks |-> MCKind[t]]
FewAfter     == [t \in FewTasks |-> MCAfter[t]]
FewCoroutine == MCCoroutine \cap FewTasks
=============================================================================
