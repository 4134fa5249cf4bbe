------------------------- MODULE TaskSchedulerProofs -------------------------
(***************************************************************************)
(* What holds of the scheduler for any number of threads and any chains of *)
(* tasks: none is run twice, none is left behind by a then or a co_await   *)
(* that races the completion, none is stranded in a queue, and the pools   *)
(* are drained. A load refused after stop is all that is lost.             *)
(*                                                                         *)
(* What a step does to the tasks is told apart from where it leaves its    *)
(* thread: the many steps of the code move tasks in the few ways of Moves. *)
(***************************************************************************)
EXTENDS TaskScheduler, FiniteSetTheorems, SequenceTheorems, TLAPS

-----------------------------------------------------------------------------
(* The threads *)

Busy == {"run", "load", "post", "enqueue", "notify", "await", "suspend"}
Closing == {"wake", "join", "joinSim", "down"}

\* What a thread can be doing with a task.
Fits(place, t) ==
  /\ place \in Busy /\ t \in Tasks
  /\ place \in {"load", "await", "suspend"} => t \in Loads
  /\ place = "post" => t \notin Loads
  /\ place = "notify" => Kind[t] # "sync"

\* Where each thread can be, and what its place says of its task, of the
\* batch and of the future the simulation is building on.
ControlInv ==
  /\ DOMAIN pc = Threads /\ DOMAIN held = Threads
  /\ \A th \in Threads : IF pc[th] \in Busy THEN Fits(pc[th], held[th]) ELSE held[th] = None
  /\ \A w \in Pool : pc[w] \in Busy \cup {"off", "start", "look", "asleep", "exit"}
  /\ pc[Main] \in Busy \cup {"init", "loop", "batch", "clear", "stop"} \cup Closing
  /\ pc[Sim] \in Busy \cup {"off", "tick", "attach", "exit"}
  /\ IF pc[Sim] = "off" THEN /\ \A w \in Pool : pc[w] = "off"
                             /\ pc[Main] \in Busy \cup {"init"} /\ batch = <<>>
                        ELSE pc[Main] # "init"
  /\ batch # <<>> => pc[Main] \in Busy \cup {"batch"}
  /\ chain # None => /\ pc[Sim] \notin {"off", "tick", "exit"}
                     /\ chain \in Tasks \ (Coroutine \cup Loads)

\* Only a scheduler that has been stopped refuses a load.
FlagsInv ==
  /\ stop \in BOOLEAN /\ scheduler \in BOOLEAN /\ crashed \in BOOLEAN
  /\ lost # {} => stop
  /\ pc[Sim] = "off" => ~stop

TasksTyped ==
  /\ queue \in [Kinds -> Seq(Tasks)] /\ batch \in Seq(Tasks)
  /\ \A k \in Kinds : \A i \in 1 .. Len(queue[k]) : Kind[queue[k][i]] = k
  /\ \A i \in 1 .. Len(batch) : Kind[batch[i]] = "sync"
  /\ chain \in Tasks \cup {None}
  /\ attached \subseteq Tasks /\ ready \subseteq Tasks /\ lost \subseteq Loads

\* Threads that have left found their queue empty and stop_ set.
LeftInv ==
  /\ \A k \in {"async", "io"} :
       (\E w \in Servers(k) : pc[w] = "exit") => stop /\ queue[k] = <<>>
  /\ pc[Main] \in {"joinSim", "down"} => \A w \in Pool : pc[w] = "exit"

-----------------------------------------------------------------------------
(* The tasks *)

\* The task each thread has in its hands, and the load each thread has yet to
\* await: from loadAsync to the end of co_await.
hand    == [th \in Threads |-> IF Hands(th) THEN held[th] ELSE None]
expects == [th \in Threads |->
              IF pc[th] \in Busy \ {"run"} /\ held[th] \in Loads THEN held[th] ELSE None]

Has(s, t)   == \E i \in DOMAIN s : s[i] = t
InHand(t)   == \E th \in Threads : hand[th] = t
Expected(t) == \E th \in Threads : expects[th] = t
InQueue(t)  == Has(queue[Kind[t]], t)
InBatch(t)  == Has(batch, t)

posted == {t \in Tasks : t \in ready \/ InHand(t) \/ InQueue(t) \/ InBatch(t)}

Once(s) == \A i, j \in DOMAIN s : s[i] = s[j] => i = j

\* Every task is in one place at most, and a load that was refused in none.
PlacedInv ==
  /\ \A k \in Kinds : Once(queue[k])
  /\ Once(batch)
  /\ \A th, other \in Threads : hand[th] # None /\ hand[th] = hand[other] => th = other
  /\ \A t \in Tasks : /\ InHand(t) => ~InQueue(t) /\ ~InBatch(t)
                      /\ InQueue(t) => ~InBatch(t)
                      /\ t \in ready => ~InHand(t) /\ ~InQueue(t) /\ ~InBatch(t)
  /\ lost \cap posted = {}

\* Every load is awaited by one thread, which then sees to what comes after it.
ExpectInv ==
  /\ \A th, other \in Threads : expects[th] # None /\ expects[th] = expects[other] => th = other
  /\ \A th \in Threads : expects[th] # None =>
       /\ expects[th] \in posted \ attached
       /\ After[expects[th]] \notin posted

\* A task that has been posted, or will be by the callback of another.
Reached(t) == t \in posted \/ \E p \in attached : After[p] = t

\* What then, co_await and set_value leave of a chain or of a coroutine, whoever
\* comes first.
ChainInv ==
  /\ \A p \in Tasks : After[p] \in posted \cup lost => p \in ready
  /\ chain # None => /\ Reached(chain) /\ After[chain] # chain
                     /\ After[chain] \notin posted
                     /\ After[chain] # None => chain \notin attached
  /\ \A t \in attached : Reached(t) /\ t \notin Coroutine
  /\ \A t \in attached \cap ready : After[t] # None => After[t] \in posted
  /\ \A t \in Tasks \ (attached \cup Coroutine) :
       Reached(t) /\ After[t] # None => chain = t \/ After[t] \in posted \/ Expected(t)
  /\ \A t \in Coroutine \cap ready : After[t] # None => After[t] \in posted \cup lost

-----------------------------------------------------------------------------
(* The threads: proofs *)

LEMMA ThreadsAre ==
  /\ Main \in Threads /\ Sim \in Threads /\ Main # Sim
  /\ \A w \in Pool : w \in Threads /\ w # Main /\ w # Sim
  /\ \A th \in Threads : th = Main \/ th = Sim \/ th \in Pool
BY SchedulerAssumption DEF Threads

LEMMA TasksAre ==
  /\ Kind \in [Tasks -> Kinds] /\ None \notin Tasks
  /\ \A t \in Tasks : After[t] \in Tasks \cup {None}
BY SchedulerAssumption

LEMMA LoadsAre ==
  /\ Loads \subseteq Tasks /\ Coroutine \subseteq Tasks \ Loads /\ None \notin Loads
  /\ \A t \in Loads : After[t] \in Coroutine /\ Kind[t] # "sync"
  /\ \A t \in Tasks \ (Coroutine \cup Loads) :
       After[t] # None => After[t] \in Tasks \ (Coroutine \cup Loads)
BY SchedulerAssumption DEF Loads

LEMMA HomeIs ==
  /\ Home(Main) = IF pc[Sim] = "off" THEN "init" ELSE "batch"
  /\ Home(Sim) = "attach"
  /\ \A w \in Pool : Home(w) = "look"
BY ThreadsAre DEF Home

\* What the actions that any thread takes do to its place.
Woken(th, place, task) ==
  /\ pc[th] = "notify"
  /\ \E w \in Servers(Kind[held[th]]) :
       /\ pc[w] = "asleep"
       /\ pc' = [pc EXCEPT ![th] = place, ![w] = "look"]
       /\ held' = [held EXCEPT ![th] = task]

LEMMA HandleMoves ==
  ASSUME ControlInv, NEW th \in Threads, HandleTask(th)
  PROVE  /\ pc[th] \in Busy
         /\ UNCHANGED <<chain, batch>>
         /\ \/ UNCHANGED <<pc, held>>
            \/ Goto(th, Home(th), None)
            \/ Woken(th, Home(th), None)
            \/ held[th] \in Loads /\ Woken(th, "await", held[th])
            \/ \E place \in Busy, t \in Tasks : Fits(place, t) /\ Goto(th, place, t)
<1> USE TasksAre, LoadsAre DEF At, queues, futures
<1>0. /\ pc[th] \in Busy => held[th] \in Tasks /\ Fits(pc[th], held[th])
      /\ DOMAIN pc = Threads /\ DOMAIN held = Threads
  BY DEF ControlInv, Fits
<1>1. CASE Complete(th)
  <2>1. pc[th] \in Busy /\ held[th] \in Tasks /\ UNCHANGED <<chain, batch>>
    BY <1>0, <1>1 DEF Complete, Busy
  <2>2. \/ Goto(th, Home(th), None)
        \/ /\ After[held[th]] # None
           /\ Goto(th, IF After[held[th]] \in Loads THEN "load" ELSE "post", After[held[th]])
    BY <1>1 DEF Complete
  <2>3. CASE Goto(th, Home(th), None)
    BY <2>1, <2>3
  <2>4. ASSUME NEW t \in Tasks, Goto(th, IF t \in Loads THEN "load" ELSE "post", t)
        PROVE  \E place \in Busy, u \in Tasks : Fits(place, u) /\ Goto(th, place, u)
    BY <2>4 DEF Fits, Busy
  <2> QED BY <2>1, <2>2, <2>3, <2>4
<1>2. CASE Load(th)
  <2>1. pc[th] = "load" /\ pc[th] \in Busy /\ UNCHANGED <<chain, batch>>
    BY <1>2 DEF Load, Busy
  <2>2. held[th] \in Loads
    BY <1>0, <2>1 DEF Fits
  <2>3. Goto(th, "enqueue", held[th]) \/ Goto(th, "await", held[th])
    BY <1>2 DEF Load
  <2>4. Fits("enqueue", held[th]) /\ Fits("await", held[th]) /\ {"enqueue", "await"} \subseteq Busy
    BY <2>2 DEF Fits, Busy
  <2> QED BY <2>1, <2>2, <2>3, <2>4
<1>3. CASE AwaitReady(th)
  <2>1. pc[th] = "await" /\ pc[th] \in Busy /\ UNCHANGED <<chain, batch>>
    BY <1>3 DEF AwaitReady, Busy
  <2>2. held[th] \in Loads
    BY <1>0, <2>1 DEF Fits
  <2>3. Goto(th, "run", After[held[th]]) \/ Goto(th, "suspend", held[th])
    BY <1>3 DEF AwaitReady
  <2>4. Fits("run", After[held[th]]) /\ Fits("suspend", held[th]) /\ {"run", "suspend"} \subseteq Busy
    BY <2>2 DEF Fits, Busy
  <2> QED BY <2>1, <2>2, <2>3, <2>4 DEF Fits
<1>4. CASE Suspend(th)
  <2>1. pc[th] = "suspend" /\ pc[th] \in Busy /\ UNCHANGED <<chain, batch>>
    BY <1>4 DEF Suspend, Busy
  <2>2. held[th] \in Loads
    BY <1>0, <2>1 DEF Fits
  <2>3. Goto(th, "post", After[held[th]]) \/ Goto(th, Home(th), None)
    BY <1>4 DEF Suspend
  <2>4. Fits("post", After[held[th]]) /\ "post" \in Busy
    BY <2>2 DEF Fits, Busy
  <2> QED BY <2>1, <2>3, <2>4 DEF Fits
<1>5. CASE Post(th)
  <2>1. pc[th] = "post" /\ pc[th] \in Busy /\ UNCHANGED <<chain, batch>>
    BY <1>5 DEF Post, Busy
  <2>2. Goto(th, "enqueue", held[th]) \/ Goto(th, "run", held[th])
    BY <1>5 DEF Post
  <2>3. Fits("enqueue", held[th]) /\ Fits("run", held[th]) /\ {"enqueue", "run"} \subseteq Busy
    BY <1>0, <2>1 DEF Fits, Busy
  <2> QED BY <2>1, <2>2, <2>3 DEF Fits
<1>6. CASE Enqueue(th)
  <2>1. pc[th] = "enqueue" /\ pc[th] \in Busy /\ UNCHANGED <<chain, batch>>
    BY <1>6 DEF Enqueue, Busy
  <2>2. \/ Goto(th, Home(th), None)
        \/ Kind[held[th]] # "sync" /\ Goto(th, "notify", held[th])
    BY <1>6 DEF Enqueue
  <2>3. Kind[held[th]] # "sync" => Fits("notify", held[th]) /\ "notify" \in Busy
    BY <1>0, <2>1 DEF Fits, Busy
  <2> QED BY <2>1, <2>2, <2>3 DEF Fits
<1>7. CASE EnqueueThrows(th) \/ LoadThrows(th)
  BY <1>7 DEF EnqueueThrows, LoadThrows, threads, Busy
<1>8. CASE Notify(th)
  <2>1. pc[th] = "notify" /\ pc[th] \in Busy /\ UNCHANGED <<chain, batch>> /\ held[th] \in Tasks
    BY <1>0, <1>8 DEF Notify, Busy
  <2>2. CASE held[th] \notin Loads
    BY <1>8, <2>1, <2>2 DEF Notify, Asleep, Goto, Woken
  <2>3. CASE held[th] \in Loads
    <3>1. Fits("await", held[th]) /\ "await" \in Busy
      BY <2>3 DEF Fits, Busy
    <3>2. Goto(th, "await", held[th]) \/ Woken(th, "await", held[th])
      BY <1>8, <2>1, <2>3 DEF Notify, Asleep, Goto, Woken
    <3> QED BY <2>1, <2>3, <3>1, <3>2
  <2> QED BY <2>2, <2>3
<1> QED BY <1>1, <1>2, <1>3, <1>4, <1>5, <1>6, <1>7, <1>8 DEF HandleTask

\* A thread may go home, or be given a task that fits its new place.
LEMMA GotoKeepsControl ==
  ASSUME ControlInv, NEW th \in Threads, pc[th] \in Busy, NEW place, NEW t,
         (place = Home(th) /\ t = None) \/ (place \in Busy /\ Fits(place, t)),
         Goto(th, place, t), UNCHANGED <<chain, batch>>
  PROVE  ControlInv'
BY ThreadsAre, HomeIs, TasksAre DEF ControlInv, Busy, Closing, Goto, Fits

LEMMA WokenKeepsControl ==
  ASSUME ControlInv, NEW th \in Threads, NEW place, NEW t,
         (place = Home(th) /\ t = None) \/ (place \in Busy /\ Fits(place, t)),
         Woken(th, place, t), UNCHANGED <<chain, batch>>
  PROVE  ControlInv'
<1>1. PICK w \in Servers(Kind[held[th]]) :
        /\ pc[w] = "asleep"
        /\ pc' = [pc EXCEPT ![th] = place, ![w] = "look"]
        /\ held' = [held EXCEPT ![th] = t]
  BY DEF Woken
<1>2. pc[th] = "notify" /\ w \in Pool /\ pc[Sim] # "off"
  BY <1>1 DEF Woken, Servers, ControlInv
<1> QED BY <1>1, <1>2, ThreadsAre, HomeIs, TasksAre DEF ControlInv, Busy, Closing, Fits

LEMMA HandleKeepsControl ==
  ASSUME ControlInv, NEW th \in Threads, HandleTask(th)
  PROVE  ControlInv'
<1>1. pc[th] \in Busy /\ UNCHANGED <<chain, batch>>
  BY HandleMoves
<1>2. CASE UNCHANGED <<pc, held>>
  BY <1>1, <1>2 DEF ControlInv
<1>3. CASE Goto(th, Home(th), None)
  BY <1>1, <1>3, GotoKeepsControl
<1>4. CASE Woken(th, Home(th), None)
  BY <1>1, <1>4, WokenKeepsControl
<1>5. CASE held[th] \in Loads /\ Woken(th, "await", held[th])
  <2>1. "await" \in Busy /\ Fits("await", held[th])
    BY <1>5, LoadsAre DEF Busy, Fits
  <2> QED BY <1>1, <1>5, <2>1, WokenKeepsControl
<1>6. CASE \E place \in Busy, t \in Tasks : Fits(place, t) /\ Goto(th, place, t)
  BY <1>1, <1>6, GotoKeepsControl
<1> QED BY <1>2, <1>3, <1>4, <1>5, <1>6, HandleMoves

LEMMA ControlNext ==
  ASSUME ControlInv, TasksTyped, [Next]_vars
  PROVE  ControlInv'
<1> USE ThreadsAre, TasksAre, LoadsAre
    DEF ControlInv, Fits, Busy, Closing, At, Goto, MainGoto, queues, futures, threads
<1>1. ASSUME NEW w \in Pool, WorkerStart(w) \/ Take(w) \/ Sleep(w) \/ Exit(w) \/ WakeSpurious(w)
      PROVE  ControlInv'
  <2>1. CASE WorkerStart(w)
    BY <2>1 DEF WorkerStart
  <2>2. CASE Take(w)
    <3>1. Head(queue[Serves(w)]) \in Tasks
      BY <2>2 DEF Take, TasksTyped, Serves, Kinds
    <3> QED BY <2>2, <3>1 DEF Take
  <2>3. CASE Sleep(w)
    BY <2>3 DEF Sleep
  <2>4. CASE Exit(w)
    BY <2>4 DEF Exit
  <2>5. CASE WakeSpurious(w)
    BY <2>5 DEF WakeSpurious
  <2> QED BY <1>1, <2>1, <2>2, <2>3, <2>4, <2>5
<1>2. CASE StartThreads
  BY <1>2 DEF StartThreads
<1>3. CASE TakeBatch
  BY <1>3 DEF TakeBatch
<1>4. CASE RunBatch
  <2>1. batch # <<>> => Head(batch) \in Tasks
    BY DEF TasksTyped
  <2> QED BY <1>4, <2>1 DEF RunBatch
<1>5. CASE StopRunning
  BY <1>5 DEF StopRunning
<1>6. CASE ClearScheduler
  BY <1>6 DEF ClearScheduler
<1>7. CASE SetStop
  BY <1>7 DEF SetStop
<1>8. CASE WakeAll
  BY <1>8 DEF WakeAll
<1>9. CASE JoinPool
  BY <1>9 DEF JoinPool
<1>10. CASE JoinSim
  BY <1>10 DEF JoinSim
<1>11. ASSUME NEW t \in Roots, Submit(t) PROVE ControlInv'
  BY <1>11 DEF Submit, Roots
<1>12. CASE Attach
  <2>1. CASE chain = None \/ After[chain] = None
    BY <1>12, <2>1 DEF Attach
  <2>2. CASE chain # None /\ After[chain] # None
    <3>1. /\ After[chain] \in Tasks \ (Coroutine \cup Loads)
          /\ UNCHANGED batch /\ pc[Sim] = "attach" /\ chain' = After[chain]
      BY <1>12, <2>2 DEF Attach
    <3>2. CASE Goto(Sim, "post", After[chain])
      BY <3>1, <3>2
    <3>3. CASE UNCHANGED threads
      BY <3>1, <3>3
    <3> QED BY <1>12, <2>2, <3>2, <3>3 DEF Attach
  <2> QED BY <2>1, <2>2
<1>13. CASE SimExit
  BY <1>13 DEF SimExit
<1>14. CASE UNCHANGED vars
  BY <1>14 DEF vars
<1>15. ASSUME NEW t \in Roots, StartSetup(t) PROVE ControlInv'
  BY <1>15 DEF StartSetup, Roots
<1> QED
  BY <1>1, <1>2, <1>3, <1>4, <1>5, <1>6, <1>7, <1>8, <1>9, <1>10, <1>11, <1>12, <1>13,
     <1>14, <1>15, HandleKeepsControl
  DEF Next, StartUp, MainStep, MainStop, SimStep, WorkerStep

-----------------------------------------------------------------------------
(* The ways a step moves tasks *)

HandOf(place, t)    == IF place \in {"notify", "await", "suspend"} THEN None ELSE t
ExpectsOf(place, t) == IF place \in Busy \ {"run"} /\ t \in Loads THEN t ELSE None
LoadOr(t)           == IF t \in Loads THEN t ELSE None

Handed(th, t)  == \A other \in Threads : hand'[other] = IF other = th THEN t ELSE hand[other]
Expects(th, t) == \A other \in Threads : expects'[other] = IF other = th THEN t ELSE expects[other]
Steady         == \A other \in Threads : expects'[other] = expects[other]
Idle           == (\A other \in Threads : hand'[other] = hand[other]) /\ Steady

Still == Idle /\ UNCHANGED <<queue, batch, futures, chain>>

\* What follows t when it has run.
Follower(t) == IF t \in attached \cup Coroutine THEN After[t] ELSE None

Finished(th, t) ==
  /\ hand[th] = t /\ expects[th] = None /\ ready' = ready \cup {t}
  /\ Handed(th, Follower(t)) /\ Expects(th, LoadOr(Follower(t)))
  /\ UNCHANGED <<queue, batch, attached, lost, chain>>

Answered(th, t) ==
  /\ hand[th] = t /\ expects[th] = t /\ ready' = ready \cup {t}
  /\ Handed(th, None) /\ Steady
  /\ UNCHANGED <<queue, batch, attached, lost, chain>>

Refused(th, t) ==
  /\ hand[th] = t /\ expects[th] = t /\ lost' = lost \cup {t}
  /\ Handed(th, None) /\ Expects(th, None)
  /\ UNCHANGED <<queue, batch, attached, ready, chain>>

Resumed(th, t) ==
  /\ hand[th] = None /\ expects[th] = t /\ t \in ready
  /\ Handed(th, After[t]) /\ Expects(th, None)
  /\ UNCHANGED <<queue, batch, futures, chain>>

Suspended(th, t) ==
  /\ hand[th] = None /\ expects[th] = t /\ t \notin ready
  /\ Handed(th, None) /\ Expects(th, None) /\ attached' = attached \cup {t}
  /\ UNCHANGED <<queue, batch, ready, lost, chain>>

Pushed(th, t) ==
  /\ hand[th] = t /\ Push(t) /\ Handed(th, None) /\ Steady
  /\ UNCHANGED <<batch, futures, chain>>

Taken(th, k) ==
  /\ hand[th] = None /\ queue[k] # <<>>
  /\ queue' = [queue EXCEPT ![k] = Tail(@)] /\ Handed(th, Head(queue[k])) /\ Steady
  /\ UNCHANGED <<batch, futures, chain>>

Swapped ==
  /\ batch = <<>> /\ batch' = queue["sync"] /\ queue' = [queue EXCEPT !["sync"] = <<>>]
  /\ Idle /\ UNCHANGED <<futures, chain>>

Picked ==
  /\ hand[Main] = None /\ batch # <<>>
  /\ batch' = Tail(batch) /\ Handed(Main, Head(batch)) /\ Steady
  /\ UNCHANGED <<queue, futures, chain>>

SetUp(t) ==
  /\ t \in (Roots \cap Loads) \ (posted \cup lost)
  /\ hand[Main] = None /\ expects[Main] = None
  /\ Handed(Main, t) /\ Expects(Main, t)
  /\ UNCHANGED <<queue, batch, futures, chain>>

Submitted(t) ==
  /\ t \in Roots \ (Loads \cup posted) /\ hand[Sim] = None /\ chain = None
  /\ Handed(Sim, t) /\ Steady /\ chain' = IF t \in Coroutine THEN None ELSE t
  /\ UNCHANGED <<queue, batch, futures>>

Ended ==
  /\ chain # None => After[chain] = None
  /\ chain' = None /\ Idle /\ UNCHANGED <<queue, batch, futures>>

Attached ==
  /\ chain # None /\ After[chain] # None /\ chain \notin ready
  /\ attached' = attached \cup {chain} /\ chain' = After[chain]
  /\ Idle /\ UNCHANGED <<queue, batch, ready, lost>>

Continued ==
  /\ chain # None /\ After[chain] # None /\ chain \in ready
  /\ hand[Sim] = None /\ Handed(Sim, After[chain]) /\ Steady /\ chain' = After[chain]
  /\ UNCHANGED <<queue, batch, futures>>

Moves ==
  \/ Still \/ Swapped \/ Picked \/ Ended \/ Attached \/ Continued
  \/ \E th \in Threads, t \in Tasks : Finished(th, t) \/ Pushed(th, t)
  \/ \E th \in Threads, t \in Loads :
       Answered(th, t) \/ Refused(th, t) \/ Resumed(th, t) \/ Suspended(th, t)
  \/ \E th \in Threads, k \in Kinds : Taken(th, k)
  \/ \E t \in Tasks : Submitted(t) \/ SetUp(t)

\* What a thread's place and task make of its hand.
LEMMA HandIs ==
  ASSUME ControlInv, NEW th \in Threads
  PROVE  /\ hand[th] = HandOf(pc[th], held[th]) /\ hand[th] \in Tasks \cup {None}
         /\ expects[th] = ExpectsOf(pc[th], held[th]) /\ expects[th] \in Loads \cup {None}
         /\ pc[th] \notin Busy => hand[th] = None /\ expects[th] = None
BY TasksAre DEF ControlInv, Fits, hand, expects, HandOf, ExpectsOf, Hands

LEMMA GotoHands ==
  ASSUME ControlInv, NEW th \in Threads, NEW place, NEW t, Goto(th, place, t)
  PROVE  Handed(th, HandOf(place, t)) /\ Expects(th, ExpectsOf(place, t))
BY DEF ControlInv, Goto, Handed, Expects, hand, expects, HandOf, ExpectsOf, Hands

LEMMA WokenHands ==
  ASSUME ControlInv, NEW th \in Threads, NEW place, NEW t, Woken(th, place, t)
  PROVE  Handed(th, HandOf(place, t)) /\ Expects(th, ExpectsOf(place, t))
<1>1. PICK w \in Servers(Kind[held[th]]) :
        /\ pc[w] = "asleep"
        /\ pc' = [pc EXCEPT ![th] = place, ![w] = "look"]
        /\ held' = [held EXCEPT ![th] = t]
  BY DEF Woken
<1>2. pc[th] = "notify" /\ w \in Threads /\ w # th
  BY <1>1, ThreadsAre DEF Woken, Servers
<1>3. /\ pc'[th] = place /\ held'[th] = t /\ pc'[w] = "look" /\ held'[w] = None /\ held[w] = None
      /\ \A other \in Threads \ {th, w} : pc'[other] = pc[other] /\ held'[other] = held[other]
  BY <1>1, <1>2 DEF ControlInv, Busy
<1>4. ASSUME NEW other \in Threads
      PROVE  /\ hand'[other] = IF other = th THEN HandOf(place, t) ELSE hand[other]
             /\ expects'[other] = IF other = th THEN ExpectsOf(place, t) ELSE expects[other]
  <2>1. /\ hand[other] = HandOf(pc[other], held[other])
        /\ expects[other] = ExpectsOf(pc[other], held[other])
        /\ hand'[other] = HandOf(pc'[other], held'[other])
        /\ expects'[other] = ExpectsOf(pc'[other], held'[other])
    BY DEF hand, expects, HandOf, ExpectsOf, Hands
  <2>2. CASE other = th
    BY <1>3, <2>1, <2>2
  <2>3. CASE other = w
    BY <1>1, <1>2, <1>3, <2>1, <2>3, LoadsAre DEF HandOf, ExpectsOf, Busy
  <2>4. CASE other \notin {th, w}
    BY <1>3, <2>1, <2>4
  <2> QED BY <2>2, <2>3, <2>4
<1> QED BY <1>4 DEF Handed, Expects

\* A thread that goes home has nothing in hand.
LEMMA HomeHands ==
  ASSUME NEW th \in Threads
  PROVE  HandOf(Home(th), None) = None /\ ExpectsOf(Home(th), None) = None
BY HomeIs, ThreadsAre, LoadsAre DEF HandOf, ExpectsOf

LEMMA SameHands ==
  ASSUME NEW th \in Threads, Handed(th, hand[th]), Expects(th, expects[th])
  PROVE  Idle
BY DEF Handed, Expects, Idle, Steady

LEMMA SameExpects ==
  ASSUME NEW th \in Threads, Expects(th, expects[th])
  PROVE  Steady
BY DEF Expects, Steady

\* Threads that move without a task.
LEMMA IdleThreads ==
  ASSUME ControlInv, DOMAIN pc' = Threads, held' = held,
         \A th \in Threads : pc'[th] # pc[th] => pc[th] \notin Busy
  PROVE  Idle
<1>1. \A th \in Threads : pc'[th] # pc[th] => held[th] = None
  BY DEF ControlInv
<1> QED BY <1>1, LoadsAre DEF Idle, Steady, hand, expects, Hands

LEMMA WhereIs ==
  ASSUME ControlInv, NEW t \in Tasks
  PROVE  Where(t) > 0 <=> InHand(t)
<1> DEFINE holders == {th \in Threads : held[th] = t /\ Hands(th)}
<1>1. IsFiniteSet(holders)
  <2>1. IsFiniteSet(Pool) /\ IsFiniteSet({Main, Sim})
    <3>1. {Main, Sim} = {Main} \cup {Sim} /\ IsFiniteSet({Main})
      BY FS_Singleton
    <3> QED BY <3>1, SchedulerAssumption, FS_AddElement
  <2>2. IsFiniteSet(Threads)
    BY <2>1, FS_Union DEF Threads
  <2> QED BY <2>2, FS_Subset
<1>2. Where(t) = Cardinality(holders)
  BY DEF Where
<1>3. Cardinality(holders) \in Nat /\ (Cardinality(holders) = 0 <=> holders = {})
  BY <1>1, FS_CardinalityType, FS_EmptySet
<1>4. holders # {} <=> InHand(t)
  BY TasksAre DEF InHand, hand
<1> HIDE DEF holders
<1> QED BY <1>2, <1>3, <1>4

LEMMA Lengths ==
  ASSUME TasksTyped
  PROVE  /\ \A k \in Kinds : DOMAIN queue[k] = 1 .. Len(queue[k])
         /\ DOMAIN batch = 1 .. Len(batch)
<1>1. \A k \in Kinds : queue[k] \in Seq(Tasks)
  BY DEF TasksTyped
<1> QED BY <1>1, LenProperties DEF TasksTyped

LEMMA InPlace ==
  ASSUME TasksTyped
  PROVE  /\ \A k \in Kinds, t \in Tasks : Has(queue[k], t) <=> InQueue(t) /\ Kind[t] = k
         /\ \A t \in Tasks : InBatch(t) => Kind[t] = "sync"
<1>1. ASSUME NEW k \in Kinds, NEW t \in Tasks, Has(queue[k], t)
      PROVE  Kind[t] = k
  <2>1. PICK i \in DOMAIN queue[k] : queue[k][i] = t
    BY <1>1 DEF Has
  <2>2. i \in 1 .. Len(queue[k])
    BY Lengths
  <2> QED BY <2>1, <2>2 DEF TasksTyped
<1>2. ASSUME NEW t \in Tasks, InBatch(t)
      PROVE  Kind[t] = "sync"
  BY <1>2, Lengths DEF Has, InBatch, TasksTyped
<1> QED BY <1>1, <1>2 DEF InQueue

LEMMA InLineIs ==
  ASSUME TasksTyped, NEW t \in Tasks
  PROVE  InLine(t) <=> InQueue(t) \/ InBatch(t)
<1>1. (\E k \in Kinds : \E i \in DOMAIN queue[k] : queue[k][i] = t) <=> InQueue(t)
  BY InPlace, TasksAre DEF InQueue, Has
<1> QED BY <1>1 DEF InLine, InBatch, Has

LEMMA PostedIs ==
  ASSUME ControlInv, TasksTyped, NEW t \in Tasks
  PROVE  Posted(t) <=> t \in posted \cup lost
BY InLineIs, WhereIs DEF Posted, posted

LEMMA EnqueuePushes ==
  ASSUME ControlInv, NEW th \in Threads, Enqueue(th)
  PROVE  Pushed(th, held[th]) /\ held[th] \in Tasks
<1>1. pc[th] = "enqueue" /\ held[th] \in Tasks
  BY DEF Enqueue, At, ControlInv, Fits, Busy
<1>2. hand[th] = held[th] /\ expects[th] = LoadOr(held[th])
  BY <1>1, HandIs DEF HandOf, ExpectsOf, LoadOr, Busy
<1>3. CASE Kind[held[th]] = "sync"
  <2>1. Goto(th, Home(th), None) /\ held[th] \notin Loads
    BY <1>1, <1>3, LoadsAre DEF Enqueue
  <2>2. Handed(th, None) /\ Expects(th, None)
    BY <2>1, GotoHands, HomeHands
  <2>3. Steady
    BY <1>2, <2>1, <2>2, SameExpects DEF LoadOr
  <2> QED BY <1>1, <1>2, <2>2, <2>3 DEF Enqueue, Pushed, futures
<1>4. CASE Kind[held[th]] # "sync"
  <2>1. Goto(th, "notify", held[th])
    BY <1>4 DEF Enqueue
  <2>2. Handed(th, None) /\ Expects(th, expects[th])
    BY <1>2, <2>1, GotoHands DEF HandOf, ExpectsOf, LoadOr, Busy
  <2> QED BY <1>1, <1>2, <2>2, SameExpects DEF Enqueue, Pushed, futures
<1> QED BY <1>3, <1>4

LEMMA TakeTakes ==
  ASSUME ControlInv, NEW w \in Pool, Take(w)
  PROVE  Taken(w, Serves(w)) /\ Serves(w) \in Kinds
<1>1. w \in Threads /\ hand[w] = None /\ expects[w] = None /\ Serves(w) \in Kinds
  BY ThreadsAre, HandIs DEF Take, At, Busy, Serves, Kinds
<1>2. Goto(w, "run", Head(queue[Serves(w)]))
  BY DEF Take
<1>3. Handed(w, Head(queue[Serves(w)])) /\ Expects(w, None)
  BY <1>1, <1>2, GotoHands DEF HandOf, ExpectsOf
<1> QED BY <1>1, <1>3, SameExpects DEF Take, Taken

LEMMA TakeBatchSwaps ==
  ASSUME ControlInv, TakeBatch
  PROVE  Swapped
<1>1. pc[Main] = "loop" /\ pc' = [pc EXCEPT ![Main] = "batch"] /\ held' = held /\ batch = <<>>
  BY ThreadsAre DEF TakeBatch, At, ControlInv, Busy
<1>2. Idle
  BY <1>1, IdleThreads, ThreadsAre DEF ControlInv, Busy
<1> QED BY <1>1, <1>2 DEF TakeBatch, Swapped

LEMMA RunBatchPicks ==
  ASSUME ControlInv, RunBatch, batch # <<>>
  PROVE  Picked
<1>1. Main \in Threads /\ hand[Main] = None /\ expects[Main] = None
  BY ThreadsAre, HandIs DEF RunBatch, At, Busy
<1>2. Goto(Main, "run", Head(batch)) /\ batch' = Tail(batch)
  BY DEF RunBatch
<1>3. Handed(Main, Head(batch)) /\ Expects(Main, None)
  BY <1>1, <1>2, GotoHands DEF HandOf, ExpectsOf
<1> QED BY <1>1, <1>2, <1>3, SameExpects DEF RunBatch, Picked

\* What a thread does with the task it holds.
LEMMA HandleTaskMoves ==
  ASSUME ControlInv, NEW th \in Threads, HandleTask(th)
  PROVE  Moves
<1> USE DEF At
<1> DEFINE t == held[th]
<1>0. /\ hand[th] = HandOf(pc[th], t) /\ expects[th] = ExpectsOf(pc[th], t)
      /\ pc[th] \in Busy => Fits(pc[th], t) /\ t \in Tasks
  BY HandIs DEF ControlInv, Fits
<1>1. CASE Complete(th)
  <2>1. pc[th] = "run" /\ t \in Tasks /\ hand[th] = t /\ expects[th] = None
    BY <1>0, <1>1 DEF Complete, HandOf, ExpectsOf, Busy
  <2>2. /\ ready' = ready \cup {t} /\ UNCHANGED <<queue, batch, attached, lost, chain>>
        /\ IF After[t] = None \/ t \notin attached \cup Coroutine
           THEN Goto(th, Home(th), None)
           ELSE Goto(th, IF After[t] \in Loads THEN "load" ELSE "post", After[t])
    BY <1>1 DEF Complete, queues
  <2>3. CASE After[t] = None \/ t \notin attached \cup Coroutine
    <3>1. Handed(th, None) /\ Expects(th, None)
      BY <2>2, <2>3, GotoHands, HomeHands
    <3>2. Follower(t) = None /\ LoadOr(Follower(t)) = None
      BY <2>3, LoadsAre DEF Follower, LoadOr
    <3> QED BY <2>1, <2>2, <3>1, <3>2 DEF Finished, Moves
  <2>4. CASE After[t] # None /\ t \in attached \cup Coroutine
    <3>1. Goto(th, IF After[t] \in Loads THEN "load" ELSE "post", After[t])
      BY <2>2, <2>4
    <3>2. Handed(th, After[t]) /\ Expects(th, LoadOr(After[t]))
      BY <3>1, GotoHands DEF HandOf, ExpectsOf, LoadOr, Busy
    <3>3. Follower(t) = After[t]
      BY <2>4 DEF Follower
    <3> QED BY <2>1, <2>2, <3>2, <3>3 DEF Finished, Moves
  <2> QED BY <2>3, <2>4
<1>2. CASE Load(th)
  <2>1. pc[th] = "load" /\ t \in Loads /\ hand[th] = t /\ expects[th] = t
    BY <1>0, <1>2 DEF Load, HandOf, ExpectsOf, Busy, Fits
  <2>2. CASE Goto(th, "enqueue", t) /\ UNCHANGED ready
    <3>1. Idle
      BY <2>1, <2>2, GotoHands, SameHands DEF HandOf, ExpectsOf, Busy
    <3> QED BY <1>2, <2>2, <3>1 DEF Load, Still, Moves, queues, futures
  <2>3. CASE Goto(th, "await", t) /\ ready' = ready \cup {t}
    <3>1. Handed(th, None) /\ Steady
      BY <2>1, <2>3, GotoHands, SameExpects DEF HandOf, ExpectsOf, Busy
    <3>2. Answered(th, t)
      BY <1>2, <2>1, <2>3, <3>1 DEF Load, Answered, queues
    <3> QED BY <2>1, <3>2 DEF Moves
  <2> QED BY <1>2, <2>2, <2>3 DEF Load
<1>3. ASSUME pc[th] \in {"await", "suspend"}
      PROVE  t \in Loads /\ hand[th] = None /\ expects[th] = t /\ After[t] \in Tasks \ Loads
  BY <1>0, <1>3, LoadsAre DEF HandOf, ExpectsOf, Busy, Fits
<1>4. CASE AwaitReady(th)
  <2>1. pc[th] = "await" /\ UNCHANGED <<queue, batch, futures, chain>>
    BY <1>4 DEF AwaitReady, queues
  <2>2. CASE t \in ready
    <3>1. Handed(th, After[t]) /\ Expects(th, None)
      BY <1>4, <2>2, GotoHands DEF AwaitReady, HandOf, ExpectsOf
    <3>2. Resumed(th, t)
      BY <1>3, <2>1, <2>2, <3>1 DEF Resumed
    <3> QED BY <1>3, <2>1, <3>2 DEF Moves
  <2>3. CASE t \notin ready
    <3>1. Goto(th, "suspend", t)
      BY <1>4, <2>3 DEF AwaitReady
    <3>2. Idle
      BY <1>3, <2>1, <3>1, GotoHands, SameHands DEF HandOf, ExpectsOf, Busy
    <3> QED BY <2>1, <3>2 DEF Still, Moves
  <2> QED BY <2>2, <2>3
<1>5. CASE Suspend(th)
  <2>1. pc[th] = "suspend" /\ UNCHANGED <<queue, batch, ready, lost, chain>>
    BY <1>5 DEF Suspend, queues
  <2>2. CASE t \in ready
    <3>1. Goto(th, "post", After[t]) /\ UNCHANGED attached
      BY <1>5, <2>2 DEF Suspend
    <3>2. Handed(th, After[t]) /\ Expects(th, None)
      BY <1>3, <2>1, <3>1, GotoHands DEF HandOf, ExpectsOf
    <3>3. Resumed(th, t)
      BY <1>3, <2>1, <2>2, <3>1, <3>2 DEF Resumed, futures
    <3> QED BY <1>3, <2>1, <3>3 DEF Moves
  <2>3. CASE t \notin ready
    <3>1. Goto(th, Home(th), None) /\ attached' = attached \cup {t}
      BY <1>5, <2>3 DEF Suspend
    <3>2. Handed(th, None) /\ Expects(th, None)
      BY <3>1, GotoHands, HomeHands
    <3>3. Suspended(th, t)
      BY <1>3, <2>1, <2>3, <3>1, <3>2 DEF Suspended
    <3> QED BY <1>3, <2>1, <3>3 DEF Moves
  <2> QED BY <2>2, <2>3
<1>6. CASE Post(th)
  <2>1. t \in Tasks \ Loads /\ hand[th] = t /\ expects[th] = None
    BY <1>0, <1>6 DEF Post, HandOf, ExpectsOf, Busy, Fits
  <2>2. Goto(th, "enqueue", t) \/ Goto(th, "run", t)
    BY <1>6 DEF Post
  <2>3. Idle
    BY <2>1, <2>2, GotoHands, SameHands DEF HandOf, ExpectsOf, Busy
  <2> QED BY <1>6, <2>3 DEF Post, Still, Moves, queues
<1>7. CASE Enqueue(th)
  BY <1>7, EnqueuePushes DEF Moves
<1>8. CASE EnqueueThrows(th)
  <2>1. Idle
    BY <1>8 DEF EnqueueThrows, threads, Idle, Steady, hand, expects, Hands
  <2> QED BY <1>8, <2>1 DEF EnqueueThrows, Still, Moves, queues
<1>9. CASE LoadThrows(th)
  <2>1. t \in Loads /\ hand[th] = t /\ expects[th] = t
    BY <1>0, <1>9 DEF LoadThrows, HandOf, ExpectsOf, Busy
  <2>2. Handed(th, None) /\ Expects(th, None)
    BY <1>9, GotoHands, HomeHands DEF LoadThrows
  <2>3. Refused(th, t)
    BY <1>9, <2>1, <2>2 DEF LoadThrows, Refused, queues
  <2> QED BY <2>1, <2>3 DEF Moves
<1>10. CASE Notify(th)
  <2>1. pc[th] = "notify" /\ t \in Tasks /\ hand[th] = None /\ expects[th] = LoadOr(t)
    BY <1>0, <1>10 DEF Notify, HandOf, ExpectsOf, LoadOr, Busy
  <2>2. CASE t \notin Loads
    <3>1. Goto(th, Home(th), None) \/ Woken(th, Home(th), None)
      BY <1>10, <2>1, <2>2 DEF Notify, Asleep, Goto, Woken
    <3>2. Handed(th, None) /\ Expects(th, None)
      BY <3>1, GotoHands, WokenHands, HomeHands
    <3>3. Idle
      BY <2>1, <2>2, <3>2, SameHands DEF LoadOr
    <3> QED BY <1>10, <3>3 DEF Notify, Still, Moves, queues
  <2>3. CASE t \in Loads
    <3>1. Goto(th, "await", t) \/ Woken(th, "await", t)
      BY <1>10, <2>1, <2>3 DEF Notify, Asleep, Goto, Woken
    <3>2. Handed(th, None) /\ Expects(th, t)
      BY <2>3, <3>1, GotoHands, WokenHands DEF HandOf, ExpectsOf, Busy
    <3>3. Idle
      BY <2>1, <2>3, <3>2, SameHands DEF LoadOr
    <3> QED BY <1>10, <3>3 DEF Notify, Still, Moves, queues
  <2> QED BY <2>2, <2>3
<1> QED BY <1>1, <1>2, <1>4, <1>5, <1>6, <1>7, <1>8, <1>9, <1>10 DEF HandleTask

LEMMA NextMoves ==
  ASSUME ControlInv, TasksTyped, [Next]_vars
  PROVE  Moves
<1> USE ThreadsAre DEF At, queues, threads
<1>0. Idle /\ UNCHANGED <<queue, batch, futures, chain>> => Moves
  BY DEF Moves, Still
<1>1. DOMAIN pc = Threads /\ DOMAIN held = Threads
  BY DEF ControlInv
<1>2. ASSUME NEW w \in Pool, WorkerStart(w) \/ Sleep(w) \/ Exit(w) \/ WakeSpurious(w)
      PROVE  Moves
  BY <1>0, <1>1, <1>2, IdleThreads DEF WorkerStart, Sleep, Exit, WakeSpurious, Busy
<1>3. ASSUME NEW w \in Pool, Take(w)
      PROVE  Moves
  BY <1>3, TakeTakes DEF Moves
<1>4. CASE StartThreads
  <2>1. pc[Main] = "init" /\ held' = held /\ DOMAIN pc' = Threads
    BY <1>4 DEF StartThreads
  <2>2. \A th \in Threads : pc[th] \notin Busy
    BY <2>1 DEF ControlInv, Busy
  <2>3. Idle
    BY <2>1, <2>2, IdleThreads
  <2> QED BY <1>0, <1>4, <2>3 DEF StartThreads
<1>5. CASE TakeBatch
  BY <1>5, TakeBatchSwaps DEF Moves
<1>6. CASE RunBatch
  <2>1. CASE batch = <<>>
    <3>1. Goto(Main, "loop", None) /\ hand[Main] = None /\ expects[Main] = None
      BY <1>6, <2>1, HandIs DEF RunBatch, Busy
    <3>2. Idle
      BY <3>1, GotoHands, SameHands, LoadsAre DEF HandOf, ExpectsOf
    <3> QED BY <1>0, <1>6, <2>1, <3>2 DEF RunBatch
  <2>2. CASE batch # <<>>
    BY <1>6, <2>2, RunBatchPicks DEF Moves
  <2> QED BY <2>1, <2>2
<1>7. CASE StopRunning \/ MainStop
  <2>1. held' = held /\ DOMAIN pc' = Threads /\ UNCHANGED <<queue, batch, futures, chain>>
    BY <1>1, <1>7
    DEF StopRunning, MainStop, MainGoto, ClearScheduler, SetStop, WakeAll, JoinPool, JoinSim
  <2>2. \A th \in Threads : pc'[th] # pc[th] => pc[th] \notin Busy
    BY <1>1, <1>7
    DEF StopRunning, MainStop, MainGoto, ClearScheduler, SetStop, WakeAll, JoinPool, JoinSim, Busy
  <2> QED BY <1>0, <2>1, <2>2, IdleThreads
<1>8. ASSUME NEW t \in Roots, Submit(t)
      PROVE  Moves
  <2>1. /\ t \in Tasks \ Loads /\ t \notin posted /\ hand[Sim] = None /\ expects[Sim] = None
        /\ chain = None
    BY <1>8, PostedIs, HandIs DEF Submit, Roots, ControlInv, Busy
  <2>2. Goto(Sim, IF t \in Coroutine THEN "post" ELSE "enqueue", t)
    BY <1>8 DEF Submit
  <2>3. Handed(Sim, t) /\ Expects(Sim, None)
    BY <2>1, <2>2, GotoHands DEF HandOf, ExpectsOf
  <2> QED BY <1>8, <2>1, <2>3, SameExpects DEF Submit, Submitted, Moves
<1>9. CASE Attach
  <2>0. pc[Sim] = "attach" /\ hand[Sim] = None /\ expects[Sim] = None
    BY <1>9, HandIs DEF Attach, Busy
  <2>1. CASE chain = None \/ After[chain] = None
    <3>1. Goto(Sim, "tick", None)
      BY <1>9, <2>1 DEF Attach
    <3>2. Idle
      BY <2>0, <3>1, GotoHands, SameHands, LoadsAre DEF HandOf, ExpectsOf
    <3> QED BY <1>9, <2>1, <3>2 DEF Attach, Ended, Moves, futures
  <2>2. CASE chain # None /\ After[chain] # None /\ chain \in ready
    <3>1. Goto(Sim, "post", After[chain]) /\ After[chain] \notin Loads
      BY <1>9, <2>2, LoadsAre DEF Attach, ControlInv
    <3>2. Handed(Sim, After[chain]) /\ Expects(Sim, None)
      BY <3>1, GotoHands DEF HandOf, ExpectsOf
    <3> QED BY <1>9, <2>0, <2>2, <3>2, SameExpects DEF Attach, Continued, Moves, futures
  <2>3. CASE chain # None /\ After[chain] # None /\ chain \notin ready
    <3>1. UNCHANGED threads
      BY <1>9, <2>3 DEF Attach
    <3>2. Idle
      BY <3>1 DEF Idle, Steady, hand, expects, Hands
    <3> QED BY <1>9, <2>3, <3>2 DEF Attach, Attached, Moves
  <2> QED BY <2>1, <2>2, <2>3
<1>10. CASE SimExit
  BY <1>0, <1>1, <1>10, IdleThreads DEF SimExit, Busy
<1>11. CASE UNCHANGED vars
  <2>1. Idle
    BY <1>11 DEF vars, Idle, Steady, hand, expects, Hands
  <2> QED BY <1>0, <1>11, <2>1 DEF vars
<1>12. ASSUME NEW t \in Roots, StartSetup(t)
       PROVE  Moves
  <2>1. /\ t \in Roots \cap Loads /\ t \in Tasks /\ t \notin posted \cup lost
        /\ hand[Main] = None /\ expects[Main] = None
    BY <1>12, PostedIs, HandIs, LoadsAre DEF StartSetup, Busy
  <2>2. Handed(Main, t) /\ Expects(Main, t)
    BY <1>12, <2>1, GotoHands DEF StartSetup, HandOf, ExpectsOf, Busy
  <2> QED BY <1>12, <2>1, <2>2 DEF StartSetup, SetUp, Moves
<1> QED
  BY <1>2, <1>3, <1>4, <1>5, <1>6, <1>7, <1>8, <1>9, <1>10, <1>11, <1>12, HandleTaskMoves
  DEF Next, StartUp, MainStep, SimStep, WorkerStep

LEMMA HandTyped == ControlInv => \A th \in Threads : hand[th] \in Tasks \cup {None}
BY HandIs

LEMMA MovesTyped ==
  ASSUME ControlInv, TasksTyped, Moves
  PROVE  TasksTyped'
<1> USE TasksAre DEF TasksTyped, Kinds, futures
<1>1. CASE Still \/ Ended \/ Attached \/ Continued \/ \E t \in Tasks : Submitted(t) \/ SetUp(t)
  BY <1>1 DEF Still, Ended, Attached, Continued, Submitted, SetUp
<1>2. CASE Swapped
  BY <1>2 DEF Swapped
<1>3. CASE Picked
  <2>1. batch' \in Seq(Tasks) /\ \A i \in 1 .. Len(batch') : Kind[batch'[i]] = "sync"
    BY <1>3, HeadTailProperties DEF Picked
  <2> QED BY <1>3, <2>1 DEF Picked
<1>4. ASSUME NEW th \in Threads, NEW t \in Tasks, Finished(th, t)
      PROVE  TasksTyped'
  BY <1>4 DEF Finished
<1>7. ASSUME NEW th \in Threads, NEW t \in Loads,
             Answered(th, t) \/ Refused(th, t) \/ Resumed(th, t) \/ Suspended(th, t)
      PROVE  TasksTyped'
  BY <1>7, LoadsAre DEF Answered, Refused, Resumed, Suspended
<1>5. ASSUME NEW th \in Threads, NEW t \in Tasks, Pushed(th, t)
      PROVE  TasksTyped'
  <2>1. queue' = [queue EXCEPT ![Kind[t]] = Append(queue[Kind[t]], t)] /\ Kind[t] \in Kinds
    BY <1>5 DEF Pushed, Push
  <2>2. /\ queue'[Kind[t]] \in Seq(Tasks)
        /\ \A i \in 1 .. Len(queue'[Kind[t]]) : Kind[queue'[Kind[t]][i]] = Kind[t]
    BY <2>1, AppendProperties
  <2>3. \A k \in Kinds : k # Kind[t] => queue'[k] = queue[k]
    BY <2>1
  <2>4. queue' \in [Kinds -> Seq(Tasks)]
    BY <2>1, <2>2
  <2> QED BY <1>5, <2>2, <2>3, <2>4 DEF Pushed
<1>6. ASSUME NEW th \in Threads, NEW k \in Kinds, Taken(th, k)
      PROVE  TasksTyped'
  <2>1. queue' = [queue EXCEPT ![k] = Tail(queue[k])] /\ queue[k] # <<>>
    BY <1>6 DEF Taken
  <2>2. /\ queue'[k] \in Seq(Tasks)
        /\ \A i \in 1 .. Len(queue'[k]) : Kind[queue'[k][i]] = k
    BY <2>1, HeadTailProperties
  <2>3. \A other \in Kinds : other # k => queue'[other] = queue[other]
    BY <2>1
  <2>4. queue' \in [Kinds -> Seq(Tasks)]
    BY <2>1, <2>2
  <2> QED BY <1>6, <2>2, <2>3, <2>4 DEF Taken
<1> QED BY <1>1, <1>2, <1>3, <1>4, <1>5, <1>6, <1>7 DEF Moves

\* What Append and Tail do to the tasks in a queue.
LEMMA AppendOnce ==
  ASSUME NEW s \in Seq(Tasks), NEW t \in Tasks, Once(s)
  PROVE  /\ ~Has(s, t) => Once(Append(s, t))
         /\ \A u \in Tasks : Has(Append(s, t), u) <=> Has(s, u) \/ u = t
<1>1. /\ DOMAIN Append(s, t) = 1 .. Len(s) + 1 /\ Append(s, t)[Len(s) + 1] = t
      /\ \A i \in 1 .. Len(s) : Append(s, t)[i] = s[i]
      /\ Len(s) \in Nat /\ DOMAIN s = 1 .. Len(s)
  BY AppendProperties, LenProperties
<1> QED BY <1>1 DEF Once, Has

LEMMA TailOnce ==
  ASSUME NEW s \in Seq(Tasks), s # <<>>, Once(s)
  PROVE  /\ Head(s) \in Tasks /\ Has(s, Head(s)) /\ Once(Tail(s))
         /\ \A u \in Tasks : Has(Tail(s), u) <=> Has(s, u) /\ u # Head(s)
<1>1. /\ DOMAIN Tail(s) = 1 .. Len(s) - 1 /\ Head(s) = s[1] /\ Head(s) \in Tasks
      /\ \A i \in 1 .. Len(s) - 1 : Tail(s)[i] = s[i + 1]
      /\ Len(s) \in Nat \ {0} /\ DOMAIN s = 1 .. Len(s)
  BY HeadTailProperties, LenProperties, EmptySeq
<1>2. Once(Tail(s)) /\ Has(s, Head(s))
  BY <1>1 DEF Once, Has
<1>3. ASSUME NEW u \in Tasks
      PROVE  Has(Tail(s), u) <=> Has(s, u) /\ u # Head(s)
  <2>1. CASE Has(Tail(s), u)
    BY <1>1, <2>1 DEF Once, Has
  <2>2. CASE Has(s, u) /\ u # Head(s)
    <3>1. PICK i \in 1 .. Len(s) : s[i] = u
      BY <1>1, <2>2 DEF Has
    <3>2. i - 1 \in 1 .. Len(s) - 1 /\ Tail(s)[i - 1] = u
      BY <1>1, <2>2, <3>1
    <3> QED BY <1>1, <2>2, <3>2 DEF Has
  <2> QED BY <2>1, <2>2
<1> QED BY <1>1, <1>2, <1>3

-----------------------------------------------------------------------------
(* None is run twice *)

\* What each way of moving tasks does to the places a task can be in.
LEMMA HandedIs ==
  ASSUME PlacedInv, NEW th \in Threads, NEW x, Handed(th, x), NEW t \in Tasks, None \notin Tasks
  PROVE  (InHand(t))' <=> t = x \/ (InHand(t) /\ hand[th] # t)
BY DEF PlacedInv, Handed, InHand

LEMMA IdleIs ==
  ASSUME Idle, NEW t \in Tasks
  PROVE  (InHand(t))' <=> InHand(t)
BY DEF Idle, InHand

LEMMA HandsApart ==
  ASSUME PlacedInv, NEW th \in Threads, NEW x, Handed(th, x),
         \A other \in Threads : x # None => hand[other] # x
  PROVE  \A a, b \in Threads : hand'[a] # None /\ hand'[a] = hand'[b] => a = b
BY DEF PlacedInv, Handed

LEMMA SwappedIs ==
  ASSUME TasksTyped, Swapped, NEW t \in Tasks
  PROVE  /\ (InQueue(t))' <=> InQueue(t) /\ Kind[t] # "sync"
         /\ (InBatch(t))' <=> InQueue(t) /\ Kind[t] = "sync"
         /\ ~InBatch(t) /\ ((InHand(t))' <=> InHand(t))
<1> USE TasksAre
<1>1. /\ \A k \in Kinds \ {"sync"} : queue'[k] = queue[k]
      /\ queue'["sync"] = <<>> /\ batch' = queue["sync"] /\ batch = <<>> /\ Idle
  BY DEF Swapped, TasksTyped, Kinds
<1>2. /\ Has(queue["sync"], t) <=> InQueue(t) /\ Kind[t] = "sync"
      /\ ~Has(<<>>, t)
  BY InPlace DEF Kinds, Has
<1> QED BY <1>1, <1>2, IdleIs DEF InQueue, InBatch

LEMMA PickedIs ==
  ASSUME ControlInv, TasksTyped, PlacedInv, Picked
  PROVE  \E h \in Tasks :
           /\ InBatch(h) /\ (Once(batch))' /\ Handed(Main, h)
           /\ \A t \in Tasks : /\ (InBatch(t))' <=> InBatch(t) /\ t # h
                               /\ (InQueue(t))' <=> InQueue(t)
                               /\ (InHand(t))' <=> t = h \/ InHand(t)
<1> USE TasksAre, ThreadsAre
<1> DEFINE h == Head(batch)
<1>1. /\ h \in Tasks /\ InBatch(h) /\ (Once(batch))'
      /\ \A t \in Tasks : (InBatch(t))' <=> InBatch(t) /\ t # h
  BY TailOnce DEF Picked, TasksTyped, PlacedInv, InBatch
<1>2. Handed(Main, h) /\ hand[Main] = None /\ UNCHANGED queue
  BY DEF Picked
<1> HIDE DEF h
<1>3. \A t \in Tasks : (InHand(t))' <=> t = h \/ InHand(t)
  BY <1>2, HandedIs
<1> QED BY <1>1, <1>2, <1>3 DEF InQueue

LEMMA PushedIs ==
  ASSUME ControlInv, TasksTyped, PlacedInv, NEW th \in Threads, NEW t \in Tasks, Pushed(th, t)
  PROVE  /\ InHand(t) /\ \A k \in Kinds : (Once(queue[k]))'
         /\ \A u \in Tasks : /\ (InBatch(u))' <=> InBatch(u)
                             /\ (InQueue(u))' <=> InQueue(u) \/ u = t
                             /\ (InHand(u))' <=> InHand(u) /\ u # t
<1> USE TasksAre, HandTyped
<1> DEFINE k == Kind[t]
<1>1. hand[th] = t /\ Handed(th, None) /\ UNCHANGED batch /\ InHand(t)
  BY DEF Pushed, InHand
<1>2. /\ queue' = [queue EXCEPT ![k] = Append(queue[k], t)] /\ k \in Kinds
      /\ queue[k] \in Seq(Tasks) /\ Once(queue[k])
  BY DEF Pushed, Push, TasksTyped, PlacedInv
<1>3. ~Has(queue[k], t)
  BY <1>1 DEF PlacedInv, InQueue
<1>4. /\ Once(queue'[k])
      /\ \A u \in Tasks : Has(queue'[k], u) <=> Has(queue[k], u) \/ u = t
  BY <1>2, <1>3, AppendOnce DEF TasksTyped
<1>5. \A other \in Kinds : other # k => queue'[other] = queue[other]
  BY <1>2 DEF TasksTyped
<1>6. \A u \in Tasks : (InQueue(u))' <=> InQueue(u) \/ u = t
  BY <1>4, <1>5 DEF InQueue
<1>7. \A u \in Tasks : (InHand(u))' <=> InHand(u) /\ u # t
  BY <1>1, HandedIs
<1>8. \A other \in Kinds : Once(queue'[other])
  BY <1>4, <1>5 DEF PlacedInv
<1> HIDE DEF k
<1> QED BY <1>1, <1>6, <1>7, <1>8 DEF InBatch

LEMMA TakenIs ==
  ASSUME ControlInv, TasksTyped, PlacedInv, NEW th \in Threads, NEW k \in Kinds, Taken(th, k)
  PROVE  \E h \in Tasks :
           /\ InQueue(h) /\ Handed(th, h) /\ \A other \in Kinds : (Once(queue[other]))'
           /\ \A t \in Tasks : /\ (InBatch(t))' <=> InBatch(t)
                               /\ (InQueue(t))' <=> InQueue(t) /\ t # h
                               /\ (InHand(t))' <=> t = h \/ InHand(t)
<1> USE TasksAre
<1> DEFINE h == Head(queue[k])
<1>1. hand[th] = None /\ Handed(th, h) /\ UNCHANGED batch
  BY DEF Taken
<1>2. /\ queue' = [queue EXCEPT ![k] = Tail(queue[k])]
      /\ queue[k] \in Seq(Tasks) /\ queue[k] # <<>> /\ Once(queue[k])
  BY DEF Taken, TasksTyped, PlacedInv
<1>3. h \in Tasks /\ InQueue(h) /\ Kind[h] = k
  BY <1>2, TailOnce, InPlace
<1>4. /\ Once(queue'[k])
      /\ \A u \in Tasks : Has(queue'[k], u) <=> Has(queue[k], u) /\ u # h
  BY <1>2, TailOnce DEF TasksTyped
<1>5. \A other \in Kinds : other # k => queue'[other] = queue[other]
  BY <1>2 DEF TasksTyped
<1> HIDE DEF h
<1>6. \A u \in Tasks : (InQueue(u))' <=> InQueue(u) /\ u # h
  BY <1>3, <1>4, <1>5 DEF InQueue
<1>7. \A u \in Tasks : (InHand(u))' <=> u = h \/ InHand(u)
  BY <1>1, HandedIs
<1>8. \A other \in Kinds : Once(queue'[other])
  BY <1>4, <1>5 DEF PlacedInv
<1> QED BY <1>1, <1>3, <1>6, <1>7, <1>8 DEF InBatch

\* What comes after a task that is not ready is nowhere, nor is what comes after
\* a load that is yet to be awaited.
LEMMA NextIsNowhere ==
  ASSUME ControlInv, TasksTyped, PlacedInv, ExpectInv, ChainInv
  PROVE  /\ \A t \in Tasks \ ready : Follower(t) \notin posted \cup lost
         /\ \A th \in Threads : expects[th] # None => After[expects[th]] \notin posted \cup lost
         /\ chain # None => After[chain] \notin posted \cup lost
         /\ \A th \in Threads : hand[th] \notin ready
<1>0. posted \subseteq Tasks /\ lost \subseteq Loads /\ None \notin posted \cup lost
  BY TasksAre, LoadsAre DEF posted, TasksTyped
<1>1. ASSUME NEW t \in Tasks \ ready
      PROVE  Follower(t) \notin posted \cup lost
  BY <1>0, <1>1 DEF ChainInv, Follower
<1>2. ASSUME NEW th \in Threads, expects[th] # None
      PROVE  After[expects[th]] \notin posted \cup lost
  <2>1. After[expects[th]] \in Coroutine
    BY <1>2, HandIs, LoadsAre
  <2> QED BY <1>0, <1>2, <2>1, LoadsAre DEF ExpectInv
<1>3. ASSUME chain # None
      PROVE  After[chain] \notin posted \cup lost
  <2>1. After[chain] \notin Loads
    BY <1>3, LoadsAre DEF ControlInv
  <2> QED BY <1>0, <1>3, <2>1 DEF ChainInv
<1>4. ASSUME NEW th \in Threads
      PROVE  hand[th] \notin ready
  BY HandTyped, TasksAre DEF PlacedInv, InHand, TasksTyped
<1> QED BY <1>1, <1>2, <1>3, <1>4

LEMMA PlacedMoves ==
  ASSUME ControlInv, TasksTyped, PlacedInv, ExpectInv, ChainInv, Moves
  PROVE  PlacedInv'
<1> USE TasksAre, ThreadsAre, HandTyped DEF futures
<1>0. TasksTyped'
  BY MovesTyped
<1>1. CASE Still \/ Ended \/ Attached
  <2>1. Idle /\ UNCHANGED <<queue, batch, ready, lost>>
    BY <1>1 DEF Still, Ended, Attached
  <2>2. posted' = posted
    BY <2>1, IdleIs DEF posted, InQueue, InBatch
  <2> QED BY <2>1, <2>2, IdleIs DEF PlacedInv, InQueue, InBatch, Idle
<1>2. CASE Swapped
  <2>1. Idle /\ UNCHANGED <<ready, lost>> /\ (\A k \in Kinds : Once(queue[k]))' /\ (Once(batch))'
    BY <1>2 DEF Swapped, TasksTyped, PlacedInv, Once, Kinds
  <2>2. posted' = posted
    BY <1>2, <2>1, SwappedIs DEF posted
  <2> QED BY <1>2, <2>1, <2>2, SwappedIs DEF PlacedInv, Idle
<1>3. CASE Picked
  <2>1. PICK h \in Tasks :
          /\ InBatch(h) /\ (Once(batch))' /\ Handed(Main, h)
          /\ \A t \in Tasks : /\ (InBatch(t))' <=> InBatch(t) /\ t # h
                              /\ (InQueue(t))' <=> InQueue(t)
                              /\ (InHand(t))' <=> t = h \/ InHand(t)
    BY <1>3, PickedIs
  <2>2. UNCHANGED <<queue, ready, lost>>
    BY <1>3 DEF Picked
  <2>3. \A a, b \in Threads : hand'[a] # None /\ hand'[a] = hand'[b] => a = b
    BY <2>1, HandsApart DEF PlacedInv, InHand
  <2>4. posted' = posted
    BY <2>1, <2>2 DEF posted
  <2> QED BY <2>1, <2>2, <2>3, <2>4 DEF PlacedInv
<1>4. ASSUME NEW th \in Threads, NEW x \in Tasks \cup {None}, x \notin posted \cup lost, Handed(th, x),
             UNCHANGED <<queue, batch, lost>>, hand[th] # None => hand[th] \in ready',
             \A t \in Tasks : t \in ready' => t \in ready \/ hand[th] = t
      PROVE  PlacedInv'
  <2>1. x # None => ~InHand(x) /\ ~InQueue(x) /\ ~InBatch(x) /\ x \notin ready
    BY <1>4 DEF posted
  <2>2. \A t \in Tasks : (InHand(t))' <=> t = x \/ (InHand(t) /\ hand[th] # t)
    BY <1>4, HandedIs
  <2>3. \A a, b \in Threads : hand'[a] # None /\ hand'[a] = hand'[b] => a = b
    BY <1>4, <2>1, HandsApart DEF InHand
  <2>4. hand[th] # None => InHand(hand[th]) /\ hand[th] # x
    BY <2>1 DEF InHand
  <2>5. posted' \subseteq posted \cup {x}
    BY <1>4, <2>2 DEF posted, InQueue, InBatch, InHand
  <2>6. (lost \cap posted = {})'
    BY <1>4, <2>5 DEF PlacedInv
  <2> QED BY <1>4, <2>1, <2>2, <2>3, <2>4, <2>6 DEF PlacedInv, InQueue, InBatch
<1>5. None \notin posted \cup lost
  BY LoadsAre DEF posted, TasksTyped
<1>6. CASE Continued
  <2>1. /\ chain # None /\ After[chain] # None /\ chain \in Tasks
        /\ Handed(Sim, After[chain]) /\ hand[Sim] = None /\ UNCHANGED <<queue, batch, ready, lost>>
    BY <1>6 DEF Continued, TasksTyped
  <2>2. After[chain] \notin posted \cup lost
    BY <2>1, NextIsNowhere
  <2> QED BY <2>1, <2>2, <1>4
<1>7. ASSUME NEW th \in Threads, NEW t \in Tasks, Finished(th, t)
      PROVE  PlacedInv'
  <2> DEFINE x == Follower(t)
  <2>1. hand[th] = t /\ ready' = ready \cup {t} /\ Handed(th, x) /\ UNCHANGED <<queue, batch, lost>>
    BY <1>7 DEF Finished
  <2>2. x \in Tasks \cup {None}
    BY DEF Follower
  <2>3. x \notin posted \cup lost
    BY <2>1, NextIsNowhere
  <2> HIDE DEF x
  <2> QED BY <2>1, <2>2, <2>3, <1>4
<1>8. ASSUME NEW th \in Threads, NEW t \in Loads, Answered(th, t) \/ Suspended(th, t)
      PROVE  PlacedInv'
  <2>1. /\ Handed(th, None) /\ UNCHANGED <<queue, batch, lost>>
        /\ \/ hand[th] = t /\ ready' = ready \cup {t}
           \/ hand[th] = None /\ ready' = ready
    BY <1>8 DEF Answered, Suspended
  <2> QED BY <1>5, <2>1, <1>4
<1>9. ASSUME NEW th \in Threads, NEW t \in Loads, Resumed(th, t)
      PROVE  PlacedInv'
  <2>1. /\ hand[th] = None /\ expects[th] = t /\ Handed(th, After[t])
        /\ UNCHANGED <<queue, batch, ready, lost>> /\ t \in Tasks /\ t # None
    BY <1>9, LoadsAre DEF Resumed
  <2>2. After[t] \notin posted \cup lost
    BY <2>1, NextIsNowhere
  <2> QED BY <2>1, <2>2, <1>4
<1>10. ASSUME NEW th \in Threads, NEW t \in Loads, Refused(th, t)
      PROVE  PlacedInv'
  <2>1. /\ hand[th] = t /\ Handed(th, None) /\ UNCHANGED <<queue, batch, ready>>
        /\ lost' = lost \cup {t} /\ t \in Tasks /\ t # None
    BY <1>10, LoadsAre DEF Refused
  <2>2. \A u \in Tasks : (InHand(u))' <=> InHand(u) /\ u # t
    BY <2>1, HandedIs
  <2>3. \A a, b \in Threads : hand'[a] # None /\ hand'[a] = hand'[b] => a = b
    BY <2>1, HandsApart
  <2>4. InHand(t)
    BY <2>1 DEF InHand
  <2>5. t \notin posted' /\ posted' \subseteq posted
    BY <2>1, <2>2, <2>4 DEF PlacedInv, posted, InQueue, InBatch
  <2>6. (lost \cap posted = {})'
    BY <2>1, <2>5 DEF PlacedInv
  <2> QED BY <2>1, <2>2, <2>3, <2>6 DEF PlacedInv, InQueue, InBatch
<1>11. ASSUME NEW th \in Threads, NEW t \in Tasks, Pushed(th, t)
      PROVE  PlacedInv'
  <2>1. Handed(th, None) /\ UNCHANGED <<batch, ready, lost>>
    BY <1>11 DEF Pushed
  <2>2. \A a, b \in Threads : hand'[a] # None /\ hand'[a] = hand'[b] => a = b
    BY <2>1, HandsApart
  <2>3. posted' = posted
    BY <1>11, <2>1, PushedIs DEF posted
  <2> QED BY <1>11, <2>1, <2>2, <2>3, PushedIs DEF PlacedInv
<1>12. ASSUME NEW th \in Threads, NEW k \in Kinds, Taken(th, k)
      PROVE  PlacedInv'
  <2>1. PICK h \in Tasks :
          /\ InQueue(h) /\ Handed(th, h) /\ \A other \in Kinds : (Once(queue[other]))'
          /\ \A t \in Tasks : /\ (InBatch(t))' <=> InBatch(t)
                              /\ (InQueue(t))' <=> InQueue(t) /\ t # h
                              /\ (InHand(t))' <=> t = h \/ InHand(t)
    BY <1>12, TakenIs
  <2>2. UNCHANGED <<batch, ready, lost>>
    BY <1>12 DEF Taken
  <2>3. \A a, b \in Threads : hand'[a] # None /\ hand'[a] = hand'[b] => a = b
    BY <2>1, HandsApart DEF PlacedInv, InHand
  <2>4. posted' = posted
    BY <2>1, <2>2 DEF posted
  <2> QED BY <2>1, <2>2, <2>3, <2>4 DEF PlacedInv
<1>13. ASSUME NEW t \in Tasks, Submitted(t) \/ SetUp(t)
      PROVE  PlacedInv'
  <2>1. PICK th \in Threads : hand[th] = None /\ Handed(th, t)
    BY <1>13 DEF Submitted, SetUp
  <2>2. t \notin posted \cup lost /\ UNCHANGED <<queue, batch, ready, lost>>
    BY <1>13 DEF Submitted, SetUp, TasksTyped
  <2> QED BY <2>1, <2>2, <1>4
<1> QED BY <1>1, <1>2, <1>3, <1>6, <1>7, <1>8, <1>9, <1>10, <1>11, <1>12, <1>13 DEF Moves

-----------------------------------------------------------------------------
(* No continuation is lost *)

\* Moving a task from one place to another neither posts it nor takes it back.
Posts(x) == \A u \in Tasks : u \in posted' <=> u \in posted \/ u = x

LEMMA PostedMoves ==
  ASSUME ControlInv, TasksTyped, PlacedInv
  PROVE  /\ Still \/ Swapped \/ Picked \/ Ended \/ Attached => Posts(None)
         /\ Continued => Posts(After[chain])
         /\ \A th \in Threads, t \in Tasks : Finished(th, t) => t \in posted \ ready /\ Posts(Follower(t))
         /\ \A th \in Threads, t \in Tasks : Pushed(th, t) => Posts(None)
         /\ \A th \in Threads, k \in Kinds : Taken(th, k) => Posts(None)
         /\ \A th \in Threads, t \in Loads :
              /\ Answered(th, t) \/ Suspended(th, t) => Posts(None)
              /\ Resumed(th, t) => Posts(After[t])
              /\ Refused(th, t) => posted' = posted \ {t}
         /\ \A t \in Tasks : Submitted(t) \/ SetUp(t) => Posts(t)
<1> USE TasksAre, ThreadsAre DEF futures
<1>1. ASSUME Still \/ Ended \/ Attached PROVE Posts(None)
  <2>1. Idle /\ UNCHANGED <<queue, batch, ready>>
    BY <1>1 DEF Still, Ended, Attached
  <2> QED BY <2>1, IdleIs DEF Posts, posted, InQueue, InBatch
<1>2. ASSUME Swapped PROVE Posts(None)
  BY <1>2, SwappedIs DEF Swapped, Posts, posted
<1>3. ASSUME Picked PROVE Posts(None)
  BY <1>3, PickedIs DEF Picked, Posts, posted
<1>4. ASSUME NEW th \in Threads, NEW x, Handed(th, x), hand[th] = None,
             UNCHANGED <<queue, batch, ready>>
      PROVE  Posts(x)
  BY <1>4, HandedIs DEF Posts, posted, InQueue, InBatch
<1>5. ASSUME Continued PROVE Posts(After[chain])
  BY <1>4, <1>5 DEF Continued
<1>6. ASSUME NEW th \in Threads, NEW t \in Tasks, NEW x,
             hand[th] = t, Handed(th, x), ready' = ready \cup {t}, UNCHANGED <<queue, batch>>
      PROVE  t \in posted \ ready /\ Posts(x)
  <2>1. InHand(t) /\ t \in posted \ ready
    BY <1>6 DEF InHand, PlacedInv, posted
  <2> QED BY <1>6, <2>1, HandedIs DEF Posts, posted, InQueue, InBatch
<1>7. ASSUME NEW th \in Threads, NEW t \in Tasks, Finished(th, t)
      PROVE  t \in posted \ ready /\ Posts(Follower(t))
  BY <1>6, <1>7 DEF Finished
<1>8. ASSUME NEW th \in Threads, NEW t \in Loads
      PROVE  /\ Answered(th, t) \/ Suspended(th, t) => Posts(None)
             /\ Resumed(th, t) => Posts(After[t])
             /\ Refused(th, t) => posted' = posted \ {t}
  <2>0. t \in Tasks
    BY LoadsAre
  <2>1. ASSUME Answered(th, t) PROVE Posts(None)
    BY <1>6, <2>0, <2>1 DEF Answered
  <2>2. ASSUME Suspended(th, t) PROVE Posts(None)
    BY <1>4, <2>2 DEF Suspended
  <2>3. ASSUME Resumed(th, t) PROVE Posts(After[t])
    BY <1>4, <2>3 DEF Resumed
  <2>4. ASSUME Refused(th, t) PROVE posted' = posted \ {t}
    <3>1. /\ hand[th] = t /\ Handed(th, None) /\ UNCHANGED <<queue, batch, ready>>
      BY <2>4 DEF Refused
    <3>2. \A u \in Tasks : (InHand(u))' <=> InHand(u) /\ u # t
      BY <2>0, <3>1, HandedIs
    <3>3. InHand(t)
      BY <3>1 DEF InHand
    <3> QED BY <2>0, <3>1, <3>2, <3>3 DEF PlacedInv, posted, InQueue, InBatch
  <2> QED BY <2>1, <2>2, <2>3, <2>4
<1>9. ASSUME NEW th \in Threads, NEW t \in Tasks, Pushed(th, t)
      PROVE  Posts(None)
  BY <1>9, PushedIs DEF Pushed, Posts, posted
<1>10. ASSUME NEW th \in Threads, NEW k \in Kinds, Taken(th, k)
       PROVE  Posts(None)
  BY <1>10, TakenIs DEF Taken, Posts, posted
<1>11. ASSUME NEW t \in Tasks, Submitted(t) \/ SetUp(t)
       PROVE  Posts(t)
  BY <1>4, <1>11 DEF Submitted, SetUp
<1>12. /\ Still \/ Swapped \/ Picked \/ Ended \/ Attached => Posts(None)
       /\ Continued => Posts(After[chain])
  BY <1>1, <1>2, <1>3, <1>5
<1> QED BY <1>7, <1>8, <1>9, <1>10, <1>11, <1>12

\* What the invariants and the assumptions say of the tasks.
LEMMA TaskFacts ==
  ASSUME ControlInv, TasksTyped, PlacedInv, ExpectInv, ChainInv
  PROVE  /\ posted \subseteq Tasks /\ posted' \subseteq Tasks /\ ready \subseteq posted
         /\ attached \subseteq Tasks /\ lost \subseteq Loads
         /\ chain \in (Tasks \ (Coroutine \cup Loads)) \cup {None}
         /\ \A th \in Threads : expects[th] \in Loads \cup {None}
         /\ \A t, u \in Tasks : After[t] = After[u] /\ After[t] # None => t = u
         /\ \A t \in attached : After[t] \notin Loads
         /\ \A t \in Tasks \ Coroutine : After[t] \notin Loads
<1>1. \A t \in Tasks \ Coroutine : After[t] \notin Loads
  BY LoadsAre
<1>2. \A t \in attached : t \in Tasks \ Coroutine
  BY DEF ChainInv, TasksTyped
<1>3. chain \in (Tasks \ (Coroutine \cup Loads)) \cup {None}
  BY DEF ControlInv
<1>4. \A t, u \in Tasks : After[t] = After[u] /\ After[t] # None => t = u
  BY SchedulerAssumption
<1>5. ready \subseteq posted /\ attached \subseteq Tasks /\ lost \subseteq Loads
  BY DEF TasksTyped, posted
<1>6. posted \subseteq Tasks /\ posted' \subseteq Tasks
  BY DEF posted
<1>7. \A th \in Threads : expects[th] \in Loads \cup {None}
  BY HandIs
<1> QED BY <1>1, <1>2, <1>3, <1>4, <1>5, <1>6, <1>7

LEMMA ExpectsIs ==
  ASSUME ExpectInv, NEW th \in Threads, NEW x, Expects(th, x), NEW t \in Tasks, None \notin Tasks
  PROVE  (Expected(t))' <=> t = x \/ (Expected(t) /\ expects[th] # t)
BY DEF ExpectInv, Expects, Expected

LEMMA SteadyIs ==
  ASSUME Steady, NEW t \in Tasks
  PROVE  (Expected(t))' <=> Expected(t)
BY DEF Steady, Expected

LEMMA ExpectMoves ==
  ASSUME ControlInv, TasksTyped, PlacedInv, ExpectInv, ChainInv, Moves
  PROVE  ExpectInv'
<1> USE TasksAre, ThreadsAre, LoadsAre, TaskFacts
<1>1. ASSUME Steady, posted' = posted, attached' = attached
      PROVE  ExpectInv'
  BY <1>1 DEF ExpectInv, Steady
<1>2. Posts(None) => posted' = posted
  <2>1. Posts(None) => posted' \subseteq posted /\ posted \subseteq posted'
    BY DEF Posts
  <2> QED BY <2>1
<1>3. CASE Still \/ Swapped \/ Picked \/ Ended
  <2>1. Steady /\ attached' = attached
    BY <1>3 DEF Still, Swapped, Picked, Ended, Idle, futures
  <2> QED BY <1>1, <1>2, <1>3, <2>1, PostedMoves
<1>4. ASSUME NEW th \in Threads, NEW t \in Tasks, Pushed(th, t)
      PROVE  ExpectInv'
  <2>1. Steady /\ attached' = attached
    BY <1>4 DEF Pushed, futures
  <2> QED BY <1>1, <1>2, <1>4, <2>1, PostedMoves
<1>5. ASSUME NEW th \in Threads, NEW k \in Kinds, Taken(th, k)
      PROVE  ExpectInv'
  <2>1. Steady /\ attached' = attached
    BY <1>5 DEF Taken, futures
  <2> QED BY <1>1, <1>2, <1>5, <2>1, PostedMoves
<1>6. ASSUME NEW th \in Threads, NEW t \in Loads, Answered(th, t)
      PROVE  ExpectInv'
  <2>1. Steady /\ attached' = attached
    BY <1>6 DEF Answered
  <2> QED BY <1>1, <1>2, <1>6, <2>1, PostedMoves
<1>7. CASE Attached
  <2>1. Steady /\ attached' = attached \cup {chain} /\ chain # None /\ posted' = posted
    BY <1>2, <1>7, PostedMoves DEF Attached, Idle
  <2> QED BY <2>1 DEF ExpectInv, Steady
<1>8. ASSUME NEW t \in Tasks, \A th \in Threads : expects[th] # None => After[expects[th]] # t,
             Posts(t), Steady, attached' = attached
      PROVE  ExpectInv'
  <2>1. posted' = posted \cup {t}
    BY <1>8 DEF Posts
  <2> QED BY <1>8, <2>1 DEF ExpectInv, Steady
<1>9. CASE Continued
  <2>1. chain \in Tasks \ Loads /\ After[chain] \in Tasks /\ Steady /\ attached' = attached
    BY <1>9 DEF Continued, futures
  <2>2. \A th \in Threads : expects[th] # None => After[expects[th]] # After[chain]
    BY <2>1
  <2> QED BY <1>8, <1>9, <2>1, <2>2, PostedMoves
<1>10. ASSUME NEW t \in Tasks, Submitted(t)
       PROVE  ExpectInv'
  <2>1. t \in Roots /\ Steady /\ attached' = attached
    BY <1>10 DEF Submitted, futures
  <2>2. \A th \in Threads : expects[th] # None => After[expects[th]] # t
    BY <2>1 DEF Roots
  <2> QED BY <1>8, <1>10, <2>1, <2>2, PostedMoves
<1>11. ASSUME NEW th \in Threads, NEW t \in Loads, expects[th] = t, Expects(th, None),
              \A u \in posted : u \in posted' \/ u = t, attached' \subseteq attached \cup {t},
              posted' \subseteq posted \cup {After[t]}
       PROVE  ExpectInv'
  <2>1. \A other \in Threads : expects'[other] # None =>
          other # th /\ expects'[other] = expects[other] /\ expects[other] # t
    BY <1>11 DEF Expects, ExpectInv
  <2>2. \A other \in Threads : expects[other] # None /\ expects[other] # t =>
          After[expects[other]] # After[t]
    OBVIOUS
  <2> QED BY <1>11, <2>1, <2>2 DEF ExpectInv
<1>12. ASSUME NEW th \in Threads, NEW t \in Loads, Refused(th, t) \/ Resumed(th, t) \/ Suspended(th, t)
       PROVE  ExpectInv'
  <2>1. expects[th] = t /\ Expects(th, None) /\ attached' \subseteq attached \cup {t}
    BY <1>12 DEF Refused, Resumed, Suspended, futures
  <2>2. \A u \in posted : u \in posted' \/ u = t
    BY <1>12, PostedMoves DEF Posts
  <2>3. posted' \subseteq posted \cup {After[t]}
    BY <1>12, PostedMoves DEF Posts
  <2> QED BY <1>11, <2>1, <2>2, <2>3
\* A load that somebody is about to ask for.
<1>13. ASSUME NEW th \in Threads, NEW f \in Tasks \cup {None}, f \notin posted, Posts(f),
              expects[th] = None, Expects(th, LoadOr(f)), attached' = attached,
              f \in Loads => f \notin attached, f # None => After[f] # f,
              \A other \in Threads : expects[other] # None /\ f # None => After[expects[other]] # f
       PROVE  ExpectInv'
  <2>1. posted' = posted \cup ({f} \ {None})
    BY <1>13 DEF Posts
  <2>2. \A other \in Threads : expects[other] # None => expects[other] \in posted /\ expects[other] # f
    BY <1>13 DEF ExpectInv
  <2>3. \A other \in Threads : other # th => expects'[other] = expects[other]
    BY <1>13 DEF Expects
  <2>4. expects'[th] = LoadOr(f)
    BY <1>13 DEF Expects
  <2>5. f \in Loads => f \in posted' \ attached' /\ After[f] \notin posted'
    BY <1>13, <2>1 DEF ChainInv
  <2>6. \A other \in Threads : expects[other] # None =>
          expects[other] \in posted' \ attached' /\ After[expects[other]] \notin posted'
    BY <1>13, <2>1 DEF ExpectInv
  <2>7. \A a, b \in Threads : expects'[a] # None /\ expects'[a] = expects'[b] => a = b
    BY <1>13, <2>2, <2>3, <2>4 DEF ExpectInv, LoadOr
  <2>8. \A other \in Threads : expects'[other] # None =>
          expects'[other] \in posted' \ attached' /\ After[expects'[other]] \notin posted'
    BY <2>3, <2>4, <2>5, <2>6 DEF LoadOr
  <2> QED BY <2>7, <2>8 DEF ExpectInv
<1>14. ASSUME NEW th \in Threads, NEW t \in Tasks, Finished(th, t)
       PROVE  ExpectInv'
  <2> DEFINE f == Follower(t)
  <2>1. /\ t \in posted \ ready /\ Posts(f) /\ expects[th] = None /\ Expects(th, LoadOr(f))
        /\ attached' = attached
    BY <1>14, PostedMoves DEF Finished
  <2>2. f \in Tasks \cup {None} /\ f \notin posted /\ (f # None => f = After[t])
    BY <2>1, NextIsNowhere DEF Follower
  <2>3. f \in Loads => f \notin attached
    <3>1. SUFFICES ASSUME f \in Loads, f \in attached PROVE FALSE
      OBVIOUS
    <3>2. PICK p \in attached : After[p] = f
      BY <2>2, <3>1 DEF ChainInv, Reached
    <3> QED BY <3>1, <3>2
  <2>4. f # None => After[f] # f
    BY <2>1, <2>2
  <2>5. \A other \in Threads : expects[other] # None /\ f # None => After[expects[other]] # f
    <3>1. SUFFICES ASSUME NEW other \in Threads, expects[other] # None, f # None,
                          After[expects[other]] = f
                   PROVE  FALSE
      OBVIOUS
    <3>2. expects[other] = t
      BY <2>2, <3>1
    <3>3. t \notin attached \cup Coroutine
      BY <3>1, <3>2 DEF ExpectInv
    <3> QED BY <3>1, <3>3 DEF Follower
  <2> HIDE DEF f
  <2> QED BY <1>13, <2>1, <2>2, <2>3, <2>4, <2>5
<1>15. ASSUME NEW t \in Tasks, SetUp(t)
       PROVE  ExpectInv'
  <2>1. /\ t \in (Roots \cap Loads) \ posted /\ Posts(t) /\ expects[Main] = None /\ Expects(Main, t)
        /\ attached' = attached
    BY <1>15, PostedMoves DEF SetUp, futures
  <2>2. \A p \in Tasks : After[p] # t
    BY <2>1 DEF Roots
  <2>3. t \notin attached
    BY <2>1, <2>2 DEF ChainInv, Reached
  <2>4. LoadOr(t) = t
    BY <2>1 DEF LoadOr
  <2> QED BY <1>13, <2>1, <2>2, <2>3, <2>4
<1> QED BY <1>3, <1>4, <1>5, <1>6, <1>7, <1>9, <1>10, <1>12, <1>14, <1>15 DEF Moves

LEMMA ChainMoves ==
  ASSUME ControlInv, TasksTyped, PlacedInv, ExpectInv, ChainInv, Moves
  PROVE  ChainInv'
<1> USE TasksAre, ThreadsAre, LoadsAre, TaskFacts
<1>1. ASSUME Posts(None), Steady, UNCHANGED <<futures, chain>>
      PROVE  ChainInv'
  <2>1. \A u \in Tasks : u \in posted' <=> u \in posted
    BY <1>1 DEF Posts
  <2>2. \A u \in Tasks : (Expected(u))' <=> Expected(u)
    BY <1>1, SteadyIs
  <2> QED BY <1>1, <2>1, <2>2 DEF ChainInv, Reached, futures
<1>2. CASE Still \/ Swapped \/ Picked
  <2>1. Steady /\ UNCHANGED <<futures, chain>>
    BY <1>2 DEF Still, Swapped, Picked, Idle
  <2> QED BY <1>1, <1>2, <2>1, PostedMoves
<1>3. ASSUME NEW th \in Threads, NEW t \in Tasks, Pushed(th, t)
      PROVE  ChainInv'
  <2>1. Steady /\ UNCHANGED <<futures, chain>>
    BY <1>3 DEF Pushed
  <2> QED BY <1>1, <1>3, <2>1, PostedMoves
<1>4. ASSUME NEW th \in Threads, NEW k \in Kinds, Taken(th, k)
      PROVE  ChainInv'
  <2>1. Steady /\ UNCHANGED <<futures, chain>>
    BY <1>4 DEF Taken
  <2> QED BY <1>1, <1>4, <2>1, PostedMoves
<1>5. CASE Ended
  <2>1. Posts(None) /\ Steady /\ UNCHANGED futures /\ chain' = None /\ (chain # None => After[chain] = None)
    BY <1>5, PostedMoves DEF Ended, Idle
  <2>2. \A u \in Tasks : (Expected(u))' <=> Expected(u)
    BY <2>1, SteadyIs
  <2> QED BY <2>1, <2>2 DEF ChainInv, Reached, Posts, futures
<1>6. CASE Attached
  <2>1. /\ Posts(None) /\ Steady /\ UNCHANGED <<ready, lost>> /\ attached' = attached \cup {chain}
        /\ chain \in Tasks \ (Coroutine \cup Loads) /\ chain' = After[chain] /\ chain' \in Tasks
        /\ chain \notin ready
    BY <1>6, PostedMoves DEF Attached, Idle
  <2>2. \A u \in Tasks : (Expected(u))' <=> Expected(u)
    BY <2>1, SteadyIs
  <2>3. chain \notin attached /\ chain' # chain /\ chain' \notin posted
    BY <2>1 DEF ChainInv
  <2>4. chain' \notin attached'
    <3>1. \A p \in attached : After[p] # chain'
      BY <2>1, <2>3
    <3> QED BY <2>1, <2>3, <3>1 DEF ChainInv, Reached
  <2>5. After[chain'] # chain' /\ After[chain'] \notin posted
    BY <2>1, <2>3 DEF ChainInv
  <2> QED BY <2>1, <2>2, <2>3, <2>4, <2>5 DEF ChainInv, Reached, Posts
<1>7. CASE Continued
  <2>1. /\ Posts(After[chain]) /\ Steady /\ UNCHANGED futures
        /\ chain \in Tasks \ (Coroutine \cup Loads) /\ chain' = After[chain] /\ chain' \in Tasks
        /\ chain \in ready
    BY <1>7, PostedMoves DEF Continued
  <2>2. \A u \in Tasks : (Expected(u))' <=> Expected(u)
    BY <2>1, SteadyIs
  <2>3. chain \notin attached /\ chain' # chain /\ chain' \notin posted
    BY <2>1 DEF ChainInv
  <2>4. chain' \notin attached
    <3>1. \A p \in attached : After[p] # chain'
      BY <2>1, <2>3
    <3> QED BY <2>3, <3>1 DEF ChainInv, Reached
  <2>5. After[chain'] # chain' /\ After[chain'] \notin posted
    BY <2>1, <2>3 DEF ChainInv
  <2> QED BY <2>1, <2>2, <2>3, <2>4, <2>5 DEF ChainInv, Reached, Posts, futures
<1>8. ASSUME NEW t \in Tasks, Submitted(t)
      PROVE  ChainInv'
  <2>1. /\ t \in Roots \ (Loads \cup posted) /\ Posts(t) /\ Steady /\ UNCHANGED futures
        /\ chain = None /\ chain' = IF t \in Coroutine THEN None ELSE t
    BY <1>8, PostedMoves DEF Submitted
  <2>2. \A u \in Tasks : (Expected(u))' <=> Expected(u)
    BY <2>1, SteadyIs
  <2>3. \A p \in Tasks : After[p] # t
    BY <2>1 DEF Roots
  <2>4. t \notin attached /\ t \notin ready
    BY <2>1, <2>3 DEF ChainInv, Reached
  <2>5. After[t] \notin posted \cup lost
    BY <2>4 DEF ChainInv
  <2> QED BY <2>1, <2>2, <2>3, <2>4, <2>5 DEF ChainInv, Reached, Posts, futures
<1>9. ASSUME NEW t \in Tasks, SetUp(t)
      PROVE  ChainInv'
  <2>1. t \in Roots \cap Loads /\ Posts(t) /\ Expects(Main, t) /\ expects[Main] = None /\ UNCHANGED <<futures, chain>>
    BY <1>9, PostedMoves DEF SetUp
  <2>2. \A u \in Tasks : (Expected(u))' <=> Expected(u) \/ u = t
    BY <2>1, ExpectsIs
  <2>3. \A p \in Tasks : After[p] # t
    BY <2>1 DEF Roots
  <2> QED BY <2>1, <2>2, <2>3 DEF ChainInv, Reached, Posts, futures
<1>10. ASSUME NEW th \in Threads, NEW t \in Tasks, Finished(th, t)
       PROVE  ChainInv'
  <2> DEFINE f == Follower(t)
  <2>1. /\ t \in posted \ ready /\ Posts(f) /\ expects[th] = None /\ Expects(th, LoadOr(f))
        /\ ready' = ready \cup {t} /\ UNCHANGED <<attached, lost, chain>>
    BY <1>10, PostedMoves DEF Finished
  <2>2. /\ f \in Tasks \cup {None} /\ f \notin posted \cup lost
        /\ f = IF t \in attached \cup Coroutine THEN After[t] ELSE None
    BY <2>1, NextIsNowhere DEF Follower
  <2>3. \A u \in Tasks : (Expected(u))' <=> Expected(u) \/ (u = f /\ u \in Loads)
    BY <2>1, ExpectsIs DEF LoadOr
  <2>4. \A u \in Tasks : u \in posted' <=> u \in posted \/ u = f
    BY <2>1 DEF Posts
  <2> HIDE DEF f
  <2>5. \A p \in Tasks : After[p] \in posted' \cup lost' => p \in ready'
    BY <2>1, <2>2, <2>4 DEF ChainInv
  <2>6. \A u \in Tasks : Reached(u) => (Reached(u))'
    BY <2>1, <2>4 DEF Reached
  <2>7. chain # None => After[chain] \notin posted'
    BY <2>2, <2>4 DEF ChainInv
  <2>8. \A u \in attached \cap ready' : After[u] # None => After[u] \in posted'
    BY <2>1, <2>2, <2>4 DEF ChainInv
  <2>9. \A u \in Coroutine \cap ready' : After[u] # None => After[u] \in posted' \cup lost
    BY <2>1, <2>2, <2>4 DEF ChainInv
  <2>10. \A u \in Tasks : (Reached(u))' => Reached(u) \/ u = f
    BY <2>1, <2>4 DEF Reached
  <2>11. ASSUME NEW u \in Tasks \ (attached \cup Coroutine), (Reached(u))', After[u] # None
         PROVE  chain = u \/ After[u] \in posted' \/ (Expected(u))'
    <3>1. CASE Reached(u)
      BY <2>3, <2>4, <2>11, <3>1 DEF ChainInv
    <3>2. CASE u = f /\ t \in attached
      <4>1. Reached(u)
        BY <2>2, <3>2 DEF Reached
      <4> QED BY <3>1, <4>1
    <3>3. CASE u = f /\ t \in Coroutine
      <4>1. After[t] \in Coroutine \cup Loads
        BY <2>2, <2>11, <3>3, SchedulerAssumption
      <4> QED BY <2>2, <2>3, <2>11, <3>3, <4>1
    <3> QED BY <2>2, <2>10, <2>11, <3>1, <3>2, <3>3
  <2>12. chain # None => (Reached(chain))' /\ After[chain] # chain
                         /\ (After[chain] # None => chain \notin attached)
    <3>1. chain # None => Reached(chain) /\ After[chain] # chain
                          /\ (After[chain] # None => chain \notin attached)
      BY DEF ChainInv
    <3>2. chain # None /\ Reached(chain) => (Reached(chain))'
      BY <2>1, <2>4 DEF Reached
    <3> QED BY <3>1, <3>2
  <2>13. \A u \in attached : (Reached(u))' /\ u \notin Coroutine
    <3>1. \A u \in attached : Reached(u) /\ u \notin Coroutine
      BY DEF ChainInv
    <3> QED BY <2>6, <3>1
  <2> QED BY <2>1, <2>5, <2>7, <2>8, <2>9, <2>11, <2>12, <2>13 DEF ChainInv, Reached
<1>11. ASSUME NEW th \in Threads, NEW t \in Loads, Answered(th, t)
       PROVE  ChainInv'
  <2>1. /\ Posts(None) /\ Steady /\ ready' = ready \cup {t} /\ UNCHANGED <<attached, lost, chain>>
        /\ t \notin attached \cup Coroutine
    BY <1>11, PostedMoves DEF Answered, ExpectInv
  <2>2. \A u \in Tasks : (Expected(u))' <=> Expected(u)
    BY <2>1, SteadyIs
  <2> QED BY <2>1, <2>2 DEF ChainInv, Reached, Posts
<1>12. ASSUME NEW th \in Threads, NEW t \in Loads, Refused(th, t) \/ Resumed(th, t) \/ Suspended(th, t)
       PROVE  \A u \in Tasks : (Expected(u))' <=> Expected(u) /\ u # t
  <2>1. expects[th] = t /\ Expects(th, None)
    BY <1>12 DEF Refused, Resumed, Suspended
  <2> QED BY <2>1, ExpectsIs
<1>13. ASSUME NEW th \in Threads, NEW t \in Loads, Refused(th, t)
       PROVE  ChainInv'
  <2>1. /\ posted' = posted \ {t} /\ lost' = lost \cup {t} /\ UNCHANGED <<attached, ready, chain>>
        /\ t \in posted \ attached /\ t # chain
    BY <1>13, PostedMoves DEF Refused, ExpectInv
  <2>2. \A u \in Tasks : (Expected(u))' <=> Expected(u) /\ u # t
    BY <1>12, <1>13
  <2>3. \A u \in Tasks \ Coroutine : After[u] # t
    OBVIOUS
  <2>4. \A u \in Tasks \ {t} : (Reached(u))' <=> Reached(u)
    BY <2>1 DEF Reached
  <2>5. ~(Reached(t))'
    BY <2>1, <2>3 DEF Reached, ChainInv
  <2>6. chain # None => (Reached(chain))' /\ After[chain] # chain /\ After[chain] \notin posted'
                         /\ (After[chain] # None => chain \notin attached)
    BY <2>1, <2>4 DEF ChainInv
  <2>7. \A u \in attached : (Reached(u))' /\ u \notin Coroutine
    BY <2>1, <2>4 DEF ChainInv
  <2>8. \A u \in attached \cap ready : After[u] # None => After[u] \in posted'
    BY <2>1, <2>3, <2>7 DEF ChainInv
  <2>9. \A u \in Tasks \ (attached \cup Coroutine) :
          (Reached(u))' /\ After[u] # None => chain = u \/ After[u] \in posted' \/ (Expected(u))'
    BY <2>1, <2>2, <2>3, <2>4, <2>5 DEF ChainInv
  <2>10. \A p \in Tasks : After[p] \in posted' \cup lost' => p \in ready
    BY <2>1 DEF ChainInv
  <2>11. \A u \in Coroutine \cap ready : After[u] # None => After[u] \in posted' \cup lost'
    BY <2>1 DEF ChainInv
  <2> QED BY <2>1, <2>6, <2>7, <2>8, <2>9, <2>10, <2>11 DEF ChainInv, Reached
<1>14. ASSUME NEW th \in Threads, NEW t \in Loads, Resumed(th, t)
       PROVE  ChainInv'
  <2>1. /\ Posts(After[t]) /\ t \in ready /\ UNCHANGED <<futures, chain>> /\ t # chain
        /\ After[t] \in Coroutine
    BY <1>14, PostedMoves DEF Resumed
  <2>2. \A u \in Tasks : (Expected(u))' <=> Expected(u) /\ u # t
    BY <1>12, <1>14
  <2> QED BY <2>1, <2>2 DEF ChainInv, Reached, Posts, futures
<1>15. ASSUME NEW th \in Threads, NEW t \in Loads, Suspended(th, t)
       PROVE  ChainInv'
  <2>1. /\ Posts(None) /\ t \in posted \ ready /\ attached' = attached \cup {t} /\ t # chain
        /\ UNCHANGED <<ready, lost, chain>> /\ After[t] \in Coroutine /\ t \notin Coroutine
    BY <1>15, PostedMoves DEF Suspended, ExpectInv
  <2>2. \A u \in Tasks : (Expected(u))' <=> Expected(u) /\ u # t
    BY <1>12, <1>15
  <2> QED BY <2>1, <2>2 DEF ChainInv, Reached, Posts
<1> QED BY <1>2, <1>3, <1>4, <1>5, <1>6, <1>7, <1>8, <1>9, <1>10, <1>11, <1>13, <1>14, <1>15 DEF Moves

-----------------------------------------------------------------------------
(* The pools are drained *)

\* What a thread that deals with a task leaves alone.
LEMMA HandleFlags ==
  ASSUME NEW th, HandleTask(th)
  PROVE  /\ UNCHANGED <<stop, scheduler>> /\ crashed' \in {crashed, TRUE}
         /\ lost' # lost => stop
         /\ stop => UNCHANGED queue
BY DEF HandleTask, Complete, Load, AwaitReady, Suspend, Post, Enqueue, EnqueueThrows, LoadThrows,
       Notify, queues, futures, At

\* What the steps that belong to one thread leave alone.
LEMMA OtherFlags ==
  /\ \A w \in Pool : WorkerStart(w) \/ Take(w) \/ Sleep(w) \/ Exit(w) \/ WakeSpurious(w)
       => UNCHANGED <<stop, crashed, lost>> /\ scheduler' \in {scheduler, TRUE}
  /\ StopRunning \/ MainStop =>
       /\ UNCHANGED <<queue, crashed, lost>> /\ scheduler' \in {scheduler, FALSE}
       /\ stop' # stop => stop' = TRUE /\ pc[Main] = "stop"
  /\ TakeBatch \/ RunBatch \/ Attach \/ SimExit => UNCHANGED <<stop, scheduler, crashed, lost>>
  /\ \A t \in Roots : Submit(t) \/ StartSetup(t) => UNCHANGED <<queue, stop, scheduler, crashed, lost>>
  /\ RunBatch \/ Attach \/ SimExit => UNCHANGED queue
<1> USE DEF queues, futures, At, MainGoto
<1>1. ASSUME NEW w \in Pool, WorkerStart(w) \/ Take(w) \/ Sleep(w) \/ Exit(w) \/ WakeSpurious(w)
      PROVE  UNCHANGED <<stop, crashed, lost>> /\ scheduler' \in {scheduler, TRUE}
  BY <1>1 DEF WorkerStart, Take, Sleep, Exit, WakeSpurious
<1>2. ASSUME StopRunning \/ MainStop
      PROVE  /\ UNCHANGED <<queue, crashed, lost>> /\ scheduler' \in {scheduler, FALSE}
             /\ stop' # stop => stop' = TRUE /\ pc[Main] = "stop"
  BY <1>2 DEF StopRunning, MainStop, ClearScheduler, SetStop, WakeAll, JoinPool, JoinSim
<1>3. TakeBatch \/ RunBatch \/ Attach \/ SimExit => UNCHANGED <<stop, scheduler, crashed, lost>>
  BY DEF TakeBatch, RunBatch, Attach, SimExit
<1>4. \A t \in Roots : Submit(t) \/ StartSetup(t) => UNCHANGED <<queue, stop, scheduler, crashed, lost>>
  BY DEF Submit, StartSetup
<1>5. RunBatch \/ Attach \/ SimExit => UNCHANGED queue
  BY DEF RunBatch, Attach, SimExit
<1> QED BY <1>1, <1>2, <1>3, <1>4, <1>5

\* Only start_engine_threads makes the simulation's thread.
LEMMA OffStays ==
  ASSUME ControlInv, [Next]_vars, pc'[Sim] = "off"
  PROVE  pc[Sim] = "off" /\ ~StartThreads
<1> USE ThreadsAre DEF ControlInv, MainGoto, At, Goto, threads
<1>1. ASSUME NEW th \in Threads, HandleTask(th) PROVE pc[Sim] = "off"
  <2>1. CASE UNCHANGED <<pc, held>>
    BY <2>1
  <2>2. ASSUME NEW place, NEW t, place # "off", Goto(th, place, t) PROVE pc[Sim] = "off"
    BY <2>2
  <2>3. ASSUME NEW place, NEW t, place # "off", Woken(th, place, t) PROVE pc[Sim] = "off"
    BY <2>3 DEF Woken, Servers
  <2>4. Home(th) # "off" /\ "off" \notin Busy
    BY HomeIs DEF Busy
  <2> HIDE DEF Goto
  <2> QED BY <1>1, <2>1, <2>2, <2>3, <2>4, HandleMoves
<1>2. ASSUME NEW v \in Pool, WorkerStart(v) \/ Take(v) \/ Sleep(v) \/ Exit(v) \/ WakeSpurious(v)
      PROVE  pc[Sim] = "off"
  BY <1>2 DEF WorkerStart, Take, Sleep, Exit, WakeSpurious
<1>3. ~StartThreads
  BY DEF StartThreads
<1>4. CASE StopRunning \/ MainStop
  BY <1>3, <1>4 DEF StopRunning, MainStop, ClearScheduler, SetStop, WakeAll, JoinPool, JoinSim
<1>5. CASE TakeBatch \/ RunBatch
  BY <1>3, <1>5 DEF TakeBatch, RunBatch
<1>6. CASE Attach \/ SimExit \/ \E t \in Roots : Submit(t)
  BY <1>3, <1>6 DEF Attach, SimExit, Submit
<1>7. ASSUME NEW t \in Roots, StartSetup(t) PROVE pc[Sim] = "off"
  BY <1>7 DEF StartSetup
<1>8. CASE UNCHANGED vars
  BY <1>3, <1>8 DEF vars
<1> QED BY <1>1, <1>2, <1>3, <1>4, <1>5, <1>6, <1>7, <1>8
        DEF Next, StartUp, MainStep, SimStep, WorkerStep

LEMMA FlagsNext ==
  ASSUME ControlInv, FlagsInv, [Next]_vars
  PROVE  FlagsInv'
<1> USE DEF FlagsInv
<1>1. ASSUME scheduler' \in BOOLEAN, crashed' \in BOOLEAN, stop' = stop, lost' # lost => stop,
             ~StartThreads
      PROVE  FlagsInv'
  BY <1>1, OffStays
<1>2. ASSUME NEW th, HandleTask(th), ~StartThreads
      PROVE  FlagsInv'
  BY <1>1, <1>2, HandleFlags
<1>3. ASSUME NEW w \in Pool, WorkerStart(w) \/ Take(w) \/ Sleep(w) \/ Exit(w) \/ WakeSpurious(w),
             ~StartThreads
      PROVE  FlagsInv'
  BY <1>1, <1>3, OtherFlags
<1>4. CASE StartThreads
  <2>1. pc[Sim] = "off" /\ lost = {}
    BY <1>4, ThreadsAre DEF StartThreads, At, ControlInv
  <2> QED BY <1>4, <2>1, ThreadsAre DEF StartThreads, futures
<1>5. CASE (StopRunning \/ MainStop) /\ ~StartThreads
  <2>1. CASE stop' = stop
    BY <1>1, <1>5, <2>1, OtherFlags
  <2>2. CASE stop' # stop
    <3>1. stop' = TRUE /\ pc[Main] = "stop" /\ UNCHANGED <<crashed, lost>> /\ scheduler' \in BOOLEAN
      BY <1>5, <2>2, OtherFlags
    <3>2. pc'[Sim] # "off"
      BY <3>1, OffStays DEF ControlInv, Busy
    <3> QED BY <3>1, <3>2
  <2> QED BY <2>1, <2>2
<1>6. CASE (TakeBatch \/ RunBatch \/ Attach \/ SimExit) /\ ~StartThreads
  BY <1>1, <1>6, OtherFlags
<1>7. ASSUME NEW t \in Roots, Submit(t) \/ StartSetup(t), ~StartThreads
      PROVE  FlagsInv'
  BY <1>1, <1>7, OtherFlags
<1>8. CASE UNCHANGED vars /\ ~StartThreads
  BY <1>1, <1>8 DEF vars, futures
<1> QED BY <1>2, <1>3, <1>4, <1>5, <1>6, <1>7, <1>8
        DEF Next, StartUp, MainStep, SimStep, WorkerStep

\* No queue grows once stop_ is set, and stop_ stays set.
LEMMA StopStays ==
  ASSUME ControlInv, TasksTyped, FlagsInv, [Next]_vars, stop, pc[Main] # "init"
  PROVE  stop' /\ \A k \in {"async", "io"} : queue[k] = <<>> => queue'[k] = <<>>
<1>1. ASSUME NEW th, HandleTask(th)
      PROVE  UNCHANGED <<queue, stop>>
  BY <1>1, HandleFlags
<1>2. ASSUME NEW w \in Pool, Take(w)
      PROVE  UNCHANGED stop /\ \A k \in {"async", "io"} : queue[k] = <<>> => queue'[k] = <<>>
  BY <1>2 DEF Take, TasksTyped, Kinds
<1>3. ASSUME NEW w \in Pool, WorkerStart(w) \/ Sleep(w) \/ Exit(w) \/ WakeSpurious(w)
      PROVE  UNCHANGED <<queue, stop>>
  BY <1>3 DEF WorkerStart, Sleep, Exit, WakeSpurious, queues
<1>4. ~StartThreads
  BY DEF StartThreads, At
<1>5. ASSUME StopRunning \/ MainStop PROVE queue' = queue /\ stop'
  BY <1>5, OtherFlags
<1>6. ASSUME TakeBatch
      PROVE  UNCHANGED stop /\ \A k \in {"async", "io"} : queue[k] = <<>> => queue'[k] = <<>>
  BY <1>6 DEF TakeBatch, TasksTyped, Kinds
<1>7. ASSUME RunBatch \/ Attach \/ SimExit PROVE UNCHANGED <<queue, stop>>
  BY <1>7, OtherFlags
<1>8. ASSUME NEW t \in Roots, Submit(t) \/ StartSetup(t) PROVE UNCHANGED <<queue, stop>>
  BY <1>8, OtherFlags
<1>9. ASSUME UNCHANGED vars PROVE UNCHANGED <<queue, stop>>
  BY <1>9 DEF vars, queues
<1> QED BY <1>1, <1>2, <1>3, <1>4, <1>5, <1>6, <1>7, <1>8, <1>9
        DEF Next, StartUp, MainStep, SimStep, WorkerStep

\* A thread that has left stays away, and leaves with its queue empty only.
LEMMA ExitStays ==
  ASSUME ControlInv, TasksTyped, [Next]_vars, NEW w \in Pool
  PROVE  /\ pc[w] = "exit" => pc'[w] = "exit"
         /\ pc'[w] = "exit" => pc[w] = "exit" \/ Exit(w)
<1> USE ThreadsAre DEF ControlInv, MainGoto, At, Goto, threads
<1>1. ASSUME NEW th \in Threads, HandleTask(th)
      PROVE  pc'[w] = "exit" <=> pc[w] = "exit"
  <2>0. pc[th] # "exit" /\ Home(th) # "exit" /\ "exit" \notin Busy
    BY <1>1, HandleMoves, HomeIs DEF Busy
  <2>1. ASSUME UNCHANGED <<pc, held>> PROVE pc'[w] = "exit" <=> pc[w] = "exit"
    BY <2>1
  <2>2. ASSUME NEW place, NEW t, place # "exit", Goto(th, place, t)
        PROVE  pc'[w] = "exit" <=> pc[w] = "exit"
    BY <2>0, <2>2
  <2>3. ASSUME NEW place, NEW t, place # "exit", Woken(th, place, t)
        PROVE  pc'[w] = "exit" <=> pc[w] = "exit"
    BY <2>0, <2>3 DEF Woken, Servers
  <2> HIDE DEF Goto
  <2> QED BY <1>1, <2>0, <2>1, <2>2, <2>3, HandleMoves
<1>2. ASSUME NEW v \in Pool, WorkerStart(v) \/ Take(v) \/ Sleep(v) \/ WakeSpurious(v)
      PROVE  pc'[w] = "exit" <=> pc[w] = "exit"
  BY <1>2 DEF WorkerStart, Take, Sleep, WakeSpurious
<1>3. ASSUME NEW v \in Pool, Exit(v)
      PROVE  /\ pc[w] = "exit" => pc'[w] = "exit"
             /\ pc'[w] = "exit" => pc[w] = "exit" \/ Exit(w)
  <2>1. pc' = [pc EXCEPT ![v] = "exit"]
    BY <1>3 DEF Exit
  <2> QED BY <1>3, <2>1
<1>4. CASE StartThreads
  BY <1>4 DEF StartThreads, Busy
<1>5. CASE StopRunning \/ MainStop
  BY <1>5 DEF StopRunning, MainStop, ClearScheduler, SetStop, WakeAll, JoinPool, JoinSim
<1>6. CASE TakeBatch \/ RunBatch
  BY <1>6 DEF TakeBatch, RunBatch
<1>7. CASE Attach \/ SimExit \/ \E t \in Roots : Submit(t) \/ StartSetup(t)
  BY <1>7 DEF Attach, SimExit, Submit, StartSetup
<1>8. CASE UNCHANGED vars
  BY <1>8 DEF vars
<1> QED BY <1>1, <1>2, <1>3, <1>4, <1>5, <1>6, <1>7, <1>8
        DEF Next, StartUp, MainStep, SimStep, WorkerStep

\* The main thread passes the join when all have left.
LEMMA JoinedStays ==
  ASSUME ControlInv, [Next]_vars, pc'[Main] \in {"joinSim", "down"}
  PROVE  pc[Main] \in {"joinSim", "down"} \/ \A w \in Pool : pc[w] = "exit"
<1> USE ThreadsAre DEF ControlInv, MainGoto, At, Goto, threads
<1>1. ASSUME NEW th \in Threads, HandleTask(th)
      PROVE  pc[Main] \in {"joinSim", "down"}
  <2>0. Home(th) \notin {"joinSim", "down"} /\ Busy \cap {"joinSim", "down"} = {}
    BY HomeIs DEF Busy
  <2>1. ASSUME UNCHANGED <<pc, held>> PROVE pc[Main] \in {"joinSim", "down"}
    BY <2>1
  <2>2. ASSUME NEW place, NEW t, place \notin {"joinSim", "down"}, Goto(th, place, t)
        PROVE  pc[Main] \in {"joinSim", "down"}
    BY <2>2
  <2>3. ASSUME NEW place, NEW t, place \notin {"joinSim", "down"}, Woken(th, place, t)
        PROVE  pc[Main] \in {"joinSim", "down"}
    BY <2>3 DEF Woken, Servers
  <2> HIDE DEF Goto
  <2> QED BY <1>1, <2>0, <2>1, <2>2, <2>3, HandleMoves
<1>2. ASSUME NEW v \in Pool, WorkerStart(v) \/ Take(v) \/ Sleep(v) \/ Exit(v) \/ WakeSpurious(v)
      PROVE  pc[Main] \in {"joinSim", "down"}
  BY <1>2 DEF WorkerStart, Take, Sleep, Exit, WakeSpurious
<1>3. ~StartThreads
  BY DEF StartThreads
<1>4. CASE StopRunning \/ MainStop
  BY <1>4 DEF StopRunning, MainStop, ClearScheduler, SetStop, WakeAll, JoinPool, JoinSim
<1>5. CASE TakeBatch \/ RunBatch
  BY <1>5 DEF TakeBatch, RunBatch
<1>6. CASE Attach \/ SimExit \/ \E t \in Roots : Submit(t) \/ StartSetup(t)
  BY <1>6 DEF Attach, SimExit, Submit, StartSetup
<1>7. CASE UNCHANGED vars
  BY <1>7 DEF vars
<1> QED BY <1>1, <1>2, <1>3, <1>4, <1>5, <1>6, <1>7
        DEF Next, StartUp, MainStep, SimStep, WorkerStep

LEMMA LeftNext ==
  ASSUME ControlInv, TasksTyped, FlagsInv, LeftInv, [Next]_vars
  PROVE  LeftInv'
<1>1. ASSUME NEW k \in {"async", "io"}, NEW w \in Servers(k), pc'[w] = "exit"
      PROVE  stop' /\ queue'[k] = <<>>
  <2>1. w \in Pool /\ Serves(w) = k
    BY DEF Servers
  <2>2. stop /\ queue[k] = <<>>
    BY <1>1, <2>1, ExitStays DEF LeftInv, Exit
  <2>3. pc[w] = "exit" \/ pc[w] = "look"
    BY <1>1, <2>1, ExitStays DEF Exit, At
  <2>4. pc[Main] # "init"
    BY <2>1, <2>3, ThreadsAre DEF ControlInv
  <2> QED BY <2>2, <2>4, StopStays
<1>2. ASSUME pc'[Main] \in {"joinSim", "down"}, NEW w \in Pool
      PROVE  pc'[w] = "exit"
  BY <1>2, JoinedStays, ExitStays DEF LeftInv
<1> QED BY <1>1, <1>2 DEF LeftInv, Servers

-----------------------------------------------------------------------------
(* No wake-up is lost *)

LEMMA ServersAre ==
  /\ Servers("async") # {} /\ Servers("io") # {}
  /\ \A k \in {"async", "io"} : Servers(k) \subseteq Pool
BY SchedulerAssumption DEF Servers, Serves, Pool

LEMMA StrandedNext ==
  ASSUME ControlInv, TasksTyped, NoTaskStranded, [Next]_vars
  PROVE  NoTaskStranded'
<1> SUFFICES ASSUME NEW k \in {"async", "io"}, queue'[k] # <<>>,
                    \A w \in Servers(k) : pc'[w] = "asleep"
             PROVE  \/ \E th \in Threads : pc'[th] = "notify" /\ Kind[held'[th]] = k
                    \/ pc'[Main] = "wake"
  BY DEF NoTaskStranded
<1> USE ThreadsAre, TasksAre, ServersAre, HomeIs
    DEF ControlInv, Busy, MainGoto, At, Goto, queues, threads
\* Whoever sleeps and whoever notifies, before the step, counts.
<1>0. (queue[k] # <<>> /\ \A w \in Servers(k) : pc[w] = "asleep")
        => \/ \E th \in Threads : pc[th] = "notify" /\ Kind[held[th]] = k
           \/ pc[Main] = "wake"
  BY DEF NoTaskStranded
<1>a. ASSUME NEW th \in Threads, HandleTask(th), pc[th] # "notify"
      PROVE  /\ pc[th] \notin {"asleep", "wake", "notify"} /\ pc'[th] # "asleep"
             /\ \A other \in Threads \ {th} : pc'[other] = pc[other] /\ held'[other] = held[other]
  <2>1. pc[th] \in Busy /\ Home(th) # "asleep" /\ "asleep" \notin Busy
    BY <1>a, HandleMoves, HomeIs
  <2>2. \/ UNCHANGED <<pc, held>>
        \/ Goto(th, Home(th), None)
        \/ \E place \in Busy, t \in Tasks : Goto(th, place, t)
    BY <1>a, HandleMoves DEF Woken
  <2> QED BY <1>a, <2>1, <2>2
<1>1. ASSUME NEW th \in Threads,
             \/ Complete(th) \/ Load(th) \/ AwaitReady(th) \/ Suspend(th) \/ Post(th)
             \/ EnqueueThrows(th) \/ LoadThrows(th)
      PROVE  \/ \E other \in Threads : pc'[other] = "notify" /\ Kind[held'[other]] = k
             \/ pc'[Main] = "wake"
  <2>1. queue'[k] = queue[k] /\ pc[th] # "notify" /\ HandleTask(th)
    BY <1>1 DEF Complete, Load, AwaitReady, Suspend, Post, EnqueueThrows, LoadThrows, HandleTask
  <2> QED BY <1>0, <1>a, <2>1
<1>2. ASSUME NEW th \in Threads, Enqueue(th)
      PROVE  \/ \E other \in Threads : pc'[other] = "notify" /\ Kind[held'[other]] = k
             \/ pc'[Main] = "wake"
  <2>1. held[th] \in Tasks /\ pc[th] = "enqueue" /\ Push(held[th]) /\ HandleTask(th)
    BY <1>2 DEF Enqueue, HandleTask, Fits
  <2>2. CASE Kind[held[th]] = k
    BY <1>2, <2>1, <2>2 DEF Enqueue
  <2>3. CASE Kind[held[th]] # k
    <3>1. queue'[k] = queue[k]
      BY <2>1, <2>3 DEF Push, TasksTyped, Kinds
    <3> QED BY <1>0, <1>a, <2>1, <3>1
  <2> QED BY <2>2, <2>3
<1>3. ASSUME NEW th \in Threads, Notify(th)
      PROVE  \/ \E other \in Threads : pc'[other] = "notify" /\ Kind[held'[other]] = k
             \/ pc'[Main] = "wake"
  <2>1. queue'[k] = queue[k] /\ pc[th] = "notify"
    BY <1>3 DEF Notify
  <2>2. pc'[th] # "asleep" /\ th \notin Servers(k)
    BY <1>3 DEF Notify, Asleep
  <2>3. \A w \in Servers(k) : pc[w] = "asleep"
    BY <1>3, <2>2 DEF Notify, Asleep, Servers
  <2>4. Kind[held[th]] # k
    BY <1>3, <2>2, <2>3 DEF Notify, Asleep
  <2>5. \A other \in Threads \ {th} :
          pc[other] # "asleep" => pc'[other] = pc[other] /\ held'[other] = held[other]
    BY <1>3 DEF Notify, Asleep
  <2> QED BY <1>0, <2>1, <2>3, <2>4, <2>5
<1>4. ASSUME NEW v \in Pool, WorkerStart(v) \/ Take(v) \/ WakeSpurious(v) \/ Exit(v) \/ Sleep(v)
      PROVE  \/ \E other \in Threads : pc'[other] = "notify" /\ Kind[held'[other]] = k
             \/ pc'[Main] = "wake"
  <2>1. /\ pc[v] \in {"start", "look", "asleep"}
        /\ \A other \in Threads \ {v} : pc'[other] = pc[other] /\ held'[other] = held[other]
    BY <1>4 DEF WorkerStart, Take, WakeSpurious, Exit, Sleep
  <2>2. CASE Sleep(v)
    <3>1. Serves(v) # k /\ queue' = queue
      BY <2>2 DEF Sleep
    <3> QED BY <1>0, <2>1, <3>1 DEF Servers
  <2>3. CASE ~Sleep(v)
    <3>1. v \notin Servers(k) /\ queue'[k] = queue[k]
      BY <1>4, <2>3 DEF WorkerStart, Take, WakeSpurious, Exit, Servers, Serves, TasksTyped, Kinds
    <3> QED BY <1>0, <2>1, <3>1
  <2> QED BY <2>2, <2>3
<1>5. CASE StartThreads
  BY <1>5 DEF StartThreads
<1>6. CASE WakeAll
  BY <1>6 DEF WakeAll
<1>7. CASE StopRunning \/ ClearScheduler \/ SetStop \/ JoinPool \/ JoinSim \/ TakeBatch \/ RunBatch
  <2>1. queue'[k] = queue[k] /\ pc[Main] \notin {"wake", "notify"}
    BY <1>7 DEF StopRunning, ClearScheduler, SetStop, JoinPool, JoinSim, TakeBatch, RunBatch, TasksTyped, Kinds
  <2>2. \A other \in Threads \ {Main} : pc'[other] = pc[other] /\ held'[other] = held[other]
    BY <1>7 DEF StopRunning, ClearScheduler, SetStop, JoinPool, JoinSim, TakeBatch, RunBatch
  <2> QED BY <1>0, <2>1, <2>2
<1>10. ASSUME NEW t \in Roots, StartSetup(t)
       PROVE  \/ \E other \in Threads : pc'[other] = "notify" /\ Kind[held'[other]] = k
              \/ pc'[Main] = "wake"
  <2>1. /\ queue' = queue /\ pc[Main] \notin {"notify", "wake"}
        /\ \A other \in Threads \ {Main} : pc'[other] = pc[other] /\ held'[other] = held[other]
    BY <1>10 DEF StartSetup
  <2> QED BY <1>0, <2>1
<1>8. CASE Attach \/ SimExit \/ \E t \in Roots : Submit(t)
  <2>1. queue' = queue /\ pc[Sim] # "notify"
    BY <1>8 DEF Attach, SimExit, Submit
  <2>2. \A other \in Threads \ {Sim} : pc'[other] = pc[other] /\ held'[other] = held[other]
    BY <1>8 DEF Attach, SimExit, Submit
  <2> QED BY <1>0, <2>1, <2>2
<1>9. CASE UNCHANGED vars
  BY <1>0, <1>9 DEF vars
<1> QED BY <1>1, <1>2, <1>3, <1>4, <1>5, <1>6, <1>7, <1>8, <1>9, <1>10
        DEF Next, StartUp, MainStep, MainStop, SimStep, WorkerStep, HandleTask

-----------------------------------------------------------------------------
(* The invariant, and what follows from it *)

SchedulerInv ==
  ControlInv /\ TasksTyped /\ PlacedInv /\ ExpectInv /\ ChainInv /\ LeftInv

LEMMA InitHolds == Init => SchedulerInv /\ FlagsInv /\ NoTaskStranded
<1> SUFFICES ASSUME Init PROVE SchedulerInv /\ FlagsInv /\ NoTaskStranded
  OBVIOUS
<1> USE TasksAre, ThreadsAre, LoadsAre, SchedulerAssumption DEF Init
<1>1. FlagsInv
  BY DEF FlagsInv
<1>2. ControlInv
  BY DEF ControlInv, Busy, Closing
<1>3. TasksTyped
  BY DEF TasksTyped, Kinds
<1>4. /\ \A th \in Threads : hand[th] = None /\ expects[th] = None
      /\ \A t \in Tasks : ~InHand(t) /\ ~InQueue(t) /\ ~InBatch(t) /\ t \notin posted
  BY DEF hand, expects, InHand, InQueue, InBatch, Has, posted
<1>5. posted = {}
  BY <1>4 DEF posted
<1>6. PlacedInv
  BY <1>4, <1>5 DEF PlacedInv, Once
<1>7. ChainInv
  BY <1>5 DEF ChainInv, Reached
<1>8. LeftInv
  BY DEF LeftInv, Servers
<1>9. NoTaskStranded
  BY DEF NoTaskStranded, Kinds
<1>10. ExpectInv
  BY <1>4 DEF ExpectInv
<1> QED BY <1>1, <1>2, <1>3, <1>6, <1>7, <1>8, <1>9, <1>10 DEF SchedulerInv

LEMMA NextHolds ==
  SchedulerInv /\ FlagsInv /\ NoTaskStranded /\ [Next]_vars
    => (SchedulerInv /\ FlagsInv /\ NoTaskStranded)'
BY ControlNext, NextMoves, MovesTyped, PlacedMoves, ExpectMoves, ChainMoves, LeftNext, FlagsNext,
   StrandedNext
DEF SchedulerInv

\* Every thread is where its task says, every task is in one place at a time,
\* and a chain of continuations is followed in its order: the strengthening
\* from which the scheduler's properties follow.
THEOREM SchedulerCorrect == Spec => [](SchedulerInv /\ FlagsInv /\ NoTaskStranded)
BY InitHolds, NextHolds, PTL DEF Spec

\* Whatever the threads do, somebody is awake or about to be woken for a queue
\* that is not empty.
THEOREM NoneStranded == Spec => []NoTaskStranded
BY SchedulerCorrect, PTL

\* shutdown joins the pools with nothing left in their queues.
THEOREM PoolsAreDrained == Spec => []PoolDrained
<1>1. SchedulerInv => PoolDrained
  BY ServersAre DEF SchedulerInv, LeftInv, PoolDrained
<1> QED BY <1>1, SchedulerCorrect, PTL

LEMMA CountIs ==
  ASSUME NEW s \in Seq(Tasks), Once(s), NEW t \in Tasks
  PROVE  Count(t, s) = IF Has(s, t) THEN 1 ELSE 0
<1> DEFINE places == {i \in DOMAIN s : s[i] = t}
<1>1. Count(t, s) = Cardinality(places)
  BY DEF Count
<1>2. CASE Has(s, t)
  <2>1. PICK i \in DOMAIN s : s[i] = t
    BY <1>2 DEF Has
  <2>2. places = {i}
    BY <2>1 DEF Once
  <2> QED BY <1>1, <1>2, <2>2, FS_Singleton
<1>3. CASE ~Has(s, t)
  <2>1. places = {}
    BY <1>3 DEF Has
  <2> QED BY <1>1, <1>3, <2>1, FS_EmptySet
<1> QED BY <1>2, <1>3

LEMMA WhereOnce ==
  ASSUME PlacedInv, NEW t \in Tasks
  PROVE  Where(t) = IF InHand(t) THEN 1 ELSE 0
<1> DEFINE holders == {th \in Threads : held[th] = t /\ Hands(th)}
<1>1. Where(t) = Cardinality(holders)
  BY DEF Where
<1>2. holders = {th \in Threads : hand[th] = t}
  BY TasksAre DEF hand
<1> HIDE DEF holders
<1>3. CASE InHand(t)
  <2>1. PICK th \in Threads : hand[th] = t
    BY <1>3 DEF InHand
  <2>2. holders = {th}
    BY <1>2, <2>1, TasksAre DEF PlacedInv
  <2> QED BY <1>1, <1>3, <2>2, FS_Singleton
<1>4. CASE ~InHand(t)
  <2>1. holders = {}
    BY <1>2, <1>4 DEF InHand
  <2> QED BY <1>1, <1>4, <2>1, FS_EmptySet
<1> QED BY <1>3, <1>4

\* No task is in two places, and none that has run is anywhere: however the
\* threads hand tasks over, and whoever wins a future's lock, none runs twice.
THEOREM NoneRunsTwice == Spec => []RunOnce
<1>1. SchedulerInv => RunOnce
  <2> SUFFICES ASSUME SchedulerInv, NEW t \in Tasks
               PROVE  Count(t, queue["async"]) + Count(t, queue["io"]) + Count(t, queue["sync"])
                        + Count(t, batch) + Where(t) <= IF t \in ready \cup lost THEN 0 ELSE 1
    BY DEF RunOnce
  <2> USE DEF SchedulerInv
  <2>1. \A k \in Kinds : Count(t, queue[k]) = IF InQueue(t) /\ Kind[t] = k THEN 1 ELSE 0
    <3> SUFFICES ASSUME NEW k \in Kinds
                 PROVE  Count(t, queue[k]) = IF InQueue(t) /\ Kind[t] = k THEN 1 ELSE 0
      OBVIOUS
    <3>1. queue[k] \in Seq(Tasks) /\ Once(queue[k])
      BY DEF TasksTyped, PlacedInv
    <3> QED BY <3>1, CountIs, InPlace
  <2>2. Count(t, batch) = IF InBatch(t) THEN 1 ELSE 0
    BY CountIs DEF TasksTyped, PlacedInv, InBatch
  <2>3. Where(t) = IF InHand(t) THEN 1 ELSE 0
    BY WhereOnce
  <2>4. /\ InHand(t) => ~InQueue(t) /\ ~InBatch(t)
        /\ InQueue(t) => ~InBatch(t)
        /\ t \in ready \cup lost => ~InHand(t) /\ ~InQueue(t) /\ ~InBatch(t)
    BY DEF PlacedInv, posted
  <2> QED BY <2>1, <2>2, <2>3, <2>4 DEF Kinds
<1> QED BY <1>1, SchedulerCorrect, PTL

\* Then and co_await against set_value: whoever takes the lock first, a task that
\* has run has what comes after it posted, or the simulation is still to attach
\* it, or a thread to await it; and no load is refused before shutdown.
THEOREM NoContinuationLost == Spec => []ContinuationKept
<1>1. SchedulerInv /\ FlagsInv => ContinuationKept
  <2> SUFFICES ASSUME SchedulerInv, FlagsInv
               PROVE  ContinuationKept
    OBVIOUS
  <2> USE DEF SchedulerInv
  <2>1. ASSUME NEW t \in Tasks, t \in ready, After[t] # None
        PROVE  Posted(After[t]) \/ chain = t \/ Awaiting(t)
    <3>1. Reached(t) /\ After[t] \in Tasks
      BY <2>1, TasksAre DEF Reached, posted
    <3>2. After[t] \in posted \cup lost \/ chain = t \/ (t \notin attached \cup Coroutine /\ Expected(t))
      BY <2>1, <3>1 DEF ChainInv
    <3>3. ASSUME Expected(t) PROVE Awaiting(t)
      <4>1. PICK th \in Threads : expects[th] = t
        BY <3>3 DEF Expected
      <4>2. held[th] = t /\ t \in Loads
        BY <4>1, TasksAre DEF expects
      <4>3. hand[th] # t
        BY <2>1, <4>1 DEF PlacedInv, InHand
      <4>4. ~Hands(th)
        BY <4>2, <4>3 DEF hand
      <4> QED BY <4>2, <4>4 DEF Awaiting
    <3> QED BY <3>1, <3>2, <3>3, PostedIs
  <2>2. lost # {} => stop
    BY DEF FlagsInv
  <2> QED BY <2>1, <2>2 DEF ContinuationKept
<1> QED BY <1>1, SchedulerCorrect, PTL

-----------------------------------------------------------------------------
(* The scheduler implements the abstract pool *)

Running(t) == \E th \in Threads : pc[th] = "run" /\ held[th] = t
Waiting(t) == InQueue(t) \/ InBatch(t)

StatusKnown ==
  \A t \in Tasks : status[t] = IF t \in ready THEN "done" ELSE IF Running(t) THEN "running"
                               ELSE IF Waiting(t) THEN "accepted" ELSE "new"

LEMMA StatusIs == SchedulerInv => StatusKnown
<1> SUFFICES ASSUME SchedulerInv, NEW t \in Tasks
             PROVE  status[t] = IF t \in ready THEN "done" ELSE IF Running(t) THEN "running"
                                ELSE IF Waiting(t) THEN "accepted" ELSE "new"
  BY DEF StatusKnown
<1> USE DEF SchedulerInv
<1>1. InLine(t) <=> Waiting(t)
  BY InLineIs DEF Waiting
<1>2. status[t] = Status(t)
  BY DEF status
\* The cases exclude each other.
<1>3. Running(t) => InHand(t)
  BY DEF Running, InHand, hand, Hands
<1>4. /\ t \in ready => ~Running(t) /\ ~Waiting(t)
      /\ Running(t) => ~Waiting(t)
  BY <1>3 DEF PlacedInv, Waiting
<1>5. CASE t \in ready
  BY <1>1, <1>2, <1>4, <1>5 DEF Status, Running
<1>6. CASE t \notin ready /\ Running(t)
  BY <1>1, <1>2, <1>4, <1>6 DEF Status, Running
<1>7. CASE t \notin ready /\ ~Running(t) /\ Waiting(t)
  BY <1>1, <1>2, <1>7 DEF Status, Running
<1>8. CASE t \notin ready /\ ~Running(t) /\ ~Waiting(t)
  BY <1>1, <1>2, <1>8 DEF Status, Running
<1> QED BY <1>5, <1>6, <1>7, <1>8

LEMMA StatusIsNext == SchedulerInv' => StatusKnown'
BY StatusIs, PTL

\* The step of the abstract pool that a change of one task's status is.
LEMMA StatusStep ==
  ASSUME SchedulerInv, SchedulerInv', NEW t \in Tasks,
         \A u \in Tasks \ {t} : status'[u] = status[u],
         \/ status[t] = "running" /\ status'[t] = "done"
         \/ status[t] = "accepted" /\ status'[t] = "running"
         \/ /\ status[t] = "new" /\ \A p \in Tasks : After[p] = t => p \in ready
            /\ status'[t] \in {"accepted", "running"} \/ (status'[t] = "done" /\ t \in Loads)
  PROVE  Abstract!Next
<1>1. status = [u \in Tasks |-> status[u]] /\ status' = [u \in Tasks |-> status'[u]]
  BY DEF status
<1>2. status' = [status EXCEPT ![t] = status'[t]]
  BY <1>1
<1>3. (\A p \in Tasks : After[p] = t => p \in ready) => Abstract!Ready(t)
  BY StatusIs DEF Abstract!Ready, StatusKnown
<1>4. status'[t] # status[t]
  OBVIOUS
<1>5. Abstract!Accept(t) \/ Abstract!Start(t) \/ Abstract!Finish(t) \/ Abstract!Answer(t)
  BY <1>2, <1>3 DEF Abstract!Accept, Abstract!Start, Abstract!Finish, Abstract!Answer
<1> QED BY <1>4, <1>5 DEF Abstract!Next

LEMMA StatusStutter ==
  ASSUME SchedulerInv, SchedulerInv', ready' = ready,
         \A u \in Tasks : (Running(u))' <=> Running(u),
         \A u \in Tasks : (Waiting(u))' <=> Waiting(u)
  PROVE  status' = status
<1>1. \A u \in Tasks : status'[u] = status[u]
  BY StatusIs, StatusIsNext DEF StatusKnown
<1>2. status = [u \in Tasks |-> status[u]] /\ status' = [u \in Tasks |-> status'[u]]
  BY DEF status
<1> QED BY <1>1, <1>2

\* The task in a thread's hand is nowhere else.
LEMMA HeldAlone ==
  ASSUME SchedulerInv, NEW th \in Threads, pc[th] \in {"run", "load", "post", "enqueue"}
  PROVE  /\ held[th] \in Tasks /\ hand[th] = held[th] /\ held[th] \in posted \ ready
         /\ ~Waiting(held[th])
         /\ \A other \in Threads : hand[other] = held[th] => other = th
         /\ Running(held[th]) <=> pc[th] = "run"
         /\ \A p \in Tasks : After[p] = held[th] => p \in ready
<1> USE TasksAre DEF SchedulerInv
<1>1. held[th] \in Tasks /\ hand[th] = held[th]
  BY DEF ControlInv, Fits, Busy, hand, Hands
<1>2. InHand(held[th])
  BY <1>1 DEF InHand
<1>3. \A other \in Threads : hand[other] = held[th] => other = th
  BY <1>1 DEF PlacedInv
<1>4. \A other \in Threads : pc[other] = "run" => hand[other] = held[other]
  BY DEF hand, Hands
<1>5. held[th] \in posted \ ready /\ ~Waiting(held[th])
  BY <1>1, <1>2 DEF PlacedInv, posted, Waiting
<1>6. Running(held[th]) <=> pc[th] = "run"
  BY <1>1, <1>3, <1>4 DEF Running
<1>7. \A p \in Tasks : After[p] = held[th] => p \in ready
  BY <1>5 DEF ChainInv
<1> QED BY <1>1, <1>3, <1>5, <1>6, <1>7

LEMMA PoolStep ==
  ASSUME SchedulerInv, SchedulerInv', [Next]_vars
  PROVE  [Abstract!Next]_status
<1> USE ThreadsAre, TasksAre, HomeIs DEF SchedulerInv
<1>1. ASSUME NEW th \in Threads, Complete(th)
      PROVE  Abstract!Next
  <2> DEFINE t == held[th]
  <2>1. /\ pc[th] = "run" /\ ready' = ready \cup {t} /\ UNCHANGED <<queue, batch>>
        /\ pc'[th] # "run"
        /\ \A other \in Threads \ {th} : pc'[other] = pc[other] /\ held'[other] = held[other]
    BY <1>1 DEF Complete, At, Goto, ControlInv, queues
  <2>2. t \in Tasks \ ready /\ Running(t)
    BY <2>1, HeldAlone
  <2>3. \A u \in Tasks \ {t} : /\ u \in ready' <=> u \in ready
                               /\ (Running(u))' <=> Running(u)
                               /\ (Waiting(u))' <=> Waiting(u)
    BY <2>1 DEF Running, Waiting, InQueue, InBatch
  <2> HIDE DEF t
  <2> QED BY <2>1, <2>2, <2>3, StatusIs, StatusIsNext, StatusStep DEF StatusKnown
<1>2. ASSUME NEW th \in Threads, Post(th)
      PROVE  [Abstract!Next]_status
  <2>0. PICK t \in Tasks : t = held[th] /\ \A p \in Tasks : After[p] = t => p \in ready
    BY <1>2, HeldAlone DEF Post, At
  <2>1. /\ pc[th] = "post" /\ held'[th] = t /\ pc'[th] \in {"enqueue", "run"}
        /\ UNCHANGED <<queue, batch, ready>>
        /\ \A other \in Threads \ {th} : pc'[other] = pc[other] /\ held'[other] = held[other]
    BY <1>2, <2>0 DEF Post, At, Goto, ControlInv, queues, futures
  <2>2. t \in Tasks \ ready /\ t \in posted /\ ~Running(t) /\ ~Waiting(t)
    BY <2>0, <2>1, HeldAlone
  <2>3. \A u \in Tasks : (Waiting(u))' <=> Waiting(u)
    BY <2>1 DEF Waiting, InQueue, InBatch
  <2>4. \A u \in Tasks \ {t} : (Running(u))' <=> Running(u)
    BY <2>1 DEF Running
  <2>5. CASE pc'[th] = "enqueue"
    <3>1. \A u \in Tasks : (Running(u))' <=> Running(u)
      BY <2>1, <2>5 DEF Running
    <3> QED BY <2>1, <2>3, <3>1, StatusStutter
  <2>6. CASE pc'[th] = "run"
    <3>1. (Running(t))'
      BY <2>1, <2>6 DEF Running
    <3>2. status[t] = "new" /\ status'[t] = "running"
      BY <2>1, <2>2, <3>1, StatusIs, StatusIsNext DEF StatusKnown
    <3>3. \A u \in Tasks \ {t} : status'[u] = status[u]
      BY <2>1, <2>2, <2>3, <2>4, StatusIs, StatusIsNext DEF StatusKnown
    <3> QED BY <2>0, <3>2, <3>3, StatusStep
  <2> QED BY <2>1, <2>5, <2>6
<1>3. ASSUME NEW th \in Threads, Enqueue(th)
      PROVE  Abstract!Next
  <2> DEFINE t == held[th]
  <2>1. /\ pc[th] = "enqueue" /\ pc'[th] # "run" /\ ready' = ready
        /\ \A other \in Threads \ {th} : pc'[other] = pc[other] /\ held'[other] = held[other]
    BY <1>3 DEF Enqueue, At, Goto, ControlInv, futures
  <2>2. /\ t \in Tasks \ ready /\ t \in posted /\ ~Running(t) /\ ~Waiting(t) /\ hand[th] = t
        /\ \A p \in Tasks : After[p] = t => p \in ready
    BY <2>1, HeldAlone
  <2>3. Pushed(th, t)
    BY <1>3, EnqueuePushes
  <2>4. \A u \in Tasks : (Waiting(u))' <=> Waiting(u) \/ u = t
    BY <2>2, <2>3, PushedIs DEF Waiting
  <2>5. \A u \in Tasks : (Running(u))' <=> Running(u)
    BY <2>1 DEF Running
  <2> HIDE DEF t
  <2> QED BY <2>1, <2>2, <2>4, <2>5, StatusIs, StatusIsNext, StatusStep DEF StatusKnown
<1>4. ASSUME NEW th \in Threads, NEW t \in Tasks, Waiting(t), pc[th] # "run",
             pc'[th] = "run", held'[th] = t, ready' = ready,
             \A other \in Threads \ {th} : pc'[other] = pc[other] /\ held'[other] = held[other],
             \A u \in Tasks : (Waiting(u))' <=> Waiting(u) /\ u # t
      PROVE  Abstract!Next
  <2>1. t \notin ready /\ ~InHand(t)
    BY <1>4 DEF Waiting, PlacedInv
  <2>2. ~Running(t)
    BY <2>1 DEF Running, InHand, hand, Hands
  <2>3. (Running(t))' /\ \A u \in Tasks \ {t} : (Running(u))' <=> Running(u)
    BY <1>4 DEF Running
  <2> QED BY <1>4, <2>1, <2>2, <2>3, StatusIs, StatusIsNext, StatusStep DEF StatusKnown
<1>5. ASSUME NEW w \in Pool, Take(w)
      PROVE  Abstract!Next
  <2>1. Taken(w, Serves(w)) /\ Serves(w) \in Kinds
    BY <1>5, TakeTakes
  <2>2. /\ pc[w] = "look" /\ pc'[w] = "run" /\ held'[w] = Head(queue[Serves(w)]) /\ ready' = ready
        /\ \A other \in Threads \ {w} : pc'[other] = pc[other] /\ held'[other] = held[other]
    BY <1>5 DEF Take, At, Goto, ControlInv, futures
  <2>3. PICK h \in Tasks :
          /\ InQueue(h) /\ Handed(w, h)
          /\ \A t \in Tasks : /\ (InBatch(t))' <=> InBatch(t)
                              /\ (InQueue(t))' <=> InQueue(t) /\ t # h
    BY <2>1, TakenIs
  <2>4. held'[w] = h
    BY <2>1, <2>2, <2>3 DEF Handed, Taken
  <2>5. Waiting(h) /\ \A u \in Tasks : (Waiting(u))' <=> Waiting(u) /\ u # h
    BY <2>3 DEF Waiting, PlacedInv
  <2> QED BY <1>4, <2>2, <2>4, <2>5
<1>6. CASE TakeBatch
  <2>1. Swapped /\ ready' = ready
    BY <1>6, TakeBatchSwaps DEF TakeBatch, futures
  <2>2. \A th \in Threads : pc'[th] = "run" /\ held'[th] # None <=> pc[th] = "run" /\ held[th] # None
    BY <1>6 DEF TakeBatch, At, ControlInv
  <2>3. \A u \in Tasks : (Running(u))' <=> Running(u)
    BY <1>6, <2>2 DEF TakeBatch, Running
  <2> QED BY <2>1, <2>3, SwappedIs, StatusStutter DEF Waiting
<1>7. ASSUME UNCHANGED <<queue, batch, ready>>,
             \A th \in Threads : /\ pc'[th] = "run" <=> pc[th] = "run"
                                 /\ pc[th] = "run" => held'[th] = held[th]
      PROVE  status' = status
  <2>1. \A u \in Tasks : (Running(u))' <=> Running(u)
    BY <1>7 DEF Running
  <2>2. \A u \in Tasks : (Waiting(u))' <=> Waiting(u)
    BY <1>7 DEF Waiting, InQueue, InBatch
  <2> QED BY <1>7, <2>1, <2>2, StatusStutter
<1>8. CASE RunBatch
  <2>1. ready' = ready /\ pc[Main] = "batch"
    BY <1>8 DEF RunBatch, At, futures
  <2>2. CASE batch = <<>>
    BY <1>8, <2>1, <2>2, <1>7 DEF RunBatch, Goto, ControlInv
  <2>3. CASE batch # <<>>
    <3>1. Picked
      BY <1>8, <2>3, RunBatchPicks
    <3>2. /\ pc'[Main] = "run" /\ held'[Main] = Head(batch)
          /\ \A other \in Threads \ {Main} : pc'[other] = pc[other] /\ held'[other] = held[other]
      BY <1>8, <2>3 DEF RunBatch, Goto, ControlInv
    <3>3. PICK h \in Tasks :
            /\ InBatch(h) /\ Handed(Main, h)
            /\ \A t \in Tasks : /\ (InBatch(t))' <=> InBatch(t) /\ t # h
                                /\ (InQueue(t))' <=> InQueue(t)
      BY <3>1, PickedIs
    <3>4. held'[Main] = h
      BY <3>1, <3>2, <3>3 DEF Handed, Picked
    <3>5. Waiting(h) /\ \A u \in Tasks : (Waiting(u))' <=> Waiting(u) /\ u # h
      BY <3>3 DEF Waiting, PlacedInv
    <3> QED BY <1>4, <2>1, <3>2, <3>4, <3>5
  <2> QED BY <2>2, <2>3
<1>9. ASSUME NEW th \in Threads, EnqueueThrows(th) \/ LoadThrows(th) \/ Suspend(th) \/ Notify(th)
      PROVE  status' = status
  <2>1. UNCHANGED <<queue, batch, ready>>
    BY <1>9 DEF EnqueueThrows, LoadThrows, Suspend, Notify, queues, futures
  <2>2. DOMAIN pc = Threads /\ DOMAIN held = Threads
    BY DEF ControlInv
  <2>3. \A other \in Threads : /\ pc'[other] = "run" <=> pc[other] = "run"
                               /\ pc[other] = "run" => held'[other] = held[other]
    BY <1>9, <2>2 DEF EnqueueThrows, LoadThrows, Suspend, Notify, Asleep, Servers, At, Goto, threads
  <2> QED BY <1>7, <2>1, <2>3
<1>10. ASSUME NEW w \in Pool, WorkerStart(w) \/ Sleep(w) \/ Exit(w) \/ WakeSpurious(w)
       PROVE  status' = status
  BY <1>7, <1>10 DEF WorkerStart, Sleep, Exit, WakeSpurious, At, ControlInv, queues, futures
<1>11. CASE StartThreads \/ StopRunning \/ MainStop
  <2>1. UNCHANGED <<queue, batch, ready, held>> /\ DOMAIN pc = Threads
    BY <1>11 DEF StartThreads, StopRunning, MainStop, ClearScheduler, SetStop, WakeAll, JoinPool,
                 JoinSim, ControlInv, queues, futures
  <2>2. CASE StartThreads
    <3>1. \A th \in Threads : pc[th] # "run" /\ pc'[th] # "run"
      BY <2>2 DEF StartThreads, At, ControlInv, Busy
    <3> QED BY <1>7, <2>1, <3>1
  <2>3. CASE StopRunning \/ MainStop
    <3>1. \A th \in Threads : pc'[th] = "run" <=> pc[th] = "run"
      BY <2>1, <2>3 DEF StopRunning, MainStop, MainGoto, ClearScheduler, SetStop, WakeAll, JoinPool,
                        JoinSim, At
    <3> QED BY <1>7, <2>1, <3>1
  <2> QED BY <1>11, <2>2, <2>3
<1>12. CASE Attach \/ SimExit \/ \E t \in Roots : Submit(t)
  BY <1>7, <1>12 DEF Attach, SimExit, Submit, At, Goto, ControlInv, queues, futures, threads
<1>13. CASE UNCHANGED vars
  BY <1>7, <1>13 DEF vars, queues, futures, threads
<1>14. ASSUME NEW t \in Roots, StartSetup(t)
       PROVE  status' = status
  BY <1>7, <1>14 DEF StartSetup, At, Goto, ControlInv, queues, futures
<1>15. ASSUME NEW th \in Threads, Load(th)
       PROVE  [Abstract!Next]_status
  <2> DEFINE t == held[th]
  <2>1. /\ pc[th] = "load" /\ pc'[th] # "run" /\ UNCHANGED <<queue, batch>>
        /\ \A other \in Threads \ {th} : pc'[other] = pc[other] /\ held'[other] = held[other]
    BY <1>15 DEF Load, At, Goto, ControlInv, queues
  <2>2. CASE ready' = ready
    BY <1>7, <2>1, <2>2
  <2>3. CASE ready' = ready \cup {t}
    <3>1. t \in Tasks \ ready /\ ~Running(t) /\ ~Waiting(t) /\ \A p \in Tasks : After[p] = t => p \in ready
      BY <2>1, HeldAlone
    <3>2. t \in Loads
      BY <2>1 DEF ControlInv, Fits, Busy
    <3>3. \A u \in Tasks : /\ u \in ready' <=> u \in ready \/ u = t
                           /\ (Running(u))' <=> Running(u)
                           /\ (Waiting(u))' <=> Waiting(u)
      BY <2>1, <2>3 DEF Running, Waiting, InQueue, InBatch
    <3> HIDE DEF t
    <3> QED BY <3>1, <3>2, <3>3, StatusIs, StatusIsNext, StatusStep DEF StatusKnown
  <2> QED BY <1>15, <2>2, <2>3 DEF Load
<1>16. ASSUME NEW th \in Threads, AwaitReady(th)
       PROVE  [Abstract!Next]_status
  <2>1. /\ pc[th] = "await" /\ UNCHANGED <<queue, batch, ready>>
        /\ \A other \in Threads \ {th} : pc'[other] = pc[other] /\ held'[other] = held[other]
    BY <1>16 DEF AwaitReady, At, Goto, ControlInv, queues, futures
  <2>2. CASE held[th] \notin ready
    <3>1. pc'[th] # "run"
      BY <1>16, <2>2 DEF AwaitReady, Goto, ControlInv
    <3> QED BY <1>7, <2>1, <3>1
  <2>3. CASE held[th] \in ready
    <3>1. held[th] \in Loads /\ expects[th] = held[th]
      BY <2>1, HandIs DEF ControlInv, Fits, Busy, ExpectsOf
    <3>2. PICK next \in Tasks : next = After[held[th]]
      BY <3>1, LoadsAre
    <3>3. next \notin posted
      BY <3>1, <3>2, LoadsAre DEF ExpectInv
    <3>4. ~Waiting(next) /\ next \notin ready /\ ~InHand(next)
      BY <3>3 DEF posted, Waiting
    <3>5. ~Running(next)
      BY <3>4 DEF Running, InHand, hand, Hands
    <3>6. pc'[th] = "run" /\ held'[th] = next
      BY <1>16, <2>3, <3>2 DEF AwaitReady, Goto, ControlInv
    <3>7. (Running(next))' /\ \A u \in Tasks \ {next} : (Running(u))' <=> Running(u)
      BY <2>1, <3>6 DEF Running
    <3>8. \A u \in Tasks : (Waiting(u))' <=> Waiting(u)
      BY <2>1 DEF Waiting, InQueue, InBatch
    <3>9. \A p \in Tasks : After[p] = next => p \in ready
      BY <2>3, <3>1, <3>2, LoadsAre, SchedulerAssumption
    <3>10. status[next] = "new" /\ status'[next] = "running"
      BY <2>1, <3>4, <3>5, <3>7, StatusIs, StatusIsNext DEF StatusKnown
    <3>11. \A u \in Tasks \ {next} : status'[u] = status[u]
      BY <2>1, <3>7, <3>8, StatusIs, StatusIsNext DEF StatusKnown
    <3> QED BY <3>9, <3>10, <3>11, StatusStep
  <2> QED BY <2>2, <2>3
<1> QED BY <1>1, <1>2, <1>3, <1>5, <1>6, <1>8, <1>9, <1>10, <1>11, <1>12, <1>13, <1>14, <1>15, <1>16
        DEF Next, StartUp, MainStep, SimStep, WorkerStep, HandleTask

\* The scheduler keeps the promise of the abstract pool: every task is accepted,
\* run and finished in that order and once, after the one it continues.
THEOREM SchedulerRefinesPool == Spec => ImplementsPool
<1>1. Init => Abstract!Init
  <2>1. Init => \A t \in Tasks : t \notin ready /\ ~Running(t) /\ ~Waiting(t)
    BY ThreadsAre, TasksAre DEF Init, Running, Waiting, InQueue, InBatch, Has
  <2> QED BY <2>1, InitHolds, StatusIs DEF Abstract!Init, status, StatusKnown
<1> QED
  BY <1>1, PoolStep, SchedulerCorrect, PTL DEF Spec, ImplementsPool, Abstract!Spec
=============================================================================
