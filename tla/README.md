# JAENG in TLA+

JAENG is a C++ game engine built on three threads: the main (operating system)
thread, a simulation thread and a render thread, with a pool of workers beside
them. These modules model the code that the threads share, and the data
structures whose links and indices have to agree; TLC checks them on small
instances and TLAPS proves the most important results for every instance.
Paths are relative to the root of the repository. `PROJECT.json` maps each
definition to the lines it stands for.

## 1. The system

| Component | State | Operations | Who calls it |
|---|---|---|---|
| Triple buffer (`engine/common/triple_buffer.h`) | three buffers, two plain pointers, an atomic slot and flag | `get_producer`, `push_producer`, `update_consumer`, `get_consumer` | simulation writes, render reads |
| Engine loops (`engine/platform/public/application.cpp`) | `isRunning_`, `frameReady_`, `stateMutex_`, `renderCv_`, `config_` | start and stop of the threads, `simulation_loop`, `render_loop`, `on_event` | main, simulation, render |
| Renderer front end (`engine/render/frontend/renderer.h`) | pending size and mode, each words under a flag | `queue_resize` (main), `queue_present_mode` (simulation), `process_pending_resizes` (render) | the three threads |
| Task scheduler (`engine/common/async`) | three queues, `stop_`, the current scheduler, futures with callbacks | `enqueue_async/io/sync`, `then`, `thenSync`, awaiters, worker loops, `process_main_thread_tasks`, `shutdown` | all threads |
| Component pools (`engine/entity/entity.h`) | sparse set: `sparse`, `dense`, `entities` | `operator[]`, `find`, `contains`, `remove` | whoever owns the entities at the time |
| Entity hierarchy (`entity.h`, `ui.cpp`) | `Relationship` links, `UIBuilder`'s stack | `attachEntity`, `begin`/`end`, `beginScrollContainer`/`endScrollContainer` | set-up coroutine, then simulation |
| Systems (`transform_sys.h`, `ui.cpp`, `animation.cpp`) | none; they write components | transforms, layout, interaction, tweens, animation | simulation, once a tick |
| Files and events (`engine/storage`, `pubsub.h`) | memory files, watches, listeners | `load`, `loadAsync`, `track`, the watcher thread, `publish` | any thread |
| Meshes, materials, textures, fonts | slots, storage under a mutex, caches | create (also as coroutines), destroy, look up | simulation, workers, render |
| Scene (`engine/scene`) | proxies in a grid, UI proxies, pipelines | `processCommands`, `buildDrawList`, `renderScene`, extraction | render (extraction: simulation) |
| Render graph (`engine/render/graph`) | the passes of one frame | `add_pass`, `execute` | render |
| Backends (`plugins/renderer_*`) | frame fences, swapchains, rings, resource tables | the `RendererAPI` table | render, and any thread that creates resources |
| Platforms (`engine/platform/*`) | window, event queue, foreground flag | `run`, `poll_events`, processes | main |
| Sandbox (`apps/sandbox`) | input, entities, `isReady_` | set-up coroutine, tick, extraction, events | all threads |

Interaction: `run` of the platform polls events and empties the scheduler's
mailbox on the main thread. The simulation ticks, extracts the render commands
into the producer's buffer, pushes it and signals `renderCv_`. The render
thread waits (Fifo) or spins (the other modes), updates its buffer, applies
queued sizes and modes, and draws. Files are loaded on the I/O worker, and the
coroutine that asked goes on where the future was completed.

What is hard: hand-offs without locks, made of several accesses each; a flag
and a condition variable that are not changed under the same mutex; shutdown
while everything runs; callbacks attached while a future is being completed;
work that moves from thread to thread; slots chosen on one side of a
`co_await` and used on the other; one step of several failing. `PROJECT.json`
lists each hazard at its line, with the properties that cover it or the reason
why none does.

## 2. Modules

A module models one part; `MC*` modules only give constants values; `*Proofs`
modules hold theorems.

| Module | Models | Composed with |
|---|---|---|
| `TripleBuffer` | every atomic access of the triple buffer | implements `FrameMailbox` |
| `EngineLoop` | main, simulation and render loop, condition variable | extends `TripleBuffer`, whose actions it conjoins with the control of the loops |
| `RendererMailbox` | sizes and modes queued for the render thread | mode hand-over implements `LatestValue` |
| `TaskScheduler` | queues, workers, mailbox, futures, shutdown | implements `TaskPool` |
| `Entities` | the ids of entities | extended by `ComponentPool` and `EntityTree` |
| `ComponentPool` | the sparse set | implements `ComponentMap` |
| `MeshSystem`, `MaterialSystem` | slots, entries and bindings, as loads succeed, fail and are removed | both extend `AssetLoads`; `Assets` composes them on one renderer |
| `EntityTree` | links, their two constructors, and the systems that walk them | takes a pool as a map |
| `RenderThread` | the calls of a backend that an iteration of `render_loop` makes through scene and render graph, the thread that creates resources, the GPU | extended by the three backends |
| `VulkanBackend`, `D3D12Backend`, `MetalBackend` | what each call of `RendererAPI` does | `Backends` composes them; each implements `FramePipeline` |
| `UserInterface` | the layout of a scrolled list and `UIInteractionSystem` | extended by `Sandbox` |
| `Scene` | commands on their way from a tick to the proxies of the scene | extends `TripleBuffer`; extended by `Sandbox` |
| `Sandbox` | input, tick, selection, readiness, extraction and rendering of the application | extends `UserInterface` and `Scene` |

How state and actions correspond to the code:

* **TripleBuffer.** The pointers are indices of buffers, the contents of a
  buffer the number of the frame extracted into it. `push_producer` is
  `PushExchange` then `PushFlag`; `update_consumer` is `ClaimFlag` then
  `SwapConsumer`. `published` and `seen` are history. The accesses are
  interleaved in a total order: the flag is stored with release after the
  exchange and claimed with acquire before the other, which keeps the
  order each side relies on.
* **EngineLoop.** `simLoop` and `renderLoop` are the places of the loops. A
  condition variable is the place `blocked`; the predicate (`RenderWait`) and
  the sleep (`RenderBlock`) are two steps that hold the mutex. Setting
  `frameReady_` under its lock guard is one step guarded by the free mutex.
  Immediate and Mailbox modes differ nowhere in the loop and are both
  `Uncapped`. `hasNewState` is the local of the iteration. `begin_frame` may
  fail at any time.
* **RendererMailbox.** Each store, load and exchange is a step; the two
  lengths may be stored and loaded in either order, as their relaxed accesses
  allow. `resize_handle_`, written by both callers with the one
  swapchain there is, never changes in effect and is left out.
* **TaskScheduler.** A critical section is a step and the notify after it
  another. A task is a name, `After[t]` what comes after it: the next function
  of a chain of futures, or the next stretch of a coroutine, reached through an
  awaiter or through a file it loads. `held` is what a thread runs, posts,
  notifies of or awaits. A load is posted (`Load`, `Enqueue`, `Notify`) by the
  thread that then awaits its future: `AwaitReady` goes on at once when it is
  ready already, `Suspend` takes the future's lock and stores the callback or
  finds that `set_value` came first; the I/O thread may complete it (`Complete`)
  between any two of these. An exception of `enqueue_*` ends the program
  (`crashed`) when it leaves a callback or the `noexcept` `await_suspend`
  (`EnqueueThrows`); out of `loadAsync` it is kept by the promise of each `Task`
  it unwinds and swallowed by that of `FireAndForget`, and the rest of the
  coroutine is not run (`LoadThrows`, `lost`). A file in memory has a future
  that is ready, whose `co_await` goes on at once: no event of the model.
* **ComponentPool.** `sparse`, `dense` and `entities` are the vectors, each
  operation one action: nothing locks a pool, and the engine uses it from one
  thread at a time.
* **EntityTree.** An absent `Relationship` and a default one read alike, so
  every entity has one. A matrix or rectangle is the sequence it was composed
  from, so a child composed from an outdated parent shows. An update is a
  loop of steps over its explicit stack, `todo`. The lists of children and the entities
  above another are functions of a number of steps along the links, as far as
  there are entities (`Siblings`, `Above`). `Placed` and `Pushed` are the
  two orders the layout makes of the children. Entities are the scene's or the
  user interface's and are not mixed in one tree, as in the application.
* **Assets.** A load is a call of `loadMesh`, `createMaterial` or one of their
  coroutines; `at` is the place it has reached, and any other thread may act
  between two places. What it reads is abstracted to whether it can be read and
  parsed (`FailsToLoad`). An object of the renderer is named by the load that
  makes it and its part; `gpu` is the set of those that exist. `InTurn` is the
  application's: `setupAsync` awaits each material before it asks for the next,
  while meshes may be loaded at any time. A material entry's `by` is the load
  whose description it holds. Slot 0 is never given to a material, so the
  check for a full table never applies: `Pick` then finds no slot,
  `bitset::set` throws in `Insert`, and the entry at -1 stays.

* **Backends.** `Script` is what one iteration of `render_loop` calls, in order:
  `begin_frame`, `buildDrawList`, the recording of the Clear, Forward and UI
  passes with one packet at most in each of the last two, `submit`, `present`, `end_frame`.
  `call` is the place in it; each backend has one action for each call, named after
  the function (`vk_`, `dx_`, `mtl_`). A ring of uniform data has `RingCells` cells;
  stores are numbered, and a draw remembers which store was meant for each of its
  slots, so an overwritten, refused or forgotten value shows. A submission carries
  what it reads and uses; an object has a generation that changes when it is
  destroyed or reset. `torn` is what a failed recreation left missing. The loading
  thread creates the resources of a scene in one order (vertex, index, frame,
  object, objects, texture), each at any time and some with a copy of its own; `lock` is the
  mutex it shares with the render thread. The GPU finishes submissions in order.
  Values a fence is given by `executeNow` and by resizing are awaited at once by who asked for them,
  and are not numbered.
* **UserInterface.** A place is where the pointer can be. A scroll view covers the
  places `1..Window`, its rows move under it with `offset`, and one button with a higher z
  lies over part of it, as the selection button does when the window is narrow.
  `Layout` and `Interact` are the two systems; the four branches of the loop
  of `UIInteractionSystem::update` are the cases of `Top`, `Left` and `Clipped`.
* **Scene.** A command queue is a record of what is in it, a proxy the number of the frame
  it came with. `RenderFrame` is `begin_frame` and `render`. The user interface
  extracts one glyph less when something is selected, so a proxy that nobody updates or clears shows.
* **Sandbox.** Each access of `tick` to `inputState_` is a step, and so is each write of
  `app_on_event`. The two reads of `LeftDown` are taken as one: the button is set before the flag
  and reset by another event, so two reads see nothing that one cannot. `mousePos` is
  written as one word. `isReady_` is read twice by an iteration, as in the code. The set-up is
  one step, since nothing looks at the entities before it ends. What lies behind a place does not move.

## 3. What is checked

| Run | Question | Bounds |
|---|---|---|
| `engine_loop` | Are the buffers kept apart, is a frame or signal lost, does the hand-off implement `FrameMailbox`, does the render thread ever hold up the simulation, do the threads end? | 3 frames, one for each buffer, 2 mode changes, 1 suspension change, 1 spurious wake-up: the mode is left and entered again with frames on either side |
| `engine_shutdown` (violated) | Does stopping always end? | 1 frame |
| `renderer_mailbox` | Is a size or mode lost, and does each arrive? | lengths 0 to 2, 2 resizes, 2 modes: one request overlapping another |
| `task_scheduler` | Is each task run once, after what it continues, by a pool that drains? | 2 interchangeable workers, 1 I/O thread, nine tasks that the sandbox starts: the chain of `runFutureTest`, the two switches of `runAsyncTaskTest`, and two of the loads of `setupAsync` |
| `task_scheduler_live` | Is every accepted task run, a chain and a coroutine carried on to the end, does the shutdown end? | 1 worker, 1 I/O thread, the chain and the loads |
| `component_pool` | Do the vectors agree, and does the set implement a map? | 4 entities, 2 values |
| `entity_tree` | Is the hierarchy a forest, does an update leave everything up to date? | 4 entities, of which any number is in one tree; 2 transforms |
| `assets` | Does each handle belong to one load and serve what it loaded, does what it is bound to exist, is every slot accounted for? | 4 loads, 3 slots (2 for materials): the tables fill, loads fail, slots are reused |
| `backends` | Does a draw find all it needs bound, and read what was stored for it while the ring has room; what is destroyed in use; does every call return, do frames form a pipeline? | each of the three plugins; 3 frames, 2 requests (resize, mode, lost surface, with every failure), 2 frame contexts, rings of 4 cells: a frame with both packets makes 6 stores, so each ring overflows |
| `d3d12_lost_upload` (violated) | Has every texture handed out its contents? | Direct3D alone |
| `vulkan_present_mode` (violated) | Has the swapchain the mode asked for? | Vulkan alone |
| `sandbox` | Is the pointer on one element, is every click earned, is the picture of one tick? | 3 rows, 2 in view, 4 places, 3 frames, 3 events: press, move or scroll, release, at any point of three ticks |

Each property of a passing run has a mutant, an operator that precedes the
definition it would replace and changes it the way a slip in that code would;
TLC finds the property violated with it.

The violated runs are disagreements between the code and what the repository
says of it:

1. *Shutdown may hang* (`application.cpp:138`). The main thread clears
   `isRunning_` and notifies without the mutex of the wait. A render thread
   between its predicate and its sleep misses both. `ShutdownOutsideWindow`, in
   the passing run, shows that this is the only place where it can be missed.
2. *A texture without contents* (`d3d12_renderer.cpp:491`). Between
   `end_commands` and `end_frame` the frame is still begun, its command list closed: the
   copy of a texture created then is dropped. `TexturesReady`, in the
   passing run, shows that no other texture is ever handed out empty.
3. *The presentation mode is never taken* (`vulkan_swapchain.cpp:193`). The
   swapchain is recreated with the mode it had.

Other behaviour that a reader may want to know of is in the modules, and no
property forbids it:

* A state whose `begin_frame` failed is drawn without its commands
  (`application.cpp:266`): `hasNewState` is forgotten, while its camera is taken.
  `PictureWhole` shows that the proxies nevertheless stay those of one tick.
* A window size can be put together from two (`renderer.h:215`). `ResizeArrives`
  shows that the whole size follows, since the flag is raised after both stores.
* Shutdown destroys the font texture before anybody waits for the device
  (`application.cpp:95`, `fontsys.cpp:11`, `vulkan_renderer.cpp:359`), while the last
  frames may still sample it: `ShutdownFonts` takes no notice of the queue. After a
  failed resize Vulkan goes on rendering to what was destroyed and not made again, and
  Direct3D to its depth buffer (`Targets`). Both are exceptions in the statement of
  `InUseAlive`, which shows that nothing else is destroyed in use, in any state.
* A full ring starts over in Vulkan (`vulkan_commands.cpp:190`) and Metal
  (`metal_renderer.cpp:286`), over values that draws of the same frame, or in
  Metal of an earlier one, have yet to read. `ReadsIntact` allows for it: in these two it
  shows that each draw is bound to its own values and that a cell is not reused before
  `RingCells` stores later, not that the ring is long enough. Direct3D has no such
  exception.
* While stopping, a main-thread task can run on a worker (`task_scheduler.h:354`).
* `SwitchToWorker`'s `await_suspend` is `noexcept` and calls `enqueue_async`, which
  throws once the scheduler stops: `EnqueueThrows` sets `crashed`, after which
  nothing moves.
* A coroutine that asks for a file once the scheduler has stopped is silently
  abandoned (`filestorage.cpp:78`, `task.h:170`). `ContinuationKept` shows that this is
  the only thing lost without the program's end, and that it happens after `stop_` only.
* A press and a release that both fall between the read of `mouseClicked` and its
  clearing are a lost click (`sandbox_app.cpp:445`).
* `tick` resets `mouseScroll` before `updateCamera` reads it, so the wheel zooms
  only by what it turned in between (`sandbox_app.cpp:457`).
* Selecting an object whose material failed to load dereferences a null pointer
  (`sandbox_app.cpp:590`): the thread's place becomes `dead`.

**Fairness.** Weak fairness of each thread's own steps: the operating system
schedules every thread, and a thread that has begun a call finishes it. In the
engine loop this includes the render thread's acquisition of the mutex; the
simulation's hold of it is a single step. In the backends it is the render thread's next
call, the loading thread's next creation and the GPU, which finishes what it is
given; the driver's waits return when what they wait for has happened. Nothing is assumed of what others
decide: that the user closes the window, that the simulation extracts another
frame or the application starts a task, that a mode or size changes, that the
set-up ends or a user does anything, or that a wait wakes for no reason.

`CHECK_DEADLOCK FALSE` is stated where the system may stop: the engine's
threads end, and the bounds on frames, requests, events and tasks run out.

## 4. What is proved

| Theorem | For all |
|---|---|
| `TypeCorrect`, `NewestFrameKept`, `ReadsAreStable`, `RefinesMailbox` (`TripleBufferProofs`) | numbers of frames |
| `EngineUsesTripleBuffer`, `MutexIsHeldBriefly`, `FrameSignalIsKept`, `NoFrameIsStranded` (`EngineLoopProofs`) | frames, mode changes, suspensions, spurious wake-ups |
| `MailboxTypeCorrect`, `ResizeNotLost`, `ModeNotLost`, `ModeRefines` (`RendererMailboxProofs`) | lengths and numbers of requests |
| `PoolPacked`, `PoolImplementsMap` (`EntityProofs`) | entities and values |
| `TreeCorrect`, `LinksAreForest`, `UpdatesAreComplete`, `BegunArePlacedInOrder` (`EntityProofs`) | entities and local transforms |
| `AssetsTypeCorrect`, `HandlesAreDistinct`, `HandlesServe`, `BoundObjectsLive`, `SlotsAreAccounted` (`AssetsProofs`) | loads and slots |
| `SchedulerCorrect`, `NoneStranded`, `PoolsAreDrained`, `NoneRunsTwice`, `NoContinuationLost`, `SchedulerRefinesPool` (`TaskSchedulerProofs`) | threads of each pool, tasks and chains of continuations |
| `FramesCorrect`, `UsesStayAlive`, `TexturesArrive`, `ReadsStayIntact`, `BackendsRefinePipeline` (`BackendsProofs`) | plugins, frames, frame contexts, requests and cells of a ring |
| `SandboxUsesTripleBuffer`, `PointerIsOnOne`, `ClicksAreEarned`, `PictureIsWhole` (`SandboxProofs`) | rows, windows, places, objects, frames and events |

Every safety invariant that a passing run checks is proved. The only assumptions are the named ones on the constants, in the
modules that declare them. `SchedulerAssumption` asks for a thread of each sort, which
`initialize` starts, and says of tasks what the code that posts them does: a task continues
one other at most, a chain is one coroutine or one chain of futures, and only coroutines
load files, after which they resume on a worker.
`PluginsAssumption` names the three plugins; the others ask for numbers, and for at
least one frame context and one cell in a ring.

* **Triple buffer.** `IInv` adds to the type that the three pointers are
  distinct and that no buffer holds a frame beyond the last one started.
  Distinctness is what makes `StableRead` true: the simulation writes through
  `producer`, the render thread reads through `consumer`. `NewestKept` is
  inductive together with them: a `ClaimFlag` that clears the flag goes on to the
  swap, and an exchange by the simulation is followed by the flag.
* **Engine loop.** `EngineStep` shows that each step is one of the triple
  buffer's or leaves it alone, so its theorems hold of the engine.
  `NoFrameStranded` alone is not inductive: `FrameExpected` extends it from
  the place where the thread sleeps to all of the loop, and `Linked` ties the
  places inside the buffer's calls to those of the loops.
* **Renderer mailbox.** `SizeInv` states, for each length on its own, that it
  has arrived, is flagged, is about to be stored, or is yet to be
  loaded; the flag, raised last and cleared first, links both.
* **Component pool.** `Packed` says that `sparse` and `entities` are inverse
  to each other. The refinement maps an entity to what `dense` holds at its
  index.

* **Entity tree.** Children and ancestors are recursive functions over the links.
  The induction theorems of the library take an operator that the provers cannot
  instantiate; `Least` (a set of numbers that is not empty has a least one) and
  `Induct` replace them by sets, and `Iterates` gives such a function its equations.
  Walks along links are then left behind: `TreeInv` says that some `kids` and `up` exist, the list of
  each entity's children and the set of those above it. `KidsInv` ties
  `kids` to the four links, `UpInv` says that nobody is above one that is above it.
  `ChildrenAre` and `AncestorsAre` show that the
  walks of the model find exactly these, hence `Forest`. `OrderInv` says that a list begun
  through the builder has its newest panel in front, and `KindInv` that scene
  and user interface do not mix. `UpdateInv` is the loop invariant of both
  updates: what is not yet up to date is itself still on the stack or below an entity that is,
  and an entity that is visited makes way for its children.

* **Assets.** That handles are distinct is not inductive: it rests on what the
  places of a load say of its slot. For meshes, the slots in use are exactly
  those of the loads that have one, from the moment it is taken. For materials
  the entry under a handle names the load it belongs to (`by`), and two loads
  cannot both be named by one entry; a slot that was picked is still free when
  it is inserted because no other material is being created. Every bound object
  is the entry's own load's, so destroying one material's objects leaves the
  others' alone.

* **Task scheduler.** The places of threads and those of tasks are told apart:
  a task is in a thread's hand, in a queue, in the main thread's batch, or run
  (`ready`), and every step of the code moves tasks in one of a few ways (`Moves`: `Submitted`,
  `Taken`, ...). `PlacedInv` says that a task is in one place at most, which is `RunOnce`
  without counting, and that a load that was refused is in none. `ExpectInv` says that a load is
  awaited by one thread, with nothing after it posted until that thread has seen to it; `ChainInv`,
  what `then`, `co_await` and `set_value` leave of a chain or of a coroutine whichever comes
  first: a callback that is attached, a callback that was run, a load that was refused, and
  no continuation posted before what it continues. `LeftInv` is what a thread that has left knows of its
  queue, hence `PoolDrained`. `NoTaskStranded` is inductive with the control:
  a `notify` that is due is counted before the sleeper that it wakes. The
  refinement maps a task to its stage in `TaskPool` by its place.
* **Backends.** The script of an iteration is first unfolded into facts of its
  shape: in which `stage` of a frame each call lies, and that the nine calls from a
  pipeline to its draw follow one another. `NextMoves` then turns every action of the three plugins into
  one of some twenty moves of the frame under way, the queue, the objects and
  the rings; the rest of the proof never looks at an action again.
  `FenceInv` is Vulkan's discipline (a signalled fence means that no frame is
  under way). `ValuesInv` is Direct3D's: values rise along the queue, and a frame
  context used *n* presents ago has a value no older than *n*, so waiting for the value of
  the context that is reused waits for enough frames. `CountInv` counts frames.
  From these, `UsedInv` keeps alive what a submission uses, with the two exceptions of
  `InUseAlive`, and has the list empty in shutdown, when no iteration is under way; and
  the pipeline's limit is never exceeded; that is the safety part of
  `ImplementsPipeline`.
  `ReadsIntact` needs in addition what the rings hold: in Vulkan and Metal
  `RingInv` gives the cell of each store, an overwritten cell holding the store one lap
  later; in Direct3D nothing below `head` is
  overwritten before the context's fence value is reached (`ReadsInv`). `SlotsInv` ties each slot's
  address to the store meant for it, `BlockInv` what is bound to the place in
  the nine calls of a draw, `MadeInv` what is drawn to what the loading thread has made.
* **Sandbox.** `SandboxStep` shows that each step is one of the triple buffer's
  or leaves it alone. `PointerInv` says of every place inside a tick that one element at
  most is hovered and that the colours are those of the flags; whether the pointer is
  still over that element is known only once the interaction has run. `EarnedInv`
  counts: a click uses up a release, and what a tick has read of the button says how
  many releases are left for it, whatever events come between its accesses. For `PictureWhole`,
  `QueuesInv` says what every frame was extracted with and `DrawnTogether` of which
  frame the proxies are; that the next frame drawn is a newer one, complete, is `IInv` of the triple buffer.

Only model-checked:

* What needs fairness: `FrameDelivered`, `ShutdownOutsideWindow`, `ResizeArrives`,
  `ModeHandedOver`, `AcceptedRuns`, `ContinuationRuns`, `ShutdownEnds`, `CallsReturn`,
  and the fairness in `ImplementsPipeline`.

## 5. What is not modelled

* The single-threaded `run_one_frame`, and failures of `init`.
* What a data race may do to a plain variable (`config_.presentMode`, `isReady_`,
  `inputState_`, `EventBus::listeners`, the maps of the Vulkan backend): they are read and
  written as single words here, in a total order, or not at all. The hazards list them.
* `Future::get` and `wait` on a future that is not ready: no code calls them so.
* Rendered content, shaders, geometry, the mathematics of interpolation and
  layout, parsers of files, native windows: data the properties do not tell
  apart, or code outside the repository.
* Of the backends: `destroy_*`, which only shutdown and `destroyMaterial` reach, samplers,
  scissor rectangles, barriers and layouts, descriptor heaps,
  Direct3D's `set_present_mode` (a field that `present` reads), the
  recording of one Direct3D list by two threads at the same instant, the
  null renderer; the keys of `PipelineCache`: a pipeline is created or found, at will.
* Of the user interface: tweens, alignment, anchors, nested scroll views.
* Of the sandbox: keys, the angles and the zoom of the camera, the right button, the
  server panel and its process. `AppStateMachine`: the sandbox constructs an empty one and
  nothing in the repository pushes a state.
* The watcher thread and the event bus: the repository subscribes once, to a memory file that is never rewritten.
* The values of material parameters (`setFloatParam`, `setVectorParam`), which
  no code sets, and assets used after the renderer is gone.
* `destroyEntity`, which nothing in the repository calls, would leave links
  behind; the tree is modelled as it is used. The commands `Destroy` and `DestroyUI`
  are likewise never sent, so a scene only ever adds proxies.

## 6. Plan

1. Proofs: lemmas that `TaskSchedulerProofs` and `SandboxProofs` state for themselves and could
   share, and the safety of the modules below as they are written.
2. `FileWatch`: the watcher thread, `EventBus` and subscriptions.
3. `UITween`, the phases of a tween, and the run loops of the platforms, as inputs of `Sandbox`.
