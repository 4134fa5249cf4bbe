---------------------------- MODULE TripleBuffer ----------------------------
(***************************************************************************)
(* engine/common/triple_buffer.h: the lock-free hand-off of extracted      *)
(* frames from the simulation thread to the render thread, one action per  *)
(* atomic access. push_producer and update_consumer are two accesses each, *)
(* so the two calls interleave between them.                               *)
(*                                                                         *)
(* A frame is its number; the contents of a buffer is the number of the    *)
(* frame last extracted into it (0: as constructed). "buffers" and the     *)
(* pointers are the code's; "published" and "seen" are history variables.  *)
(***************************************************************************)
EXTENDS Naturals

CONSTANT
  MaxFrames    \* bound: frames the simulation extracts

ASSUME MaxFramesAssumption == MaxFrames \in Nat

Buffers == {0, 1, 2}   \* the three elements of buffers_, by index

VARIABLES
  buffers,     \* buffers_: the frame each buffer holds
  producer,    \* producer_, the buffer the simulation fills
  consumer,    \* consumer_, the buffer the render thread reads
  shared,      \* shared_, the buffer in the slot
  newData,     \* new_data_
  sim,         \* where the simulation thread is in its use of the buffer
  render,      \* where the render thread is
  published,   \* history: last frame exchanged into the slot
  seen         \* history: newest frame consumer_ has ever pointed to

pointers == <<producer, consumer, shared>>
tbVars   == <<buffers, pointers, newData, sim, render, published, seen>>

\* Mutant: the constructor sets shared_ to the producer's buffer.
InitAliased ==
  /\ buffers = [b \in Buffers |-> 0]
  /\ producer = 0 /\ consumer = 1 /\ shared = 0
  /\ newData = FALSE
  /\ sim = "tick" /\ render = "loop"
  /\ published = 0 /\ seen = 0

\* Mutant: the constructor numbers the buffers from one.
InitPastEnd ==
  /\ buffers = [b \in Buffers |-> 0]
  /\ producer = 1 /\ consumer = 2 /\ shared = 3
  /\ newData = FALSE
  /\ sim = "tick" /\ render = "loop"
  /\ published = 0 /\ seen = 0

Init ==
  /\ buffers = [b \in Buffers |-> 0]
  /\ producer = 0 /\ consumer = 1 /\ shared = 2
  /\ newData = FALSE
  /\ sim = "tick" /\ render = "loop"
  /\ published = 0 /\ seen = 0

-----------------------------------------------------------------------------
(* Simulation thread: get_producer and extract, then push_producer. *)

\* The extraction is under way: the buffer's old contents are being replaced.
BeginExtract ==
  /\ sim = "tick" /\ published < MaxFrames
  /\ sim' = "extract"
  /\ buffers' = [buffers EXCEPT ![producer] = published + 1]
  /\ UNCHANGED <<pointers, newData, render, published, seen>>

\* Mutant: the slot is overwritten and the producer keeps its buffer.
PushWithoutExchange ==
  /\ sim = "extract"
  /\ sim' = "flag"
  /\ shared' = producer
  /\ published' = published + 1
  /\ UNCHANGED <<buffers, producer, consumer, newData, render, seen>>

\* shared_.exchange(producer_), the first access of push_producer
PushExchange ==
  /\ sim = "extract"
  /\ sim' = "flag"
  /\ producer' = shared /\ shared' = producer
  /\ published' = published + 1
  /\ UNCHANGED <<buffers, consumer, newData, render, seen>>

\* new_data_.store(true), the second
PushFlag ==
  /\ sim = "flag"
  /\ sim' = "tick"
  /\ newData' = TRUE
  /\ UNCHANGED <<buffers, pointers, render, published, seen>>

-----------------------------------------------------------------------------
(* Render thread: update_consumer, then the frame read from get_consumer. *)

\* new_data_.exchange(false): TRUE goes on to the swap, FALSE returns false
ClaimFlag ==
  /\ render = "loop"
  /\ render' = IF newData THEN "swap" ELSE "draw"
  /\ newData' = FALSE
  /\ UNCHANGED <<buffers, pointers, sim, published, seen>>

\* shared_.exchange(consumer_)
SwapConsumer ==
  /\ render = "swap"
  /\ render' = "draw"
  /\ consumer' = shared /\ shared' = consumer
  /\ seen' = IF buffers[shared] > seen THEN buffers[shared] ELSE seen
  /\ UNCHANGED <<buffers, producer, newData, sim, published>>

EndDraw ==
  /\ render = "draw"
  /\ render' = "loop"
  /\ UNCHANGED <<buffers, pointers, newData, sim, published, seen>>

-----------------------------------------------------------------------------
SimNext    == BeginExtract \/ PushExchange \/ PushFlag
RenderNext == ClaimFlag \/ SwapConsumer \/ EndDraw
Next       == SimNext \/ RenderNext

Spec == Init /\ [][Next]_tbVars

-----------------------------------------------------------------------------
(* Correctness *)

\* Every pointer designates one of the buffers, and a buffer's frame is one
\* the simulation has started.
TypeOK ==
  /\ buffers \in [Buffers -> Nat]
  /\ producer \in Buffers /\ consumer \in Buffers /\ shared \in Buffers
  /\ newData \in BOOLEAN
  /\ sim \in {"tick", "extract", "flag"}
  /\ render \in {"loop", "swap", "draw"}
  /\ published \in 0..MaxFrames
  /\ seen \in 0..published

\* "Render thread reads from a stable, isolated copy": no step of the
\* simulation changes the frame under a render thread that is drawing it,
\* neither its contents nor which buffer get_consumer returns.
StableRead ==
  [][render = "draw" => /\ consumer' = consumer
                        /\ buffers'[consumer] = buffers[consumer]]_tbVars

\* The newest frame cannot be lost: as long as the render thread has never
\* held it, it is in the slot and either the flag announces it, or
\* push_producer is about to raise the flag, or update_consumer is about to
\* swap it in. It is the order of the two accesses of push_producer, against
\* the order of the two of update_consumer, that gives this.
NewestKept ==
  seen < published =>
    /\ buffers[shared] = published
    /\ newData \/ sim = "flag" \/ render = "swap"

\* The hand-off implements the mailbox: whenever the render thread gets beyond
\* what it has seen it gets the newest published frame. (A flag raised late may
\* hand it an older frame again in between.)
Mailbox == INSTANCE FrameMailbox
ImplementsMailbox == Mailbox!Spec
=============================================================================
