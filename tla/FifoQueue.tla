----------------------------- MODULE FifoQueue -----------------------------
(***************************************************************************)
(* What the merged-frame FIFO promises its two threads (spec section 4.3): *)
(* a bounded first-in first-out queue of frames in capture order.  A       *)
(* captured frame that finds the queue full is dropped, never blocked; a   *)
(* frame that finds room is appended (possibly some steps later, once its  *)
(* payload has been written); the consumer removes the oldest frame.       *)
(***************************************************************************)
EXTENDS Naturals, Sequences

CONSTANTS
  Capacity,     \* frames the queue can hold
  MaxFrames     \* bound on the frames captured

VARIABLES
  queue,        \* frames waiting, oldest first
  pending,      \* frame accepted but not yet appended, 0 if none
  next          \* number of the last frame captured

vars == <<queue, pending, next>>

Init == queue = <<>> /\ pending = 0 /\ next = 0

Capture ==
  /\ pending = 0
  /\ next < MaxFrames
  /\ next' = next + 1
  /\ pending' = IF Len(queue) < Capacity THEN next + 1 ELSE 0
  /\ UNCHANGED queue

Push ==
  /\ pending # 0
  /\ queue' = Append(queue, pending)
  /\ pending' = 0
  /\ UNCHANGED next

Pop ==
  /\ queue # <<>>
  /\ queue' = Tail(queue)
  /\ UNCHANGED <<pending, next>>

Next == Capture \/ Push \/ Pop

(* A waiting frame is eventually taken by the consumer. *)
Spec == Init /\ [][Next]_vars /\ WF_vars(Pop)

=============================================================================
