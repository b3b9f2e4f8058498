----------------------------- MODULE FrameFifo -----------------------------
(***************************************************************************)
(* The merged-frame FIFO of RGBDClass (struct fifo_t and its macros in     *)
(* RGBDClass.hpp) between its single producer and its single consumer:     *)
(*                                                                         *)
(*  - the producer is the merge step TRGBDClass::runner: it dequeues a     *)
(*    depth frame, and if FIFO_FULL is false copies the merged frame into  *)
(*    the head slot and advances head (QUE_FIFO_HEAD);                     *)
(*  - the consumer is fill_buf_func, called by uvc_video_process on the   *)
(*    UVC thread for every output buffer it dequeues: if FIFO_EMPTY is     *)
(*    false it copies the tail slot into the buffer and advances tail,    *)
(*    otherwise it leaves the buffer as it was; the buffer is then queued *)
(*    back to the host.                                                    *)
(*                                                                         *)
(* Frames are numbered 1, 2, ... in capture order; 0 stands for contents   *)
(* that no frame ever wrote (the initial slot memory, the dummy pattern    *)
(* of the UVC buffers).  The copy into a slot and the store that publishes *)
(* it are separate steps, taken in program order; FrameFifoRelaxed adds   *)
(* the reorderings the unfenced plain stores of the code allow.           *)
(***************************************************************************)
EXTENDS Naturals, Sequences, Bitwise

CONSTANTS
  NumOfBuffer,  \* thr_data.num_of_buffer, the size given to INIT_FIFO
  NBufs,        \* device->nbufs, UVC output buffers cycled by the host
  MaxFrames     \* bound on the depth frames the producer dequeues

ASSUME NumOfBuffer \in 1..255
ASSUME NBufs \in Nat \ {0}
ASSUME MaxFrames \in Nat \ {0}

VARIABLES
  head, tail,   \* fifo_t.head, fifo_t.tail (uint8_t)
  slot,         \* fifo_mem[i]: the frame whose payload slot i holds
  captured,     \* depth frames dequeued by the producer so far
  ppc, pidx,    \* producer program point, slot it is writing
  cpc, cidx,    \* consumer program point, slot it is reading
  cbuf,         \* UVC buffer the consumer is filling
  got,          \* frame the consumer last copied out of the FIFO
  ubuf,         \* frame held by each UVC output buffer
  unext,        \* UVC buffer the next VIDIOC_DQBUF returns
  sent, prevSent \* the last two frames queued to the host

vars == <<head, tail, slot, captured, ppc, pidx, cpc, cidx, cbuf, got,
          ubuf, unext, sent, prevSent>>

Frame == 0..MaxFrames
Mask == NumOfBuffer - 1                         \* fifo_t.mask
SlotIdx == {i & Mask : i \in 0..255}
Buf == 0..NBufs-1

(* Mutant of NextIdx: the increment without the t->x &= mask. *)
NextIdxNoMask(i) == (i + 1) % 256

(* QUE_FIFO_HEAD / QUE_FIFO_TAIL: t->x++ on a uint8_t, then t->x &= mask. *)
NextIdx(i) == ((i + 1) % 256) & Mask

(* Mutant of FIFO_FULL: the test looks one slot too far ahead. *)
FifoFullEarly == ((head + 2) & Mask) = tail

(* FIFO_FULL: head + 1 is computed in int, then masked. *)
FifoFull == ((head + 1) & Mask) = tail

(* FIFO_EMPTY *)
FifoEmpty == head = tail

(* DATA_IN_FIFO *)
DataInFifo == IF head >= tail THEN head - tail ELSE head + NumOfBuffer - tail

(* The frames waiting in the FIFO, oldest first. *)
Queued == [i \in 1..DataInFifo |-> slot[(tail + i - 1) & Mask]]

Init ==
  /\ head = 0 /\ tail = 0                        \* INIT_FIFO
  /\ slot = [i \in SlotIdx |-> 0]
  /\ captured = 0
  /\ ppc = "idle" /\ pidx = 0
  /\ cpc = "idle" /\ cidx = 0 /\ cbuf = 0
  /\ got = 0
  /\ ubuf = [b \in Buf |-> 0]
  /\ unext = 0
  /\ sent = 0 /\ prevSent = 0

---------------------------------------------------------------------------
(* Producer: TRGBDClass::runner.                                           *)

(* dequeue_and_capture of the next depth frame, then the FIFO_FULL test;   *)
(* a frame that finds the FIFO full is dropped (queue_capture only).       *)
ProducerCapture ==
  /\ ppc = "idle"
  /\ captured < MaxFrames
  /\ captured' = captured + 1
  /\ IF FifoFull
       THEN UNCHANGED <<ppc, pidx>>
       ELSE ppc' = "write" /\ pidx' = head          \* DQUE_FIFO_HEAD
  /\ UNCHANGED <<head, tail, slot, cpc, cidx, cbuf, got, ubuf, unext,
                 sent, prevSent>>

(* The stamps and the two memcpy into the head slot. *)
ProducerWrite ==
  /\ ppc = "write"
  /\ slot' = [slot EXCEPT ![pidx] = captured]
  /\ ppc' = "publish"
  /\ UNCHANGED <<head, tail, captured, pidx, cpc, cidx, cbuf, got, ubuf,
                 unext, sent, prevSent>>

(* QUE_FIFO_HEAD, then queue_capture of the depth buffer. *)
ProducerPublish ==
  /\ ppc = "publish"
  /\ head' = NextIdx(head)
  /\ ppc' = "idle"
  /\ UNCHANGED <<tail, slot, captured, pidx, cpc, cidx, cbuf, got, ubuf,
                 unext, sent, prevSent>>

---------------------------------------------------------------------------
(* Consumer: uvc_video_process with fill_buf_func as fill_buffer_handler. *)

(* VIDIOC_QBUF of buffer b: the host receives what it holds. *)
Send(f) == sent' = f /\ prevSent' = sent

(* VIDIOC_DQBUF returns the oldest buffer, then fill_buf_func tests        *)
(* FIFO_EMPTY; on an empty FIFO the buffer is re-queued unchanged.        *)
ConsumerDequeue ==
  /\ cpc = "idle"
  /\ unext' = (unext + 1) % NBufs
  /\ cbuf' = unext
  /\ IF FifoEmpty
       THEN /\ Send(ubuf[unext])
            /\ UNCHANGED <<cpc, cidx>>
       ELSE /\ cpc' = "copy" /\ cidx' = tail        \* DQUE_FIFO_TAIL
            /\ UNCHANGED <<sent, prevSent>>
  /\ UNCHANGED <<head, tail, slot, captured, ppc, pidx, got, ubuf>>

(* memcpy of the tail slot's RGB payload into the UVC buffer. *)
ConsumerCopy ==
  /\ cpc = "copy"
  /\ ubuf' = [ubuf EXCEPT ![cbuf] = slot[cidx]]
  /\ got' = slot[cidx]
  /\ cpc' = "advance"
  /\ UNCHANGED <<head, tail, slot, captured, ppc, pidx, cidx, cbuf, unext,
                 sent, prevSent>>

(* Mutant of ConsumerAdvance: QUE_FIFO_TAIL is left out. *)
ConsumerAdvanceNoTail ==
  /\ cpc = "advance"
  /\ tail' = tail
  /\ Send(ubuf[cbuf])
  /\ cpc' = "idle"
  /\ UNCHANGED <<head, slot, captured, ppc, pidx, cidx, cbuf, got, ubuf,
                 unext>>

(* QUE_FIFO_TAIL, then VIDIOC_QBUF of the filled buffer. *)
ConsumerAdvance ==
  /\ cpc = "advance"
  /\ tail' = NextIdx(tail)
  /\ Send(ubuf[cbuf])
  /\ cpc' = "idle"
  /\ UNCHANGED <<head, slot, captured, ppc, pidx, cidx, cbuf, got, ubuf,
                 unext>>

---------------------------------------------------------------------------
ProducerNext ==
  \/ ProducerCapture \/ ProducerWrite \/ ProducerPublish

ConsumerNext ==
  \/ ConsumerDequeue \/ ConsumerCopy \/ ConsumerAdvance

Next == ProducerNext \/ ConsumerNext

(* Both threads loop for as long as the session runs: the depth loop of   *)
(* main() calls runner back to back, and usb_device_func calls            *)
(* process_uvc_gadget_device in a loop that serves every buffer the host  *)
(* has finished with.                                                      *)
Spec == Init /\ [][Next]_vars /\ WF_vars(ProducerNext) /\ WF_vars(ConsumerNext)

---------------------------------------------------------------------------
TypeOK ==
  /\ head \in SlotIdx /\ tail \in SlotIdx
  /\ slot \in [SlotIdx -> Frame]
  /\ captured \in Frame
  /\ ppc \in {"idle", "write", "publish", "late"} /\ pidx \in SlotIdx
  /\ cpc \in {"idle", "copy", "advance", "late"} /\ cidx \in SlotIdx
  /\ cbuf \in Buf /\ unext \in Buf
  /\ got \in Frame /\ ubuf \in [Buf -> Frame]
  /\ sent \in Frame /\ prevSent \in Frame

---------------------------------------------------------------------------
(* The frame the consumer copies out of the FIFO in fill_buf_func is      *)
(* always newer than the one it copied before: it never reads a slot      *)
(* whose payload the producer has not yet written (a never-written slot,  *)
(* or one still holding a frame it already delivered), and the producer   *)
(* never overwrites a slot the consumer has not yet taken.                *)
FreshCopy ==
  [][(\/ cpc = "copy" /\ cpc' = "advance"
      \/ cpc = "late" /\ cpc' = "idle") => got' > got]_vars

(* The FIFO implements the bounded drop-on-full queue of FifoQueue, with  *)
(* the capacity the FIFO_FULL test gives it, one less than the size:      *)
(* the frames between tail and head are the accepted frames in capture    *)
(* order, a frame is dropped by runner exactly when the queue is full,    *)
(* and every queued frame is eventually taken by fill_buf_func.           *)
Abstract == INSTANCE FifoQueue WITH
  Capacity <- NumOfBuffer - 1,
  queue    <- Queued,
  pending  <- IF ppc \in {"write", "publish"} THEN captured ELSE 0,
  next     <- captured

FifoRefinement == Abstract!Spec

(* Spec section 4.2: when the FIFO is empty the previous content is       *)
(* re-sent, so the host never receives a frame older than (or a dummy     *)
(* pattern after) one it has already received.                            *)
WireInOrder == prevSent <= sent

=============================================================================
