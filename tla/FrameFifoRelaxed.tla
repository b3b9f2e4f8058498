-------------------------- MODULE FrameFifoRelaxed --------------------------
(***************************************************************************)
(* FrameFifo under the memory order the code actually gets.  runner        *)
(* advances head with a plain store right after its memcpy into the slot, *)
(* and fill_buf_func advances tail with a plain store right after its      *)
(* memcpy out of the slot; there is no fence, atomic or lock between them. *)
(* On a weakly ordered multi-core CPU (the i.MX target) or after compiler *)
(* reordering, the other thread may observe the index store before the   *)
(* copy it follows.  That data race has no single outcome; the model      *)
(* lets each publication happen before or after its copy.                 *)
(***************************************************************************)
EXTENDS FrameFifo

(* runner: the store of QUE_FIFO_HEAD is seen before the memcpy. *)
ProducerPublishEarly ==
  /\ ppc = "write"
  /\ head' = NextIdx(head)
  /\ ppc' = "late"
  /\ UNCHANGED <<tail, slot, captured, pidx, cpc, cidx, cbuf, got, ubuf,
                 unext, sent, prevSent>>

ProducerLateWrite ==
  /\ ppc = "late"
  /\ slot' = [slot EXCEPT ![pidx] = captured]
  /\ ppc' = "idle"
  /\ UNCHANGED <<head, tail, captured, pidx, cpc, cidx, cbuf, got, ubuf,
                 unext, sent, prevSent>>

(* fill_buf_func: the store of QUE_FIFO_TAIL is seen before the memcpy    *)
(* has read the slot.                                                      *)
ConsumerAdvanceEarly ==
  /\ cpc = "copy"
  /\ tail' = NextIdx(tail)
  /\ cpc' = "late"
  /\ UNCHANGED <<head, slot, captured, ppc, pidx, cidx, cbuf, got, ubuf,
                 unext, sent, prevSent>>

ConsumerLateCopy ==
  /\ cpc = "late"
  /\ ubuf' = [ubuf EXCEPT ![cbuf] = slot[cidx]]
  /\ got' = slot[cidx]
  /\ Send(slot[cidx])
  /\ cpc' = "idle"
  /\ UNCHANGED <<head, tail, slot, captured, ppc, pidx, cidx, cbuf, unext>>

RelaxedNext ==
  \/ Next
  \/ ProducerPublishEarly \/ ProducerLateWrite
  \/ ConsumerAdvanceEarly \/ ConsumerLateCopy

RelaxedSpec == Init /\ [][RelaxedNext]_vars
=============================================================================
