---------------------------- MODULE UvcStreaming ----------------------------
(***************************************************************************)
(* Output-buffer life cycle of the UVC gadget engine (uvc_api.c) as the    *)
(* gadget runs it: USERPTR I/O, bulk endpoint, run_standalone, as set by    *)
(* init_uvc_gadget_device.  All of it runs on the USB thread, one event    *)
(* handler at a time; the host chooses the events.                         *)
(*                                                                         *)
(* A "set" is one allocation of dev->dummy_buf (the array and the nbufs    *)
(* payload buffers it points to), numbered 1, 2, ... in allocation order;  *)
(* 0 is NULL.  The driver side (the vb2 queue of the gadget node) is       *)
(* modelled by what the code relies on: whether it is streaming, and       *)
(* whether it holds queued user pointers into some set.  Every ioctl the   *)
(* code checks may fail; allocation may fail.                              *)
(***************************************************************************)
EXTENDS Naturals, FiniteSets

CONSTANT MaxAllocs      \* bound on the buffer sets allocated in a behaviour

ASSUME MaxAllocs \in Nat \ {0}

VARIABLES
  isStreaming,  \* dev->is_streaming
  shutdown,     \* dev->uvc_shutdown_requested
  dummy,        \* dev->dummy_buf: the set it points to, 0 for NULL
  mem,          \* dev->mem: the set uvc_video_fill_buffer writes into
  nalloc,       \* sets allocated so far
  live,         \* sets allocated and not freed
  frees,        \* frees[s]: times uvc_uninit_device freed set s (0: NULL)
  drvOn,        \* the driver's queue is streaming (VIDIOC_STREAMON done)
  drvQueued,    \* how many user pointers the driver holds queued ...
  drvSet,       \* ... into this set
  closed        \* close_uvc_gadget_device has run

vars == <<isStreaming, shutdown, dummy, mem, nalloc, live, frees, drvOn,
          drvQueued, drvSet, closed>>

SetId == 0..MaxAllocs

(* device->nbufs = 2 in init_uvc_gadget_device: the buffers of a set. *)
NBufs == 2

(* Outcomes of uvc_video_reqbufs_userptr(dev, nbufs) with nbufs > 0:       *)
(* VIDIOC_REQBUFS fails; calloc of the dummy_buf array fails; malloc of a  *)
(* payload buffer fails; or all succeed.                                   *)
ReqOutcome == {"ok", "ioctl_err", "calloc_err", "malloc_err"}

(* Mutant of ReqBufs: the new set takes the number of the last one. *)
ReqBufsNoCount(r) ==
  LET new == nalloc + 1 IN
  \/ /\ r \in {"ioctl_err", "calloc_err", "malloc_err"}
     /\ UNCHANGED <<dummy, mem, nalloc, live>>
  \/ /\ r = "ok"
     /\ dummy' = new /\ mem' = new /\ UNCHANGED nalloc
     /\ live' = live \cup {new}

(* uvc_video_reqbufs_userptr(dev, nbufs), nbufs > 0, with outcome r.  The *)
(* new array is stored in dev->dummy_buf before its payloads are       *)
(* allocated, and dev->mem is set only when all of them were; the set     *)
(* dev->dummy_buf pointed to before is never freed.                        *)
ReqBufs(r) ==
  LET new == nalloc + 1 IN
  \/ /\ r = "ioctl_err"
     /\ UNCHANGED <<dummy, mem, nalloc, live>>
  \/ /\ r = "calloc_err"
     /\ dummy' = 0
     /\ UNCHANGED <<mem, nalloc, live>>
  \/ /\ r = "malloc_err"
     /\ dummy' = new /\ nalloc' = new /\ live' = live \cup {new}
     /\ UNCHANGED mem
  \/ /\ r = "ok"
     /\ dummy' = new /\ mem' = new /\ nalloc' = new
     /\ live' = live \cup {new}

(* uvc_uninit_device for USERPTR in standalone mode: frees the payloads    *)
(* and the array dev->dummy_buf points to.                                 *)
UninitDevice ==
  /\ frees' = [frees EXCEPT ![dummy] = @ + 1]
  /\ live' = live \ {dummy}

Init ==
  /\ isStreaming = FALSE
  /\ shutdown = FALSE
  /\ drvOn = FALSE /\ drvQueued = 0
  /\ frees = [s \in SetId |-> 0]
  /\ closed = FALSE
  \* init_uvc_gadget_device ends with uvc_video_reqbufs(device, 2) and
  \* ignores its result.
  /\ \E r \in ReqOutcome :
       \/ r = "ok" /\ dummy = 1 /\ mem = 1 /\ nalloc = 1 /\ live = {1}
       \/ r = "ioctl_err" /\ dummy = 0 /\ mem = 0 /\ nalloc = 0 /\ live = {}
       \/ r = "calloc_err" /\ dummy = 0 /\ mem = 0 /\ nalloc = 0 /\ live = {}
       \/ r = "malloc_err" /\ dummy = 1 /\ mem = 0 /\ nalloc = 1 /\ live = {1}
  /\ drvSet = 0

---------------------------------------------------------------------------
(* uvc_video_qbuf with USERPTR I/O (uvc_video_qbuf_userptr, standalone):  *)
(* QBUF of each buffer of the set, returning at the first failure; the     *)
(* buffers queued before it stay queued.  ok: every QBUF succeeded.        *)
VideoQbuf(ok, set) ==
  \/ ok /\ drvQueued' = NBufs /\ drvSet' = set
  \/ /\ ~ok
     /\ \E q \in 0..(NBufs - 1) : drvQueued' = q /\ drvSet' = IF q > 0 THEN set ELSE 0

(* uvc_video_stream(dev, 1): VIDIOC_STREAMON; on success it clears         *)
(* uvc_shutdown_requested.                                                 *)
VideoStreamOn ==
  \/ drvOn' = TRUE /\ shutdown' = FALSE
  \/ drvOn' = FALSE /\ UNCHANGED shutdown

(* Mutant of HandleStreamonEvent: uvc_video_qbuf runs before reqbufs and   *)
(* queues the buffers dev->dummy_buf pointed to before.                    *)
HandleStreamonEventQbufFirst ==
  \E r \in ReqOutcome :
    /\ ReqBufs(r)
    /\ \/ /\ r # "ok"
          /\ drvOn' = FALSE /\ drvQueued' = 0 /\ drvSet' = 0
          /\ UNCHANGED <<isStreaming, shutdown>>
       \/ /\ r = "ok" /\ VideoQbuf(FALSE, dummy)
          /\ drvOn' = FALSE
          /\ UNCHANGED <<isStreaming, shutdown>>
       \/ /\ r = "ok" /\ VideoQbuf(TRUE, dummy)
          /\ VideoStreamOn
          /\ isStreaming' = TRUE

(* uvc_handle_streamon_event, after the VIDIOC_STREAMOFF that precedes it *)
(* on a COMMIT: reqbufs, then uvc_video_qbuf, then (standalone)           *)
(* uvc_video_stream(dev, 1), whose result is ignored before is_streaming   *)
(* is set.  A failure of reqbufs or qbuf returns with the queue stopped.   *)
HandleStreamonEvent ==
  \E r \in ReqOutcome :
    /\ ReqBufs(r)
    /\ \/ /\ r # "ok"
          /\ drvOn' = FALSE /\ drvQueued' = 0 /\ drvSet' = 0
          /\ UNCHANGED <<isStreaming, shutdown>>
       \/ /\ r = "ok" /\ VideoQbuf(FALSE, nalloc + 1)
          /\ drvOn' = FALSE
          /\ UNCHANGED <<isStreaming, shutdown>>
       \/ /\ r = "ok" /\ VideoQbuf(TRUE, nalloc + 1)
          /\ VideoStreamOn
          /\ isStreaming' = TRUE

(* UVC_EVENT_DATA for the COMMIT control in bulk mode                      *)
(* (uvc_events_process_data): VIDIOC_STREAMOFF (the driver stops and       *)
(* gives back its queued buffers), then uvc_handle_streamon_event.         *)
Commit ==
  /\ ~closed
  /\ nalloc < MaxAllocs
  /\ HandleStreamonEvent
  /\ UNCHANGED <<frees, closed>>

(* Mutant of StopStreaming: is_streaming is left set. *)
StopStreamingKeepFlag ==
  /\ isStreaming
  /\ drvOn' = FALSE /\ drvQueued' = 0 /\ drvSet' = 0
  /\ UninitDevice
  /\ isStreaming' = TRUE

(* Mutant of StopStreaming: the buffers are freed without VIDIOC_STREAMOFF *)
(* and uvc_video_reqbufs(dev, 0), so the driver keeps them queued.         *)
StopStreamingNoStreamOff ==
  /\ isStreaming
  /\ UNCHANGED <<drvOn, drvQueued, drvSet>>
  /\ UninitDevice
  /\ isStreaming' = FALSE

(* UVC_EVENT_STREAMOFF: if is_streaming, VIDIOC_STREAMOFF,                 *)
(* uvc_uninit_device, uvc_video_reqbufs(dev, 0) (the driver drops its      *)
(* buffers; rb.count is 0 so nothing else changes), is_streaming = 0.      *)
StopStreaming ==
  /\ isStreaming
  /\ drvOn' = FALSE /\ drvQueued' = 0 /\ drvSet' = 0
  /\ UninitDevice
  /\ isStreaming' = FALSE

StreamOff ==
  /\ ~closed
  /\ StopStreaming
  /\ UNCHANGED <<shutdown, dummy, mem, nalloc, closed>>

(* UVC_EVENT_DISCONNECT *)
Disconnect ==
  /\ ~closed
  /\ shutdown' = TRUE
  /\ UNCHANGED <<isStreaming, dummy, mem, nalloc, live, frees, drvOn,
                 drvQueued, drvSet, closed>>

(* uvc_video_fill_buffer (YUYV): fill_buf_func writes dev->imgsize bytes  *)
(* into dev->mem[buf->index].start, the buffer of index i of set mem; the  *)
(* driver sends the user pointer it was given for index i of drvSet.       *)
VideoFillBuffer == mem

(* uvc_video_process when the gadget node is writable (a buffer the host   *)
(* has taken is done): it returns at once unless is_streaming; VIDIOC_DQBUF *)
(* (a failure returns and changes nothing), uvc_video_fill_buffer, then     *)
(* VIDIOC_QBUF, whose failure returns with the buffer given back to no one: *)
(* the driver holds one buffer fewer.                                      *)
VideoProcess ==
  /\ ~closed
  /\ isStreaming /\ drvOn /\ drvQueued > 0
  /\ \/ UNCHANGED <<drvQueued, drvSet>>
     \/ /\ drvQueued' = drvQueued - 1
        /\ drvSet' = IF drvQueued' > 0 THEN drvSet ELSE 0
  /\ UNCHANGED <<isStreaming, shutdown, dummy, mem, nalloc, live, frees, drvOn,
                 closed>>

(* uvc_close: close the node, free dev->imgdata and the device. *)
UvcClose == closed' = TRUE

(* close_uvc_gadget_device: the STREAMOFF handling if streaming, then      *)
(* uvc_close.                                                              *)
Close ==
  /\ ~closed
  /\ \/ StopStreaming
     \/ /\ ~isStreaming
        /\ UNCHANGED <<isStreaming, live, frees, drvOn, drvQueued, drvSet>>
  /\ UvcClose
  /\ UNCHANGED <<shutdown, dummy, mem, nalloc>>

Next == Commit \/ StreamOff \/ Disconnect \/ VideoProcess \/ Close

Spec == Init /\ [][Next]_vars

---------------------------------------------------------------------------
TypeOK ==
  /\ isStreaming \in BOOLEAN /\ shutdown \in BOOLEAN /\ closed \in BOOLEAN
  /\ dummy \in SetId /\ mem \in SetId /\ drvSet \in SetId
  /\ nalloc \in 0..MaxAllocs /\ live \subseteq 1..nalloc
  /\ frees \in [SetId -> Nat]
  /\ drvOn \in BOOLEAN /\ drvQueued \in 0..NBufs

(* No buffer set is freed twice: uvc_uninit_device, reached from           *)
(* STREAMOFF and from close_uvc_gadget_device, only runs on a set that     *)
(* uvc_handle_streamon_event allocated since the last free, whatever the   *)
(* host's order of COMMIT and STREAMOFF and whichever ioctls failed.       *)
NoDoubleFree == \A s \in 1..MaxAllocs : frees[s] <= 1

(* Memory in use is never freed: while the driver holds queued user        *)
(* pointers their set is allocated, and while is_streaming is set the set  *)
(* uvc_video_fill_buffer writes into (dev->mem) is allocated.              *)
BuffersLive ==
  /\ drvQueued > 0 => drvSet \in live
  /\ isStreaming => mem \in live

(* Spec section 4.2 (STREAMON (re)allocates the output buffers, STREAMOFF  *)
(* releases them): at most one set of dummy buffers is allocated at a time; *)
(* a COMMIT re-allocating dev->dummy_buf releases the previous set.        *)
AtMostOneLiveSet == Cardinality(live) <= 1

(* uvc_uninit_device never runs with dev->dummy_buf NULL (it dereferences  *)
(* dummy_buf[i] for every i < nbufs).                                      *)
NoNullUninit == frees[0] = 0

(* The frame the host receives is the one fill_buf_func wrote: whenever    *)
(* uvc_video_process can run, the set uvc_video_fill_buffer writes into    *)
(* (dev->mem) is the set whose user pointers the driver holds (queued from *)
(* dev->dummy_buf), across COMMITs whose reqbufs or QBUF fail part way.    *)
(* This rests on uvc_handle_streamon_event queueing only after reqbufs has *)
(* set both pointers to the new set.                                       *)
FillWritesSentBuffer ==
  (isStreaming /\ drvOn /\ drvQueued > 0) => VideoFillBuffer = drvSet

====
