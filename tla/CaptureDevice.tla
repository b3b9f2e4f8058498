--------------------------- MODULE CaptureDevice ---------------------------
(***************************************************************************)
(* The two V4L2 capture devices of video_api.c (MODULE_RGB, /dev/video0,   *)
(* and MODULE_3DDEPTH, /dev/video1) as their callers see them: the state   *)
(* of the file descriptor and of the driver's queue, the buffers mapped    *)
(* into the process, whether the caller holds a dequeued buffer, and       *)
(* whether the camera has a filled buffer waiting.  Every ioctl goes       *)
(* through xioctl, which retries EINTR/EAGAIN and calls exit(EXIT_FAILURE) *)
(* on any other error; proc records how the process ended.                 *)
(*                                                                         *)
(* Each operation is an operator of the device m it is called on; the      *)
(* threads that call them, and in which order, are RgbdSession.  Next     *)
(* below lets any caller call any operation, the device on its own.       *)
(***************************************************************************)
EXTENDS Naturals

CONSTANT NBuf           \* num_of_driverbuf: buffers requested by init_mmap

ASSUME NBuf \in 2..8    \* init_mmap exits when fewer than 2 are granted

VARIABLES
  devSt,        \* devSt[m]: "closed", "opened", "configured", "streaming", "uninit"
  mapped,       \* mapped[m]: indices of the buffers still mmap'ed
  held,         \* held[m]: the caller holds a buffer it dequeued
  ready,        \* ready[m]: the driver has a filled buffer to dequeue
  proc          \* "running", "exit_failure" (exit(EXIT_FAILURE)), "crash", "exit_ok"

devVars == <<devSt, mapped, held, ready, proc>>

Modules == {"rgb", "depth"}
Buffers == 0..NBuf-1
DevStates == {"closed", "opened", "configured", "streaming", "uninit"}
ProcStates == {"running", "exit_failure", "crash", "exit_ok"}

Set(m, s) == devSt' = [devSt EXCEPT ![m] = s]

(* xioctl (or errno_exit) after a failed call: exit(EXIT_FAILURE). *)
Fail == proc' = "exit_failure"

DevInit ==
  /\ devSt = [m \in Modules |-> "closed"]
  /\ mapped = [m \in Modules |-> {}]
  /\ held = [m \in Modules |-> FALSE]
  /\ ready = [m \in Modules |-> FALSE]
  /\ proc = "running"

---------------------------------------------------------------------------
(* open_video_device: open(2) of the node; a failure exits. *)
OpenVideoDevice(m) ==
  /\ devSt[m] = "closed"
  /\ \/ Set(m, "opened") /\ UNCHANGED proc
     \/ Fail /\ UNCHANGED devSt
  /\ UNCHANGED <<mapped, held, ready>>

(* Mutant of InitVideoDevice: the init_mmap loop runs to n_buffers <=    *)
(* req.count and maps one buffer too many.                                 *)
InitVideoDeviceOverrun(m) ==
  /\ devSt[m] = "opened"
  /\ Set(m, "configured")
  /\ mapped' = [mapped EXCEPT ![m] = 0..NBuf]
  /\ UNCHANGED <<held, ready, proc>>

(* init_video_device with IO_METHOD_MMAP: QUERYCAP (through xioctl), then *)
(* S_PARM, S_INPUT, G_CROP, S_CROP and S_FMT with plain ioctl, any of     *)
(* which failing makes it return -1 with the device left opened; then     *)
(* init_mmap: REQBUFS, calloc of the buffer array, QUERYBUF and mmap of   *)
(* each buffer.  A failed xioctl, fewer than 2 buffers granted or a       *)
(* failed calloc exit; the result of mmap is not checked, and the memset  *)
(* of MAP_FAILED that follows a failed mmap faults.  Its callers tell the *)
(* outcomes apart by devSt'[m]: "configured" is the return of 0.  On a    *)
(* device already closed the static fd is stale: QUERYCAP fails and      *)
(* xioctl exits.                                                           *)
InitVideoDevice(m) ==
  /\ \/ /\ devSt[m] = "opened"
        /\ \/ /\ Set(m, "configured")
              /\ mapped' = [mapped EXCEPT ![m] = Buffers]
              /\ UNCHANGED proc
           \/ UNCHANGED <<devSt, mapped, proc>>
           \/ Fail /\ UNCHANGED <<devSt, mapped>>
           \/ proc' = "crash" /\ UNCHANGED <<devSt, mapped>>
     \/ devSt[m] = "closed" /\ Fail /\ UNCHANGED <<devSt, mapped>>
  /\ UNCHANGED <<held, ready>>

(* start_video_capture: QBUF of every buffer, then STREAMON; a failure    *)
(* exits.  Its callers start a device they have just configured, unless   *)
(* it has been closed since: then the QBUF on the stale fd fails.         *)
StartVideoCapture(m) ==
  /\ devSt[m] \in {"configured", "closed"}
  /\ \/ devSt[m] = "configured" /\ Set(m, "streaming") /\ UNCHANGED proc
     \/ Fail /\ UNCHANGED devSt
  /\ UNCHANGED <<mapped, held, ready>>

(* stop_video_capture: STREAMOFF.  The driver takes back its queued       *)
(* buffers, filled or not; a buffer the caller holds stays with it.       *)
(* STREAMOFF of a queue that is not streaming succeeds.  On a device not  *)
(* open the fd is 0 (never opened: the static's zero, standard input) or  *)
(* stale (closed): the ioctl fails and xioctl exits.                       *)
StopVideoCapture(m) ==
  \/ /\ devSt[m] # "closed"
     /\ Set(m, IF devSt[m] = "streaming" THEN "configured" ELSE devSt[m])
     /\ ready' = [ready EXCEPT ![m] = FALSE]
     /\ UNCHANGED <<mapped, held, proc>>
  \/ /\ devSt[m] = "closed"
     /\ Fail /\ UNCHANGED <<devSt, mapped, held, ready>>

(* dequeue_and_capture: select() on the fd with a 2 s timeout, retried    *)
(* on a timeout, then DQBUF and the memcpy of the frame.  On a streaming  *)
(* queue select waits for a filled buffer.  On a queue that is not        *)
(* streaming the driver reports an error condition, select returns the fd *)
(* readable and DQBUF fails with EINVAL: exit.                             *)
DequeueAndCapture(m) ==
  /\ \/ /\ devSt[m] = "streaming" /\ ready[m]
        /\ held' = [held EXCEPT ![m] = TRUE]
        /\ ready' = [ready EXCEPT ![m] = FALSE]
        /\ UNCHANGED proc
     \/ /\ devSt[m] \in {"opened", "configured", "uninit"}
        /\ Fail /\ UNCHANGED <<held, ready>>
  /\ UNCHANGED <<devSt, mapped>>

(* The select loop of dequeue_and_capture on a closed fd: select fails    *)
(* with EBADF, and the loop condition (r == -1) && (errno = EINTR)         *)
(* assigns rather than compares, so the loop retries for ever.            *)
SelectRetry(m) ==
  /\ devSt[m] = "closed"
  /\ UNCHANGED devVars

(* queue_capture: QBUF of the buffer the caller holds.  The driver        *)
(* accepts it whether or not the queue is streaming; on a closed fd QBUF  *)
(* fails with EBADF: exit.                                                 *)
QueueCapture(m) ==
  /\ held[m]
  /\ \/ /\ devSt[m] # "closed"
        /\ held' = [held EXCEPT ![m] = FALSE]
        /\ UNCHANGED proc
     \/ devSt[m] = "closed" /\ Fail /\ UNCHANGED held
  /\ UNCHANGED <<devSt, mapped, ready>>

(* uninit_video_device with IO_METHOD_MMAP: the loop over the n buffers   *)
(* calls munmap(buffers->start, buffers->length), buffer 0 every time     *)
(* (munmap of a range no longer mapped succeeds), then frees the array.   *)
UninitVideoDevice(m) ==
  /\ devSt[m] # "closed"
  /\ mapped' = [mapped EXCEPT ![m] = @ \ {0}]
  /\ Set(m, "uninit")
  /\ UNCHANGED <<held, ready, proc>>

(* close_video_device: close(fd). *)
CloseVideoDevice(m) ==
  /\ devSt[m] # "closed"
  /\ Set(m, "closed")
  /\ ready' = [ready EXCEPT ![m] = FALSE]
  /\ UNCHANGED <<mapped, held, proc>>

(* The camera fills a queued buffer while the queue streams. *)
Deliver(m) ==
  /\ devSt[m] = "streaming" /\ ~ready[m]
  /\ ready' = [ready EXCEPT ![m] = TRUE]
  /\ UNCHANGED <<devSt, mapped, held, proc>>

---------------------------------------------------------------------------
DevNext ==
  /\ proc = "running"
  /\ \E m \in Modules :
       \/ OpenVideoDevice(m) \/ InitVideoDevice(m) \/ StartVideoCapture(m)
       \/ StopVideoCapture(m) \/ DequeueAndCapture(m) \/ QueueCapture(m)
       \/ UninitVideoDevice(m) \/ CloseVideoDevice(m) \/ Deliver(m)

DevSpec == DevInit /\ [][DevNext]_devVars

DevTypeOK ==
  /\ devSt \in [Modules -> DevStates]
  /\ mapped \in [Modules -> SUBSET Buffers]
  /\ held \in [Modules -> BOOLEAN]
  /\ ready \in [Modules -> BOOLEAN]
  /\ proc \in ProcStates

=============================================================================
