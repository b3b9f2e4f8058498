---------------------------- MODULE RgbdSession ----------------------------
(***************************************************************************)
(* The capture session of rgbd_uvc_main: main() builds a TRGBDClass,       *)
(* installs signal_handler for SIGINT/SIGTERM/SIGABRT and calls Init,      *)
(* which opens the devices and starts the RGB thread (rgb_capture_func)    *)
(* and the USB thread (usb_device_func); main then calls runner in a loop. *)
(* A signal runs signal_handler on the main thread, wherever main is: it   *)
(* calls Uninit (stop both captures, set the done flags, join the two      *)
(* threads, uninit and close the devices, close the gadget), deletes the   *)
(* object and returns into the interrupted code.                           *)
(*                                                                         *)
(* The two capture devices are CaptureDevice; the FIFO that runner fills   *)
(* and the gadget events the USB thread serves are FrameFifo, UvcControl   *)
(* and UvcStreaming, and are one step each here.                          *)
(***************************************************************************)
EXTENDS Naturals

CONSTANTS
  NBuf,         \* num_of_driverbuf of the capture devices
  MaxRgbFrames  \* RGB frames told apart: later ones share this number

ASSUME MaxRgbFrames \in Nat

(* thr_data.rgb[32]: the RGB frames, indexed with & 31. *)
RgbSlots == 0..31

VARIABLES
  devSt, mapped, held, ready, proc,   \* the capture devices (CaptureDevice)
  mainPc,       \* main thread: where it is in main() / Init / runner
  rgbPc,        \* RGB thread, "none" before pthread_create
  usbPc,        \* USB thread, "none" before pthread_create
  sig,          \* "none", "running": signal_handler runs, "returned"
  upc,          \* where signal_handler is in Uninit
  videoDone, depthDone, uvcDone,      \* thr_data.g_video_done, ...
  gadget,       \* the UVC gadget device: "closed", "open", "released"
  deleted,      \* delete c has run
  rgbIndex,     \* thr_data.rgb_index: the slot the RGB thread fills next
  rgbSlot,      \* rgbSlot[i]: the frame rgb[i] holds (frames numbered from
                \* 1 in capture order; 0: no frame, the zeroed allocation)
  rgbFrames,    \* frames the RGB thread has captured
  copyIdx,      \* runner's idx: the slot it copies into the FIFO
  copyFrom      \* the frame that slot held when runner started the copy

devVarsOf == <<devSt, mapped, held, ready, proc>>

vars == <<devSt, mapped, held, ready, proc, mainPc, rgbPc, usbPc, sig, upc,
          videoDone, depthDone, uvcDone, gadget, deleted, rgbIndex, rgbSlot,
          rgbFrames, copyIdx, copyFrom>>

copyVars == <<copyIdx, copyFrom>>
mainVars == <<mainPc, copyIdx, copyFrom>>
slotVars == <<rgbIndex, rgbSlot, rgbFrames>>
rgbVars == <<rgbPc, slotVars>>

Dev == INSTANCE CaptureDevice

Running == proc = "running"
MainRuns == Running /\ sig # "running"

(* TRGBDClass(num_buf): the three done flags cleared; the thread ids,     *)
(* rgb_index and rgb[] are left as the allocation gives them.              *)
Constructed == videoDone = FALSE /\ depthDone = FALSE /\ uvcDone = FALSE

Init ==
  /\ Dev!DevInit
  /\ mainPc = "open_rgb" /\ rgbPc = "none" /\ usbPc = "none"
  /\ sig = "none" /\ upc = "idle"
  /\ Constructed
  /\ gadget = "closed" /\ deleted = FALSE
  \* new TRGBDClass leaves rgb_index and rgb[] uninitialised; the object is
  \* over 80 MB, so glibc maps fresh pages for it and both read as zero.
  /\ rgbIndex = 0 /\ rgbSlot = [i \in RgbSlots |-> 0] /\ rgbFrames = 0
  /\ copyIdx = 0 /\ copyFrom = 0

sessVars == <<mainVars, rgbVars, usbPc, sig, upc, videoDone, depthDone, uvcDone,
              gadget, deleted>>
threadVars == <<rgbVars, usbPc, sig, upc, videoDone, depthDone, uvcDone,
                gadget, deleted>>

---------------------------------------------------------------------------
(* Main thread: TRGBDClass::Init.                                          *)

MainOpenRgb ==
  /\ MainRuns /\ mainPc = "open_rgb"
  /\ Dev!OpenVideoDevice("rgb")
  /\ mainPc' = "open_depth"
  /\ UNCHANGED <<threadVars, copyVars>>

MainOpenDepth ==
  /\ MainRuns /\ mainPc = "open_depth"
  /\ Dev!OpenVideoDevice("depth")
  /\ mainPc' = "open_uvc"
  /\ UNCHANGED <<threadVars, copyVars>>

(* open_uvc_gadget_device, i.e. uvc_open: open(2) of the node,            *)
(* VIDIOC_QUERYCAP, the video-output capability test and the calloc of    *)
(* the device; any failure closes the fd and returns an error, ok says    *)
(* none happened.                                                         *)
UvcOpen(ok) == IF ok THEN gadget' = "open" ELSE UNCHANGED gadget

(* A failed open_uvc_gadget_device makes Init return ERROR_OPEN_UVC;      *)
(* main() prints it and goes on to the runner loop with neither thread    *)
(* created nor the depth device started.                                  *)
MainOpenUvc ==
  /\ MainRuns /\ mainPc = "open_uvc"
  /\ \E ok \in BOOLEAN :
       UvcOpen(ok) /\ mainPc' = IF ok THEN "create_rgb" ELSE "loop"
  /\ UNCHANGED <<devSt, mapped, held, ready, proc, rgbVars, usbPc, sig, upc,
                 videoDone, depthDone, uvcDone, deleted, copyVars>>

(* pthread_create(&rgb_capture_thr, ...): it stores the thread id into c, *)
(* which faults once the handler has deleted c; a failure makes Init      *)
(* return ERROR_CREATE_RGB_THREAD, and main() goes on to the runner loop. *)
MainCreateRgb ==
  /\ MainRuns /\ mainPc = "create_rgb"
  /\ \/ deleted /\ proc' = "crash" /\ UNCHANGED <<mainPc, rgbPc>>
     \/ ~deleted /\ rgbPc' = "init" /\ mainPc' = "create_usb" /\ UNCHANGED proc
     \/ ~deleted /\ mainPc' = "loop" /\ UNCHANGED <<proc, rgbPc>>
  /\ UNCHANGED <<devSt, mapped, held, ready, slotVars, usbPc, sig,
                 upc, videoDone, depthDone, uvcDone, gadget, deleted, copyVars>>

(* pthread_create(&usb_device_thr, ...), likewise. *)
MainCreateUsb ==
  /\ MainRuns /\ mainPc = "create_usb"
  /\ \/ deleted /\ proc' = "crash" /\ UNCHANGED <<mainPc, usbPc>>
     \/ ~deleted /\ usbPc' = "init" /\ mainPc' = "init_depth" /\ UNCHANGED proc
     \/ ~deleted /\ mainPc' = "loop" /\ UNCHANGED <<proc, usbPc>>
  /\ UNCHANGED <<devSt, mapped, held, ready, rgbVars, sig, upc,
                 videoDone, depthDone, uvcDone, gadget, deleted, copyVars>>

(* init_video_device(MODULE_DEPTH, ...); a return of -1 makes Init       *)
(* return ERROR_INIT_DEPTH, which main() prints before the runner loop.   *)
MainInitDepth ==
  /\ MainRuns /\ mainPc = "init_depth"
  /\ Dev!InitVideoDevice("depth")
  /\ mainPc' = IF devSt'["depth"] = "configured" THEN "start_depth" ELSE "loop"
  /\ UNCHANGED <<threadVars, copyVars>>

MainStartDepth ==
  /\ MainRuns /\ mainPc = "start_depth"
  /\ Dev!StartVideoCapture("depth")
  /\ mainPc' = "loop"
  /\ UNCHANGED <<threadVars, copyVars>>

---------------------------------------------------------------------------
(* Main thread: while (!c->thr_data.g_depth_done) c->runner(&buf).  The    *)
(* object c is over 80 MB (32 RGB slots of RGB_DATA_SIZE), so glibc maps   *)
(* it on its own and delete c unmaps it: a later access through c faults. *)
(* g_depth_done is set only by signal_handler, which deletes c before it  *)
(* returns, so the loop never ends with c alive and the code after it in  *)
(* main() is never reached.                                                *)
MainLoop ==
  /\ MainRuns /\ mainPc = "loop"
  /\ IF deleted THEN proc' = "crash" /\ UNCHANGED mainPc
                ELSE mainPc' = "dq" /\ UNCHANGED proc
  /\ UNCHANGED <<devSt, mapped, held, ready>>
  /\ UNCHANGED <<threadVars, copyVars>>

(* runner: dequeue_and_capture of the depth frame. *)
MainDequeue ==
  /\ MainRuns /\ mainPc = "dq"
  /\ Dev!DequeueAndCapture("depth")
  /\ mainPc' = "merge"
  /\ UNCHANGED <<threadVars, copyVars>>

(* runner spinning in the select loop on the closed depth fd. *)
MainSpin ==
  /\ MainRuns /\ mainPc = "dq"
  /\ Dev!SelectRetry("depth")
  /\ UNCHANGED sessVars

(* runner: idx = (rgb_index - 1) & 31, then the FIFO_FULL test.  The FIFO *)
(* is FrameFifo's; here it is full or not.  When it is not, runner starts  *)
(* copying rgb[idx] into the head slot.  Both read thr_data through c.     *)
MainMerge ==
  /\ MainRuns /\ mainPc = "merge"
  /\ \/ deleted /\ proc' = "crash" /\ UNCHANGED mainVars
     \/ /\ ~deleted
        /\ \E full \in BOOLEAN :
             IF full THEN mainPc' = "q" /\ UNCHANGED copyVars
             ELSE LET idx == (rgbIndex - 1) % 32
                  IN  mainPc' = "copy" /\ copyIdx' = idx
                      /\ copyFrom' = rgbSlot[idx]
        /\ UNCHANGED proc
  /\ UNCHANGED <<devSt, mapped, held, ready>>
  /\ UNCHANGED threadVars

(* runner: the stamps, the memcpy of rgb[idx] and of the depth frame into *)
(* the head slot, the callback and QUE_FIFO_HEAD (FrameFifo's producer).  *)
(* idx is a local of runner: it is dropped once the copy is done.         *)
MainCopy ==
  /\ MainRuns /\ mainPc = "copy"
  /\ IF deleted THEN proc' = "crash" /\ UNCHANGED mainVars
                ELSE mainPc' = "q" /\ copyIdx' = 0 /\ copyFrom' = 0
                     /\ UNCHANGED proc
  /\ UNCHANGED <<devSt, mapped, held, ready>>
  /\ UNCHANGED threadVars

(* runner: queue_capture of the depth buffer. *)
MainQueue ==
  /\ MainRuns /\ mainPc = "q"
  /\ Dev!QueueCapture("depth")
  /\ mainPc' = "loop"
  /\ UNCHANGED <<threadVars, copyVars>>

---------------------------------------------------------------------------
(* RGB thread: rgb_capture_func.                                           *)

rgbKeeps == <<mainVars, usbPc, sig, upc, videoDone, depthDone, uvcDone,
              gadget, deleted>>

(* init_video_device(MODULE_RGB, ...); if it returns -1 the thread        *)
(* returns NULL.                                                           *)
RgbInit ==
  /\ Running /\ rgbPc = "init"
  /\ Dev!InitVideoDevice("rgb")
  /\ rgbPc' = IF devSt'["rgb"] = "configured" THEN "start" ELSE "done"
  /\ UNCHANGED <<slotVars, rgbKeeps>>

(* start_video_capture(MODULE_RGB); rgb_index = 0. *)
RgbStart ==
  /\ Running /\ rgbPc = "start"
  /\ Dev!StartVideoCapture("rgb")
  /\ rgbPc' = "loop" /\ rgbIndex' = 0
  /\ UNCHANGED <<rgbSlot, rgbFrames, rgbKeeps>>

(* while (!thd->g_video_done) *)
RgbLoop ==
  /\ Running /\ rgbPc = "loop"
  /\ rgbPc' = IF videoDone THEN "done" ELSE "dq"
  /\ UNCHANGED devVarsOf
  /\ UNCHANGED <<slotVars, rgbKeeps>>

(* idx = rgb_index; dequeue_and_capture copies the frame into rgb[idx];    *)
(* the stamp; rgb_index = (idx + 1) & 31.  When the dequeue exits the      *)
(* process nothing is written.  Frame numbers stop at MaxRgbFrames.        *)
RgbDequeue ==
  /\ Running /\ rgbPc = "dq"
  /\ Dev!DequeueAndCapture("rgb")
  /\ rgbPc' = "q"
  /\ IF held'["rgb"]
       THEN LET f == IF rgbFrames < MaxRgbFrames THEN rgbFrames + 1
                                                  ELSE MaxRgbFrames
            IN  /\ rgbSlot' = [rgbSlot EXCEPT ![rgbIndex] = f]
                /\ rgbFrames' = f
                /\ rgbIndex' = (rgbIndex + 1) % 32
       ELSE UNCHANGED slotVars
  /\ UNCHANGED rgbKeeps

(* queue_capture(MODULE_RGB, &buf) *)
RgbQueue ==
  /\ Running /\ rgbPc = "q"
  /\ Dev!QueueCapture("rgb")
  /\ rgbPc' = "loop"
  /\ UNCHANGED <<slotVars, rgbKeeps>>

---------------------------------------------------------------------------
(* USB thread: usb_device_func.                                            *)

(* init_uvc_gadget_device: the gadget's set-up (UvcStreaming's Init);     *)
(* it always returns 0.                                                    *)
UsbInit ==
  /\ Running /\ usbPc = "init"
  /\ usbPc' = "loop"
  /\ UNCHANGED devVarsOf
  /\ UNCHANGED <<mainVars, rgbVars, sig, upc, videoDone, depthDone, uvcDone,
                 gadget, deleted>>

(* Mutant of UsbLoop: the loop does not test g_uvc_done. *)
UsbLoopNoFlag ==
  /\ Running /\ usbPc = "loop"
  /\ usbPc' = "process"
  /\ UNCHANGED devVarsOf
  /\ UNCHANGED <<mainVars, rgbVars, sig, upc, videoDone, depthDone, uvcDone,
                 gadget, deleted>>

(* while (!thd->g_uvc_done) *)
UsbLoop ==
  /\ Running /\ usbPc = "loop"
  /\ usbPc' = IF uvcDone THEN "done" ELSE "process"
  /\ UNCHANGED devVarsOf
  /\ UNCHANGED <<mainVars, rgbVars, sig, upc, videoDone, depthDone, uvcDone,
                 gadget, deleted>>

(* process_uvc_gadget_device(2000000): select on the gadget fd for at    *)
(* most 2 s, then uvc_events_process and uvc_video_process for what is    *)
(* ready; it returns whether or not anything was.                          *)
UsbProcess ==
  /\ Running /\ usbPc = "process"
  /\ usbPc' = "loop"
  /\ UNCHANGED devVarsOf
  /\ UNCHANGED <<mainVars, rgbVars, sig, upc, videoDone, depthDone, uvcDone,
                 gadget, deleted>>

---------------------------------------------------------------------------
(* signal_handler: c->Uninit(); delete c; exit_process = 1.  It runs on   *)
(* the main thread, which stays where the signal interrupted it until the  *)
(* handler returns.  main() installs it before calling Init, so it may     *)
(* come at any point of Init or of the runner loop.                        *)

Signal ==
  /\ Running /\ sig = "none"
  /\ sig' = "running" /\ upc' = "stop_rgb"
  /\ UNCHANGED devVarsOf
  /\ UNCHANGED <<mainVars, rgbVars, usbPc, videoDone, depthDone, uvcDone,
                 gadget, deleted>>

Handler == Running /\ sig = "running"
handlerKeeps == <<mainVars, rgbVars, usbPc, sig, videoDone, depthDone, uvcDone,
                  gadget, deleted>>

(* Uninit: stop_video_capture(MODULE_RGB), then (MODULE_DEPTH). *)
UninitStop(m, at, next) ==
  /\ Handler /\ upc = at
  /\ Dev!StopVideoCapture(m)
  /\ upc' = next
  /\ UNCHANGED handlerKeeps

(* Uninit: g_video_done = g_depth_done = g_uvc_done = 1. *)
UninitFlags ==
  /\ Handler /\ upc = "flags"
  /\ videoDone' = TRUE /\ depthDone' = TRUE /\ uvcDone' = TRUE
  /\ upc' = "join_rgb"
  /\ UNCHANGED devVarsOf
  /\ UNCHANGED <<mainVars, rgbVars, usbPc, sig, gadget, deleted>>

(* Mutant of UninitJoinRgb: the RGB thread is not waited for. *)
UninitJoinRgbNoWait ==
  /\ Handler /\ upc = "join_rgb"
  /\ \/ rgbPc # "none" /\ upc' = "join_usb" /\ UNCHANGED proc
     \/ rgbPc = "none" /\ proc' = "crash" /\ UNCHANGED upc
  /\ UNCHANGED <<devSt, mapped, held, ready>>
  /\ UNCHANGED handlerKeeps

(* Uninit: pthread_join(rgb_capture_thr).  When Init failed before        *)
(* creating the thread, rgb_capture_thr still holds the zero of the fresh *)
(* allocation and pthread_join dereferences it.                            *)
UninitJoinRgb ==
  /\ Handler /\ upc = "join_rgb"
  /\ \/ rgbPc = "done" /\ upc' = "join_usb" /\ UNCHANGED proc
     \/ rgbPc = "none" /\ proc' = "crash" /\ UNCHANGED upc
  /\ UNCHANGED <<devSt, mapped, held, ready>>
  /\ UNCHANGED handlerKeeps

(* Uninit: pthread_join(usb_device_thr); on a thread never created it     *)
(* dereferences the zero id, as for the RGB thread.                        *)
UninitJoinUsb ==
  /\ Handler /\ upc = "join_usb"
  /\ \/ usbPc = "done" /\ upc' = "uninit_rgb" /\ UNCHANGED proc
     \/ usbPc = "none" /\ proc' = "crash" /\ UNCHANGED upc
  /\ UNCHANGED <<devSt, mapped, held, ready>>
  /\ UNCHANGED handlerKeeps

(* Uninit: uninit_video_device and close_video_device, RGB then depth. *)
UninitRelease(m, at, next) ==
  /\ Handler /\ upc = at
  /\ Dev!UninitVideoDevice(m)
  /\ upc' = next
  /\ UNCHANGED handlerKeeps

UninitClose(m, at, next) ==
  /\ Handler /\ upc = at
  /\ Dev!CloseVideoDevice(m)
  /\ upc' = next
  /\ UNCHANGED handlerKeeps

(* Uninit: close_uvc_gadget_device (UvcStreaming's Close). *)
UninitCloseUvc ==
  /\ Handler /\ upc = "close_uvc"
  /\ gadget' = "released"
  /\ upc' = "delete"
  /\ UNCHANGED devVarsOf
  /\ UNCHANGED <<mainVars, rgbVars, usbPc, sig, videoDone, depthDone, uvcDone,
                 deleted>>

(* delete c; exit_process = 1; the handler returns. *)
HandlerReturn ==
  /\ Handler /\ upc = "delete"
  /\ deleted' = TRUE /\ sig' = "returned" /\ upc' = "idle"
  /\ UNCHANGED devVarsOf
  /\ UNCHANGED <<mainVars, rgbVars, usbPc, videoDone, depthDone, uvcDone, gadget>>

---------------------------------------------------------------------------
(* The cameras deliver frames while they stream. *)
Camera(m) == Running /\ Dev!Deliver(m) /\ UNCHANGED sessVars

(* The process has ended: nothing runs any more. *)
Terminated == ~Running /\ UNCHANGED vars

MainStep ==
  \/ MainOpenRgb \/ MainOpenDepth \/ MainOpenUvc \/ MainCreateRgb
  \/ MainCreateUsb \/ MainInitDepth \/ MainStartDepth
  \/ MainLoop \/ MainDequeue \/ MainSpin \/ MainMerge \/ MainCopy
  \/ MainQueue

RgbStep == RgbInit \/ RgbStart \/ RgbLoop \/ RgbDequeue \/ RgbQueue

UsbStep == UsbInit \/ UsbLoop \/ UsbProcess

HandlerStep ==
  \/ UninitStop("rgb", "stop_rgb", "stop_depth")
  \/ UninitStop("depth", "stop_depth", "flags")
  \/ UninitFlags \/ UninitJoinRgb \/ UninitJoinUsb
  \/ UninitRelease("rgb", "uninit_rgb", "close_rgb")
  \/ UninitClose("rgb", "close_rgb", "uninit_depth")
  \/ UninitRelease("depth", "uninit_depth", "close_depth")
  \/ UninitClose("depth", "close_depth", "close_uvc")
  \/ UninitCloseUvc \/ HandlerReturn

Next ==
  \/ MainStep \/ RgbStep \/ UsbStep \/ Signal \/ HandlerStep
  \/ \E m \in Dev!Modules : Camera(m)
  \/ Terminated

(* The scheduler runs every runnable thread, and a streaming camera       *)
(* keeps delivering frames; a signal may or may not come.                 *)
Spec ==
  /\ Init /\ [][Next]_vars
  /\ WF_vars(MainStep) /\ WF_vars(RgbStep) /\ WF_vars(UsbStep)
  /\ WF_vars(HandlerStep)
  /\ \A m \in Dev!Modules : WF_vars(Camera(m))

---------------------------------------------------------------------------
MainPcs == {"open_rgb", "open_depth", "open_uvc", "create_rgb", "create_usb",
            "init_depth", "start_depth", "loop", "dq", "merge", "copy", "q"}
UninitPcs == {"idle", "stop_rgb", "stop_depth", "flags", "join_rgb",
              "join_usb", "uninit_rgb", "close_rgb", "uninit_depth",
              "close_depth", "close_uvc", "delete"}

TypeOK ==
  /\ Dev!DevTypeOK
  /\ mainPc \in MainPcs
  /\ rgbPc \in {"none", "init", "start", "loop", "dq", "q", "done"}
  /\ usbPc \in {"none", "init", "loop", "process", "done"}
  /\ sig \in {"none", "running", "returned"} /\ upc \in UninitPcs
  /\ {videoDone, depthDone, uvcDone, deleted} \subseteq BOOLEAN
  /\ gadget \in {"closed", "open", "released"}
  /\ rgbIndex \in RgbSlots /\ rgbFrames \in 0..MaxRgbFrames
  /\ rgbSlot \in [RgbSlots -> 0..MaxRgbFrames]
  /\ copyIdx \in RgbSlots /\ copyFrom \in 0..MaxRgbFrames

RgbAlive == rgbPc \in {"init", "start", "loop", "dq", "q"}
UsbAlive == usbPc \in {"init", "loop", "process"}

(* Uninit tears down a device only once the thread that uses it has       *)
(* ended: while rgb_capture_func runs, the RGB device is neither          *)
(* uninitialised nor closed, and while usb_device_func runs the gadget is *)
(* not closed.  This rests on the two pthread_joins coming before         *)
(* uninit_video_device and close_uvc_gadget_device, whatever the threads  *)
(* are doing when the signal arrives.                                      *)
ThreadDevicesLive ==
  /\ RgbAlive => devSt["rgb"] \in {"opened", "configured", "streaming"}
  /\ UsbAlive => gadget = "open"

(* Uninit's pthread_joins return: once the handler is at the join of the  *)
(* RGB thread or of the USB thread, it eventually gets past both (or the  *)
(* process has ended).  This rests on each thread seeing the flag Uninit  *)
(* set for it, whether the signal found it still initialising, blocked in *)
(* a dequeue or in process_uvc_gadget_device, and on a thread never       *)
(* created not being joined for ever.                                      *)
JoinsReturn ==
  (upc \in {"join_rgb", "join_usb"})
    ~> (upc \notin {"join_rgb", "join_usb"} \/ ~Running)

(* Spec section 2 (the depth thread "looks up the most recently           *)
(* completed RGB frame" in the ring of the last 32): the slot runner       *)
(* copies into the FIFO holds a frame the RGB thread captured, and the    *)
(* RGB thread does not write that slot again while runner copies it (a    *)
(* write of a later frame with the same saturated number is not seen).   *)
(* This rests on rgb_index being published after rgb[idx] is written and  *)
(* on runner reading it only once the RGB thread has captured a frame.    *)
RunnerCopiesCapturedFrame ==
  mainPc = "copy" => copyFrom # 0 /\ rgbSlot[copyIdx] = copyFrom

(* Spec section 5: shutdown is cooperative, every capture loop observes   *)
(* its done flag and is joined.  After a SIGINT or SIGTERM that finds the *)
(* RGB thread capturing, rgb_capture_func eventually leaves its loop and  *)
(* returns, so that Uninit's pthread_join can take it.  Uninit stops the  *)
(* RGB stream (RGBDClass.cpp:340) before it sets g_video_done (343) and   *)
(* joins (347): the thread's next VIDIOC_DQBUF is on a stopped queue.     *)
RgbThreadJoined ==
  (Running /\ sig # "none" /\ rgbPc \in {"loop", "dq", "q"}) ~> (rgbPc = "done")

=============================================================================
