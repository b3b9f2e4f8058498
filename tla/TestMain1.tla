----------------------------- MODULE TestMain1 -----------------------------
(***************************************************************************)
(* The stand-alone program of test_main1.cpp.  main() opens the RGB and    *)
(* depth devices and the gadget, starts a detached RGB thread              *)
(* (rgb_capture_func) and USB thread (usb_device_func), installs           *)
(* signal_handler for SIGINT/SIGTERM/SIGABRT, starts the depth capture and *)
(* loops on the depth frames until g_video_done.  Each thread ORs its bit  *)
(* into g_all_done when it has left its loop and released its device: RGB  *)
(* 1, USB 2, main 4.  signal_handler clears g_all_done, sets g_video_done  *)
(* and spins until g_all_done == 7 before closing the devices and calling  *)
(* exit(0).  The handler runs on one thread of the process, which stays    *)
(* where the signal found it while the handler runs.                       *)
(*                                                                         *)
(* The capture devices are CaptureDevice.  The FIFO that main fills and    *)
(* fill_buf_func drains is FrameFifo's, and the gadget events are          *)
(* UvcControl and UvcStreaming; each is one step here.  The stores to the *)
(* two flags are taken as sequentially consistent.                         *)
(***************************************************************************)
EXTENDS Naturals, Bitwise

CONSTANT NBuf       \* num_of_driverbuf of the capture devices

VARIABLES
  devSt, mapped, held, ready, proc,   \* the capture devices (CaptureDevice)
  mainPc,       \* main thread
  rgbPc,        \* RGB thread, "none" before pthread_create
  usbPc,        \* USB thread, "none" before pthread_create
  sigOn,        \* "none", or the thread signal_handler runs on
  hpc,          \* where signal_handler is: "idle", "flags", "wait"
  videoDone,    \* g_video_done
  allDone,      \* g_all_done
  gadget        \* the UVC gadget device: "closed", "open", "released"

vars == <<devSt, mapped, held, ready, proc, mainPc, rgbPc, usbPc, sigOn, hpc,
          videoDone, allDone, gadget>>
devVarsOf == <<devSt, mapped, held, ready, proc>>

Dev == INSTANCE CaptureDevice

Threads == {"main", "rgb", "usb"}

Running == proc = "running"

(* Thread t runs its own code: the process runs and t is not the thread   *)
(* the handler took over.                                                  *)
Runs(t) == Running /\ sigOn # t

(* static int g_all_done = 0, g_video_done = 0. *)
Init ==
  /\ Dev!DevInit
  /\ mainPc = "open_rgb" /\ rgbPc = "none" /\ usbPc = "none"
  /\ sigOn = "none" /\ hpc = "idle" /\ videoDone = 0 /\ allDone = 0
  /\ gadget = "closed"

---------------------------------------------------------------------------
(* Main thread: main().                                                    *)

mainKeeps == <<rgbPc, usbPc, sigOn, hpc, videoDone, allDone, gadget>>

MainOpen(m, at, next) ==
  /\ Runs("main") /\ mainPc = at
  /\ Dev!OpenVideoDevice(m)
  /\ mainPc' = next
  /\ UNCHANGED mainKeeps

(* open_uvc_gadget_device: on a failure main returns ERROR_OPEN_UVC. *)
MainOpenUvc ==
  /\ Runs("main") /\ mainPc = "open_uvc"
  /\ \/ gadget' = "open" /\ mainPc' = "create_rgb"
     \/ mainPc' = "return_error" /\ UNCHANGED gadget
  /\ UNCHANGED <<devVarsOf, rgbPc, usbPc, sigOn, hpc, videoDone, allDone>>

(* The attribute set-up (setstacksize, whose failure is only logged, and  *)
(* setdetachstate, which cannot fail with PTHREAD_CREATE_DETACHED), then  *)
(* pthread_create of the RGB thread; a failure returns                     *)
(* ERROR_CREATE_RGB_THREAD.                                                *)
MainCreateRgb ==
  /\ Runs("main") /\ mainPc = "create_rgb"
  /\ \/ rgbPc' = "init" /\ mainPc' = "create_usb"
     \/ mainPc' = "return_error" /\ UNCHANGED rgbPc
  /\ UNCHANGED <<devVarsOf, usbPc, sigOn, hpc, videoDone, allDone, gadget>>

(* pthread_create of the USB thread, then pthread_attr_destroy (which      *)
(* glibc never fails) and register_signal.                                 *)
MainCreateUsb ==
  /\ Runs("main") /\ mainPc = "create_usb"
  /\ \/ usbPc' = "init" /\ mainPc' = "init_depth"
     \/ mainPc' = "return_error" /\ UNCHANGED usbPc
  /\ UNCHANGED <<devVarsOf, rgbPc, sigOn, hpc, videoDone, allDone, gadget>>

(* init_video_device(MODULE_DEPTH, ...); a return of -1 returns           *)
(* ERROR_INIT_DEPTH.                                                       *)
MainInitDepth ==
  /\ Runs("main") /\ mainPc = "init_depth"
  /\ Dev!InitVideoDevice("depth")
  /\ mainPc' = IF devSt'["depth"] = "configured" THEN "start_depth"
                                                 ELSE "return_error"
  /\ UNCHANGED mainKeeps

MainStartDepth ==
  /\ Runs("main") /\ mainPc = "start_depth"
  /\ Dev!StartVideoCapture("depth")
  /\ mainPc' = "loop"
  /\ UNCHANGED mainKeeps

(* return ERROR_...: the return from main() ends the process. *)
MainReturnError ==
  /\ Runs("main") /\ mainPc = "return_error"
  /\ proc' = "exit_failure"
  /\ UNCHANGED <<devSt, mapped, held, ready, mainPc, mainKeeps>>

(* while (!g_video_done) *)
MainLoop ==
  /\ Runs("main") /\ mainPc = "loop"
  /\ mainPc' = IF videoDone # 0 THEN "uninit" ELSE "dq"
  /\ UNCHANGED <<devVarsOf, mainKeeps>>

(* dequeue_and_capture of the depth frame, then the copy of it and of the *)
(* latest RGB slot into the FIFO when it is not full.                      *)
MainDequeue ==
  /\ Runs("main") /\ mainPc = "dq"
  /\ Dev!DequeueAndCapture("depth")
  /\ mainPc' = "q"
  /\ UNCHANGED mainKeeps

MainQueue ==
  /\ Runs("main") /\ mainPc = "q"
  /\ Dev!QueueCapture("depth")
  /\ mainPc' = "loop"
  /\ UNCHANGED mainKeeps

MainUninit ==
  /\ Runs("main") /\ mainPc = "uninit"
  /\ Dev!UninitVideoDevice("depth")
  /\ mainPc' = "close"
  /\ UNCHANGED mainKeeps

MainClose ==
  /\ Runs("main") /\ mainPc = "close"
  /\ Dev!CloseVideoDevice("depth")
  /\ mainPc' = "done_bit"
  /\ UNCHANGED mainKeeps

(* g_all_done |= 4; return ret: ret is the 0 of init_video_device, and    *)
(* the return from main() exits the process with it, whatever the other   *)
(* threads and the handler are doing.                                      *)
MainReturn ==
  /\ Runs("main") /\ mainPc = "done_bit"
  /\ allDone' = allDone | 4
  /\ proc' = "exit_ok"
  /\ UNCHANGED <<devSt, mapped, held, ready, mainPc, rgbPc, usbPc, sigOn,
                 hpc, videoDone, gadget>>

---------------------------------------------------------------------------
(* RGB thread: rgb_capture_func.                                           *)

rgbKeeps == <<mainPc, usbPc, sigOn, hpc, videoDone, allDone, gadget>>

(* init_video_device(MODULE_RGB, ...); on -1 the thread returns NULL      *)
(* without setting its bit.                                                *)
RgbInit ==
  /\ Runs("rgb") /\ rgbPc = "init"
  /\ Dev!InitVideoDevice("rgb")
  /\ rgbPc' = IF devSt'["rgb"] = "configured" THEN "start" ELSE "done"
  /\ UNCHANGED rgbKeeps

RgbStart ==
  /\ Runs("rgb") /\ rgbPc = "start"
  /\ Dev!StartVideoCapture("rgb")
  /\ rgbPc' = "loop"
  /\ UNCHANGED rgbKeeps

(* while (!g_video_done) *)
RgbLoop ==
  /\ Runs("rgb") /\ rgbPc = "loop"
  /\ rgbPc' = IF videoDone # 0 THEN "uninit" ELSE "dq"
  /\ UNCHANGED <<devVarsOf, rgbKeeps>>

(* dequeue_and_capture into rgb[idx], the stamp and rgb_index.  *)
RgbDequeue ==
  /\ Runs("rgb") /\ rgbPc = "dq"
  /\ Dev!DequeueAndCapture("rgb")
  /\ rgbPc' = "q"
  /\ UNCHANGED rgbKeeps

RgbQueue ==
  /\ Runs("rgb") /\ rgbPc = "q"
  /\ Dev!QueueCapture("rgb")
  /\ rgbPc' = "loop"
  /\ UNCHANGED rgbKeeps

RgbUninit ==
  /\ Runs("rgb") /\ rgbPc = "uninit"
  /\ Dev!UninitVideoDevice("rgb")
  /\ rgbPc' = "close"
  /\ UNCHANGED rgbKeeps

RgbClose ==
  /\ Runs("rgb") /\ rgbPc = "close"
  /\ Dev!CloseVideoDevice("rgb")
  /\ rgbPc' = "done_bit"
  /\ UNCHANGED rgbKeeps

(* g_all_done |= 1; return NULL. *)
RgbDoneBit ==
  /\ Runs("rgb") /\ rgbPc = "done_bit"
  /\ allDone' = allDone | 1 /\ rgbPc' = "done"
  /\ UNCHANGED <<devVarsOf, mainPc, usbPc, sigOn, hpc, videoDone, gadget>>

---------------------------------------------------------------------------
(* USB thread: usb_device_func.                                            *)

usbKeeps == <<devVarsOf, mainPc, rgbPc, sigOn, hpc, videoDone, allDone>>

(* init_uvc_gadget_device always returns 0. *)
UsbInit ==
  /\ Runs("usb") /\ usbPc = "init"
  /\ usbPc' = "loop"
  /\ UNCHANGED <<usbKeeps, gadget>>

(* while (!g_video_done) *)
UsbLoop ==
  /\ Runs("usb") /\ usbPc = "loop"
  /\ usbPc' = IF videoDone # 0 THEN "close" ELSE "process"
  /\ UNCHANGED <<usbKeeps, gadget>>

(* process_uvc_gadget_device(2000000): select for at most 2 s, then the   *)
(* events and the video buffers that are ready.                           *)
UsbProcess ==
  /\ Runs("usb") /\ usbPc = "process"
  /\ usbPc' = "loop"
  /\ UNCHANGED <<usbKeeps, gadget>>

(* close_uvc_gadget_device (UvcStreaming's Close). *)
UsbClose ==
  /\ Runs("usb") /\ usbPc = "close"
  /\ gadget' = "released" /\ usbPc' = "done_bit"
  /\ UNCHANGED usbKeeps

(* g_all_done |= 2; return NULL. *)
UsbDoneBit ==
  /\ Runs("usb") /\ usbPc = "done_bit"
  /\ allDone' = allDone | 2 /\ usbPc' = "done"
  /\ UNCHANGED <<devVarsOf, mainPc, rgbPc, sigOn, hpc, videoDone, gadget>>

---------------------------------------------------------------------------
(* signal_handler.  register_signal runs once both threads exist; before   *)
(* that a signal takes its default action.  The kernel hands a process     *)
(* signal to any thread that does not block it (none blocks these), and   *)
(* glibc's signal() blocks the signal while its handler runs.             *)

(* register_signal has run: main is past MainCreateUsb, whose step ends  *)
(* with it.                                                                *)
Registered ==
  mainPc \in {"init_depth", "start_depth", "loop", "dq", "q", "uninit",
              "close", "done_bit"}

(* Thread t exists and has not returned. *)
Alive(t) ==
  CASE t = "main" -> TRUE
    [] t = "rgb"  -> rgbPc \notin {"none", "done"}
    [] t = "usb"  -> usbPc \notin {"none", "done"}

Signal(t) ==
  /\ Running /\ sigOn = "none" /\ Registered /\ Alive(t)
  /\ sigOn' = t /\ hpc' = "flags"
  /\ UNCHANGED <<devVarsOf, mainPc, rgbPc, usbPc, videoDone, allDone, gadget>>

(* g_all_done = 0; g_video_done = 1. *)
HandlerFlags ==
  /\ Running /\ hpc = "flags"
  /\ allDone' = 0 /\ videoDone' = 1 /\ hpc' = "wait"
  /\ UNCHANGED <<devVarsOf, mainPc, rgbPc, usbPc, sigOn, gadget>>

(* while (1) { if (g_all_done == 7) break; usleep(10000); } *)
HandlerSpin ==
  /\ Running /\ hpc = "wait" /\ allDone # 7
  /\ UNCHANGED vars

(* The loop breaks: close_uvc_gadget_device, uninit and close of the      *)
(* depth device, exit(0).                                                  *)
HandlerExit ==
  /\ Running /\ hpc = "wait" /\ allDone = 7
  /\ proc' = "exit_ok"
  /\ UNCHANGED <<devSt, mapped, held, ready, mainPc, rgbPc, usbPc, sigOn, hpc,
                 videoDone, allDone, gadget>>

---------------------------------------------------------------------------
(* The cameras deliver frames while they stream. *)
Camera(m) ==
  /\ Running /\ Dev!Deliver(m)
  /\ UNCHANGED <<mainPc, rgbPc, usbPc, sigOn, hpc, videoDone, allDone, gadget>>

(* The process has ended: nothing runs any more. *)
Terminated == ~Running /\ UNCHANGED vars

MainStep ==
  \/ MainOpen("rgb", "open_rgb", "open_depth")
  \/ MainOpen("depth", "open_depth", "open_uvc")
  \/ MainOpenUvc \/ MainCreateRgb \/ MainCreateUsb \/ MainInitDepth
  \/ MainStartDepth \/ MainReturnError \/ MainLoop \/ MainDequeue
  \/ MainQueue \/ MainUninit \/ MainClose \/ MainReturn

RgbStep ==
  \/ RgbInit \/ RgbStart \/ RgbLoop \/ RgbDequeue \/ RgbQueue
  \/ RgbUninit \/ RgbClose \/ RgbDoneBit

UsbStep == UsbInit \/ UsbLoop \/ UsbProcess \/ UsbClose \/ UsbDoneBit

HandlerStep == HandlerFlags \/ HandlerSpin \/ HandlerExit

Next ==
  \/ MainStep \/ RgbStep \/ UsbStep
  \/ \E t \in Threads : Signal(t)
  \/ HandlerStep
  \/ \E m \in Dev!Modules : Camera(m)
  \/ Terminated

(* Every thread the handler has not taken over is scheduled, the handler  *)
(* runs its first statements, and a streaming camera keeps delivering;    *)
(* a signal may or may not come.                                          *)
Spec ==
  /\ Init /\ [][Next]_vars
  /\ WF_vars(MainStep) /\ WF_vars(RgbStep) /\ WF_vars(UsbStep)
  /\ WF_vars(HandlerFlags)
  /\ \A m \in Dev!Modules : WF_vars(Camera(m))

---------------------------------------------------------------------------
TypeOK ==
  /\ Dev!DevTypeOK
  /\ mainPc \in {"open_rgb", "open_depth", "open_uvc", "create_rgb",
                 "create_usb", "init_depth", "start_depth", "return_error",
                 "loop", "dq", "q", "uninit", "close", "done_bit"}
  /\ rgbPc \in {"none", "init", "start", "loop", "dq", "q", "uninit", "close",
                "done_bit", "done"}
  /\ usbPc \in {"none", "init", "loop", "process", "close", "done_bit", "done"}
  /\ sigOn \in Threads \cup {"none"} /\ hpc \in {"idle", "flags", "wait"}
  /\ videoDone \in {0, 1} /\ allDone \in 0..7
  /\ gadget \in {"closed", "open", "released"}

(* signal_handler's comment and its exit(0): a SIGINT, SIGTERM or SIGABRT *)
(* stops the threads, closes all the devices and ends the process.  It     *)
(* rests on every one of the three bits reaching g_all_done while the      *)
(* handler waits, one of them from the thread the handler runs on.        *)
SignalEndsProcess == (sigOn # "none") ~> ~Running

=============================================================================
