# TLA+ models of uvc-gadget (RGB-D to UVC bridge)

This directory holds TLA+ models of the uvc-gadget program. The program captures RGB and depth frames from two V4L2 devices and merges them. It then sends the merged frames to a USB host through the Linux UVC gadget driver. The models are written from the C/C++ sources under `src/src/`. TLC checks them with the configurations kept here. `PROJECT.json` lists every component, run, mutant, source mapping, finding and hazard.

## 1. The system

### Components, their state and operations

| Component | Source | State | Operations |
|---|---|---|---|
| Capture Device | `video_api.c` | fd, buffer array (`n_buffers`, `start`, `length`), streaming on/off in the driver, ownership of each buffer (driver queue or application) | `open_video_device`, `init_video_device` (`init_mmap`), `start_video_capture` (QBUF all, STREAMON), `dequeue_and_capture` (select, DQBUF), `queue_capture` (QBUF), `stop_video_capture` (STREAMOFF), `uninit_video_device` (munmap, free), `close_video_device`; `xioctl` retries EINTR/EAGAIN and calls `exit` on any other error |
| Frame FIFO | `RGBDClass.hpp` 31-49 (`fifo_t`, `INIT_FIFO`, `FIFO_EMPTY`, `FIFO_FULL`, `QUE_FIFO_HEAD`, `QUE_FIFO_TAIL`, `DATA_IN_FIFO`) | `uint8_t head, tail, mask`; slot array `fifo_mem` (room for 4 slots in `__fifo_data`) | init, full test, empty test, enqueue (write head slot, `head++ & mask`), dequeue (read tail slot, `tail++ & mask`) |
| Capture Orchestrator | `RGBDClass.cpp`, `rgbd_uvc_main.cpp` | `rgb_index`, 32 RGB slots `rgb[32]`, done flags `g_video_done`, `g_depth_done` and `g_uvc_done` in `thr_data`, the two capture devices, the gadget device, the FIFO, threads | `Init` (FIFO, open/init/start RGB, start RGB thread, start USB thread, open/init/start depth), `rgb_capture_func` (RGB thread loop), `runner` (one depth frame: dequeue, merge with the latest RGB slot, enqueue into FIFO or drop, re-queue), `fill_buf_func` (FIFO to UVC buffer), `usb_device_func` (USB thread loop), `Uninit`, `signal_handler` |
| UVC Gadget Engine | `uvc_api.c` | `uvc_device`: probe/commit `uvc_streaming_control`s, `control` (probe/commit selector of the pending DATA), `pu_bmcontrol_val`, `brightness_val`, `is_streaming`, `nbufs`, `dummy_buf`, `fcc/width/height/imgsize`, `request_error_code`, `uvc_shutdown_requested` | `uvc_events_process` (SETUP, DATA, STREAMON, STREAMOFF, CONNECT, DISCONNECT), `uvc_events_process_setup` / `_control` / `_streaming` / `_data`, `uvc_handle_streamon_event`, `uvc_video_reqbufs_*`, `uvc_video_qbuf_*`, `uvc_video_stream`, `uvc_video_process`, `uvc_uninit_device` |
| Utilities | `util_api.c`, `private_vector.cpp`, `object.h`, `listener.h` | none shared with the pipeline | logging, timing, containers |
| `test_main1` program | `test_main1.cpp` | `g_video_done`, `g_all_done` (one bit per thread), the two capture devices, the gadget, three threads | `main` (opens, thread creation, `register_signal`, depth loop, teardown), `rgb_capture_func`, `usb_device_func`, `signal_handler` |
| Earlier application and other tests | `RGBDSensor.cpp`, `application.cpp`, `test_rgbd.cpp`, `test_rgbd_uvc.cpp`, `test_uvc.cpp`, `capture.cpp` | the same components, wired differently | alternative `main`s |

### How the components interact

Three threads share the orchestrator (`TRGBDClass`):

- **RGB thread** (`rgb_capture_func`). It dequeues RGB frames into `rgb[rgb_index]` and advances `rgb_index` modulo 32.
- **Main thread** (`runner`, called in a loop by `main`). It dequeues a depth frame and takes the latest RGB slot, `rgb[(rgb_index-1)&31]`. If `FIFO_FULL` is false, it writes the merged frame into the FIFO's head slot and advances head. If the FIFO is full, it drops the frame. In either case it re-queues the depth buffer.
- **USB thread** (`usb_device_func`, which calls `process_uvc_gadget_device`). It waits on the gadget fd:
  - Control events drive `uvc_events_process`.
  - Each output buffer the host returns drives `uvc_video_process`: DQBUF, then `fill_buf_func` (copy the FIFO's tail slot and advance tail; an empty FIFO leaves the buffer unchanged), then QBUF.

The FIFO's head and tail are plain `uint8_t`s. No lock, atomic or fence protects them.

When the host commits a format in bulk mode, the gadget stops streaming, re-allocates buffers and restarts.

### Hard behaviours

- The producer and consumer interleave on the FIFO with unfenced index stores.
- The RGB thread and the merge interleave on `rgb[]` and `rgb_index`.
- Only 2 UVC buffers cycle, so an empty FIFO re-sends an older frame.
- The FIFO holds one frame fewer than its size.
- The control DATA phase is routed by state left over from the previous SETUP.
- Commit in bulk mode re-allocates buffers without freeing the old ones.
- Shutdown from a signal handler while the threads are still blocked in `select`.

### What makes each component correct

- **FIFO:** frames come out in capture order, each once, and never before they are written. A full FIFO drops rather than overwriting. This is the bounded queue of spec section 4.3.
- **Capture Device:** DQBUF and QBUF only while streaming. A buffer is owned by the application or the driver, never by both. Uninit releases every buffer.
- **Orchestrator:** the merge uses an RGB frame that was captured. Shutdown stops the threads before it stops the devices, and it terminates.
- **UVC Gadget:** a DATA phase applies to the control its SETUP named. GET_CUR returns what SET_CUR stored. Commit keeps the negotiated format. Streaming implies buffers are allocated, and at most one buffer set is live.

## 2. Modules

| Module | Models | Composes |
|---|---|---|
| `FifoQueue` | Abstract spec: the drop-on-full bounded queue that the FIFO promises | — |
| `FrameFifo` | The FIFO, `runner`'s push, and `uvc_video_process` + `fill_buf_func`, in program order | refines `FifoQueue` |
| `FrameFifoRelaxed` | `FrameFifo` plus the store reorderings the unfenced code allows | extends `FrameFifo` |
| `UvcControl` | SETUP/DATA handling of `uvc_events_process`: routing, the control response table, probe/commit negotiation, brightness/contrast | — |
| `UvcStreaming` | The gadget's USERPTR output-buffer life cycle: COMMIT, STREAMOFF, DISCONNECT, `uvc_video_process`, close | — |
| `CaptureDevice` | The two V4L2 capture devices of `video_api.c`, with every way each call can end the process | — |
| `RgbdSession` | `main`, `Init`, `runner`'s loop, the RGB and USB threads, and `signal_handler` running `Uninit` | `INSTANCE CaptureDevice` |
| `TestMain1` | The program of `test_main1.cpp`: its `main`, RGB and USB threads, and `signal_handler` on whichever thread takes the signal | `INSTANCE CaptureDevice` |

Each `MC_*` module gives the constants their values. Each `.cfg` selects the properties.

## 3. Correspondence to the code

### `FrameFifo`, `FrameFifoRelaxed`, `FifoQueue`

| Model | Code |
|---|---|
| `head`, `tail` | `fifo_t.head`, `fifo_t.tail` |
| `slot[i]` | The frame whose payload `fifo_mem[i]` holds. Frames are numbered 1, 2, ... in capture order; 0 is memory no frame wrote. |
| `ppc`, `pidx` | Position inside `runner` |
| `cpc`, `cidx`, `cbuf` | Position inside `uvc_video_process` / `fill_buf_func` |
| `ubuf[b]`, `unext` | The frame UVC buffer `b` holds; the buffer the next DQBUF returns |
| `sent`, `prevSent` | The last two frames queued to the host |

The producer actions are `ProducerCapture` (DQBUF and `FIFO_FULL`), `ProducerWrite` (the memcpy) and `ProducerPublish` (`QUE_FIFO_HEAD` and the re-queue). The consumer actions are `ConsumerDequeue`, `ConsumerCopy` and `ConsumerAdvance` (`QUE_FIFO_TAIL` and QBUF).

`FrameFifoRelaxed` adds the `...Early` actions, in which an index store becomes visible before the copy it follows. It also adds the `...Late...` actions, which perform the copy that was overtaken.

`FifoQueue` has three variables:
- `queue`: the frames waiting;
- `pending`: a frame accepted but not yet appended;
- `next`: the last frame captured.

### `UvcControl`

The variables are the `uvc_device` fields of the same name: `control`, `puCs` (`pu_bmcontrol_val`), `descType`, `errCode` (`request_error_code`), `brightness`, `probe`, `commit`, `width`, `height`. Beside them:
- `sensorB`/`sensorC` hold what `vidioc_set_ctrl` last gave the RGB sensor;
- `reply` is what the host received;
- `pending`, `hostB` and `hostProbe` record what the host asked for.

Actions:
- `SetupControl`, `SetupStreaming` and `SetupOther` model a SETUP to the VideoControl interface, a SETUP to the VideoStreaming interface, and the other requests.
- `Data` models `uvc_events_process_data`. It uses `PuData` and `StreamData`.
- `VidiocSetCtrl` is `vidioc_set_ctrl` on the RGB camera; its result is ignored by the code and taken as success. `ContrastVal(v)` is what `vidioc_set_ctrl` receives for a contrast SET_CUR: the 2 bytes the host sent land in the uninitialised local `val`, whose upper half is either zero or stack garbage (`uvc_api.c:1303`).
- `FillCtrl`, `NegotiatedCtrl`, `IntervalScan` and `Clamp` are the negotiation. `RefCtrl` is a reference definition written from the UVC rules, and `ProbeReadAfterWrite` compares the two.

### `UvcStreaming`

- A buffer set is a number in allocation order; 0 is NULL.
- The code's variables: `isStreaming`, `shutdown`, `dummy` (`dummy_buf`), `mem`.
- Allocation bookkeeping: `live`, `nalloc`, `frees`.
- The driver's queue: `drvOn`, `drvQueued` (how many of the `NBufs = 2` user pointers it holds), `drvSet` (the set they point into).
- `closed` records that the gadget was closed.

`ReqBufs`, `VideoQbuf`, `VideoStreamOn`, `VideoFillBuffer` and `UninitDevice` are the helpers. `VideoProcess` is `uvc_video_process`: DQBUF, the fill into `dev->mem`, and a QBUF whose failure drops the buffer, so the driver holds one fewer and streaming stops once none is left. `Commit`, `StreamOff`, `Disconnect`, `VideoProcess` and `Close` are the events. Each ioctl and allocation the code checks can fail, as a nondeterministic outcome.

### `CaptureDevice`

| Variable | Meaning |
|---|---|
| `devSt[m]` | The device's state: `closed`, `opened`, `configured`, `streaming` or `uninit` |
| `mapped[m]` | The buffers still mmap'ed |
| `held[m]` | The caller holds a dequeued buffer |
| `ready[m]` | The camera has filled a buffer |
| `proc` | How the process ended: `running`, `exit_failure`, `crash` or `exit_ok` |

There is one operator per function:
- `OpenVideoDevice`, `InitVideoDevice`, `StartVideoCapture`, `StopVideoCapture`;
- `DequeueAndCapture` and `SelectRetry` (the select loop on a closed fd);
- `QueueCapture`, `UninitVideoDevice`, `CloseVideoDevice`.

`Fail` is `xioctl`'s `exit(EXIT_FAILURE)`. `InitVideoDevice` has four outcomes:
- it returns 0;
- it returns -1, when one of the plain ioctls S_PARM, S_INPUT, crop or S_FMT fails;
- it exits;
- it crashes on the unchecked mmap.

Only `IO_METHOD_MMAP` is modelled, because `open_video_device` always sets it (`video_api.c:136`).

### `RgbdSession`

- `mainPc`, `rgbPc` and `usbPc` are the three threads' positions.
- `sig` and `upc` give the signal handler's position inside `Uninit`.
- `videoDone`, `depthDone` and `uvcDone` are the `thr_data` flags; `Constructed` is the `TRGBDClass` constructor clearing them.
- `gadget` is the UVC device's state, and `deleted` says that `delete c` has run.

Each statement of `Init`, `runner`, `rgb_capture_func`, `usb_device_func` and `Uninit` that calls a device or changes a flag is one action. Device calls go through `Dev!...`, an instance of `CaptureDevice`.

- `rgbIndex`, `rgbSlot[i]` and `rgbFrames` are `rgb_index`, the frame number in `rgb[i]` (0: no frame) and the last frame number; `copyIdx` and `copyFrom` are `runner`'s `idx` and the frame in that slot when the copy began. `MainMerge` reads `rgb_index` and tests `FIFO_FULL`; `MainCopy` is the stamps, memcpys and `QUE_FIFO_HEAD`.

The handler is installed before `Init` (`rgbd_uvc_main.cpp:78`), so `Signal` may come at any position of the main thread. `Uninit` then STREAMOFFs a device not yet opened (the static fd is 0) and exits, or joins a thread never created and crashes; `pthread_create` on the deleted object crashes, and either `pthread_create` may fail, making `Init` return an error that `main` ignores. The handler runs on the main thread, which stays where it was interrupted. When the handler returns, main continues on the deleted object. The object is an 80 MB allocation that glibc unmaps, so that access is modelled as a crash. `UvcOpen` models the failure paths of `uvc_open`. `Init`'s error returns are ignored by `main`, as in the code.

### `TestMain1`

`test_main1.cpp` is a stand-alone program built from the same device and gadget APIs. Its `main` opens both capture devices and the gadget, and starts a detached RGB thread and USB thread. It then installs `signal_handler` and runs the depth loop itself. Shutdown is a handshake on two statics. The handler clears `g_all_done` and sets `g_video_done`. Each thread leaves its loop, releases its device and ORs in its bit: RGB 1, USB 2, main 4. The handler waits for 7 before it closes the devices and calls `exit(0)`.

- `mainPc`, `rgbPc` and `usbPc` are the threads' positions. Each statement that calls a device, tests `g_video_done` or sets a bit is one action.
- `sigOn` is the thread the handler runs on, and `hpc` is the handler's position. The kernel gives a process-directed signal to any thread that does not block it, so `Signal(t)` picks any live thread `t`. That thread's own actions are disabled while the handler runs (`Runs(t)`).
- `videoDone` and `allDone` are `g_video_done` and `g_all_done`. The ORs use `Bitwise`'s `|`.
- `HandlerSpin` is the `usleep` loop, a step that changes nothing. `HandlerExit` is the break and everything after it.
- Returning from `main` ends the process: `MainReturnError` covers the error codes, and `MainReturn` returns 0.
- The FIFO copy and `fill_buf_func` are folded into `MainDequeue` and `UsbProcess`; they are `FrameFifo`'s.
- `depth_capture_func` is not modelled, because its `pthread_create` is commented out.
- A signal is modelled only after `register_signal` (`Registered`: `main` is past the step that ends with it); before that it takes its default action.

## 4. Runs

| Run | Config | Expect | States | Shows |
|---|---|---|---|---|
| `fifo_sc` | `MC_FrameFifo.cfg` | pass | 2,996 | `FreshCopy`: the fill never copies an unwritten or already-delivered slot. `FifoRefinement`: the FIFO is the drop-on-full queue of capacity size−1, one fewer than the 4 frames spec section 8 says are kept (a finding of this run). |
| `fifo_weak_order` | `MC_FrameFifo_weak.cfg` | violation | | The unfenced `QUE_FIFO_HEAD` store is seen before the payload, so the fill copies a slot no frame wrote. |
| `fifo_wire_order` | `MC_FrameFifo_wire.cfg` | violation | | With 2 UVC buffers, an empty FIFO re-sends an older frame after a newer one. |
| `uvc_control` | `MC_UvcControl.cfg` | pass | 249,841 | `ProbeReadAfterWrite`: a probe GET_CUR returns the negotiated control. `ErrorCodeMatchesStall`: every stalled VC SETUP leaves a non-zero error code, and no accepted one does. |
| `uvc_ae_as_brightness` | `MC_UvcControl_ae.cfg` | violation | | A SET_CUR with control selector 2 to the VideoControl interface (the request error code; TLC's trace) or to the camera terminal (AE mode) reaches the sensor as a brightness change, because the DATA stage is routed by the last SETUP's selector. |
| `uvc_buffers` | `MC_UvcStreaming.cfg` | pass | 446 | `NoDoubleFree` and `BuffersLive` hold: no set is freed twice, and neither the driver nor the fill uses freed memory, under any event order and any failure. `FillWritesSentBuffer`: whenever `uvc_video_process` can run, the fill writes into the set whose buffers the driver sends, although `uvc_video_qbuf` queues `dev->dummy_buf` and the fill uses `dev->mem`. |
| `uvc_commit_leak` | `MC_UvcStreaming_leak.cfg` | violation | | Every COMMIT leaks the previous buffer set. |
| `uvc_null_uninit` | `MC_UvcStreaming_null.cfg` | violation | | A failed calloc during COMMIT makes the next STREAMOFF free through NULL. |
| `rgbd_session` | `MC_RgbdSession.cfg` | pass | 207,432 | `ThreadDevicesLive`: no device or gadget is torn down while its thread runs, whether the signal comes during `Init` or in the runner loop. `JoinsReturn`: once the handler is at one of `Uninit`'s `pthread_join`s, it gets past both, or the process has ended; a thread the signal found initialising, dequeuing or serving the gadget sees its flag. |
| `rgbd_shutdown` | `MC_RgbdSession_shutdown.cfg` | violation | | After a signal that finds the RGB thread capturing, the thread is never joined. `Uninit` stops the RGB stream (`RGBDClass.cpp:340`) before it sets `g_video_done` (343), so the thread's next DQBUF is on a stopped queue and `xioctl` calls `exit(EXIT_FAILURE)`. The property holds when `Uninit` sets the flags and joins before stopping the streams, so the violation comes from that order. |
| `test_main1_signal_hang` | `MC_TestMain1.cfg` | violation | | In `test_main1`, a signal never ends the process once the handler runs on the main thread. The handler waits for `g_all_done == 7`, but bit 4 is set only by `main` after its loop, and `main` is the thread the handler occupies. TLC's trace: the signal lands on the main thread, the RGB and USB threads finish with `g_all_done = 2`, and the handler spins for ever. On another thread the process ends only because `main` returns. |
| `rgb_slot_copy` | `MC_RgbdSession_slots.cfg` | violation | | `runner` copies an RGB slot no frame wrote: the depth device is started while the RGB thread is still initialising, so `(rgb_index-1)&31` names slot 31. With more frames, the RGB thread comes round and writes the slot `runner` is copying (frame 33 over frame 1). |

Each passing property has a mutant in `PROJECT.json`: a plausible bug in the mapped code that TLC finds. Examples are a missing `tail` advance, a `NoWait` join, and an interval scan one step too far.

### Bounds

- **FIFO:**
  - `NumOfBuffer = 4` (`rgbd_uvc_main`);
  - 2 UVC buffers (`init_uvc_gadget_device`);
  - `MaxFrames = 7`, enough to wrap the indices and to fill, drain and fill the FIFO again.
- **UvcControl:**
  - one in-range and one out-of-range brightness value;
  - AE mode 1;
  - streaming requests with a format, frame and interval below, inside and above their ranges.

  Every branch of the clamps and the interval scan is reached.
- **UvcStreaming:** `MaxAllocs = 3`: the initial set plus two COMMITs. That is enough to replace a set, free it and allocate again.
- **RgbdSession:** `NBuf = 4` (the depth device's `num_of_driverbuf`). RGB frame numbers saturate at `MaxRgbFrames`: 0 in `rgbd_session` and `rgbd_shutdown`, whose properties never read slot contents, and 33 in `rgb_slot_copy`, one more than a lap of the 32 slots, so that a slot can be written again while it is copied. Saturation rather than a cap on frames keeps the RGB thread able to dequeue, so the handler's join is not blocked by the bound. At most one signal, which is all `signal_handler` can usefully take: a second one would call `Uninit` on a deleted object.

- **TestMain1:** `NBuf = 4` and one signal. `glibc`'s `signal()` blocks a signal while its handler runs, and the first handler never returns, so a second signal cannot end the wait either. The state space is small (4,122 states) and TLC explores all of it.

### Fairness and deadlock

- `FrameFifo` assumes weak fairness of the producer and the consumer. `main` calls `runner` back to back, and the USB thread serves every returned buffer.
- `RgbdSession` assumes weak fairness of each thread, the handler and a streaming camera, as the OS scheduler and the sensors provide. There is no fairness on `Signal`: a signal may never come.
- `TestMain1` assumes weak fairness of each thread, of the handler's first step and of a streaming camera, as `RgbdSession` does; a thread the handler occupies takes no steps. `HandlerSpin` and `Terminated` are explicit steps, so a spinning handler or an ended process is not a deadlock.
- `UvcControl` and `UvcStreaming` have no liveness properties. `UvcStreaming` turns off deadlock checking because `close_uvc_gadget_device` really ends the gadget. `RgbdSession` checks deadlock, and its `Terminated` step lets an ended process stutter.

## 5. Not modelled, and why

- **The bytes of the RGB slots.** A slot holds a frame number; a torn copy is shown by the slot changing while `runner` copies it, not by its bytes.
- **What a failed `Init` should lead to.** The model has every failure path, but the spec says nothing of them, so no run states a property of them beyond `ThreadDevicesLive` and `JoinsReturn`.
- **What follows the handler's return in `rgbd_uvc_main`.** The model has it: `main` crashes on the deleted object, or spins in `select` on the closed depth fd. `main` never leaves its loop with `c` alive, so the process has no clean exit for a property to ask for.
- **The 2 s timeout of `process_uvc_gadget_device`.** `UsbProcess` always returns, as the timeout makes it do; `JoinsReturn` relies on this rather than checking it.
- **The MMAP and isochronous paths of the gadget, and the USERPTR and read paths of the capture devices.** The code never selects them.
- **Behaviours that are modelled but not checked by a run of their own**, because the project is held to 12 runs and those go to the findings listed above. They are listed as hazards:
  - the ignored STREAMON result (`uvc_api.c:777`);
  - contrast GET_CUR answering the brightness (`uvc_api.c:1111`);
  - the garbage upper half of the contrast value (`uvc_api.c:1303`);
  - the buffer lost when `uvc_video_process`'s QBUF fails (`uvc_api.c:476`);
  - COMMIT forcing 640x480 whatever frame was committed (`uvc_api.c:1443`). `UvcControl` still models it: `commit.size` is the committed frame's size, while `width` and `height` are 640x480. Its run was given up for `test_main1_signal_hang`, because the code marks the forcing as deliberate (`//550;//480`).
- **A failing VIDIOC_S_CTRL on the RGB camera (`uvc_api.c:1319`).** `VidiocSetCtrl` takes it as success, so that `uvc_ae_as_brightness` shows the routing fault alone; the ignored result is a hazard.
- **The byte length of a DATA payload.** A payload is its value, so the overflow of a host sending more than 4 bytes (`uvc_api.c:1305`) is not reached.
- **`uvc_video_set_format`** at init and on COMMIT. Its only effect the code depends on is the driver's image size, which makes a later QBUF fail; that QBUF failure is already one of `VideoQbuf`'s outcomes.
- **The `TRGBDSensor`/`TApplication` skeleton.** No program builds it: the only `main` that would, at `test_main1.cpp:14-23`, is commented out. Its handler waits for `g_all_done == 3`, and nothing in `RGBDSensor.cpp` ever sets a bit. This is the same hang `TestMain1` shows, in a program nobody runs.
- **`test_rgbd.cpp`, `test_rgbd_uvc.cpp`, `test_uvc.cpp`, `capture.cpp`.** They repeat `test_main1`'s wiring, or they are host-side viewers.
- **The racing `g_all_done` read-modify-writes in `test_main1`.** They are single steps in the model. Since the handler can never see 7, a lost update would not change what the run shows.
- **Pixel contents, stamps, logging and the utilities.** No property depends on them.
