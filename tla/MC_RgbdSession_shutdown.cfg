\* Threads of rgbd_uvc_main with an optional signal: teardown order and
\* the USB thread's cooperative stop.  The process ends in every behaviour
\* that exits; Terminated keeps those states from being reported as deadlock.
CONSTANTS
  NBuf <- MC_NBuf
  MaxRgbFrames <- MC_MaxRgbFrames
SPECIFICATION Spec
\* One property: what happens after a signal.
PROPERTY RgbThreadJoined
