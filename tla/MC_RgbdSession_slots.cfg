\* The RGB slot hand-off between rgb_capture_func and runner.
CONSTANTS
  NBuf <- MC_NBuf
  MaxRgbFrames <- MC_MaxRgbFramesLap
SPECIFICATION Spec
\* One property: which frame runner copies.
INVARIANT RunnerCopiesCapturedFrame
