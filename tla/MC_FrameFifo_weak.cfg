CONSTANTS
  NumOfBuffer <- MC_NumOfBuffer
  NBufs <- MC_NBufs
  MaxFrames <- MC_MaxFrames

SPECIFICATION RelaxedSpec

PROPERTY FreshCopy
