SPECIFICATION Spec
CONSTANTS
  PuValues <- MC_PuValues
  AeValues <- MC_AeValues
  StreamReqs <- MC_StreamReqs
INVARIANT SensorBrightnessFromHost
