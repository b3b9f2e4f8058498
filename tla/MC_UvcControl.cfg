SPECIFICATION Spec
CONSTANTS
  PuValues <- MC_PuValues
  AeValues <- MC_AeValues
  StreamReqs <- MC_StreamReqs
INVARIANT TypeOK
INVARIANT ProbeReadAfterWrite
INVARIANT ErrorCodeMatchesStall
