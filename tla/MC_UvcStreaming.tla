--------------------------- MODULE MC_UvcStreaming ---------------------------
EXTENDS UvcStreaming

(* Three allocations: the one of init_uvc_gadget_device and two COMMITs,   *)
(* enough for a set to be replaced, freed, and re-allocated after a free.  *)
MC_MaxAllocs == 3

====
