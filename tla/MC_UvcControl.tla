--------------------------- MODULE MC_UvcControl ---------------------------
EXTENDS UvcControl

(* Brightness/contrast payloads: one in range, and 300, above the 8-bit   *)
(* range (the spec's own example).                                          *)
MC_PuValues == {200, 300}

(* Auto-exposure mode 1 (manual); its one byte is also what the host      *)
(* would send to any other one-byte control.                              *)
MC_AeValues == {1}

(* Streaming-control payloads: format index 0 (below range), frame       *)
(* index 0 (below), 2 and 5 (above 4), and an interval between two        *)
(* supported ones and one above all of them.                               *)
MC_StreamReqs ==
  [fmt : {0}, frame : {0, 2, 5}, interval : {400000, 60000000}]

====
