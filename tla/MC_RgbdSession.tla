--------------------------- MODULE MC_RgbdSession ---------------------------
(* The session with the 4 capture buffers Init and rgb_capture_func ask   *)
(* for (num_of_buffer = 4).                                                *)
EXTENDS RgbdSession

MC_NBuf == 4

(* Teardown and shutdown: the properties of these runs do not read the   *)
(* slot contents, so RGB frames are not told apart (rgb_index still runs   *)
(* round the 32 slots).                                                    *)
MC_MaxRgbFrames == 0

(* The slot hand-off: 33 RGB frames told apart, one more than the 32     *)
(* slots, so that the RGB thread can come round to the slot runner copies. *)
MC_MaxRgbFramesLap == 33

=============================================================================
