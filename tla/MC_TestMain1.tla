---------------------------- MODULE MC_TestMain1 ----------------------------
(* test_main1's program with the 4 capture buffers its init_video_device  *)
(* calls ask for.                                                          *)
EXTENDS TestMain1

MC_NBuf == 4

=============================================================================
