------------------------ MODULE MC_FrameFifoRelaxed ------------------------
(* FrameFifoRelaxed with the sizes of rgbd_uvc_main.cpp (see MC_FrameFifo). *)
EXTENDS FrameFifoRelaxed

MC_NumOfBuffer == 4
MC_NBufs == 2
MC_MaxFrames == 7
=============================================================================
