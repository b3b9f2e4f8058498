--------------------------- MODULE MC_FrameFifo ---------------------------
(* Instantiates FrameFifo with the sizes of rgbd_uvc_main.cpp: a FIFO of  *)
(* 4 slots (new TRGBDClass(4)) and the 2 UVC buffers of                   *)
(* init_uvc_gadget_device.  Seven frames wrap head and tail around the    *)
(* four slots and fill the queue more than once.                          *)
EXTENDS FrameFifo

MC_NumOfBuffer == 4
MC_NBufs == 2
MC_MaxFrames == 7
=============================================================================
