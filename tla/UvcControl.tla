----------------------------- MODULE UvcControl -----------------------------
(***************************************************************************)
(* Control requests of the UVC gadget engine (uvc_api.c): the SETUP stage  *)
(* (uvc_events_process_setup, _class, _control, _streaming) and the DATA   *)
(* stage (uvc_events_process_data, _control_data) of class requests, with  *)
(* the probe/commit negotiation, the processing-unit brightness/contrast   *)
(* controls, the camera-terminal auto-exposure control and the request     *)
(* error code.  The host is the environment: it sends any SETUP, and after *)
(* a SET_CUR that was not stalled it sends the DATA stage of the same      *)
(* transfer, carrying a payload for the control it addressed.              *)
(*                                                                         *)
(* The buffer side effects of a COMMIT in bulk mode (STREAMOFF, reqbufs,   *)
(* STREAMON) are the Commit action of UvcStreaming.                        *)
(***************************************************************************)
EXTENDS Integers, Sequences, FiniteSetsExt

CONSTANTS
  PuValues,     \* values the host sends in a brightness/contrast SET_CUR
  AeValues,     \* values the host sends in an auto-exposure mode SET_CUR
  StreamReqs    \* streaming-control payloads the host sends (probe/commit)

(* uvc_frames_yuyv, the frames of the only format in uvc_formats. *)
Frames ==
  << [w |-> 640,  h |-> 550, iv |-> << 333333, 500000, 666666, 1000000, 2000000, 10000000 >>],
     [w |-> 640,  h |-> 480, iv |-> << 333333, 500000, 666666, 1000000, 2000000, 10000000 >>],
     [w |-> 640,  h |-> 360, iv |-> << 666666, 10000000, 50000000 >>],
     [w |-> 1280, h |-> 720, iv |-> << 50000000 >>] >>
NFormats == 1                                    \* ARRAY_SIZE(uvc_formats)

PU_BRIGHTNESS_MAX_VAL == 255
PU_BRIGHTNESS_DEFAULT_VAL == 127

(* Request codes and selectors (linux/usb/video.h). *)
Reqs == {"SET_CUR", "GET_CUR", "GET_MIN", "GET_MAX", "GET_RES", "GET_LEN",
         "GET_INFO", "GET_DEF"}
UVC_VS_PROBE_CONTROL == 1
UVC_VS_COMMIT_CONTROL == 2
UVC_VC_REQUEST_ERROR_CODE_CONTROL == 2
UVC_CT_AE_MODE_CONTROL == 2
UVC_PU_BRIGHTNESS_CONTROL == 2
UVC_PU_CONTRAST_CONTROL == 3
Entities == 0..3          \* interface, camera terminal, processing unit, other
Selectors == 1..3

NoCtrl == [fmt |-> 0, frame |-> 0, interval |-> 0, size |-> 0]
NoSetup == [iface |-> "none", ent |-> 0, cs |-> 0]

VARIABLES
  control,      \* dev->control: streaming control the next DATA is for
  puCs,         \* dev->pu_bmcontrol_val: cs of the last VC request
  descType,     \* dev->descriptor_type: entity of the last VC request
  errCode,      \* dev->request_error_code: [data |-> ..., length |-> ...]
  brightness,   \* dev->brightness_val
  probe,        \* dev->probe
  commit,       \* dev->commit
  width, height,\* dev->width, dev->height (dev->imgsize = width*height*2)
  sensorB,      \* last V4L2_CID_BRIGHTNESS set on the RGB sensor, -1: none
  sensorC,      \* last V4L2_CID_CONTRAST set on the RGB sensor, -1: none
  reply,        \* what the host got for the last SETUP or DATA
  pending,      \* the host's SET_CUR whose DATA stage comes next
  hostB,        \* last brightness the host set and had accepted
  hostProbe     \* what the host's last PROBE SET_CUR should have negotiated

vars == <<control, puCs, descType, errCode, brightness, probe, commit, width,
          height, sensorB, sensorC, reply, pending, hostB, hostProbe>>

---------------------------------------------------------------------------
(* clamp() of uvc_api.c *)
Clamp(v, lo, hi) == IF v < lo THEN lo ELSE IF v > hi THEN hi ELSE v

(* Mutant of IntervalScan: the loop tests the next interval, not the      *)
(* current one, and so stops one interval early.                           *)
RECURSIVE IntervalScanNext(_, _, _)
IntervalScanNext(iv, req, k) ==
  IF k < Len(iv) /\ iv[k + 1] < req THEN IntervalScanNext(iv, req, k + 1)
  ELSE iv[k]

(* while (interval[0] < dwFrameInterval && interval[1]) ++interval;       *)
RECURSIVE IntervalScan(_, _, _)
IntervalScan(iv, req, k) ==
  IF iv[k] < req /\ k < Len(iv) THEN IntervalScan(iv, req, k + 1) ELSE iv[k]

(* uvc_fill_streaming_control(dev, ctrl, iframe, 0) for the YUYV format:  *)
(* the first interval of frame iframe (1-based here).                      *)
FillCtrl(iframe) ==
  [fmt |-> 1, frame |-> iframe, interval |-> Frames[iframe].iv[1],
   size |-> Frames[iframe].w * Frames[iframe].h * 2]

(* The probe/commit branch of uvc_events_process_data: the fields it      *)
(* writes into the target from the host's payload p.                      *)
NegotiatedCtrl(p) ==
  LET iformat == Clamp(p.fmt, 1, NFormats)
      iframe  == Clamp(p.frame, 1, Len(Frames))
  IN [fmt |-> iformat, frame |-> iframe,
      interval |-> IntervalScan(Frames[iframe].iv, p.interval, 1),
      size |-> Frames[iframe].w * Frames[iframe].h * 2]

(* Spec section 4.2, the reference the negotiation is checked against:   *)
(* a format or frame index outside the supported range becomes the       *)
(* nearest valid index, and the interval is the closest supported one not *)
(* smaller than requested (the largest if all are smaller).               *)
Nearest(v, n) == CHOOSE i \in 1..n : \A j \in 1..n :
                   (i - v) * (i - v) <= (j - v) * (j - v)
IntervalRef(iv, req) ==
  LET all == {iv[k] : k \in DOMAIN iv}
      notSmaller == {x \in all : x >= req}
  IN IF notSmaller # {} THEN Min(notSmaller) ELSE Max(all)
RefCtrl(p) ==
  LET f == Nearest(p.frame, Len(Frames)) IN
  [fmt |-> Nearest(p.fmt, NFormats), frame |-> f,
   interval |-> IntervalRef(Frames[f].iv, p.interval),
   size |-> Frames[f].w * Frames[f].h * 2]

Init ==
  /\ control = 0 /\ puCs = 0 /\ descType = 0     \* calloc in uvc_open
  /\ errCode = [data |-> 0, length |-> 0]
  /\ brightness = 0
  /\ probe = FillCtrl(1) /\ commit = FillCtrl(1)  \* uvc_events_init
  /\ width = 640 /\ height = 550                  \* init_uvc_gadget_device
  /\ sensorB = -1 /\ sensorC = -1
  /\ reply = [of |-> NoSetup, req |-> "none", stall |-> FALSE, num |-> 0,
              ctrl |-> NoCtrl]
  /\ pending = NoSetup
  /\ hostB = -1
  /\ hostProbe = FillCtrl(1)

---------------------------------------------------------------------------
(* uvc_events_process_control: the response and the new request error     *)
(* code of a class request to the video-control interface.  err = -1      *)
(* leaves the error code as it was; stall: resp->length stays -EL2HLT.    *)
Ack(err, num) == [stall |-> FALSE, err |-> err, num |-> num]
Stall(err) == [stall |-> TRUE, err |-> err, num |-> 0]

(* Mutant of VcResult: an unsupported request to a processing-unit        *)
(* control is stalled without preparing an error code.                    *)
VcResultNoErr(req, cs, ent) ==
  CASE ent = 0 ->
         IF cs = UVC_VC_REQUEST_ERROR_CODE_CONTROL
           THEN Ack(-1, errCode.data) ELSE Stall(6)
    [] ent = 1 ->
         IF cs # UVC_CT_AE_MODE_CONTROL THEN Stall(6)
         ELSE CASE req = "SET_CUR" -> Ack(0, 1)
                [] req = "GET_INFO" -> Ack(0, 3)
                [] req \in {"GET_CUR", "GET_DEF", "GET_RES"} -> Ack(0, 2)
                [] OTHER -> Stall(7)
    [] ent = 2 ->
         IF cs \notin {UVC_PU_BRIGHTNESS_CONTROL, UVC_PU_CONTRAST_CONTROL}
           THEN Stall(6)
         ELSE CASE req \in {"SET_CUR", "GET_MIN"} -> Ack(0, 0)
                [] req = "GET_MAX" -> Ack(0, PU_BRIGHTNESS_MAX_VAL)
                [] req = "GET_CUR" -> Ack(0, brightness)
                [] req = "GET_INFO" -> Ack(0, 3)
                [] req = "GET_DEF" -> Ack(0, PU_BRIGHTNESS_DEFAULT_VAL)
                [] req = "GET_RES" -> Ack(0, 1)
                [] OTHER -> Stall(-1)
    [] OTHER -> Stall(6)

VcResult(req, cs, ent) ==
  CASE ent = 0 ->
         IF cs = UVC_VC_REQUEST_ERROR_CODE_CONTROL
           THEN Ack(-1, errCode.data) ELSE Stall(6)
    [] ent = 1 ->
         IF cs # UVC_CT_AE_MODE_CONTROL THEN Stall(6)
         ELSE CASE req = "SET_CUR" -> Ack(0, 1)
                [] req = "GET_INFO" -> Ack(0, 3)
                [] req \in {"GET_CUR", "GET_DEF", "GET_RES"} -> Ack(0, 2)
                [] OTHER -> Stall(7)
    [] ent = 2 ->
         IF cs \notin {UVC_PU_BRIGHTNESS_CONTROL, UVC_PU_CONTRAST_CONTROL}
           THEN Stall(6)
         ELSE CASE req \in {"SET_CUR", "GET_MIN"} -> Ack(0, 0)
                [] req = "GET_MAX" -> Ack(0, PU_BRIGHTNESS_MAX_VAL)
                [] req = "GET_CUR" -> Ack(0, brightness)
                [] req = "GET_INFO" -> Ack(0, 3)
                [] req = "GET_DEF" -> Ack(0, PU_BRIGHTNESS_DEFAULT_VAL)
                [] req = "GET_RES" -> Ack(0, 1)
                [] OTHER -> Stall(7)
    [] OTHER -> Stall(6)

(* SETUP of a class request to the video-control interface:               *)
(* uvc_events_process_setup clears dev->control, then                     *)
(* uvc_events_process_control records cs and entity and answers.          *)
SetupControl ==
  /\ pending = NoSetup
  /\ \E req \in Reqs, cs \in Selectors, ent \in Entities :
       LET r == VcResult(req, cs, ent)
           to == [iface |-> "VC", ent |-> ent, cs |-> cs]
       IN /\ control' = 0
          /\ puCs' = cs /\ descType' = ent
          /\ errCode' = IF r.err = -1 THEN errCode
                        ELSE [data |-> r.err, length |-> 1]
          /\ reply' = [of |-> to, req |-> req, stall |-> r.stall,
                       num |-> r.num, ctrl |-> NoCtrl]
          /\ pending' = IF req = "SET_CUR" /\ ~r.stall THEN to ELSE NoSetup
  /\ UNCHANGED <<brightness, probe, commit, width, height, sensorB, sensorC,
                 hostB, hostProbe>>

(* uvc_events_process_streaming: the answer to a request on the video-    *)
(* streaming interface; only PROBE and COMMIT are served.                 *)
VsReply(req, cs) ==
  LET to == [iface |-> "VS", ent |-> 0, cs |-> cs]
      Rep(num, ctrl) == [of |-> to, req |-> req, stall |-> FALSE,
                         num |-> num, ctrl |-> ctrl]
  IN CASE cs \notin {UVC_VS_PROBE_CONTROL, UVC_VS_COMMIT_CONTROL} ->
            [Rep(0, NoCtrl) EXCEPT !.stall = TRUE]
       [] req = "GET_CUR" ->
            Rep(0, IF cs = UVC_VS_PROBE_CONTROL THEN probe ELSE commit)
       [] req \in {"GET_MIN", "GET_DEF"} -> Rep(0, FillCtrl(1))
       [] req = "GET_MAX" -> Rep(0, FillCtrl(Len(Frames)))
       [] req = "GET_LEN" -> Rep(34, NoCtrl)
       [] req = "GET_INFO" -> Rep(3, NoCtrl)
       [] OTHER -> Rep(0, NoCtrl)                 \* SET_CUR, GET_RES

(* SETUP of a class request to the video-streaming interface. *)
SetupStreaming ==
  /\ pending = NoSetup
  /\ \E req \in Reqs, cs \in Selectors :
       /\ control' = IF req = "SET_CUR" /\ cs \in {UVC_VS_PROBE_CONTROL,
                                                   UVC_VS_COMMIT_CONTROL}
                     THEN cs ELSE 0
       /\ reply' = VsReply(req, cs)
       /\ pending' = IF req = "SET_CUR" /\ ~reply'.stall THEN reply'.of
                     ELSE NoSetup
  /\ UNCHANGED <<puCs, descType, errCode, brightness, probe, commit, width,
                 height, sensorB, sensorC, hostB, hostProbe>>

(* Any other SETUP (a standard request, another recipient or interface):  *)
(* dev->control is cleared and nothing answers, so the request stalls.    *)
SetupOther ==
  /\ pending = NoSetup
  /\ control' = 0
  /\ reply' = [of |-> [iface |-> "other", ent |-> 0, cs |-> 0], req |-> "none",
               stall |-> TRUE, num |-> 0, ctrl |-> NoCtrl]
  /\ UNCHANGED <<puCs, descType, errCode, brightness, probe, commit, width,
                 height, sensorB, sensorC, pending, hostB, hostProbe>>

---------------------------------------------------------------------------
(* The payloads a host sends in the DATA stage of its SET_CUR `to`.        *)
Payloads(to) ==
  CASE to.iface = "VS" -> StreamReqs
    [] to.ent = 2 -> PuValues
    [] OTHER -> AeValues                \* one-byte controls

(* vidioc_set_ctrl(0, cid, value): VIDIOC_S_CTRL on fd_rgb (module 0 is   *)
(* the RGB camera).  Its callers do not look at the result; the sensor is  *)
(* taken to accept the value.                                              *)
VidiocSetCtrl(cid, v) ==
  IF cid = "brightness" THEN sensorB' = v /\ UNCHANGED sensorC
                        ELSE sensorC' = v /\ UNCHANGED sensorB

(* uvc_events_process_control_data: memcpy(&val, data->data, data->length) *)
(* into the uninitialised unsigned int val.  The host sends the 2 bytes of *)
(* the UVC contrast control, so the upper half of val is whatever the      *)
(* stack held: zero, or not (one non-zero upper half stands for all).      *)
ValUpper == 65536
ContrastVal(v) == {v, v + ValUpper}

(* Mutant of PuData: the range check against PU_BRIGHTNESS_MAX_VAL is     *)
(* left out.                                                               *)
PuDataNoCheck(v) ==
  /\ reply' = [of |-> pending, req |-> "DATA", stall |-> FALSE, num |-> v,
               ctrl |-> NoCtrl]
  /\ IF puCs = UVC_PU_BRIGHTNESS_CONTROL
       THEN brightness' = v /\ VidiocSetCtrl("brightness", v)
     ELSE IF puCs = UVC_PU_CONTRAST_CONTROL
       THEN (\E c \in ContrastVal(v) : VidiocSetCtrl("contrast", c))
               /\ UNCHANGED brightness
     ELSE UNCHANGED <<brightness, sensorB, sensorC>>
  /\ UNCHANGED <<probe, commit, width, height>>

(* uvc_events_process_data with dev->control = 0: the payload, read as an *)
(* unsigned int, is checked against PU_BRIGHTNESS_MAX_VAL and handed to   *)
(* uvc_events_process_control_data with cs = dev->pu_bmcontrol_val and    *)
(* entity 2, which stores and forwards brightness (cs 2) or forwards      *)
(* contrast (cs 3) to the RGB sensor (vidioc_set_ctrl on get_fd(0)).      *)
PuData(v) ==
  \/ /\ v > PU_BRIGHTNESS_MAX_VAL
     /\ reply' = [of |-> pending, req |-> "DATA", stall |-> TRUE, num |-> v,
                  ctrl |-> NoCtrl]
     /\ UNCHANGED <<brightness, sensorB, sensorC>>
  \/ /\ v <= PU_BRIGHTNESS_MAX_VAL
     /\ reply' = [of |-> pending, req |-> "DATA", stall |-> FALSE, num |-> v,
                  ctrl |-> NoCtrl]
     /\ IF puCs = UVC_PU_BRIGHTNESS_CONTROL
          THEN brightness' = v /\ VidiocSetCtrl("brightness", v)
        ELSE IF puCs = UVC_PU_CONTRAST_CONTROL
          THEN (\E c \in ContrastVal(v) : VidiocSetCtrl("contrast", c))
               /\ UNCHANGED brightness
        ELSE UNCHANGED <<brightness, sensorB, sensorC>>
  /\ UNCHANGED <<probe, commit, width, height>>

(* uvc_events_process_data with dev->control = PROBE or COMMIT: the       *)
(* negotiated fields are written into the target; a COMMIT also sets the  *)
(* format (with width and height forced to 640x480) and imgsize.          *)
StreamData(p) ==
  LET c == NegotiatedCtrl(p) IN
  /\ reply' = [of |-> pending, req |-> "DATA", stall |-> FALSE, num |-> 0,
               ctrl |-> c]
  /\ \/ /\ control = UVC_VS_PROBE_CONTROL
        /\ probe' = c
        /\ UNCHANGED <<commit, width, height>>
     \/ /\ control = UVC_VS_COMMIT_CONTROL
        /\ commit' = c
        /\ width' = 640 /\ height' = 480
        /\ UNCHANGED probe
  /\ UNCHANGED <<brightness, sensorB, sensorC>>

(* UVC_EVENT_DATA, routed by dev->control alone.  hostB records what the  *)
(* host meant: the value of an accepted brightness SET_CUR.               *)
Data ==
  /\ pending # NoSetup
  /\ \E v \in Payloads(pending) :
       /\ IF control \in {UVC_VS_PROBE_CONTROL, UVC_VS_COMMIT_CONTROL}
            THEN StreamData(v) ELSE PuData(v)
       /\ LET ok == ~reply'.stall /\ pending.iface = "VC" /\ pending.ent = 2
          IN hostB' = IF ok /\ pending.cs = UVC_PU_BRIGHTNESS_CONTROL
                           THEN v ELSE hostB
       /\ hostProbe' = IF pending = [iface |-> "VS", ent |-> 0,
                                      cs |-> UVC_VS_PROBE_CONTROL]
                          THEN RefCtrl(v) ELSE hostProbe
  /\ pending' = NoSetup
  /\ UNCHANGED <<control, puCs, descType, errCode>>

Next == SetupControl \/ SetupStreaming \/ SetupOther \/ Data

Spec == Init /\ [][Next]_vars

---------------------------------------------------------------------------
StreamCtrl == [fmt : 0..NFormats, frame : 0..Len(Frames), interval : Nat,
               size : Nat]
Setup == [iface : {"none", "VC", "VS", "other"}, ent : Entities, cs : 0..3]

TypeOK ==
  /\ control \in {0, UVC_VS_PROBE_CONTROL, UVC_VS_COMMIT_CONTROL}
  /\ puCs \in 0..3 /\ descType \in Entities
  /\ errCode \in [data : {0, 6, 7}, length : {0, 1}]
  /\ brightness \in 0..PU_BRIGHTNESS_MAX_VAL
  /\ probe \in StreamCtrl /\ commit \in StreamCtrl /\ hostProbe \in StreamCtrl
  /\ width \in Nat /\ height \in Nat
  /\ sensorB \in -1..PU_BRIGHTNESS_MAX_VAL
  /\ sensorC \in {-1} \cup UNION {ContrastVal(v) : v \in 0..PU_BRIGHTNESS_MAX_VAL}
  /\ hostB \in {-1} \cup PuValues
  /\ reply.of \in Setup /\ reply.stall \in BOOLEAN /\ reply.ctrl \in StreamCtrl
  /\ pending \in Setup

(* Spec section 6: a PROBE SET_CUR followed by GET_CUR returns the values *)
(* just set, as negotiated: index out of range clamped to the nearest     *)
(* valid one, interval the closest not smaller.  Any requests to other    *)
(* controls or interfaces may come between the two.                        *)
ProbeReadAfterWrite ==
  (reply.of = [iface |-> "VS", ent |-> 0, cs |-> UVC_VS_PROBE_CONTROL]
     /\ reply.req = "GET_CUR")
    => reply.ctrl = hostProbe

(* Spec section 4.2: a request to an attribute or entity the gadget does  *)
(* not support is stalled and records a non-zero request error code; a    *)
(* request it serves records "no error".  (The error-code request itself  *)
(* leaves the code it reports.)                                           *)
ErrorCodeMatchesStall ==
  (reply.of.iface = "VC" /\ reply.req # "DATA"
     /\ reply.of # [iface |-> "VC", ent |-> 0,
                    cs |-> UVC_VC_REQUEST_ERROR_CODE_CONTROL])
    => (errCode.data = 0 <=> ~reply.stall)

(* Spec section 4.2: a brightness SET_CUR applies its value to the RGB     *)
(* sensor: the brightness the sensor was last given is the one the host    *)
(* last set through the brightness control (the DATA stage is routed by    *)
(* dev->pu_bmcontrol_val, which any VC request overwrites).               *)
SensorBrightnessFromHost == sensorB = hostB

====
