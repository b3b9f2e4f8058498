SPECIFICATION Spec
CONSTANTS MaxAllocs <- MC_MaxAllocs
\* close_uvc_gadget_device ends the gadget; the process exits after it.
CHECK_DEADLOCK FALSE
INVARIANT AtMostOneLiveSet
