\* test_main1: the three threads with one signal; does the handler end
\* the process?  HandlerSpin and Terminated are steps, so a waiting handler
\* and an ended process are not reported as deadlock.
CONSTANTS
  NBuf <- MC_NBuf
SPECIFICATION Spec
PROPERTY SignalEndsProcess
