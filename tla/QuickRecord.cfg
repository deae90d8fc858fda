CONSTANTS
  Jobs = {j1, j2}
  None = None
  DeviceCanHang = FALSE
  ImportCanFail = TRUE
SPECIFICATION FairQuickSpec
INVARIANTS StopReachesIt OneRecorder 
PROPERTY EventuallyStopped
CHECK_DEADLOCK FALSE
