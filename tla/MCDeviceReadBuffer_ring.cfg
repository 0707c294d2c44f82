SPECIFICATION FairSpec
CONSTANTS
  m_size = 3
  m_devReadSize = 2
  m_readQuanta = 1
  m_devBufferCount = 2
  MaxErrors = 1
  Width = 16
  Counts = {1, 3}
  Usages = {"MpegRecorder", "V4L2enc"}
  MaxBytes = 5
  MaxCalls = 3
INVARIANTS
  RingAgrees
  OwnControlNeverTears
  EndAnnounced
PROPERTIES
  ImplementsFifo
  ControlReturns
CHECK_DEADLOCK FALSE
