SPECIFICATION FairSpec
CONSTANTS
  kMaxBufferSize = 2
  kMinWriteSize = 2
  kMaxBlockSize = 2
  NonBlockingScale = 1
  MaxTries = 2
  Files = {f1}
  NoFile = NoFile
  Ops = {"Flush", "SetBlocking", "Dtor"}
  SeekTargets = {0}
  MaxBytes = 4
  MaxCount = 2
  MaxFaults = 1
  OpenMayFail = FALSE
INVARIANTS
  StreamOrder
  Conservation
  BufferUse
PROPERTIES
  DataReachesDisk
  CallsReturn
CHECK_DEADLOCK FALSE
