SPECIFICATION Spec
CONSTANTS
  kMaxBufferSize = 1
  kMinWriteSize = 2
  kMaxBlockSize = 1
  NonBlockingScale = 2
  MaxTries = 2
  Files = {f1, f2}
  NoFile = NoFile
  Ops = {"ReOpen", "Flush", "Seek", "SetBlocking", "SetWriteBufferMinWriteSize", "Dtor"}
  SeekTargets = {0}
  MaxBytes = 2
  MaxCount = 2
  MaxFaults = 1
  OpenMayFail = TRUE
SYMMETRY FileSymmetry
INVARIANTS
  TypeOK
  LossExplained
  PlacedUnlessDisturbed
  NoBufferLeak
  RegistryCurrent
CHECK_DEADLOCK FALSE
