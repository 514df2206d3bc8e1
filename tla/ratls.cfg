CONSTANTS
  gpu = gpu
  cpu = cpu
  other = other
  MaxAttempts = 2
  Images = {gpu, cpu}
  OtherImages = {other}
  Relay = Relay
  Nobody = Nobody
SPECIFICATION Spec
INVARIANT PayloadOnlyToTarget
PROPERTY KeepsPromise
CHECK_DEADLOCK FALSE
