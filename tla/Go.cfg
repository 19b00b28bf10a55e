\* The goroutine scheduler, channels, container/heap, time, netchan and rpc: safety.
CONSTANTS
  Gs = {g1, g2, g3}
  None = None
SPECIFICATION Spec
SYMMETRY GoSymmetry
INVARIANTS
  TimerSound
  NetSound
  ChanSound
  GoSchedSound
  RpcSound
PROPERTIES
  PopIsLeast
  ChannelSpec
CHECK_DEADLOCK FALSE
