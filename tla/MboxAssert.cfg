\* add_timer's assertion that a timer has time left, against the one a receiver
\* arms again when a message woke it after its time was up.
CONSTANTS
  MboxProcs = {p1, p2, p3}
  Msgs = {m1, m2}
  Big = {m2}
  NoMsg = none
  MaxSlots = 1
  MboxMaxTimeout = 2

SPECIFICATION MboxSpec

INVARIANT TimerAsserts

CHECK_DEADLOCK FALSE
