\* exit_group and a thread that waits for a child.
CONSTANTS
  Procs = {init, p1, p2, p3}
  InitProc = init
  UserMain = p1
  NoProc = none
  Sleepers = {p1, p2}
  WaitPids = {p1, p2}
  Victims = {p1, p2}
  Codes = {"zero"}
SPECIFICATION Spec
PROPERTIES
  RightErrorCode
CHECK_DEADLOCK FALSE
