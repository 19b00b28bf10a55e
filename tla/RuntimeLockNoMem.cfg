SPECIFICATION LockSpec
CONSTANTS
  Ms = {t1, t2, t3}
  MaxSems = 2
  MaxDestroys = 2
INVARIANTS OthersWait
