\* The same session, whose two mutexes may be waited for in a circle.
CONSTANTS
  Job = {j1, j2}
  Waiter = {w1, w2, w3}
  Nobody = Nobody
SPECIFICATION Spec
SYMMETRY Symmetry
INVARIANT NoLockCycle
