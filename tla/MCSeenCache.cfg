SPECIFICATION Spec
CONSTANTS
  N = 3
  Key = {0, 1, 2, 3, 4}
INVARIANT RingInv
PROPERTY RemembersLastN
