SPECIFICATION Spec
CONSTANTS
  n1 = n1
  n2 = n2
  n3 = n3
  n4 = n4
  Names = {n1, n2, n3, n4}
  NoName = none
  Max = 3
  Ports = {1, 2}
  Slots = 2
  Pool = 1
  Num = 2
  LinkCap = 1
  MaxSend = 3
  Cases <- MCTwoPorts
INVARIANTS
  ReplyFromAskedPeer
CHECK_DEADLOCK FALSE
