CONSTANTS
  Mints = {m1, m2}
  Flows = {f1, f2}
  Users = {u1}
  NoMint = NoMint
  NoUser = NoUser
  MaxTuples = 4
  QuietRelink = FALSE
SPECIFICATION Spec
PROPERTIES DeliveryNamesOneTuple
CHECK_DEADLOCK FALSE
