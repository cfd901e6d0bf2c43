CONSTANTS
  Mints = {m1, m2}
  Flows = {f1, f2}
  Users = {u1, u2}
  NoMint = NoMint
  NoUser = NoUser
  MaxTuples = 4
  QuietRelink = TRUE
SPECIFICATION Spec
SYMMETRY Symmetry
INVARIANTS ChainKept RelinkIsTrue
PROPERTIES DeliveryNamesOneTuple RevokedIsInert
CHECK_DEADLOCK FALSE
