SPECIFICATION Spec
CONSTANTS
  f1 = f1
  f2 = f2
  Families = {f1, f2}
  MaxFamilies = 1
  Life = 2
  Grace = 0
  PageLimit = 1
  MaxClock = 3
  MaxTokens = 2
  MaxEvents = 2
  MaxOpens = 2
  MaxFaults = 1
  LateLogout = FALSE
SYMMETRY FamilySymmetry
INVARIANTS SignOutNotLost NoFalseDenial AttachedIsAuthorized
PROPERTIES DenialSticks LiveSessionKept
CHECK_DEADLOCK FALSE
