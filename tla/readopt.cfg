CONSTANTS
  Spawns = {s1}
  MaxGen = 2
  MaxConn = 2
  Faults = {"break", "restart", "store", "runtime", "ledger"}
SPECIFICATION FairSpec
INVARIANTS VerdictsStayTrue
PROPERTIES CustodyKept GateOpens
CHECK_DEADLOCK FALSE
