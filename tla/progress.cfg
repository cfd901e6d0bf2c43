CONSTANTS
  Nodes = {n1}
  Drivers = {d1, d2}
  NoNode = NoNode
  NoLease = NoLease
  Orphan = Orphan
  NoDriver = NoDriver
  MaxGen = 2
  Ops = {"suspend", "recreate", "stop", "resume"}
  Faults = {"expiry", "poddeath"}
SPECIFICATION FairSpec
PROPERTIES TransientResolves EveryOpReturns OrphanReaped DeadPodNoticed
