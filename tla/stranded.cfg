CONSTANTS
  Nodes = {n1}
  Drivers = {d1, d2}
  NoNode = NoNode
  NoLease = NoLease
  Orphan = Orphan
  NoDriver = NoDriver
  MaxGen = 1
  Ops = {"suspend"}
  Faults = {"disconnect"}
SPECIFICATION FairSpec
PROPERTIES TransientResolves
