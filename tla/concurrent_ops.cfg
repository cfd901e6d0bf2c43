CONSTANTS
  Nodes = {n1}
  Drivers = {d1, d2, d3}
  NoNode = NoNode
  NoLease = NoLease
  Orphan = Orphan
  NoDriver = NoDriver
  MaxGen = 2
  Ops = {"suspend", "recreate", "stop", "resume"}
  Faults = {}
SPECIFICATION Spec
SYMMETRY Symmetry
INVARIANTS TypeOK DormantHasNoEpisode OneWaiter TransientOwned SeqFencesStatus LiveIsLatest
PROPERTIES StoreSpec DeletedIsFinal LeaseNotStolen
