CONSTANTS
  Nodes = {n1, n2}
  Drivers = {d1, d2}
  NoNode = NoNode
  NoLease = NoLease
  Orphan = Orphan
  NoDriver = NoDriver
  MaxGen = 2
  Ops = {"migrate"}
  Faults = {"disconnect"}
SPECIFICATION Spec
SYMMETRY Symmetry
INVARIANTS EpisodeOnOneNode DormantHasNoEpisode
