SPECIFICATION Spec
CONSTANTS
  Legs = {l1, l2}
  Routes = {r1, r2}
  NoRoute = NoRoute
  Inodes = {i1, i2, i3}
  NoInode = NoInode
  Torn = Torn
  Foreign = Foreign
INVARIANTS
  SavedRouteSurvives
PROPERTIES
  BrokenFileIsKept
  StoreSpec
SYMMETRY Symmetry
