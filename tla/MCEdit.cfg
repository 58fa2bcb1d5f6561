CONSTANTS
  ann = ann
  bob = bob
  NoUser = NoUser
  NoVersion = NoVersion
  Users <- TwoUsers
  Opening <- Itemized
  MaxSaves = 3
SPECIFICATION Spec
INVARIANTS TypeOK LostOnlyInOverlap TwoSavesDontMix
CHECK_DEADLOCK FALSE
SYMMETRY UserSymmetry
