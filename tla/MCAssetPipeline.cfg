SPECIFICATION Spec
CONSTANTS
  Commands = {c1, c2}
  Mixes <- DefaultMixes
  Offers <- DefaultOffers
  Moving = {"m", "p1"}
  c1 = c1
  c2 = c2
INVARIANTS
  VendorAsLocked
  ManifestSound
PROPERTY LockedStaysLocked
