\* Two requests and one administrator share a cache that is too small.
CONSTANTS
  Replica = {r1}
  Room = {x1, x2}
  Batch = {b1, b2}
  Admin = {a1}
  Building = building
  Unset = unset
  Missing = missing
  Capacity = 1
  MaxPatches = 2
SPECIFICATION FairSpec
INVARIANT JudgedInForce
PROPERTY PatchesTakeEffect
