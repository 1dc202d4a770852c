SPECIFICATION Spec
CONSTANTS
  p1 = p1
  p2 = p2
  Parties = {p1, p2}
  Mountable = {p1, p2}
  NoParty = NoParty
SYMMETRY Alike
INVARIANTS
  LaunchSucceeds
