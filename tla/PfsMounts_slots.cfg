SPECIFICATION Spec
CONSTANTS
  p1 = p1
  p2 = p2
  p3 = p3
  p4 = p4
  p5 = p5
  bad = bad
  Parties = {p1, p2, p3, p4, p5, bad}
  Mountable = {p1, p2, p3, p4, p5}
  NoParty = NoParty
SYMMETRY Alike
INVARIANTS
  MountsAgree
  PinsAgree
  AlwaysRoom
  SourcesStay
