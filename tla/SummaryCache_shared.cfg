SPECIFICATION Spec
CONSTANTS
  Process = {p1, p2}
  Client = {c1}
  MaxSource = 2
  MaxSelection = 1
  MaxTrouble = 1
  Nobody = Nobody
SYMMETRY ProcessSymmetry
INVARIANTS
  
  FreshIsCurrent
