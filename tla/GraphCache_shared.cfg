SPECIFICATION Spec
CONSTANTS
  Process = {p1, p2}
  Client = {c1}
  Revision = {r1}
  Unregistered = Unregistered
  MaxSource = 2
  MaxVisits = 2
  MaxTrouble = 1
  Nobody = Nobody
SYMMETRY ProcessSymmetry
INVARIANTS
  NoChangeLost
PROPERTIES
  RefreshedAnew
CHECK_DEADLOCK FALSE
