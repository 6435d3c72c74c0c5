SPECIFICATION Spec
CONSTANTS
  Slots = {1, 2}
  Elsewhere = elsewhere
  Claims = {c1, c2, c3}
  MaxPax = 2
  Capacities = {2, 3}
SYMMETRY Symmetry
INVARIANTS Conserved NeverOversold
