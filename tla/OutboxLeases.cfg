\* Three rows, two at a time, need two rounds of two; the lease lasts three.
SPECIFICATION Spec
CONSTANTS
  Events = {e1, e2, e3, e4}
  Drains = {d1, d2}
  BatchSize = 3
  Concurrency = 2
  HandlerTimeout = 2
  Visibility = 3
  Backoff = 2
SYMMETRY Symmetry
INVARIANTS TypeOK OnlyOverdueRowsTwice OverdueRowsAreTheTail
