\* The scheduled job in proportion: 50 rows, 5 at a time, 15 s each, make 150 s
\* against a lease of 120 s; here 5 rows, one at a time, 1 unit each, against 4.
SPECIFICATION Spec
CONSTANTS
  Events = {e1, e2, e3, e4, e5}
  Drains = {d1, d2}
  BatchSize = 5
  Concurrency = 1
  HandlerTimeout = 1
  Visibility = 4
  Backoff = 1
SYMMETRY Symmetry
INVARIANTS NeverDoubleClaimed
