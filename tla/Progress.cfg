\* Two files and a work, three notifications: a report overtaken by a newer one
\* and by published diagnostics.
CONSTANTS
  Uri = {u1, u2}
  Request = {q1}
  Work = {w1}
  MaxReports = 3
SPECIFICATION FairProgress
INVARIANTS
  ReportsInOrder
  WorkTracked
PROPERTIES
  Settles
\* the server falls silent
CHECK_DEADLOCK FALSE
