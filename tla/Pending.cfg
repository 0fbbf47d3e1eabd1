SPECIFICATION Spec
CONSTANTS
  Project = {p1}
  plain = plain
  chinese = chinese
  Title <- MCTitle
  FileTitle <- MCFileTitle
  Text = {c1, c2}
  MaxScript = 2
  MaxWork = 2
  Request = {q1, q2}
  Sync = {g1, g2}
  MayFail = TRUE
  NoScript = NoScript
  NoFile = NoFile
SYMMETRY Symmetry
INVARIANTS TypeOK ShownIfApart
\* Every script may be deleted, and the bound on ids reached.
CHECK_DEADLOCK FALSE
