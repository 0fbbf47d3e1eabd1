SPECIFICATION MCSpec
CONSTANTS
  Repo = {a, b}
  NoRepo = NoRepo
  Secret = {s1}
  Blank = Blank
  Datasource = {d1}
  Session = {1, 2}
  Request = {q1, q2}
  MayFail = TRUE
SYMMETRY Symmetry
INVARIANTS
  TypeOK
  PasswordUsable
  PushGoesToClient
  EndedStaysEnded
PROPERTY
  SaveServes
