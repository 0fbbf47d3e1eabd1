SPECIFICATION PageSpec
CONSTANTS
  Repo = {a, b}
  NoRepo = NoRepo
  Secret = {s1}
  Blank = Blank
  Datasource = {d1}
  Session = {1, 2}
  Request = {q1}
  MayFail = FALSE
INVARIANT SavedIsInUse
