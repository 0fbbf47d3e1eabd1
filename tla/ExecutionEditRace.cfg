SPECIFICATION RaceSpec
CONSTANTS
  Script = {s1}
  Release = {r1}
  Content = {c1, c2}
  Request = {q1, q2}
  Stored = {TRUE}
  MayCrash = FALSE
  MaxRecord = 1
  MaxLink = 1
  NoRecord = NoRecord
  NotRun = NotRun
PROPERTY LockedAfterExecution
