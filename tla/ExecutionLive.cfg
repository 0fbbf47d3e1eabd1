SPECIFICATION FairSpec
CONSTANTS
  Script = {s1}
  Release = {r1}
  Content = {c1}
  Request = {q1, q2}
  Stored = {TRUE}
  MayCrash = FALSE
  MaxRecord = 1
  MaxLink = 1
  NoRecord = NoRecord
  NotRun = NotRun
PROPERTY PendingResolved
