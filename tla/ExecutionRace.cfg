SPECIFICATION RaceSpec
CONSTANTS
  Script = {s1}
  Release = {r1}
  Content = {c1, c2}
  Request = {q1, q2}
  Stored = {TRUE, FALSE}
  MayCrash = TRUE
  MaxRecord = 2
  MaxLink = 1
  NoRecord = NoRecord
  NotRun = NotRun
SYMMETRY Symmetry
INVARIANTS TypeOK AutoResultTruthful ExecutedTextRan ExecutingJustified PushOkSound
PROPERTY OneRunPerRecord
