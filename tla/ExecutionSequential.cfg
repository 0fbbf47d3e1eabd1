SPECIFICATION Spec
CONSTANTS
  Script = {s1, s2}
  Release = {r1}
  Content = {c1, c2}
  Request = {q1}
  Stored = {TRUE}
  MayCrash = FALSE
  MaxRecord = 2
  MaxLink = 2
  NoRecord = NoRecord
  NotRun = NotRun
SYMMETRY Symmetry
INVARIANTS SuccessMarksScript PushOkSound
PROPERTIES LockedAfterExecution PromotesOnlyAllExecuted
