SPECIFICATION VersionSpec
CONSTANTS
  Call <- MCCall
  Path <- MCPath
  Text = {t1}
  NoText = NoText
  Edited = t1
  MayFail = TRUE
  Outsiders = FALSE
  MayReinit = FALSE
  MaxCommit = 2
  Script = {s1}
  Release = {r1}
  Linked <- MCLinked
  Request = {q1, q2}
  Sync = {}
  Chooser = {q2}
  LastVersion = 2
  Version <- MCVersion
  NoVersion = 0
  Bump <- MCBump
  NoRequest = NoRequest
  MaxVersion = 2
  MaxLog = 2
INVARIANTS OneCurrent BumpsDiffer
PROPERTY LockReleased
