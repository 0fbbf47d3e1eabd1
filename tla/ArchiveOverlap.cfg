SPECIFICATION WorkSpec
CONSTANTS
  Call <- MCCall
  Path <- MCPath
  Text = {t1}
  NoText = NoText
  Edited = t1
  MayFail = FALSE
  Outsiders = FALSE
  MayReinit = FALSE
  MaxCommit = 4
  Script = {s1}
  Release = {r1}
  Linked <- MCLinked
  Request = {q1}
  Sync = {g1}
  Chooser = {}
  LastVersion = 1
  Version <- MCVersion
  NoVersion = 0
  Bump <- MCBump
  NoRequest = NoRequest
  MaxVersion = 1
  MaxLog = 1
INVARIANT LoggedIsPushed
