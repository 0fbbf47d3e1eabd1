SPECIFICATION WorkSpec
CONSTANTS
  Call <- MCCall
  Path <- MCPath
  Text = {t1, t2}
  NoText = NoText
  Edited = t2
  MayFail = TRUE
  Outsiders = TRUE
  MayReinit = TRUE
  MaxCommit = 3
  Script = {s1}
  Release = {r1}
  Linked <- MCLinked
  Request = {q1}
  Sync = {g1}
  Chooser = {}
  LastVersion = 3
  Version <- MCVersion
  NoVersion = 0
  Bump <- MCBump
  NoRequest = NoRequest
  MaxVersion = 2
  MaxLog = 2
CONSTRAINT Serial
SYMMETRY Symmetry
INVARIANTS TypeOK LoggedIsPushed
PROPERTIES RemoteGrows DeliverySpec
