SPECIFICATION Spec
CONSTANTS
  Usernames = {ana, bia}
  DiscordIds = {d1, d2}
  MaxPlayers = 2
  MinPlayers = 1
  TableIds = {t1, t2}
  Calls = {c1, c2, c3}
  NoTable = NoTable
  NoId = NoId
INVARIANTS
  TypeOK
  EveryTableHasOneMaker
  OutcomesAreTrue
  AuditCoversStore
PROPERTIES
  KeepsPromise
CHECK_DEADLOCK FALSE
SYMMETRY Symmetry
