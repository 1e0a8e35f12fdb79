SPECIFICATION Spec
CONSTANTS
  Usernames = {ana, bia, caio, davi, eva}
  DiscordIds = {d1, d2, d3}
  MaxPlayers = 3
  MinPlayers = 2
  MaxVersion = 7
INVARIANTS
  TypeOK
  ActiveWithinLimits
  OneSeatPerUsername
  VersionTellsThePast
PROPERTIES
  SeatsAreKept
  ArchivedTableIsFrozen
CHECK_DEADLOCK FALSE
SYMMETRY Symmetry
