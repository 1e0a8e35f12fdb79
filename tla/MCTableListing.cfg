SPECIFICATION ListingSpec
CONSTANTS
  DiscordIds = {u1, u2, u3}
  Usernames = {u1, u2, u3}
  NameOf <- MCNameOf
  MaxPlayers = 2
  MinPlayers = 2
  Drafts = {d1}
  Submissions = {s1, s2, s3}
  TableIds = {t1, t2, t3}
  NoTable = NoTable
  NoId = NoId
  Listers = {l1}
  Guilds = {here, elsewhere}
  GuildOf <- MCGuildOf
  MaxTables = 2
INVARIANTS
  TypeOK
  TablesAreAsAsked
  AnswersAreTrue
  CreatedTablesAreListed
PROPERTIES
  ConsumedDraftsStayGone
CHECK_DEADLOCK FALSE
SYMMETRY Symmetry
