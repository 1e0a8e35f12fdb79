SPECIFICATION Spec
CONSTANTS
  DiscordIds = {u1, u2, u3}
  Usernames = {u1, u2, u3}
  NameOf <- MCNameOf
  MaxPlayers = 2
  MinPlayers = 1
  Drafts = {d1}
  Submissions = {s1, s2, s3}
  TableIds = {t1, t2, t3}
  NoTable = NoTable
  NoId = NoId
INVARIANTS
  FailuresAreTrue
CHECK_DEADLOCK FALSE
