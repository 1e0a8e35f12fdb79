SPECIFICATION Spec
CONSTANTS
  c1 = c1
  c2 = c2
  c3 = c3
  Commands <- MCCommands
  GuildOf <- MCGuildOf
  ActorOf <- MCActorOf
  NoGuild = "private"
  NoStatus = NoStatus
  MaxRuns = 2
  MaxFaults = 1
INVARIANTS
  CommandsAreAudited
CHECK_DEADLOCK FALSE
