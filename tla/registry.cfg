SPECIFICATION RegistryFairSpec
CONSTANTS
  Word = 65536
  Name <- Machines
  Configs <- Removing
  Task = {loop, r1}
  Loop = loop
  Visited <- Ticketed
  Probe <- Names
  NoName = NoName
  MaxHand = 2
INVARIANTS RegistryTypeOK GroupsAgree
PROPERTIES Implements RemovedStaysAway Registered
