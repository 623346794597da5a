SPECIFICATION RegistrySpec
CONSTANTS
  Word = 65536
  Name <- Machines
  Configs <- AsRecipe
  Task = {loop, r1}
  Loop = loop
  Visited <- Ticketed
  Probe <- Names
  NoName = NoName
  MaxHand = 2
PROPERTY RemovedStaysAway
