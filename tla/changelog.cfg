SPECIFICATION ChangeLogFairSpec
CONSTANTS
  loop = loop
  r1 = r1
  r2 = r2
  Task = {loop, r1, r2}
  Loop = loop
  Says <- Messages
  ChanCap = 2
  MaxLives = 2
INVARIANTS ChangeLogTypeOK EntryHasOperator
PROPERTIES ForgottenAfterPost AllIsPosted ServesChannel
