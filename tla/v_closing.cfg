SPECIFICATION Spec
CONSTANTS
  Name <- Two
  Real <- Two
  Siblings <- Together
  Cousins <- Together
  IssueId = {1, 2, 3, 4}
  NoIssue = 0
  Title = {"missing", "pbs", "user"}
  MissingTitle = "missing"
  CommentTitle = "pbs"
  ChanCap = 1
  InitTickets <- OpenBlade
  InitTargets <- AllOnline
  InitPbs <- AllUp
  Req = {r1}
  Ask = {"close", "update"}
  AskNode = {1}
  AskTitle = {"user"}
  AskOffline = {"Card"}
  Happens <- Nothing
  Faults = {}
  Reserve = 2
INVARIANT NoneOpenYet
