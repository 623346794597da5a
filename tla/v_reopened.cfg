SPECIFICATION Spec
CONSTANTS
  Name <- Two
  Real <- Two
  Siblings <- Together
  Cousins <- Together
  IssueId = {1, 2, 3, 4, 5}
  NoIssue = 0
  Title = {"missing", "pbs", "user"}
  MissingTitle = "missing"
  CommentTitle = "pbs"
  ChanCap = 1
  InitTickets <- NoIssues
  InitTargets <- NoTargets
  InitPbs <- AllUp
  Req = {r1}
  Ask = {"open", "close"}
  AskNode = {1}
  AskTitle = {"user"}
  AskOffline = {"Node"}
  Happens <- Nothing
  Faults = {}
  Reserve = 3
PROPERTY ClosedIsNotReopened
