SPECIFICATION FairSpec
CONSTANTS
  Name <- One
  Real <- One
  Siblings <- Alone
  Cousins <- Alone
  IssueId = {1, 2, 3, 4}
  NoIssue = 0
  Title = {"missing", "pbs", "user"}
  MissingTitle = "missing"
  CommentTitle = "pbs"
  ChanCap = 1
  InitTickets <- NoIssues
  InitTargets <- NoTargets
  InitPbs <- AllUp
  Req = {r1}
  Ask = {"open", "close"}
  AskNode = {1}
  AskTitle = {"user"}
  AskOffline = {"Node"}
  Happens <- Fails
  Faults = {"crash", "drop"}
  Reserve = 2
INVARIANT CompareIsCurrent
PROPERTY Converges
