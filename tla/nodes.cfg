SPECIFICATION Spec
CONSTANTS
  Name <- Two
  Real <- One
  Siblings <- Alone
  Cousins <- Alone
  IssueId = {1, 2, 3, 4, 5, 6, 7}
  NoIssue = 0
  Title = {"missing", "pbs", "user"}
  MissingTitle = "missing"
  CommentTitle = "pbs"
  ChanCap = 1
  InitTickets <- RemovedIssue
  InitTargets <- AllOnline
  InitPbs <- AllUp
  Req = {r1}
  Ask = {"close"}
  AskNode = {1}
  AskTitle = {"user"}
  AskOffline = {"Node"}
  Happens <- Apart
  Faults = {}
  Reserve = 4
INVARIANT AtMostTwoMissing
PROPERTY RemovedIsLeftAlone
