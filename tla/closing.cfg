SPECIFICATION Spec
CONSTANTS
  Name <- Three
  Real <- Three
  Siblings <- Alone
  Cousins <- ThirdApart
  IssueId = {1, 2, 3, 4, 5, 6, 7, 8}
  NoIssue = 0
  Title = {"missing", "pbs", "user"}
  MissingTitle = "missing"
  CommentTitle = "pbs"
  ChanCap = 1
  InitTickets <- OpenBlade
  InitTargets <- AllOnline
  InitPbs <- AllUp
  Req = {r1}
  Ask = {"close", "update"}
  AskNode = {1}
  AskTitle = {"user"}
  AskOffline = {"Node", "Blade"}
  Happens <- SecondWorks
  Faults = {}
  Reserve = 6
INVARIANTS ClosingWasReleased
PROPERTIES OnlyForTickets
