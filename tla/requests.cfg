SPECIFICATION Spec
CONSTANTS
  Name <- Two
  Real <- Two
  Siblings <- Together
  Cousins <- Together
  IssueId = {1, 2, 3, 4, 5}
  NoIssue = 0
  Title = {"missing", "pbs", "user"}
  MissingTitle = "missing"
  CommentTitle = "pbs"
  ChanCap = 1
  InitTickets <- OneIssue
  InitTargets <- AllOnline
  InitPbs <- AllUp
  Req = {r1, r2}
  Ask = {"open", "close", "update"}
  AskNode = {1}
  AskTitle = {"user"}
  AskOffline = {"Node"}
  Happens <- Nothing
  Faults = {}
  Reserve = 3
SYMMETRY Requests
INVARIANTS TypeOK ClosedIsExplained
  OfflineHasLiveIssue
  OpenedWasEnforced
  NoNodeStranded
PROPERTIES TicketsLive
