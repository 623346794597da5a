SPECIFICATION FairSpec
CONSTANTS
  Name <- Two
  Real <- Two
  Siblings <- Together
  Cousins <- Together
  IssueId = {1, 2, 3, 4, 5, 6}
  NoIssue = 0
  Title = {"missing", "pbs", "user"}
  MissingTitle = "missing"
  CommentTitle = "pbs"
  ChanCap = 1
  InitTickets <- OpenCard
  InitTargets <- AllOnline
  InitPbs <- AllUp
  Req = {r1}
  Ask = {"close", "update"}
  AskNode = {1}
  AskTitle = {"user"}
  AskOffline = {"Node"}
  Happens <- SecondVanishes
  Faults = {"drop"}
  Reserve = 4
PROPERTIES Converges
