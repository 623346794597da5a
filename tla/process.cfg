SPECIFICATION ProcessFairSpec
CONSTANTS
  MaxCrash = 1
  MaxHand = 1
  StartLimit = 2
  Client = {c1}
  Group = {admins, guests}
  AdminGroups = {admins}
  GuestGroups = {guests}
  Lifetime = 1
  Leeway = 0
INVARIANT ProcessTypeOK
PROPERTIES OnlyRecentAdmins TicketsSurvive ComesUp
