SPECIFICATION FairSpec
CONSTANTS
  Schedules <- AllSchedules
  Lead = 1
  Subscribers = {u1}
  MaxTime = 4
  Budgets <- BudgetsAll
  Channels = {c1}
  Kind = "down"
  Routings <- Firing
  MaxIncidents = 2
INVARIANTS QuietInWindow MailedOnce OncePerTurn
PROPERTIES StatusCatchesUp EveryNoticeArrives
CHECK_DEADLOCK FALSE
