SPECIFICATION FairSpec
CONSTANTS
  Kinds = {"ssl", "domain", "dns_blocklist", "ai_check", "performance", "broken_links", "lighthouse"}
  Workers = {w1, w2}
  Thresholds = {0, 1}
  Term = 2
  MaxPending = 1
  Budgets <- BudgetsAll
INVARIANTS OncePerRung HistoryIsAnnounced OneOpenIncident
PROPERTIES RecoveryResolves StaysOpenWhileBad
