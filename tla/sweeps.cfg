SPECIFICATION Spec
CONSTANTS
  Issue = {i1}
  MaxFix = 3
  LegacyFix <- OneLegacy
  StaleDays = 1
  GraceDays = 1
  MaxMoves = 1
  Faults = {"mention", "staled", "unlisted", "unsettled", "merged", "view", "write",
            "halfclose", "killed"}
  Pass <- OnePass
  RetryCap = 2
INVARIANTS TypeOK OneFixTicket CapHolds
PROPERTIES HandsOff AttemptsKept ReopenRespected StuckAnswered DormantCloses
