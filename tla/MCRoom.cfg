\* Two people and a bot; three connections, so that a seat is taken over while a third one waits; one crash.
CONSTANTS
  NumSeats = 3  NumBots = 1
  c1 = c1  c2 = c2  c3 = c3
  ConnIds = {c1, c2, c3}
  GiftEvery = 2
  MaxViolations = 0  PostMatchTicks = 2
  Followed = {0, 2}  MaxRound = 2  MaxTokens = 3  MaxCrashes = 1
  None = None
SPECIFICATION Spec
INVARIANTS ConnectionsAgree OwnersAreUpToDate RestartPointIsOfThisMatch BotsPlayEveryRound
CHECK_DEADLOCK FALSE
SYMMETRY ConnSymmetry
