SPECIFICATION OwnSpec
INVARIANTS ReadyChecksAgree OneConnectionPerAccount PartiesAgree
PROPERTIES FirstComeFirstServed PlaceKept EverySearchEnds
CONSTANTS
  NumConns = 3
  Ann = Ann
  Bob = Bob
  Cyd = Cyd
  NoAccount = NoAccount
  Accounts = {Ann, Bob, Cyd}
  Friends <- OneFriendship
  Modes = {"normal"}
  Seats = 2
  MaxMatches = 1
  RankedPartyMax = 2
  Wants = {TRUE}
  MaxOrder = 3
