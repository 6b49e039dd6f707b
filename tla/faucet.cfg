SPECIFICATION ServiceSpec
CONSTANTS
  Proposals = {"p"}
  ProposalId = "p"
  Addresses = {"alice", "bob"}
  CoordinatorAddress = "alice"
  AllowedRealAddresses = {"alice", "bob"}
  Keys = {1, 2, 3}
  VoteChoices = {"yes"}
  EndBlock <- NoBlock
  StartBlock = 2
  MaxBlock = 5
  Calls = {c1, c2, c3, c4}
  FetchMayFail = FALSE
  GasAddresses = {"g1", "g2"}
  Remarks <- OnChain
  AllowedVoters = 2
  FundAmountRao = 5
  Requests <- AllRequests
  Worlds <- AllWorlds
INVARIANTS IInv ScannedThroughIsScanned NothingBeyond
INVARIANTS DripInv JudgedByTheRing PaidOncePerKey LifetimeBudget BooksAgree HolderKeepsKeyImage UsedIsHeld
PROPERTIES ScannedThroughMonotone HeadsAreScanned FundingIsAnswered
CHECK_DEADLOCK FALSE
