SPECIFICATION AuditSpec
CONSTANTS
  alice = alice
  bob = bob
  carol = carol
  Proposals = {"p", "q"}
  ProposalId = "p"
  Addresses <- Everyone
  CoordinatorAddress = carol
  AllowedRealAddresses <- Voters
  Keys = {1, 2, 3, 4}
  VoteChoices = {"yes", "no"}
  EndBlock = 4
  Candidates <- Pool
  MaxLen = 0
  Chains <- Audited
  MaxBlock = 3
  FromBlocks = {0, 1}
  ToBlocks <- Ends
  MaxWorkers = 1
INVARIANT ShowsTheRingKey
CHECK_DEADLOCK FALSE
