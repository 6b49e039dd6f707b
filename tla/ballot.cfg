SPECIFICATION Spec
CONSTANTS
  alice = alice
  bob = bob
  Proposals = {"p"}
  ProposalId = "p"
  Addresses <- Voters
  CoordinatorAddress = alice
  AllowedRealAddresses <- Voters
  Keys = {1, 2, 3}
  VoteChoices = {"yes", "no"}
  EndBlock = 4
  Worlds <- BrowsersOrAnyone
INVARIANTS IInv CountedKeysFrozen BrowsersVoteOnce SignedVoteStaysValid CountedAsSigned
PROPERTIES RingStable VerdictStable IsElection
CHECK_DEADLOCK FALSE
