SPECIFICATION Spec
CONSTANTS
  alice = alice
  bob = bob
  Proposals = {"p"}
  ProposalId = "p"
  Addresses <- Voters
  CoordinatorAddress = alice
  AllowedRealAddresses <- Voters
  Keys = {1, 2, 3}
  VoteChoices = {"yes"}
  EndBlock <- NoBlock
  Worlds <- OnlyCommandLine
INVARIANTS OneAnonVotePerVoter
CHECK_DEADLOCK FALSE
