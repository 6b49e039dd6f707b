-------------------------------- MODULE Ring --------------------------------
(***************************************************************************)
(* The pure protocol functions of packages/shared/src/index.ts: what a      *)
(* remark is, when voting opened, which keys form the ring at a block, and  *)
(* what the tally says of each remark.                                      *)
(*                                                                         *)
(* The code walks one list; the definitions here say what the walk          *)
(* computes: over a set R of announces and start remarks, whose order does  *)
(* not matter, and over the sequence of ballots, whose order does.          *)
(* TallyLoop models the walk itself and is checked against them.            *)
(*                                                                         *)
(* A voting key is a natural number: the only thing the code asks of two    *)
(* hex keys is which is larger (`parsed.vkPub > prev.vkPub`) and whether    *)
(* they are equal.  A ring is the set of its keys: reconstructRing sorts    *)
(* it, so two rings are the same list iff they are the same set.            *)
(***************************************************************************)
EXTENDS Integers, Sequences, FiniteSets, FiniteSetsExt, Functions

CONSTANTS
  Proposals,              \* proposal ids seen on the chain
  Addresses,              \* real (sr25519) addresses that sign extrinsics
  Keys,                   \* voting keys
  VoteChoices,            \* yes / no / abstain
  ProposalId,             \* the proposal being tallied
  CoordinatorAddress,     \* who may open its voting
  AllowedRealAddresses,   \* its allowlist
  EndBlock                \* its exclusive deadline, or NoBlock

NoBlock == -1             \* TypeScript's null block number

ASSUME RingAssumption ==
  /\ Keys \subseteq Nat /\ IsFiniteSet(Keys)
  /\ ProposalId \in Proposals
  /\ CoordinatorAddress \in Addresses
  /\ AllowedRealAddresses \subseteq Addresses
  /\ EndBlock \in Nat \cup {NoBlock}

-----------------------------------------------------------------------------
(* Remarks: the payload and the block and signer the indexer adds to it.    *)

\* A BLSAG signature is what it binds: the key that made it (hence the key
\* image, which is a function of the secret key alone), the ring, and the
\* message voteMessageHex(p, c, rb).
Signature ==
  [key : Keys, ring : SUBSET Keys, p : Proposals, c : VoteChoices, rb : Nat]

Announce  == [kind : {"announce"}, p : Proposals, signer : Addresses,
              block : Nat, vk : Keys]
Start     == [kind : {"start"}, p : Proposals, signer : Addresses, block : Nat]
ClearVote == [kind : {"clear"}, p : Proposals, signer : Addresses,
              block : Nat, c : VoteChoices]
\* The extrinsic signer of a ring-signed vote is a throwaway gas wallet that
\* nothing looks at, so the record leaves it out.
Vote      == [kind : {"vote"}, p : Proposals, block : Nat, c : VoteChoices,
              rb : Nat, sig : Signature]
Registration == Announce \cup Start
Ballots      == ClearVote \cup Vote
RemarkLike   == Registration \cup Ballots

-----------------------------------------------------------------------------
(* When voting opened, and the ring.                                        *)

StartBlocks(R) ==
  {r.block : r \in {s \in R : /\ s.kind = "start"
                              /\ s.signer = CoordinatorAddress
                              /\ s.p = ProposalId}}

\* Mutant: the last start remark counts.
LastStartBlock(R) ==
  IF StartBlocks(R) = {} THEN NoBlock ELSE Max(StartBlocks(R))

FindVotingStartBlock(R) ==
  IF StartBlocks(R) = {} THEN NoBlock ELSE Min(StartBlocks(R))

\* Mutant: announces are accepted after the start as well.
EligibleAtAnyTime(R, start) ==
  {r \in R : /\ r.kind = "announce"
             /\ r.p = ProposalId
             /\ r.signer \in AllowedRealAddresses}

\* The announces that may enter the ring: this proposal, allowlisted signer,
\* strictly before the start block once there is one.
EligibleAnnounces(R, start) ==
  {r \in R : /\ r.kind = "announce"
             /\ r.p = ProposalId
             /\ r.signer \in AllowedRealAddresses
             /\ start # NoBlock => r.block < start}

\* Mutant: two announces of one block both stay.
NewerBlock(a, b) == a.block > b.block

\* What replaces what: the later announce, and of one block the larger key.
Newer(a, b) ==
  \/ a.block > b.block
  \/ a.block = b.block /\ a.vk > b.vk

ReconstructRing(R, start) ==
  LET ann == EligibleAnnounces(R, start)
  IN  {a.vk : a \in {b \in ann : \A c \in ann :
                                   c.signer = b.signer => ~Newer(c, b)}}

\* Mutant: the ring of today, whatever block the vote names.
RingOfToday(R, atBlock, start) == ReconstructRing(R, start)

ComputeRingAt(R, atBlock, start) ==
  ReconstructRing({r \in R : r.block <= atBlock}, start)

\* The ring a tally over R uses for a vote that embeds rb.
RingAt(R, rb) == ComputeRingAt(R, rb, FindVotingStartBlock(R))

-----------------------------------------------------------------------------
(* The tally.                                                               *)

\* Mutant: the choice is left out of the message.
VerifyWithoutChoice(sig, ring, p, c, rb) ==
  /\ sig.key \in ring /\ sig.ring = ring
  /\ sig.p = p /\ sig.rb = rb

Verify(sig, ring, p, c, rb) ==
  /\ sig.key \in ring
  /\ sig.ring = ring
  /\ sig.p = p /\ sig.c = c /\ sig.rb = rb

AnnouncedSigners(R) ==
  LET start == FindVotingStartBlock(R)
  IN  IF start = NoBlock THEN {}
      ELSE {a.signer : a \in EligibleAnnounces(R, start)}

\* The window check both kinds of vote go through first.
WindowReason(R, block) ==
  LET start == FindVotingStartBlock(R)
  IN  IF start = NoBlock THEN "no-start-remark"
      ELSE IF block < start THEN "pre-start-vote"
      ELSE IF EndBlock # NoBlock /\ block >= EndBlock THEN "post-end-vote"
      ELSE "ok"

VoteReason(R, v) ==
  LET ring   == RingAt(R, v.rb)
      window == WindowReason(R, v.block)
  IN  IF window # "ok" THEN window
      ELSE IF Cardinality(ring) < 2 THEN "ring-too-small"
      ELSE IF ~Verify(v.sig, ring, v.p, v.c, v.rb) THEN "sig-verify-failed"
      ELSE "ok"

ClearReason(R, v) ==
  IF WindowReason(R, v.block) # "ok" THEN WindowReason(R, v.block)
  ELSE IF v.signer \notin AllowedRealAddresses THEN "clear-vote-not-allowed"
  ELSE IF v.signer \notin AnnouncedSigners(R) THEN "clear-vote-not-announced"
  ELSE "ok"

IsBallot(r) == r.kind \in {"vote", "clear"} /\ r.p = ProposalId

\* InvalidReason of a ballot, "ok" when it passes every check but dedup.
Reason(R, r) == IF r.kind = "vote" THEN VoteReason(R, r) ELSE ClearReason(R, r)

\* Two ballots compete for one slot: a key image, or a clear voter.
SameSlot(r, s) ==
  \/ r.kind = "vote" /\ s.kind = "vote" /\ r.sig.key = s.sig.key
  \/ r.kind = "clear" /\ s.kind = "clear" /\ r.signer = s.signer

Valid(R, r) == IsBallot(r) /\ Reason(R, r) = "ok"

\* The positions tallyRemarks counts of bs, the ballots in block order, when
\* R holds the announces and start remarks.
IsCounted(R, bs, i) ==
  /\ Valid(R, bs[i])
  /\ \A j \in 1..(i - 1) : SameSlot(bs[j], bs[i]) => ~Valid(R, bs[j])

Counted(R, bs) == {i \in DOMAIN bs : IsCounted(R, bs, i)}

\* The positions recordInvalid is called for.
Invalid(R, bs) == {i \in DOMAIN bs : IsBallot(bs[i]) /\ Reason(R, bs[i]) # "ok"}
=============================================================================
