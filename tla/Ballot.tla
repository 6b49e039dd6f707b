------------------------------- MODULE Ballot -------------------------------
(***************************************************************************)
(* The chain as the protocol uses it: real wallets publish announces,       *)
(* start remarks and clear votes; key holders ring-sign votes against what  *)
(* they see and anyone publishes them, once or many times, intact or with   *)
(* the choice altered; a block becomes visible to every observer at once.   *)
(*                                                                         *)
(* Each observer (faucet, UI, CLI) runs the functions of Ring over the      *)
(* sealed remarks.  What they see of a block that is still open is nothing. *)
(*                                                                         *)
(* The list of remarks is kept in two parts: announces and start remarks as *)
(* a set, because nothing the code computes depends on their order inside a *)
(* block, and ballots as a sequence, because the first of two competing     *)
(* ones wins.                                                               *)
(***************************************************************************)
EXTENDS Ring

\* Which program signs the votes of a behaviour, and how far the behaviour
\* goes: blocks, signatures, choices, and remarks of each kind and of both
\* kinds of ballot.
CONSTANT Worlds

ASSUME BallotAssumption ==
  Worlds \subseteq
    [signing : {"ui", "cli", "any"},
     blocks : Nat, signed : Nat, choices : SUBSET VoteChoices,
     limit : [{"announce", "start", "vote", "clear", "ballot"} -> Nat]]

VARIABLES
  world,
  registrations, \* announces and start remarks, block head + 1 included
  ballots,       \* votes and clear votes in chain order, likewise
  head,          \* the last sealed block
  signed         \* ring signatures that exist outside the chain

vars == <<world, registrations, ballots, head, signed>>

\* What an observer that has scanned the chain up to its head holds.
Sealed == {r \in registrations : r.block <= head}
SealedBallots == {i \in DOMAIN ballots : ballots[i].block <= head}

Signing == world.signing

TypeOK ==
  /\ world \in Worlds
  /\ registrations \in SUBSET Registration
  /\ ballots \in Seq(Ballots)
  /\ head \in Nat
  /\ signed \in SUBSET Signature

\* The ballots are in block order, as tallyRemarks' sort leaves them, and lie
\* in the sealed blocks or the open one.
BallotsInOrder ==
  \A i \in DOMAIN ballots :
    /\ ballots[i].block <= head + 1
    /\ \A j \in 1..i : ballots[j].block <= ballots[i].block

\* Where every published vote comes from, and what the UI's signers know.
VotesAreSigned ==
  \A i \in DOMAIN ballots : ballots[i].kind = "vote" =>
    ballots[i].sig \in signed /\ ballots[i].rb = ballots[i].sig.rb

SignedAfterStart ==
  Signing = "ui" =>
    \A s \in signed : /\ FindVotingStartBlock(Sealed) # NoBlock
                      /\ s.rb >= FindVotingStartBlock(Sealed)

\* A signature is over the ring that every observer computes at its block.
SignedOverRing ==
  \A s \in signed : /\ s.rb \in 0..head
                    /\ s.ring = RingAt(Sealed, s.rb)
                    /\ s.key \in s.ring
                    /\ Cardinality(s.ring) >= 2

\* What the proofs carry from step to step.
IInv ==
  /\ TypeOK /\ BallotsInOrder /\ VotesAreSigned
  /\ SignedAfterStart /\ SignedOverRing

Init ==
  /\ world \in Worlds
  /\ registrations = {}
  /\ ballots = <<>>
  /\ head = 0
  /\ signed = {}

-----------------------------------------------------------------------------
(* Remarks enter the block under construction, head + 1.                    *)

Register(r) ==
  /\ Cardinality({q \in registrations : q.kind = r.kind}) < world.limit[r.kind]
  /\ registrations' = registrations \cup {r}
  /\ UNCHANGED <<world, ballots, head, signed>>

CastBallot(r) ==
  /\ Cardinality({i \in DOMAIN ballots : ballots[i].kind = r.kind}) < world.limit[r.kind]
  /\ Len(ballots) < world.limit["ballot"] /\ r.c \in world.choices
  /\ ballots' = Append(ballots, r)
  /\ UNCHANGED <<world, registrations, head, signed>>

PublishAnnounce(a, p, k) ==
  Register([kind |-> "announce", p |-> p, signer |-> a, block |-> head + 1,
            vk |-> k])

PublishStart(a, p) ==
  Register([kind |-> "start", p |-> p, signer |-> a, block |-> head + 1])

PublishClearVote(a, p, c) ==
  CastBallot([kind |-> "clear", p |-> p, signer |-> a, block |-> head + 1,
              c |-> c])

\* Mutant: the UI signs in any phase.
AnyScannedBlock == 0..head

\* The ring blocks a signer may embed.  The UI signs at a block its indexer
\* has scanned, once that scan holds the start remark and before the end; the
\* CLI signs at the head of the chain in any phase; "any" is any block whose
\* ring can be known.
RingBlocks ==
  LET start == FindVotingStartBlock(Sealed)
  IN  CASE Signing = "ui" ->
             {b \in 0..head : /\ start # NoBlock /\ b >= start
                              /\ EndBlock # NoBlock => head < EndBlock}
        [] Signing = "cli" -> {head}
        [] OTHER -> 0..head

\* Mutant: the signer forgets the start block when it computes the ring.
SignOverOpenRing(k, p, c, rb) ==
  LET ring == ComputeRingAt(Sealed, rb, NoBlock)
  IN  /\ Cardinality(signed) < world.signed /\ c \in world.choices
      /\ rb \in RingBlocks
      /\ Cardinality(ring) >= 2
      /\ k \in ring
      /\ signed' = signed \cup
           {[key |-> k, ring |-> ring, p |-> p, c |-> c, rb |-> rb]}
      /\ UNCHANGED <<world, registrations, ballots, head>>

\* The holder of k computes the ring at rb and signs, if the ring has two
\* members and k is one.  The worst case for the binding of a signature to its
\* proposal: other proposals have the same ring.
SignVote(k, p, c, rb) ==
  LET ring == RingAt(Sealed, rb)
  IN  /\ Cardinality(signed) < world.signed /\ c \in world.choices
      /\ rb \in RingBlocks
      /\ Cardinality(ring) >= 2
      /\ k \in ring
      /\ signed' = signed \cup
           {[key |-> k, ring |-> ring, p |-> p, c |-> c, rb |-> rb]}
      /\ UNCHANGED <<world, registrations, ballots, head>>

\* Anyone publishes a signature: now or later, again, or under another choice.
PublishVote(s, p, c) ==
  CastBallot([kind |-> "vote", p |-> p, block |-> head + 1, c |-> c,
              rb |-> s.rb, sig |-> s])

Seal ==
  /\ head < world.blocks
  /\ head' = head + 1
  /\ UNCHANGED <<world, registrations, ballots, signed>>

Next ==
  \/ \E a \in Addresses, p \in Proposals, k \in Keys : PublishAnnounce(a, p, k)
  \/ \E a \in Addresses, p \in Proposals : PublishStart(a, p)
  \/ \E a \in Addresses, p \in Proposals, c \in VoteChoices :
       PublishClearVote(a, p, c)
  \/ \E k \in Keys, p \in Proposals, c \in VoteChoices, rb \in 0..head :
       SignVote(k, p, c, rb)
  \/ \E s \in signed, p \in Proposals, c \in VoteChoices : PublishVote(s, p, c)
  \/ Seal

Spec == Init /\ [][Next]_vars

-----------------------------------------------------------------------------
(* Properties.                                                              *)

\* The observers' tally: positions of the counted ballots of a kind.
CountedOf(kind) ==
  {i \in SealedBallots : ballots[i].kind = kind /\ IsCounted(Sealed, ballots, i)}

CountedVotes == CountedOf("vote")

\* Once a block is sealed, the ring at it never changes, whatever lands later:
\* not even the start remark, which turns the post-start filter of
\* reconstructRing on, moves it.  A signature made over a ring therefore
\* verifies for every later observer.
RingStable ==
  [][\A b \in 0..head : RingAt(Sealed', b) = RingAt(Sealed, b)]_vars

\* A ballot that every observer has seen keeps its verdict: it is never
\* counted later if it was not, nor dropped if it was.  (tallyRemarks is run
\* again over the whole list on every change.)
VerdictStable ==
  [][\A i \in SealedBallots :
       i \in Counted(Sealed', ballots') <=> i \in Counted(Sealed, ballots)]_vars

\* A vote published as it was signed passes every check but the voting
\* window: nothing that lands between its signing and its inclusion (a start
\* remark, a re-announce, a late announce) makes it invalid.
SignedVoteStaysValid ==
  \A i \in SealedBallots :
    LET r == ballots[i]
    IN  /\ r.kind = "vote" /\ r.p = ProposalId
        /\ r.p = r.sig.p /\ r.c = r.sig.c
        => Reason(Sealed, r) \in
             {"ok", "no-start-remark", "pre-start-vote", "post-end-vote"}

\* Nobody is counted for a choice he did not sign: a counted anonymous vote
\* carries the choice, proposal and ring block that some holder of its key
\* signed, however often the remark was republished or altered.
CountedAsSigned ==
  \A i \in CountedVotes :
    \E s \in signed : /\ s.key = ballots[i].sig.key
                      /\ s.p = ProposalId
                      /\ s.c = ballots[i].c
                      /\ s.rb = ballots[i].rb

\* Only a key in the ring frozen at the start block votes: the key each voter
\* announced last before the start, and no earlier or later one.  (The browser
\* signs once it has scanned the start remark; the other signers do not wait.)
CountedKeysFrozen ==
  Signing = "ui" => \A i \in CountedVotes : ballots[i].sig.key \in RingAt(Sealed, head)

\* "No double vote": of the keys that a voter announced and nobody else did,
\* one vote is counted at most, even when he re-announces and signs with each.
OnlyBy(a, k) ==
  /\ \E r \in Sealed : r.kind = "announce" /\ r.vk = k
  /\ \A r \in Sealed : r.kind = "announce" /\ r.vk = k => r.signer = a

OneAnonVotePerVoter ==
  \A a \in Addresses :
    \A i, j \in CountedVotes :
      OnlyBy(a, ballots[i].sig.key) /\ OnlyBy(a, ballots[j].sig.key) => i = j

\* Nobody who votes in the browser is counted twice, however often he announced
\* and whichever of his keys he signs with.
BrowsersVoteOnce == Signing = "ui" => OneAnonVotePerVoter

\* The election this chain implements: what every observer's tally shows.
VotingStartBlock == FindVotingStartBlock(Sealed)

CastByKey ==
  {[id |-> i, by |-> ballots[i].sig.key, choice |-> ballots[i].c] : i \in CountedVotes}

CastInClear ==
  {[id |-> i, by |-> ballots[i].signer, choice |-> ballots[i].c] : i \in CountedOf("clear")}

\* Only the browser's voters fill the box: a voter of the command line client
\* can be counted twice (run ballot_cli_double).
BoxIsOpen == Signing = "ui" /\ VotingStartBlock # NoBlock
InBox(S) == IF BoxIsOpen THEN S ELSE {}

Box == INSTANCE BallotBox WITH
  Voters <- AllowedRealAddresses,
  VotingKeys <- Keys,
  phase <- IF ~BoxIsOpen THEN "announce"
           ELSE IF EndBlock # NoBlock /\ head + 1 >= EndBlock THEN "ended" ELSE "voting",
  roll <- InBox(RingAt(Sealed, head)),
  voters <- InBox(AnnouncedSigners(Sealed)),
  cast <- InBox(CastByKey),
  clear <- InBox(CastInClear)

\* With the UI's signers, what the observers count is an election: one roll,
\* one vote per key of the roll, one clear vote per registered voter, nothing
\* changed or lost once counted, nothing counted after the deadline.
IsElection == Box!BoxSpec
=============================================================================
