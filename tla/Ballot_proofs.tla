--------------------------- MODULE Ballot_proofs ---------------------------
(***************************************************************************)
(* Proofs about Ballot, for every chain, every number of voters and every   *)
(* signing policy.  The bounds of Ballot only restrict its steps, so what   *)
(* is proved does not depend on them either.                                *)
(***************************************************************************)
EXTENDS Ballot, Ring_proofs

-----------------------------------------------------------------------------
(* Type correctness.                                                        *)

LEMMA InitTypeOK == Init => TypeOK
  BY DEF Init, TypeOK

\* Who signs is settled before the first step.
LEMMA WorldStays == [Next]_vars => UNCHANGED world
<1>1. ASSUME NEW r, Register(r) \/ CastBallot(r) PROVE UNCHANGED world
  BY <1>1 DEF Register, CastBallot
<1>2. QED
  BY <1>1, Zenon
  DEF Next, vars, PublishAnnounce, PublishStart, PublishClearVote, PublishVote,
      SignVote, Seal

LEMMA NextTypeOK == TypeOK /\ [Next]_vars => TypeOK'
<1> SUFFICES ASSUME TypeOK, [Next]_vars PROVE TypeOK'
  OBVIOUS
<1> USE DEF TypeOK
<1>1. ASSUME NEW a \in Addresses, NEW p \in Proposals, NEW k \in Keys,
             PublishAnnounce(a, p, k)
      PROVE  TypeOK'
  BY <1>1 DEF PublishAnnounce, Register, Registration, Announce
<1>2. ASSUME NEW a \in Addresses, NEW p \in Proposals, PublishStart(a, p)
      PROVE  TypeOK'
  BY <1>2 DEF PublishStart, Register, Registration, Start
<1>3. ASSUME NEW a \in Addresses, NEW p \in Proposals, NEW c \in VoteChoices,
             PublishClearVote(a, p, c)
      PROVE  TypeOK'
  BY <1>3 DEF PublishClearVote, CastBallot, Ballots, ClearVote
<1>4. ASSUME NEW k \in Keys, NEW p \in Proposals, NEW c \in VoteChoices,
             NEW rb \in 0..head, SignVote(k, p, c, rb)
      PROVE  TypeOK'
  <2>1. RingAt(Sealed, rb) \in SUBSET Keys
    BY RingType DEF RingAt, Sealed
  <2>2. QED
    BY <1>4, <2>1 DEF SignVote, Signature
<1>5. ASSUME NEW s \in signed, NEW p \in Proposals, NEW c \in VoteChoices,
             PublishVote(s, p, c)
      PROVE  TypeOK'
  <2>1. [kind |-> "vote", p |-> p, block |-> head + 1, c |-> c,
         rb |-> s.rb, sig |-> s] \in Ballots
    BY DEF Ballots, Vote, Signature
  <2>2. QED
    BY <1>5, <2>1 DEF PublishVote, CastBallot
<1>6. CASE Seal
  BY <1>6 DEF Seal
<1>7. CASE UNCHANGED vars
  BY <1>7 DEF vars
<1>8. QED
  BY <1>1, <1>2, <1>3, <1>4, <1>5, <1>6, <1>7 DEF Next

\* Every reachable state is well typed: rings are sets of announced keys,
\* signatures bind such a ring, remarks sit in numbered blocks.
THEOREM TypeCorrect == Spec => []TypeOK
  BY InitTypeOK, NextTypeOK, PTL DEF Spec

-----------------------------------------------------------------------------
(* Ring stability.                                                          *)

\* A step shows observers nothing new, or the remarks of the next block.
LEMMA SealedGrows ==
  ASSUME TypeOK, [Next]_vars
  PROVE  Later(Sealed, Sealed', head)
<1>1. \A r \in registrations : r.block \in Nat
  BY DEF TypeOK, Registration, Announce, Start
<1>2. ASSUME NEW r, r.block = head + 1, Register(r)
      PROVE  Later(Sealed, Sealed', head)
  BY <1>1, <1>2 DEF Register, Sealed, Later, TypeOK
<1>3. CASE Seal
  BY <1>1, <1>3 DEF Seal, Sealed, Later, TypeOK
<1>4. CASE UNCHANGED <<registrations, head>>
  BY <1>1, <1>4 DEF Sealed, Later
<1>5. ASSUME NEW a \in Addresses, NEW p \in Proposals, NEW k \in Keys,
             PublishAnnounce(a, p, k)
      PROVE  Later(Sealed, Sealed', head)
  BY <1>2, <1>5 DEF PublishAnnounce
<1>6. ASSUME NEW a \in Addresses, NEW p \in Proposals, PublishStart(a, p)
      PROVE  Later(Sealed, Sealed', head)
  BY <1>2, <1>6 DEF PublishStart
<1>7. QED
  BY <1>3, <1>4, <1>5, <1>6
  DEF Next, vars, PublishClearVote, CastBallot, SignVote, PublishVote

LEMMA StepRingStable ==
  ASSUME TypeOK, TypeOK', [Next]_vars
  PROVE  \A b \in 0..head : RingAt(Sealed', b) = RingAt(Sealed, b)
<1>1. Sealed \in SUBSET Registration /\ Sealed' \in SUBSET Registration
  BY DEF Sealed, TypeOK
<1>2. QED
  BY <1>1, SealedGrows, RingUnchanged DEF TypeOK

\* The ring at a sealed block never changes: what computeRingAt returned to
\* the voter who signed is what it returns to every later verifier.
THEOREM RingsAreStable == Spec => RingStable
<1>1. TypeOK /\ TypeOK' /\ [Next]_vars
      => [\A b \in 0..head : RingAt(Sealed', b) = RingAt(Sealed, b)]_vars
  BY StepRingStable
<1>2. QED
  BY <1>1, TypeCorrect, PTL DEF Spec, RingStable

-----------------------------------------------------------------------------
(* Verdict stability.                                                       *)

LEMMA InitIInv == Init => IInv
  BY InitTypeOK
  DEF Init, IInv, BallotsInOrder, VotesAreSigned, SignedAfterStart,
      SignedOverRing

LEMMA NextBallotsInOrder == IInv /\ [Next]_vars => BallotsInOrder'
<1> SUFFICES ASSUME IInv, [Next]_vars PROVE BallotsInOrder'
  OBVIOUS
<1>1. ballots \in Seq(Ballots) /\ head \in Nat
  BY DEF IInv, TypeOK
<1>2. \A i \in DOMAIN ballots : ballots[i].block \in Nat
  BY <1>1 DEF Ballots, Vote, ClearVote
<1>3. ASSUME NEW r, r.block = head + 1, CastBallot(r)
      PROVE  BallotsInOrder'
  BY <1>1, <1>2, <1>3 DEF CastBallot, IInv, BallotsInOrder
<1>4. CASE Seal
  BY <1>1, <1>2, <1>4 DEF Seal, IInv, BallotsInOrder
<1>5. CASE UNCHANGED <<ballots, head>>
  BY <1>5 DEF IInv, BallotsInOrder
<1>6. ASSUME NEW a \in Addresses, NEW p \in Proposals, NEW c \in VoteChoices,
             PublishClearVote(a, p, c)
      PROVE  BallotsInOrder'
  BY <1>3, <1>6 DEF PublishClearVote
<1>7. ASSUME NEW s \in signed, NEW p \in Proposals, NEW c \in VoteChoices,
             PublishVote(s, p, c)
      PROVE  BallotsInOrder'
  BY <1>3, <1>7 DEF PublishVote
<1>8. QED
  BY <1>4, <1>5, <1>6, <1>7
  DEF Next, vars, PublishAnnounce, PublishStart, Register, SignVote

LEMMA NextVotesAreSigned == IInv /\ [Next]_vars => VotesAreSigned'
<1> SUFFICES ASSUME IInv, [Next]_vars PROVE VotesAreSigned'
  OBVIOUS
<1>1. ballots \in Seq(Ballots) /\ signed \in SUBSET Signature
  BY DEF IInv, TypeOK
<1>2. ASSUME NEW r, CastBallot(r),
             r.kind = "vote" => r.sig \in signed /\ r.rb = r.sig.rb
      PROVE  VotesAreSigned'
  BY <1>1, <1>2 DEF CastBallot, IInv, VotesAreSigned
<1>3. CASE UNCHANGED ballots /\ signed \subseteq signed'
  BY <1>3 DEF IInv, VotesAreSigned
<1>4. ASSUME NEW a \in Addresses, NEW p \in Proposals, NEW c \in VoteChoices,
             PublishClearVote(a, p, c)
      PROVE  VotesAreSigned'
  BY <1>2, <1>4 DEF PublishClearVote
<1>5. ASSUME NEW s \in signed, NEW p \in Proposals, NEW c \in VoteChoices,
             PublishVote(s, p, c)
      PROVE  VotesAreSigned'
  BY <1>2, <1>5 DEF PublishVote
<1>6. QED
  BY <1>3, <1>4, <1>5
  DEF Next, vars, PublishAnnounce, PublishStart, Register, SignVote, Seal

LEMMA NextSignedAfterStart == IInv /\ [Next]_vars => SignedAfterStart'
<1> SUFFICES ASSUME IInv, [Next]_vars, Signing' = "ui", NEW s \in signed'
             PROVE  /\ FindVotingStartBlock(Sealed') # NoBlock
                    /\ s.rb >= FindVotingStartBlock(Sealed')
  BY DEF SignedAfterStart
<1> Signing = "ui"
  BY WorldStays DEF Signing
<1>1. /\ FindVotingStartBlock(Sealed) # NoBlock
      /\ s.rb >= FindVotingStartBlock(Sealed)
  <2>1. CASE s \in signed
    BY <2>1 DEF IInv, SignedAfterStart
  <2>2. CASE s \notin signed
    <3>1. PICK k \in Keys, p \in Proposals, c \in VoteChoices, rb \in 0..head :
            SignVote(k, p, c, rb)
      BY <2>2 DEF Next, vars, PublishAnnounce, PublishStart, Register,
                  PublishClearVote, PublishVote, CastBallot, Seal
    <3>2. s.rb = rb /\ rb \in RingBlocks
      BY <2>2, <3>1 DEF SignVote
    <3>3. QED
      BY <3>2 DEF RingBlocks
  <2>3. QED
    BY <2>1, <2>2
<1>2. Sealed \in SUBSET Registration /\ Sealed' \in SUBSET Registration
  BY NextTypeOK DEF Sealed, IInv, TypeOK
<1>3. FindVotingStartBlock(Sealed') = FindVotingStartBlock(Sealed)
  BY <1>1, <1>2, SealedGrows, EligibleSettles DEF IInv, TypeOK
<1>4. QED
  BY <1>1, <1>3

LEMMA NextSignedOverRing == IInv /\ [Next]_vars => SignedOverRing'
<1> SUFFICES ASSUME IInv, [Next]_vars, NEW s \in signed'
             PROVE  /\ s.rb \in 0..head' /\ s.ring = RingAt(Sealed', s.rb)
                    /\ s.key \in s.ring /\ Cardinality(s.ring) >= 2
  BY DEF SignedOverRing
<1>1. /\ s.rb \in 0..head /\ s.ring = RingAt(Sealed, s.rb)
      /\ s.key \in s.ring /\ Cardinality(s.ring) >= 2
  <2>1. CASE s \in signed
    BY <2>1 DEF IInv, SignedOverRing
  <2>2. CASE s \notin signed
    <3>1. PICK k \in Keys, p \in Proposals, c \in VoteChoices, rb \in 0..head :
            SignVote(k, p, c, rb)
      BY <2>2 DEF Next, vars, PublishAnnounce, PublishStart, Register,
                  PublishClearVote, PublishVote, CastBallot, Seal
    <3>2. QED
      BY <2>2, <3>1 DEF SignVote
  <2>3. QED
    BY <2>1, <2>2
<1>2. RingAt(Sealed', s.rb) = RingAt(Sealed, s.rb)
  BY <1>1, NextTypeOK, StepRingStable DEF IInv
<1>3. head \in Nat /\ (head' = head \/ head' = head + 1)
  <2>1. head \in Nat
    BY DEF IInv, TypeOK
  <2>2. CASE UNCHANGED head
    BY <2>1, <2>2
  <2>3. CASE Seal
    BY <2>1, <2>3 DEF Seal
  <2>4. QED
    BY <2>2, <2>3, Zenon
    DEF Next, vars, PublishAnnounce, PublishStart, Register,
        PublishClearVote, PublishVote, CastBallot, SignVote
<1>4. QED
  BY <1>1, <1>2, <1>3

LEMMA NextIInv == IInv /\ [Next]_vars => IInv'
  BY NextTypeOK, NextBallotsInOrder, NextVotesAreSigned, NextSignedAfterStart,
     NextSignedOverRing
  DEF IInv

\* Ballots lie in block order, every vote on the chain is some signature made
\* over the ring that all observers compute at its block, and the browser's
\* signatures are all made after the start.
THEOREM IInvCorrect == Spec => []IInv
  BY InitIInv, NextIInv, PTL DEF Spec

LEMMA StepVerdictStable ==
  ASSUME IInv, IInv', [Next]_vars
  PROVE  \A i \in SealedBallots :
           i \in Counted(Sealed', ballots') <=> i \in Counted(Sealed, ballots)
<1>1. Sealed \in SUBSET Registration /\ Sealed' \in SUBSET Registration
  BY DEF Sealed, IInv, TypeOK
<1>2. ballots \in Seq(Ballots) /\ head \in Nat
  BY DEF IInv, TypeOK
<1>3. /\ DOMAIN ballots \subseteq DOMAIN ballots'
      /\ \A i \in DOMAIN ballots : ballots'[i] = ballots[i]
  <2> DEFINE Kept == /\ DOMAIN ballots \subseteq DOMAIN ballots'
                     /\ \A i \in DOMAIN ballots : ballots'[i] = ballots[i]
  <2>1. ASSUME NEW r, CastBallot(r) PROVE Kept
    BY <1>2, <2>1 DEF CastBallot
  <2>2. CASE UNCHANGED ballots
    BY <2>2
  <2>3. ASSUME NEW a \in Addresses, NEW p \in Proposals, NEW c \in VoteChoices,
               PublishClearVote(a, p, c)
        PROVE  Kept
    BY <2>1, <2>3 DEF PublishClearVote
  <2>4. ASSUME NEW s \in signed, NEW p \in Proposals, NEW c \in VoteChoices,
               PublishVote(s, p, c)
        PROVE  Kept
    BY <2>1, <2>4 DEF PublishVote
  <2>5. QED
    BY <2>2, <2>3, <2>4
    DEF Next, vars, PublishAnnounce, PublishStart, Register, SignVote, Seal
<1>4. ASSUME NEW j \in DOMAIN ballots, ballots[j].block <= head
      PROVE  Valid(Sealed', ballots'[j]) <=> Valid(Sealed, ballots[j])
  BY <1>1, <1>2, <1>3, <1>4, SealedGrows, ValidUnchanged DEF IInv
<1>5. ASSUME NEW i \in SealedBallots, NEW j \in 1..i
      PROVE  j \in DOMAIN ballots /\ ballots[j].block <= head
  <2>1. i \in DOMAIN ballots /\ ballots[i].block <= head
    BY DEF SealedBallots
  <2>2. j \in DOMAIN ballots
    BY <1>2, <2>1
  <2>3. ballots[j].block <= ballots[i].block
    BY <2>1 DEF IInv, BallotsInOrder
  <2>4. ballots[i].block \in Nat /\ ballots[j].block \in Nat
    BY <1>2, <2>1, <2>2 DEF Ballots, Vote, ClearVote
  <2>5. QED
    BY <1>2, <2>1, <2>2, <2>3, <2>4
<1>6. QED
  <2> SUFFICES ASSUME NEW i \in SealedBallots
               PROVE  i \in Counted(Sealed', ballots')
                        <=> i \in Counted(Sealed, ballots)
    OBVIOUS
  <2>1. i \in DOMAIN ballots /\ i \in 1..i /\ \A j \in 1..(i - 1) : j \in 1..i
    BY <1>2 DEF SealedBallots
  <2>2. \A j \in 1..i : /\ ballots'[j] = ballots[j]
                        /\ Valid(Sealed', ballots'[j]) <=> Valid(Sealed, ballots[j])
    BY <1>3, <1>4, <1>5
  <2>3. QED
    BY <1>3, <2>1, <2>2 DEF Counted, IsCounted

\* A ballot every observer has seen keeps its verdict for ever, whoever signs
\* and whatever lands later: the running tally only grows.
THEOREM VerdictsAreStable == Spec => VerdictStable
<1>1. IInv /\ IInv' /\ [Next]_vars
      => [\A i \in SealedBallots :
            i \in Counted(Sealed', ballots') <=> i \in Counted(Sealed, ballots)]_vars
  BY StepVerdictStable
<1>2. QED
  BY <1>1, IInvCorrect, PTL DEF Spec, VerdictStable

-----------------------------------------------------------------------------
(* What a signature is good for.                                            *)

LEMMA IInvSignedStaysValid ==
  ASSUME IInv
  PROVE  SignedVoteStaysValid
<1> SUFFICES ASSUME NEW i \in SealedBallots, ballots[i].kind = "vote",
                    ballots[i].p = ballots[i].sig.p, ballots[i].c = ballots[i].sig.c
             PROVE  Reason(Sealed, ballots[i]) \in
                      {"ok", "no-start-remark", "pre-start-vote", "post-end-vote"}
  BY DEF SignedVoteStaysValid
<1> DEFINE v == ballots[i]
<1>1. i \in DOMAIN ballots
  BY DEF SealedBallots
<1>2. v.sig \in signed /\ v.rb = v.sig.rb
  BY <1>1 DEF IInv, VotesAreSigned
<1>3. /\ v.sig.ring = RingAt(Sealed, v.rb) /\ v.sig.key \in v.sig.ring
      /\ Cardinality(v.sig.ring) >= 2
  BY <1>2 DEF IInv, SignedOverRing
<1>4. Verify(v.sig, RingAt(Sealed, v.rb), v.p, v.c, v.rb)
  BY <1>2, <1>3 DEF Verify
<1>5. ~(Cardinality(RingAt(Sealed, v.rb)) < 2)
  <2>1. v.sig.ring \in SUBSET Keys
    BY <1>2 DEF IInv, TypeOK, Signature
  <2>2. Cardinality(v.sig.ring) \in Nat
    BY <2>1, FS_Subset, FS_CardinalityType, RingAssumption
  <2>3. QED
    BY <1>3, <2>2
<1>6. WindowReason(Sealed, v.block) \in
        {"ok", "no-start-remark", "pre-start-vote", "post-end-vote"}
  BY DEF WindowReason
<1>7. QED
  BY <1>4, <1>5, <1>6 DEF Reason, VoteReason

\* A vote that is published as it was signed is refused for its block alone,
\* and never for its ring or its signature, whatever landed since it was
\* signed and whichever program signed it.
THEOREM SignedVotesStayValid == Spec => []SignedVoteStaysValid
<1>1. IInv => SignedVoteStaysValid
  BY IInvSignedStaysValid
<1>2. QED
  BY <1>1, IInvCorrect, PTL

-----------------------------------------------------------------------------
(* No double vote.                                                          *)

\* Two keys of one ring that only one voter announced are the same key: a ring
\* holds the latest announce of each voter, and ties go to the larger key.
LEMMA OneKeyPerVoter ==
  ASSUME TypeOK, NEW a, NEW b, NEW k \in RingAt(Sealed, b),
         NEW l \in RingAt(Sealed, b), OnlyBy(a, k), OnlyBy(a, l)
  PROVE  k = l
<1> DEFINE ann == EligibleAnnounces({r \in Sealed : r.block <= b},
                                    FindVotingStartBlock(Sealed))
<1>1. PICK x \in ann : x.vk = k /\ \A z \in ann : z.signer = x.signer => ~Newer(z, x)
  BY DEF RingAt, ComputeRingAt, ReconstructRing
<1>2. PICK y \in ann : y.vk = l /\ \A z \in ann : z.signer = y.signer => ~Newer(z, y)
  BY DEF RingAt, ComputeRingAt, ReconstructRing
<1>3. x \in Sealed /\ x.kind = "announce" /\ y \in Sealed /\ y.kind = "announce"
  BY DEF EligibleAnnounces
<1>4. x.signer = a /\ y.signer = a
  BY <1>1, <1>2, <1>3 DEF OnlyBy
<1>5. ~Newer(x, y) /\ ~Newer(y, x)
  BY <1>1, <1>2, <1>4
<1>6. x \in Announce /\ y \in Announce
  BY <1>3 DEF Sealed, TypeOK, Registration, Announce, Start
<1>7. /\ x.block \in Nat /\ x.vk \in Nat
      /\ y.block \in Nat /\ y.vk \in Nat
  BY <1>6, RingAssumption DEF Announce
<1>8. QED
  BY <1>1, <1>2, <1>5, <1>7 DEF Newer

\* What it takes for a ballot to be counted as an anonymous vote.
LEMMA CountedVoteChecks ==
  ASSUME IInv, NEW i \in CountedVotes
  PROVE  /\ i \in DOMAIN ballots /\ ballots[i] \in Vote
         /\ Valid(Sealed, ballots[i])
         /\ FindVotingStartBlock(Sealed) # NoBlock
         /\ ballots[i].sig.key \in RingAt(Sealed, ballots[i].rb)
<1>1. i \in DOMAIN ballots /\ ballots[i].kind = "vote" /\ Valid(Sealed, ballots[i])
  BY DEF CountedVotes, CountedOf, IsCounted, SealedBallots
<1>2. ballots[i] \in Vote
  BY <1>1 DEF IInv, TypeOK, Ballots, Vote, ClearVote
<1>3. VoteReason(Sealed, ballots[i]) = "ok"
  BY <1>1 DEF Valid, Reason
<1>4. WindowReason(Sealed, ballots[i].block) = "ok"
  BY <1>3 DEF VoteReason
<1>5. Verify(ballots[i].sig, RingAt(Sealed, ballots[i].rb), ballots[i].p,
             ballots[i].c, ballots[i].rb)
  BY <1>3, <1>4 DEF VoteReason
<1>6. QED
  BY <1>1, <1>2, <1>4, <1>5 DEF WindowReason, Verify

\* A counted vote is, in choice, proposal and ring block, one that a holder of
\* its key signed, by whomever and however often it was published.
THEOREM VotesCountAsSigned == Spec => []CountedAsSigned
<1>1. ASSUME IInv PROVE CountedAsSigned
  <2> SUFFICES ASSUME NEW i \in CountedVotes
               PROVE  \E s \in signed : /\ s.key = ballots[i].sig.key
                                        /\ s.p = ProposalId
                                        /\ s.c = ballots[i].c
                                        /\ s.rb = ballots[i].rb
    BY DEF CountedAsSigned
  <2>1. /\ i \in DOMAIN ballots /\ ballots[i].kind = "vote"
        /\ Valid(Sealed, ballots[i])
    BY <1>1, CountedVoteChecks DEF Vote
  <2>2. ballots[i].sig \in signed
    BY <1>1, <2>1 DEF IInv, VotesAreSigned
  <2>3. VoteReason(Sealed, ballots[i]) = "ok"
    BY <2>1 DEF Valid, Reason
  <2>4. WindowReason(Sealed, ballots[i].block) = "ok"
    BY <2>3 DEF VoteReason
  <2>5. Verify(ballots[i].sig, RingAt(Sealed, ballots[i].rb), ballots[i].p,
               ballots[i].c, ballots[i].rb)
    BY <2>3, <2>4 DEF VoteReason
  <2>6. ballots[i].p = ProposalId
    BY <2>1 DEF Valid, IsBallot
  <2>7. QED
    BY <2>2, <2>5, <2>6 DEF Verify
<1>2. QED
  BY <1>1, IInvCorrect, PTL

LEMMA IInvKeysFrozen ==
  ASSUME IInv
  PROVE  CountedKeysFrozen
<1> SUFFICES ASSUME Signing = "ui", NEW i \in CountedVotes
             PROVE  ballots[i].sig.key \in RingAt(Sealed, head)
  BY DEF CountedKeysFrozen
<1> DEFINE start == FindVotingStartBlock(Sealed)
<1>1. /\ i \in DOMAIN ballots /\ ballots[i] \in Vote
      /\ start # NoBlock
      /\ ballots[i].sig.key \in RingAt(Sealed, ballots[i].rb)
  BY CountedVoteChecks
<1>2. ballots[i].rb \in Nat /\ ballots[i].rb >= start
  BY <1>1 DEF IInv, VotesAreSigned, SignedAfterStart, Vote
<1>3. Sealed \in SUBSET Registration /\ head \in Nat
  BY DEF Sealed, IInv, TypeOK
<1>4. start <= head
  <2>1. StartBlocks(Sealed) # {}
    BY <1>1 DEF FindVotingStartBlock
  <2>2. start \in StartBlocks(Sealed)
    BY <1>3, <2>1, StartBlockType, MinIsLeast DEF FindVotingStartBlock
  <2>3. QED
    BY <2>2 DEF StartBlocks, Sealed
<1>5. start \in Nat
  BY <1>1, <1>3, StartBlockType
<1>6. RingAt(Sealed, ballots[i].rb) = RingAt(Sealed, head)
  BY <1>1, <1>2, <1>3, <1>4, <1>5, RingFrozen
<1>7. QED
  BY <1>1, <1>6

LEMMA IInvOneVote ==
  ASSUME IInv
  PROVE  BrowsersVoteOnce
<1> SUFFICES ASSUME Signing = "ui", NEW a \in Addresses,
                    NEW i \in CountedVotes, NEW j \in CountedVotes,
                    OnlyBy(a, ballots[i].sig.key), OnlyBy(a, ballots[j].sig.key)
             PROVE  i = j
  BY DEF BrowsersVoteOnce, OneAnonVotePerVoter
<1>1. ballots[i].sig.key = ballots[j].sig.key
  BY IInvKeysFrozen, OneKeyPerVoter DEF CountedKeysFrozen, IInv
<1>2. /\ i \in DOMAIN ballots /\ ballots[i].kind = "vote"
      /\ j \in DOMAIN ballots /\ ballots[j].kind = "vote"
      /\ Valid(Sealed, ballots[i]) /\ Valid(Sealed, ballots[j])
  BY CountedVoteChecks DEF Vote
<1>3. SameSlot(ballots[i], ballots[j]) /\ SameSlot(ballots[j], ballots[i])
  BY <1>1, <1>2 DEF SameSlot
<1>4. i \in Nat /\ j \in Nat /\ i >= 1 /\ j >= 1
  BY <1>2 DEF IInv, TypeOK
<1>5. ~(i < j) /\ ~(j < i)
  BY <1>2, <1>3, <1>4 DEF CountedVotes, CountedOf, IsCounted
<1>6. QED
  BY <1>4, <1>5

\* Votes signed by the UI, which signs only after it has scanned the start
\* remark, are all counted under the keys frozen at the start...
THEOREM KeysAreFrozen == Spec => []CountedKeysFrozen
<1>1. IInv => CountedKeysFrozen
  BY IInvKeysFrozen
<1>2. QED
  BY <1>1, IInvCorrect, PTL

\* ... so a voter who announced several keys of his own, and still holds them
\* all, is counted once.
THEOREM NoDoubleVote == Spec => []BrowsersVoteOnce
<1>1. IInv => BrowsersVoteOnce
  BY IInvOneVote
<1>2. QED
  BY <1>1, IInvCorrect, PTL

-----------------------------------------------------------------------------
(* The chain implements BallotBox.                                          *)

\* The ballots the observers count lie on the chain, pass every check, and no
\* two of them have the same slot.
LEMMA CountedOnce ==
  ASSUME IInv, NEW kind, NEW i \in CountedOf(kind), NEW j \in CountedOf(kind),
         SameSlot(ballots[i], ballots[j]), SameSlot(ballots[j], ballots[i])
  PROVE  i = j
<1>1. /\ i \in DOMAIN ballots /\ j \in DOMAIN ballots
      /\ IsCounted(Sealed, ballots, i) /\ IsCounted(Sealed, ballots, j)
  BY DEF CountedOf, SealedBallots
<1>2. i \in Nat /\ j \in Nat /\ i >= 1 /\ j >= 1
  BY <1>1 DEF IInv, TypeOK
<1>3. ~(i < j) /\ ~(j < i)
  BY <1>1, <1>2 DEF IsCounted
<1>4. QED
  BY <1>2, <1>3

LEMMA CountedIsFinite ==
  ASSUME IInv, NEW kind
  PROVE  IsFiniteSet(CountedOf(kind))
<1>1. DOMAIN ballots = 1..Len(ballots) /\ Len(ballots) \in Nat
  BY DEF IInv, TypeOK
<1>2. CountedOf(kind) \in SUBSET (DOMAIN ballots)
  BY DEF CountedOf, SealedBallots
<1>3. IsFiniteSet(DOMAIN ballots)
  BY <1>1, FS_Interval
<1>4. QED
  BY <1>2, <1>3, FS_Subset

\* As many voted as ballots are counted when no two are by the same.
LEMMA OneEach ==
  ASSUME NEW S, IsFiniteSet(S), NEW counted, NEW who,
         \A b \in counted : b.id \in S /\ b.by \in who,
         \A b \in counted : \A c \in counted : b.id = c.id \/ b.by = c.by => b = c
  PROVE  Box!OnePerSlot(counted, who)
<1> DEFINE voted == {b.by : b \in counted}
           f == [b \in counted |-> b.id]
           g == [b \in counted |-> b.by]
<1>1. IsFiniteSet(counted)
  <2>1. f \in Injection(counted, S)
    BY DEF Injection, IsInjective
  <2>2. QED
    BY <2>1, FS_Injection
<1>2. g \in Bijection(counted, voted)
  BY DEF Bijection, Injection, Surjection, IsInjective
<1>3. Cardinality(voted) = Cardinality(counted)
  BY <1>1, <1>2, FS_Bijection DEF ExistsBijection
<1>4. voted \subseteq who
  OBVIOUS
<1>5. QED
  BY <1>3, <1>4 DEF Box!OnePerSlot, Box!Cardinality, Cardinality

\* What the browser's signers guarantee of the observers' tally: one vote per
\* key of the frozen ring, one clear vote per registered voter.
OneBallotEach ==
  BoxIsOpen =>
    /\ Box!OnePerSlot(CastByKey, RingAt(Sealed, head))
    /\ Box!OnePerSlot(CastInClear, AnnouncedSigners(Sealed))

LEMMA IInvOneBallotEach ==
  ASSUME IInv
  PROVE  OneBallotEach
<1> SUFFICES ASSUME BoxIsOpen
             PROVE  /\ Box!OnePerSlot(CastByKey, RingAt(Sealed, head))
                    /\ Box!OnePerSlot(CastInClear, AnnouncedSigners(Sealed))
  BY DEF OneBallotEach
<1>1. Box!OnePerSlot(CastByKey, RingAt(Sealed, head))
  <2>1. \A i \in CountedVotes : /\ ballots[i].kind = "vote"
                                /\ ballots[i].sig.key \in RingAt(Sealed, head)
    BY IInvKeysFrozen DEF CountedKeysFrozen, CountedVotes, CountedOf, BoxIsOpen
  <2>2. \A i \in CountedVotes : \A j \in CountedVotes :
          ballots[i].sig.key = ballots[j].sig.key => i = j
    BY <2>1, CountedOnce DEF CountedVotes, SameSlot
  <2>3. IsFiniteSet(CountedVotes)
    BY CountedIsFinite DEF CountedVotes
  <2>4. /\ \A b \in CastByKey : b.id \in CountedVotes /\ b.by \in RingAt(Sealed, head)
        /\ \A b \in CastByKey : \A c \in CastByKey :
             b.id = c.id \/ b.by = c.by => b = c
    BY <2>1, <2>2 DEF CastByKey
  <2>5. QED
    BY <2>3, <2>4, OneEach
<1>2. Box!OnePerSlot(CastInClear, AnnouncedSigners(Sealed))
  <2> DEFINE C == CountedOf("clear")
  <2>1. \A i \in C : /\ ballots[i].kind = "clear"
                     /\ ballots[i].signer \in AnnouncedSigners(Sealed)
    <3> SUFFICES ASSUME NEW i \in C
                 PROVE  /\ ballots[i].kind = "clear"
                        /\ ballots[i].signer \in AnnouncedSigners(Sealed)
      OBVIOUS
    <3>1. ballots[i].kind = "clear" /\ Valid(Sealed, ballots[i])
      BY DEF CountedOf, IsCounted
    <3>2. ClearReason(Sealed, ballots[i]) = "ok"
      BY <3>1 DEF Valid, Reason
    <3>3. QED
      BY <3>1, <3>2 DEF ClearReason
  <2>2. \A i \in C : \A j \in C : ballots[i].signer = ballots[j].signer => i = j
    BY <2>1, CountedOnce DEF SameSlot
  <2>3. IsFiniteSet(C)
    BY CountedIsFinite
  <2>4. /\ \A b \in CastInClear : b.id \in C /\ b.by \in AnnouncedSigners(Sealed)
        /\ \A b \in CastInClear : \A c \in CastInClear :
             b.id = c.id \/ b.by = c.by => b = c
    BY <2>1, <2>2 DEF CastInClear
  <2>5. QED
    BY <2>3, <2>4, OneEach
<1>3. QED
  BY <1>1, <1>2

\* Before voting opens nothing is counted.
LEMMA NothingBeforeStart ==
  ASSUME VotingStartBlock = NoBlock
  PROVE  CastByKey = {} /\ CastInClear = {} /\ AnnouncedSigners(Sealed) = {}
<1>1. \A r : ~Valid(Sealed, r)
  BY NothingIsValid DEF VotingStartBlock
<1>2. \A kind : CountedOf(kind) = {}
  BY <1>1 DEF CountedOf, IsCounted
<1>3. QED
  BY <1>2 DEF CastByKey, CastInClear, CountedVotes, AnnouncedSigners, VotingStartBlock

\* A block that is sealed adds to what is counted and changes nothing of it.
LEMMA StepCounts ==
  ASSUME IInv, IInv', [Next]_vars, NEW kind \in {"vote", "clear"}
  PROVE  /\ \A i \in CountedOf(kind) : i \in CountedOf(kind)' /\ ballots'[i] = ballots[i]
         /\ \A i \in CountedOf(kind)' : i \in CountedOf(kind) \/ ballots'[i].block > head
<1>1. ballots \in Seq(Ballots) /\ ballots' \in Seq(Ballots) /\ head \in Nat
  BY DEF IInv, TypeOK
<1>2. head' \in {head, head + 1}
  BY <1>1 DEF Next, vars, PublishAnnounce, PublishStart, Register, PublishClearVote,
              PublishVote, CastBallot, SignVote, Seal
<1>3. /\ DOMAIN ballots \subseteq DOMAIN ballots'
      /\ \A i \in DOMAIN ballots : ballots'[i] = ballots[i]
      /\ \A i \in DOMAIN ballots' : i \in DOMAIN ballots \/ ballots'[i].block = head + 1
  <2> DEFINE Kept == /\ DOMAIN ballots \subseteq DOMAIN ballots'
                     /\ \A i \in DOMAIN ballots : ballots'[i] = ballots[i]
                     /\ \A i \in DOMAIN ballots' :
                          i \in DOMAIN ballots \/ ballots'[i].block = head + 1
  <2>1. ASSUME NEW r, r.block = head + 1, CastBallot(r) PROVE Kept
    BY <1>1, <2>1 DEF CastBallot
  <2>2. CASE UNCHANGED ballots
    BY <2>2
  <2>3. ASSUME NEW a \in Addresses, NEW p \in Proposals, NEW c \in VoteChoices,
               PublishClearVote(a, p, c)
        PROVE  Kept
    BY <2>1, <2>3 DEF PublishClearVote
  <2>4. ASSUME NEW s \in signed, NEW p \in Proposals, NEW c \in VoteChoices,
               PublishVote(s, p, c)
        PROVE  Kept
    BY <2>1, <2>4 DEF PublishVote
  <2>5. QED
    BY <2>2, <2>3, <2>4
    DEF Next, vars, PublishAnnounce, PublishStart, Register, SignVote, Seal
<1>4. \A i \in DOMAIN ballots : ballots[i].block \in Nat
  BY <1>1 DEF Ballots, Vote, ClearVote
<1>5. \A i \in DOMAIN ballots' : ballots'[i].block \in Nat
  BY <1>1 DEF Ballots, Vote, ClearVote
<1>6. \A i \in SealedBallots :
        i \in Counted(Sealed', ballots') <=> i \in Counted(Sealed, ballots)
  BY StepVerdictStable
<1>7. SealedBallots \subseteq SealedBallots'
  BY <1>1, <1>2, <1>3, <1>4 DEF SealedBallots
<1>8. ASSUME NEW i \in CountedOf(kind)
      PROVE  i \in CountedOf(kind)' /\ ballots'[i] = ballots[i]
  <2>1. i \in SealedBallots /\ i \in Counted(Sealed, ballots) /\ ballots[i].kind = kind
    BY DEF CountedOf, Counted, SealedBallots
  <2>2. i \in SealedBallots' /\ i \in Counted(Sealed', ballots') /\ ballots'[i] = ballots[i]
    BY <1>3, <1>6, <1>7, <2>1 DEF SealedBallots
  <2>3. QED
    BY <2>1, <2>2 DEF CountedOf, Counted
<1>9. ASSUME NEW i \in CountedOf(kind)', ~(ballots'[i].block > head)
      PROVE  i \in CountedOf(kind)
  <2>1. i \in DOMAIN ballots' /\ i \in Counted(Sealed', ballots') /\ ballots'[i].kind = kind
    BY DEF CountedOf, Counted, SealedBallots
  <2>2. i \in SealedBallots /\ ballots'[i] = ballots[i]
    BY <1>1, <1>3, <1>5, <1>9, <2>1 DEF SealedBallots
  <2>3. i \in Counted(Sealed, ballots)
    BY <1>6, <2>1, <2>2
  <2>4. QED
    BY <2>1, <2>2, <2>3 DEF CountedOf, Counted
<1>10. QED
  BY <1>8, <1>9

\* What every observer counts grows, and by ballots of the new block only.
LEMMA StepCasts ==
  ASSUME IInv, IInv', [Next]_vars
  PROVE  /\ CastByKey \subseteq CastByKey' /\ CastInClear \subseteq CastInClear'
         /\ \/ UNCHANGED <<CastByKey, CastInClear>>
            \/ \E i \in DOMAIN ballots' : /\ Valid(Sealed', ballots'[i])
                                          /\ ballots'[i].block > head
<1>1. CastByKey \subseteq CastByKey' /\ CastInClear \subseteq CastInClear'
  BY StepCounts DEF CastByKey, CastInClear, CountedVotes
<1>2. ASSUME ~ \E i \in DOMAIN ballots' : /\ Valid(Sealed', ballots'[i])
                                          /\ ballots'[i].block > head
      PROVE  UNCHANGED <<CastByKey, CastInClear>>
  <2>1. \A kind : \A i \in CountedOf(kind)' :
          i \in DOMAIN ballots' /\ Valid(Sealed', ballots'[i])
    BY DEF CountedOf, SealedBallots, IsCounted
  <2>2. \A kind \in {"vote", "clear"} :
          /\ CountedOf(kind)' = CountedOf(kind)
          /\ \A i \in CountedOf(kind) : ballots'[i] = ballots[i]
    BY <1>2, <2>1, StepCounts
  <2>3. QED
    BY <2>2 DEF CastByKey, CastInClear, CountedVotes
<1>3. QED
  BY <1>1, <1>2

\* What the refinement needs of every state.
ElectionInv == IInv /\ IsFiniteSet(registrations) /\ OneBallotEach

LEMMA NextFinite ==
  ASSUME IsFiniteSet(registrations), [Next]_vars
  PROVE  IsFiniteSet(registrations)'
<1>1. ASSUME NEW r, Register(r) PROVE IsFiniteSet(registrations)'
  BY <1>1, FS_AddElement DEF Register
<1>2. CASE UNCHANGED registrations
  BY <1>2
<1>3. ASSUME NEW a \in Addresses, NEW p \in Proposals, NEW k \in Keys,
             PublishAnnounce(a, p, k)
      PROVE  IsFiniteSet(registrations)'
  BY <1>1, <1>3 DEF PublishAnnounce
<1>4. ASSUME NEW a \in Addresses, NEW p \in Proposals, PublishStart(a, p)
      PROVE  IsFiniteSet(registrations)'
  BY <1>1, <1>4 DEF PublishStart
<1>5. QED
  BY <1>2, <1>3, <1>4
  DEF Next, vars, PublishClearVote, PublishVote, CastBallot, SignVote, Seal

LEMMA InitBox == Init => Box!BoxInit
<1> SUFFICES ASSUME Init PROVE Box!BoxInit
  OBVIOUS
<1>1. VotingStartBlock = NoBlock
  BY DEF Init, VotingStartBlock, FindVotingStartBlock, StartBlocks, Sealed
<1>2. QED
  BY <1>1 DEF Box!BoxInit, BoxIsOpen, InBox

\* A sealed block with the start remark opens the box, one sealed while voting
\* is open is counted in it, and every other step leaves it as it is.
LEMMA StepBox ==
  ASSUME ElectionInv, ElectionInv', [Next]_vars
  PROVE  [Box!Open \/ Box!Vote]_(Box!boxVars)
<1> DEFINE start == VotingStartBlock
           phase == IF ~BoxIsOpen THEN "announce"
                    ELSE IF EndBlock # NoBlock /\ head + 1 >= EndBlock
                         THEN "ended" ELSE "voting"
           roll == InBox(RingAt(Sealed, head))
<1>0. /\ BoxIsOpen <=> Signing = "ui" /\ start # NoBlock
      /\ BoxIsOpen' <=> Signing = "ui" /\ start' # NoBlock
  BY WorldStays DEF BoxIsOpen, Signing
<1>10. CASE Signing # "ui"
  BY <1>0, <1>10 DEF Box!boxVars, InBox
<1>1. IInv /\ IInv' /\ OneBallotEach /\ OneBallotEach'
  BY DEF ElectionInv
<1>2. /\ Sealed \in SUBSET Registration /\ Sealed' \in SUBSET Registration
      /\ head \in Nat /\ head' \in Nat
  BY <1>1 DEF IInv, TypeOK, Sealed
<1>3. Later(Sealed, Sealed', head)
  BY <1>1, SealedGrows DEF IInv
<1>4. head' \in {head, head + 1}
  BY <1>2 DEF Next, vars, PublishAnnounce, PublishStart, Register, PublishClearVote,
              PublishVote, CastBallot, SignVote, Seal
<1>5. /\ CastByKey \subseteq CastByKey' /\ CastInClear \subseteq CastInClear'
      /\ \/ UNCHANGED <<CastByKey, CastInClear>>
         \/ \E i \in DOMAIN ballots' : /\ Valid(Sealed', ballots'[i])
                                       /\ ballots'[i].block > head
  BY <1>1, StepCasts
<1>6. CASE start' = NoBlock
  <2>1. start = NoBlock
    BY <1>2, <1>3, <1>6, EligibleSettles DEF VotingStartBlock
  <2>2. QED
    BY <1>0, <1>6, <2>1 DEF Box!boxVars, InBox
<1>7. CASE Signing = "ui" /\ start = NoBlock /\ start' # NoBlock
  <2>1. phase' \in {"voting", "ended"}
    BY <1>0, <1>7
  <2>2. ~BoxIsOpen /\ BoxIsOpen'
    BY <1>0, <1>7
  <2>3. /\ Box!OnePerSlot(CastByKey', RingAt(Sealed', head'))
        /\ Box!OnePerSlot(CastInClear', AnnouncedSigners(Sealed'))
    BY <1>1, <2>2 DEF OneBallotEach
  <2>4. IsFiniteSet(Sealed')
    BY FS_Subset DEF ElectionInv, Sealed
  <2>5. /\ RingAt(Sealed', head') \subseteq Keys
        /\ AnnouncedSigners(Sealed') \subseteq AllowedRealAddresses
        /\ Cardinality(RingAt(Sealed', head')) <= Cardinality(AnnouncedSigners(Sealed'))
    BY <1>2, <1>7, <2>4, RollFitsVoters DEF VotingStartBlock
  <2>6. roll' = RingAt(Sealed', head')
    BY <2>2 DEF InBox
  <2>7. Box!Open
    BY <2>1, <2>2, <2>3, <2>5, <2>6
    DEF Box!Open, Box!Count, Box!Cardinality, Cardinality, InBox
  <2>8. QED
    BY <2>7
<1>8. CASE Signing = "ui" /\ start # NoBlock
  <2>1. start' = start /\ AnnouncedSigners(Sealed') = AnnouncedSigners(Sealed)
    BY <1>2, <1>3, <1>8, EligibleSettles DEF VotingStartBlock
  <2>2. start \in Nat /\ start <= head
    <3>1. StartBlocks(Sealed) # {}
      BY <1>8 DEF FindVotingStartBlock, VotingStartBlock
    <3>2. start \in StartBlocks(Sealed) /\ start \in Nat
      BY <1>2, <3>1, StartBlockType, MinIsLeast
      DEF FindVotingStartBlock, VotingStartBlock
    <3>3. QED
      BY <3>2 DEF StartBlocks, Sealed
  <2>3. RingAt(Sealed', head') = RingAt(Sealed, head)
    <3>1. RingAt(Sealed', head') = RingAt(Sealed, head')
      BY <1>2, <1>3, <1>8, EligibleSettles DEF VotingStartBlock
    <3>2. RingAt(Sealed, head') = RingAt(Sealed, head)
      BY <1>2, <1>4, <1>8, <2>2, RingFrozen DEF VotingStartBlock
    <3>3. QED
      BY <3>1, <3>2
  <2> BoxIsOpen /\ BoxIsOpen'
    BY <1>0, <1>8, <2>1
  <2>4. roll' = roll
    BY <2>3 DEF InBox
  <2>5. /\ Box!OnePerSlot(CastByKey', roll')
        /\ Box!OnePerSlot(CastInClear', AnnouncedSigners(Sealed'))
    BY <1>1, <2>3, <2>4 DEF OneBallotEach, InBox
  <2>6. CASE phase = "voting"
    <3>1. phase' \in {"voting", "ended"}
      BY <1>8, <2>1
    <3>2. Box!Vote
      BY <1>5, <2>1, <2>4, <2>5, <2>6, <3>1 DEF Box!Vote, Box!Count, InBox
    <3>3. QED
      BY <3>2
  <2>7. CASE phase # "voting"
    <3>1. EndBlock \in Nat /\ EndBlock # NoBlock /\ head + 1 >= EndBlock
      BY <1>8, <2>7, RingAssumption
    <3>2. phase = "ended" /\ phase' = "ended"
      <4>1. head' + 1 >= EndBlock
        <5>1. head \in Nat /\ (head' = head \/ head' = head + 1)
          BY <1>2, <1>4
        <5>2. QED
          BY <3>1, <5>1
      <4>2. QED
        BY <1>8, <2>1, <3>1, <4>1
    <3>3. ASSUME NEW i \in DOMAIN ballots', ballots'[i].block > head,
                 Valid(Sealed', ballots'[i])
          PROVE  FALSE
      <4>1. ballots'[i].block \in Nat
        BY <1>1 DEF IInv, TypeOK, Ballots, Vote, ClearVote
      <4>2. ballots'[i].block >= EndBlock
        BY <1>2, <3>1, <3>3, <4>1
      <4>3. WindowReason(Sealed', ballots'[i].block) # "ok"
        BY <1>2, <1>8, <2>1, <2>2, <3>1, <3>3, <4>1, <4>2
        DEF WindowReason, VotingStartBlock
      <4>4. QED
        BY <3>3, <4>3 DEF Valid, Reason, VoteReason, ClearReason
    <3>4. UNCHANGED <<CastByKey, CastInClear>>
      BY <1>5, <3>3
    <3>5. QED
      BY <2>1, <2>4, <3>2, <3>4 DEF Box!boxVars, InBox
  <2>8. QED
    BY <2>6, <2>7
<1>9. QED
  BY <1>10, <1>6, <1>7, <1>8

LEMMA ElectionInvCorrect == Spec => []ElectionInv
<1>1. Init => IsFiniteSet(registrations)
  BY FS_EmptySet DEF Init
<1>2. IsFiniteSet(registrations) /\ [Next]_vars => IsFiniteSet(registrations)'
  BY NextFinite
<1>3. IInv => OneBallotEach
  BY IInvOneBallotEach
<1>4. QED
  BY <1>1, <1>2, <1>3, IInvCorrect, PTL DEF Spec, ElectionInv

\* The chain and its observers implement the election of BallotBox, for any
\* number of voters, keys and blocks: the roll is fixed when voting opens and
\* has one key per registered voter at most; one vote of each key on it and
\* one clear vote of each registered voter are counted; what is counted stays;
\* nothing is added after the deadline.
THEOREM ChainIsElection == Spec => IsElection
<1>1. Init => Box!BoxInit
  BY InitBox
<1>2. ElectionInv /\ ElectionInv' /\ [Next]_vars
      => [Box!Open \/ Box!Vote]_(Box!boxVars)
  BY StepBox
<1>3. QED
  BY <1>1, <1>2, ElectionInvCorrect, PTL DEF Spec, IsElection, Box!BoxSpec
=============================================================================
