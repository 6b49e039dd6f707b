----------------------------- MODULE Ring_proofs ----------------------------
(***************************************************************************)
(* What Ring's functions return, and what becomes of it when an observer    *)
(* has scanned more of the chain: the lemmas that the proofs about the      *)
(* ballots and about the faucet share.                                      *)
(***************************************************************************)
EXTENDS Ring, WellFoundedInduction, FiniteSetTheorems, TLAPS

-----------------------------------------------------------------------------
(* What the ring functions return.                                          *)

\* Min, which findVotingStartBlock computes, is the least element.
LEMMA MinIsLeast ==
  ASSUME NEW S \in SUBSET Nat, S # {}
  PROVE  Min(S) \in S /\ \A x \in S : Min(S) <= x
<1> DEFINE less == {ss \in Nat \X Nat : ss[1] < ss[2]}
<1>1. IsWellFoundedOn(less, Nat)
  BY NatLessThanWellFounded DEF OpToRel
<1>2. PICK m \in S : \A y \in S : ~(<<y, m>> \in less)
  BY <1>1, WFMin
<1>3. ASSUME NEW y \in S PROVE m <= y
  <2>1. y < m => <<y, m>> \in less
    OBVIOUS
  <2>2. ~(y < m)
    BY <1>2, <2>1
  <2>3. QED
    BY <2>2
<1>4. QED
  BY <1>3 DEF Min

LEMMA StartBlockType ==
  ASSUME NEW R \in SUBSET Registration
  PROVE  /\ StartBlocks(R) \in SUBSET Nat
         /\ FindVotingStartBlock(R) \in Nat \cup {NoBlock}
<1>1. StartBlocks(R) \in SUBSET Nat
  BY DEF StartBlocks, Registration, Announce, Start
<1>2. QED
  BY <1>1, MinIsLeast DEF FindVotingStartBlock

LEMMA RingType ==
  ASSUME NEW R \in SUBSET Registration, NEW b, NEW start
  PROVE  ComputeRingAt(R, b, start) \in SUBSET Keys
  BY DEF ComputeRingAt, ReconstructRing, EligibleAnnounces, Registration,
         Announce, Start

-----------------------------------------------------------------------------
(* What a later scan changes.                                               *)

\* R2 is what an observer of R holds once later blocks arrive.
Later(R, R2, h) ==
  /\ R \subseteq R2
  /\ \A r \in R : r.block <= h
  /\ \A r \in R2 \ R : r.block > h

\* A later scan finds the same start block, or one beyond what was scanned.
LEMMA StartBlockSettles ==
  ASSUME NEW R \in SUBSET Registration, NEW R2 \in SUBSET Registration,
         NEW h \in Nat, Later(R, R2, h)
  PROVE  \/ FindVotingStartBlock(R2) = FindVotingStartBlock(R)
         \/ /\ FindVotingStartBlock(R) = NoBlock
            /\ FindVotingStartBlock(R2) > h
<1> DEFINE S == StartBlocks(R)
           S2 == StartBlocks(R2)
<1>1. S \in SUBSET Nat /\ S2 \in SUBSET Nat
  BY StartBlockType
<1>2. S \subseteq S2
  BY DEF StartBlocks, Later
<1>3. \A x \in S2 : x \in S \/ x > h
  BY DEF StartBlocks, Later
<1>4. \A x \in S : x <= h
  BY DEF StartBlocks, Later
<1>5. CASE S2 = {}
  BY <1>2, <1>5 DEF FindVotingStartBlock
<1>6. CASE S = {} /\ S2 # {}
  <2>1. Min(S2) \in S2
    BY <1>1, <1>6, MinIsLeast
  <2>2. QED
    BY <1>3, <1>6, <2>1 DEF FindVotingStartBlock
<1>7. CASE S # {}
  <2>1. Min(S) \in S /\ \A x \in S : Min(S) <= x
    BY <1>1, <1>7, MinIsLeast
  <2>2. Min(S2) \in S2 /\ \A x \in S2 : Min(S2) <= x
    BY <1>1, <1>2, <1>7, MinIsLeast
  <2>3. Min(S2) <= Min(S)
    BY <1>2, <2>1, <2>2
  <2>4. Min(S2) \in S
    BY <1>1, <1>3, <1>4, <2>1, <2>2, <2>3
  <2>5. Min(S2) = Min(S)
    BY <1>1, <2>1, <2>3, <2>4
  <2>6. QED
    BY <1>2, <1>7, <2>5 DEF FindVotingStartBlock
<1>8. QED
  BY <1>5, <1>6, <1>7

\* ... so the ring at a scanned block is the same for both observers.
LEMMA RingUnchanged ==
  ASSUME NEW R \in SUBSET Registration, NEW R2 \in SUBSET Registration,
         NEW h \in Nat, Later(R, R2, h), NEW b \in 0..h
  PROVE  RingAt(R2, b) = RingAt(R, b)
<1> DEFINE W == {r \in R : r.block <= b}
           start == FindVotingStartBlock(R)
           start2 == FindVotingStartBlock(R2)
<1>1. \A r \in R2 : r.block \in Nat
  BY DEF Registration, Announce, Start
<1>2. {r \in R2 : r.block <= b} = W
  BY <1>1 DEF Later
<1>3. EligibleAnnounces(W, start2) = EligibleAnnounces(W, start)
  <2>1. CASE start2 = start
    BY <2>1
  <2>2. CASE start = NoBlock /\ start2 > h
    <3>1. \A r \in W : r.block < start2
      BY <1>1, <2>2, StartBlockType DEF Later, NoBlock
    <3>2. QED
      BY <2>2, <3>1 DEF EligibleAnnounces
  <2>3. QED
    BY <2>1, <2>2, StartBlockSettles
<1>4. QED
  BY <1>2, <1>3 DEF RingAt, ComputeRingAt, ReconstructRing

\* Once the start remark is scanned, the set of announces that can enter any
\* ring is settled, even for a ring block beyond the head.
LEMMA EligibleSettles ==
  ASSUME NEW R \in SUBSET Registration, NEW R2 \in SUBSET Registration,
         NEW h \in Nat, Later(R, R2, h), FindVotingStartBlock(R) # NoBlock
  PROVE  /\ FindVotingStartBlock(R2) = FindVotingStartBlock(R)
         /\ AnnouncedSigners(R2) = AnnouncedSigners(R)
         /\ \A b : RingAt(R2, b) = RingAt(R, b)
<1> DEFINE start == FindVotingStartBlock(R)
<1>1. FindVotingStartBlock(R2) = start
  BY StartBlockSettles
<1>2. start \in Nat /\ start <= h
  <2>1. StartBlocks(R) # {}
    BY DEF FindVotingStartBlock
  <2>2. start \in StartBlocks(R) /\ start \in Nat
    BY <2>1, StartBlockType, MinIsLeast DEF FindVotingStartBlock
  <2>3. QED
    BY <2>2 DEF StartBlocks, Later
<1>3. \A r \in R2 : r.block \in Nat
  BY DEF Registration, Announce, Start
<1>4. \A r \in R2 : r.block < start => r \in R
  BY <1>2, <1>3 DEF Later
<1>5. EligibleAnnounces(R2, start) = EligibleAnnounces(R, start)
  BY <1>4 DEF EligibleAnnounces, Later
<1>6. ASSUME NEW b
      PROVE  EligibleAnnounces({r \in R2 : r.block <= b}, start)
               = EligibleAnnounces({r \in R : r.block <= b}, start)
  BY <1>4 DEF EligibleAnnounces, Later
<1>7. QED
  BY <1>1, <1>5, <1>6
  DEF AnnouncedSigners, RingAt, ComputeRingAt, ReconstructRing

-----------------------------------------------------------------------------
(* The frozen ring.                                                         *)

\* All rings from the start block on are the same.
LEMMA RingFrozen ==
  ASSUME NEW R \in SUBSET Registration, NEW b \in Nat, NEW c \in Nat,
         FindVotingStartBlock(R) # NoBlock,
         b >= FindVotingStartBlock(R), c >= FindVotingStartBlock(R)
  PROVE  RingAt(R, b) = RingAt(R, c)
<1> DEFINE start == FindVotingStartBlock(R)
<1>1. start \in Nat
  BY StartBlockType
<1>2. \A r \in R : r.block \in Nat
  BY DEF Registration, Announce, Start
<1>3. EligibleAnnounces({r \in R : r.block <= b}, start)
        = EligibleAnnounces({r \in R : r.block <= c}, start)
  BY <1>1, <1>2 DEF EligibleAnnounces
<1>4. QED
  BY <1>3 DEF RingAt, ComputeRingAt, ReconstructRing

\* A ring has one key at most of each voter who entered it.
LEMMA RollFitsVoters ==
  ASSUME NEW R \in SUBSET Registration, IsFiniteSet(R), NEW b \in Nat,
         FindVotingStartBlock(R) # NoBlock
  PROVE  /\ RingAt(R, b) \subseteq Keys
         /\ AnnouncedSigners(R) \subseteq AllowedRealAddresses
         /\ Cardinality(RingAt(R, b)) <= Cardinality(AnnouncedSigners(R))
<1> DEFINE start == FindVotingStartBlock(R)
           all == EligibleAnnounces(R, start)
           ann == EligibleAnnounces({r \in R : r.block <= b}, start)
           winners == {x \in ann : \A y \in ann : y.signer = x.signer => ~Newer(y, x)}
           ring == RingAt(R, b)
           who == AnnouncedSigners(R)
<1>1. ring = {x.vk : x \in winners}
  BY DEF RingAt, ComputeRingAt, ReconstructRing
<1>2. who = {x.signer : x \in all} /\ winners \subseteq all
  BY DEF AnnouncedSigners, EligibleAnnounces
<1>3. \A x \in winners : /\ x \in Announce /\ x.signer \in AllowedRealAddresses
                         /\ x.block \in Nat /\ x.vk \in Nat /\ x.vk \in Keys
  BY RingAssumption DEF EligibleAnnounces, Registration, Announce, Start
<1>4. \A x \in winners : \A y \in winners : x.signer = y.signer => x.vk = y.vk
  <2> SUFFICES ASSUME NEW x \in winners, NEW y \in winners, x.signer = y.signer
               PROVE  x.vk = y.vk
    OBVIOUS
  <2>1. ~Newer(x, y) /\ ~Newer(y, x)
    OBVIOUS
  <2>2. QED
    BY <1>3, <2>1 DEF Newer
<1>5. IsFiniteSet(who)
  <2>1. all \in SUBSET R
    BY DEF EligibleAnnounces
  <2>2. IsFiniteSet(all)
    BY <2>1, FS_Subset
  <2> DEFINE f == [x \in all |-> x.signer]
  <2>3. f \in Surjection(all, who)
    BY <1>2 DEF Surjection
  <2>4. QED
    BY <2>2, <2>3, FS_Surjection
<1>6. ring \subseteq Keys
  BY <1>1, <1>3
<1>7. who \subseteq AllowedRealAddresses
  BY <1>2 DEF EligibleAnnounces
<1>8. Cardinality(ring) <= Cardinality(who)
  <2> DEFINE of(k) == CHOOSE x \in winners : x.vk = k
             g == [k \in ring |-> of(k).signer]
  <2>1. \A k \in ring : of(k) \in winners /\ of(k).vk = k
    BY <1>1
  <2> HIDE DEF of
  <2>2. g \in [ring -> who]
    BY <1>2, <2>1
  <2>3. \A k \in ring : \A l \in ring : g[k] = g[l] => k = l
    BY <1>4, <2>1
  <2>4. g \in Injection(ring, who)
    BY <2>2, <2>3 DEF Injection, IsInjective
  <2>5. QED
    BY <1>5, <2>4, FS_Injection
<1>9. QED
  BY <1>6, <1>7, <1>8

-----------------------------------------------------------------------------
(* Verdicts.                                                                *)

\* Before voting opens nothing is counted.
LEMMA NothingIsValid ==
  ASSUME NEW R, FindVotingStartBlock(R) = NoBlock, NEW r
  PROVE  ~Valid(R, r)
<1>1. WindowReason(R, r.block) = "no-start-remark"
  BY DEF WindowReason
<1>2. QED
  BY <1>1 DEF Valid, Reason, VoteReason, ClearReason

\* A ballot in a scanned block passes its checks for the later observer iff it
\* does for the earlier one.
LEMMA ValidUnchanged ==
  ASSUME NEW R \in SUBSET Registration, NEW R2 \in SUBSET Registration,
         NEW h \in Nat, Later(R, R2, h),
         NEW r \in Ballots, r.block <= h
  PROVE  Valid(R2, r) <=> Valid(R, r)
<1>1. r.block \in Nat
  BY DEF Ballots, Vote, ClearVote
<1>2. CASE FindVotingStartBlock(R) # NoBlock
  BY <1>2, EligibleSettles
  DEF Valid, Reason, VoteReason, ClearReason, WindowReason
<1>3. CASE FindVotingStartBlock(R) = NoBlock
  <2>1. WindowReason(R, r.block) # "ok"
    BY <1>3 DEF WindowReason
  <2>2. WindowReason(R2, r.block) # "ok"
    <3>1. CASE FindVotingStartBlock(R2) = NoBlock
      BY <3>1 DEF WindowReason
    <3>2. CASE FindVotingStartBlock(R2) # NoBlock
      <4>1. r.block < FindVotingStartBlock(R2)
        BY <1>1, <1>3, <3>2, StartBlockSettles, StartBlockType
      <4>2. QED
        BY <3>2, <4>1 DEF WindowReason
    <3>3. QED
      BY <3>1, <3>2
  <2>3. QED
    BY <2>1, <2>2 DEF Valid, Reason, VoteReason, ClearReason
<1>4. QED
  BY <1>2, <1>3
=============================================================================
