----------------------------- MODULE TallyLoop ------------------------------
(***************************************************************************)
(* tallyRemarks of packages/shared/src/index.ts as it runs: over a list of  *)
(* remarks in whatever order and multiplicity an indexer collected them,    *)
(* one pass to find the start remark, one to collect the announced signers, *)
(* a sort, then one step per remark, each step walking the list again for   *)
(* the ring of its vote.  Ring says what the result must be.                *)
(***************************************************************************)
EXTENDS Ring, SequencesExt

CONSTANTS
  Candidates,   \* the remarks the list may hold
  MaxLen        \* its length

ASSUME TallyLoopAssumption ==
  /\ Candidates \subseteq RemarkLike /\ MaxLen \in Nat
  /\ VoteChoices \cap {"invalid", "totalVoted"} = {}

VARIABLES
  list,             \* the parameter `remarks`
  pc,               \* "collect", "walk" or "done"
  sorted, next,     \* the sorted copy and the position of the walk in it
  votingStartBlock,
  announcedSigners,
  seenKeyImage,
  seenClearVoter,
  tally,            \* per choice, and invalid and totalVoted
  accepted,         \* counted votes, in the order they were pushed
  acceptedClear,
  invalidReasons

input == <<list, votingStartBlock, announcedSigners, sorted>>
result == <<seenKeyImage, seenClearVoter, tally, accepted, acceptedClear,
            invalidReasons>>
vars == <<input, pc, next, result>>

\* What a rejected ballot may be told.
InvalidReason ==
  {"no-start-remark", "pre-start-vote", "post-end-vote", "ring-too-small",
   "sig-verify-failed", "clear-vote-not-allowed", "clear-vote-not-announced"}

-----------------------------------------------------------------------------
(* The loops.                                                               *)

Earlier(earliest, r) ==
  IF /\ r.kind = "start"
     /\ r.signer = CoordinatorAddress
     /\ r.p = ProposalId
     /\ earliest = NoBlock \/ r.block < earliest
  THEN r.block ELSE earliest

EarliestStart(rs) == FoldLeft(Earlier, NoBlock, rs)

EntersRing(r, start) ==
  /\ r.kind = "announce"
  /\ r.p = ProposalId
  /\ r.signer \in AllowedRealAddresses
  /\ start = NoBlock \/ r.block < start

\* Mutant: of two announces in one block the one seen later wins.
SeenLater(latest, r, start) ==
  IF /\ EntersRing(r, start)
     /\ r.signer \notin DOMAIN latest \/ r.block >= latest[r.signer].block
  THEN [v \in DOMAIN latest \cup {r.signer} |-> IF v = r.signer THEN r ELSE latest[v]]
  ELSE latest

\* latestByVoter when the loop has seen r.
Later(latest, r, start) ==
  IF /\ EntersRing(r, start)
     /\ r.signer \notin DOMAIN latest \/ Newer(r, latest[r.signer])
  THEN [v \in DOMAIN latest \cup {r.signer} |-> IF v = r.signer THEN r ELSE latest[v]]
  ELSE latest

LatestByVoter(rs, start) ==
  FoldLeft(LAMBDA latest, r : Later(latest, r, start), <<>>, rs)

RingOf(rs, start) ==
  LET latest == LatestByVoter(rs, start)
  IN  {latest[v].vk : v \in DOMAIN latest}

\* computeRingAt: the filter, then reconstructRing.
UpTo(rs, rb) ==
  FoldLeft(LAMBDA kept, r : IF r.block <= rb THEN Append(kept, r) ELSE kept, <<>>, rs)
RingOfList(rs, rb, start) == RingOf(UpTo(rs, rb), start)

CollectAnnounced(rs, start) ==
  IF start = NoBlock THEN {}
  ELSE FoldLeft(LAMBDA seen, r : IF EntersRing(r, start)
                                 THEN seen \cup {r.signer} ELSE seen,
                {}, rs)

\* JavaScript's sort is stable: the place of position i is how many come no
\* later than it does.
Place(rs, i) ==
  Cardinality({j \in DOMAIN rs : \/ rs[j].block < rs[i].block
                                 \/ rs[j].block = rs[i].block /\ j <= i})
SortByBlock(rs) ==
  [n \in DOMAIN rs |-> rs[CHOOSE i \in DOMAIN rs : Place(rs, i) = n]]

-----------------------------------------------------------------------------
Init ==
  /\ list = <<>> /\ pc = "collect"
  /\ sorted = <<>> /\ next = 1
  /\ votingStartBlock = NoBlock /\ announcedSigners = {}
  /\ seenKeyImage = {} /\ seenClearVoter = {}
  /\ tally = [x \in VoteChoices \cup {"invalid", "totalVoted"} |-> 0]
  /\ accepted = <<>> /\ acceptedClear = <<>> /\ invalidReasons = <<>>

\* An indexer hands over the next remark it came across.
Collect(r) ==
  /\ pc = "collect" /\ Len(list) < MaxLen
  /\ list' = Append(list, r)
  /\ UNCHANGED <<pc, sorted, next, votingStartBlock, announcedSigners, result>>

Begin ==
  /\ pc = "collect"
  /\ pc' = "walk"
  /\ votingStartBlock' = EarliestStart(list)
  /\ announcedSigners' = CollectAnnounced(list, votingStartBlock')
  /\ sorted' = SortByBlock(list)
  /\ UNCHANGED <<list, next, result>>

\* What the chain of ifs says of the ballot r, in the order of the code.
WindowCheck(r) ==
  IF votingStartBlock = NoBlock THEN "no-start-remark"
  ELSE IF r.block < votingStartBlock THEN "pre-start-vote"
  ELSE IF EndBlock # NoBlock /\ r.block >= EndBlock THEN "post-end-vote"
  ELSE "ok"

ClearCheck(r) ==
  IF WindowCheck(r) # "ok" THEN WindowCheck(r)
  ELSE IF r.signer \notin AllowedRealAddresses THEN "clear-vote-not-allowed"
  ELSE IF r.signer \notin announcedSigners THEN "clear-vote-not-announced"
  ELSE "ok"

VoteCheck(r) ==
  LET ring == RingOfList(list, r.rb, votingStartBlock)
  IN  IF WindowCheck(r) # "ok" THEN WindowCheck(r)
      ELSE IF Cardinality(ring) < 2 THEN "ring-too-small"
      ELSE IF ~Verify(r.sig, ring, r.p, r.c, r.rb) THEN "sig-verify-failed"
      ELSE "ok"

\* The remark under the walk, which moves on.
Current == sorted[next]
Visit ==
  /\ pc = "walk" /\ next <= Len(sorted)
  /\ next' = next + 1
  /\ UNCHANGED <<pc, input>>

\* Announces, start remarks and ballots of other proposals: continue.
Skip == Visit /\ ~IsBallot(Current) /\ UNCHANGED result

Bump(keys) == [x \in DOMAIN tally |-> IF x \in keys THEN tally[x] + 1 ELSE tally[x]]

RecordInvalid(reason) ==
  /\ Visit
  /\ tally' = Bump({"invalid"})
  /\ invalidReasons' = Append(invalidReasons, [at |-> next, reason |-> reason])
  /\ UNCHANGED <<seenKeyImage, seenClearVoter, accepted, acceptedClear>>

RejectClear ==
  /\ Visit /\ IsBallot(Current) /\ Current.kind = "clear"
  /\ ClearCheck(Current) # "ok"
  /\ RecordInvalid(ClearCheck(Current))

RejectVote ==
  /\ Visit /\ IsBallot(Current) /\ Current.kind = "vote"
  /\ VoteCheck(Current) # "ok"
  /\ RecordInvalid(VoteCheck(Current))

\* Mutant: a clear vote is not added to the total.
CountClearQuietly ==
  /\ Visit /\ IsBallot(Current) /\ Current.kind = "clear"
  /\ ClearCheck(Current) = "ok"
  /\ Current.signer \notin seenClearVoter
  /\ seenClearVoter' = seenClearVoter \cup {Current.signer}
  /\ tally' = Bump({Current.c})
  /\ acceptedClear' = Append(acceptedClear, Current)
  /\ UNCHANGED <<seenKeyImage, accepted, invalidReasons>>

CountClear ==
  /\ Visit /\ IsBallot(Current) /\ Current.kind = "clear"
  /\ ClearCheck(Current) = "ok"
  /\ Current.signer \notin seenClearVoter
  /\ seenClearVoter' = seenClearVoter \cup {Current.signer}
  /\ tally' = Bump({Current.c, "totalVoted"})
  /\ acceptedClear' = Append(acceptedClear, Current)
  /\ UNCHANGED <<seenKeyImage, accepted, invalidReasons>>

\* Mutant: a key image may vote again.
CountEveryVote ==
  /\ Visit /\ IsBallot(Current) /\ Current.kind = "vote"
  /\ VoteCheck(Current) = "ok"
  /\ seenKeyImage' = seenKeyImage \cup {Current.sig.key}
  /\ tally' = Bump({Current.c, "totalVoted"})
  /\ accepted' = Append(accepted, Current)
  /\ UNCHANGED <<seenClearVoter, acceptedClear, invalidReasons>>

CountVote ==
  /\ Visit /\ IsBallot(Current) /\ Current.kind = "vote"
  /\ VoteCheck(Current) = "ok"
  /\ Current.sig.key \notin seenKeyImage
  /\ seenKeyImage' = seenKeyImage \cup {Current.sig.key}
  /\ tally' = Bump({Current.c, "totalVoted"})
  /\ accepted' = Append(accepted, Current)
  /\ UNCHANGED <<seenClearVoter, acceptedClear, invalidReasons>>

\* The silent drop of a slot already taken.
DropRepeated ==
  /\ Visit /\ IsBallot(Current)
  /\ \/ /\ Current.kind = "clear" /\ ClearCheck(Current) = "ok"
        /\ Current.signer \in seenClearVoter
     \/ /\ Current.kind = "vote" /\ VoteCheck(Current) = "ok"
        /\ Current.sig.key \in seenKeyImage
  /\ UNCHANGED result

Return ==
  /\ pc = "walk" /\ next > Len(sorted)
  /\ pc' = "done"
  /\ UNCHANGED <<input, next, result>>

Next ==
  \/ \E r \in Candidates : Collect(r)
  \/ Begin
  \/ Skip \/ RejectClear \/ RejectVote \/ CountClear \/ CountVote \/ DropRepeated
  \/ Return

Spec == Init /\ [][Next]_vars

-----------------------------------------------------------------------------
(* Properties.                                                              *)

TypeOK ==
  /\ pc \in {"collect", "walk", "done"} /\ next \in Nat \ {0}
  /\ list \in Seq(RemarkLike) /\ sorted \in Seq(RemarkLike)
  /\ tally \in [VoteChoices \cup {"invalid", "totalVoted"} -> Nat]
  /\ accepted \in Seq(Vote) /\ acceptedClear \in Seq(ClearVote)
  /\ invalidReasons \in Seq([at : Nat, reason : InvalidReason])

\* The tally's own books agree: every counted ballot is in one list and one
\* bucket, and every rejection has its reason.
BooksBalance ==
  /\ tally["totalVoted"] = Len(accepted) + Len(acceptedClear)
  /\ \A c \in VoteChoices :
       tally[c] = Cardinality({i \in DOMAIN accepted : accepted[i].c = c})
                  + Cardinality({i \in DOMAIN acceptedClear : acceptedClear[i].c = c})
  /\ tally["invalid"] = Len(invalidReasons)

\* The elements of s at the positions in at, in order.
Nth(at, n) == CHOOSE k \in at : Cardinality({j \in at : j <= k}) = n
Pick(s, at) == [n \in 1..Cardinality(at) |-> s[Nth(at, n)]]

\* The positions of the walk counted, or rejected, before the next one.
CountedBefore(kind) ==
  {i \in Counted(Range(list), sorted) : i < next /\ sorted[i].kind = kind}
InvalidBefore == {i \in Invalid(Range(list), sorted) : i < next}

\* What the walk knows half way: it runs over what Begin computed from the
\* list, and its books are Ring's verdict on the positions behind it.
WalkIsRight ==
  IF pc = "collect"
  THEN /\ next = 1 /\ seenKeyImage = {} /\ seenClearVoter = {}
       /\ accepted = <<>> /\ acceptedClear = <<>> /\ invalidReasons = <<>>
  ELSE /\ sorted = SortByBlock(list)
       /\ votingStartBlock = EarliestStart(list)
       /\ announcedSigners = CollectAnnounced(list, votingStartBlock)
       /\ next <= Len(sorted) + 1 /\ (pc = "done" => next = Len(sorted) + 1)
       /\ accepted = Pick(sorted, CountedBefore("vote"))
       /\ acceptedClear = Pick(sorted, CountedBefore("clear"))
       /\ seenKeyImage = {sorted[i].sig.key : i \in CountedBefore("vote")}
       /\ seenClearVoter = {sorted[i].signer : i \in CountedBefore("clear")}
       /\ Len(invalidReasons) = Cardinality(InvalidBefore)

\* However the remarks were collected, interleaved or repeated, the walk goes
\* over them in block order and counts exactly what Ring says: the first valid
\* ballot of each slot, each judged by the ring at its own block.
WalkCountsFirstValid ==
  pc = "done" =>
    LET R == Range(list)
        counted(kind) == {i \in Counted(R, sorted) : sorted[i].kind = kind}
    IN  /\ Range(sorted) = R
        /\ \A j \in DOMAIN sorted : \A i \in 1..j : sorted[i].block <= sorted[j].block
        /\ accepted = Pick(sorted, counted("vote"))
        /\ acceptedClear = Pick(sorted, counted("clear"))
        /\ Len(invalidReasons) = Cardinality(Invalid(R, sorted))

\* Two collections of the same remarks give the same ring at every block and
\* the same start: what makes faucet, UI and verifier agree.
RingIsOrderFree ==
  pc # "collect" =>
    /\ votingStartBlock = FindVotingStartBlock(Range(list))
    /\ announcedSigners = AnnouncedSigners(Range(list))
    /\ \A r \in Range(list) :
         RingOfList(list, r.block, votingStartBlock) = RingAt(Range(list), r.block)
=============================================================================
