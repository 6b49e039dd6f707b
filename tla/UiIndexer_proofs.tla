-------------------------- MODULE UiIndexer_proofs --------------------------
(***************************************************************************)
(* Proofs about UiIndexer, for any chain, any safety margin and threshold,  *)
(* and any order of block fetches, failures and reloads.                    *)
(***************************************************************************)
EXTENDS UiIndexer, WellFoundedInduction, TLAPS

-----------------------------------------------------------------------------
(* The greatest element of a set of integers with an upper bound.           *)

LEMMA LeastOf ==
  ASSUME NEW T, T \subseteq Nat, T # {}
  PROVE  \E x \in T : \A y \in T : x <= y
<1> DEFINE R == OpToRel(<, Nat)
<1>1. IsWellFoundedOn(R, Nat)
  BY NatLessThanWellFounded
<1>2. \A x, y \in Nat : y < x => <<y, x>> \in R
  BY DEF OpToRel
<1> HIDE DEF R
<1>3. PICK x \in T : \A y \in T : ~ (<<y, x>> \in R)
  BY <1>1, WFMin
<1>4. \A y \in T : x <= y
  <2> TAKE y \in T
  <2>1. x \in Nat /\ y \in Nat /\ ~ (<<y, x>> \in R)
    BY <1>3
  <2>2. QED
    BY <2>1, <1>2
<1>5. QED
  BY <1>4

LEMMA GreatestOf ==
  ASSUME NEW S, S \subseteq Int, S # {}, NEW n \in Int, \A x \in S : x <= n
  PROVE  Max(S) \in S /\ \A x \in S : Max(S) >= x
<1> DEFINE T == {n - x : x \in S}
<1>1. T \subseteq Nat
  <2>1. \A x \in S : x \in Int /\ x <= n
    OBVIOUS
  <2>2. \A x \in S : n - x \in Nat
    BY <2>1
  <2>3. QED
    BY <2>2
<1>2. T # {}
  OBVIOUS
<1>3. \A x \in S : n - x \in T
  OBVIOUS
<1>4. \A t \in T : \E x \in S : t = n - x
  OBVIOUS
<1> HIDE DEF T
<1>5. PICK t \in T : \A u \in T : t <= u
  BY <1>1, <1>2, LeastOf
<1>6. PICK x \in S : t = n - x
  BY <1>4
<1>7. \A y \in S : x >= y
  <2> TAKE y \in S
  <2>1. t <= n - y /\ x \in Int /\ y \in Int
    BY <1>3, <1>5
  <2>2. QED
    BY <2>1, <1>6
<1>8. QED
  BY <1>7 DEF Max

LEMMA MaxOfTwo ==
  ASSUME NEW a \in Int, NEW b \in Int
  PROVE  /\ Max({a, b}) \in {a, b}
         /\ Max({a, b}) >= a /\ Max({a, b}) >= b
<1>1. \E n \in Int : \A x \in {a, b} : x <= n
  <2>1. CASE a <= b
    BY <2>1
  <2>2. CASE b <= a
    BY <2>2
  <2>3. QED
    BY <2>1, <2>2
<1>2. QED
  BY <1>1, GreatestOf

\* Prefix as a function of the range and of what was fetched of it.
PrefixOf(from, to, got) ==
  Max({from - 1} \cup {b \in from..to : from..b \subseteq got})

LEMMA PrefixIsLongest ==
  ASSUME NEW from \in Int, NEW to \in Int, from <= to, NEW got
  PROVE  /\ PrefixOf(from, to, got) \in (from - 1)..to
         /\ from..PrefixOf(from, to, got) \subseteq got
         /\ \A q \in from..to : from..q \subseteq got => q <= PrefixOf(from, to, got)
<1> DEFINE S == {from - 1} \cup {b \in from..to : from..b \subseteq got}
           p == PrefixOf(from, to, got)
<1>1. S \subseteq Int /\ S # {} /\ \A x \in S : x <= to
  OBVIOUS
<1>2. p = Max(S)
  BY DEF PrefixOf
<1> HIDE DEF S, p
<1>3. p \in S /\ \A x \in S : p >= x
  BY <1>1, <1>2, GreatestOf
<1>4. \A q \in from..to : from..q \subseteq got => q \in S
  BY DEF S
<1>5. p \in (from - 1)..to
  BY <1>3 DEF S
<1>6. from..p \subseteq got
  <2>1. CASE p = from - 1
    BY <2>1
  <2>2. CASE p # from - 1
    BY <2>2, <1>3 DEF S
  <2>3. QED
    BY <2>1, <2>2
<1>7. \A q \in from..to : from..q \subseteq got => q <= p
  BY <1>3, <1>4, <1>5
<1>8. QED
  BY <1>5, <1>6, <1>7 DEF p

\* What is fetched in addition only lengthens the prefix.
LEMMA PrefixGrows ==
  ASSUME NEW from \in Int, NEW to \in Int, from <= to, NEW got, NEW more, got \subseteq more
  PROVE  PrefixOf(from, to, got) <= PrefixOf(from, to, more)
<1> DEFINE p == PrefixOf(from, to, got)
           q == PrefixOf(from, to, more)
<1>1. /\ p \in (from - 1)..to /\ from..p \subseteq got
      /\ q \in (from - 1)..to
      /\ \A b \in from..to : from..b \subseteq more => b <= q
  BY PrefixIsLongest
<1> HIDE DEF p, q
<1>2. ASSUME p = from - 1 PROVE p <= q
  BY <1>1, <1>2
<1>3. ASSUME p # from - 1 PROVE p <= q
  <2>1. p \in from..to /\ from..p \subseteq more
    BY <1>1, <1>3
  <2>2. QED
    BY <1>1, <2>1
<1>4. p <= q
  BY <1>2, <1>3
<1>5. QED
  BY <1>4 DEF p, q

-----------------------------------------------------------------------------
(* Type correctness.                                                        *)

LEMMA NextFromIs ==
  ASSUME TypeOK
  PROVE  /\ NextFrom \in StartBlock..(scannedThrough + 1)
         /\ ~cacheHit => NextFrom = scannedThrough + 1
         /\ \/ NextFrom = StartBlock
            \/ cacheHit /\ NextFrom = scannedThrough + 1 - SafetyMargin
            \/ ~cacheHit
         /\ cacheHit => NextFrom > scannedThrough - SafetyMargin
<1>1. /\ StartBlock \in Nat /\ SafetyMargin \in Nat
      /\ scannedThrough \in Int /\ scannedThrough >= StartBlock - 1
  BY UiIndexerAssumption DEF TypeOK
<1>2. CASE ~cacheHit
  <2>1. NextFrom = scannedThrough + 1
    BY <1>2 DEF NextFrom
  <2>2. QED
    BY <1>1, <1>2, <2>1
<1>3. CASE cacheHit
  <2>1. NextFrom = Max({StartBlock, (scannedThrough + 1) - SafetyMargin})
    BY <1>3 DEF NextFrom
  <2>2. /\ NextFrom \in {StartBlock, (scannedThrough + 1) - SafetyMargin}
        /\ NextFrom >= StartBlock
        /\ NextFrom >= (scannedThrough + 1) - SafetyMargin
    BY <1>1, <2>1, MaxOfTwo
  <2>3. QED
    BY <1>1, <1>3, <2>2
<1>4. QED
  BY <1>2, <1>3

LEMMA IdleIsCallState == Idle \in CallState
<1>1. 0 \in 0..MaxBlock
  BY UiIndexerAssumption
<1>2. QED
  BY <1>1 DEF Idle, CallState

\* What a call does from its entry, or after its wait, keeps the types.
LEMMA ScanTypes ==
  ASSUME TypeOK, Ranges, NEW c \in Calls, NEW to \in 0..MaxBlock, ScanOrReturn(c, to)
  PROVE  /\ call' \in [Calls -> CallState] /\ Ranges'
         /\ inFlight' \in Calls \cup {None} /\ shown' \in Snapshot
         /\ UNCHANGED <<waiters, remarks, scannedThrough>>
<1>1. UNCHANGED <<waiters, remarks, scannedThrough>> /\ shown' \in Snapshot
  BY DEF ScanOrReturn, Emit, Snapshot, TypeOK
<1>2. CASE NextFrom > to
  <2>1. call' = [call EXCEPT ![c] = Idle] /\ inFlight' = inFlight
    BY <1>2 DEF ScanOrReturn
  <2>2. call' \in [Calls -> CallState] /\ inFlight' \in Calls \cup {None}
    BY <2>1, IdleIsCallState DEF TypeOK
  <2>3. Ranges'
    BY <2>1 DEF Ranges, TypeOK, Idle
  <2>4. QED
    BY <1>1, <2>2, <2>3
<1>3. CASE ~(NextFrom > to)
  <2> DEFINE new == [is |-> "scanning", from |-> NextFrom, to |-> to,
                     todo |-> NextFrom..to, got |-> {}]
  <2>1. call' = [call EXCEPT ![c] = new] /\ inFlight' = c
    BY <1>3 DEF ScanOrReturn
  <2>2. NextFrom \in StartBlock..to /\ NextFrom \in 0..MaxBlock
    BY <1>3, NextFromIs, UiIndexerAssumption DEF TypeOK
  <2>3. NextFrom..to \subseteq Blocks
    BY <2>2, UiIndexerAssumption DEF Blocks
  <2>4. new \in CallState
    BY <2>2, <2>3 DEF CallState
  <2>5. call' \in [Calls -> CallState] /\ inFlight' \in Calls \cup {None}
    BY <2>1, <2>4 DEF TypeOK
  <2>6. Ranges'
    BY <2>1, <2>2 DEF Ranges, TypeOK
  <2>7. QED
    BY <1>1, <2>5, <2>6
<1>4. QED
  BY <1>2, <1>3

LEMMA CatchUpTypes ==
  ASSUME TypeOK, Ranges, NEW c \in Calls, NEW to \in 0..MaxBlock, CatchUp(c, to)
  PROVE  /\ call' \in [Calls -> CallState] /\ Ranges'
         /\ inFlight' \in Calls \cup {None} /\ shown' \in Snapshot
         /\ waiters' \in [Calls -> Seq(Calls)]
         /\ UNCHANGED <<remarks, scannedThrough>>
<1>1. CASE inFlight = None
  <2>1. ScanOrReturn(c, to)
    BY <1>1 DEF CatchUp
  <2>2. waiters \in [Calls -> Seq(Calls)]
    BY DEF TypeOK
  <2>3. QED
    BY <2>1, <2>2, ScanTypes
<1>2. CASE inFlight # None
  <2>1. /\ call' = [call EXCEPT ![c] = [Idle EXCEPT !.is = "awaiting", !.to = to]]
        /\ waiters' = [waiters EXCEPT ![inFlight] = Append(waiters[inFlight], c)]
        /\ UNCHANGED <<inFlight, remarks, scannedThrough, shown>>
    BY <1>2 DEF CatchUp
  <2>2. inFlight \in Calls
    BY <1>2 DEF TypeOK
  <2>3. [Idle EXCEPT !.is = "awaiting", !.to = to] \in CallState
    BY IdleIsCallState DEF CallState, Idle
  <2>4. call' \in [Calls -> CallState]
    BY <2>1, <2>3 DEF TypeOK
  <2>5. waiters' \in [Calls -> Seq(Calls)]
    BY <2>1, <2>2 DEF TypeOK
  <2>6. Ranges'
    BY <2>1 DEF Ranges, TypeOK, Idle
  <2>7. QED
    BY <2>1, <2>4, <2>5, <2>6 DEF TypeOK
<1>3. QED
  BY <1>1, <1>2

\* What was saved seeds the next session.
LEMMA SeedTypes ==
  ASSUME NEW saved \in Snapshot \cup {NoCache}
  PROVE  Seed(saved) \in Snapshot
<1>1. StartBlock - 1 \in (StartBlock - 1)..MaxBlock
  BY UiIndexerAssumption
<1>2. QED
  BY <1>1 DEF Seed, Snapshot, Empty

LEMMA InitTypes == Init => TypeOK /\ Ranges
<1> SUFFICES ASSUME Init PROVE TypeOK /\ Ranges
  OBVIOUS
<1>1. world \in [forcing : BOOLEAN, failing : BOOLEAN, lastBlock : 0..MaxBlock]
  BY UiIndexerAssumption DEF Init
<1>2. mined \in 0..MaxBlock
  BY <1>1, UiIndexerAssumption DEF Init
<1>3. cache \in Snapshot \cup {NoCache}
  <2>1. ASSUME NEW b \in StartBlock..mined
        PROVE  [scannedThrough |-> b, remarks |-> StartBlock..b] \in Snapshot
    BY <1>2, UiIndexerAssumption DEF Snapshot, Blocks
  <2>2. QED
    BY <2>1 DEF Init
<1>4. shown \in Snapshot
  BY <1>3, SeedTypes DEF Init
<1>5. remarks \in SUBSET Blocks /\ scannedThrough \in (StartBlock - 1)..MaxBlock
  BY <1>4 DEF Init, Snapshot
<1>6. subscribed \in BOOLEAN /\ cacheHit \in BOOLEAN
  BY Zenon DEF Init
<1>7. call \in [Calls -> CallState] /\ waiters \in [Calls -> Seq(Calls)] /\ ready \in Seq(Calls)
  BY IdleIsCallState DEF Init
<1>8. Ranges
  BY DEF Init, Ranges, Idle
<1>9. QED
  BY <1>2, <1>3, <1>4, <1>5, <1>6, <1>7, <1>8 DEF Init, TypeOK

\* The cursor of a scan, and what it writes to the cache.
LEMMA ScanCursor ==
  ASSUME TypeOK, Ranges, NEW c \in Calls, call[c].is = "scanning",
         NEW got \in SUBSET Blocks
  PROVE  /\ call[c].from \in StartBlock..MaxBlock /\ call[c].to \in 0..MaxBlock
         /\ call[c].from <= call[c].to
         /\ Prefix(c, got) = PrefixOf(call[c].from, call[c].to, got)
         /\ Prefix(c, got) \in (StartBlock - 1)..MaxBlock
         /\ (call[c].from)..Prefix(c, got) \subseteq got
         /\ Prefix(c, got) >= call[c].from - 1
         /\ Max({scannedThrough, Prefix(c, got)}) \in (StartBlock - 1)..MaxBlock
         /\ Chunk(c, got) \in Snapshot
<1>1. call[c].from \in StartBlock..(call[c].to) /\ call[c].to \in 0..MaxBlock
  BY DEF TypeOK, CallState, Ranges
<1>2. Prefix(c, got) = PrefixOf(call[c].from, call[c].to, got)
  BY DEF Prefix, PrefixOf
<1>3. /\ Prefix(c, got) \in (call[c].from - 1)..(call[c].to)
      /\ (call[c].from)..Prefix(c, got) \subseteq got
  BY <1>1, <1>2, PrefixIsLongest, UiIndexerAssumption
<1>4. Prefix(c, got) \in (StartBlock - 1)..MaxBlock
  BY <1>1, <1>3, UiIndexerAssumption
<1>5. Max({scannedThrough, Prefix(c, got)}) \in {scannedThrough, Prefix(c, got)}
  <2>1. Prefix(c, got) \in Int /\ scannedThrough \in Int
    BY <1>4, UiIndexerAssumption DEF TypeOK
  <2>2. QED
    BY <2>1, MaxOfTwo
<1>6. Chunk(c, got) \in Snapshot
  BY <1>4 DEF Chunk, Snapshot, TypeOK
<1>7. QED
  BY <1>1, <1>2, <1>3, <1>4, <1>5, <1>6, UiIndexerAssumption DEF TypeOK

LEMMA TickHead ==
  ASSUME TypeOK
  PROVE  Max({head, mined}) \in 0..MaxBlock
<1>1. head \in Int /\ mined \in 0..MaxBlock /\ head \in 0..MaxBlock \cup {-1}
  BY UiIndexerAssumption DEF TypeOK, NoHead
<1>2. Max({head, mined}) \in {head, mined} /\ Max({head, mined}) >= mined
  BY <1>1, MaxOfTwo
<1>3. QED
  BY <1>1, <1>2

LEMMA NextTypes == TypeOK /\ Ranges /\ [Next]_vars => (TypeOK /\ Ranges)'
<1> SUFFICES ASSUME TypeOK, Ranges, [Next]_vars PROVE (TypeOK /\ Ranges)'
  OBVIOUS
<1> USE DEF refs, calls
<1>1. CASE Mine
  <2>1. mined' \in 0..MaxBlock
    BY <1>1, UiIndexerAssumption DEF Mine, TypeOK
  <2>2. QED
    BY <1>1, <2>1 DEF Mine, TypeOK, Ranges
<1>2. CASE Subscribe
  BY <1>2 DEF Subscribe, TypeOK, Ranges
<1>3. CASE Reload
  <2>1. shown' \in Snapshot
    BY <1>3, SeedTypes DEF Reload, TypeOK
  <2>2. remarks' \in SUBSET Blocks /\ scannedThrough' \in (StartBlock - 1)..MaxBlock
    BY <1>3, <2>1 DEF Reload, Snapshot
  <2>3. /\ call' \in [Calls -> CallState] /\ waiters' \in [Calls -> Seq(Calls)]
        /\ ready' \in Seq(Calls) /\ Ranges'
    BY <1>3, IdleIsCallState DEF Reload, Ranges, Idle
  <2>4. subscribed' \in BOOLEAN /\ cacheHit' \in BOOLEAN
    BY <1>3, Zenon DEF Reload
  <2>5. QED
    BY <1>3, <2>1, <2>2, <2>3, <2>4 DEF Reload, TypeOK
<1>4. ASSUME NEW c \in Calls, OnHead(c) PROVE (TypeOK /\ Ranges)'
  <2>1. /\ head' = Max({head, mined})
        /\ UNCHANGED <<world, mined, subscribed, cacheHit, ready, cache, awaited>>
    BY <1>4 DEF OnHead
  <2>2. head' \in 0..MaxBlock
    BY <2>1, TickHead
  <2>3. CASE CatchUp(c, head')
    BY <2>1, <2>2, <2>3, CatchUpTypes DEF TypeOK
  <2>4. CASE UNCHANGED <<calls, remarks, scannedThrough>> /\ Emit
    BY <2>1, <2>2, <2>4 DEF TypeOK, Ranges, Emit, Snapshot
  <2>5. QED
    BY <1>4, <2>3, <2>4 DEF OnHead
<1>5. ASSUME NEW c \in Calls, NEW b \in Blocks, ForceCatchUp(c, b)
      PROVE  (TypeOK /\ Ranges)'
  <2>1. /\ head' = Max({head, b}) /\ awaited' = b /\ CatchUp(c, head') /\ b <= mined
        /\ UNCHANGED <<world, mined, subscribed, cacheHit, ready, cache>>
    BY <1>5 DEF ForceCatchUp
  <2>2. head \in Int /\ b \in 0..MaxBlock
    BY UiIndexerAssumption DEF TypeOK, NoHead, Blocks
  <2>3. head' \in 0..MaxBlock
    <3>1. b \in Int /\ head \in 0..MaxBlock \cup {NoHead}
      BY <2>2 DEF TypeOK
    <3>2. head' \in {head, b} /\ head' >= b
      BY <2>1, <2>2, <3>1, MaxOfTwo
    <3>3. QED
      BY <2>2, <3>1, <3>2 DEF NoHead
  <2>4. QED
    BY <2>1, <2>3, CatchUpTypes DEF TypeOK
<1>6. ASSUME NEW c \in Calls, NEW b \in call[c].todo, Fetch(c, b)
      PROVE  (TypeOK /\ Ranges)'
  <2> DEFINE got == call[c].got \cup {b}
  <2>1. call[c] \in CallState
    BY DEF TypeOK
  <2>2. got \in SUBSET Blocks /\ call[c].todo \ {b} \in SUBSET Blocks
    BY <2>1 DEF CallState
  <2>3. /\ call[c].is = "scanning"
        /\ call' = [call EXCEPT ![c] = [call[c] EXCEPT !.todo = call[c].todo \ {b}, !.got = got]]
        /\ scannedThrough' = Max({scannedThrough, Prefix(c, got)})
        /\ cache' \in {cache, Chunk(c, got)}
        /\ UNCHANGED <<world, mined, subscribed, remarks, head, cacheHit, inFlight,
                       waiters, ready, shown, awaited>>
    BY <1>6 DEF Fetch
  <2>4. call' \in [Calls -> CallState]
    BY <2>1, <2>2, <2>3 DEF TypeOK, CallState
  <2>5. Ranges'
    BY <2>1, <2>3 DEF Ranges, TypeOK, CallState
  <2>6. scannedThrough' \in (StartBlock - 1)..MaxBlock /\ cache' \in Snapshot \cup {NoCache}
    <3>1. /\ Max({scannedThrough, Prefix(c, got)}) \in (StartBlock - 1)..MaxBlock
          /\ Chunk(c, got) \in Snapshot
      BY <2>2, <2>3, ScanCursor
    <3>2. cache \in Snapshot \cup {NoCache}
      BY DEF TypeOK
    <3>3. QED
      BY <2>3, <3>1, <3>2
  <2>7. QED
    BY <2>3, <2>4, <2>5, <2>6 DEF TypeOK
<1>7. ASSUME NEW c \in Calls, NEW b \in call[c].todo, FetchFails(c, b)
      PROVE  (TypeOK /\ Ranges)'
  <2>1. call[c] \in CallState
    BY DEF TypeOK
  <2>2. call' = [call EXCEPT ![c] = [call[c] EXCEPT !.todo = call[c].todo \ {b}]]
    BY <1>7 DEF FetchFails
  <2>3. call' \in [Calls -> CallState]
    BY <2>1, <2>2 DEF TypeOK, CallState
  <2>4. Ranges'
    BY <2>1, <2>2 DEF Ranges, TypeOK, CallState
  <2>5. QED
    BY <1>7, <2>3, <2>4 DEF FetchFails, TypeOK
<1>8. ASSUME NEW c \in Calls, RunEnds(c) PROVE (TypeOK /\ Ranges)'
  <2>1. call[c] \in CallState /\ call[c].is = "scanning" /\ call[c].got \in SUBSET Blocks
    BY <1>8 DEF TypeOK, CallState, RunEnds, Finished
  <2>2. scannedThrough' \in (StartBlock - 1)..MaxBlock
    BY <1>8, <2>1, ScanCursor DEF RunEnds
  <2>3. remarks' \in SUBSET Blocks
    BY <1>8, <2>1 DEF RunEnds, Merged, TypeOK
  <2>4. cache' \in Snapshot /\ shown' \in Snapshot
    BY <1>8, <2>2, <2>3 DEF RunEnds, Emit, Snapshot
  <2>5. call' = [call EXCEPT ![c] = [call[c] EXCEPT !.is = "settled"]]
    BY <1>8 DEF RunEnds
  <2>6. call' \in [Calls -> CallState]
    BY <2>1, <2>5 DEF TypeOK, CallState
  <2>7. Ranges'
    BY <2>1, <2>5 DEF Ranges, TypeOK, CallState
  <2>8. ready' \in Seq(Calls) /\ waiters' \in [Calls -> Seq(Calls)]
    BY <1>8 DEF RunEnds, TypeOK
  <2>9. QED
    BY <1>8, <2>2, <2>3, <2>4, <2>6, <2>7, <2>8 DEF RunEnds, TypeOK
<1>9. CASE ContinueOwner
  <2>1. Head(ready) \in Calls /\ ready' \in Seq(Calls)
    BY <1>9 DEF ContinueOwner, TypeOK
  <2>2. UNCHANGED <<world, mined, subscribed, head, cacheHit, cache, awaited>>
    BY <1>9 DEF ContinueOwner
  <2>3. CASE /\ head - scannedThrough >= (IF cacheHit THEN CatchupThreshold ELSE 1)
             /\ CatchUp(Head(ready), head)
    <3>1. head \in 0..MaxBlock
      BY <2>3, UiIndexerAssumption DEF TypeOK, NoHead
    <3>2. QED
      BY <2>1, <2>2, <2>3, <3>1, CatchUpTypes DEF TypeOK
  <2>4. CASE /\ call' = [call EXCEPT ![Head(ready)] = Idle]
             /\ UNCHANGED <<inFlight, waiters, remarks, scannedThrough, shown>>
    <3>1. call' \in [Calls -> CallState] /\ Ranges'
      BY <2>1, <2>4, IdleIsCallState DEF TypeOK, Ranges, Idle
    <3>2. QED
      BY <2>1, <2>2, <2>4, <3>1 DEF TypeOK
  <2>5. QED
    BY <1>9, <2>3, <2>4 DEF ContinueOwner
<1>10. CASE ContinueWaiter
  <2>1. Head(ready) \in Calls /\ ready' \in Seq(Calls)
    BY <1>10 DEF ContinueWaiter, TypeOK
  <2>2. call[Head(ready)].to \in 0..MaxBlock
    BY <2>1 DEF TypeOK, CallState
  <2>3. ScanOrReturn(Head(ready), call[Head(ready)].to)
    BY <1>10 DEF ContinueWaiter
  <2>4. QED
    BY <1>10, <2>1, <2>2, <2>3, ScanTypes DEF ContinueWaiter, TypeOK
<1>11. CASE UNCHANGED vars
  BY <1>11 DEF vars, TypeOK, Ranges
<1>12. QED
  BY <1>1, <1>2, <1>3, <1>4, <1>5, <1>6, <1>7, <1>8, <1>9, <1>10, <1>11 DEF Next

\* Every reachable state of the tab is well typed: the cursor and the cache
\* never leave the chain, whatever was forced, failed or reloaded.
THEOREM TypeCorrect == Spec => []TypeOK
<1>1. QED
  BY InitTypes, NextTypes, PTL DEF Spec

-----------------------------------------------------------------------------
(* Nothing is lost for good behind the cursor.                              *)

\* RunCovers, of one scan.
CoversOf(cs, through, looksBack, rem) ==
  /\ StartBlock..(cs.from - 1) \subseteq rem
  /\ \/ PrefixOf(cs.from, cs.to, cs.got) >= through
     \/ looksBack /\ cs.from > through - SafetyMargin

LEMMA RunCoversIs ==
  RunCovers <=> \A c \in Calls : call[c].is = "scanning" =>
                  CoversOf(call[c], scannedThrough, cacheHit, remarks)
BY DEF RunCovers, CoversOf, Prefix, PrefixOf

LEMMA NoHolesIs ==
  ASSUME TypeOK, ~world.forcing, OneRun
  PROVE  HolesAreRescanned <=>
           (inFlight = None =>
              Recoverable([scannedThrough |-> scannedThrough, remarks |-> remarks], cacheHit))
<1>1. (\A c \in Calls : call[c].is # "scanning") <=> inFlight \notin Calls
  BY DEF OneRun
<1>2. QED
  BY <1>1, UiIndexerAssumption DEF TypeOK, HolesAreRescanned

LEMMA InitOneRunCovers == Init => OneRunCovers
<1> SUFFICES ASSUME Init PROVE OneRunCovers
  OBVIOUS
<1>1. OneRun /\ RunCovers
  BY UiIndexerAssumption DEF Init, OneRun, RunCovers, Idle
<1>2. CASE cache = NoCache
  <2>1. scannedThrough = StartBlock - 1
    BY <1>2 DEF Init, Seed, Empty
  <2>2. HolesAreRescanned /\ CacheIsRecoverable
    BY <1>2, <2>1, UiIndexerAssumption DEF HolesAreRescanned, CacheIsRecoverable, Recoverable
  <2>3. QED
    BY <1>1, <2>2 DEF OneRunCovers
<1>3. CASE cache # NoCache
  <2>1. PICK b \in StartBlock..mined : cache = [scannedThrough |-> b, remarks |-> StartBlock..b]
    BY <1>3 DEF Init
  <2>2. scannedThrough = b /\ remarks = StartBlock..b
    BY <1>3, <2>1 DEF Init, Seed
  <2>3. HolesAreRescanned /\ CacheIsRecoverable
    BY <2>1, <2>2 DEF HolesAreRescanned, CacheIsRecoverable, Recoverable
  <2>4. QED
    BY <1>1, <2>3 DEF OneRunCovers
<1>4. QED
  BY <1>2, <1>3

\* A scan that begins keeps what was there, and looks back far enough.
LEMMA ScanCovers ==
  ASSUME TypeOK, ~world.forcing, OneRun, HolesAreRescanned, CacheIsRecoverable,
         inFlight = None, NEW c \in Calls, NEW to \in 0..MaxBlock, ScanOrReturn(c, to),
         UNCHANGED <<world, cacheHit, cache>>, ready' = <<>>
  PROVE  OneRunCovers'
<1>1. UNCHANGED <<waiters, remarks, scannedThrough>>
  BY DEF ScanOrReturn
<1>2. CacheIsRecoverable'
  BY DEF CacheIsRecoverable, Recoverable
<1>3. Recoverable([scannedThrough |-> scannedThrough, remarks |-> remarks], cacheHit)
  BY NoHolesIs
<1>4. CASE NextFrom > to
  <2>1. call' = [call EXCEPT ![c] = Idle] /\ inFlight' = None
    BY <1>4 DEF ScanOrReturn
  <2>2. \A d \in Calls : call'[d].is # "scanning" /\ call'[d].is # "awaiting"
    BY <2>1, UiIndexerAssumption DEF OneRun, Idle, TypeOK
  <2>3. OneRun'
    BY <1>1, <2>1, <2>2, UiIndexerAssumption DEF OneRun
  <2>4. RunCovers'
    BY <2>2 DEF RunCovers
  <2>5. HolesAreRescanned'
    BY <1>1, <1>3 DEF HolesAreRescanned, Recoverable
  <2>6. QED
    BY <1>2, <2>3, <2>4, <2>5 DEF OneRunCovers
<1>5. CASE ~(NextFrom > to)
  <2> DEFINE new == [is |-> "scanning", from |-> NextFrom, to |-> to,
                     todo |-> NextFrom..to, got |-> {}]
  <2>1. call' = [call EXCEPT ![c] = new] /\ inFlight' = c
    BY <1>5 DEF ScanOrReturn
  <2>2. \A d \in Calls :
          ((call'[d].is = "scanning") <=> (d = c)) /\ call'[d].is # "awaiting"
    BY <2>1, UiIndexerAssumption DEF OneRun, TypeOK
  <2>3. OneRun'
    BY <1>1, <2>1, <2>2, UiIndexerAssumption DEF OneRun
  <2>4. CoversOf(new, scannedThrough, cacheHit, remarks)
    <3>1. /\ StartBlock \in Nat /\ SafetyMargin \in Nat /\ scannedThrough \in Int
          /\ NextFrom \in Int
      BY NextFromIs, UiIndexerAssumption DEF TypeOK
    <3>2. ASSUME NEW b \in StartBlock..(NextFrom - 1) PROVE b \in remarks
      <4>1. b \in StartBlock..scannedThrough
        BY <3>1, NextFromIs
      <4>2. b \in remarks \/ (cacheHit /\ b > scannedThrough - SafetyMargin)
        BY <1>3, <4>1 DEF Recoverable
      <4>3. ~ (cacheHit /\ b > scannedThrough - SafetyMargin)
        BY <3>1, <3>2, NextFromIs
      <4>4. QED
        BY <4>2, <4>3
    <3>3. CASE cacheHit
      BY <3>2, <3>3, NextFromIs DEF CoversOf
    <3>4. CASE ~cacheHit
      <4>1. PrefixOf(NextFrom, to, {}) \in (NextFrom - 1)..to
        BY <1>5, <3>1, PrefixIsLongest
      <4>2. PrefixOf(NextFrom, to, {}) >= scannedThrough
        BY <3>1, <3>4, <4>1, NextFromIs
      <4>3. QED
        BY <3>2, <4>2 DEF CoversOf
    <3>5. QED
      BY <3>3, <3>4
  <2>5. RunCovers'
    <3>1. call'[c] = new
      BY <2>1 DEF TypeOK
    <3>2. CoversOf(call'[c], scannedThrough', cacheHit', remarks')
      BY <1>1, <2>4, <3>1
    <3>3. QED
      BY <2>2, <3>2 DEF RunCovers, CoversOf, Prefix, PrefixOf
  <2>6. HolesAreRescanned'
    BY <2>2 DEF HolesAreRescanned
  <2>7. QED
    BY <1>2, <2>3, <2>5, <2>6 DEF OneRunCovers
<1>6. QED
  BY <1>4, <1>5

\* A block that arrives lengthens the prefix, or leaves the cursor alone.
LEMMA FetchCovers ==
  ASSUME TypeOK, Ranges, ~world.forcing, OneRunCovers,
         NEW c \in Calls, NEW b \in call[c].todo, Fetch(c, b)
  PROVE  OneRunCovers'
<1> DEFINE got == call[c].got \cup {b}
           p == Prefix(c, got)
           from == call[c].from
<1>1. call[c] \in CallState /\ call[c].is = "scanning"
  BY DEF TypeOK, Fetch
<1>2. got \in SUBSET Blocks
  BY <1>1 DEF CallState
<1>3. /\ call' = [call EXCEPT ![c] = [call[c] EXCEPT !.todo = call[c].todo \ {b}, !.got = got]]
      /\ scannedThrough' = Max({scannedThrough, p})
      /\ cache' \in {cache, Chunk(c, got)}
      /\ UNCHANGED <<world, remarks, cacheHit, inFlight, waiters, ready>>
  BY DEF Fetch
<1>4. /\ call'[c] = [call[c] EXCEPT !.todo = call[c].todo \ {b}, !.got = got]
      /\ \A d \in Calls : call'[d].is = call[d].is
  BY <1>1, <1>3 DEF TypeOK, CallState
<1>5. OneRun'
  BY <1>3, <1>4 DEF OneRunCovers, OneRun
<1>6. HolesAreRescanned'
  BY <1>1, <1>4 DEF HolesAreRescanned
<1>7. CoversOf(call[c], scannedThrough, cacheHit, remarks)
  BY <1>1, RunCoversIs DEF OneRunCovers
<1>8. /\ from \in StartBlock..MaxBlock /\ call[c].to \in Int /\ from <= call[c].to
      /\ p = PrefixOf(from, call[c].to, got)
      /\ p \in Int /\ p >= from - 1 /\ from..p \subseteq got
      /\ from \in Int /\ scannedThrough \in Int /\ SafetyMargin \in Nat
  <2>1. /\ from \in StartBlock..MaxBlock /\ call[c].to \in 0..MaxBlock
        /\ from <= call[c].to /\ p = PrefixOf(from, call[c].to, got)
        /\ p \in (StartBlock - 1)..MaxBlock /\ p >= from - 1 /\ from..p \subseteq got
    BY <1>1, <1>2, ScanCursor
  <2>2. StartBlock \in Nat /\ SafetyMargin \in Nat /\ scannedThrough \in Int
    BY UiIndexerAssumption DEF TypeOK
  <2> HIDE DEF p, got, from
  <2>3. QED
    BY <2>1, <2>2
<1>9. PrefixOf(from, call[c].to, call[c].got) <= p
  BY <1>8, PrefixGrows
<1>10. PrefixOf(from, call[c].to, call[c].got) \in Int
  BY <1>8, PrefixIsLongest
<1> HIDE DEF p, got
<1>11. \/ scannedThrough' = p
       \/ scannedThrough' = scannedThrough /\ p < scannedThrough
  BY <1>3, <1>8, MaxOfTwo
<1>12. CoversOf(call'[c], scannedThrough', cacheHit', remarks')
  <2>1. /\ call'[c].from = from /\ call'[c].to = call[c].to /\ call'[c].got = got
        /\ cacheHit' = cacheHit /\ remarks' = remarks
    <3>1. call[c] \in CallState
      BY <1>1 DEF TypeOK
    <3>2. /\ call'[c].from = call[c].from /\ call'[c].to = call[c].to
          /\ call'[c].got = got
      BY <1>4, <3>1 DEF CallState
    <3>3. cacheHit' = cacheHit /\ remarks' = remarks
      BY <1>3
    <3>4. QED
      BY <3>2, <3>3
  <2>2. CASE scannedThrough' = p
    BY <1>7, <1>8, <2>1, <2>2 DEF CoversOf
  <2>3. CASE scannedThrough' = scannedThrough /\ p < scannedThrough
    <3>1. cacheHit /\ from > scannedThrough - SafetyMargin
      BY <1>7, <1>8, <1>9, <1>10, <2>3 DEF CoversOf
    <3>2. QED
      BY <1>7, <2>1, <2>3, <3>1 DEF CoversOf
  <2>4. QED
    BY <1>11, <2>2, <2>3
<1>13. RunCovers'
  <2>1. \A d \in Calls : call'[d].is = "scanning" => d = c
    BY <1>1, <1>4 DEF OneRunCovers, OneRun
  <2>2. QED
    BY <1>12, <2>1 DEF RunCovers, CoversOf, Prefix, PrefixOf
<1>14. CacheIsRecoverable'
  <2>1. CASE cache' = cache
    BY <2>1 DEF OneRunCovers, CacheIsRecoverable, Recoverable
  <2>2. CASE cache' = Chunk(c, got)
    <3>1. /\ cache'.scannedThrough = p
          /\ cache'.remarks = {r \in remarks : r < from} \cup {r \in got : r <= p}
      BY <2>2 DEF Chunk, p
    <3>2. ASSUME NEW d \in StartBlock..p PROVE d \in cache'.remarks
      <4>1. CASE d < from
        BY <1>7, <1>8, <3>1, <4>1 DEF CoversOf
      <4>2. CASE d >= from
        BY <1>8, <3>1, <4>2
      <4>3. QED
        BY <1>8, <4>1, <4>2
    <3>3. QED
      BY <3>1, <3>2 DEF CacheIsRecoverable, Recoverable
  <2>3. QED
    BY <1>3, <2>1, <2>2
<1>15. QED
  BY <1>5, <1>6, <1>13, <1>14 DEF OneRunCovers

\* The end of a run loses nothing that the next pass does not look at again.
LEMMA RunEndsCovers ==
  ASSUME TypeOK, Ranges, ~world.forcing, OneRunCovers, NEW c \in Calls, RunEnds(c)
  PROVE  OneRunCovers'
<1> DEFINE got == call[c].got
           p == Prefix(c, got)
           from == call[c].from
<1>1. call[c] \in CallState /\ call[c].is = "scanning" /\ got \in SUBSET Blocks
  BY DEF TypeOK, CallState, RunEnds, Finished
<1>2. /\ scannedThrough' = Max({scannedThrough, p}) /\ remarks' = Merged(c)
      /\ cache' = [scannedThrough |-> scannedThrough', remarks |-> remarks']
      /\ inFlight' = None
      /\ call' = [call EXCEPT ![c] = [call[c] EXCEPT !.is = "settled"]]
      /\ ready' = <<c>> \o waiters[c]
      /\ waiters' = [waiters EXCEPT ![c] = <<>>]
      /\ UNCHANGED <<world, cacheHit>>
  BY DEF RunEnds
<1>3. inFlight = c /\ waiters[c] = <<>>
  BY <1>1 DEF OneRunCovers, OneRun
<1>4. \A d \in Calls : call'[d].is # "scanning" /\ call'[d].is # "awaiting"
  BY <1>1, <1>2, <1>3 DEF OneRunCovers, OneRun, TypeOK, CallState
<1>5. ready' = <<c>>
  BY <1>2, <1>3
<1>6. OneRun'
  <2>1. \A d \in Calls : waiters'[d] = <<>>
    BY <1>2 DEF OneRunCovers, OneRun, TypeOK
  <2>2. QED
    BY <1>2, <1>4, <1>5, <2>1, UiIndexerAssumption DEF OneRun
<1>7. RunCovers'
  BY <1>4 DEF RunCovers
<1>8. CoversOf(call[c], scannedThrough, cacheHit, remarks)
  BY <1>1, RunCoversIs DEF OneRunCovers
<1>9. /\ p = PrefixOf(from, call[c].to, got)
      /\ p \in Int /\ from..p \subseteq got
      /\ from \in Int /\ scannedThrough \in Int /\ SafetyMargin \in Nat
  <2>1. /\ from \in StartBlock..MaxBlock /\ p = PrefixOf(from, call[c].to, got)
        /\ p \in (StartBlock - 1)..MaxBlock /\ from..p \subseteq got
    BY <1>1, ScanCursor
  <2>2. StartBlock \in Nat /\ SafetyMargin \in Nat /\ scannedThrough \in Int
    BY UiIndexerAssumption DEF TypeOK
  <2> HIDE DEF p, got, from
  <2>3. QED
    BY <2>1, <2>2
<1>10. remarks' = {r \in remarks : r < from} \cup got
  BY <1>2 DEF Merged
<1> HIDE DEF p, got, from
<1>11. \/ scannedThrough' = p
       \/ scannedThrough' = scannedThrough /\ p < scannedThrough
  <2>1. p \in Int /\ scannedThrough \in Int /\ scannedThrough' = Max({scannedThrough, p})
    BY <1>2, <1>9 DEF p
  <2>2. /\ Max({scannedThrough, p}) \in {scannedThrough, p}
        /\ Max({scannedThrough, p}) >= scannedThrough /\ Max({scannedThrough, p}) >= p
    BY <2>1, MaxOfTwo
  <2>3. QED
    BY <2>1, <2>2
<1>12. ASSUME NEW b \in StartBlock..scannedThrough'
       PROVE  b \in remarks' \/ (cacheHit /\ b > scannedThrough' - SafetyMargin)
  <2>1. b \in Int /\ b >= StartBlock /\ b <= scannedThrough' /\ StartBlock \in Int
    BY UiIndexerAssumption
  <2>2. CASE b < from
    <3>1. b \in StartBlock..(from - 1)
      BY <1>9, <2>1, <2>2
    <3>2. QED
      BY <1>8, <1>10, <2>2, <3>1 DEF CoversOf, from
  <2>3. CASE b >= from /\ b <= p
    BY <1>9, <1>10, <2>1, <2>3
  <2>4. CASE b >= from /\ b > p
    <3>1. scannedThrough' = scannedThrough /\ p < scannedThrough
      BY <1>9, <1>11, <2>1, <2>4
    <3>2. cacheHit /\ from > scannedThrough - SafetyMargin
      BY <1>8, <1>9, <3>1 DEF CoversOf, from, got
    <3>3. QED
      BY <1>9, <2>1, <2>4, <3>1, <3>2
  <2>5. QED
    BY <1>9, <2>1, <2>2, <2>3, <2>4
<1>13. HolesAreRescanned' /\ CacheIsRecoverable'
  BY <1>2, <1>12 DEF HolesAreRescanned, CacheIsRecoverable, Recoverable
<1>14. QED
  BY <1>6, <1>7, <1>13 DEF OneRunCovers

LEMMA NextOneRunCovers ==
  TypeOK /\ Ranges /\ ~world.forcing /\ OneRunCovers /\ [Next]_vars => OneRunCovers'
<1> SUFFICES ASSUME TypeOK, Ranges, ~world.forcing, OneRunCovers, [Next]_vars
             PROVE  OneRunCovers'
  OBVIOUS
<1> USE DEF refs, calls
<1>1. ASSUME UNCHANGED <<remarks, scannedThrough, cacheHit, inFlight, call, waiters,
                         ready, cache, world>>
      PROVE  OneRunCovers'
  BY <1>1 DEF OneRunCovers, OneRun, RunCovers, HolesAreRescanned, CacheIsRecoverable,
              Recoverable, Prefix
<1>2. CASE Mine \/ Subscribe \/ UNCHANGED vars
  BY <1>1, <1>2 DEF Mine, Subscribe, vars
<1>3. CASE Reload
  <2>1. CacheIsRecoverable'
    BY <1>3 DEF Reload, OneRunCovers, CacheIsRecoverable, Recoverable
  <2>2. OneRun' /\ RunCovers'
    BY <1>3, UiIndexerAssumption DEF Reload, OneRun, RunCovers, Idle
  <2>3. HolesAreRescanned'
    <3>1. CASE cache = NoCache
      <4>1. scannedThrough' = StartBlock - 1
        BY <1>3, <3>1 DEF Reload, Seed, Empty
      <4>2. QED
        BY <4>1, UiIndexerAssumption DEF HolesAreRescanned, Recoverable
    <3>2. CASE cache # NoCache
      <4>1. /\ scannedThrough' = cache.scannedThrough /\ remarks' = cache.remarks
            /\ cacheHit'
        BY <1>3, <3>2 DEF Reload, Seed
      <4>2. Recoverable(cache, TRUE)
        BY <3>2 DEF OneRunCovers, CacheIsRecoverable
      <4>3. QED
        BY <4>1, <4>2 DEF HolesAreRescanned, Recoverable
    <3>3. QED
      BY <3>1, <3>2
  <2>4. QED
    BY <2>1, <2>2, <2>3 DEF OneRunCovers
<1>4. ASSUME NEW c \in Calls, OnHead(c) PROVE OneRunCovers'
  <2>1. ready = <<>> /\ UNCHANGED <<world, cacheHit, ready, cache>>
    BY <1>4 DEF OnHead, Quiet
  <2>2. CASE inFlight = None /\ CatchUp(c, head')
    <3>1. ScanOrReturn(c, head') /\ head' \in 0..MaxBlock
      BY <1>4, <2>2, TickHead DEF CatchUp, OnHead
    <3>2. QED
      BY <2>1, <2>2, <3>1, ScanCovers DEF OneRunCovers
  <2>3. CASE UNCHANGED <<calls, remarks, scannedThrough>>
    BY <1>1, <2>1, <2>3
  <2>4. QED
    BY <1>4, <2>2, <2>3 DEF OnHead
<1>5. ASSUME NEW c \in Calls, NEW b \in Blocks, ForceCatchUp(c, b) PROVE OneRunCovers'
  BY <1>5 DEF ForceCatchUp
<1>6. ASSUME NEW c \in Calls, NEW b \in call[c].todo, FetchFails(c, b)
      PROVE  OneRunCovers'
  <2>1. /\ call[c].is = "scanning"
        /\ call' = [call EXCEPT ![c] = [call[c] EXCEPT !.todo = call[c].todo \ {b}]]
        /\ UNCHANGED <<world, remarks, scannedThrough, cacheHit, inFlight, waiters, ready, cache>>
    BY <1>6 DEF FetchFails
  <2>2. \A d \in Calls : /\ call'[d].is = call[d].is /\ call'[d].from = call[d].from
                         /\ call'[d].to = call[d].to /\ call'[d].got = call[d].got
    BY <2>1 DEF TypeOK, CallState
  <2>3. QED
    BY <2>1, <2>2 DEF OneRunCovers, OneRun, RunCovers, HolesAreRescanned,
                      CacheIsRecoverable, Recoverable, Prefix
<1>7. CASE ContinueOwner
  <2>1. PICK c \in Calls : ready = <<c>> /\ inFlight = None
    BY <1>7 DEF ContinueOwner, OneRunCovers, OneRun
  <2>2. /\ Head(ready) = c /\ ready' = <<>> /\ call[c].is = "settled"
        /\ UNCHANGED <<world, cacheHit, cache>>
    BY <1>7, <2>1 DEF ContinueOwner
  <2>3. CASE /\ head - scannedThrough >= (IF cacheHit THEN CatchupThreshold ELSE 1)
             /\ CatchUp(c, head)
    <3>1. head \in 0..MaxBlock
      BY <2>3, UiIndexerAssumption DEF TypeOK, NoHead
    <3>2. ScanOrReturn(c, head)
      BY <2>1, <2>3 DEF CatchUp
    <3>3. QED
      BY <2>1, <2>2, <3>1, <3>2, ScanCovers DEF OneRunCovers
  <2>4. CASE /\ call' = [call EXCEPT ![c] = Idle]
             /\ UNCHANGED <<inFlight, waiters, remarks, scannedThrough, shown>>
    <3>1. \A d \in Calls : call'[d].is # "scanning" /\ call'[d].is # "awaiting"
      BY <2>1, <2>4, UiIndexerAssumption DEF OneRunCovers, OneRun, TypeOK, Idle
    <3>2. OneRun'
      BY <2>1, <2>2, <2>4, <3>1, UiIndexerAssumption DEF OneRunCovers, OneRun
    <3>3. RunCovers'
      BY <3>1 DEF RunCovers
    <3>4. HolesAreRescanned' /\ CacheIsRecoverable'
      BY <2>1, <2>2, <2>4, NoHolesIs
      DEF OneRunCovers, HolesAreRescanned, CacheIsRecoverable, Recoverable
    <3>5. QED
      BY <3>2, <3>3, <3>4 DEF OneRunCovers
  <2>5. QED
    BY <1>7, <2>2, <2>3, <2>4 DEF ContinueOwner
<1>8. CASE ContinueWaiter
  <2>1. Head(ready) \in Calls
    BY <1>8 DEF ContinueWaiter, TypeOK
  <2>2. QED
    BY <1>8, <2>1 DEF ContinueWaiter, OneRunCovers, OneRun
<1>9. QED
  BY <1>2, <1>3, <1>4, <1>5, <1>6, <1>7, <1>8, FetchCovers, RunEndsCovers DEF Next

\* The inductive invariant of UiIndexer, in every world.
THEOREM InvariantHolds == Spec => []IInv
<1>1. Init => IInv
  BY InitTypes, InitOneRunCovers DEF IInv
<1>2. IInv /\ [Next]_vars => IInv'
  <2>1. [Next]_vars => world' = world
    BY DEF Next, vars, Mine, Subscribe, Reload, OnHead, ForceCatchUp, Fetch, FetchFails,
           RunEnds, ContinueOwner, ContinueWaiter
  <2>2. QED
    BY <2>1, NextTypes, NextOneRunCovers DEF IInv
<1>3. QED
  BY <1>1, <1>2, PTL DEF Spec

\* However blocks arrive or fail and wherever the tab is reloaded, between
\* scans every block behind the cursor is in the list or within the margin
\* that the next pass fetches again.
THEOREM NothingIsLost == Spec => []HolesAreRescanned
<1>1. IInv => HolesAreRescanned
  BY DEF IInv, OneRunCovers, HolesAreRescanned
<1>2. QED
  BY <1>1, InvariantHolds, PTL

\* So is every block behind the cursor of what was saved, even in the middle
\* of a scan, as long as no scan is forced.
THEOREM SavedIsRecoverable == Spec => []CacheIsRecoverable
<1>1. IInv => CacheIsRecoverable
  BY DEF IInv, OneRunCovers, CacheIsRecoverable
<1>2. QED
  BY <1>1, InvariantHolds, PTL
=============================================================================
