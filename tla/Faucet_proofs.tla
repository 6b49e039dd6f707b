---------------------------- MODULE Faucet_proofs ---------------------------
(***************************************************************************)
(* Proofs about the faucet service: about RingIndexer, for any chain and    *)
(* any number of overlapping calls of catchUpTo, and about Faucet, for any  *)
(* remarks, any requests in any interleaving and any amount.                *)
(***************************************************************************)
EXTENDS Faucet, Ring_proofs

LEMMA MaxOfTwo ==
  ASSUME NEW a \in Int, NEW b \in Int
  PROVE  /\ Max({a, b}) \in {a, b}
         /\ Max({a, b}) >= a /\ Max({a, b}) >= b
<1>1. \E x \in {a, b} : \A y \in {a, b} : x >= y
  <2>1. CASE a >= b
    BY <2>1
  <2>2. CASE b >= a
    BY <2>2
  <2>3. QED
    BY <2>1, <2>2
<1>2. QED
  BY <1>1 DEF Max

-----------------------------------------------------------------------------
(* The indexer: its types.                                                  *)

LEMMA CallStates ==
  /\ Idle \in CallState
  /\ \A from \in Nat, to \in 0..MaxBlock :
       /\ [is |-> "awaiting", from |-> from, to |-> to] \in CallState
       /\ [is |-> "scanning", from |-> from, to |-> to] \in CallState
<1>1. 0 \in Nat /\ 0 \in 0..MaxBlock
  BY RingIndexerAssumption
<1>2. QED
  BY <1>1 DEF CallState, Idle

\* What a call does from its entry, or after its wait, keeps the types.
LEMMA CallTypes ==
  ASSUME TypeOK, NEW c \in Calls, NEW to \in 0..MaxBlock,
         CatchUpTo(c, to) \/ ScanOrReturn(c, to)
  PROVE  /\ call' \in [Calls -> CallState]
         /\ waiters' \in [Calls -> Seq(Calls)]
         /\ catchUpInFlight' \in Calls \cup {None}
<1> USE DEF TypeOK
<1>1. 0 \in 0..MaxBlock /\ scannedThrough + 1 \in Nat
  BY RingIndexerAssumption
<1>2. CASE ScanOrReturn(c, to)
  BY <1>1, <1>2, CallStates DEF ScanOrReturn
<1>3. CASE catchUpInFlight # None /\ CatchUpTo(c, to)
  <2>1. catchUpInFlight \in Calls
    BY <1>3
  <2>2. Append(waiters[catchUpInFlight], c) \in Seq(Calls)
    BY <2>1
  <2>3. QED
    <3>1. waiters' = [waiters EXCEPT ![catchUpInFlight] =
                        Append(waiters[catchUpInFlight], c)]
      BY <1>3 DEF CatchUpTo
    <3>2. waiters' \in [Calls -> Seq(Calls)]
      BY <2>1, <2>2, <3>1
    <3>3. [is |-> "awaiting", from |-> 0, to |-> to] \in CallState
      BY CallStates
    <3>4. QED
      BY <1>3, <3>2, <3>3 DEF CatchUpTo
<1>4. QED
  BY <1>2, <1>3 DEF CatchUpTo

LEMMA InitTypeOK == Init => TypeOK
<1> SUFFICES ASSUME Init PROVE TypeOK
  OBVIOUS
<1>1. 0 \in 0..MaxBlock /\ StartBlock - 1 \in (StartBlock - 1)..MaxBlock
  BY RingIndexerAssumption
<1>2. QED
  <2>1. /\ copies \in [Blocks -> Nat]
        /\ call \in [Calls -> CallState]
        /\ waiters \in [Calls -> Seq(Calls)]
    BY CallStates DEF Init
  <2>2. destroyed \in BOOLEAN /\ phase = "connecting"
    BY Zenon DEF Init
  <2>3. ready \in Seq(Calls) /\ catchUpInFlight = None
    BY DEF Init
  <2>4. /\ chainHead \in 0..MaxBlock /\ headBlock \in 0..MaxBlock
        /\ scannedThrough \in (StartBlock - 1)..MaxBlock
    BY <1>1 DEF Init
  <2>5. QED
    BY <2>1, <2>2, <2>3, <2>4 DEF TypeOK

LEMMA RunEndsTypeOK ==
  ASSUME TypeOK, NEW c \in Calls, NEW lost, RunEnds(c, lost)
  PROVE  TypeOK'
<1> USE DEF TypeOK
<1>1. call[c].to \in 0..MaxBlock
  BY DEF CallState
<1>2. scannedThrough' \in (StartBlock - 1)..MaxBlock
  <2>1. scannedThrough \in Int /\ call[c].to \in Int
    BY <1>1, RingIndexerAssumption
  <2>2. CASE destroyed
    BY <2>2 DEF RunEnds, scan
  <2>3. CASE ~destroyed
    <3>1. scannedThrough' = Max({scannedThrough, call[c].to})
      BY <2>3 DEF RunEnds
    <3>2. /\ scannedThrough' \in {scannedThrough, call[c].to}
          /\ scannedThrough' >= scannedThrough
      BY <2>1, <3>1, MaxOfTwo
    <3>3. QED
      BY <1>1, <2>1, <3>2, RingIndexerAssumption
  <2>4. QED
    BY <2>2, <2>3
<1>3. copies' \in [Blocks -> Nat]
  BY DEF RunEnds, scan
<1>4. call' \in [Calls -> CallState]
  BY DEF RunEnds, CallState
<1>5. ready' \in Seq(Calls) /\ waiters' \in [Calls -> Seq(Calls)]
  BY DEF RunEnds
<1>6. QED
  BY <1>2, <1>3, <1>4, <1>5 DEF RunEnds

LEMMA NextTypeOK == TypeOK /\ [Next]_vars => TypeOK'
<1> SUFFICES ASSUME TypeOK, [Next]_vars PROVE TypeOK'
  OBVIOUS
<1> USE DEF TypeOK
<1>1. CASE Mine
  BY <1>1, RingIndexerAssumption DEF Mine, scan, calls
<1>2. ASSUME NEW c \in Calls, Connect(c) PROVE TypeOK'
  BY <1>2, CallTypes DEF Connect, scan
<1>3. ASSUME NEW c \in Calls, NewHead(c) PROVE TypeOK'
  BY <1>3, CallTypes DEF NewHead, scan
<1>4. CASE FailToStart
  BY <1>4 DEF FailToStart, scan, calls
<1>5. CASE Subscribe
  BY <1>5 DEF Subscribe, scan, calls
<1>6. CASE Destroy
  BY <1>6 DEF Destroy, scan, calls
<1>7. ASSUME NEW c \in Calls, NEW lost, RunEnds(c, lost) PROVE TypeOK'
  BY <1>7, RunEndsTypeOK
<1>8. CASE ContinueOwner
  <2>1. Head(ready) \in Calls /\ Tail(ready) \in Seq(Calls)
    BY <1>8 DEF ContinueOwner
  <2>2. CASE ~destroyed /\ headBlock > call[Head(ready)].to
    BY <1>8, <2>1, <2>2, CallTypes DEF ContinueOwner, scan
  <2>3. CASE ~(~destroyed /\ headBlock > call[Head(ready)].to)
    BY <1>8, <2>1, <2>3, CallStates DEF ContinueOwner, scan
  <2>4. QED
    BY <2>2, <2>3
<1>9. CASE ContinueWaiter
  <2>1. Head(ready) \in Calls /\ Tail(ready) \in Seq(Calls)
    BY <1>9 DEF ContinueWaiter
  <2>2. call[Head(ready)].to \in 0..MaxBlock
    BY <2>1 DEF CallState
  <2>3. QED
    BY <1>9, <2>1, <2>2, CallTypes DEF ContinueWaiter, scan
<1>10. CASE UNCHANGED vars
  BY <1>10 DEF vars, calls, scan
<1>11. CASE Restart
  <2>1. 0 \in 0..MaxBlock /\ StartBlock - 1 \in (StartBlock - 1)..MaxBlock
    BY RingIndexerAssumption
  <2>2. /\ copies' \in [Blocks -> Nat]
        /\ call' \in [Calls -> CallState]
        /\ waiters' \in [Calls -> Seq(Calls)] /\ ready' \in Seq(Calls)
    BY <1>11, CallStates DEF Restart
  <2>3. destroyed' \in BOOLEAN /\ phase' = "connecting" /\ catchUpInFlight' = None
    BY <1>11, Zenon DEF Restart
  <2>4. QED
    BY <1>11, <2>1, <2>2, <2>3 DEF Restart
<1>12. QED
  BY <1>1, <1>2, <1>3, <1>4, <1>5, <1>6, <1>7, <1>8, <1>9, <1>10, <1>11
  DEF Next, Live

-----------------------------------------------------------------------------
(* The indexer: what scannedThrough means.                                  *)

LEMMA InitIInv == Init => IInv
<1>1. Init => NoGapOpens /\ ScannedThroughIsScanned /\ NothingBeyond
  BY RingIndexerAssumption
  DEF Init, NoGapOpens, ScannedThroughIsScanned, NothingBeyond, Idle
<1>2. QED
  BY <1>1, InitTypeOK DEF IInv

\* A call that starts a run starts it at the block after the last scanned.
LEMMA NoGapAtStart ==
  ASSUME IInv, NEW c \in Calls, NEW to, UNCHANGED scan,
         CatchUpTo(c, to) \/ ScanOrReturn(c, to)
  PROVE  IInv' \/ ~TypeOK'
<1>1. NoGapOpens'
  <2>1. scannedThrough \in Int
    BY RingIndexerAssumption DEF IInv, TypeOK
  <2>2. call \in [Calls -> CallState]
    BY DEF IInv, TypeOK
  <2>3. \E r : /\ call' = [call EXCEPT ![c] = r]
               /\ r.is = "scanning" => r.from = scannedThrough + 1
    <3>1. CASE CatchUpTo(c, to) /\ catchUpInFlight # None
      <4>1. call' = [call EXCEPT ![c] = [is |-> "awaiting", from |-> 0, to |-> to]]
        BY <3>1 DEF CatchUpTo
      <4>2. [is |-> "awaiting", from |-> 0, to |-> to].is # "scanning"
        OBVIOUS
      <4>3. QED
        BY <4>1, <4>2
    <3>2. CASE ScanOrReturn(c, to)
      <4>1. CASE call' = [call EXCEPT ![c] = Idle]
        <5>1. Idle.is # "scanning"
          BY DEF Idle
        <5>2. QED
          BY <4>1, <5>1
      <4>2. CASE call' = [call EXCEPT ![c] =
                   [is |-> "scanning", from |-> scannedThrough + 1, to |-> to]]
        <5>1. [is |-> "scanning", from |-> scannedThrough + 1, to |-> to].from
                = scannedThrough + 1
          OBVIOUS
        <5>2. QED
          BY <4>2, <5>1
      <4>3. QED
        BY <3>2, <4>1, <4>2 DEF ScanOrReturn
    <3>3. QED
      BY <3>1, <3>2 DEF CatchUpTo
  <2>4. \A d \in Calls : call'[d].is = "scanning" =>
          call'[d].from = scannedThrough + 1 \/ call'[d] = call[d]
    BY <2>2, <2>3
  <2>5. QED
    BY <2>1, <2>4 DEF IInv, NoGapOpens, scan
<1>2. ScannedThroughIsScanned' /\ NothingBeyond'
  BY DEF IInv, ScannedThroughIsScanned, NothingBeyond, scan
<1>3. QED
  BY <1>1, <1>2 DEF IInv

LEMMA RunEndsIInv ==
  ASSUME IInv, TypeOK', NEW c \in Calls, NEW lost, RunEnds(c, lost), ~FetchMayFail
  PROVE  IInv'
<1>1. CASE destroyed
  BY <1>1 DEF RunEnds, scan, IInv, TypeOK, NoGapOpens, ScannedThroughIsScanned,
              NothingBeyond
<1>2. CASE ~destroyed
  <2> DEFINE from == call[c].from
             to == call[c].to
  <2>1. /\ from \in Nat /\ to \in Nat
        /\ scannedThrough \in Int /\ copies \in [Blocks -> Nat]
        /\ StartBlock \in Nat /\ MaxBlock \in Nat
    <3>1. call[c] \in CallState
      BY DEF IInv, TypeOK
    <3>2. StartBlock \in Nat /\ MaxBlock \in Nat
      BY RingIndexerAssumption
    <3>3. from \in Nat /\ to \in 0..MaxBlock
      BY <3>1 DEF CallState
    <3>4. scannedThrough \in Int /\ copies \in [Blocks -> Nat]
      BY <3>2 DEF IInv, TypeOK
    <3>5. QED
      BY <3>2, <3>3, <3>4
  <2>2. from <= scannedThrough + 1
    BY DEF IInv, NoGapOpens, RunEnds
  <2>3. lost = {}
    BY DEF RunEnds
  <2>4. \A b \in Blocks : copies'[b] = IF b \in from..to THEN copies[b] + 1
                                      ELSE copies[b]
    BY <1>2, <2>3 DEF RunEnds
  <2>5. /\ scannedThrough' \in {scannedThrough, to}
        /\ scannedThrough' >= scannedThrough /\ scannedThrough' >= to
    <3>1. scannedThrough' = Max({scannedThrough, to})
      BY <1>2 DEF RunEnds
    <3>2. scannedThrough \in Int /\ to \in Int
      BY <2>1
    <3>3. QED
      BY <3>1, <3>2, MaxOfTwo
  <2>6. ScannedThroughIsScanned'
    <3> SUFFICES ASSUME NEW b \in StartBlock..scannedThrough'
                 PROVE  copies'[b] >= 1
      BY DEF ScannedThroughIsScanned
    <3>1. b \in Blocks
      BY <2>1, <2>5 DEF Blocks, TypeOK
    <3>2. CASE b <= scannedThrough
      BY <2>1, <2>4, <2>5, <3>1, <3>2 DEF IInv, ScannedThroughIsScanned
    <3>3. CASE b > scannedThrough
      BY <2>1, <2>2, <2>4, <2>5, <3>1, <3>3 DEF Blocks
    <3>4. QED
      BY <2>1, <2>5, <3>2, <3>3
  <2>7. NothingBeyond'
    <3> SUFFICES ASSUME NEW b \in Blocks, b > scannedThrough'
                 PROVE  copies'[b] = 0
      BY DEF NothingBeyond
    <3>1. b > scannedThrough /\ b > to
      BY <2>1, <2>5 DEF Blocks
    <3>2. QED
      BY <2>1, <2>4, <3>1 DEF IInv, NothingBeyond, Blocks
  <2>8. NoGapOpens'
    BY <2>1, <2>5 DEF IInv, TypeOK, NoGapOpens, RunEnds, CallState
  <2>9. QED
    BY <2>6, <2>7, <2>8 DEF IInv
<1>3. QED
  BY <1>1, <1>2

LEMMA NextIInv ==
  ASSUME ~FetchMayFail
  PROVE  IInv /\ [Next]_vars => IInv'
<1> SUFFICES ASSUME IInv, [Next]_vars PROVE IInv'
  OBVIOUS
<1>1. TypeOK'
  BY NextTypeOK DEF IInv
<1>2. CASE UNCHANGED <<scan, call>>
  BY <1>1, <1>2 DEF IInv, NoGapOpens, ScannedThroughIsScanned, NothingBeyond, scan
<1>3. ASSUME NEW c \in Calls, Connect(c) \/ NewHead(c) PROVE IInv'
  BY <1>1, <1>3, NoGapAtStart DEF Connect, NewHead
<1>4. ASSUME NEW c \in Calls, NEW lost, RunEnds(c, lost) PROVE IInv'
  BY <1>1, <1>4, RunEndsIInv
<1>5. CASE ContinueWaiter
  <2>1. Head(ready) \in Calls
    BY <1>5 DEF ContinueWaiter, IInv, TypeOK
  <2>2. QED
    BY <1>1, <1>5, <2>1, NoGapAtStart DEF ContinueWaiter
<1>6. CASE ContinueOwner
  <2>1. Head(ready) \in Calls
    BY <1>6 DEF ContinueOwner, IInv, TypeOK
  <2>2. CASE ~destroyed /\ headBlock > call[Head(ready)].to
    BY <1>1, <1>6, <2>1, <2>2, NoGapAtStart DEF ContinueOwner
  <2>3. CASE ~(~destroyed /\ headBlock > call[Head(ready)].to)
    <3>1. call' = [call EXCEPT ![Head(ready)] = Idle] /\ UNCHANGED scan
      BY <1>6, <2>3 DEF ContinueOwner
    <3>2. NoGapOpens'
      BY <2>1, <3>1 DEF IInv, TypeOK, NoGapOpens, scan, Idle
    <3>3. QED
      BY <1>1, <3>1, <3>2
      DEF IInv, ScannedThroughIsScanned, NothingBeyond, scan
  <2>4. QED
    BY <2>2, <2>3
<1>7. CASE Restart
  <2>1. NoGapOpens' /\ ScannedThroughIsScanned' /\ NothingBeyond'
    BY <1>7, RingIndexerAssumption
    DEF Restart, NoGapOpens, ScannedThroughIsScanned, NothingBeyond, Idle
  <2>2. QED
    BY <1>1, <2>1 DEF IInv
<1>8. QED
  BY <1>2, <1>3, <1>4, <1>5, <1>6, <1>7
  DEF Next, Live, vars, calls, scan, Mine, FailToStart, Subscribe, Destroy

-----------------------------------------------------------------------------
(* The indexer in the service.                                              *)

\* Whatever the service does, the indexer makes one of its own steps or none.
LEMMA ServiceRunsIndexer ==
  /\ ServiceInit => Init
  /\ [ServiceNext]_service => [Next]_vars
  BY DEF ServiceInit, ServiceNext, service, Next

\* Every reachable state of the indexer is well typed.
LEMMA IndexerTypes == ServiceSpec => []TypeOK
  BY InitTypeOK, NextTypeOK, ServiceRunsIndexer, PTL DEF ServiceSpec

\* While every fetch is answered, no run starts beyond what has been scanned
\* and the list holds the blocks up to scannedThrough, whichever of several
\* overlapping runs ends first, and from restart to restart.
THEOREM IndexerInvariantHolds ==
  ASSUME ~FetchMayFail
  PROVE  ServiceSpec => []IInv
  BY InitIInv, NextIInv, ServiceRunsIndexer, PTL DEF ServiceSpec

\* A drip for a ring block beyond scannedThrough is answered "not yet", and
\* rightly: no remark of such a block is in the list, so no ring is ever made
\* of half a scan.
THEOREM NothingIsAhead ==
  ASSUME ~FetchMayFail
  PROVE  ServiceSpec => []NothingBeyond
<1>1. IInv => NothingBeyond
  BY DEF IInv
<1>2. QED
  BY <1>1, IndexerInvariantHolds, PTL

\* If every block fetch succeeds, scannedThrough means what its comment says,
\* however head ticks and scans overlap: getRingAt never answers from a list
\* with a hole in it.
THEOREM ScanIsComplete ==
  ASSUME ~FetchMayFail
  PROVE  ServiceSpec => []ScannedThroughIsScanned
<1>1. IInv => ScannedThroughIsScanned
  BY DEF IInv
<1>2. QED
  BY <1>1, IndexerInvariantHolds, PTL

\* A ring block once servable stays servable, as long as the process lives.
THEOREM ScanNeverRetreats == ServiceSpec => ScannedThroughMonotone
<1>1. ASSUME TypeOK, [Next]_vars
      PROVE  scannedThrough' >= scannedThrough \/ Restart
  <2>1. scannedThrough \in Int
    BY <1>1, RingIndexerAssumption DEF TypeOK
  <2>2. ASSUME NEW c \in Calls, NEW lost, RunEnds(c, lost)
        PROVE  scannedThrough' >= scannedThrough
    <3>1. call[c].to \in Int
      BY <1>1, RingIndexerAssumption DEF TypeOK, CallState
    <3>2. CASE destroyed
      BY <2>1, <2>2, <3>2 DEF RunEnds, scan
    <3>3. CASE ~destroyed
      <4>1. scannedThrough' = Max({scannedThrough, call[c].to})
        BY <2>2, <3>3 DEF RunEnds
      <4>2. QED
        BY <2>1, <3>1, <4>1, MaxOfTwo
    <3>4. QED
      BY <3>2, <3>3
  <2>3. CASE UNCHANGED scannedThrough
    BY <2>1, <2>3
  <2>4. QED
    BY <1>1, <2>2, <2>3
    DEF Next, Live, vars, scan, Mine, Connect, NewHead, FailToStart, Subscribe, Destroy,
        ContinueOwner, ContinueWaiter
<1>2. TypeOK /\ [Next]_vars => [scannedThrough' >= scannedThrough \/ Restart]_vars
  BY <1>1
<1>3. QED
  BY <1>2, ServiceRunsIndexer, IndexerTypes, PTL DEF ServiceSpec, ScannedThroughMonotone

-----------------------------------------------------------------------------
(* The books.                                                               *)

\* The books, whatever fails outside.
Safe == DripTypeOK /\ BooksAgree /\ HolderKeepsKeyImage

LEMMA ConstantTypes ==
  /\ FundAmountRao \in Nat /\ AllowedVoters \in Nat /\ MaxBudget \in Nat
  /\ \A r \in Requests : r.sig.key \in Keys
<1>1. \A r \in Requests :
        r.sig \in [key : Keys, ring : SUBSET Keys, gas : GasAddresses, rb : Nat]
  BY FaucetAssumption
<1>2. FundAmountRao * AllowedVoters \in Nat
  BY FaucetAssumption
<1>3. QED
  BY <1>1, <1>2, FaucetAssumption DEF MaxBudget

\* One amount more, one amount less.
LEMMA Amounts ==
  ASSUME NEW a \in Nat, NEW n \in Nat
  PROVE  /\ a * (n + 1) = a * n + a
         /\ n > 0 => a * (n - 1) = a * n - a
         /\ a * n \in Nat /\ a * 0 = 0
  OBVIOUS

LEMMA AmountsOrdered ==
  ASSUME NEW a \in Nat, NEW m \in Nat, NEW n \in Nat, m <= n
  PROVE  a * m <= a * n
<1>1. n - m \in Nat /\ n = m + (n - m)
  OBVIOUS
<1>2. a * (m + (n - m)) = a * m + a * (n - m)
  BY <1>1
<1>3. a * (n - m) \in Nat /\ a * m \in Nat
  BY <1>1
<1>4. QED
  BY <1>1, <1>2, <1>3

-----------------------------------------------------------------------------
(* One lemma for each thing that happens to the books.                      *)

LEMMA ReserveIsSafe ==
  ASSUME Safe, NEW r \in Requests, Reserve(r)
  PROVE  /\ Safe'
         /\ r.sig.key \notin usedKeyImages
<1>1. /\ r.sig.key \in Keys /\ r.sig.key \notin usedKeyImages
      /\ spentRao + FundAmountRao <= MaxBudget
  BY ConstantTypes DEF Reserve, Refusal, Safe, DripTypeOK
<1>2. DripTypeOK'
  <2>1. spentRao' \in Nat
    BY ConstantTypes DEF Safe, DripTypeOK, Reserve
  <2>2. usedKeyImages' \in SUBSET Keys /\ IsFiniteSet(usedKeyImages')
    BY <1>1, FS_AddElement DEF Safe, DripTypeOK, Reserve
  <2>3. drip' \in [Requests -> {"unsent", "funding"} \cup Answers]
    BY DEF Safe, DripTypeOK, Reserve
  <2>4. QED
    BY <2>1, <2>2, <2>3 DEF Safe, DripTypeOK, Reserve
<1>3. BooksAgree'
  <2>1. Cardinality(usedKeyImages') = Cardinality(usedKeyImages) + 1
    BY <1>1, FS_AddElement DEF Safe, DripTypeOK, Reserve
  <2>2. Cardinality(usedKeyImages) \in Nat
    BY FS_CardinalityType DEF Safe, DripTypeOK
  <2>3. FundAmountRao * (Cardinality(usedKeyImages) + 1)
          = FundAmountRao * Cardinality(usedKeyImages) + FundAmountRao
    BY <2>2, Amounts, ConstantTypes
  <2>4. spentRao' = spentRao + FundAmountRao /\ MaxBudget' = MaxBudget
    BY DEF Reserve, MaxBudget
  <2>5. QED
    BY <1>1, <2>1, <2>3, <2>4 DEF Safe, BooksAgree
<1>4. HolderKeepsKeyImage'
  BY <1>1 DEF Safe, DripTypeOK, HolderKeepsKeyImage, Reserve
<1>5. QED
  BY <1>1, <1>2, <1>3, <1>4 DEF Safe

LEMMA RollBackIsSafe ==
  ASSUME Safe, NEW r \in Requests, drip[r] = "funding", RollBack(r)
  PROVE  Safe'
<1>1. r.sig.key \in usedKeyImages
  BY DEF Safe, HolderKeepsKeyImage
<1>2. /\ Cardinality(usedKeyImages) \in Nat /\ Cardinality(usedKeyImages) > 0
      /\ Cardinality(usedKeyImages') = Cardinality(usedKeyImages) - 1
      /\ IsFiniteSet(usedKeyImages')
  <2>1. IsFiniteSet(usedKeyImages)
    BY DEF Safe, DripTypeOK
  <2>2. Cardinality(usedKeyImages) # 0
    BY <1>1, <2>1, FS_EmptySet
  <2>3. QED
    BY <1>1, <2>1, <2>2, FS_CardinalityType, FS_RemoveElement DEF RollBack
<1>3. /\ spentRao' = FundAmountRao * Cardinality(usedKeyImages')
      /\ spentRao' \in Nat /\ spentRao' <= spentRao
  <2>1. spentRao = FundAmountRao * Cardinality(usedKeyImages) /\ spentRao \in Nat
    BY DEF Safe, BooksAgree, DripTypeOK
  <2>2. /\ FundAmountRao * (Cardinality(usedKeyImages) - 1)
             = FundAmountRao * Cardinality(usedKeyImages) - FundAmountRao
        /\ FundAmountRao * (Cardinality(usedKeyImages) - 1) \in Nat
    BY <1>2, Amounts, ConstantTypes
  <2>3. QED
    BY <1>2, <2>1, <2>2, ConstantTypes DEF RollBack
<1>4. DripTypeOK'
  <2>1. drip' \in [Requests -> {"unsent", "funding"} \cup Answers]
    BY DEF Safe, DripTypeOK, RollBack, Answers
  <2>2. QED
    BY <1>2, <1>3, <2>1 DEF Safe, DripTypeOK, RollBack
<1>5. BooksAgree'
  <2>1. MaxBudget' = MaxBudget
    BY DEF MaxBudget
  <2>2. spentRao <= MaxBudget /\ spentRao \in Nat /\ MaxBudget \in Nat
    BY ConstantTypes DEF Safe, BooksAgree, DripTypeOK
  <2>3. QED
    BY <1>3, <2>1, <2>2 DEF BooksAgree
<1>6. HolderKeepsKeyImage'
  BY DEF Safe, DripTypeOK, HolderKeepsKeyImage, RollBack
<1>7. QED
  BY <1>4, <1>5, <1>6 DEF Safe

LEMMA RestartIsSafe == ASSUME Safe, ForgetDrips PROVE Safe'
<1>1. spentRao' = FundAmountRao * Cardinality(usedKeyImages') /\ spentRao' = 0
  BY FS_EmptySet, Amounts, ConstantTypes DEF ForgetDrips
<1>2. DripTypeOK'
  <2>1. usedKeyImages' = {} /\ IsFiniteSet(usedKeyImages')
    BY FS_EmptySet DEF ForgetDrips
  <2>2. drip' \in [Requests -> {"unsent", "funding"} \cup Answers]
    BY DEF Safe, DripTypeOK, ForgetDrips, Answers
  <2>3. QED
    BY <1>1, <2>1, <2>2 DEF Safe, DripTypeOK, ForgetDrips
<1>3. BooksAgree'
  BY <1>1, ConstantTypes DEF BooksAgree, MaxBudget
<1>4. HolderKeepsKeyImage'
  BY DEF Safe, DripTypeOK, HolderKeepsKeyImage, ForgetDrips
<1>5. QED
  BY <1>2, <1>3, <1>4 DEF Safe

LEMMA InitSafe == ServiceInit => Safe
<1> SUFFICES ASSUME ServiceInit PROVE Safe
  OBVIOUS
<1>1. DripTypeOK
  BY FS_EmptySet DEF ServiceInit, DripTypeOK
<1>2. BooksAgree
  BY FS_EmptySet, Amounts, ConstantTypes DEF ServiceInit, BooksAgree
<1>3. HolderKeepsKeyImage
  BY DEF ServiceInit, HolderKeepsKeyImage
<1>4. QED
  BY <1>1, <1>2, <1>3 DEF Safe

\* The other steps leave the books alone and start no funding.
LEMMA QuietStep ==
  ASSUME Safe, DripTypeOK', UNCHANGED <<usedKeyImages, spentRao>>,
         \A r \in Requests : drip'[r] = "funding" => drip[r] = "funding"
  PROVE  Safe'
  BY DEF Safe, BooksAgree, HolderKeepsKeyImage, MaxBudget

LEMMA NextSafe == Safe /\ [ServiceNext]_service => Safe'
<1> SUFFICES ASSUME Safe, [ServiceNext]_service PROVE Safe'
  OBVIOUS
<1> USE DEF Safe, DripTypeOK
<1>1. ASSUME NEW r \in Requests, Refuse(r) PROVE Safe'
  <2>1. Refusal(r) \in Answers
    BY <1>1 DEF Refuse, Refusal, Answers
  <2>2. DripTypeOK'
    BY <1>1, <2>1 DEF Refuse
  <2>3. Refusal(r) # "funding"
    BY DEF Refusal
  <2>4. QED
    BY <1>1, <2>2, <2>3, QuietStep DEF Refuse
<1>2. ASSUME NEW r \in Requests, Reserve(r) PROVE Safe'
  BY <1>2, ReserveIsSafe
<1>3. ASSUME NEW r \in Requests, Broadcast(r) \/ Include(r) \/ Drop(r) PROVE Safe'
  <2>1. DripTypeOK'
    BY <1>3 DEF Broadcast, Include, Drop
  <2>2. QED
    BY <1>3, <2>1, QuietStep DEF Broadcast, Include, Drop
<1>4. ASSUME NEW r \in Requests, Reject(r) \/ RejectLate(r) PROVE Safe'
  BY <1>4, RollBackIsSafe DEF Reject, RejectLate
<1>5. ASSUME NEW r \in Requests, Confirm(r) PROVE Safe'
  <2>1. DripTypeOK'
    BY <1>5 DEF Confirm, Answers
  <2>2. QED
    BY <1>5, <2>1, QuietStep DEF Confirm
<1>6. CASE UNCHANGED drips
  <2>1. DripTypeOK'
    BY <1>6 DEF drips
  <2>2. QED
    BY <1>6, <2>1, QuietStep DEF drips
<1>7. CASE ForgetDrips
  BY <1>7, RestartIsSafe
<1>8. QED
  BY <1>1, <1>2, <1>3, <1>4, <1>5, <1>6, <1>7 DEF ServiceNext, Drip, service, drips

\* Through any interleaving of requests, rollbacks, lost answers and restarts,
\* spentRao is one amount per used key image and stays within the budget.
THEOREM BooksAlwaysAgree == ServiceSpec => []BooksAgree
<1>1. Safe => BooksAgree
  BY DEF Safe
<1>2. QED
  BY <1>1, InitSafe, NextSafe, PTL DEF ServiceSpec

\* A reservation is never lost to another request: no two requests for one
\* key image are funded at once, and a rollback frees only its own.
THEOREM ReservationsHold == ServiceSpec => []HolderKeepsKeyImage
<1>1. Safe => HolderKeepsKeyImage
  BY DEF Safe
<1>2. QED
  BY <1>1, InitSafe, NextSafe, PTL DEF ServiceSpec

-----------------------------------------------------------------------------
(* Who holds a used key image.                                              *)

LEMMA NextUsedIsHeld == Safe /\ UsedIsHeld /\ [ServiceNext]_service => UsedIsHeld'
<1> SUFFICES ASSUME Safe, UsedIsHeld, [ServiceNext]_service,
                    NEW k \in usedKeyImages'
             PROVE  \E r \in Requests : r.sig.key = k /\ Holds(r)'
  BY DEF UsedIsHeld
<1> USE DEF Safe, DripTypeOK, Holds
<1>1. CASE k \in usedKeyImages
  <2>1. PICK r \in Requests : r.sig.key = k /\ Holds(r)
    BY <1>1 DEF UsedIsHeld
  <2>2. CASE \E s \in Requests : Reject(s) \/ RejectLate(s)
    <3>1. PICK s \in Requests : Reject(s) \/ RejectLate(s)
      BY <2>2
    <3>2. s # r
      BY <2>1, <3>1 DEF Reject, RejectLate, RollBack
    <3>3. QED
      BY <2>1, <3>1, <3>2 DEF Reject, RejectLate, RollBack
  <2>3. CASE ForgetDrips
    BY <2>3 DEF ForgetDrips
  <2>4. CASE ~ForgetDrips /\ ~\E s \in Requests : Reject(s) \/ RejectLate(s)
    BY <2>1, <2>4 DEF ServiceNext, Drip, service, drips, Refuse, Reserve, Broadcast, Confirm, Include,
                      Drop
  <2>5. QED
    BY <2>2, <2>3, <2>4
<1>2. CASE k \notin usedKeyImages
  <2>1. PICK r \in Requests : Reserve(r)
    BY <1>2 DEF ServiceNext, Drip, service, drips, Refuse, Broadcast, Reject, RejectLate, RollBack,
                Confirm, Include, Drop, ForgetDrips
  <2>2. QED
    BY <1>2, <2>1 DEF Reserve
<1>3. QED
  BY <1>1, <1>2

\* A key image is marked used only while a request of this service's life is
\* being funded with it or was: a failed drip does not shut its voter out.
THEOREM UsedImagesAreHeld == ServiceSpec => []UsedIsHeld
<1>1. ServiceInit => UsedIsHeld
  BY DEF ServiceInit, UsedIsHeld
<1>2. QED
  BY <1>1, InitSafe, NextSafe, NextUsedIsHeld, PTL DEF ServiceSpec

-----------------------------------------------------------------------------
(* What leaves the account, when no transfer outlives its request.          *)

LEMMA InitDripInv == ServiceInit => DripInv
<1>1. ServiceInit => DripTypeOK /\ BooksAgree /\ HolderKeepsKeyImage
  BY InitSafe DEF Safe
<1>2. QED
  BY <1>1 DEF ServiceInit, DripInv, Holds

LEMMA DripInvIsSafe == DripInv => Safe
  BY DEF DripInv, Safe

\* The part of DripInv that late rejections and restarts break.
Held ==
  /\ \A r \in Requests :
       /\ Holds(r) => r.sig.key \in usedKeyImages
       /\ transfer[r] \in {"pool", "landed", "dropped"} => Holds(r)
  /\ \A r, s \in Requests :
       Holds(r) /\ Holds(s) /\ r.sig.key = s.sig.key => r = s

LEMMA NextHeld ==
  ASSUME Safe, Safe', Held, NoLateNorRestart, [ServiceNext]_service
  PROVE  Held'
<1>2. ASSUME NEW r \in Requests, Reserve(r) PROVE Held'
  <2>1. r.sig.key \notin usedKeyImages
    BY <1>2, ReserveIsSafe
  <2>2. \A s \in Requests : Holds(s) => s.sig.key # r.sig.key
    BY <2>1 DEF Held
  <2>3. \A s \in Requests : Holds(s)' <=> Holds(s) \/ s = r
    BY <1>2 DEF Safe, DripTypeOK, Reserve, Holds
  <2>4. /\ usedKeyImages' = usedKeyImages \cup {r.sig.key}
        /\ transfer' = transfer
    BY <1>2 DEF Reserve
  <2>5. QED
    BY <2>2, <2>3, <2>4 DEF Held
<1>3. ASSUME NEW r \in Requests, Reject(r) PROVE Held'
  <2>1. /\ Holds(r) /\ transfer[r] \in {"none", "failed"}
        /\ usedKeyImages' = usedKeyImages \ {r.sig.key}
        /\ transfer' = transfer
    BY <1>3 DEF Reject, RollBack, Holds
  <2>2. \A s \in Requests : Holds(s)' <=> Holds(s) /\ s # r
    BY <1>3 DEF Safe, DripTypeOK, Reject, RollBack, Holds
  <2>3. QED
    BY <2>1, <2>2 DEF Held
<1>4. ASSUME UNCHANGED usedKeyImages,
             \A s \in Requests : Holds(s)' <=> Holds(s),
             \A s \in Requests : transfer'[s] \in {"pool", "landed", "dropped"}
               => transfer[s] \in {"pool", "landed", "dropped"} \/ Holds(s)
      PROVE  Held'
  BY <1>4 DEF Held
<1>5. ASSUME NEW r \in Requests, Refuse(r) PROVE Held'
  <2>1. Refusal(r) \notin {"funding", "ok"}
    BY DEF Refusal
  <2>2. \A s \in Requests : Holds(s)' <=> Holds(s)
    BY <1>5, <2>1 DEF Refuse, Holds, Safe, DripTypeOK
  <2>3. QED
    BY <1>4, <1>5, <2>2 DEF Refuse
<1>6. ASSUME NEW r \in Requests, Broadcast(r) \/ Include(r) \/ Drop(r) PROVE Held'
  <2>1. \A s \in Requests : Holds(s)' <=> Holds(s)
    BY <1>6 DEF Broadcast, Include, Drop, Holds
  <2>2. \A s \in Requests : transfer'[s] \in {"pool", "landed", "dropped"}
               => transfer[s] \in {"pool", "landed", "dropped"} \/ Holds(s)
    BY <1>6 DEF Broadcast, Include, Drop, Holds, Safe, DripTypeOK
  <2>3. QED
    BY <1>4, <1>6, <2>1, <2>2 DEF Broadcast, Include, Drop
<1>7. ASSUME NEW r \in Requests, Confirm(r) PROVE Held'
  <2>1. \A s \in Requests : Holds(s)' <=> Holds(s)
    BY <1>7 DEF Confirm, Holds, Safe, DripTypeOK
  <2>2. QED
    BY <1>4, <1>7, <2>1 DEF Confirm
<1>8. CASE UNCHANGED drips
  <2>1. \A s \in Requests : Holds(s)' <=> Holds(s)
    BY <1>8 DEF drips, Holds
  <2>2. QED
    BY <1>4, <1>8, <2>1 DEF drips
<1>9. QED
  BY <1>2, <1>3, <1>5, <1>6, <1>7, <1>8
  DEF ServiceNext, Drip, service, drips, RejectLate, ForgetDrips, NoLateNorRestart

LEMMA WorldStays == [ServiceNext]_service => world' = world
  BY DEF ServiceNext, Drip, service, drips, Refuse, Reserve, Broadcast, Reject, RejectLate, RollBack,
         Confirm, Include, Drop, ForgetDrips

LEMMA NextDripInv == DripInv /\ [ServiceNext]_service => DripInv'
<1> SUFFICES ASSUME DripInv, [ServiceNext]_service PROVE DripInv'
  OBVIOUS
<1>1. Safe /\ Safe'
  BY DripInvIsSafe, NextSafe
<1>2. NoLateNorRestart' <=> NoLateNorRestart
  BY WorldStays DEF NoLateNorRestart
<1>3. NoLateNorRestart => Held
  BY DEF DripInv, Held
<1>4. NoLateNorRestart => Held'
  BY <1>1, <1>3, NextHeld
<1>5. QED
  BY <1>1, <1>2, <1>4 DEF DripInv, Safe, Held

\* The inductive invariant holds in every world: the books always, and who
\* holds what while no transfer outlives its request.
THEOREM DripInvariantHolds == ServiceSpec => []DripInv
  BY InitDripInv, NextDripInv, PTL DEF ServiceSpec

\* However requests race, and whatever the node refuses or drops, each key is
\* paid once.
THEOREM OnePaymentPerKey == ServiceSpec => []PaidOncePerKey
<1>1. DripInv => PaidOncePerKey
  BY DEF DripInv, PaidOncePerKey, Landed
<1>2. QED
  BY <1>1, DripInvariantHolds, PTL

LEMMA LandedWithinUsed ==
  ASSUME DripInv, NoLateNorRestart
  PROVE  Cardinality(Landed) <= Cardinality(usedKeyImages)
<1> DEFINE f == [r \in Landed |-> r.sig.key]
<1>1. f \in Injection(Landed, usedKeyImages)
  <2>1. \A r \in Landed : r.sig.key \in usedKeyImages
    BY DEF DripInv, Landed
  <2>2. f \in [Landed -> usedKeyImages]
    BY <2>1
  <2>3. \A r, s \in Landed : f[r] = f[s] => r = s
    BY DEF DripInv, Landed
  <2>4. QED
    BY <2>2, <2>3 DEF Injection, IsInjective
<1>2. IsFiniteSet(usedKeyImages)
  BY DEF DripInv, DripTypeOK
<1>3. QED
  BY <1>1, <1>2, FS_Injection

\* What left the faucet's account never exceeds the budget, if no transfer
\* survives the request that sent it.
THEOREM LifetimeBudgetHolds == ServiceSpec => []LifetimeBudget
<1>1. ASSUME DripInv, NoLateNorRestart
      PROVE  FundAmountRao * Cardinality(Landed) <= MaxBudget
  <2>1. /\ Cardinality(Landed) <= Cardinality(usedKeyImages)
        /\ Cardinality(usedKeyImages) \in Nat
    BY <1>1, LandedWithinUsed, FS_CardinalityType DEF DripInv, DripTypeOK
  <2>2. Cardinality(Landed) \in Nat
    <3>1. IsFiniteSet(Landed)
      BY FS_Subset, FaucetAssumption DEF Landed
    <3>2. QED
      BY <3>1, FS_CardinalityType
  <2>3. FundAmountRao * Cardinality(Landed)
          <= FundAmountRao * Cardinality(usedKeyImages)
    BY <2>1, <2>2, AmountsOrdered, ConstantTypes
  <2>4. /\ FundAmountRao * Cardinality(usedKeyImages) <= MaxBudget
        /\ FundAmountRao * Cardinality(usedKeyImages) \in Nat
        /\ FundAmountRao * Cardinality(Landed) \in Nat
        /\ MaxBudget \in Nat
    BY <1>1, <2>1, <2>2, Amounts, ConstantTypes DEF DripInv, BooksAgree
  <2>5. QED
    BY <2>3, <2>4
<1>2. DripInv => LifetimeBudget
  BY <1>1 DEF LifetimeBudget
<1>3. QED
  BY <1>2, DripInvariantHolds, PTL
-----------------------------------------------------------------------------
(* Whom the account pays, and whom it turns away.                           *)

\* The ring that getRingAt makes of a part of the chain is the whole chain's.
LEMMA ServedRing ==
  ASSUME IInv, NEW b \in Nat, b <= scannedThrough
  PROVE  GetRingAt(b) = RingAt(Remarks, b)
<1> DEFINE R == {r \in Remarks : copies[r.block] >= 1}
<1>1. R \in SUBSET Registration /\ Remarks \in SUBSET Registration
  BY FaucetAssumption
<1>2. StartBlock \in Nat /\ scannedThrough \in Nat
  BY RingIndexerAssumption DEF IInv, TypeOK
<1>3. Later(R, Remarks, scannedThrough)
  <2>1. \A r \in Remarks : r.block \in Blocks /\ r.block \in Nat /\ r.block >= StartBlock
    BY FaucetAssumption, RingIndexerAssumption DEF Blocks
  <2>2. \A r \in R : r.block <= scannedThrough
    BY <1>2, <2>1 DEF IInv, NothingBeyond
  <2>3. \A r \in Remarks \ R : r.block > scannedThrough
    BY <1>2, <2>1 DEF IInv, ScannedThroughIsScanned
  <2>4. QED
    BY <2>2, <2>3 DEF Later
<1>4. RingAt(Remarks, b) = RingAt(R, b)
  BY <1>1, <1>2, <1>3, RingUnchanged
<1>5. QED
  BY <1>4 DEF GetRingAt

\* So the early exits are right about every request they get past the scan.
LEMMA RefusalIsRight ==
  ASSUME IInv, NEW r \in Requests
  PROVE  /\ Refusal(r) = "bad" => r \notin ProperRequests
         /\ Refusal(r) = "none" => r \in ProperRequests
<1> DEFINE ring == RingAt(Remarks, r.rb)
<1>1. /\ r.rb \in Nat /\ StartBlock \in Nat /\ scannedThrough \in Int
      /\ r.sig \in [key : Keys, ring : SUBSET Keys, gas : GasAddresses, rb : Nat]
  BY FaucetAssumption, RingIndexerAssumption DEF IInv, TypeOK
<1>2. Cardinality(ring) \in Nat
  <2>1. ring \in SUBSET Keys
    BY RingType, FaucetAssumption DEF RingAt
  <2>2. QED
    BY <2>1, RingAssumption, FS_Subset, FS_CardinalityType
<1>3. VerifyRingSig(r, ring) <=>
        /\ r.sig.key \in ring
        /\ r.sig = [key |-> r.sig.key, ring |-> ring, gas |-> r.gas, rb |-> r.rb]
  BY <1>1 DEF VerifyRingSig
<1>4. r \in ProperRequests <=>
        /\ r.wellFormed /\ r.rb >= StartBlock
        /\ ~(Cardinality(ring) < 2) /\ VerifyRingSig(r, ring)
  BY <1>2, <1>3 DEF ProperRequests
<1>5. CASE ~r.wellFormed \/ r.rb < StartBlock
  BY <1>1, <1>4, <1>5 DEF Refusal
<1>6. CASE r.wellFormed /\ ~(r.rb < StartBlock) /\ r.rb > scannedThrough
  BY <1>6 DEF Refusal
<1>7. CASE r.wellFormed /\ ~(r.rb < StartBlock) /\ ~(r.rb > scannedThrough)
  <2>1. RingRefuses(r) <=> Cardinality(ring) < 2 \/ ~VerifyRingSig(r, ring)
    BY <1>1, <1>7, ServedRing DEF RingRefuses
  <2>2. /\ Refusal(r) = "bad" => RingRefuses(r)
        /\ Refusal(r) = "none" => ~RingRefuses(r)
    BY <1>7 DEF Refusal
  <2>3. QED
    BY <1>1, <1>4, <1>7, <2>1, <2>2
<1>8. QED
  BY <1>5, <1>6, <1>7

\* A request in flight has passed the checks.
Judged ==
  \A r \in Requests :
    /\ drip[r] = "bad" => r \notin ProperRequests
    /\ drip[r] = "funding" \/ transfer[r] # "none" => r \in ProperRequests

LEMMA NextJudged == IInv /\ DripTypeOK /\ Judged /\ [ServiceNext]_service => Judged'
<1> SUFFICES ASSUME IInv, DripTypeOK, Judged, [ServiceNext]_service PROVE Judged'
  OBVIOUS
<1> USE DEF DripTypeOK
<1>1. ASSUME NEW r \in Requests, Reserve(r) PROVE Judged'
  <2>1. r \in ProperRequests
    BY <1>1, RefusalIsRight DEF Reserve
  <2>2. QED
    BY <1>1, <2>1 DEF Reserve, Judged, ProperRequests
<1>2. ASSUME NEW r \in Requests, Refuse(r) PROVE Judged'
  <2>1. Refusal(r) # "funding" /\ (Refusal(r) = "bad" => r \notin ProperRequests)
    BY RefusalIsRight DEF Refusal
  <2>2. QED
    BY <1>2, <2>1 DEF Refuse, Judged, ProperRequests
<1>3. ASSUME NEW r \in Requests, Broadcast(r) \/ Include(r) \/ Drop(r) PROVE Judged'
  BY <1>3 DEF Broadcast, Include, Drop, Judged, ProperRequests
<1>4. ASSUME NEW r \in Requests, Reject(r) \/ RejectLate(r) \/ Confirm(r)
      PROVE  Judged'
  BY <1>4 DEF Reject, RejectLate, RollBack, Confirm, Judged, ProperRequests
<1>5. CASE ForgetDrips \/ UNCHANGED drips
  BY <1>5 DEF ForgetDrips, drips, Judged, ProperRequests
<1>6. QED
  BY <1>1, <1>2, <1>3, <1>4, <1>5 DEF ServiceNext, Drip, service, drips

\* While block fetches are answered, a request is judged by the ring that the
\* whole chain gives at its block, whenever in the course of a scan it comes:
\* nobody who signed over that ring is told 400, and nobody else is paid.
THEOREM JudgementIsSound ==
  ASSUME ~FetchMayFail
  PROVE  ServiceSpec => []JudgedByTheRing
<1>1. ServiceInit => Judged
  BY DEF ServiceInit, Judged
<1>2. Judged => JudgedByTheRing
  BY DEF Judged, JudgedByTheRing
<1>3. DripInv => DripTypeOK
  BY DEF DripInv
<1>4. QED
  BY <1>1, <1>2, <1>3, IndexerInvariantHolds, DripInvariantHolds, NextJudged, PTL
  DEF ServiceSpec
=============================================================================
