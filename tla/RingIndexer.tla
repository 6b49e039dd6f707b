---------------------------- MODULE RingIndexer -----------------------------
(***************************************************************************)
(* RingIndexerService of packages/api/src/faucet/ring-indexer.service.ts:   *)
(* it scans the chain from the proposal's first block and follows its head. *)
(*                                                                         *)
(* The process is one JavaScript thread: code runs to its next await, and   *)
(* the continuations of a settled promise run, in the order they were       *)
(* registered, before anything from the network does.  `ready` is that      *)
(* queue.  A call of catchUpTo is a slot; the run it starts is named after  *)
(* it.  A remark is the block it is in: what matters is which blocks made   *)
(* it into `remarks`, and how often.                                        *)
(***************************************************************************)
EXTENDS Integers, Sequences, FiniteSets, FiniteSetsExt

CONSTANTS
  StartBlock,   \* config.proposal.startBlock
  MaxBlock,     \* the chain stops here
  Calls,        \* slots for calls of catchUpTo that have not returned
  FetchMayFail  \* may the RPC node fail to return a block?

ASSUME RingIndexerAssumption ==
  /\ StartBlock \in Nat /\ MaxBlock \in Nat /\ StartBlock <= MaxBlock
  /\ IsFiniteSet(Calls)
  /\ FetchMayFail \in BOOLEAN

Blocks == StartBlock..MaxBlock
None == "none"

VARIABLES
  chainHead,      \* the best block of the node
  phase,          \* of start(): "connecting", "catching_up", "following", "failed"
  headBlock,
  scannedThrough,
  copies,         \* how many times each block's remarks are in `remarks`
  catchUpInFlight,\* the call whose run is in flight, or None
  call,           \* what each call of catchUpTo is doing
  waiters,        \* the calls that await each call's run, in order
  ready,          \* continuations of settled promises, oldest first
  destroyed

vars == <<chainHead, phase, headBlock, scannedThrough, copies, catchUpInFlight,
          call, waiters, ready, destroyed>>
calls == <<catchUpInFlight, call, waiters>>
scan == <<scannedThrough, copies>>

\* "awaiting" another call's run, "scanning" from..to in its own, or "settled":
\* its own has ended and its continuation is ready.
CallState == [is : {"free", "awaiting", "scanning", "settled"}, from : Nat, to : 0..MaxBlock]
Idle == [is |-> "free", from |-> 0, to |-> 0]

TypeOK ==
  /\ chainHead \in 0..MaxBlock
  /\ phase \in {"connecting", "catching_up", "following", "failed"}
  /\ headBlock \in 0..MaxBlock
  /\ scannedThrough \in (StartBlock - 1)..MaxBlock
  /\ copies \in [Blocks -> Nat]
  /\ catchUpInFlight \in Calls \cup {None}
  /\ call \in [Calls -> CallState]
  /\ waiters \in [Calls -> Seq(Calls)]
  /\ ready \in Seq(Calls)
  /\ destroyed \in BOOLEAN

Init ==
  /\ chainHead \in 0..MaxBlock        \* possibly before the proposal starts
  /\ phase = "connecting"
  /\ headBlock = 0
  /\ scannedThrough = StartBlock - 1
  /\ copies = [b \in Blocks |-> 0]
  /\ catchUpInFlight = None
  /\ call = [c \in Calls |-> Idle]
  /\ waiters = [c \in Calls |-> <<>>]
  /\ ready = <<>>
  /\ destroyed = FALSE

-----------------------------------------------------------------------------
(* catchUpTo(to), from its entry or from its first await to its next one.   *)

\* Mutant: off by one, a call that is one block behind returns.
ScanIfTwoBehind(c, to) ==
  /\ IF destroyed \/ scannedThrough + 1 >= to
     THEN /\ call' = [call EXCEPT ![c] = Idle]
          /\ UNCHANGED catchUpInFlight
     ELSE /\ call' = [call EXCEPT ![c] =
                        [is |-> "scanning", from |-> scannedThrough + 1, to |-> to]]
          /\ catchUpInFlight' = c
  /\ UNCHANGED waiters

\* After the wait, if any: `catchUpInFlight` is not looked at again.
ScanOrReturn(c, to) ==
  /\ IF destroyed \/ scannedThrough + 1 > to
     THEN /\ call' = [call EXCEPT ![c] = Idle]
          /\ UNCHANGED catchUpInFlight
     ELSE /\ call' = [call EXCEPT ![c] =
                        [is |-> "scanning", from |-> scannedThrough + 1, to |-> to]]
          /\ catchUpInFlight' = c
  /\ UNCHANGED waiters

CatchUpTo(c, to) ==
  IF catchUpInFlight = None THEN ScanOrReturn(c, to)
  ELSE /\ call' = [call EXCEPT ![c] = [is |-> "awaiting", from |-> 0, to |-> to]]
       /\ waiters' = [waiters EXCEPT ![catchUpInFlight] = Append(@, c)]
       /\ UNCHANGED catchUpInFlight

\* Any free slot does for a new call.
IsFree(c) == c = CHOOSE d \in Calls : call[d].is = "free"

\* The network speaks only when no continuation is ready.
Quiet == ready = <<>>

-----------------------------------------------------------------------------
Mine ==
  /\ chainHead < MaxBlock
  /\ chainHead' = chainHead + 1
  /\ UNCHANGED <<phase, headBlock, scan, calls, ready, destroyed>>

\* start(): the API connects and the first header arrives, or either fails and
\* nothing tries again.
Connect(c) ==
  /\ Quiet /\ phase = "connecting" /\ ~destroyed /\ IsFree(c)
  /\ phase' = "catching_up"
  /\ headBlock' = chainHead
  /\ CatchUpTo(c, chainHead)
  /\ UNCHANGED <<chainHead, scan, ready, destroyed>>

FailToStart ==
  /\ Quiet /\ phase = "connecting"
  /\ phase' = "failed"
  /\ UNCHANGED <<chainHead, headBlock, scan, calls, ready, destroyed>>

\* start() goes on once its catchUpTo has returned.
Subscribe ==
  /\ Quiet /\ phase = "catching_up" /\ ~destroyed
  /\ \A c \in Calls : call[c].is = "free"
  /\ phase' = "following"
  /\ UNCHANGED <<chainHead, headBlock, scan, calls, ready, destroyed>>

\* A header from the subscription.  Ticks may skip blocks.
NewHead(c) ==
  /\ Quiet /\ phase = "following" /\ ~destroyed
  /\ call[c].is = "free" /\ IsFree(c)
  /\ chainHead > headBlock
  /\ headBlock' = chainHead
  /\ CatchUpTo(c, chainHead)
  /\ UNCHANGED <<chainHead, phase, scan, ready, destroyed>>

\* Mutants of the end of a run, which moves scannedThrough to `reached`.
RunReaches(c, lost, reached) ==
  /\ Quiet /\ call[c].is = "scanning"
  /\ lost # {} => FetchMayFail
  /\ IF destroyed THEN UNCHANGED scan
     ELSE /\ copies' = [b \in Blocks |->
                          IF b \in (call[c].from)..(call[c].to) \ lost
                          THEN copies[b] + 1 ELSE copies[b]]
          /\ scannedThrough' = reached
  /\ catchUpInFlight' = None
  /\ call' = [call EXCEPT ![c].is = "settled"]
  /\ ready' = <<c>> \o waiters[c]
  /\ waiters' = [waiters EXCEPT ![c] = <<>>]
  /\ UNCHANGED <<chainHead, phase, headBlock, destroyed>>

RunReachesHead(c, lost) == RunReaches(c, lost, headBlock)
RunReachesItsEnd(c, lost) == RunReaches(c, lost, call[c].to)
RunReachesOneLess(c, lost) == RunReaches(c, lost, Max({scannedThrough, call[c].to - 1}))

\* The workers of c's run have fetched every block of its range but `lost`:
\* the run appends what it found, moves scannedThrough and settles.
RunEnds(c, lost) ==
  /\ Quiet /\ call[c].is = "scanning"
  /\ lost # {} => FetchMayFail
  /\ IF destroyed THEN UNCHANGED scan
     ELSE /\ copies' = [b \in Blocks |->
                          IF b \in (call[c].from)..(call[c].to) \ lost
                          THEN copies[b] + 1 ELSE copies[b]]
          /\ scannedThrough' = Max({scannedThrough, call[c].to})
  /\ catchUpInFlight' = None
  /\ call' = [call EXCEPT ![c].is = "settled"]
  /\ ready' = <<c>> \o waiters[c]
  /\ waiters' = [waiters EXCEPT ![c] = <<>>]
  /\ UNCHANGED <<chainHead, phase, headBlock, destroyed>>

\* The call whose run has settled: if the head moved on, another pass.
ContinueOwner ==
  /\ ready # <<>> /\ call[Head(ready)].is = "settled"
  /\ ready' = Tail(ready)
  /\ IF ~destroyed /\ headBlock > call[Head(ready)].to
     THEN CatchUpTo(Head(ready), headBlock)
     ELSE /\ call' = [call EXCEPT ![Head(ready)] = Idle]
          /\ UNCHANGED <<catchUpInFlight, waiters>>
  /\ UNCHANGED <<chainHead, phase, headBlock, scan, destroyed>>

\* A call that waited for that run.
ContinueWaiter ==
  /\ ready # <<>> /\ call[Head(ready)].is = "awaiting"
  /\ ready' = Tail(ready)
  /\ ScanOrReturn(Head(ready), call[Head(ready)].to)
  /\ UNCHANGED <<chainHead, phase, headBlock, scan, destroyed>>

\* onModuleDestroy.
Destroy ==
  /\ Quiet /\ ~destroyed
  /\ destroyed' = TRUE
  /\ UNCHANGED <<chainHead, phase, headBlock, scan, calls, ready>>

\* One life of the process.
Live ==
  \/ Mine
  \/ \E c \in Calls : Connect(c) \/ NewHead(c)
  \/ FailToStart \/ Subscribe \/ Destroy
  \/ \E c \in Calls : \E lost \in SUBSET ((call[c].from)..(call[c].to)) :
       RunEnds(c, lost)
  \/ ContinueOwner \/ ContinueWaiter

\* The process ends and is started again: all it knew was in memory.
Restart ==
  /\ phase' = "connecting"
  /\ headBlock' = 0
  /\ scannedThrough' = StartBlock - 1
  /\ copies' = [b \in Blocks |-> 0]
  /\ catchUpInFlight' = None
  /\ call' = [c \in Calls |-> Idle]
  /\ waiters' = [c \in Calls |-> <<>>]
  /\ ready' = <<>>
  /\ destroyed' = FALSE
  /\ UNCHANGED chainHead

Next == Live \/ Restart

\* The thread runs what is ready, and the node answers (or refuses) every block
\* request, so every run ends.  Nothing is assumed of the rest.
Fairness ==
  /\ WF_vars(ContinueOwner \/ ContinueWaiter)
  /\ \A c \in Calls :
       WF_vars(\E lost \in SUBSET ((call[c].from)..(call[c].to)) : RunEnds(c, lost))

Spec == Init /\ [][Next]_vars /\ Fairness

-----------------------------------------------------------------------------
(* Properties.                                                              *)

\* "Highest block we have fully scanned": every block up to it is in the list,
\* so getRingAt may answer for it.  Overlapping runs must not leave a gap.
ScannedThroughIsScanned ==
  \A b \in StartBlock..scannedThrough : copies[b] >= 1

\* Nothing beyond it is: getRingAt answers 503 there, never from half a scan.
NothingBeyond ==
  \A b \in Blocks : b > scannedThrough => copies[b] = 0

\* A shorter run that ends after a longer one does not take scannedThrough
\* back, nor does anything short of a restart: a drip accepted for a ring block
\* is not refused later.
ScannedThroughMonotone == [][scannedThrough' >= scannedThrough \/ Restart]_vars

\* Every head the subscription reported is scanned in the end, unless a restart
\* forgets it.
HeadsAreScanned ==
  \A b \in Blocks :
    headBlock >= b ~> scannedThrough >= b \/ destroyed \/ headBlock < b

\* What the proofs carry: no run starts beyond what has been scanned, so no
\* gap can open, whichever of two overlapping runs ends first.
NoGapOpens ==
  \A c \in Calls : call[c].is = "scanning" => call[c].from <= scannedThrough + 1

IInv == TypeOK /\ NoGapOpens /\ ScannedThroughIsScanned /\ NothingBeyond
=============================================================================
