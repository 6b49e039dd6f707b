----------------------------- MODULE UiIndexer ------------------------------
(***************************************************************************)
(* The browser's indexer: useIndexer of packages/ui/src/hooks/useIndexer.ts *)
(* over scanRemarks of packages/ui/src/indexer.ts and the localStorage      *)
(* snapshot of packages/ui/src/indexer-cache.ts.                            *)
(*                                                                         *)
(* As in RingIndexer, the tab is one thread, `ready` holds the              *)
(* continuations of settled promises, a call of catchUp is a slot and a     *)
(* remark is the block it is in.  Unlike it, blocks are fetched one by one, *)
(* the cursor moves during a scan, what the components see is a snapshot    *)
(* emitted now and then, and a tab may be reloaded.  The status banner and  *)
(* its timer are left out.                                                  *)
(***************************************************************************)
EXTENDS Integers, Sequences, FiniteSets, FiniteSetsExt

CONSTANTS
  StartBlock,         \* config.startBlock
  MaxBlock,           \* no chain is longer
  CatchupThreshold,   \* CATCHUP_THRESHOLD
  SafetyMargin,       \* SAFETY_MARGIN
  Calls,              \* slots for calls of catchUp that have not returned
  Worlds              \* what a behaviour may meet: does a screen call
                      \* forceCatchUp, may the node fail to return a block,
                      \* and where does the chain stop

None == "none"
NoHead == -1            \* headRef.current is null

ASSUME UiIndexerAssumption ==
  /\ StartBlock \in Nat /\ MaxBlock \in Nat /\ StartBlock <= MaxBlock
  /\ CatchupThreshold \in Nat \ {0} /\ SafetyMargin \in Nat
  /\ IsFiniteSet(Calls) /\ None \notin Calls
  /\ Worlds \subseteq [forcing : BOOLEAN, failing : BOOLEAN, lastBlock : 0..MaxBlock]

Blocks == StartBlock..MaxBlock

VARIABLES
  world,          \* what this behaviour meets
  mined,          \* the best block of the node
  subscribed,     \* subscribeNewHeads is on
  remarks,        \* remarksRef: the blocks whose remarks are in it
  scannedThrough, \* scannedThroughRef
  head,           \* headRef
  cacheHit,       \* cacheHitRef
  inFlight,       \* inFlightRef: the call whose run it is, or None
  call,           \* what each call of catchUp is doing
  waiters,        \* the calls that await each call's run, in order
  ready,          \* continuations of settled promises, oldest first
  shown,          \* the snapshot the components hold
  cache,          \* localStorage
  awaited         \* the block VoteScreen waits to see scanned, or NoHead

refs == <<remarks, scannedThrough, head, cacheHit>>
calls == <<inFlight, call, waiters>>
vars == <<world, mined, subscribed, refs, calls, ready, shown, cache, awaited>>

Snapshot == [scannedThrough : (StartBlock - 1)..MaxBlock, remarks : SUBSET Blocks]
CallState == [is : {"free", "awaiting", "scanning", "settled"},
              from : 0..MaxBlock, to : 0..MaxBlock,
              todo : SUBSET Blocks, got : SUBSET Blocks]
Idle == [is |-> "free", from |-> 0, to |-> 0, todo |-> {}, got |-> {}]
Empty == [scannedThrough |-> StartBlock - 1, remarks |-> {}]
\* A missing or corrupt cache: one that isValidPayload refuses.
NoCache == [scannedThrough |-> StartBlock - 2, remarks |-> {}]

TypeOK ==
  /\ world \in Worlds
  /\ mined \in 0..MaxBlock
  /\ subscribed \in BOOLEAN /\ cacheHit \in BOOLEAN
  /\ remarks \in SUBSET Blocks
  /\ scannedThrough \in (StartBlock - 1)..MaxBlock
  /\ head \in 0..MaxBlock \cup {NoHead}
  /\ inFlight \in Calls \cup {None}
  /\ call \in [Calls -> CallState]
  /\ waiters \in [Calls -> Seq(Calls)]
  /\ ready \in Seq(Calls)
  /\ shown \in Snapshot
  /\ cache \in Snapshot \cup {NoCache}
  /\ awaited \in Blocks \cup {NoHead}

\* The hook mounts: state is seeded from the cache, if there is one.
Seed(saved) == IF saved = NoCache THEN Empty ELSE saved

\* An earlier visit left a snapshot of some prefix of the chain, or nothing.
Init ==
  /\ world \in Worlds
  /\ mined \in 0..(world.lastBlock)
  /\ cache \in {NoCache} \cup
       {[scannedThrough |-> b, remarks |-> StartBlock..b] : b \in StartBlock..mined}
  /\ shown = Seed(cache)
  /\ remarks = shown.remarks /\ scannedThrough = shown.scannedThrough
  /\ cacheHit = (cache # NoCache)
  /\ subscribed = FALSE
  /\ head = NoHead /\ awaited = NoHead
  /\ inFlight = None /\ ready = <<>>
  /\ call = [c \in Calls |-> Idle]
  /\ waiters = [c \in Calls |-> <<>>]

-----------------------------------------------------------------------------
\* updateSnapshot: the components get the refs as they are.
Emit == shown' = [scannedThrough |-> scannedThrough', remarks |-> remarks']

(* catchUp(to), from its entry or from its first await to its next one.     *)

\* The first block of the next pass: a session with a cache looks back.
NextFrom ==
  LET base == scannedThrough + 1
  IN  IF cacheHit THEN Max({StartBlock, base - SafetyMargin}) ELSE base

\* After the wait, if any: inFlightRef is not looked at again.
ScanOrReturn(c, to) ==
  /\ IF NextFrom > to
     THEN /\ call' = [call EXCEPT ![c] = Idle]
          /\ UNCHANGED inFlight
     ELSE /\ call' = [call EXCEPT ![c] =
               [is |-> "scanning", from |-> NextFrom, to |-> to,
                todo |-> NextFrom..to, got |-> {}]]
          /\ inFlight' = c
  /\ UNCHANGED <<waiters, remarks, scannedThrough>>
  /\ Emit

\* Mutant of CatchUp: a scan in flight makes the call unnecessary.
CatchUpUnlessBusy(c, to) ==
  IF inFlight = None THEN ScanOrReturn(c, to)
  ELSE UNCHANGED <<inFlight, call, waiters, remarks, scannedThrough, shown>>

CatchUp(c, to) ==
  IF inFlight = None THEN ScanOrReturn(c, to)
  ELSE /\ call' = [call EXCEPT ![c] = [Idle EXCEPT !.is = "awaiting", !.to = to]]
       /\ waiters' = [waiters EXCEPT ![inFlight] = Append(@, c)]
       /\ UNCHANGED <<inFlight, remarks, scannedThrough, shown>>

\* The run of c has nothing left to fetch: its end is the next thing to happen.
Finished(c) == call[c].is = "scanning" /\ call[c].todo = {}

\* The network and the user speak when no continuation is ready.
Quiet == ready = <<>> /\ \A c \in Calls : ~Finished(c)

-----------------------------------------------------------------------------
Mine ==
  /\ mined < world.lastBlock
  /\ mined' = mined + 1
  /\ UNCHANGED <<world, subscribed, refs, calls, ready, shown, cache, awaited>>

Subscribe ==
  /\ ~subscribed /\ subscribed' = TRUE
  /\ UNCHANGED <<world, mined, refs, calls, ready, shown, cache, awaited>>

\* onHead: a tick, be it of a block the tab knows already, scans when no run is
\* in flight and the tab is cold or far behind; otherwise it only shows what
\* there is.
OnHead(c) ==
  /\ Quiet /\ subscribed
  /\ call[c].is = "free"
  /\ head' = Max({head, mined})
  /\ IF /\ inFlight = None
        /\ ~cacheHit \/ head' - scannedThrough >= CatchupThreshold
     THEN CatchUp(c, head')
     ELSE UNCHANGED <<calls, remarks, scannedThrough>> /\ Emit
  /\ UNCHANGED <<world, mined, subscribed, cacheHit, ready, cache, awaited>>

\* forceCatchUp(b), when an extrinsic of this tab has landed in block b; the
\* screen then waits to see b scanned.
ForceCatchUp(c, b) ==
  /\ Quiet /\ world.forcing /\ subscribed /\ awaited < b /\ b <= mined
  /\ call[c].is = "free"
  /\ head' = Max({head, b})
  /\ awaited' = b
  /\ CatchUp(c, head')
  /\ UNCHANGED <<world, mined, subscribed, cacheHit, ready, cache>>

\* Mutants of Prefix: the first block that is missing, and the last that is not.
FirstMissing(c, got) ==
  Max({call[c].from} \cup
      {b + 1 : b \in {d \in (call[c].from)..(call[c].to) :
                        (call[c].from)..d \subseteq got}})
LastFetched(c, got) == Max({call[c].from - 1} \cup got)

\* The longest prefix of c's range that has been fetched, given what was got.
Prefix(c, got) ==
  Max({call[c].from - 1} \cup
      {b \in (call[c].from)..(call[c].to) : (call[c].from)..b \subseteq got})

\* Mutant of Chunk: the refs are written as they are, as persist does.
ChunkOfRefs(c, got) ==
  [scannedThrough |-> Max({scannedThrough, Prefix(c, got)}), remarks |-> remarks]

\* What is written to the cache in the middle of a scan.
Chunk(c, got) ==
  [scannedThrough |-> Prefix(c, got),
   remarks |-> {r \in remarks : r < call[c].from}
                 \cup {r \in got : r <= Prefix(c, got)}]

\* A worker of c gets block b: the cursor moves along the prefix, and now and
\* then (every so many blocks or seconds) the prefix is written to the cache.
Fetch(c, b) ==
  /\ Quiet /\ call[c].is = "scanning" /\ b \in call[c].todo
  /\ LET got == call[c].got \cup {b}
     IN  /\ call' = [call EXCEPT ![c].todo = @ \ {b}, ![c].got = got]
         /\ scannedThrough' = Max({scannedThrough, Prefix(c, got)})
         /\ cache' \in {cache, Chunk(c, got)}
  /\ UNCHANGED <<world, mined, subscribed, remarks, head, cacheHit, inFlight,
                 waiters, ready, shown, awaited>>

FetchFails(c, b) ==
  /\ world.failing
  /\ Quiet /\ call[c].is = "scanning" /\ b \in call[c].todo
  /\ call' = [call EXCEPT ![c].todo = @ \ {b}]
  /\ UNCHANGED <<world, mined, subscribed, refs, inFlight, waiters, ready, shown,
                 cache, awaited>>

\* mergeFresh: what is kept is what lies below the rescanned range.
Merged(c) == {r \in remarks : r < call[c].from} \cup call[c].got

RunEnds(c) ==
  /\ ready = <<>> /\ Finished(c)
  /\ scannedThrough' = Max({scannedThrough, Prefix(c, call[c].got)})
  /\ remarks' = Merged(c)
  /\ cache' = [scannedThrough |-> scannedThrough', remarks |-> remarks']
  /\ Emit
  /\ inFlight' = None
  /\ call' = [call EXCEPT ![c].is = "settled"]
  /\ ready' = <<c>> \o waiters[c]
  /\ waiters' = [waiters EXCEPT ![c] = <<>>]
  /\ UNCHANGED <<world, mined, subscribed, head, cacheHit, awaited>>

\* The call whose run has settled goes on if the head got away from it.
ContinueOwner ==
  /\ ready # <<>> /\ call[Head(ready)].is = "settled"
  /\ ready' = Tail(ready)
  /\ IF head - scannedThrough >= (IF cacheHit THEN CatchupThreshold ELSE 1)
     THEN CatchUp(Head(ready), head)
     ELSE /\ call' = [call EXCEPT ![Head(ready)] = Idle]
          /\ UNCHANGED <<inFlight, waiters, remarks, scannedThrough, shown>>
  /\ UNCHANGED <<world, mined, subscribed, head, cacheHit, cache, awaited>>

\* A call that waited for that run.
ContinueWaiter ==
  /\ ready # <<>> /\ call[Head(ready)].is = "awaiting"
  /\ ready' = Tail(ready)
  /\ ScanOrReturn(Head(ready), call[Head(ready)].to)
  /\ UNCHANGED <<world, mined, subscribed, head, cacheHit, cache, awaited>>

\* The tab is reloaded, or closed and opened again.
Reload ==
  /\ shown' = Seed(cache)
  /\ remarks' = shown'.remarks /\ scannedThrough' = shown'.scannedThrough
  /\ cacheHit' = (cache # NoCache)
  /\ UNCHANGED <<world, mined, cache>>
  /\ subscribed' = FALSE
  /\ head' = NoHead /\ awaited' = NoHead
  /\ inFlight' = None /\ ready' = <<>>
  /\ call' = [c \in Calls |-> Idle]
  /\ waiters' = [c \in Calls |-> <<>>]

Next ==
  \/ Mine \/ Subscribe \/ Reload
  \/ \E c \in Calls :
       \/ OnHead(c)
       \/ \E b \in Blocks : ForceCatchUp(c, b)
       \/ \E b \in call[c].todo : Fetch(c, b) \/ FetchFails(c, b)
       \/ RunEnds(c)
  \/ ContinueOwner \/ ContinueWaiter

\* The thread runs what is ready and the node answers every block request.
Fairness ==
  /\ WF_vars(ContinueOwner \/ ContinueWaiter)
  /\ \A c \in Calls :
       WF_vars(RunEnds(c) \/ \E b \in call[c].todo : Fetch(c, b) \/ FetchFails(c, b))

Spec == Init /\ [][Next]_vars /\ Fairness

-----------------------------------------------------------------------------
(* Properties.                                                              *)

\* Whatever was missed lies where the next pass over a cached session looks
\* again; a session without a cache, which looks back at nothing, has missed
\* nothing.
Recoverable(s, looksBack) ==
  \A b \in StartBlock..s.scannedThrough :
    b \in s.remarks \/ (looksBack /\ b > s.scannedThrough - SafetyMargin)

\* Between scans, no remark is lost for good behind the cursor: neither by a
\* failed fetch nor by a rescan that drops what it did not get.  (A forced scan
\* may overlap another one and lose what that one got: AwaitedIsInSnapshot.)
HolesAreRescanned ==
  ~world.forcing /\ (\A c \in Calls : call[c].is # "scanning") =>
    Recoverable([scannedThrough |-> scannedThrough, remarks |-> remarks], cacheHit)

\* Nor does a snapshot written in the middle of a scan claim a block that the
\* next visit would not fetch again.  (A forced scan that ends after a longer
\* one writes the longer one's cursor over its own blocks, as above.)
CacheIsRecoverable ==
  ~world.forcing /\ cache # NoCache => Recoverable(cache, TRUE)

\* A scan never begins before the first block.
Ranges ==
  \A c \in Calls : call[c].is = "scanning" => call[c].from \in StartBlock..(call[c].to)

\* Without forced scans there is one run at a time and nobody waits for it.
OneRun ==
  /\ \A c \in Calls :
       /\ (call[c].is = "scanning") <=> (inFlight = c)
       /\ call[c].is # "awaiting" /\ waiters[c] = <<>>
  /\ \/ ready = <<>>
     \/ inFlight = None /\ \E c \in Calls : ready = <<c>>

\* A run has kept all that lies below its range, and has reached the cursor
\* again unless the next pass will look back behind where it began.
RunCovers ==
  \A c \in Calls : call[c].is = "scanning" =>
    /\ StartBlock..(call[c].from - 1) \subseteq remarks
    /\ \/ Prefix(c, call[c].got) >= scannedThrough
       \/ cacheHit /\ call[c].from > scannedThrough - SafetyMargin

\* The inductive invariant that HolesAreRescanned and CacheIsRecoverable rest
\* on when no scan is forced.
OneRunCovers == OneRun /\ RunCovers /\ HolesAreRescanned /\ CacheIsRecoverable
IInv == TypeOK /\ Ranges /\ (~world.forcing => OneRunCovers)

\* A voter who waits for the indexer to reach his own block gets there: the
\* forced scan is not lost behind the one in flight.
ForcedBlockIsShown ==
  []<>(~world.failing => awaited = NoHead \/ shown.scannedThrough >= awaited)

\* "We need the indexer to actually have the announce in its remark list":
\* when the wait is over, the block that was waited for is in the snapshot.
AwaitedIsInSnapshot ==
  ~world.failing /\ awaited # NoHead /\ shown.scannedThrough >= awaited =>
    awaited \in shown.remarks
=============================================================================
