------------------------------- MODULE Audit --------------------------------
(***************************************************************************)
(* The two auditing commands of the command line client: runVerify of       *)
(* packages/cli/src/commands/verify.ts and runCheckRegistration of          *)
(* commands/check-registration.ts, over connect and scanRemarks of          *)
(* packages/cli/src/chain.ts.  A scan is a number of workers, each with one *)
(* block in flight, that push what they get into one list; verify then      *)
(* runs tallyRemarks, which is TallyLoop.                                   *)
(*                                                                         *)
(* The browser and the faucet hand tallyRemarks lists of their own making:  *)
(* with caller = "screen" this module is TallyLoop over any such list.      *)
(***************************************************************************)
EXTENDS TallyLoop

CONSTANTS
  Chains,       \* the chains audited: remarks in block order
  MaxBlock,     \* the chain stops here
  FromBlocks,   \* values of --start-block, or of the faucet's startBlock
  ToBlocks,     \* values of --to-block; NoBlock when it is left out
  MaxWorkers    \* the largest --concurrency

ASSUME AuditAssumption ==
  /\ Chains \subseteq Seq(RemarkLike)
  /\ \A c \in Chains : \A j \in DOMAIN c : \A i \in 1..j : c[i].block <= c[j].block
  /\ MaxBlock \in Nat /\ MaxWorkers \in Nat
  /\ FromBlocks \subseteq Nat
  /\ ToBlocks \subseteq Nat \cup {NoBlock}

NoExit == -1

VARIABLES
  caller,     \* who makes the list: "screen", "verify" or "check"
  opts,       \* the command's flags
  chain,      \* what is on the chain, head or not
  head,       \* the node's best block
  scan,       \* "idle", "scanning" or "scanned"
  toBlock,    \* the end of the window, once connected
  nextBlock,  \* scanRemarks' `next`
  fetching,   \* the block each worker waits for; NoBlock when it has returned
  checked,    \* CheckResult
  exit        \* the exit code, NoExit before

input2 == <<caller, opts, chain>>
audit == <<input2, head, scan, toBlock, nextBlock, fetching, checked, exit>>
auditVars == <<vars, audit>>

Workers == 1..MaxWorkers
Unchecked == [found |-> FALSE, block |-> NoBlock, vk |-> NoBlock, inRing |-> FALSE]

AuditInit ==
  /\ Init
  /\ caller \in {"screen", "verify", "check"}
  /\ chain \in (IF caller = "screen" THEN {<<>>} ELSE Chains)
  /\ opts \in IF caller = "screen"
              THEN {[from |-> 0, to |-> NoBlock, concurrency |-> 0,
                     address |-> CoordinatorAddress]}
              ELSE [from : FromBlocks, to : ToBlocks, concurrency : 0..MaxWorkers,
                    address : IF caller = "check" THEN Addresses
                              ELSE {CoordinatorAddress}]
  /\ head \in (IF caller = "screen" THEN {0} ELSE {0, MaxBlock})
  /\ scan = "idle" /\ toBlock = NoBlock /\ nextBlock = 0
  /\ fetching = [w \in Workers |-> NoBlock]
  /\ checked = Unchecked /\ exit = NoExit

-----------------------------------------------------------------------------
(* connect and scanRemarks.                                                 *)

Mine ==
  /\ caller # "screen" /\ scan # "scanned" /\ exit = NoExit
  /\ head < MaxBlock /\ head' = head + 1
  /\ UNCHANGED <<vars, input2, scan, toBlock, nextBlock, fetching, checked, exit>>

\* An exception reaches index.ts: nothing is printed but the error.
Throw == exit' = 2 /\ UNCHANGED <<vars, input2, head, nextBlock, fetching, checked>>

\* The faucet or the endpoint cannot be reached, or is of another chain.
ConnectFails ==
  /\ caller # "screen" /\ scan = "idle" /\ exit = NoExit
  /\ Throw /\ UNCHANGED <<scan, toBlock>>

\* The workers run to their first await: worker w has block from + w - 1.
Connect ==
  /\ caller # "screen" /\ scan = "idle" /\ exit = NoExit
  /\ scan' = "scanning"
  /\ toBlock' = IF opts.to = NoBlock THEN head ELSE opts.to
  /\ IF caller = "verify" /\ toBlock' < opts.from
     THEN Throw
     ELSE /\ nextBlock' = opts.from + opts.concurrency
          /\ fetching' =
               [w \in Workers |->
                  IF w <= opts.concurrency /\ opts.from + w - 1 <= toBlock'
                  THEN opts.from + w - 1 ELSE NoBlock]
          /\ UNCHANGED <<vars, input2, head, checked, exit>>

RemarksOf(n) == Pick(chain, {k \in DOMAIN chain : chain[k].block = n})

\* Worker w gets its block and claims the next one, in one go.
Fetch(w) ==
  /\ scan = "scanning" /\ exit = NoExit
  /\ fetching[w] # NoBlock /\ fetching[w] <= head
  /\ list' = list \o RemarksOf(fetching[w])
  /\ fetching' = [fetching EXCEPT ![w] =
                    IF nextBlock <= toBlock THEN nextBlock ELSE NoBlock]
  /\ nextBlock' = nextBlock + 1
  /\ UNCHANGED <<pc, sorted, next, votingStartBlock, announcedSigners, result>>
  /\ UNCHANGED <<input2, head, scan, toBlock, checked, exit>>

\* Mutant: a failed block is logged and the worker goes on.
FetchIsSkipped(w) ==
  /\ scan = "scanning" /\ exit = NoExit
  /\ fetching[w] # NoBlock
  /\ fetching' = [fetching EXCEPT ![w] =
                    IF nextBlock <= toBlock THEN nextBlock ELSE NoBlock]
  /\ nextBlock' = nextBlock + 1
  /\ UNCHANGED <<vars, input2, head, scan, toBlock, checked, exit>>

\* The node refuses a block, or does not have it yet.
FetchFails(w) ==
  /\ scan = "scanning" /\ exit = NoExit
  /\ fetching[w] # NoBlock
  /\ Throw /\ UNCHANGED <<scan, toBlock>>

ScanEnds ==
  /\ scan = "scanning" /\ exit = NoExit
  /\ \A w \in Workers : fetching[w] = NoBlock
  /\ scan' = "scanned"
  /\ list' = SortByBlock(list)
  /\ UNCHANGED <<pc, sorted, next, votingStartBlock, announcedSigners, result>>
  /\ UNCHANGED <<input2, head, toBlock, nextBlock, fetching, checked, exit>>

-----------------------------------------------------------------------------
(* What is printed.                                                         *)

NoAnnounce == [block |-> NoBlock, vk |-> NoBlock]

\* Mutant: the key of an earlier announce is reported.
FirstAnnounce(last, r, a) ==
  IF /\ r.kind = "announce" /\ r.signer = a /\ r.p = ProposalId
     /\ last.block = NoBlock
  THEN [block |-> r.block, vk |-> r.vk] ELSE last

\* One turn of check-registration's loop, which keeps the first announce of
\* the latest block.
LastAnnounce(last, r, a) ==
  IF /\ r.kind = "announce" /\ r.signer = a /\ r.p = ProposalId
     /\ last.block = NoBlock \/ r.block > last.block
  THEN [block |-> r.block, vk |-> r.vk] ELSE last

LatestAnnounce(rs, a) ==
  FoldLeft(LAMBDA last, r : LastAnnounce(last, r, a), NoAnnounce, rs)

\* It passes no votingStartBlock to reconstructRing.
CheckResult ==
  LET last == LatestAnnounce(list, opts.address)
  IN  [found |-> last.vk # NoBlock, block |-> last.block, vk |-> last.vk,
       inRing |-> last.vk \in RingOf(list, NoBlock)]

Check ==
  /\ caller = "check" /\ scan = "scanned" /\ exit = NoExit
  /\ checked' = CheckResult
  /\ exit' = IF checked'.inRing THEN 0 ELSE 1
  /\ UNCHANGED <<vars, input2, head, scan, toBlock, nextBlock, fetching>>

\* The end of runVerify, when tallyRemarks has returned.
Report ==
  /\ caller = "verify" /\ pc = "done" /\ exit = NoExit
  /\ exit' = IF tally["invalid"] > 0 \/ votingStartBlock = NoBlock THEN 1 ELSE 0
  /\ UNCHANGED <<vars, input2, head, scan, toBlock, nextBlock, fetching, checked>>

\* What resultHash hashes of a tally, its settings apart.  Key images are
\* counted once, so the sorted votes are the set of them.
Printed(from, to, start, ring, t, votes) ==
  [from |-> from, to |-> to, start |-> start, ring |-> ring, tally |-> t,
   votes |-> {[block |-> votes[i].block, rb |-> votes[i].rb, c |-> votes[i].c,
               ki |-> votes[i].sig.key] : i \in DOMAIN votes}]

\* Mutant: the printed ring is computed without the voting start block.
HashOfOpenRing ==
  Printed(opts.from, toBlock, votingStartBlock,
          RingOfList(list, toBlock, NoBlock), tally, accepted)

ResultHash ==
  Printed(opts.from, toBlock, votingStartBlock,
          RingOfList(list, toBlock, votingStartBlock), tally, accepted)

-----------------------------------------------------------------------------
MayCollect == caller = "screen"
MayTally == caller = "screen" \/ (caller = "verify" /\ scan = "scanned")

AuditNext ==
  \/ Mine \/ ConnectFails \/ Connect
  \/ \E w \in Workers : Fetch(w) \/ FetchFails(w)
  \/ ScanEnds \/ Check \/ Report
  \/ /\ \/ MayCollect /\ \E r \in Candidates : Collect(r)
        \/ MayTally /\ Begin
        \/ Skip \/ RejectClear \/ RejectVote \/ CountClear \/ CountVote
        \/ DropRepeated \/ Return
     /\ UNCHANGED audit

AuditSpec == AuditInit /\ [][AuditNext]_auditVars

-----------------------------------------------------------------------------
(* Properties.                                                              *)

\* The blocks opts.from..toBlock of the chain.
Window ==
  Pick(chain, {k \in DOMAIN chain : chain[k].block \in (opts.from)..toBlock})

Reported == exit \in {0, 1}

AuditTypeOK ==
  /\ caller \in {"screen", "verify", "check"}
  /\ chain \in Chains \cup {<<>>}
  /\ opts \in [from : Nat, to : Nat \cup {NoBlock}, concurrency : 0..MaxWorkers,
               address : Addresses]
  /\ scan \in {"idle", "scanning", "scanned"} /\ exit \in {NoExit, 0, 1, 2}
  /\ head \in Nat /\ nextBlock \in Nat /\ toBlock \in Nat \cup {NoBlock}
  /\ fetching \in [Workers -> Nat \cup {NoBlock}]

\* The blocks some worker has pushed.
Pushed == {n \in (opts.from)..toBlock : /\ n < nextBlock
                                       /\ \A w \in Workers : fetching[w] # n}

\* Half way through a scan the list holds the remarks of a block all, in their
\* order, or not at all, although other blocks' remarks stand between them; no
\* block is in flight twice, and a worker has left only when none was left.
ScanKeepsBlocks ==
  scan = "scanning" /\ exit = NoExit =>
    /\ \A w \in Workers : fetching[w] # NoBlock =>
         /\ fetching[w] \in (opts.from)..toBlock /\ fetching[w] < nextBlock
         /\ \A v \in Workers \ {w} : fetching[v] # fetching[w]
    /\ opts.concurrency = 0 => nextBlock = opts.from
    /\ opts.concurrency > 0 /\ (\E w \in 1..(opts.concurrency) : fetching[w] = NoBlock)
         => nextBlock > toBlock
    /\ \A i \in DOMAIN list : list[i].block \in Pushed
    /\ \A n \in Pushed :
         Pick(list, {i \in DOMAIN list : list[i].block = n}) = RemarksOf(n)

\* Who runs what, and what is left behind at the end.
CommandsKeepOrder ==
  /\ caller # "screen" /\ scan = "idle" => list = <<>>
  /\ caller # "screen" /\ scan = "scanned" =>
       list = IF opts.concurrency = 0 THEN <<>> ELSE Window
  /\ pc # "collect" => caller = "screen" \/ (caller = "verify" /\ scan = "scanned")
  /\ caller = "screen" => exit = NoExit /\ scan = "idle"
  /\ Reported => scan = "scanned"
  /\ caller = "verify" /\ Reported => pc = "done"
  /\ caller = "verify" /\ exit = 0 => votingStartBlock # NoBlock
  /\ caller = "check" /\ Reported =>
       checked = CheckResult /\ (exit = 0 <=> checked.inRing)

\* A report is about the whole window, every block once and in chain order,
\* whichever worker got which block when, however the head moved meanwhile,
\* and whatever failed; and a command that scanned nothing because it was
\* given no worker never exits with 0.
ReportIsComplete ==
  Reported /\ (exit = 0 \/ opts.concurrency > 0) => list = Window

\* "Two independent runs that agree on the chain state produce the same hash":
\* what verify hashes is a function of the chain and the window alone, namely
\* what Ring says of them.
HashIsOfTheChain ==
  caller = "verify" /\ Reported /\ opts.concurrency > 0 =>
    LET R       == Range(Window)
        counted == Counted(R, Window)
        count   == [x \in VoteChoices \cup {"invalid", "totalVoted"} |->
                      IF x = "totalVoted" THEN Cardinality(counted)
                      ELSE IF x = "invalid" THEN Cardinality(Invalid(R, Window))
                      ELSE Cardinality({i \in counted : Window[i].c = x})]
        votes   == {i \in counted : Window[i].kind = "vote"}
    IN  ResultHash = Printed(opts.from, toBlock, FindVotingStartBlock(R),
                             RingAt(R, toBlock), count, Pick(Window, votes))

\* Where in the window the address that is asked about announces.
MyAnnounces ==
  {k \in DOMAIN Window : /\ Window[k].kind = "announce" /\ Window[k].p = ProposalId
                         /\ Window[k].signer = opts.address}

\* k is where the first announce of the last block announced in stands.
ShownAt(k) ==
  /\ k \in MyAnnounces
  /\ \A j \in MyAnnounces : \/ Window[j].block < Window[k].block
                            \/ Window[j].block = Window[k].block /\ j >= k

\* Whoever is told that no announce was found has none in the window; the key
\* shown is that of the first announce of his last block, "in the ring" is said
\* exactly of a key in the window's ring, and an allowlisted voter whose last
\* block does not hold two keys of his is always told that he is registered.
CheckFindsTheLatest ==
  caller = "check" /\ Reported /\ opts.concurrency > 0 =>
    /\ checked.found <=> MyAnnounces # {}
    /\ exit = 0 <=> checked.vk \in ReconstructRing(Range(Window), NoBlock)
    /\ checked.found =>
         \E k \in DOMAIN Window :
           /\ ShownAt(k)
           /\ checked.block = Window[k].block /\ checked.vk = Window[k].vk
           /\ /\ opts.address \in AllowedRealAddresses
              /\ \A j \in MyAnnounces : Window[j].block = Window[k].block
                                          => Window[j].vk = Window[k].vk
              => exit = 0

\* check-registration.ts:91, "Match reconstructRing's latest-wins logic": the
\* key a registered voter is shown is the one reconstructRing keeps for him.
\* It does not hold of two announces in one block: the loop keeps the first,
\* reconstructRing the larger key.
ShowsTheRingKey ==
  caller = "check" /\ Reported /\ checked.found /\ opts.address \in AllowedRealAddresses =>
    checked.vk = LatestByVoter(list, NoBlock)[opts.address].vk

IInv ==
  /\ TypeOK /\ AuditTypeOK
  /\ BooksBalance /\ WalkIsRight
  /\ ScanKeepsBlocks /\ CommandsKeepOrder
=============================================================================
