# anonym-vote: specifications, model checking and proofs

The repository runs small anonymous votes on a public chain. Voters on an
allowlist announce a voting key from their real wallet; a coordinator opens
voting with a start remark; each voter ring-signs a vote against the keys that
were announced and publishes it from a throwaway wallet that a faucet funds;
everyone tallies the same remarks. There is no server that counts: faucet,
browser and command line each rebuild the ring and the tally from the blocks
they have scanned, and the vote is sound only if they all get the same answer
at every moment.

The modules here are TLA+ translations of `packages/*/src`. `PROJECT.json` maps
each definition to the lines it stands for, and lists the runs, the mutants that
show each property can fail, the hazards, the findings and the theorems.

## 1. Inventory

| part (under `packages/`) | state it keeps | operations | correct when | modules |
|---|---|---|---|---|
| `shared/src/index.ts` | none; pure functions of a list of remarks | encode/parse the four remarks, `findVotingStartBlock`, `reconstructRing`, `computeRingAt`, `tallyRemarks` | the ring at a block is the same for every observer and never changes; one vote per voter; first valid ballot of a slot wins in any collection order | `Ring`, `TallyLoop`, `Audit`, `Ballot`, `BallotBox` |
| the chain | remarks in blocks | publish, seal | (environment) | `Ballot` |
| `api/src/faucet/faucet.service.ts`, `subtensor.service.ts`, `ring-sig-verifier.ts` | used key images, spent amount, requests in flight, transfers in the pool | `processDrip`, `fundAddress`, restart | a request is judged by the ring the chain has at its block; one payment per key image, within the budget; nothing reserved is lost or stuck | `Faucet`, over `RingIndexer` |
| `api/src/faucet/ring-indexer.service.ts` | remarks, scannedThrough, head, run in flight and its waiters | `start`, `catchUpTo`, `scanRange`, head ticks, destroy | every block up to `scannedThrough` is in the list, nothing beyond | `RingIndexer` |
| `ui/src/hooks/useIndexer.ts`, `indexer.ts`, `indexer-cache.ts` | the same, plus snapshot and localStorage cache | `catchUp`, `scanRemarks`, `onHead`, `forceCatchUp`, reload | what is cached or shown up to its cursor is complete, or lies where the next pass looks again | `UiIndexer` |
| `ui/src/components/VoteScreen.tsx`, `voting-key.ts`, `gas-wallet.ts`, `faucet-drip.ts`, `subtensor.ts`, `useRing.ts`, `useVotingPhase.ts` | voting key and gas wallet in localStorage, step of the pipeline | `register`, `cast`, `castClear` | a registered voter can vote, once, whatever was interrupted; no key in the ring and no money is lost | `Voter` (pipelines), `Ballot` (what is published) |
| `cli/src/commands/announce.ts`, `vote.ts`, `keystore.ts` | keystore and gas wallet on disk | `runAnnounce`, `runVote` | the same | `Voter` (pipelines), `Ballot` (ring block it signs at) |
| `cli/src/commands/verify.ts`, `check-registration.ts`, `chain.ts`, `index.ts` | the workers of a scan, the list they fill, an exit code | `connect`, `scanRemarks`, `runVerify`, `runCheckRegistration` | what is printed is of the whole window and of the chain alone; a scan that failed prints nothing | `Audit` |
| `ui/src/components/CoordinatorScreen.tsx` | none | `publishStart` | voting opens once | `Ballot` |
| `ui/src/config.ts`, `subtensor.ts`, `hooks/useRpcHealth.ts`, `components/RpcSettingsModal.tsx`, `App.tsx` | the endpoint override and the cache slots in localStorage; per tab its endpoint, health, form | page load, connect and genesis check, save, reset, clear the cache, redeploy | no block of another chain is shown or cached | `Session` |
| results, participants, layout | what React draws | | draws the tally | not modelled |
| `ring-sig` (vendored BLSAG, wasm, cli) | none | keygen, key image, sign, verify | linkable ring signature | a record in `Ring` |
| `scripts`, workflows | | | | not modelled |

How they interact: remarks are the only messages between voters, coordinator
and observers, and the chain orders them. A voter's client talks to the faucet
over HTTP; the faucet reads its indexer's list synchronously and awaits only the
transfer. In each process there is one JavaScript thread, so what can
interleave are the pieces of code between two `await`s; both indexers queue
callers on the promise of the run in flight, and what those callers do when it
settles is the hard part of both.

Hard behaviours, each listed with its line under `hazards`: announcing several
keys and signing with each; remarks that land between signing and inclusion;
re-evaluation of the tally over a growing list; several callers waiting for one
scan; block fetches that fail or finish out of order; a cursor that moves before
the data; reloads in the middle of a scan; requests racing for one key image;
rollback after a failure that was not one; transfers that vanish; a page closed
between the key, the announce, the drip, the transfer and the vote; tabs and
deployments that share one localStorage; a head that moves under an audit.

## 2. Plan

Order of work, most important first:

1. `Ring`, `Ballot`, `BallotBox` - the protocol (done), `TallyLoop` - the walk of
   `tallyRemarks` against `Ring` (done, with proofs, the refinement's among them).
2. `RingIndexer`, `Faucet` - the service: drips judged by an indexer that is still
   scanning, restarts of both (done, with proofs).
3. `UiIndexer` - the browser's indexer (done, with proofs for unforced sessions).
4. `Voter` - the pipelines of `cast`, `register`, `runVote` and `runAnnounce`
   with localStorage or keystore, reloads and retries, faucet answers, `useRing`'s
   tie rule; liveness under retries (done, with proofs of its safety).
5. `Audit` - `verify` and `check-registration` over concurrent workers, composed
   with `TallyLoop` (done, with proofs). `Session` - endpoints, tabs and deployments (done, with
   proofs).
6. `Faucet` over the growing chain of `Ballot`: the remarks that its indexer scans
   are a constant now.
7. Reorganised blocks in `UiIndexer` (`SAFETY_MARGIN` is there for them).
8. `Voter`: the deadline's `ended` phase, cleared site data.
9. Proofs: one observer's list (`Audit`) as the sealed remarks of `Ballot`, so that
   what `verify` prints is the election of `BallotBox`.
10. `Blsag` - sign, verify and key image over a small group.

Abstract specifications: `BallotBox` for the election; a scanner (a set of
blocks that only grows behind a cursor) for both indexers is worth stating once
step 7 is done.

## 3. The modules

**`Ring`** has the pure functions. A remark is a record of what its parser
returns plus the block and signer the indexer adds. A voting key is a number
because the code only compares two keys for order and equality; a ring is a set
because `reconstructRing` deduplicates and sorts. A ring signature is the record
of what it binds: key (the key image is a function of it), ring and message. A
malformed signature (`sig-structural-error`) is one that no key of the ring made.

**`TallyLoop`** is `tallyRemarks` as a loop: `Collect` builds any list an
indexer could hand over; `Begin` does the passes and the stable sort; then one
action per way out of the loop body (`Skip`, `RejectClear`, `RejectVote`,
`CountClear`, `CountVote`, `DropRepeated`). The loops inside are folds of their body,
an operator by itself (`Earlier`, `Later`; `LastAnnounce` in `Audit`); the stable
sort puts a remark where as many come no later as it has positions up to there
(`Place`). **`FoldLoop`** models nothing: it is the proof rule for such a fold.

**`Audit`** extends it with the two commands that read the chain once: `Connect`
fixes the window and starts the workers; `Fetch(w)` is one worker's block, pushed
to the shared list in the order of arrival, and its claim of the next; `FetchFails`
is the rethrown error that ends the command; `ScanEnds` the stable sort by block.
Then `verify` is `TallyLoop` over that list, `Report` and `ResultHash`; `Check` is
the loop of `check-registration` beside `reconstructRing` without a start block, for
any address, on the allowlist or not.
The head moves meanwhile. With `caller = "screen"` the module is `TallyLoop` over
any list whatever, which is how browser and faucet call it.

**`Ballot`** is the chain and everyone on it. Remarks enter the open block
`head + 1`; `Seal` makes it visible. `SignVote` needs what `cast` and `runVote`
need. The variable `world`, one of the constant `Worlds`, says how far a behaviour
goes and which program signs in it: `"ui"` (a scanned block, voting open), `"cli"`
(the head, any phase) or `"any"`. `PublishVote` may publish a signature at any time,
again, or with the choice or proposal altered.

**`BallotBox`** promises: the roll is fixed when voting opens, each key and each
registered voter is counted once, nothing counted changes, nothing is counted
after the deadline. `IsElection` is `Ballot => BallotBox` under the mapping at the
end of `Ballot`: the roll is the ring at the head, `cast` and `clear` are what the
tally accepts. Where others than browsers sign the box stays empty (`BoxIsOpen`):
there the promise is not kept (run `ballot_cli_double`).

**`RingIndexer`** and **`UiIndexer`** share their picture of JavaScript: a call of
`catchUpTo`/`catchUp` is a slot; `waiters` are the calls awaiting a run; when a run
settles its owner and then its waiters are put on `ready`, and `ready` is drained
before any event of the network (`Quiet`). `RingIndexer` ends a run in one step
(nothing reads its list before); `UiIndexer` fetches block by block, because its
cursor, cache and snapshot move during the scan. The constant `Worlds` says what a
behaviour may meet (forced scans, failing fetches, where the chain stops) and the
variable `world` is the one it has; so one run holds several settings, each bounded
as it needs. `Ballot` and `Faucet` do the same. `OnHead` takes any tick, also one that
repeats or goes back.

**`Session`** is above `UiIndexer`: where a tab gets its chain from. A block is the
chain it came from and a scan is one step. `Load` reads the override and the cache
slot of the pinned genesis; `Connect` compares the genesis hash, which only sets the
status that a banner shows; `Scan` does not look at it;
`Save`, `ResetToDefault`, `Validated`, `Refused` are the settings form, whose
validation another tab's form may overtake; `Redeploy` replaces the build that the
next page load gets, with another pinned chain and default.

**`Faucet`** extends `RingIndexer` and `Ring`: one process. `GetRingAt` is `Ring`'s
`RingAt` over the remarks of the blocks scanned so far, so a request is judged in the
middle of whatever the scan is doing. Each has one `drip` and one `transfer` state. All
checks up to the `await` are one step, as they are in the code; `Refusal` is the early
exits in order. `Include`, `Drop` are the node. `RejectLate` is the rejection of
`signAndSend` that comes although the node has the transfer. `ServiceNext` interleaves
the drips with the indexer's own steps (`Live`); `Restart` with `ForgetDrips` empties
the memory of both and leaves the pool. What differs between worlds (who asks, which
heads the chain has, what fails) is in `world` and `InThisWorld`.

**`Voter`** is one voter with several devices, each a browser or a keystore of the
command line. A device stores one voting key (`vk`) and one gas wallet (`gas`); its
`tab` is the pipeline on it: the step it awaits in and the message it captured.
`Register`, `Approve`, `AnnounceLanded`, `WaitEnds` are `register` and `runAnnounce`;
`Cast`, `Drip`, `Funded`, `VoteLanded` are `cast` and `runVote` from the click to the
wiping of the gas wallet; `CastClear` is the public fallback. What the code computes
in one synchronous piece is one step. `GoesOn` is the `catch` around
`requestDrip`. The two programs' own code is in operators of their own: `AskWallet`
with the browser's approval and `SignAndSend` for a published remark, `CanSign` and
`GasFor` for the checks before a vote, `CommandEnds` for the end of a command. What the faucet can do to one voter is what
`Faucet` and `RingIndexer` say it can: pay (`Pay`), refuse and free the key image
(`PayFails`), have its transfer dropped and keep the image (`PayLost`, after which it
says 409 for ever), have a gap in its ring (400 for ever) or its budget spent by
others (429 for ever; both `FaucetFails`). `FundByHand` is the voter who sends the
money to the address on the screen himself. `MyAnnouncedVk` is `useRing`'s
loop (first announce of the latest block) and `InRing` is `reconstructRing`'s (its
largest key); the screen gates on the one and signs with the other. The chain and
the faucet appear by their interfaces only, in the shape `Ballot` and `Faucet` give
them. `cast` has a branch that announces first; the buttons that call it are shown
only when an announce of this voter is known and a key is stored, so it is not
reachable and not modelled.

## 4. The runs

| run | bounds | shows |
|---|---|---|
| `ballot` | 2 voters, 3 keys; browsers that sign: 3 announces, 1 start, 2 signatures, 2 ballots of which 1 clear, 4 blocks, the last at the deadline; signers at any block, 3 blocks: 2 announces, 2 starts, 2 votes of 2 choices, or 3 announces, 1 start | for browsers `CountedKeysFrozen`, `BrowsersVoteOnce` and the refinement `IsElection` of `BallotBox`; for all `RingStable`, `VerdictStable`, `SignedVoteStaysValid`, `CountedAsSigned`, and the inductive invariant |
| `ballot_cli_double` | 3 announces, 1 start, 2 votes of command line signers, 3 blocks | **violation**: two votes of one voter |
| `audit` | 10 remarks, every list up to 5 of them, in any order and with repetitions; and 36 chains of 4 blocks, up to 2 workers, windows that begin and end inside, at and beyond the head, failures anywhere | the walk agrees with `Ring`, its books balance, the ring does not depend on order; a report is of the whole window, its hash of the chain alone, and `check-registration` finds the first announce of the latest block and says "in the ring" to whoever has no tie there; the inductive invariant |
| `check_registration_tie` | the same chains, 1 worker | **violation**: of a same-block tie `check-registration` shows the key that is not in the ring |
| `ring_indexer_gap` | 4 blocks, 4 calls, any fetch may fail | **violation**: a block is skipped for good |
| `faucet` | 3 keys, 2 addresses, budget of 2, 4 blocks, 4 calls of `catchUpTo`, every fetch answered; five worlds: the indexer alone with any head, restarts and shutdown; doubtful requests while it scans; a calm race of 5 requests; one of 4 with dropped transfers; one of 3 with late rejections, drops and restarts | the scan: no gap, nothing beyond, no retreat, every head reached; the drips: judged by the chain's ring whenever they come, paid once, within the budget, every funded request answered in the calm worlds; the books agree in all; both inductive invariants |
| `ui_indexer` | 3 calls, threshold and margin 2; a world of 5 blocks with failing fetches and one of 3 blocks with forced scans; reloads in both | without forced scans holes stay where they are rescanned, in memory and in the cache; with them a forced block is shown; the inductive invariant |
| `ui_early` | 3 blocks, 2 calls, forced scans | **violation**: the wait for an announce ends before it is in the list |
| `session` | 2 tabs, 2 chains, 3 endpoints, 3 deployments, of which the first two pin one chain with different defaults and the third another, 2 blocks | nothing foreign shown or cached as long as one chain is pinned; the inductive invariant |
| `session_foreign` | the same | **violation**: foreign blocks shown and cached on a page that has seen the mismatch |
| `voter` | a browser and a keystore, 2 keys, 3 gas wallets, 2 announces, 1 clear vote, 3 blocks, 2 mishaps | the ring's key is on a device, funded wallets are kept, only two devices count twice, who registered gets counted unless the faucet failed for good; the inductive invariant |
| `voter_fallback` | the same, 1 mishap | **violation**: a device with the wrong key is never offered the clear vote |

Why these bounds are enough to be interesting: two voters are all the roles there
are in a ring (a third address, never allowed, casts a clear vote in `audit`); two announces of
a voter make a re-announce, two in a block a tie; one key has two votes to repeat;
two blocks after the start separate "same block" from "later". A browser's vote needs
an announce, the sealed start and its own block, so four blocks are the fewest with a
counted vote before a deadline. Three calls of `catchUp` are one in flight and two
that wait, which is where the scans overlap. A budget of two with three keys makes the cap bite.
Two workers are enough to finish blocks out of order, and three blocks to leave one for whoever is first. Two tabs are one that
saves and one that runs on what was before; two deployments of one chain make an
override that outlives its deployment, and the third one that is wrong by then. In
`Voter` two mishaps are one
that loses something and one that hits the retry; three gas wallets leave a fresh
one after each; one other voter is what a ring needs, and where he announced is a
constant. Block numbers stop at `MaxBlock` (`lastBlock` of a world in `UiIndexer`,
`heads` in `Faucet`), lists at `MaxLen` and `MaxRemarks`, mishaps at `MaxMishaps`, and
in `Ballot` blocks, remarks, signatures and choices at the `blocks`, `limit`, `signed`
and `choices` of the world: each is in a guard. In `Voter` the last block number stands for every later block, so that
the bound takes nothing from the voter who comes late. The runs turn deadlock
checking off because a bounded chain stops.

**Fairness.** `Ballot`, `TallyLoop`, `Audit` and `Session` need none. In the indexers the thread runs
what is ready, and a node answers or refuses each block request, so a run ends;
no fairness is assumed of heads, reloads or users. In `Faucet` that holds
of its indexer too; the service runs its continuations and the node answers a
submission and includes what stays in its pool; nothing is assumed of clients, drops
or restarts. In `Voter` the chain
seals blocks and includes what stays in the pool, transfers land, indexers scan,
pages run their continuations and time out; and the voter at his browser approves,
clicks "Try again" and clicks a choice again, which is what the error screen asks of
him. Reloads, refusals, lost answers and drops have no fairness and are finitely
many (`MaxMishaps`). Nothing is assumed of the faucet's health nor of money sent by
hand: `RegisteredVoterVotes` says "or the faucet failed for good", and what that is
(`FaucetFailed`) are the three states the code has no way out of. Nothing is assumed
of whoever uses the command line either: it is claimed for browsers.

**What the violations show.**
- `ballot_cli_double`: `vote.ts` has no phase gate. A voter signs over the ring of
  the announce phase, announces a second key, signs with it too, and publishes
  both after the start; both verify.
- `ring_indexer_gap`: `scanRange` logs a failed fetch and the range still counts
  as scanned; the faucet's ring lacks that block's announces until a restart.
- `voter_fallback`: the choice buttons run `castClear` only if no key is stored. A
  browser whose own announce was refused, or superseded by another device's,
  stores a key that is not in the ring; the text under the buttons promises a
  public vote, and every click ends in "not in the canonical ring".
- `ui_early`: `onProgress` moves the cursor block by block, the remarks are merged
  when the scan ends, and a head tick shows both as they are. `register` waits for
  the cursor, whose comment calls it the strictly correct guarantee that the
  announce is in the list; it may say "registered" while the screen's ring lacks it.
- `check_registration_tie`: of two announces of one voter in one block
  `check-registration` ("Match reconstructRing's latest-wins logic") keeps the first it
  sees, `reconstructRing` the larger key. A registered voter is shown a key that is not
  in the ring, told NOT IN RING, and the command exits with 1.
- `session_foreign`: `config.ts` says that data of another chain is refused. An
  override that an older deployment validated is of another chain than a later one
  pins; its tab shows the banner, scans all the same, and writes what it finds into the
  slot of the pinned chain, where it stays for the next load.

**Noted while modelling, not run** (each can be seen in the models by asking for it):
- votes of another proposal are skipped, where a comment says "counted as invalid";
- head ticks that waited for one run resume together and scan the same range at
  once. Proved harmless for `scannedThrough` (below); the list holds remarks twice,
  which `RingIsOrderFree` shows harmless for the ring;
- a lost connection during `signAndSend` is rolled back although the transfer is in
  the pool; the next request is paid again (`RejectLate`), so `PaidOncePerKey` and
  `LifetimeBudget` are claimed of worlds without it and without restarts, though the
  comment at `faucet.service.ts:83-85` is unconditional;
- after `dropped`/`usurped`/`invalid` neither `fundAddress` nor `sendRemark` settles:
  the request hangs and its key image stays used; a page waits until it is reloaded.
  When it asks again it is told 409, which it takes for an earlier success, and waits
  for a balance that no faucet sends: an exception of `RegisteredVoterVotes`
  (`vk[c] \in lost`);
- the other two: a gap in the faucet's ring (`ring_indexer_gap`) answers 400 on every
  retry, a budget that is spent 429; `VoteScreen.tsx:354-356` throws both, where the
  comment at `faucet-drip.ts:15-17` says that on a 4xx the UI falls back to the manual
  path (`faucetIs`);
- a voter has one drip per announced key, not one;
- with a forced scan and a head tick waiting for one run, both resume; the shorter,
  ending last, drops what the longer one found, in the list and in the cache. Five
  blocks from 1, margin 2: a cold run scans 1..1; a forced call waits with `to` = 2;
  the head moves to 5; the run settles, its owner goes on with 2..5 and the waiter with
  2..2; the waiter ends last and writes a cache with cursor 5 and the remarks of 1 and
  2. The next pass starts at 4: block 3 is lost (`useIndexer.ts:344, 429-430`). So
  `HolesAreRescanned` and `CacheIsRecoverable` are claimed of sessions without forced
  scans;
- a failed fetch in the rescanned margin removes remarks the hook already had,
  until a later pass brings them back;
- `runVote` takes the faucet's 409 for an error, though it keeps the gas wallet so
  that it "survives across retries";
- `check-registration` knows no start block, so an announce after it is reported as
  registered;
- `validateWs` has a timeout on the handshake and none on what follows;
- "Reset indexer cache" in one tab is undone by the next write of another;
- `chain.ts` calls a failed block "not fatal" and rethrows;
- `vote.ts` says the ring is "first-wins per signer"; it is latest-wins; the header
  of `VoteScreen.tsx` describes a late voter who announces and votes in one session,
  which the start block excludes.

## 5. Proofs

All by TLAPS, for every value of the constants that meets the assumptions
(`RingAssumption`, `BallotAssumption`, `TallyLoopAssumption`, `AuditAssumption`,
`RingIndexerAssumption`, `FaucetAssumption`, `UiIndexerAssumption`, `SessionAssumption`,
`VoterAssumption`: types and finiteness; in `TallyLoop` that no choice is called
`invalid` or `totalVoted`, which in the code are fields of the same record; in `Audit`
that a chain lists its remarks by block; in `Session` that a deployment's default
endpoint serves the chain it pins).

- `Ballot_proofs`. `TypeCorrect`. `RingsAreStable`: a remark enters block
  `head + 1`, so no announce at or below `head` appears later, and a start remark
  that appears can only filter announces beyond its block; the lemma on rings
  under a larger set of remarks does the work. `VerdictsAreStable` follows with
  ballots in block order. `IInv` adds that published votes were signed and that
  browser signatures are made at or after the start block, which is what
  `KeysAreFrozen` needs in a world of browsers: the ring at any block from the start on
  is the frozen one. `NoDoubleVote`: in a frozen ring a voter has one key, and a key has
  one counted vote. The same statement is false where the command line client signs
  (`ballot_cli_double`): the condition is needed. `SignedVotesStayValid` needs that
  what was signed was signed over the ring at its block (`SignedOverRing`, a part of
  `IInv`), which by ring stability it still is; `VotesCountAsSigned` follows from
  `Verify` and votes published as signed or altered only in what a signature binds.
  The first needs finite `Keys`: `Verify`'s ring of at least two is a statement about
  cardinality.
  `ChainIsElection` is the refinement of `BallotBox`, for browser signers. The step that
  makes the start remark visible is `Open`: nothing was counted before it, and the ring
  has no more keys than voters announced (`RollFitsVoters`, which counts, and so needs
  that the registrations are finitely many: `ElectionInv`). The lemmas on rings alone
  (`RingFrozen`, `RollFitsVoters`) are in `Ring_proofs`. Every later step keeps the
  roll, because the ring is frozen; what it adds to the count lies in the block just
  sealed, which is `Vote` while the window is open and not valid once it has ended.
- `FoldLoop`. The lemma `LoopRule`: what holds before a loop and is kept by its body
  holds of the result, for a list of any length. The prover cannot instantiate the library's
  induction theorems, whose predicate is an operator; here the induction is over a set
  of numbers, by the well-foundedness of `<`, and step and invariant are the constants
  of the module, which every use of it instantiates with its own.
- `Audit_proofs`, on `TallyLoop` and `Audit`. Five instances of `LoopRule` say what each
  loop returns in terms of `Ring`'s sets, whatever the order and the repetitions of the
  list: `AuditRingIsOrderFree` and, for the commands, `AuditFindsTheLatest` (of the
  latest block's announces the first; if it has one, that is the ring's). `Sorting`
  is the sort (by block, stable, nothing lost), by counting. `IInv` is types and
  - `WalkIsRight`: accepted, seen and rejected are those of Ring's verdict on the
    positions behind the walk. Its step is that a slot is free in the code's sets
    exactly if no earlier position holds a valid ballot of it (`SlotTaken`); at the end
    it is `AuditCountsFirstValid`;
  - `BooksBalance` by itself (`AuditKeepsBooks`), whatever is accepted;
  - `ScanKeepsBlocks`: in the list the remarks of a block that was pushed are those of
    the chain in its order, though blocks come in any order; a pushed block is one that
    was claimed and is in no worker's hands; a worker leaves only when nothing is left
    to claim. `SortGathers`: the stable sort of such a list is the window of the chain;
  - `CommandsKeepOrder`: who runs what after what.
  `AuditReportIsComplete` and `AuditHashIsOfTheChain` follow: the list of a finished scan
  is the window whatever the workers did, and everything printed is a function of it
  (`TallyIsCount` for the tally, from the books and the accepted lists).
- `Faucet_proofs`, on the service as a whole (`ServiceSpec`), so beside any drips and
  through restarts. Of the indexer, where every fetch is answered
  (`FetchMayFail = FALSE`): the strengthening is `NoGapOpens`, no run in flight starts
  beyond `scannedThrough + 1`; so whichever of two overlapping runs ends first, the
  other leaves no gap (`ScanIsComplete`), and a block is in the list only behind the
  cursor (`NothingIsAhead`). `ScanNeverRetreats` needs neither. From both follows
  `JudgementIsSound`: a request that gets past the 503 is about a block behind the
  cursor, the ring at it depends on announces and start remarks up to it alone, and
  those are all in the list; so the verdict is the chain's, at any moment of the scan.
  Where a fetch may fail it is false, by `ring_indexer_gap`.
  Of the drips, `BooksAlwaysAgree`, `ReservationsHold`, `UsedImagesAreHeld` hold
  for any set of failures. `OnePaymentPerKey` and `LifetimeBudgetHolds` are about worlds
  where neither `"late"` nor `"restart"` may happen; `DripInv` ties every transfer in the
  pool or landed to a request that still holds its key image; with `"late"` the
  transfer outlives the reservation and both statements fail.
- `UiIndexer_proofs`. `TypeCorrect` in every world. Without forced scans one run is
  in flight at a time (`OneRun`); `RunCovers` says what it may lose: all below its
  range is still in the list, and either its contiguous prefix has reached the cursor
  again or it began behind what the next pass looks back over. That is kept by every
  block that arrives (a longer prefix) or fails (the same prefix), and at the end of
  the run gives `NothingIsLost`; a chunk written on the way is complete up to its own
  cursor, which gives `SavedIsRecoverable`, of such sessions too. `Max` of an interval's
  prefix exists by the well-foundedness of the naturals (`GreatestOf`).
- `Session_proofs`. `IInv` is about each tab and about the override by itself: as long
  as the deployments pin one chain (`OneChainThrough(deployed)`), whatever is stored as
  override was validated against that chain, so every tab that was loaded has an
  endpoint on it. `NothingForeignIsRead` adds tabs' and slots' blocks: a scan keeps
  those below the margin and fetches the rest from that endpoint. A deployment of
  another chain ends the premise, and `session_foreign` shows that it has to.
- `Voter_proofs`. `IInv` is types and five parts. `KeysAreStored`: an announce in a tab, in the
  pool or on the chain is of the key its device stores; it needs that a stored key
  is never replaced, only created before the first message that names it.
  `VotesUseStoredGas`: from the drip request to the landing of the vote the captured
  wallet is the stored one, which is what makes `FundedGasIsKept` inductive: the
  wallet is wiped only by the step that saw its vote land. `RingKeyIsHeld` follows
  from the first, `FundedGasAlwaysKept` from the rest. `ClearIsAlone`: a device that
  cast a clear vote had no key then, and whatever key it makes later is announced in
  the start block or after, which is too late for the ring, so it never casts another
  vote: `ClearVoterHasNoOtherVote`. That the start is behind the head by then follows
  from `ScannedIsSealed`: a device shows the voting phase only from blocks it scanned.

Only model-checked: the liveness properties (`HeadsAreScanned`, `FundingIsAnswered`,
`ForcedBlockIsShown`, `RegisteredVoterVotes`), which the prover does not do. The
violations are TLC's.

## 6. Not modelled

- Bytes and encodings of remarks, and BLSAG itself: a signature is the record of what
  it binds. Its algebra is step 10 of the plan.
- The results and participants screens: they keep nothing and draw the tally, the ring
  and names looked up on the chain. The same holds of routing, layout and the wallet
  extension's hook; the status banner's minimum display time is a timer about paint.
- The faucet's HTTP shell: NestJS wiring, the shape of a request, environment variables,
  and a rate limiter that is a library's.
- Reorganised blocks: the chain of every model only grows (step 7).
- Nonces: a refused transfer is `Reject`, one replaced or invalidated in the pool is
  `Drop` (`PayFails` and `PayLost` to a voter).
- In `Voter` the deadline, cleared site data and a change of wallet in the middle of a
  pipeline.
- Flag parsing, printing and build scripts.
