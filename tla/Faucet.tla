------------------------------- MODULE Faucet -------------------------------
(***************************************************************************)
(* The faucet service: FaucetService.processDrip of                         *)
(* packages/api/src/faucet/faucet.service.ts and the transfer behind it,    *)
(* SubtensorService.fundAddress, beside the RingIndexer of the same process.*)
(* Any number of HTTP requests are in flight, each stopped at the await of  *)
(* its transfer; the node includes, refuses or drops what it was sent; the  *)
(* indexer goes on scanning, and getRingAt answers from what it has.        *)
(*                                                                         *)
(* A request is its content, so its ring signature is the record it signs:  *)
(* a key (whose image identifies it), the ring that its signer saw, a gas   *)
(* address and a ring block.                                                *)
(***************************************************************************)
EXTENDS RingIndexer, Ring

CONSTANTS
  GasAddresses,
  Remarks,         \* the announces and start remarks of the chain
  AllowedVoters,   \* config.allowedVoters.length
  FundAmountRao,
  Requests,        \* the POSTs, each of which arrives once at most
  Worlds           \* what a behaviour may meet: who asks, what goes wrong, and
                   \* which heads the chain has

ASSUME FaucetAssumption ==
  /\ Remarks \subseteq Registration /\ \A r \in Remarks : r.block \in Blocks
  /\ AllowedVoters \in Nat \ {0} /\ FundAmountRao \in Nat
  /\ IsFiniteSet(Requests)
  /\ Requests \subseteq
       [sig : [key : Keys, ring : SUBSET Keys, gas : GasAddresses, rb : Nat],
        gas : GasAddresses, rb : Nat, wellFormed : BOOLEAN, attempt : Nat]
  /\ Worlds \subseteq
       [asked : SUBSET Requests, heads : SUBSET Nat,
        failures : SUBSET {"late", "drop", "restart", "shutdown"}]

VARIABLES
  world,
  usedKeyImages,
  spentRao,
  drip,            \* where each request is, or how it was answered
  transfer         \* what became of its transfer on the node

drips == <<world, usedKeyImages, spentRao, drip, transfer>>
service == <<vars, drips>>

\* "bad" 400, "conflict" 409, "exhausted" 429, "unavailable" 503; "cut" is a
\* connection that died with the service.
Answers == {"ok", "bad", "conflict", "exhausted", "unavailable", "cut"}

DripTypeOK ==
  /\ world \in Worlds
  /\ usedKeyImages \in SUBSET Keys /\ IsFiniteSet(usedKeyImages)
  /\ spentRao \in Nat
  /\ drip \in [Requests -> {"unsent", "funding"} \cup Answers]
  /\ transfer \in [Requests -> {"none", "pool", "landed", "failed", "dropped"}]

ServiceInit ==
  /\ Init
  /\ world \in Worlds /\ chainHead \in world.heads
  /\ usedKeyImages = {}
  /\ spentRao = 0
  /\ drip = [r \in Requests |-> "unsent"]
  /\ transfer = [r \in Requests |-> "none"]

MaxBudget == FundAmountRao * AllowedVoters

-----------------------------------------------------------------------------
(* From the arrival of a request to its first await.                        *)

\* getRingAt.  What the list holds twice counts once (Audit: RingIsOrderFree).
GetRingAt(b) == RingAt({r \in Remarks : copies[r.block] >= 1}, b)

\* The drip message binds the gas address and the ring block, the signature
\* the ring.
VerifyRingSig(r, ring) ==
  /\ r.sig.key \in ring /\ r.sig.ring = ring
  /\ r.sig.gas = r.gas
  /\ r.sig.rb = r.rb

RingRefuses(r) ==
  LET ring == GetRingAt(r.rb)
  IN  Cardinality(ring) < 2 \/ ~VerifyRingSig(r, ring)

\* Mutants: no check of what is scanned; of the key image; of the budget.
RefusalWithoutScan(r) ==
  IF ~r.wellFormed \/ r.rb < StartBlock THEN "bad"
  ELSE IF RingRefuses(r) THEN "bad"
  ELSE IF r.sig.key \in usedKeyImages THEN "conflict"
  ELSE IF spentRao + FundAmountRao > MaxBudget THEN "exhausted"
  ELSE "none"

RefusalWithoutDedup(r) ==
  IF ~r.wellFormed \/ r.rb < StartBlock THEN "bad"
  ELSE IF r.rb > scannedThrough THEN "unavailable"
  ELSE IF RingRefuses(r) THEN "bad"
  ELSE IF spentRao + FundAmountRao > MaxBudget THEN "exhausted"
  ELSE "none"

RefusalWithoutBudget(r) ==
  IF ~r.wellFormed \/ r.rb < StartBlock THEN "bad"
  ELSE IF r.rb > scannedThrough THEN "unavailable"
  ELSE IF RingRefuses(r) THEN "bad"
  ELSE IF r.sig.key \in usedKeyImages THEN "conflict"
  ELSE "none"

\* The early exits of processDrip, in order; "none" when it goes on.  A request
\* for another proposal or with no valid address is not well formed.
Refusal(r) ==
  IF ~r.wellFormed \/ r.rb < StartBlock THEN "bad"
  ELSE IF r.rb > scannedThrough THEN "unavailable"
  ELSE IF RingRefuses(r) THEN "bad"
  ELSE IF r.sig.key \in usedKeyImages THEN "conflict"
  ELSE IF spentRao + FundAmountRao > MaxBudget THEN "exhausted"
  ELSE "none"

\* A request arrives and runs to its first await: nothing runs in between.
Refuse(r) ==
  /\ r \in world.asked /\ drip[r] = "unsent" /\ Refusal(r) # "none"
  /\ drip' = [drip EXCEPT ![r] = Refusal(r)]
  /\ UNCHANGED <<world, usedKeyImages, spentRao, transfer>>

Reserve(r) ==
  /\ r \in world.asked /\ drip[r] = "unsent" /\ Refusal(r) = "none"
  /\ drip' = [drip EXCEPT ![r] = "funding"]
  /\ spentRao' = spentRao + FundAmountRao
  /\ usedKeyImages' = usedKeyImages \cup {r.sig.key}
  /\ UNCHANGED <<world, transfer>>

\* fundAddress: signAndSend puts the transfer in the node's pool.
Broadcast(r) ==
  /\ drip[r] = "funding" /\ transfer[r] = "none"
  /\ transfer' = [transfer EXCEPT ![r] = "pool"]
  /\ UNCHANGED <<world, usedKeyImages, spentRao, drip>>

\* Mutants: the rollback forgets the amount, or the key image.
RollBackImageOnly(r) ==
  /\ usedKeyImages' = usedKeyImages \ {r.sig.key}
  /\ drip' = [drip EXCEPT ![r] = "unavailable"]
  /\ UNCHANGED <<world, spentRao, transfer>>

RollBackAmountOnly(r) ==
  /\ spentRao' = spentRao - FundAmountRao
  /\ drip' = [drip EXCEPT ![r] = "unavailable"]
  /\ UNCHANGED <<world, usedKeyImages, transfer>>

\* The catch block of processDrip.
RollBack(r) ==
  /\ spentRao' = spentRao - FundAmountRao
  /\ usedKeyImages' = usedKeyImages \ {r.sig.key}
  /\ drip' = [drip EXCEPT ![r] = "unavailable"]
  /\ UNCHANGED <<world, transfer>>

\* Mutant: a dispatch error does not reject.
RejectUnsent(r) ==
  /\ drip[r] = "funding" /\ transfer[r] = "none"
  /\ RollBack(r)

\* fundAddress rejects: the node refused the transfer (a nonce another request
\* took first, no API), or included it with a dispatch error.
Reject(r) ==
  /\ drip[r] = "funding" /\ transfer[r] \in {"none", "failed"}
  /\ RollBack(r)

\* It also rejects when the connection drops before the subscription is
\* confirmed, although the node has the transfer.
RejectLate(r) ==
  /\ "late" \in world.failures
  /\ drip[r] = "funding" /\ transfer[r] \in {"pool", "landed"}
  /\ RollBack(r)

\* The callback sees isInBlock without a dispatch error.
Confirm(r) ==
  /\ drip[r] = "funding" /\ transfer[r] = "landed"
  /\ drip' = [drip EXCEPT ![r] = "ok"]
  /\ UNCHANGED <<world, usedKeyImages, spentRao, transfer>>

\* The node.  Of a dropped, usurped or invalidated transfer the callback of
\* fundAddress is told, and does nothing.
Include(r) ==
  /\ transfer[r] = "pool"
  /\ \E outcome \in {"landed", "failed"} :
       transfer' = [transfer EXCEPT ![r] = outcome]
  /\ UNCHANGED <<world, usedKeyImages, spentRao, drip>>

Drop(r) ==
  /\ "drop" \in world.failures
  /\ transfer[r] = "pool"
  /\ transfer' = [transfer EXCEPT ![r] = "dropped"]
  /\ UNCHANGED <<world, usedKeyImages, spentRao, drip>>

Drip ==
  \E r \in Requests :
    \/ Refuse(r) \/ Reserve(r) \/ Broadcast(r)
    \/ Reject(r) \/ RejectLate(r) \/ Confirm(r)
    \/ Include(r) \/ Drop(r)

\* What the world lets the chain and the indexer do.
InThisWorld ==
  /\ chainHead' \in world.heads
  /\ destroyed' => destroyed \/ "shutdown" \in world.failures

\* All the service keeps is in memory; the node's pool is not.
ForgetDrips ==
  /\ "restart" \in world.failures
  /\ usedKeyImages' = {}
  /\ spentRao' = 0
  /\ drip' = [r \in Requests |-> IF drip[r] = "funding" THEN "cut" ELSE drip[r]]
  /\ UNCHANGED <<world, transfer>>

ServiceNext ==
  \/ Drip /\ UNCHANGED vars
  \/ Live /\ InThisWorld /\ UNCHANGED drips
  \/ Restart /\ ForgetDrips

\* The service runs its continuations; the node answers a submission, a block
\* request, and includes what stays in its pool.  Clients owe nothing.
ServiceFairness ==
  /\ \A r \in Requests :
       WF_service(/\ Broadcast(r) \/ Reject(r) \/ Include(r) \/ Confirm(r)
                  /\ UNCHANGED vars)
  /\ WF_service((ContinueOwner \/ ContinueWaiter) /\ UNCHANGED drips)
  /\ \A c \in Calls :
       WF_service(/\ \E lost \in SUBSET ((call[c].from)..(call[c].to)) : RunEnds(c, lost)
                  /\ UNCHANGED drips)

ServiceSpec == ServiceInit /\ [][ServiceNext]_service /\ ServiceFairness

-----------------------------------------------------------------------------
(* Properties.                                                              *)

Holds(r) == drip[r] \in {"funding", "ok"}
Landed == {r \in Requests : transfer[r] = "landed"}

\* The two books move together, through rollbacks and restarts: what is spent
\* is one amount per used key image, and never more than the budget.
BooksAgree ==
  /\ spentRao = FundAmountRao * Cardinality(usedKeyImages)
  /\ spentRao <= MaxBudget

\* A reservation is never taken from under a request: whoever is being funded
\* holds its key image, and nobody else holds the same one.  (A rollback frees
\* only its own.)
HolderKeepsKeyImage ==
  \A r \in Requests : drip[r] = "funding" =>
    /\ r.sig.key \in usedKeyImages
    /\ \A s \in Requests : s # r /\ drip[s] = "funding" => s.sig.key # r.sig.key

\* A key image marked used is held by a request in flight or was paid for: a
\* failed drip leaves its voter free to ask again.
UsedIsHeld ==
  \A k \in usedKeyImages : \E r \in Requests : r.sig.key = k /\ Holds(r)

\* The requests that deserve a drip: over the ring that the whole chain gives
\* at their block, by a member of it, for this address and this block.
ProperRequests ==
  {r \in Requests :
     LET ring == RingAt(Remarks, r.rb)
     IN  /\ r.wellFormed /\ r.rb >= StartBlock
         /\ Cardinality(ring) >= 2 /\ r.sig.key \in ring
         /\ r.sig = [key |-> r.sig.key, ring |-> ring, gas |-> r.gas, rb |-> r.rb]}

\* "Reconstruct the ring exactly as the voter saw it at sign time": whenever a
\* request arrives in the course of the scan, and whatever of the chain the
\* service has by then, no voter is told 400 (which his client does not retry)
\* for a signature over the chain's ring, and none other is paid.
JudgedByTheRing ==
  \A r \in Requests : /\ drip[r] = "bad" => r \notin ProperRequests
                      /\ transfer[r] # "none" => r \in ProperRequests

\* No transfer outlives the request that sent it.
NoLateNorRestart == "late" \notin world.failures /\ "restart" \notin world.failures

\* However requests race, and whatever the node refuses or drops, one transfer
\* lands per key.
PaidOncePerKey ==
  NoLateNorRestart => \A r, s \in Landed : r.sig.key = s.sig.key => r = s

\* "Never transfer more than fundAmountRao * allowedVoters over the lifetime
\* of the service, even if dedup is corrupted": counted in what left the
\* account, not in spentRao.
LifetimeBudget ==
  NoLateNorRestart => FundAmountRao * Cardinality(Landed) <= MaxBudget

\* A request that got as far as its transfer is answered, if no transfer is
\* dropped.  (Requests come once, so the last of them is.)
FundingIsAnswered ==
  []<>(world.failures = {} => \A r \in Requests : drip[r] # "funding")

\* What the proofs carry of the drips.
DripInv ==
  /\ DripTypeOK /\ BooksAgree /\ HolderKeepsKeyImage
  /\ NoLateNorRestart =>
       /\ \A r \in Requests :
            /\ Holds(r) => r.sig.key \in usedKeyImages
            /\ transfer[r] \in {"pool", "landed", "dropped"} => Holds(r)
       /\ \A r, s \in Requests :
            Holds(r) /\ Holds(s) /\ r.sig.key = s.sig.key => r = s
=============================================================================
