------------------------------- MODULE Voter --------------------------------
(***************************************************************************)
(* One voter with several devices: the pipelines of register, cast and      *)
(* castClear in packages/ui/src/components/VoteScreen.tsx, and of           *)
(* runAnnounce and runVote in packages/cli/src/commands, step by step, over *)
(* what they keep in localStorage or in the keystore, the remarks they have *)
(* sent and the faucet's answers.  Pages are reloaded, the wallet refuses,  *)
(* requests fail and remarks are dropped between any two awaits.            *)
(*                                                                         *)
(* A device's store has one voting key and one gas wallet.  Its `tab` is    *)
(* the pipeline that runs on it: the step it awaits in and what it          *)
(* captured.  Other voters matter for the size of the ring only: one of     *)
(* them announced in block OthersBlock.  The last block number stands for   *)
(* every later one, so that votes can always land.                          *)
(***************************************************************************)
EXTENDS Integers, Sequences, FiniteSets, FiniteSetsExt

CONSTANTS
  Devices,
  Program,      \* device -> "ui" or "cli"
  Keys,         \* voting keys that may be generated
  GasWallets,   \* gas wallets that may be generated
  OthersBlock,  \* where another voter's announce is
  MaxBlock,
  MaxRemarks,   \* announces and clear votes the voter gets on the chain
  MaxMishaps    \* reloads, refusals, lost requests, dropped remarks, failures

NoBlock == 0
NoKey == 0
NoGas == 0

ASSUME VoterAssumption ==
  /\ Program \in [Devices -> {"ui", "cli"}]
  /\ Keys \subseteq Nat \ {NoKey} /\ IsFiniteSet(Keys)
  /\ GasWallets \subseteq Nat \ {NoGas} /\ IsFiniteSet(GasWallets)
  /\ MaxBlock \in Nat \ {0} /\ OthersBlock \in 1..MaxBlock
  /\ MaxRemarks \in [{"announce", "clear"} -> Nat] /\ MaxMishaps \in Nat

VARIABLES
  head,     \* last sealed block
  start,    \* block of the coordinator's start remark, or NoBlock
  chain,    \* the voter's remarks, in chain order
  pool,     \* his remarks in the node's pool
  dripped,  \* the faucet's used key images
  paying,   \* its transfers in flight
  lost,     \* the key images whose transfer was dropped
  faucetIs, \* "well", or as it stays: "gapped" or "spent"
  funded,   \* gas wallets with a balance
  vk, gas,  \* what each device stores
  scanned,  \* how far each browser's indexer is
  tab,
  mishaps

vars == <<head, start, chain, pool, dripped, paying, lost, faucetIs, funded,
          vk, gas, scanned, tab, mishaps>>
ledger == <<head, start, chain>>
faucet == <<dripped, paying, lost, faucetIs, funded>>
store == <<vk, gas>>

\* A remark as it is sent; it gets its block on the chain.
Remark ==
  [by : Devices, kind : {"announce", "vote", "clear"}, key : Keys \cup {NoKey},
   gas : GasWallets \cup {NoGas}, rb : 0..MaxBlock]
Payment == [key : Keys, gas : GasWallets]

Landed == [m : Remark, block : 1..MaxBlock]

Steps == {"pick", "approving", "sending", "included", "waiting", "registered",
          "requesting", "funding", "gas-fund", "done", "error"}
Pending == {"approving", "requesting", "funding", "gas-fund", "sending", "included"}
Message(c, kind, k, g, rb) == [by |-> c, kind |-> kind, key |-> k, gas |-> g, rb |-> rb]
Tab(step, m) == [step |-> step, msg |-> m]
Blank(c) == Tab("pick", Message(c, "clear", NoKey, NoGas, 0))

TypeOK ==
  /\ head \in 0..MaxBlock /\ start \in 0..MaxBlock
  /\ chain \in Seq(Landed) /\ pool \in SUBSET Remark
  /\ dripped \in SUBSET Keys /\ paying \in SUBSET Payment
  /\ lost \in SUBSET Keys /\ faucetIs \in {"well", "gapped", "spent"}
  /\ funded \in SUBSET GasWallets
  /\ vk \in [Devices -> Keys \cup {NoKey}]
  /\ gas \in [Devices -> GasWallets \cup {NoGas}]
  /\ scanned \in [Devices -> 0..MaxBlock]
  /\ tab \in [Devices -> [step : Steps, msg : Remark]]
  /\ mishaps \in 0..MaxMishaps

\* An announce, wherever it is on its way, is of the key its device stores.
Stored(m) == m.kind = "announce" => m.key # NoKey /\ vk[m.by] = m.key

KeysAreStored ==
  /\ \A i \in DOMAIN chain : Stored(chain[i].m)
  /\ \A m \in pool : Stored(m)
  /\ \A c \in Devices : tab[c].msg.by = c /\ Stored(tab[c].msg)

\* A vote under way is paid for by the gas wallet its device stores.
PaidFromStore(c) ==
  LET t == tab[c]
  IN  /\ t.step \in {"requesting", "funding", "gas-fund"} =>
           t.msg.kind = "vote" /\ t.msg.key \in Keys /\ t.msg.gas \in GasWallets
      /\ t.step \in Pending /\ t.msg.kind = "vote" => t.msg.gas = gas[c]
      /\ t.step = "included" => \E i \in DOMAIN chain : chain[i].m = t.msg

VotesUseStoredGas == \A c \in Devices : PaidFromStore(c)

\* "If the gas wallet were lost, the TAO at that address would be
\* unrecoverable": a wallet that is funded or being funded is stored, or the
\* vote it paid for has landed.
Kept(g) ==
  \/ \E c \in Devices : gas[c] = g
  \/ \E i \in DOMAIN chain : chain[i].m.kind = "vote" /\ chain[i].m.gas = g

FundedGasIsKept == \A g \in funded \cup {p.gas : p \in paying} : Kept(g)

\* What is on the chain, in the pool or under way on a page.
Issued ==
  {chain[i].m : i \in DOMAIN chain} \cup pool
  \cup {tab[c].msg : c \in {d \in Devices : tab[d].step \in Pending}}

\* A browser that sends a clear vote has seen the start and has no key in the
\* ring, so it has not sent an anonymous vote and cannot send one any more.
ClearIsAlone ==
  \A m \in Issued :
    /\ m.kind = "vote" => vk[m.by] # NoKey
    /\ m.kind = "clear" =>
         /\ Program[m.by] = "ui" /\ start \in 1..head
         /\ \A i \in DOMAIN chain :
              chain[i].m.kind = "announce" /\ chain[i].m.key = vk[m.by]
                => chain[i].block >= start
         /\ \A n \in Issued : n.kind = "vote" => n.by # m.by

ScannedIsSealed == \A c \in Devices : scanned[c] <= head

\* What the proofs carry from step to step.
IInv ==
  /\ TypeOK /\ KeysAreStored /\ VotesUseStoredGas /\ FundedGasIsKept
  /\ ScannedIsSealed /\ ClearIsAlone

Init ==
  /\ head = 0 /\ start = NoBlock /\ chain = <<>> /\ pool = {}
  /\ dripped = {} /\ paying = {} /\ funded = {}
  /\ lost = {} /\ faucetIs = "well"
  /\ vk = [c \in Devices |-> NoKey] /\ gas = [c \in Devices |-> NoGas]
  /\ scanned = [c \in Devices |-> 0]
  /\ tab = [c \in Devices |-> Blank(c)]
  /\ mishaps = 0

-----------------------------------------------------------------------------
(* What a device works out from the blocks it has scanned.                  *)

\* The command line scans to the head each time it runs.
Scanned(c) == IF Program[c] = "ui" THEN scanned[c] ELSE head
SeenStart(upTo) == IF start # NoBlock /\ start <= upTo THEN start ELSE NoBlock

Announces(upTo) ==
  {i \in DOMAIN chain : /\ chain[i].m.kind = "announce"
                        /\ chain[i].block <= upTo
                        /\ SeenStart(upTo) # NoBlock => chain[i].block < SeenStart(upTo)}

Latest(upTo) ==
  {i \in Announces(upTo) : \A j \in Announces(upTo) : chain[j].block <= chain[i].block}

\* useRing keeps the first announce of the latest block...
MyAnnouncedVk(upTo) ==
  IF Latest(upTo) = {} THEN NoKey ELSE chain[Min(Latest(upTo))].m.key

\* ...and reconstructRing its largest key.  The voter's keys in the ring:
InRing(upTo) ==
  LET latest == {chain[i].m.key : i \in Latest(upTo)}
  IN  {k \in latest : \A j \in latest : j <= k}

OthersInRing(upTo) ==
  /\ OthersBlock <= upTo
  /\ SeenStart(upTo) # NoBlock => OthersBlock < SeenStart(upTo)

Voting(c) == SeenStart(scanned[c]) # NoBlock

\* A vote with this key that the tally accepts.  (A device signs only over a
\* ring with its key in it, and that ring never changes: Ballot.)
CountedIn(upTo, k) ==
  \E i \in DOMAIN chain :
    /\ chain[i].m.kind = "vote" /\ chain[i].m.key = k
    /\ SeenStart(upTo) # NoBlock
    /\ chain[i].block \in SeenStart(upTo)..upTo

AlreadyVoted(c) ==
  \/ \E i \in DOMAIN chain : chain[i].m.kind = "clear" /\ chain[i].block <= scanned[c]
  \/ vk[c] # NoKey /\ CountedIn(scanned[c], vk[c])

Registered(c) == vk[c] # NoKey /\ vk[c] = MyAnnouncedVk(scanned[c])

\* The choice buttons are on the screen.
Choosing(c) ==
  /\ Program[c] = "ui" /\ tab[c].step = "pick"
  /\ Voting(c) /\ MyAnnouncedVk(scanned[c]) # NoKey /\ ~AlreadyVoted(c)

-----------------------------------------------------------------------------
(* The chain, the other actors, and mishaps.                                *)

Go(c, step) == tab' = [tab EXCEPT ![c].step = step]
End(c, step) == tab' = [tab EXCEPT ![c] = [Blank(c) EXCEPT !.step = step]]

\* runAnnounce and runVote print what they sent and return.
CommandEnds(c) == End(c, "done")

Mishap == mishaps < MaxMishaps /\ mishaps' = mishaps + 1

Seal ==
  /\ head < MaxBlock
  /\ head' = head + 1
  /\ UNCHANGED <<start, chain, pool, faucet, store, scanned, tab, mishaps>>

OpenVoting ==
  /\ start = NoBlock /\ head + 1 < MaxBlock
  /\ start' = head + 1
  /\ UNCHANGED <<head, chain, pool, faucet, store, scanned, tab, mishaps>>

NextBlock == IF head < MaxBlock THEN head + 1 ELSE MaxBlock

\* A remark lands.  The page that sent it, if it is still there, is told.
Include(m) ==
  /\ m.kind = "announce" => start # NoBlock \/ head + 1 < MaxBlock
  /\ pool' = pool \ {m}
  /\ chain' = Append(chain, [m |-> m, block |-> NextBlock])
  /\ tab' = IF tab[m.by] = Tab("sending", m)
            THEN [tab EXCEPT ![m.by].step = "included"] ELSE tab
  /\ UNCHANGED <<head, start, faucet, store, scanned, mishaps>>

\* The pool drops it; nobody is told (sendRemark looks at isInBlock only)...
Drop(m) ==
  /\ Mishap
  /\ pool' = pool \ {m}
  /\ UNCHANGED <<ledger, faucet, store, scanned, tab>>

\* ...or the node refuses it, and signAndSend rejects.
SendFails(c) ==
  /\ Mishap
  /\ tab[c].step = "sending" /\ tab[c].msg \in pool
  /\ pool' = pool \ {tab[c].msg}
  /\ End(c, "error")
  /\ UNCHANGED <<ledger, faucet, store, scanned>>

\* The browser's indexer moves on, up to the head.
Scan(c) ==
  /\ Program[c] = "ui" /\ scanned[c] < head
  /\ scanned' = [scanned EXCEPT ![c] = @ + 1]
  /\ UNCHANGED <<ledger, pool, faucet, store, tab, mishaps>>

-----------------------------------------------------------------------------
(* Pages and processes come and go.                                         *)

\* Mutant: the indexer resumes one block before the one it had.
ReloadOneBack(c) ==
  /\ Mishap
  /\ tab[c].step # "pick"
  /\ tab' = [tab EXCEPT ![c] = Blank(c)]
  /\ scanned' = [scanned EXCEPT ![c] = @ - 1]
  /\ UNCHANGED <<ledger, pool, faucet, store>>

\* A reload, or Ctrl-C, at any step.  The indexer restarts from its cache.
Reload(c) ==
  /\ Mishap
  /\ tab[c].step # "pick"
  /\ tab' = [tab EXCEPT ![c] = Blank(c)]
  /\ \E n \in {0, scanned[c]} : scanned' = [scanned EXCEPT ![c] = n]
  /\ UNCHANGED <<ledger, pool, faucet, store>>

\* "Try again" after an error; a new visit after an end, or to a page whose
\* remark, or the faucet's transfer to it, was dropped.
Return(c) ==
  /\ \/ tab[c].step \in {"error", "registered", "done"}
     \/ tab[c].step = "sending" /\ tab[c].msg \notin pool
     \/ tab[c].step = "funding" /\ tab[c].msg.key \in lost
  /\ tab' = [tab EXCEPT ![c] = Blank(c)]
  /\ UNCHANGED <<ledger, pool, faucet, store, scanned, mishaps>>

-----------------------------------------------------------------------------
(* Announcing.                                                              *)

\* The bound on what the voter sends: landed, in the pool or in his wallet.
MoreOf(kind) ==
  Cardinality({i \in DOMAIN chain : chain[i].m.kind = kind})
  + Cardinality({m \in pool : m.kind = kind})
  + Cardinality({c \in Devices : tab[c].step = "approving" /\ tab[c].msg.kind = kind})
  < MaxRemarks[kind]

FreshKeys ==
  Keys \ ({vk[c] : c \in Devices} \cup {m.key : m \in pool}
          \cup {tab[c].msg.key : c \in Devices}
          \cup {chain[i].m.key : i \in DOMAIN chain})

UnusedGas ==
  GasWallets \ ({gas[c] : c \in Devices} \cup {m.gas : m \in pool} \cup funded
                \cup {p.gas : p \in paying}
                \cup {tab[c].msg.gas : c \in Devices}
                \cup {chain[i].m.gas : i \in DOMAIN chain})

\* Gas wallets are interchangeable: the next one.
FreshGas == {g \in UnusedGas : \A h \in UnusedGas : g <= h}

MayAnnounce(c) ==
  /\ tab[c].step = "pick" /\ MoreOf("announce")
  /\ Program[c] = "ui" => ~Voting(c) /\ ~Registered(c) /\ ~AlreadyVoted(c)

\* The stored key or wallet, or a fresh one.
KeyFor(c) == IF vk[c] # NoKey THEN {vk[c]} ELSE FreshKeys
GasFor(c) == IF gas[c] # NoGas THEN {gas[c]} ELSE FreshGas

\* The browser's wallet asks the voter before it signs and sends m.
AskWallet(c, m) ==
  tab' = [tab EXCEPT ![c] = Tab("approving", m)] /\ UNCHANGED pool

SignAndSend(c, m) ==
  tab' = [tab EXCEPT ![c] = Tab("sending", m)] /\ pool' = pool \cup {m}

SendFromRealWallet(c, m) ==
  IF Program[c] = "ui" THEN AskWallet(c, m) ELSE SignAndSend(c, m)

\* Mutant: a fresh key is published and not stored.
RegisterUnsaved(c) ==
  /\ MayAnnounce(c)
  /\ \E k \in KeyFor(c) :
       SendFromRealWallet(c, Message(c, "announce", k, NoGas, 0))
  /\ UNCHANGED <<ledger, faucet, store, scanned, mishaps>>

\* register and runAnnounce: the stored key, or a fresh one stored first.
Register(c) ==
  /\ MayAnnounce(c)
  /\ \E k \in KeyFor(c) :
       /\ vk' = [vk EXCEPT ![c] = k]
       /\ SendFromRealWallet(c, Message(c, "announce", k, NoGas, 0))
  /\ UNCHANGED <<ledger, faucet, gas, scanned, mishaps>>

Approve(c) ==
  /\ tab[c].step = "approving"
  /\ pool' = pool \cup {tab[c].msg}
  /\ Go(c, "sending")
  /\ UNCHANGED <<ledger, faucet, store, scanned, mishaps>>

Refuse(c) ==
  /\ Mishap
  /\ tab[c].step = "approving"
  /\ End(c, "error")
  /\ UNCHANGED <<ledger, pool, faucet, store, scanned>>

\* The announce landed: the page waits for the block it landed in, or for
\* block 0 when the lookup of its header failed.
AnnounceLanded(c) ==
  /\ tab[c].step = "included" /\ tab[c].msg.kind = "announce"
  /\ IF Program[c] = "cli" THEN CommandEnds(c)
     ELSE \E b \in {0} \cup {chain[i].block : i \in {j \in DOMAIN chain : chain[j].m = tab[c].msg}} :
            tab' = [tab EXCEPT ![c].step = "waiting", ![c].msg.rb = b]
  /\ UNCHANGED <<ledger, pool, faucet, store, scanned, mishaps>>

WaitEnds(c) ==
  /\ tab[c].step = "waiting"
  /\ \/ scanned[c] >= tab[c].msg.rb /\ End(c, "registered") /\ UNCHANGED mishaps
     \/ Mishap /\ End(c, "error")
  /\ UNCHANGED <<ledger, pool, faucet, store, scanned>>

-----------------------------------------------------------------------------
(* Voting.                                                                  *)

MayVote(c) ==
  /\ vk[c] # NoKey
  /\ IF Program[c] = "ui" THEN Choosing(c) ELSE tab[c].step = "pick"

\* The ring at the last scanned block has two members, one of them with the
\* stored key.
CanSign(c) == vk[c] \in InRing(Scanned(c)) /\ OthersInRing(Scanned(c))

\* cast and runVote to the drip request.
Cast(c) ==
  /\ MayVote(c)
  /\ IF CanSign(c)
     THEN \E g \in GasFor(c) :
            /\ gas' = [gas EXCEPT ![c] = g]
            /\ tab' = [tab EXCEPT ![c] =
                         Tab("requesting", Message(c, "vote", vk[c], g, Scanned(c)))]
     ELSE End(c, "error") /\ UNCHANGED gas
  /\ UNCHANGED <<ledger, pool, faucet, vk, scanned, mishaps>>

\* Mutant: the clear vote is offered to everyone.
CastClearAnyway(c) ==
  /\ Program[c] = "ui" /\ tab[c].step = "pick" /\ MoreOf("clear")
  /\ Voting(c) /\ MyAnnouncedVk(scanned[c]) # NoKey
  /\ SendFromRealWallet(c, Message(c, "clear", NoKey, NoGas, 0))
  /\ UNCHANGED <<ledger, faucet, store, scanned, mishaps>>

CastClear(c) ==
  /\ Choosing(c) /\ vk[c] = NoKey /\ MoreOf("clear")
  /\ SendFromRealWallet(c, Message(c, "clear", NoKey, NoGas, 0))
  /\ UNCHANGED <<ledger, faucet, store, scanned, mishaps>>

\* Mutant: a conflict is an error to the browser too.
AfterDripStrictly(c, answer) ==
  IF answer = "ok" \/ (Program[c] = "ui" /\ answer = "unavailable")
  THEN "gas-fund" ELSE "error"

\* What the faucet's answer does: the browser takes a conflict for an earlier
\* success and an unavailable faucet for manual funding; a bad request and an
\* exhausted budget are errors.  To the command line all but a success is one.
GoesOn(c, answer) ==
  IF Program[c] = "ui" THEN answer \in {"ok", "conflict", "unavailable"}
  ELSE answer = "ok"

AfterDrip(c, answer) == IF GoesOn(c, answer) THEN "gas-fund" ELSE "error"

\* A fetch that failed left a gap in the faucet's ring, or other drips have
\* spent its budget: neither mends itself, nor shows before somebody asks.
FaucetFails ==
  /\ Mishap
  /\ faucetIs = "well" /\ \E c \in Devices : tab[c].step = "requesting"
  /\ faucetIs' \in {"gapped", "spent"}
  /\ UNCHANGED <<ledger, pool, dripped, paying, lost, funded, store, scanned, tab>>

\* processDrip: the signature is checked, then the key image, then the budget.
Answer(k) ==
  IF faucetIs = "gapped" THEN "bad"
  ELSE IF k \in dripped THEN "conflict"
  ELSE IF faucetIs = "spent" THEN "exhausted"
  ELSE "ok"

\* The faucet takes the request: a refusal, or a payment.
Drip(c) ==
  /\ tab[c].step = "requesting"
  /\ IF Answer(tab[c].msg.key) # "ok"
     THEN /\ Go(c, AfterDrip(c, Answer(tab[c].msg.key)))
          /\ UNCHANGED <<dripped, paying>>
     ELSE /\ Go(c, "funding")
          /\ dripped' = dripped \cup {tab[c].msg.key}
          /\ paying' = paying \cup {[key |-> tab[c].msg.key, gas |-> tab[c].msg.gas]}
  /\ UNCHANGED <<ledger, pool, lost, faucetIs, funded, store, scanned, mishaps>>

\* Not reached, still scanning, out of budget for a while, or its answer is lost.
DripFails(c) ==
  /\ Mishap
  /\ tab[c].step \in {"requesting", "funding"}
  /\ \E answer \in {"unavailable", "exhausted"} :
       /\ answer = "exhausted" => tab[c].step = "requesting"
       /\ Go(c, AfterDrip(c, answer))
  /\ UNCHANGED <<ledger, pool, faucet, store, scanned>>

\* The transfer lands, and the request, if it still waits, is answered...
Pay(p) ==
  /\ paying' = paying \ {p}
  /\ funded' = funded \cup {p.gas}
  /\ tab' = [c \in Devices |->
               IF tab[c].step = "funding" /\ tab[c].msg.gas = p.gas
               THEN [tab[c] EXCEPT !.step = AfterDrip(c, "ok")] ELSE tab[c]]
  /\ UNCHANGED <<ledger, pool, dripped, lost, faucetIs, store, scanned, mishaps>>

\* ...or the node drops it, which fundAddress does not notice: the key image
\* stays used and the request is never answered...
PayLost(p) ==
  /\ Mishap
  /\ paying' = paying \ {p}
  /\ lost' = lost \cup {p.key}
  /\ UNCHANGED <<ledger, pool, dripped, faucetIs, funded, store, scanned, tab>>

\* ...or it is refused and the faucet frees the key image.
PayFails(p) ==
  /\ Mishap
  /\ paying' = paying \ {p}
  /\ dripped' = dripped \ {p.key}
  /\ tab' = [c \in Devices |->
               IF tab[c].step = "funding" /\ tab[c].msg.gas = p.gas
               THEN [tab[c] EXCEPT !.step = AfterDrip(c, "unavailable")] ELSE tab[c]]
  /\ UNCHANGED <<ledger, pool, lost, faucetIs, funded, store, scanned>>

\* The page shows the gas address: the voter may send the money himself.
FundByHand(c) ==
  /\ Program[c] = "ui" /\ tab[c].step = "gas-fund"
  /\ funded' = funded \cup {tab[c].msg.gas}
  /\ UNCHANGED <<ledger, pool, dripped, paying, lost, faucetIs, store, scanned,
                 tab, mishaps>>

\* Mutant: the gas wallet is wiped as soon as the vote is sent.
FundedWipes(c) ==
  /\ tab[c].step = "gas-fund" /\ tab[c].msg.gas \in funded
  /\ pool' = pool \cup {tab[c].msg}
  /\ Go(c, "sending")
  /\ gas' = [gas EXCEPT ![c] = NoGas]
  /\ UNCHANGED <<ledger, faucet, vk, scanned, mishaps>>

\* waitForBalance: the vote goes out with what was captured at the start...
Funded(c) ==
  /\ tab[c].step = "gas-fund" /\ tab[c].msg.gas \in funded
  /\ pool' = pool \cup {tab[c].msg}
  /\ Go(c, "sending")
  /\ UNCHANGED <<ledger, faucet, store, scanned, mishaps>>

\* ...or it gives up; early only by a mishap.
BalanceTimesOut(c) ==
  /\ tab[c].step = "gas-fund" /\ tab[c].msg.gas \notin funded
  /\ IF tab[c].msg.gas \in {p.gas : p \in paying} THEN Mishap ELSE UNCHANGED mishaps
  /\ End(c, "error")
  /\ UNCHANGED <<ledger, pool, faucet, store, scanned>>

\* The vote landed.  The browser wipes the gas wallet, the keystore keeps it.
VoteLanded(c) ==
  /\ tab[c].step = "included" /\ tab[c].msg.kind \in {"vote", "clear"}
  /\ End(c, "done")
  /\ gas' = IF Program[c] = "ui" /\ tab[c].msg.kind = "vote"
            THEN [gas EXCEPT ![c] = NoGas] ELSE gas
  /\ UNCHANGED <<ledger, pool, faucet, vk, scanned, mishaps>>

-----------------------------------------------------------------------------
Runs(c) == AnnounceLanded(c) \/ WaitEnds(c) \/ Drip(c) \/ Funded(c) \/ VoteLanded(c)

Next ==
  \/ Seal \/ OpenVoting \/ FaucetFails
  \/ \E m \in pool : Include(m) \/ Drop(m)
  \/ \E p \in paying : Pay(p) \/ PayLost(p) \/ PayFails(p)
  \/ \E c \in Devices :
       \/ SendFails(c) \/ Scan(c) \/ Reload(c) \/ Return(c)
       \/ Register(c) \/ Approve(c) \/ Refuse(c)
       \/ Cast(c) \/ CastClear(c) \/ DripFails(c) \/ FundByHand(c)
       \/ BalanceTimesOut(c)
       \/ Runs(c)

\* The chain moves and takes what stays in its pool, the indexers scan, pages
\* run their continuations; and a voter at his browser keeps trying.  Nothing is
\* assumed of the faucet's health, nor that a voter pays for himself.
Fairness ==
  /\ WF_vars(Seal)
  /\ WF_vars(\E m \in pool : Include(m))
  /\ WF_vars(\E p \in paying : Pay(p))
  /\ \A c \in Devices :
       /\ WF_vars(Scan(c)) /\ WF_vars(Runs(c)) /\ WF_vars(BalanceTimesOut(c))
       /\ Program[c] = "ui" => /\ WF_vars(Approve(c)) /\ WF_vars(Return(c))
                               /\ WF_vars(Cast(c))

Spec == Init /\ [][Next]_vars /\ Fairness

-----------------------------------------------------------------------------
(* Properties.                                                              *)

\* The key the ring holds for the voter can always be used: some device has
\* it, whatever was interrupted between its making and its announce.
AnnouncedKeyIsHeld ==
  \A k \in InRing(head) : \E c \in Devices : vk[c] = k

\* The tally cannot link a clear vote to an anonymous one: that both count
\* "only affects dual-device voters".
OnlyTwoDevicesCountTwice ==
  \A i, j \in DOMAIN chain :
    /\ chain[i].m.kind = "clear"
    /\ chain[j].m.kind = "vote" /\ CountedIn(head, chain[j].m.key)
    => chain[i].m.by # chain[j].m.by

\* A voter whose browser holds the key in the frozen ring has his vote counted
\* in the end, through reloads, refusals, dropped remarks and lost, failed or
\* unanswered drips, as long as the faucet does not fail for good: neither by a
\* gap in its ring or a spent budget, nor, for him, by a transfer that the node
\* dropped (his key image stays used: a conflict for ever, and no money).
CanVote(c) ==
  /\ Program[c] = "ui" /\ start # NoBlock /\ start <= head
  /\ vk[c] \in InRing(head) /\ OthersInRing(head)

SomeVoteCounted(c) ==
  \/ CountedIn(head, vk[c])
  \/ \E i \in DOMAIN chain : chain[i].m.kind = "clear"

FaucetFailed(c) == faucetIs # "well" \/ vk[c] \in lost

RegisteredVoterVotes ==
  \A c \in Devices : CanVote(c) ~> SomeVoteCounted(c) \/ FaucetFailed(c)

\* "A voter who announced on one device but needs to vote from another": when
\* the choices are on a screen whose key cannot vote, a choice is a clear vote.
FallbackIsOffered ==
  \A c \in Devices :
    Choosing(c) /\ vk[c] \notin InRing(scanned[c]) => vk[c] = NoKey
=============================================================================
