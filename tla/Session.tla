------------------------------ MODULE Session -------------------------------
(***************************************************************************)
(* Where the browser takes its chain from: the endpoint of config.ts, its   *)
(* check in subtensor.ts and hooks/useRpcHealth.ts, the settings form of    *)
(* components/RpcSettingsModal.tsx and the snapshots of indexer-cache.ts,   *)
(* in packages/ui/src.  Several tabs of one browser share its localStorage, *)
(* and a new deployment reaches a tab when it is loaded.                    *)
(*                                                                         *)
(* A block is the chain it was fetched from.  A scan is one step, up to a   *)
(* head beyond the cursor, and a snapshot the blocks before the cursor:     *)
(* UiIndexer has what happens inside one.                                   *)
(***************************************************************************)
EXTENDS Integers, Sequences

CONSTANTS
  Tabs,
  Endpoints, Genesis,
  Serves,         \* endpoint -> genesis hash of the chain behind it
  Builds,         \* the deployments in order: their pinned genesis and default
  NoOverride,     \* nothing under rpc:subtensor-ws
  MaxBlock,       \* the longest chain
  SafetyMargin

ASSUME SessionAssumption ==
  /\ Serves \in [Endpoints -> Genesis]
  /\ Builds \in Seq([genesis : Genesis, ws : Endpoints]) /\ Len(Builds) > 0
  /\ \A n \in 1..Len(Builds) : Serves[Builds[n].ws] = Builds[n].genesis
  /\ NoOverride \notin Endpoints
  /\ MaxBlock \in Nat /\ SafetyMargin \in Nat

VARIABLES
  deployed,   \* the build that a page load gets
  override,   \* localStorage, rpc:subtensor-ws
  cache,      \* localStorage, the indexer's snapshots
  tab

vars == <<deployed, override, cache, tab>>

Snapshots == UNION {[1..n -> Genesis] : n \in 0..MaxBlock}
NoCache == [valid |-> FALSE, genesisHash |-> Serves[Builds[1].ws], blocks |-> <<>>]
Payload == {NoCache} \cup
           [valid : {TRUE}, genesisHash : Genesis, blocks : Snapshots]

TabState == [open : BOOLEAN, build : 1..Len(Builds), ws : Endpoints,
             status : {"connecting", "ok", "mismatch", "error"},
             blocks : Snapshots, cacheHit : BOOLEAN,
             form : {"closed", "open", "validating"}, failed : BOOLEAN,
             candidate : Endpoints]

TypeOK ==
  /\ deployed \in 1..Len(Builds)
  /\ override \in Endpoints \cup {NoOverride}
  /\ cache \in [Genesis -> Payload]
  /\ tab \in [Tabs -> TabState]

\* A page that is not loaded keeps nothing.
Away == [open |-> FALSE, build |-> 1, ws |-> Builds[1].ws, status |-> "connecting",
         blocks |-> <<>>, cacheHit |-> FALSE, form |-> "closed",
         failed |-> FALSE, candidate |-> Builds[1].ws]

Init ==
  /\ deployed = 1 /\ override = NoOverride
  /\ cache = [g \in Genesis |-> NoCache]
  /\ tab = [t \in Tabs |-> Away]

Pinned(t) == Builds[tab[t].build].genesis
Default(t) == Builds[tab[t].build].ws
Becomes(t, state) == tab' = [tab EXCEPT ![t] = state]

-----------------------------------------------------------------------------
(* A page load and its connection.                                          *)

GetSubtensorWs(build) == IF override = NoOverride THEN Builds[build].ws ELSE override

\* The key is namespaced by the pinned genesis, and so is what is under it.
ReadCache(g) == IF cache[g].genesisHash = g THEN cache[g] ELSE NoCache

WriteCache(g, blocks) ==
  cache' = [cache EXCEPT ![g] = [valid |-> TRUE, genesisHash |-> g, blocks |-> blocks]]

Load(t) ==
  LET saved == ReadCache(Builds[deployed].genesis)
  IN  Becomes(t, [Away EXCEPT !.open = TRUE, !.build = deployed,
                              !.ws = GetSubtensorWs(deployed),
                              !.blocks = saved.blocks, !.cacheHit = saved.valid])
      /\ UNCHANGED <<deployed, override, cache>>

\* Mutant: the genesis that the endpoint reports is taken as it is.
CheckAnyGenesis(t) == TRUE

CheckGenesis(t) == Serves[tab[t].ws] = Pinned(t)

\* getApi resolves once for the whole page: health is told, the indexer starts.
Connect(t) ==
  /\ tab[t].open /\ tab[t].status = "connecting"
  /\ IF CheckGenesis(t)
     THEN Becomes(t, [tab[t] EXCEPT !.status = "ok"])
     ELSE Becomes(t, [tab[t] EXCEPT !.status = "mismatch"])
  /\ UNCHANGED <<deployed, override, cache>>

\* It is never tried again on this page.
ConnectFails(t) ==
  /\ tab[t].open /\ tab[t].status = "connecting"
  /\ Becomes(t, [tab[t] EXCEPT !.status = "error"])
  /\ UNCHANGED <<deployed, override, cache>>

\* The indexer does not ask what chain it is on.  A write that exceeds the
\* quota is lost in silence.
Scan(t, to) ==
  LET blocks == tab[t].blocks
      base == Len(blocks) + 1
      from == IF tab[t].cacheHit THEN base - SafetyMargin ELSE base
      fresh == [b \in 1..to |-> IF b < from THEN blocks[b] ELSE Serves[tab[t].ws]]
  IN  /\ tab[t].open /\ tab[t].status \in {"ok", "mismatch"}
      /\ to >= base
      /\ Becomes(t, [tab[t] EXCEPT !.blocks = fresh])
      /\ WriteCache(Pinned(t), fresh) \/ UNCHANGED cache
      /\ UNCHANGED <<deployed, override>>

-----------------------------------------------------------------------------
(* The settings form.                                                       *)

OpenForm(t) ==
  /\ tab[t].open /\ tab[t].form = "closed"
  /\ Becomes(t, [tab[t] EXCEPT !.form = "open"])
  /\ UNCHANGED <<deployed, override, cache>>

Idle(t) == tab[t].open /\ tab[t].form = "open"

CloseForm(t) ==
  /\ Idle(t)
  /\ Becomes(t, [tab[t] EXCEPT !.form = "closed"])
  /\ UNCHANGED <<deployed, override, cache>>

\* validateWs is called.
Validate(t, e) ==
  /\ Becomes(t, [tab[t] EXCEPT !.form = "validating", !.failed = FALSE,
                              !.candidate = e])
  /\ UNCHANGED <<deployed, override, cache>>

\* The button is disabled while the draft is what is in use already, unless an
\* error is shown; it is still shown when the form is closed and opened again.
Save(t, draft) ==
  /\ Idle(t)
  /\ draft # GetSubtensorWs(tab[t].build) \/ tab[t].failed
  /\ Validate(t, draft)

ResetToDefault(t) == Idle(t) /\ Validate(t, Default(t))

\* Mutant: what can be reached is saved, whatever chain it is of.
IsReachable(t) == TRUE

IsValidated(t) == Serves[tab[t].candidate] = Pinned(t)

\* The default is stored as no override; the page reloads.
Validated(t) ==
  /\ tab[t].open /\ tab[t].form = "validating" /\ IsValidated(t)
  /\ override' = IF tab[t].candidate = Default(t) THEN NoOverride ELSE tab[t].candidate
  /\ Becomes(t, Away)
  /\ UNCHANGED <<deployed, cache>>

\* The endpoint is of another chain or is not reached.
Refused(t) ==
  /\ tab[t].open /\ tab[t].form = "validating"
  /\ Becomes(t, [tab[t] EXCEPT !.form = "open", !.failed = TRUE])
  /\ UNCHANGED <<deployed, override, cache>>

\* clearAllCaches, and the page reloads.
ResetCache(t) ==
  /\ Idle(t)
  /\ cache' = [g \in Genesis |-> NoCache]
  /\ Becomes(t, Away)
  /\ UNCHANGED <<deployed, override>>

\* The organiser deploys the next build; open tabs run the one they loaded.
Redeploy ==
  /\ deployed < Len(Builds) /\ deployed' = deployed + 1
  /\ UNCHANGED <<override, cache, tab>>

Next ==
  \/ \E t \in Tabs :
       \/ Load(t) \/ Connect(t) \/ ConnectFails(t)
       \/ \E to \in 1..MaxBlock : Scan(t, to)
       \/ OpenForm(t) \/ CloseForm(t)
       \/ \E e \in Endpoints : Save(t, e)
       \/ ResetToDefault(t) \/ Validated(t) \/ Refused(t) \/ ResetCache(t)
  \/ Redeploy

Spec == Init /\ [][Next]_vars

-----------------------------------------------------------------------------
(* Properties.                                                              *)

IsOf(blocks, g) == \A b \in DOMAIN blocks : blocks[b] = g

\* The deployments up to d pin one chain; their default endpoints may differ.
OneChainThrough(d) == \A n \in 1..d : Builds[n].genesis = Builds[1].genesis

\* As long as the deployments pin one chain, no tab reads another one, whatever
\* the forms of the tabs do to the endpoint they share, and although an override
\* outlives the deployment and the tab that validated it: neither what is shown
\* nor what is cached holds a foreign block.
PinnedChainOnly ==
  OneChainThrough(deployed) =>
    /\ \A g \in Genesis : IsOf(cache[g].blocks, g)
    /\ \A t \in Tabs : IsOf(tab[t].blocks, Pinned(t))

\* config.ts:9-13, "on every API init we compare it against what the RPC
\* reports, and refuse to use data from an RPC pointing at a different chain".
\* It does not hold: an override that an older deployment validated is on
\* another chain than the one a later deployment pins; its tab shows the
\* warning and scans all the same.
RefusesForeignData ==
  \A t \in Tabs : tab[t].status = "mismatch" => IsOf(tab[t].blocks, Pinned(t))

\* Why PinnedChainOnly: every tab by itself.
IInv ==
  /\ TypeOK
  /\ \A t \in Tabs : tab[t].build <= deployed
  /\ \A t \in Tabs : tab[t].status = "ok" => Serves[tab[t].ws] = Pinned(t)
  /\ OneChainThrough(deployed) =>
       /\ override # NoOverride => Serves[override] = Builds[1].genesis
       /\ \A t \in Tabs : Serves[tab[t].ws] = Pinned(t)
=============================================================================
