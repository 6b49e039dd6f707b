--------------------------- MODULE Session_proofs ---------------------------
(***************************************************************************)
(* Proofs about Session, for any tabs, endpoints, chains and deployments.   *)
(*                                                                         *)
(* Health is what each tab and each slot satisfies by itself; a step        *)
(* touches one tab and at most one slot, so a lemma says what that tab's    *)
(* new state must satisfy.                                                  *)
(***************************************************************************)
EXTENDS Session, TLAPS

Inv == IInv /\ PinnedChainOnly

LEMMA Constants ==
  /\ \A n \in 1..Len(Builds) : /\ Builds[n].genesis \in Genesis
                               /\ Builds[n].ws \in Endpoints
                               /\ Serves[Builds[n].ws] = Builds[n].genesis
  /\ 1 \in 1..Len(Builds) /\ Len(Builds) \in Nat
  /\ \A e \in Endpoints : Serves[e] \in Genesis
<1>1. ASSUME NEW n \in 1..Len(Builds)
      PROVE  Builds[n] \in [genesis : Genesis, ws : Endpoints]
  <2>1. Builds \in Seq([genesis : Genesis, ws : Endpoints])
    BY SessionAssumption
  <2> DEFINE R == [genesis : Genesis, ws : Endpoints]
  <2> HIDE DEF R
  <2>2. Builds \in Seq(R)
    BY <2>1 DEF R
  <2>3. Builds[n] \in R
    BY <2>2
  <2>4. QED
    BY <2>3 DEF R
<1>2. Len(Builds) \in Nat /\ 1 \in 1..Len(Builds)
  BY SessionAssumption
<1>3. QED
  BY <1>1, <1>2, SessionAssumption

LEMMA EmptySnapshot == <<>> \in Snapshots /\ \A g : IsOf(<<>>, g)
<1>1. <<>> \in [1..0 -> Genesis]
  OBVIOUS
<1>2. 0 \in 0..MaxBlock
  BY SessionAssumption
<1>3. QED
  BY <1>1, <1>2 DEF Snapshots, IsOf

LEMMA SnapshotType ==
  ASSUME NEW s \in Snapshots
  PROVE  /\ Len(s) \in 0..MaxBlock /\ DOMAIN s = 1..Len(s)
         /\ \A b \in 1..Len(s) : s[b] \in Genesis
<1>1. PICK n \in 0..MaxBlock : s \in [1..n -> Genesis]
  BY DEF Snapshots
<1>2. n \in Nat /\ s \in Seq(Genesis) /\ DOMAIN s = 1..n
  BY <1>1, SessionAssumption
<1>3. Len(s) = n
  BY <1>2
<1>4. QED
  BY <1>1, <1>2, <1>3

LEMMA AwayType ==
  /\ Away \in TabState
  /\ Builds[Away.build].genesis = Builds[1].genesis
  /\ Away.ws = Builds[1].ws /\ Away.status = "connecting"
  /\ \A g : IsOf(Away.blocks, g)
  /\ Away.build = 1
  BY EmptySnapshot, Constants DEF Away, TabState

LEMMA NoCacheType == NoCache \in Payload /\ NoCache.blocks = <<>>
  BY DEF NoCache, Payload

\* What a tab satisfies by itself.
GoodTab(s, d) ==
  /\ s \in TabState /\ s.build <= d
  /\ LET g == Builds[s.build].genesis
     IN  /\ s.status = "ok" => Serves[s.ws] = g
         /\ OneChainThrough(d) => Serves[s.ws] = g /\ IsOf(s.blocks, g)

GoodSlot(p, g, d) == p \in Payload /\ (OneChainThrough(d) => IsOf(p.blocks, g))

GoodOverride(o, d) ==
  /\ o \in Endpoints \cup {NoOverride}
  /\ OneChainThrough(d) /\ o # NoOverride => Serves[o] = Builds[1].genesis

LEMMA AwayIsGood == \A d \in 1..Len(Builds) : GoodTab(Away, d)
<1> SUFFICES ASSUME NEW d \in 1..Len(Builds) PROVE GoodTab(Away, d)
  OBVIOUS
<1> DEFINE g == Builds[Away.build].genesis
<1>1. Away \in TabState /\ Away.build <= d
  BY AwayType, Constants
<1>2. /\ Away.status = "ok" => Serves[Away.ws] = g
      /\ OneChainThrough(d) => Serves[Away.ws] = g /\ IsOf(Away.blocks, g)
  BY AwayType, Constants
<1>3. QED
  BY <1>1, <1>2 DEF GoodTab

\* A chain that is pinned through d is pinned by every build up to d.
LEMMA PinnedThrough ==
  ASSUME NEW d \in 1..Len(Builds), NEW n \in 1..Len(Builds), n <= d, OneChainThrough(d)
  PROVE  Builds[n].genesis = Builds[1].genesis
<1>1. n \in 1..d
  BY Constants
<1>2. QED
  BY <1>1 DEF OneChainThrough

Parts ==
  /\ deployed \in 1..Len(Builds)
  /\ cache \in [Genesis -> Payload] /\ tab \in [Tabs -> TabState]
  /\ GoodOverride(override, deployed)
  /\ \A g \in Genesis : GoodSlot(cache[g], g, deployed)
  /\ \A t \in Tabs : GoodTab(tab[t], deployed)

LEMMA ByParts == (Inv <=> Parts) /\ (Inv' <=> Parts')
<1>1. Inv <=> Parts
  BY DEF Inv, IInv, TypeOK, PinnedChainOnly, Pinned,
         GoodTab, GoodSlot, GoodOverride, Parts
<1>2. Inv' <=> Parts'
  BY DEF Inv, IInv, TypeOK, PinnedChainOnly, Pinned,
         GoodTab, GoodSlot, GoodOverride, Parts
<1>3. QED
  BY <1>1, <1>2

LEMMA InvByParts ==
  ASSUME Inv
  PROVE  /\ deployed \in 1..Len(Builds)
         /\ cache \in [Genesis -> Payload] /\ tab \in [Tabs -> TabState]
         /\ GoodOverride(override, deployed)
         /\ \A g \in Genesis : GoodSlot(cache[g], g, deployed)
         /\ \A t \in Tabs : GoodTab(tab[t], deployed)
  BY ByParts DEF Parts

-----------------------------------------------------------------------------
LEMMA InitInv == Init => Inv
<1> SUFFICES ASSUME Init PROVE Inv
  OBVIOUS
<1>1. \A t \in Tabs : GoodTab(tab[t], deployed)
  BY AwayIsGood, Constants DEF Init
<1>2. \A g \in Genesis : GoodSlot(cache[g], g, deployed)
  BY NoCacheType, EmptySnapshot DEF Init, GoodSlot
<1>3. /\ deployed \in 1..Len(Builds)
      /\ GoodOverride(override, deployed)
  BY Constants DEF Init, GoodOverride
<1>4. cache \in [Genesis -> Payload] /\ tab \in [Tabs -> TabState]
  BY NoCacheType, AwayType DEF Init
<1>5. QED
  BY <1>1, <1>2, <1>3, <1>4, ByParts DEF Parts

\* A step of one tab that writes neither override nor cache.
LEMMA TabStep ==
  ASSUME Inv, NEW t \in Tabs, NEW s, Becomes(t, s), GoodTab(s, deployed),
         UNCHANGED <<deployed, override, cache>>
  PROVE  Inv'
<1>1. tab' \in [Tabs -> TabState]
  BY InvByParts DEF Becomes, GoodTab
<1>2. \A u \in Tabs : GoodTab(tab'[u], deployed)
  BY InvByParts DEF Becomes
<1>3. \A u \in Tabs : GoodTab(tab[u], deployed)'
  BY <1>2 DEF GoodTab
<1>4. \A g \in Genesis : GoodSlot(cache[g], g, deployed)'
  BY InvByParts DEF GoodSlot
<1>5. GoodOverride(override, deployed)'
  BY InvByParts DEF GoodOverride
<1>6. /\ deployed' \in 1..Len(Builds)
      /\ cache' \in [Genesis -> Payload]
  BY InvByParts
<1>7. QED
  BY <1>1, <1>3, <1>4, <1>5, <1>6, ByParts DEF Parts

\* What the forms and a failed connection change is nobody's business.
LEMMA SameReading ==
  ASSUME Inv, NEW t \in Tabs, NEW s \in TabState,
         s.build = tab[t].build, s.ws = tab[t].ws, s.blocks = tab[t].blocks,
         s.status \in {tab[t].status, "error", "mismatch"}
  PROVE  GoodTab(s, deployed)
<1>1. GoodTab(tab[t], deployed)
  BY InvByParts
<1>2. QED
  BY <1>1 DEF GoodTab

LEMMA FormStep ==
  ASSUME Inv, NEW t \in Tabs, NEW f \in {"closed", "open", "validating"},
         NEW x \in BOOLEAN, NEW e \in Endpoints,
         \/ Becomes(t, [tab[t] EXCEPT !.form = f])
         \/ Becomes(t, [tab[t] EXCEPT !.form = f, !.failed = x])
         \/ Becomes(t, [tab[t] EXCEPT !.form = f, !.failed = x, !.candidate = e]),
         UNCHANGED <<deployed, override, cache>>
  PROVE  Inv'
<1>1. tab[t] \in TabState
  BY InvByParts
<1>2. CASE Becomes(t, [tab[t] EXCEPT !.form = f])
  <2> DEFINE s == [tab[t] EXCEPT !.form = f]
  <2>1. /\ s \in TabState /\ s.build = tab[t].build /\ s.ws = tab[t].ws
        /\ s.blocks = tab[t].blocks /\ s.status = tab[t].status
    BY <1>1 DEF TabState
  <2>2. GoodTab(s, deployed)
    BY <2>1, SameReading
  <2>3. QED
    BY <1>2, <2>2, TabStep
<1>3. CASE Becomes(t, [tab[t] EXCEPT !.form = f, !.failed = x, !.candidate = e])
  <2> DEFINE s == [tab[t] EXCEPT !.form = f, !.failed = x, !.candidate = e]
  <2>1. /\ s \in TabState /\ s.build = tab[t].build /\ s.ws = tab[t].ws
        /\ s.blocks = tab[t].blocks /\ s.status = tab[t].status
    BY <1>1 DEF TabState
  <2>2. GoodTab(s, deployed)
    BY <2>1, SameReading
  <2>3. QED
    BY <1>3, <2>2, TabStep
<1>4. CASE Becomes(t, [tab[t] EXCEPT !.form = f, !.failed = x])
  <2> DEFINE s == [tab[t] EXCEPT !.form = f, !.failed = x]
  <2>1. /\ s \in TabState /\ s.build = tab[t].build /\ s.ws = tab[t].ws
        /\ s.blocks = tab[t].blocks /\ s.status = tab[t].status
    BY <1>1 DEF TabState
  <2>2. GoodTab(s, deployed)
    BY <2>1, SameReading
  <2>3. QED
    BY <1>4, <2>2, TabStep
<1>5. QED
  BY <1>2, <1>3, <1>4

LEMMA LoadKeepsInv == ASSUME Inv, NEW t \in Tabs, Load(t) PROVE Inv'
<1> DEFINE g == Builds[deployed].genesis
           saved == ReadCache(g)
           s == [Away EXCEPT !.open = TRUE, !.build = deployed,
                             !.ws = GetSubtensorWs(deployed),
                             !.blocks = saved.blocks, !.cacheHit = saved.valid]
<1>1. deployed \in 1..Len(Builds) /\ g \in Genesis /\ GoodSlot(cache[g], g, deployed)
  BY InvByParts, Constants
<1>2. saved \in Payload /\ (OneChainThrough(deployed) => IsOf(saved.blocks, g))
  BY <1>1, NoCacheType, EmptySnapshot DEF ReadCache, GoodSlot
<1>3. saved.blocks \in Snapshots /\ saved.valid \in BOOLEAN
  <2>1. CASE saved = NoCache
    BY <2>1, EmptySnapshot DEF NoCache
  <2>2. CASE saved \in [valid : {TRUE}, genesisHash : Genesis, blocks : Snapshots]
    BY <2>2
  <2>3. QED
    BY <1>2, <2>1, <2>2 DEF Payload
<1>4. /\ GetSubtensorWs(deployed) \in Endpoints
      /\ OneChainThrough(deployed) => Serves[GetSubtensorWs(deployed)] = g
  <2>1. GoodOverride(override, deployed)
    BY InvByParts
  <2>2. OneChainThrough(deployed) => g = Builds[1].genesis
    BY <1>1, PinnedThrough
  <2>3. QED
    BY <1>1, <2>1, <2>2, Constants DEF GetSubtensorWs, GoodOverride
<1>5. /\ s \in TabState /\ s.build = deployed /\ s.ws = GetSubtensorWs(deployed)
      /\ s.blocks = saved.blocks /\ s.status = "connecting"
  <2> HIDE DEF saved
  <2>1. QED
    BY <1>1, <1>3, <1>4, AwayType DEF TabState, Away
<1>6. GoodTab(s, deployed)
  <2> HIDE DEF s, saved
  <2>1. s.build <= deployed /\ s.status # "ok"
    BY <1>1, <1>5, Constants
  <2>2. QED
    BY <1>2, <1>4, <1>5, <2>1 DEF GoodTab
<1>7. Becomes(t, s) /\ UNCHANGED <<deployed, override, cache>>
  BY DEF Load
<1>8. QED
  BY <1>6, <1>7, TabStep

LEMMA ConnectKeepsInv ==
  ASSUME Inv, NEW t \in Tabs, Connect(t) \/ ConnectFails(t)
  PROVE  Inv'
<1>1. tab[t] \in TabState /\ GoodTab(tab[t], deployed)
  BY InvByParts
<1>2. CASE ConnectFails(t)
  <2> DEFINE s == [tab[t] EXCEPT !.status = "error"]
  <2>1. /\ s \in TabState /\ s.build = tab[t].build /\ s.ws = tab[t].ws
        /\ s.blocks = tab[t].blocks /\ s.status = "error"
    BY <1>1 DEF TabState
  <2>2. GoodTab(s, deployed)
    BY <2>1, SameReading
  <2>3. QED
    BY <1>2, <2>2, TabStep DEF ConnectFails
<1>3. CASE Connect(t) /\ CheckGenesis(t)
  <2> DEFINE s == [tab[t] EXCEPT !.status = "ok"]
  <2>1. /\ s \in TabState /\ s.build = tab[t].build /\ s.ws = tab[t].ws
        /\ s.blocks = tab[t].blocks /\ s.status = "ok"
    BY <1>1 DEF TabState
  <2>2. GoodTab(s, deployed)
    BY <1>1, <1>3, <2>1 DEF GoodTab, CheckGenesis, Pinned
  <2>3. QED
    BY <1>3, <2>2, TabStep DEF Connect
<1>4. CASE Connect(t) /\ ~CheckGenesis(t)
  <2> DEFINE s == [tab[t] EXCEPT !.status = "mismatch"]
  <2>1. /\ s \in TabState /\ s.build = tab[t].build /\ s.ws = tab[t].ws
        /\ s.blocks = tab[t].blocks /\ s.status = "mismatch"
    BY <1>1 DEF TabState
  <2>2. GoodTab(s, deployed)
    BY <2>1, SameReading
  <2>3. QED
    BY <1>4, <2>2, TabStep DEF Connect
<1>5. QED
  BY <1>2, <1>3, <1>4

LEMMA ScanKeepsInv ==
  ASSUME Inv, NEW t \in Tabs, NEW to \in 1..MaxBlock, Scan(t, to)
  PROVE  Inv'
<1> DEFINE blocks == tab[t].blocks
           base == Len(blocks) + 1
           from == IF tab[t].cacheHit THEN base - SafetyMargin ELSE base
           fresh == [b \in 1..to |-> IF b < from THEN blocks[b] ELSE Serves[tab[t].ws]]
           g == Pinned(t)
           s == [tab[t] EXCEPT !.blocks = fresh]
           p == [valid |-> TRUE, genesisHash |-> g, blocks |-> fresh]
<1>1. tab[t] \in TabState /\ GoodTab(tab[t], deployed)
  BY InvByParts
<1>2. g \in Genesis /\ blocks \in Snapshots /\ tab[t].ws \in Endpoints
  BY <1>1, Constants DEF Pinned, TabState
<1>3. /\ Len(blocks) \in 0..MaxBlock /\ DOMAIN blocks = 1..Len(blocks)
      /\ \A b \in 1..Len(blocks) : blocks[b] \in Genesis
  BY <1>2, SnapshotType
<1>4. /\ tab[t].status \in {"ok", "mismatch"} /\ Becomes(t, s)
      /\ cache' = [cache EXCEPT ![g] = p] \/ UNCHANGED cache
      /\ UNCHANGED <<deployed, override>>
  BY DEF Scan, WriteCache
<1>5. to \in Nat /\ from \in Int /\ from <= Len(blocks) + 1
  BY <1>3, SessionAssumption
<1>6. fresh \in Snapshots
  <2>1. \A b \in 1..to : b < from => b \in 1..Len(blocks)
    BY <1>3, <1>5
  <2>2. fresh \in [1..to -> Genesis]
    BY <1>2, <1>3, <2>1, Constants
  <2>3. to \in 0..MaxBlock
    BY SessionAssumption
  <2>4. QED
    BY <2>2, <2>3 DEF Snapshots
<1>7. /\ tab[t].build <= deployed
      /\ tab[t].status = "ok" => Serves[tab[t].ws] = g
      /\ OneChainThrough(deployed) => Serves[tab[t].ws] = g /\ IsOf(blocks, g)
  BY <1>1 DEF GoodTab, Pinned
<1>8. ASSUME IsOf(blocks, g), Serves[tab[t].ws] = g PROVE IsOf(fresh, g)
  <2>1. \A b \in 1..to : b < from => b \in 1..Len(blocks)
    BY <1>3, <1>5
  <2>2. \A b \in 1..to : fresh[b] = g
    BY <1>3, <1>8, <2>1 DEF IsOf
  <2>3. DOMAIN fresh = 1..to
    OBVIOUS
  <2>4. QED
    BY <2>2, <2>3 DEF IsOf
<1>9. OneChainThrough(deployed) => IsOf(fresh, g)
  BY <1>7, <1>8
<1>10. GoodTab(s, deployed)
  <2> HIDE DEF fresh
  <2>1. /\ s \in TabState /\ s.build = tab[t].build /\ s.ws = tab[t].ws
        /\ s.blocks = fresh /\ s.status = tab[t].status
    BY <1>1, <1>6 DEF TabState
  <2> HIDE DEF s
  <2>2. QED
    BY <1>7, <1>9, <2>1 DEF GoodTab, Pinned
<1>11. GoodSlot(p, g, deployed)
  BY <1>2, <1>6, <1>9 DEF GoodSlot, Payload
<1> HIDE DEF s, p, fresh
<1>12. \A u \in Tabs : GoodTab(tab[u], deployed)'
  <2>1. \A u \in Tabs : GoodTab(tab'[u], deployed)
    BY <1>4, <1>10, InvByParts DEF Becomes
  <2>2. QED
    BY <1>4, <2>1 DEF GoodTab
<1>13. \A h \in Genesis : GoodSlot(cache[h], h, deployed)'
  <2>1. \A h \in Genesis : GoodSlot(cache'[h], h, deployed)
    BY <1>4, <1>11, InvByParts
  <2>2. QED
    BY <1>4, <2>1 DEF GoodSlot
<1>14. tab' \in [Tabs -> TabState] /\ cache' \in [Genesis -> Payload]
  BY <1>4, <1>10, <1>11, InvByParts DEF Becomes, GoodTab, GoodSlot
<1>15. QED
  BY <1>4, <1>12, <1>13, <1>14, InvByParts, ByParts DEF GoodOverride, Parts

\* A page that is left: what it writes on its way out.
LEMMA LeaveKeepsInv ==
  ASSUME Inv, NEW t \in Tabs, Becomes(t, Away), UNCHANGED deployed,
         GoodOverride(override', deployed),
         UNCHANGED cache \/ cache' = [g \in Genesis |-> NoCache]
  PROVE  Inv'
<1>1. GoodTab(Away, deployed)
  BY AwayIsGood, InvByParts
<1>2. \A u \in Tabs : GoodTab(tab'[u], deployed)
  BY <1>1, InvByParts DEF Becomes
<1>3. \A g \in Genesis : GoodSlot(cache'[g], g, deployed)
  BY NoCacheType, EmptySnapshot, InvByParts DEF GoodSlot
<1>4. tab' \in [Tabs -> TabState] /\ cache' \in [Genesis -> Payload]
  BY AwayType, NoCacheType, InvByParts DEF Becomes
<1>5. /\ \A u \in Tabs : GoodTab(tab[u], deployed)'
      /\ \A g \in Genesis : GoodSlot(cache[g], g, deployed)'
      /\ GoodOverride(override, deployed)'
  BY <1>2, <1>3 DEF GoodTab, GoodSlot, GoodOverride
<1>6. QED
  BY <1>4, <1>5, InvByParts, ByParts DEF Parts

LEMMA NextInv == Inv /\ [Next]_vars => Inv'
<1> SUFFICES ASSUME Inv, [Next]_vars PROVE Inv'
  OBVIOUS
<1>1. ASSUME NEW t \in Tabs, Load(t) PROVE Inv'
  BY <1>1, LoadKeepsInv
<1>2. ASSUME NEW t \in Tabs, Connect(t) \/ ConnectFails(t) PROVE Inv'
  BY <1>2, ConnectKeepsInv
<1>3. ASSUME NEW t \in Tabs, NEW to \in 1..MaxBlock, Scan(t, to) PROVE Inv'
  BY <1>3, ScanKeepsInv
<1>4. ASSUME NEW t \in Tabs, OpenForm(t) \/ CloseForm(t) \/ Refused(t) PROVE Inv'
  <2>1. \E f \in {"closed", "open", "validating"} :
          \/ Becomes(t, [tab[t] EXCEPT !.form = f])
          \/ Becomes(t, [tab[t] EXCEPT !.form = f, !.failed = TRUE])
    BY <1>4 DEF OpenForm, CloseForm, Refused
  <2>2. UNCHANGED <<deployed, override, cache>>
    BY <1>4 DEF OpenForm, CloseForm, Refused
  <2>3. Builds[1].ws \in Endpoints
    BY Constants
  <2>4. QED
    BY <2>1, <2>2, <2>3, FormStep
<1>5. ASSUME NEW t \in Tabs, NEW e \in Endpoints, Validate(t, e) PROVE Inv'
  BY <1>5, FormStep DEF Validate
<1>6. ASSUME NEW t \in Tabs, ResetToDefault(t) PROVE Inv'
  <2>1. Default(t) \in Endpoints
    BY InvByParts, Constants DEF Default, TabState
  <2>2. QED
    BY <1>5, <1>6, <2>1 DEF ResetToDefault
<1>7. ASSUME NEW t \in Tabs, Validated(t) PROVE Inv'
  <2>1. tab[t] \in TabState /\ GoodTab(tab[t], deployed)
    BY InvByParts
  <2>2. /\ tab[t].candidate \in Endpoints
        /\ tab[t].build \in 1..Len(Builds) /\ tab[t].build <= deployed
        /\ Serves[tab[t].candidate] = Builds[tab[t].build].genesis
    BY <1>7, <2>1 DEF Validated, IsValidated, Pinned, GoodTab, TabState
  <2>3. GoodOverride(override', deployed)
    BY <1>7, <2>2, PinnedThrough, InvByParts DEF Validated, GoodOverride
  <2>4. QED
    BY <1>7, <2>3, LeaveKeepsInv DEF Validated
<1>8. ASSUME NEW t \in Tabs, ResetCache(t) PROVE Inv'
  BY <1>8, LeaveKeepsInv, InvByParts DEF ResetCache
<1>9. CASE Redeploy
  <2>1. /\ deployed \in 1..Len(Builds) /\ deployed' = deployed + 1
        /\ deployed' \in 1..Len(Builds) /\ UNCHANGED <<override, cache, tab>>
    BY <1>9, InvByParts, Constants DEF Redeploy
  <2>2. OneChainThrough(deployed') => OneChainThrough(deployed)
    BY <2>1 DEF OneChainThrough
  <2>3. \A u \in Tabs : tab[u].build <= deployed => tab[u].build <= deployed'
    <3>1. \A u \in Tabs : tab[u].build \in Nat
      BY InvByParts, Constants DEF TabState
    <3>2. QED
      BY <2>1, <3>1
  <2>4. /\ \A u \in Tabs : GoodTab(tab[u], deployed')
        /\ \A g \in Genesis : GoodSlot(cache[g], g, deployed')
        /\ GoodOverride(override, deployed')
    BY <2>2, <2>3, InvByParts DEF GoodTab, GoodSlot, GoodOverride
  <2>5. /\ \A u \in Tabs : GoodTab(tab[u], deployed)'
        /\ \A g \in Genesis : GoodSlot(cache[g], g, deployed)'
        /\ GoodOverride(override, deployed)'
    BY <2>1, <2>4 DEF GoodTab, GoodSlot, GoodOverride, OneChainThrough
  <2>6. QED
    BY <2>1, <2>5, InvByParts, ByParts DEF Parts
<1>10. CASE UNCHANGED vars
  BY <1>10 DEF vars, Inv, IInv, TypeOK, PinnedChainOnly,
               Pinned
<1>11. QED
  BY <1>1, <1>2, <1>3, <1>4, <1>5, <1>6, <1>7, <1>8, <1>9, <1>10 DEF Next, Save

\* The inductive invariant: what every tab and every slot satisfies by itself.
THEOREM TabsAndSlotsAreGood == Spec => []IInv
<1>1. Inv => IInv
  BY DEF Inv
<1>2. QED
  BY <1>1, InitInv, NextInv, PTL DEF Spec

\* As long as the deployments pin one chain, it is the only one that any tab
\* shows or caches, whatever the settings forms do.
THEOREM NothingForeignIsRead == Spec => []PinnedChainOnly
<1>1. Inv => PinnedChainOnly
  BY DEF Inv
<1>2. QED
  BY <1>1, InitInv, NextInv, PTL DEF Spec
=============================================================================
