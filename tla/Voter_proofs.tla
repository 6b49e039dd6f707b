---------------------------- MODULE Voter_proofs ----------------------------
(***************************************************************************)
(* Proofs about Voter, for any number of devices of either program, any     *)
(* chain length and any number of mishaps.                                  *)
(***************************************************************************)
EXTENDS Voter, TLAPS

LEMMA ConstantTypes ==
  /\ Keys \subseteq Nat /\ NoKey \notin Keys
  /\ GasWallets \subseteq Nat /\ NoGas \notin GasWallets
  /\ MaxBlock \in Nat /\ MaxBlock # 0 /\ MaxMishaps \in Nat
BY VoterAssumption DEF NoKey, NoGas

-----------------------------------------------------------------------------
(* Values a device works out, and how its tab changes.                      *)

Tabs == [Devices -> [step : Steps, msg : Remark]]

LEMMA BlankTypes ==
  ASSUME NEW c \in Devices
  PROVE  /\ Blank(c) = Tab("pick", Message(c, "clear", NoKey, NoGas, 0))
         /\ Message(c, "clear", NoKey, NoGas, 0) \in Remark
         /\ Blank(c) \in [step : Steps, msg : Remark]
<1>1. Message(c, "clear", NoKey, NoGas, 0) \in Remark
  BY ConstantTypes DEF Message, Remark
<1>2. "pick" \in Steps
  BY DEF Steps
<1>3. QED
  BY <1>1, <1>2 DEF Blank, Tab

LEMMA GoTypes ==
  ASSUME TypeOK, NEW c \in Devices, NEW s \in Steps, Go(c, s)
  PROVE  tab' \in Tabs
BY DEF TypeOK, Go, Tabs

LEMMA EndTypes ==
  ASSUME TypeOK, NEW c \in Devices, NEW s \in Steps, End(c, s)
  PROVE  tab' \in Tabs
<1>1. [Blank(c) EXCEPT !.step = s] \in [step : Steps, msg : Remark]
  BY BlankTypes
<1>2. QED
  BY <1>1 DEF TypeOK, End, Tabs

LEMMA PutTypes ==
  ASSUME TypeOK, NEW c \in Devices, NEW s \in Steps, NEW m \in Remark,
         tab' = [tab EXCEPT ![c] = Tab(s, m)]
  PROVE  tab' \in Tabs
BY DEF TypeOK, Tab, Tabs

LEMMA SendTypes ==
  ASSUME TypeOK, NEW c \in Devices, NEW m \in Remark, SendFromRealWallet(c, m)
  PROVE  tab' \in Tabs /\ pool' \in SUBSET Remark
<1>1. "approving" \in Steps /\ "sending" \in Steps
  BY DEF Steps
<1>2. tab' \in Tabs
  BY <1>1, PutTypes DEF SendFromRealWallet, AskWallet, SignAndSend
<1>3. QED
  BY <1>2 DEF SendFromRealWallet, AskWallet, SignAndSend, TypeOK

LEMMA ChainGrows ==
  ASSUME TypeOK, NEW m \in pool, Include(m)
  PROVE  /\ m \in Remark /\ NextBlock \in 1..MaxBlock
         /\ chain' \in Seq(Landed)
         /\ Len(chain') = Len(chain) + 1
         /\ chain'[Len(chain')].m = m
         /\ \A i \in DOMAIN chain : i \in DOMAIN chain' /\ chain'[i] = chain[i]
         /\ \A i \in DOMAIN chain' : i \in DOMAIN chain \/ i = Len(chain')
<1>1. m \in Remark /\ NextBlock \in 1..MaxBlock
  BY ConstantTypes DEF TypeOK, NextBlock
<1>2. [m |-> m, block |-> NextBlock] \in Landed
  BY <1>1 DEF Landed
<1>3. QED
  BY <1>1, <1>2 DEF TypeOK, Include

\* The steps of the faucet and of the voter's money that no page notices.
Unnoticed ==
  \/ FaucetFails
  \/ \E p \in paying : PayLost(p)
  \/ \E c \in Devices : FundByHand(c)

LEMMA UnnoticedFrame ==
  Unnoticed => UNCHANGED <<head, start, chain, pool, vk, gas, scanned, tab>>
  BY DEF Unnoticed, FaucetFails, PayLost, FundByHand, ledger, store

-----------------------------------------------------------------------------
(* Types.                                                                   *)

LEMMA TypeInit == Init => TypeOK
<1> SUFFICES ASSUME Init PROVE TypeOK
  OBVIOUS
<1>1. tab \in Tabs
  BY BlankTypes DEF Init, Tabs
<1>2. QED
  BY <1>1, ConstantTypes DEF Init, TypeOK, NoBlock, Tabs

LEMMA TypeStep == IInv /\ [Next]_vars => TypeOK'
<1> SUFFICES ASSUME TypeOK, VotesUseStoredGas, [Next]_vars PROVE TypeOK'
  BY DEF IInv
<1> USE ConstantTypes
<1>1. CASE Seal
  BY <1>1 DEF Seal, TypeOK, store, faucet
<1>2. CASE OpenVoting
  BY <1>2 DEF OpenVoting, TypeOK, store, faucet
<1>3. ASSUME NEW m \in pool, Include(m) PROVE TypeOK'
  <2>1. m \in Remark /\ m.by \in Devices
    BY <1>3 DEF TypeOK, Remark
  <2>2. tab' \in Tabs
    BY <1>3, <2>1 DEF Include, Steps, TypeOK, Tabs
  <2>3. chain' \in Seq(Landed)
    BY <1>3, ChainGrows
  <2>4. QED
    BY <1>3, <2>2, <2>3 DEF Include, TypeOK, Tabs, store, faucet
<1>4. ASSUME NEW m \in pool, Drop(m) PROVE TypeOK'
  BY <1>4 DEF Drop, Mishap, TypeOK, store, faucet, ledger
<1>5. ASSUME NEW p \in paying, Pay(p) PROVE TypeOK'
  <2>1. \A c \in Devices : AfterDrip(c, "ok") \in Steps
    BY DEF AfterDrip, Steps
  <2>2. tab' \in Tabs
    BY <1>5, <2>1 DEF Pay, TypeOK, Tabs
  <2>3. QED
    BY <1>5, <2>2 DEF Pay, TypeOK, Tabs, store, ledger, Payment
<1>6. ASSUME NEW p \in paying, PayFails(p) PROVE TypeOK'
  <2>1. \A c \in Devices : AfterDrip(c, "unavailable") \in Steps
    BY DEF AfterDrip, Steps
  <2>2. tab' \in Tabs
    BY <1>6, <2>1 DEF PayFails, TypeOK, Tabs
  <2>3. QED
    BY <1>6, <2>2 DEF PayFails, Mishap, TypeOK, Tabs, store, ledger
<1>7. ASSUME NEW c \in Devices, SendFails(c) PROVE TypeOK'
  <2>1. tab' \in Tabs
    <3>1. "error" \in Steps
      BY DEF Steps
    <3>2. QED
      BY <1>7, <3>1, EndTypes DEF SendFails
  <2>2. QED
    BY <1>7, <2>1 DEF SendFails, Mishap, TypeOK, Tabs, store, ledger, faucet
<1>8. ASSUME NEW c \in Devices, Scan(c) PROVE TypeOK'
  BY <1>8 DEF Scan, TypeOK, store, ledger, faucet
<1>9. ASSUME NEW c \in Devices, Reload(c) PROVE TypeOK'
  <2>1. tab' \in Tabs
    BY <1>9, BlankTypes DEF Reload, Tabs, TypeOK
  <2>2. QED
    BY <1>9, <2>1 DEF Reload, Mishap, TypeOK, Tabs, store, ledger, faucet
<1>10. ASSUME NEW c \in Devices, Return(c) PROVE TypeOK'
  <2>1. tab' \in Tabs
    BY <1>10, BlankTypes DEF Return, Tabs, TypeOK
  <2>2. QED
    BY <1>10, <2>1 DEF Return, TypeOK, Tabs, store, ledger, faucet
<1>11. ASSUME NEW c \in Devices, Register(c) PROVE TypeOK'
  <2>1. PICK k \in Keys : /\ vk' = [vk EXCEPT ![c] = k]
                          /\ SendFromRealWallet(c, Message(c, "announce", k, NoGas, 0))
    BY <1>11 DEF Register, KeyFor, FreshKeys, TypeOK
  <2>2. Message(c, "announce", k, NoGas, 0) \in Remark
    BY DEF Message, Remark
  <2>3. tab' \in Tabs /\ pool' \in SUBSET Remark
    BY <2>1, <2>2, SendTypes
  <2>4. QED
    BY <1>11, <2>1, <2>3 DEF Register, TypeOK, Tabs, ledger, faucet
<1>12. ASSUME NEW c \in Devices, Approve(c) PROVE TypeOK'
  <2>1. tab' \in Tabs
    <3>1. "sending" \in Steps
      BY DEF Steps
    <3>2. QED
      BY <1>12, <3>1, GoTypes DEF Approve
  <2>2. QED
    BY <1>12, <2>1 DEF Approve, TypeOK, Tabs, store, ledger, faucet
<1>13. ASSUME NEW c \in Devices, Refuse(c) PROVE TypeOK'
  <2>1. tab' \in Tabs
    <3>1. "error" \in Steps
      BY DEF Steps
    <3>2. QED
      BY <1>13, <3>1, EndTypes DEF Refuse
  <2>2. QED
    BY <1>13, <2>1 DEF Refuse, Mishap, TypeOK, Tabs, store, ledger, faucet
<1>14. ASSUME NEW c \in Devices, Cast(c) PROVE TypeOK'
  <2>1. gas' \in [Devices -> GasWallets \cup {NoGas}]
    BY <1>14 DEF Cast, GasFor, FreshGas, UnusedGas, TypeOK
  <2>2. "error" \in Steps /\ "requesting" \in Steps
    BY DEF Steps
  <2>3. \A g \in GasWallets : Message(c, "vote", vk[c], g, Scanned(c)) \in Remark
    BY DEF Message, Remark, Scanned, TypeOK
  <2>4. tab' \in Tabs
    <3>1. CASE End(c, "error")
      BY <2>2, <3>1, EndTypes
    <3>2. ASSUME NEW g \in GasWallets,
                 tab' = [tab EXCEPT ![c] = Tab("requesting", Message(c, "vote", vk[c], g, Scanned(c)))]
          PROVE  tab' \in Tabs
      BY <2>2, <2>3, <3>2, PutTypes
    <3>3. QED
      BY <1>14, <3>1, <3>2 DEF Cast, GasFor, FreshGas, UnusedGas, TypeOK
  <2>5. QED
    BY <1>14, <2>1, <2>4 DEF Cast, TypeOK, Tabs, ledger, faucet
<1>15. ASSUME NEW c \in Devices, CastClear(c) PROVE TypeOK'
  <2>1. tab' \in Tabs /\ pool' \in SUBSET Remark
    BY <1>15, BlankTypes, SendTypes DEF CastClear
  <2>2. QED
    BY <1>15, <2>1 DEF CastClear, TypeOK, Tabs, store, ledger, faucet
<1>16. ASSUME NEW c \in Devices, DripFails(c) PROVE TypeOK'
  <2>1. \A answer : AfterDrip(c, answer) \in Steps
    BY DEF AfterDrip, Steps
  <2>2. tab' \in Tabs
    BY <1>16, <2>1, GoTypes DEF DripFails
  <2>3. QED
    BY <1>16, <2>2 DEF DripFails, Mishap, TypeOK, Tabs, store, ledger, faucet
<1>17. ASSUME NEW c \in Devices, BalanceTimesOut(c) PROVE TypeOK'
  <2>1. tab' \in Tabs
    <3>1. "error" \in Steps
      BY DEF Steps
    <3>2. QED
      BY <1>17, <3>1, EndTypes DEF BalanceTimesOut
  <2>2. QED
    BY <1>17, <2>1 DEF BalanceTimesOut, Mishap, TypeOK, Tabs, store, ledger, faucet
<1>18. ASSUME NEW c \in Devices, Drip(c) PROVE TypeOK'
  <2>1. \A answer : AfterDrip(c, answer) \in Steps /\ "funding" \in Steps
    BY DEF AfterDrip, Steps
  <2>2. tab' \in Tabs
    BY <1>18, <2>1, GoTypes DEF Drip
  <2>3. dripped' \in SUBSET Keys /\ paying' \in SUBSET Payment
    <3>1. tab[c].msg.key \in Keys /\ tab[c].msg.gas \in GasWallets
      BY <1>18 DEF Drip, VotesUseStoredGas, PaidFromStore
    <3>2. [key |-> tab[c].msg.key, gas |-> tab[c].msg.gas] \in Payment
      BY <3>1 DEF Payment
    <3>3. QED
      BY <1>18, <3>1, <3>2 DEF Drip, TypeOK
  <2>4. QED
    BY <1>18, <2>2, <2>3 DEF Drip, TypeOK, Tabs, store, ledger
<1>19. ASSUME NEW c \in Devices, AnnounceLanded(c) PROVE TypeOK'
  <2>1. "done" \in Steps /\ "waiting" \in Steps
    BY DEF Steps
  <2>2. ASSUME NEW b \in 0..MaxBlock,
               tab' = [tab EXCEPT ![c].step = "waiting", ![c].msg.rb = b]
        PROVE  tab' \in Tabs
    <3>1. tab[c] \in [step : Steps, msg : Remark]
      BY DEF TypeOK
    <3>2. [tab[c].msg EXCEPT !.rb = b] \in Remark
      BY <3>1 DEF Remark
    <3>3. tab' = [tab EXCEPT ![c] = [[tab[c] EXCEPT !.step = "waiting"] EXCEPT !.msg.rb = b]]
      BY <2>2 DEF TypeOK
    <3>4. [[tab[c] EXCEPT !.step = "waiting"] EXCEPT !.msg.rb = b] \in [step : Steps, msg : Remark]
      BY <2>1, <3>1, <3>2
    <3>5. QED
      BY <3>3, <3>4 DEF TypeOK, Tabs
  <2>3. ASSUME NEW i \in DOMAIN chain PROVE chain[i].block \in 0..MaxBlock
    <3>1. chain[i] \in Landed
      BY DEF TypeOK
    <3>2. QED
      BY <3>1 DEF Landed
  <2>4. tab' \in Tabs
    BY <1>19, <2>1, <2>2, <2>3, EndTypes DEF AnnounceLanded, CommandEnds
  <2>5. QED
    BY <1>19, <2>4 DEF AnnounceLanded, CommandEnds, TypeOK, Tabs, store, ledger, faucet
<1>20. ASSUME NEW c \in Devices, WaitEnds(c) PROVE TypeOK'
  <2>1. "registered" \in Steps /\ "error" \in Steps
    BY DEF Steps
  <2>2. tab' \in Tabs
    BY <1>20, <2>1, EndTypes DEF WaitEnds
  <2>3. mishaps' \in 0..MaxMishaps
    BY <1>20 DEF WaitEnds, Mishap, TypeOK
  <2>4. QED
    BY <1>20, <2>2, <2>3 DEF WaitEnds, TypeOK, Tabs, store, ledger, faucet
<1>21. ASSUME NEW c \in Devices, Funded(c) PROVE TypeOK'
  <2>1. "sending" \in Steps /\ tab[c].msg \in Remark
    BY DEF Steps, TypeOK
  <2>2. tab' \in Tabs
    BY <1>21, <2>1, GoTypes DEF Funded
  <2>3. QED
    BY <1>21, <2>1, <2>2 DEF Funded, TypeOK, Tabs, store, ledger, faucet
<1>22. ASSUME NEW c \in Devices, VoteLanded(c) PROVE TypeOK'
  <2>1. gas' \in [Devices -> GasWallets \cup {NoGas}]
    BY <1>22 DEF VoteLanded, TypeOK
  <2>2. "done" \in Steps
    BY DEF Steps
  <2>3. tab' \in Tabs
    BY <1>22, <2>2, EndTypes DEF VoteLanded
  <2>4. QED
    BY <1>22, <2>1, <2>3 DEF VoteLanded, TypeOK, Tabs, ledger, faucet
<1>23. CASE UNCHANGED vars
  BY <1>23 DEF vars, TypeOK
<1>24. CASE Unnoticed
  <2>1. UNCHANGED <<head, start, chain, pool, vk, gas, scanned, tab>>
    BY <1>24, UnnoticedFrame
  <2>2. /\ dripped' \in SUBSET Keys /\ paying' \in SUBSET Payment
        /\ lost' \in SUBSET Keys /\ faucetIs' \in {"well", "gapped", "spent"}
    BY <1>24 DEF Unnoticed, FaucetFails, PayLost, FundByHand, TypeOK, Payment
  <2>5. mishaps' \in 0..MaxMishaps
    BY <1>24 DEF Unnoticed, FaucetFails, PayLost, FundByHand, Mishap, TypeOK
  <2>3. funded' \in SUBSET GasWallets
    BY <1>24 DEF Unnoticed, FaucetFails, PayLost, FundByHand, TypeOK,
                 VotesUseStoredGas, PaidFromStore
  <2>4. QED
    BY <2>1, <2>2, <2>3, <2>5 DEF TypeOK
<1>25. QED
  BY <1>1, <1>2, <1>3, <1>4, <1>5, <1>6, <1>7, <1>8, <1>9, <1>10, <1>11, <1>12,
     <1>13, <1>14, <1>15, <1>16, <1>17, <1>18, <1>19, <1>20, <1>21, <1>22, <1>23,
     <1>24
     DEF Next, Runs, Unnoticed

-----------------------------------------------------------------------------
(* What the ways to move a tab do to it.                                    *)

Same(d) == tab'[d] = tab[d]

LEMMA GoTab ==
  ASSUME TypeOK, NEW c \in Devices, NEW s, Go(c, s)
  PROVE  /\ tab'[c].step = s /\ tab'[c].msg = tab[c].msg
         /\ \A d \in Devices \ {c} : Same(d)
BY DEF TypeOK, Go, Same

LEMMA EndTab ==
  ASSUME TypeOK, NEW c \in Devices, NEW s, End(c, s)
  PROVE  /\ tab'[c].step = s /\ tab'[c].msg.by = c /\ tab'[c].msg.kind = "clear"
         /\ \A d \in Devices \ {c} : Same(d)
BY DEF TypeOK, End, Same, Blank, Tab, Message

LEMMA BlankTab ==
  ASSUME TypeOK, NEW c \in Devices, tab' = [tab EXCEPT ![c] = Blank(c)]
  PROVE  /\ tab'[c].step = "pick" /\ tab'[c].msg.by = c /\ tab'[c].msg.kind = "clear"
         /\ \A d \in Devices \ {c} : Same(d)
BY DEF TypeOK, Same, Blank, Tab, Message

LEMMA PutTab ==
  ASSUME TypeOK, NEW c \in Devices, NEW s, NEW m, tab' = [tab EXCEPT ![c] = Tab(s, m)]
  PROVE  /\ tab'[c].step = s /\ tab'[c].msg = m
         /\ \A d \in Devices \ {c} : Same(d)
BY DEF TypeOK, Same, Tab

LEMMA SendTab ==
  ASSUME TypeOK, NEW c \in Devices, NEW m, SendFromRealWallet(c, m)
  PROVE  /\ tab'[c].step \in {"approving", "sending"} /\ tab'[c].msg = m
         /\ \A d \in Devices \ {c} : Same(d)
         /\ pool' \subseteq pool \cup {m}
BY PutTab DEF SendFromRealWallet, AskWallet, SignAndSend

LEMMA WaitingTab ==
  ASSUME TypeOK, NEW c \in Devices, AnnounceLanded(c)
  PROVE  /\ tab'[c].step \in {"done", "waiting"}
         /\ \/ tab'[c].msg.by = c /\ tab'[c].msg.kind = "clear"
            \/ /\ tab'[c].msg.by = tab[c].msg.by /\ tab'[c].msg.key = tab[c].msg.key
               /\ tab'[c].msg.kind = tab[c].msg.kind
         /\ \A d \in Devices \ {c} : Same(d)
<1>1. CASE End(c, "done")
  BY <1>1, EndTab
<1>2. ASSUME NEW b, tab' = [tab EXCEPT ![c].step = "waiting", ![c].msg.rb = b]
      PROVE  /\ tab'[c].step = "waiting"
             /\ tab'[c].msg.by = tab[c].msg.by /\ tab'[c].msg.key = tab[c].msg.key
             /\ tab'[c].msg.kind = tab[c].msg.kind
             /\ \A d \in Devices \ {c} : Same(d)
  <2>1. /\ tab[c] \in [step : Steps, msg : Remark]
        /\ tab[c].msg \in Remark
    BY DEF TypeOK
  <2>2. tab'[c] = [[tab[c] EXCEPT !.step = "waiting"] EXCEPT !.msg.rb = b]
    BY <1>2 DEF TypeOK
  <2>3. /\ tab'[c].step = "waiting"
        /\ tab'[c].msg = [tab[c].msg EXCEPT !.rb = b]
    BY <2>1, <2>2
  <2>4. \A d \in Devices \ {c} : Same(d)
    BY <1>2 DEF TypeOK, Same
  <2>5. QED
    BY <2>1, <2>3, <2>4 DEF Remark
<1>3. QED
  BY <1>1, <1>2 DEF AnnounceLanded, CommandEnds

-----------------------------------------------------------------------------
(* Announced keys stay stored.                                              *)

\* A tab keeps what it announces, or no longer announces.
Announcing(d) ==
  \/ /\ tab'[d].msg.by = tab[d].msg.by /\ tab'[d].msg.key = tab[d].msg.key
     /\ tab'[d].msg.kind = tab[d].msg.kind
  \/ tab'[d].msg.by = d /\ tab'[d].msg.kind # "announce"

LEMMA KeysFrame ==
  ASSUME KeysAreStored, UNCHANGED <<vk, chain>>,
         \A m \in pool' : m \in pool \/ m.kind # "announce" \/ \E c \in Devices : m = tab[c].msg,
         \A d \in Devices : Announcing(d)
  PROVE  KeysAreStored'
<1>1. \A m : Stored(m)' <=> Stored(m)
  BY DEF Stored
<1>2. \A d \in Devices : tab'[d].msg.by = d /\ Stored(tab'[d].msg)
  BY DEF KeysAreStored, Stored, Announcing
<1>3. \A m \in pool' : Stored(m)
  BY DEF KeysAreStored, Stored
<1>4. QED
  BY <1>1, <1>2, <1>3 DEF KeysAreStored

LEMMA KeysStep == TypeOK /\ KeysAreStored /\ [Next]_vars => KeysAreStored'
<1> SUFFICES ASSUME TypeOK, KeysAreStored, [Next]_vars PROVE KeysAreStored'
  OBVIOUS
<1>1. CASE Seal \/ OpenVoting \/ UNCHANGED vars
  BY <1>1, KeysFrame DEF Seal, OpenVoting, vars, store, Announcing
<1>2. ASSUME NEW m \in pool, Include(m) PROVE KeysAreStored'
  <2>1. \A i \in DOMAIN chain' : Stored(chain'[i].m)
    BY <1>2, ChainGrows DEF KeysAreStored
  <2>2. \A d \in Devices : tab'[d].msg = tab[d].msg
    BY <1>2 DEF Include, TypeOK
  <2>3. vk' = vk /\ pool' \subseteq pool
    BY <1>2 DEF Include, store
  <2>4. \A n : Stored(n)' <=> Stored(n)
    BY <2>3 DEF Stored
  <2>5. QED
    BY <2>1, <2>2, <2>3, <2>4 DEF KeysAreStored
<1>3. ASSUME NEW m \in pool, Drop(m) PROVE KeysAreStored'
  BY <1>3, KeysFrame DEF Drop, store, ledger, Announcing
<1>4. ASSUME NEW p \in paying, Pay(p) \/ PayFails(p) PROVE KeysAreStored'
  <2>1. ASSUME NEW d \in Devices PROVE tab'[d].msg = tab[d].msg
    <3>1. tab[d] \in [step : Steps, msg : Remark]
      BY DEF TypeOK
    <3>2. tab'[d] = tab[d] \/ \E s : tab'[d] = [tab[d] EXCEPT !.step = s]
      BY <1>4 DEF Pay, PayFails
    <3>3. QED
      BY <3>1, <3>2
  <2>2. QED
    BY <1>4, <2>1, KeysFrame DEF Pay, PayFails, store, ledger, Announcing
<1>5. ASSUME NEW c \in Devices, Scan(c) PROVE KeysAreStored'
  BY <1>5, KeysFrame DEF Scan, store, ledger, Announcing
<1>6. ASSUME NEW c \in Devices, SendFails(c) \/ Refuse(c) \/ BalanceTimesOut(c) \/ WaitEnds(c) \/ VoteLanded(c)
      PROVE  KeysAreStored'
  <2>1. \E s \in Steps : End(c, s)
    BY <1>6 DEF SendFails, Refuse, BalanceTimesOut, WaitEnds, VoteLanded, Steps
  <2>2. \A d \in Devices : Announcing(d)
    BY <2>1, EndTab DEF Same, Announcing
  <2>3. UNCHANGED <<vk, chain>> /\ pool' \subseteq pool
    BY <1>6 DEF SendFails, Refuse, BalanceTimesOut, WaitEnds, VoteLanded, store, ledger
  <2>4. QED
    BY <2>2, <2>3, KeysFrame
<1>7. ASSUME NEW c \in Devices, Reload(c) \/ Return(c) PROVE KeysAreStored'
  <2>1. \A d \in Devices : Announcing(d)
    BY <1>7, BlankTab DEF Reload, Return, Same, Announcing
  <2>2. QED
    BY <1>7, <2>1, KeysFrame DEF Reload, Return, store, ledger
<1>8. ASSUME NEW c \in Devices, Register(c) PROVE KeysAreStored'
  <2>1. PICK k \in Keys : /\ vk[c] # NoKey => k = vk[c]
                          /\ vk' = [vk EXCEPT ![c] = k]
                          /\ SendFromRealWallet(c, Message(c, "announce", k, NoGas, 0))
    BY <1>8 DEF Register, KeyFor, FreshKeys, TypeOK
  <2> DEFINE m == Message(c, "announce", k, NoGas, 0)
  <2>2. m.by = c /\ m.kind = "announce" /\ m.key = k
    BY DEF Message
  <2>3. k # NoKey /\ vk'[c] = k /\ \A d \in Devices \ {c} : vk'[d] = vk[d]
    BY <2>1, ConstantTypes DEF TypeOK
  <2>4. ASSUME NEW n, Stored(n), n.by \in Devices PROVE Stored(n)'
    BY <2>1, <2>3, <2>4 DEF Stored
  <2>5. Stored(m)'
    BY <2>2, <2>3 DEF Stored
  <2>6. \A i \in DOMAIN chain : chain[i].m.by \in Devices
    <3>1. \A i \in DOMAIN chain : chain[i] \in Landed
      BY DEF TypeOK
    <3>2. QED
      BY <3>1 DEF Landed, Remark
  <2>7. \A n \in pool : n.by \in Devices
    BY DEF TypeOK, Remark
  <2>8. chain' = chain
    BY <1>8 DEF Register, ledger
  <2>9. /\ tab'[c].msg = m /\ pool' \subseteq pool \cup {m}
        /\ \A d \in Devices \ {c} : Same(d)
    BY <2>1, SendTab
  <2>10. \A n \in pool' : Stored(n)'
    BY <2>4, <2>5, <2>7, <2>9 DEF KeysAreStored
  <2>11. ASSUME NEW i \in DOMAIN chain PROVE Stored(chain[i].m)'
    <3>1. Stored(chain[i].m) /\ chain[i].m.by \in Devices
      BY <2>6 DEF KeysAreStored
    <3>2. QED
      BY <2>3, <2>8, <3>1, <2>1 DEF Stored
  <2>12. ASSUME NEW d \in Devices PROVE (tab[d].msg.by = d /\ Stored(tab[d].msg))'
    <3>1. CASE d = c
      BY <2>2, <2>3, <2>9, <3>1 DEF Stored
    <3>2. CASE d # c
      BY <2>3, <2>9, <3>2 DEF KeysAreStored, Stored, Same
    <3>3. QED
      BY <3>1, <3>2
  <2>13. QED
    BY <2>8, <2>10, <2>11, <2>12 DEF KeysAreStored
<1>9. ASSUME NEW c \in Devices, Approve(c) \/ DripFails(c) \/ Drip(c) \/ Funded(c) PROVE KeysAreStored'
  <2>1. \E s : Go(c, s)
    BY <1>9 DEF Approve, DripFails, Drip, Funded
  <2>2. \A d \in Devices : Announcing(d)
    BY <2>1, GoTab DEF Same, Announcing
  <2>3. UNCHANGED <<vk, chain>> /\ pool' \subseteq pool \cup {tab[c].msg}
    BY <1>9 DEF Approve, DripFails, Drip, Funded, store, ledger
  <2>4. QED
    BY <2>2, <2>3, KeysFrame
<1>10. ASSUME NEW c \in Devices, Cast(c) PROVE KeysAreStored'
  <2>1. \/ End(c, "error")
        \/ \E g : tab' = [tab EXCEPT ![c] = Tab("requesting", Message(c, "vote", vk[c], g, Scanned(c)))]
    BY <1>10 DEF Cast
  <2>2. \A d \in Devices : Announcing(d)
    <3>1. CASE End(c, "error")
      BY <3>1, EndTab DEF Same, Announcing
    <3>2. ASSUME NEW g, tab' = [tab EXCEPT ![c] = Tab("requesting", Message(c, "vote", vk[c], g, Scanned(c)))]
          PROVE  \A d \in Devices : Announcing(d)
      <4>1. /\ tab'[c].msg = Message(c, "vote", vk[c], g, Scanned(c))
            /\ \A d \in Devices \ {c} : Same(d)
        BY <3>2, PutTab
      <4>2. tab'[c].msg.by = c /\ tab'[c].msg.kind = "vote"
        BY <4>1 DEF Message
      <4>3. QED
        BY <4>1, <4>2 DEF Same, Announcing
    <3>3. QED
      BY <2>1, <3>1, <3>2
  <2>3. QED
    BY <1>10, <2>2, KeysFrame DEF Cast, ledger
<1>11. ASSUME NEW c \in Devices, CastClear(c) PROVE KeysAreStored'
  <2> DEFINE m == Message(c, "clear", NoKey, NoGas, 0)
  <2>1. m.by = c /\ m.kind = "clear"
    BY DEF Message
  <2>2. /\ tab'[c].msg = m /\ pool' \subseteq pool \cup {m}
        /\ \A d \in Devices \ {c} : Same(d)
    BY <1>11, SendTab DEF CastClear
  <2>3. QED
    BY <1>11, <2>1, <2>2, KeysFrame DEF CastClear, Same, Announcing, store, ledger
<1>12. ASSUME NEW c \in Devices, AnnounceLanded(c) PROVE KeysAreStored'
  BY <1>12, WaitingTab, KeysFrame DEF AnnounceLanded, CommandEnds, Same, Announcing, store, ledger
<1>13. CASE Unnoticed
  BY <1>13, UnnoticedFrame, KeysFrame DEF Announcing
<1>14. QED
  BY <1>1, <1>2, <1>3, <1>4, <1>5, <1>6, <1>7, <1>8, <1>9, <1>10, <1>11, <1>12, <1>13
  DEF Next, Runs, Unnoticed

-----------------------------------------------------------------------------
(* Votes are paid for by the stored wallet, and funded wallets are kept.    *)

ChainKept == \A i \in DOMAIN chain : i \in DOMAIN chain' /\ chain'[i].m = chain[i].m

LEMMA OtherDevices ==
  ASSUME ChainKept, NEW d \in Devices, PaidFromStore(d), Same(d), gas'[d] = gas[d]
  PROVE  PaidFromStore(d)'
BY DEF ChainKept, Same, PaidFromStore

LEMMA NothingPending ==
  ASSUME NEW d \in Devices, tab'[d].step \notin Pending
  PROVE  PaidFromStore(d)'
BY DEF PaidFromStore, Pending

LEMMA NoVotePending ==
  ASSUME NEW d \in Devices, tab'[d].step \in {"approving", "sending"},
         tab'[d].msg.kind # "vote"
  PROVE  PaidFromStore(d)'
BY DEF PaidFromStore

LEMMA VoteGoesOn ==
  ASSUME NEW d \in Devices, PaidFromStore(d), gas'[d] = gas[d],
         tab'[d].msg = tab[d].msg,
         \/ /\ tab[d].step \in {"requesting", "funding", "gas-fund"}
            /\ tab'[d].step \in {"funding", "gas-fund", "sending", "error"}
         \/ tab[d].step = "approving" /\ tab'[d].step = "sending"
  PROVE  PaidFromStore(d)'
BY DEF PaidFromStore, Pending

LEMMA GasStep == TypeOK /\ VotesUseStoredGas /\ [Next]_vars => VotesUseStoredGas'
<1> SUFFICES ASSUME TypeOK, VotesUseStoredGas, [Next]_vars, NEW d \in Devices
             PROVE  PaidFromStore(d)'
  BY DEF VotesUseStoredGas
<1> PaidFromStore(d)
  BY DEF VotesUseStoredGas
<1>1. CASE Seal \/ OpenVoting \/ UNCHANGED vars
  BY <1>1, OtherDevices DEF Seal, OpenVoting, vars, store, ChainKept, Same
<1>2. ASSUME NEW m \in pool, Include(m) PROVE PaidFromStore(d)'
  <2>1. ChainKept /\ \E i \in DOMAIN chain' : chain'[i].m = m
    <3>1. chain \in Seq(Landed) /\ chain' \in Seq(Landed) /\ Len(chain') = Len(chain) + 1
      BY <1>2, ChainGrows DEF TypeOK
    <3>2. Len(chain') \in DOMAIN chain' /\ chain'[Len(chain')].m = m
      BY <1>2, <3>1, ChainGrows
    <3>3. \A i \in DOMAIN chain : i \in DOMAIN chain' /\ chain'[i] = chain[i]
      BY <1>2, ChainGrows
    <3>4. QED
      BY <3>2, <3>3 DEF ChainKept
  <2>2. gas' = gas
    BY <1>2 DEF Include, store
  <2>3. CASE tab[d] = Tab("sending", m) /\ m.by = d
    <3>1. tab'[d].step = "included" /\ tab'[d].msg = m
      BY <1>2, <2>3 DEF Include, TypeOK, Tab
    <3>2. m.kind = "vote" => m.gas = gas[d]
      BY <2>3 DEF PaidFromStore, Tab, Pending
    <3>3. QED
      BY <2>1, <2>2, <3>1, <3>2 DEF PaidFromStore
  <2>4. CASE ~(tab[d] = Tab("sending", m) /\ m.by = d)
    <3>1. Same(d)
      BY <1>2, <2>4 DEF Include, TypeOK, Same
    <3>2. QED
      BY <2>1, <2>2, <3>1, OtherDevices
  <2>5. QED
    BY <2>3, <2>4
<1>3. ASSUME NEW m \in pool, Drop(m) PROVE PaidFromStore(d)'
  BY <1>3, OtherDevices DEF Drop, store, ledger, ChainKept, Same
<1>4. ASSUME NEW p \in paying, Pay(p) \/ PayFails(p) PROVE PaidFromStore(d)'
  <2>1. gas' = gas /\ chain' = chain
    BY <1>4 DEF Pay, PayFails, store, ledger
  <2>2. CASE Same(d)
    BY <2>1, <2>2, OtherDevices DEF ChainKept
  <2>3. CASE ~Same(d)
    <3>1. tab[d] \in [step : Steps, msg : Remark]
      BY DEF TypeOK
    <3>2. PICK answer \in {"ok", "unavailable"} :
            tab[d].step = "funding" /\ tab'[d] = [tab[d] EXCEPT !.step = AfterDrip(d, answer)]
      BY <1>4, <2>3 DEF Pay, PayFails, Same
    <3>3. AfterDrip(d, answer) \in {"gas-fund", "error"}
      BY DEF AfterDrip
    <3>4. tab'[d].msg = tab[d].msg /\ tab'[d].step \in {"gas-fund", "error"}
      BY <3>1, <3>2, <3>3
    <3>5. QED
      BY <2>1, <3>2, <3>4, VoteGoesOn
  <2>4. QED
    BY <2>2, <2>3
<1>5. ASSUME NEW c \in Devices, Scan(c) PROVE PaidFromStore(d)'
  BY <1>5, OtherDevices DEF Scan, store, ledger, ChainKept, Same
<1>6. ASSUME NEW c \in Devices, SendFails(c) \/ Refuse(c) \/ BalanceTimesOut(c) \/ WaitEnds(c)
      PROVE  PaidFromStore(d)'
  <2>1. PICK s \in {"error", "registered"} : End(c, s)
    BY <1>6 DEF SendFails, Refuse, BalanceTimesOut, WaitEnds
  <2>2. gas' = gas /\ chain' = chain
    BY <1>6 DEF SendFails, Refuse, BalanceTimesOut, WaitEnds, store, ledger
  <2>3. QED
    BY <2>1, <2>2, EndTab, OtherDevices, NothingPending DEF ChainKept, Pending
<1>7. ASSUME NEW c \in Devices, VoteLanded(c) PROVE PaidFromStore(d)'
  <2>1. End(c, "done") /\ chain' = chain /\ (d # c => gas'[d] = gas[d])
    BY <1>7 DEF VoteLanded, ledger, TypeOK
  <2>2. QED
    BY <2>1, EndTab, OtherDevices, NothingPending DEF ChainKept, Pending
<1>8. ASSUME NEW c \in Devices, Reload(c) \/ Return(c) PROVE PaidFromStore(d)'
  <2>1. gas' = gas /\ chain' = chain /\ tab' = [tab EXCEPT ![c] = Blank(c)]
    BY <1>8 DEF Reload, Return, store, ledger
  <2>2. QED
    BY <2>1, BlankTab, OtherDevices, NothingPending DEF ChainKept, Pending
<1>9. ASSUME NEW c \in Devices, Register(c) \/ CastClear(c) PROVE PaidFromStore(d)'
  <2>1. PICK m : SendFromRealWallet(c, m) /\ m.kind # "vote"
    <3>1. \A k : Message(c, "announce", k, NoGas, 0).kind # "vote"
      BY DEF Message
    <3>2. Message(c, "clear", NoKey, NoGas, 0).kind # "vote"
      BY DEF Message
    <3>3. QED
      BY <1>9, <3>1, <3>2 DEF Register, CastClear
  <2>2. gas' = gas /\ chain' = chain
    BY <1>9 DEF Register, CastClear, store, ledger
  <2>3. QED
    BY <2>1, <2>2, SendTab, OtherDevices, NoVotePending DEF ChainKept
<1>10. ASSUME NEW c \in Devices, Approve(c) \/ DripFails(c) \/ Drip(c) \/ Funded(c)
       PROVE  PaidFromStore(d)'
  <2>1. gas' = gas /\ chain' = chain
    BY <1>10 DEF Approve, DripFails, Drip, Funded, store, ledger
  <2>2. PICK s : /\ Go(c, s)
                 /\ \/ /\ tab[c].step \in {"requesting", "funding", "gas-fund"}
                       /\ s \in {"funding", "gas-fund", "sending", "error"}
                    \/ tab[c].step = "approving" /\ s = "sending"
    BY <1>10 DEF Approve, DripFails, Drip, Funded, AfterDrip
  <2>3. QED
    BY <2>1, <2>2, GoTab, OtherDevices, VoteGoesOn DEF ChainKept
<1>11. ASSUME NEW c \in Devices, Cast(c) PROVE PaidFromStore(d)'
  <2>1. chain' = chain /\ (d # c => gas'[d] = gas[d])
    BY <1>11 DEF Cast, ledger, TypeOK
  <2>2. CASE End(c, "error")
    BY <2>1, <2>2, EndTab, OtherDevices, NothingPending DEF ChainKept, Pending
  <2>3. ASSUME NEW g \in GasWallets, gas' = [gas EXCEPT ![c] = g],
               tab' = [tab EXCEPT ![c] = Tab("requesting", Message(c, "vote", vk[c], g, Scanned(c)))]
        PROVE  PaidFromStore(d)'
    <3>1. /\ tab'[c].step = "requesting" /\ \A e \in Devices \ {c} : Same(e)
          /\ tab'[c].msg = Message(c, "vote", vk[c], g, Scanned(c))
      BY <2>3, PutTab
    <3>2. vk[c] \in Keys
      BY <1>11 DEF Cast, MayVote, TypeOK
    <3>3. gas'[c] = g
      BY <2>3 DEF TypeOK
    <3>4. tab'[c].msg.kind = "vote" /\ tab'[c].msg.key = vk[c] /\ tab'[c].msg.gas = g
      BY <3>1 DEF Message
    <3>5. PaidFromStore(c)'
      BY <3>1, <3>2, <3>3, <3>4 DEF PaidFromStore
    <3>6. QED
      BY <2>1, <3>1, <3>5, OtherDevices DEF ChainKept
  <2>4. QED
    BY <1>11, <2>2, <2>3 DEF Cast, GasFor, FreshGas, UnusedGas, TypeOK
<1>12. ASSUME NEW c \in Devices, AnnounceLanded(c) PROVE PaidFromStore(d)'
  <2>1. gas' = gas /\ chain' = chain
    BY <1>12 DEF AnnounceLanded, CommandEnds, store, ledger
  <2>2. QED
    BY <1>12, <2>1, WaitingTab, OtherDevices, NothingPending DEF ChainKept, Pending
<1>13. CASE Unnoticed
  BY <1>13, UnnoticedFrame, OtherDevices DEF ChainKept, Same
<1>14. QED
  BY <1>1, <1>2, <1>3, <1>4, <1>5, <1>6, <1>7, <1>8, <1>9, <1>10, <1>11, <1>12, <1>13
  DEF Next, Runs, Unnoticed

\* A wallet leaves a store only when its vote has landed.
LEMMA WalletsStay ==
  ASSUME ChainKept, NEW g \in GasWallets, Kept(g),
         \A c \in Devices : \/ gas'[c] = gas[c]
                            \/ gas[c] \notin GasWallets
                            \/ \E i \in DOMAIN chain : /\ chain[i].m.kind = "vote"
                                                       /\ chain[i].m.gas = gas[c]
  PROVE  Kept(g)'
BY DEF ChainKept, Kept

LEMMA KeptStep ==
  TypeOK /\ VotesUseStoredGas /\ FundedGasIsKept /\ [Next]_vars => FundedGasIsKept'
<1> SUFFICES ASSUME TypeOK, VotesUseStoredGas, FundedGasIsKept, [Next]_vars
             PROVE  FundedGasIsKept'
  OBVIOUS
<1>1. \A g \in funded \cup {p.gas : p \in paying} : g \in GasWallets /\ Kept(g)
  BY DEF FundedGasIsKept, TypeOK, Payment
<1>2. ASSUME ChainKept, gas' = gas, NEW g \in GasWallets, Kept(g) PROVE Kept(g)'
  BY <1>2, WalletsStay
<1>3. ASSUME UNCHANGED <<chain, gas, funded, paying>> PROVE FundedGasIsKept'
  BY <1>3 DEF FundedGasIsKept, Kept
<1>4. CASE Seal \/ OpenVoting \/ UNCHANGED vars
  BY <1>3, <1>4 DEF Seal, OpenVoting, vars, store, faucet
<1>5. ASSUME NEW m \in pool, Include(m) PROVE FundedGasIsKept'
  <2>1. ChainKept
    BY <1>5, ChainGrows DEF ChainKept
  <2>2. UNCHANGED <<gas, funded, paying>>
    BY <1>5 DEF Include, store, faucet
  <2>3. QED
    BY <1>1, <1>2, <2>1, <2>2 DEF FundedGasIsKept
<1>6. ASSUME NEW m \in pool, Drop(m) PROVE FundedGasIsKept'
  BY <1>3, <1>6 DEF Drop, store, ledger, faucet
<1>7. ASSUME NEW p \in paying, Pay(p) \/ PayFails(p) PROVE FundedGasIsKept'
  <2>1. gas' = gas /\ chain' = chain
    BY <1>7 DEF Pay, PayFails, store, ledger
  <2>2. /\ funded' \subseteq funded \cup {p.gas}
        /\ paying' \subseteq paying
    BY <1>7 DEF Pay, PayFails
  <2>3. \A g \in funded' \cup {q.gas : q \in paying'} : g \in GasWallets /\ Kept(g)
    BY <1>1, <2>2
  <2>4. QED
    BY <1>2, <2>1, <2>3 DEF FundedGasIsKept, ChainKept
<1>8. ASSUME NEW c \in Devices, Drip(c) PROVE FundedGasIsKept'
  <2>1. gas' = gas /\ chain' = chain /\ funded' = funded
    BY <1>8 DEF Drip, store, ledger
  <2>2. /\ tab[c].msg.gas = gas[c] /\ tab[c].msg.gas \in GasWallets
        /\ paying' \subseteq paying \cup {[key |-> tab[c].msg.key, gas |-> tab[c].msg.gas]}
    BY <1>8 DEF Drip, VotesUseStoredGas, PaidFromStore, Pending
  <2>3. Kept(gas[c])
    BY DEF Kept
  <2>4. \A g \in funded' \cup {q.gas : q \in paying'} : g \in GasWallets /\ Kept(g)
    BY <1>1, <2>1, <2>2, <2>3
  <2>5. QED
    BY <1>2, <2>1, <2>4 DEF FundedGasIsKept, ChainKept
<1>9. ASSUME NEW c \in Devices, Cast(c) PROVE FundedGasIsKept'
  <2>1. UNCHANGED <<chain, funded, paying>>
    BY <1>9 DEF Cast, ledger, faucet
  <2>2. \A d \in Devices : gas'[d] = gas[d] \/ gas[d] \notin GasWallets
    BY <1>9, ConstantTypes DEF Cast, CanSign, GasFor, TypeOK
  <2>3. QED
    BY <1>1, <2>1, <2>2, WalletsStay DEF FundedGasIsKept, ChainKept
<1>10. ASSUME NEW c \in Devices, VoteLanded(c) PROVE FundedGasIsKept'
  <2>1. UNCHANGED <<chain, funded, paying>>
    BY <1>10 DEF VoteLanded, ledger, faucet
  <2>2. \A d \in Devices : \/ gas'[d] = gas[d]
                           \/ \E i \in DOMAIN chain : /\ chain[i].m.kind = "vote"
                                                      /\ chain[i].m.gas = gas[d]
    <3>1. CASE gas' = gas
      BY <3>1
    <3>2. CASE gas' = [gas EXCEPT ![c] = NoGas] /\ tab[c].msg.kind = "vote"
      <4>1. PaidFromStore(c) /\ tab[c].step = "included"
        BY <1>10 DEF VoteLanded, VotesUseStoredGas
      <4>2. /\ tab[c].msg.gas = gas[c]
            /\ \E i \in DOMAIN chain : chain[i].m = tab[c].msg
        BY <3>2, <4>1 DEF PaidFromStore, Pending
      <4>3. QED
        BY <3>2, <4>2 DEF TypeOK
    <3>3. QED
      BY <1>10, <3>1, <3>2 DEF VoteLanded
  <2>3. QED
    BY <1>1, <2>1, <2>2, WalletsStay DEF FundedGasIsKept, ChainKept
<1>11. ASSUME NEW c \in Devices,
              \/ SendFails(c) \/ Scan(c) \/ Reload(c) \/ Return(c) \/ Register(c) \/ Approve(c)
              \/ Refuse(c) \/ CastClear(c) \/ DripFails(c) \/ BalanceTimesOut(c)
              \/ AnnounceLanded(c) \/ WaitEnds(c) \/ Funded(c)
       PROVE  FundedGasIsKept'
  BY <1>3, <1>11
     DEF SendFails, Scan, Reload, Return, Register, Approve, Refuse, CastClear, DripFails,
         BalanceTimesOut, AnnounceLanded, WaitEnds, Funded, store, ledger, faucet
<1>12. CASE Unnoticed
  <2>1. gas' = gas /\ chain' = chain
    BY <1>12, UnnoticedFrame
  <2>2. \A g \in funded' : g \in funded \/ \E c \in Devices : g = gas[c] /\ g \in GasWallets
    BY <1>12 DEF Unnoticed, FaucetFails, PayLost, FundByHand, VotesUseStoredGas,
                 PaidFromStore, Pending
  <2>3. paying' \subseteq paying
    BY <1>12 DEF Unnoticed, FaucetFails, PayLost, FundByHand
  <2>4. \A g \in funded' \cup {q.gas : q \in paying'} : g \in GasWallets /\ Kept(g)
    BY <1>1, <2>2, <2>3 DEF Kept
  <2>5. QED
    BY <1>2, <2>1, <2>4 DEF FundedGasIsKept, ChainKept
<1>13. QED
  BY <1>4, <1>5, <1>6, <1>7, <1>8, <1>9, <1>10, <1>11, <1>12 DEF Next, Runs, Unnoticed

-----------------------------------------------------------------------------
(* A clear vote stays alone.                                                *)

LEMMA NumberTypes ==
  ASSUME TypeOK
  PROVE  /\ head \in Nat /\ start \in Nat
         /\ \A i \in DOMAIN chain : chain[i] \in Landed /\ chain[i].block \in Nat
         /\ \A c \in Devices : scanned[c] \in Nat /\ vk[c] \in Keys \cup {NoKey}
<1>1. \A i \in DOMAIN chain : chain[i] \in Landed
  BY DEF TypeOK
<1>2. QED
  BY <1>1 DEF TypeOK, Landed

LEMMA IssuedIsRemark ==
  ASSUME TypeOK, NEW m \in Issued
  PROVE  m \in Remark /\ m.by \in Devices
<1>1. \A i \in DOMAIN chain : chain[i] \in Landed
  BY DEF TypeOK
<1>2. QED
  BY <1>1 DEF TypeOK, Issued, Landed, Remark

\* A tab with something under way goes on with it, or drops it.
Carries(d) == tab'[d].step \in Pending => tab[d].step \in Pending /\ tab'[d].msg = tab[d].msg

LEMMA IssuedShrinks ==
  ASSUME chain' = chain, pool' \subseteq Issued, \A d \in Devices : Carries(d)
  PROVE  Issued' \subseteq Issued
BY DEF Issued, Carries

LEMMA PoolIsIssued == pool \subseteq Issued
  BY DEF Issued

LEMMA PendingIsIssued ==
  ASSUME NEW d \in Devices, tab[d].step \in Pending
  PROVE  tab[d].msg \in Issued
BY DEF Issued

\* One new remark n, on the tab of c or in the pool.
LEMMA IssuedGrows ==
  ASSUME NEW c \in Devices, NEW n, chain' = chain, pool' \subseteq pool \cup {n},
         tab'[c].msg = n, \A d \in Devices \ {c} : Same(d)
  PROVE  Issued' \subseteq Issued \cup {n}
BY DEF Issued, Same

LEMMA AloneFrame ==
  ASSUME TypeOK, TypeOK', ClearIsAlone, Issued' \subseteq Issued,
         UNCHANGED <<chain, vk>>, head' >= head, start' = start \/ start = NoBlock
  PROVE  ClearIsAlone'
<1> SUFFICES ASSUME NEW m \in Issued'
             PROVE  /\ m.kind = "vote" => vk[m.by] # NoKey
                    /\ m.kind = "clear" =>
                         /\ Program[m.by] = "ui" /\ start' \in 1..head'
                         /\ \A i \in DOMAIN chain :
                              chain[i].m.kind = "announce" /\ chain[i].m.key = vk[m.by]
                                => chain[i].block >= start'
                         /\ \A n \in Issued' : n.kind = "vote" => n.by # m.by
  BY DEF ClearIsAlone
<1>1. m \in Issued
  OBVIOUS
<1>2. CASE m.kind = "clear"
  <2>1. start \in 1..head /\ start' = start
    BY <1>1, <1>2 DEF ClearIsAlone, NoBlock
  <2>2. start' \in 1..head'
    BY <2>1 DEF TypeOK
  <2>3. QED
    BY <1>1, <1>2, <2>1, <2>2 DEF ClearIsAlone
<1>3. CASE m.kind # "clear"
  BY <1>1, <1>3 DEF ClearIsAlone
<1>4. QED
  BY <1>2, <1>3

LEMMA AloneStep == IInv /\ TypeOK' /\ [Next]_vars => ClearIsAlone'
<1> SUFFICES ASSUME IInv, TypeOK', [Next]_vars PROVE ClearIsAlone'
  OBVIOUS
<1>0. /\ TypeOK /\ KeysAreStored /\ VotesUseStoredGas /\ ClearIsAlone
      /\ head \in Nat /\ start \in Nat
  BY NumberTypes DEF IInv
<1>1. CASE Seal \/ OpenVoting \/ UNCHANGED vars
  <2>1. /\ UNCHANGED <<chain, vk, pool, tab>> /\ head' >= head
        /\ start' = start \/ start = NoBlock
    BY <1>0, <1>1 DEF Seal, OpenVoting, vars, store
  <2>2. QED
    BY <1>0, <2>1, PoolIsIssued, IssuedShrinks, AloneFrame DEF Carries
<1>2. ASSUME NEW m \in pool, Include(m) PROVE ClearIsAlone'
  <2>1. /\ m \in Remark /\ NextBlock \in 1..MaxBlock
        /\ Len(chain') = Len(chain) + 1 /\ chain' = Append(chain, [m |-> m, block |-> NextBlock])
        /\ \A i \in DOMAIN chain' : \/ i \in DOMAIN chain /\ chain'[i] = chain[i]
                                    \/ chain'[i] = [m |-> m, block |-> NextBlock]
    <3>1. m \in Remark /\ NextBlock \in 1..MaxBlock /\ chain \in Seq(Landed)
      BY <1>0, <1>2, ChainGrows DEF TypeOK
    <3>2. chain' = Append(chain, [m |-> m, block |-> NextBlock])
      BY <1>2 DEF Include
    <3>3. [m |-> m, block |-> NextBlock] \in Landed
      BY <3>1 DEF Landed
    <3>4. QED
      BY <3>1, <3>2, <3>3
  <2>2. \A d \in Devices : Carries(d)
    BY <1>0, <1>2 DEF Include, TypeOK, Carries, Tab, Pending
  <2>3. Issued' \subseteq Issued
    BY <1>2, <2>1, <2>2 DEF Issued, Include, Carries
  <2>4. UNCHANGED <<vk, head, start>>
    BY <1>2 DEF Include, store
  <2>5. start \in 1..head => NextBlock >= start
    BY <1>0, ConstantTypes DEF NextBlock, TypeOK
  <2>6. ASSUME NEW n \in Issued'
        PROVE  /\ n.kind = "vote" => vk'[n.by] # NoKey
               /\ n.kind = "clear" =>
                    /\ Program[n.by] = "ui" /\ start' \in 1..head'
                    /\ \A i \in DOMAIN chain' :
                         chain'[i].m.kind = "announce" /\ chain'[i].m.key = vk'[n.by]
                           => chain'[i].block >= start'
                    /\ \A v \in Issued' : v.kind = "vote" => v.by # n.by
    BY <1>0, <2>1, <2>3, <2>4, <2>5 DEF ClearIsAlone
  <2>7. QED
    BY <2>6 DEF ClearIsAlone
<1>3. ASSUME NEW m \in pool, Drop(m) PROVE ClearIsAlone'
  <2>1. UNCHANGED <<chain, vk, tab, head, start>> /\ pool' \subseteq pool
    BY <1>3 DEF Drop, ledger, store
  <2>2. QED
    BY <1>0, <2>1, PoolIsIssued, IssuedShrinks, AloneFrame DEF Carries
<1>4. ASSUME NEW p \in paying, Pay(p) \/ PayFails(p) PROVE ClearIsAlone'
  <2>1. UNCHANGED <<chain, vk, pool, head, start>>
    BY <1>4 DEF Pay, PayFails, ledger, store
  <2>2. \A d \in Devices : Carries(d)
    BY <1>0, <1>4 DEF Pay, PayFails, Carries, TypeOK, Pending
  <2>3. QED
    BY <1>0, <2>1, <2>2, PoolIsIssued, IssuedShrinks, AloneFrame
<1>5. ASSUME NEW c \in Devices, Scan(c) PROVE ClearIsAlone'
  <2>1. UNCHANGED <<chain, vk, pool, tab, head, start>>
    BY <1>5 DEF Scan, ledger, store
  <2>2. QED
    BY <1>0, <2>1, PoolIsIssued, IssuedShrinks, AloneFrame DEF Carries
<1>6. ASSUME NEW c \in Devices,
             SendFails(c) \/ Refuse(c) \/ BalanceTimesOut(c) \/ WaitEnds(c) \/ VoteLanded(c)
      PROVE  ClearIsAlone'
  <2>1. PICK s \in {"error", "registered", "done"} : End(c, s)
    BY <1>6 DEF SendFails, Refuse, BalanceTimesOut, WaitEnds, VoteLanded
  <2>2. UNCHANGED <<chain, vk, head, start>> /\ pool' \subseteq pool
    BY <1>6 DEF SendFails, Refuse, BalanceTimesOut, WaitEnds, VoteLanded, store, ledger
  <2>3. \A d \in Devices : Carries(d)
    BY <1>0, <2>1, EndTab DEF Carries, Same, Pending
  <2>4. QED
    BY <1>0, <2>2, <2>3, PoolIsIssued, IssuedShrinks, AloneFrame
<1>7. ASSUME NEW c \in Devices, Reload(c) \/ Return(c) PROVE ClearIsAlone'
  <2>1. UNCHANGED <<chain, vk, pool, head, start>> /\ tab' = [tab EXCEPT ![c] = Blank(c)]
    BY <1>7 DEF Reload, Return, store, ledger
  <2>2. \A d \in Devices : Carries(d)
    BY <1>0, <2>1, BlankTab DEF Carries, Same, Pending
  <2>3. QED
    BY <1>0, <2>1, <2>2, PoolIsIssued, IssuedShrinks, AloneFrame
<1>8. ASSUME NEW c \in Devices, Approve(c) \/ DripFails(c) \/ Drip(c) \/ Funded(c)
      PROVE  ClearIsAlone'
  <2>1. /\ UNCHANGED <<chain, vk, head, start>>
        /\ tab[c].step \in Pending /\ pool' \subseteq pool \cup {tab[c].msg}
    BY <1>8 DEF Approve, DripFails, Drip, Funded, store, ledger, Pending
  <2>2. PICK s : Go(c, s)
    BY <1>8 DEF Approve, DripFails, Drip, Funded
  <2>3. \A d \in Devices : Carries(d)
    BY <1>0, <2>1, <2>2, GoTab DEF Carries, Same
  <2>4. pool' \subseteq Issued
    BY <2>1, PoolIsIssued, PendingIsIssued
  <2>5. QED
    BY <1>0, <2>1, <2>3, <2>4, IssuedShrinks, AloneFrame
<1>9. ASSUME NEW c \in Devices, AnnounceLanded(c) PROVE ClearIsAlone'
  <2>1. UNCHANGED <<chain, vk, pool, head, start>>
    BY <1>9 DEF AnnounceLanded, store, ledger
  <2>2. \A d \in Devices : Carries(d)
    BY <1>0, <1>9, WaitingTab DEF Carries, Same, Pending
  <2>3. QED
    BY <1>0, <2>1, <2>2, PoolIsIssued, IssuedShrinks, AloneFrame
<1>10. ASSUME NEW c \in Devices, Register(c) PROVE ClearIsAlone'
  <2>1. PICK k \in KeyFor(c) :
          vk' = [vk EXCEPT ![c] = k] /\ SendFromRealWallet(c, Message(c, "announce", k, NoGas, 0))
    BY <1>10 DEF Register
  <2> DEFINE n == Message(c, "announce", k, NoGas, 0)
  <2>2. UNCHANGED <<chain, head, start>>
    BY <1>10 DEF Register, ledger
  <2>3. Issued' \subseteq Issued \cup {n} /\ n.kind = "announce"
    <3>1. /\ tab'[c].msg = n /\ pool' \subseteq pool \cup {n}
          /\ \A d \in Devices \ {c} : Same(d)
      BY <1>0, <2>1, SendTab
    <3>2. QED
      BY <2>2, <3>1, IssuedGrows DEF Message
  <2>4. k # NoKey /\ (k = vk[c] \/ \A i \in DOMAIN chain : chain[i].m.key # k)
    BY <1>0, ConstantTypes DEF KeyFor, FreshKeys
  <2>5. /\ \A d \in Devices : vk[d] # NoKey => vk'[d] # NoKey
        /\ \A d \in Devices : \/ vk'[d] = vk[d]
                              \/ \A i \in DOMAIN chain : chain[i].m.key # vk'[d]
    BY <1>0, <2>1, <2>4 DEF TypeOK
  <2>6. ASSUME NEW m \in Issued', m.kind # "announce"
        PROVE  m \in Issued /\ m.by \in Devices
    BY <1>0, <2>3, <2>6, IssuedIsRemark
  <2>7. ASSUME NEW m \in Issued'
        PROVE  /\ m.kind = "vote" => vk'[m.by] # NoKey
               /\ m.kind = "clear" =>
                    /\ Program[m.by] = "ui" /\ start \in 1..head
                    /\ \A i \in DOMAIN chain :
                         chain[i].m.kind = "announce" /\ chain[i].m.key = vk'[m.by]
                           => chain[i].block >= start
                    /\ \A v \in Issued' : v.kind = "vote" => v.by # m.by
    BY <1>0, <2>5, <2>6 DEF ClearIsAlone
  <2>8. QED
    BY <2>2, <2>7 DEF ClearIsAlone
<1>11. ASSUME NEW c \in Devices, CastClear(c) PROVE ClearIsAlone'
  <2> DEFINE n == Message(c, "clear", NoKey, NoGas, 0)
  <2>1. UNCHANGED <<chain, vk, head, start>>
    BY <1>11 DEF CastClear, ledger, store
  <2>2. Issued' \subseteq Issued \cup {n} /\ n.kind = "clear" /\ n.by = c
    <3>1. /\ tab'[c].msg = n /\ pool' \subseteq pool \cup {n}
          /\ \A d \in Devices \ {c} : Same(d)
      BY <1>0, <1>11, SendTab DEF CastClear
    <3>2. QED
      BY <2>1, <3>1, IssuedGrows DEF Message
  <2>3. Program[c] = "ui" /\ vk[c] = NoKey /\ start \in 1..head
    <3>1. scanned[c] \in Nat /\ scanned[c] <= head
      BY <1>0, NumberTypes DEF IInv, ScannedIsSealed
    <3>2. start # NoBlock /\ start <= scanned[c]
      BY <1>11 DEF CastClear, Choosing, Voting, SeenStart
    <3>3. QED
      BY <1>0, <1>11, <3>1, <3>2 DEF CastClear, Choosing, NoBlock
  <2>4. \A i \in DOMAIN chain : chain[i].m.kind = "announce" => chain[i].m.key # NoKey
    BY <1>0 DEF KeysAreStored, Stored
  <2>5. \A v \in Issued : v.kind = "vote" => v.by # c
    BY <1>0, <2>3 DEF ClearIsAlone
  <2>6. ASSUME NEW m \in Issued'
        PROVE  /\ m.kind = "vote" => vk[m.by] # NoKey
               /\ m.kind = "clear" =>
                    /\ Program[m.by] = "ui" /\ start \in 1..head
                    /\ \A i \in DOMAIN chain :
                         chain[i].m.kind = "announce" /\ chain[i].m.key = vk[m.by]
                           => chain[i].block >= start
                    /\ \A v \in Issued' : v.kind = "vote" => v.by # m.by
    BY <1>0, <2>2, <2>3, <2>4, <2>5 DEF ClearIsAlone
  <2>7. QED
    BY <2>1, <2>6 DEF ClearIsAlone
<1>12. ASSUME NEW c \in Devices, Cast(c) PROVE ClearIsAlone'
  <2>1. UNCHANGED <<chain, pool, vk, head, start>>
    BY <1>12 DEF Cast, ledger
  <2>2. CASE End(c, "error")
    <3>1. \A d \in Devices : Carries(d)
      BY <1>0, <2>2, EndTab DEF Carries, Same, Pending
    <3>2. QED
      BY <1>0, <2>1, <3>1, PoolIsIssued, IssuedShrinks, AloneFrame
  <2>3. ASSUME NEW g, CanSign(c),
               tab' = [tab EXCEPT ![c] = Tab("requesting", Message(c, "vote", vk[c], g, Scanned(c)))]
        PROVE  ClearIsAlone'
    <3> DEFINE n == Message(c, "vote", vk[c], g, Scanned(c))
    <3>1. Issued' \subseteq Issued \cup {n} /\ n.kind = "vote" /\ n.by = c
      <4>1. tab'[c].msg = n /\ \A d \in Devices \ {c} : Same(d)
        BY <1>0, <2>3, PutTab
      <4>2. QED
        BY <2>1, <4>1, IssuedGrows DEF Message
    <3>2. vk[c] # NoKey
      BY <1>12 DEF Cast, MayVote
    <3>3. ASSUME NEW m \in Issued, m.kind = "clear", m.by = c PROVE FALSE
      <4>1. Program[c] = "ui" /\ start \in 1..head
        BY <1>0, <3>3 DEF ClearIsAlone
      <4>2. SeenStart(scanned[c]) # NoBlock /\ SeenStart(scanned[c]) = start
        BY <1>12, <4>1 DEF Cast, MayVote, Choosing, Voting, SeenStart
      <4>3. PICK i \in Announces(scanned[c]) : chain[i].m.key = vk[c]
        BY <2>3, <4>1 DEF CanSign, InRing, Latest, Scanned
      <4>4. i \in DOMAIN chain /\ chain[i].m.kind = "announce" /\ chain[i].block < start
        BY <4>2, <4>3 DEF Announces
      <4>5. chain[i].block >= start
        BY <1>0, <3>3, <4>3, <4>4 DEF ClearIsAlone
      <4>6. QED
        BY <1>0, <4>4, <4>5, NumberTypes
    <3>4. ASSUME NEW m \in Issued'
          PROVE  /\ m.kind = "vote" => vk[m.by] # NoKey
                 /\ m.kind = "clear" =>
                      /\ Program[m.by] = "ui" /\ start \in 1..head
                      /\ \A i \in DOMAIN chain :
                           chain[i].m.kind = "announce" /\ chain[i].m.key = vk[m.by]
                             => chain[i].block >= start
                      /\ \A v \in Issued' : v.kind = "vote" => v.by # m.by
      BY <1>0, <3>1, <3>2, <3>3 DEF ClearIsAlone
    <3>5. QED
      BY <2>1, <3>4 DEF ClearIsAlone
  <2>4. QED
    BY <1>12, <2>2, <2>3 DEF Cast
<1>13. CASE Unnoticed
  <2>1. UNCHANGED <<chain, vk, pool, tab, head, start>>
    BY <1>13, UnnoticedFrame
  <2>2. QED
    BY <1>0, <2>1, PoolIsIssued, IssuedShrinks, AloneFrame DEF Carries
<1>14. QED
  BY <1>1, <1>2, <1>3, <1>4, <1>5, <1>6, <1>7, <1>8, <1>9, <1>10, <1>11, <1>12, <1>13
  DEF Next, Runs, Unnoticed

LEMMA ScannedStep == IInv /\ [Next]_vars => ScannedIsSealed'
<1> SUFFICES ASSUME IInv, [Next]_vars, NEW d \in Devices PROVE scanned'[d] <= head'
  BY DEF ScannedIsSealed
<1>1. /\ TypeOK /\ head \in Nat /\ scanned[d] \in Nat /\ scanned[d] <= head
  BY NumberTypes DEF IInv, ScannedIsSealed
<1>2. CASE Seal
  BY <1>1, <1>2 DEF Seal
<1>3. ASSUME NEW c \in Devices, Scan(c) PROVE scanned'[d] <= head'
  <2>1. scanned[c] \in Nat /\ scanned[c] < head /\ head' = head
    BY <1>1, <1>3, NumberTypes DEF Scan, ledger
  <2>2. scanned' = [scanned EXCEPT ![c] = scanned[c] + 1]
    BY <1>3 DEF Scan
  <2>3. QED
    BY <1>1, <2>1, <2>2 DEF TypeOK
<1>4. ASSUME NEW c \in Devices, Reload(c) PROVE scanned'[d] <= head'
  <2>1. PICK n \in {0, scanned[c]} : scanned' = [scanned EXCEPT ![c] = n]
    BY <1>4 DEF Reload
  <2>2. head' = head
    BY <1>4 DEF Reload, ledger
  <2>3. QED
    BY <1>1, <2>1, <2>2 DEF TypeOK
<1>5. CASE UNCHANGED <<scanned, head>>
  BY <1>1, <1>5
<1>6. CASE Unnoticed
  BY <1>5, <1>6, UnnoticedFrame
<1>7. QED
  BY <1>2, <1>3, <1>4, <1>5, <1>6
  DEF Next, Runs, Unnoticed, vars, OpenVoting, Include, Drop, Pay, PayFails, SendFails, Return, Register,
      Approve, Refuse, Cast, CastClear, DripFails, BalanceTimesOut, AnnounceLanded, WaitEnds,
      Drip, Funded, VoteLanded, ledger

-----------------------------------------------------------------------------
(* Theorems.                                                                *)

\* What the devices store, have sent and have in flight stays consistent,
\* through reloads, refusals and lost answers (VoteScreen.tsx, vote.ts).
THEOREM IInvCorrect == Spec => []IInv
<1>1. Init => IInv
  <2> SUFFICES ASSUME Init PROVE IInv
    OBVIOUS
  <2>1. TypeOK
    BY TypeInit
  <2>2. \A c \in Devices : tab[c].step = "pick" /\ tab[c].msg.by = c /\ tab[c].msg.kind = "clear"
    BY DEF Init, Blank, Tab, Message
  <2>3. KeysAreStored
    BY <2>2 DEF Init, KeysAreStored, Stored
  <2>4. VotesUseStoredGas
    BY <2>2 DEF VotesUseStoredGas, PaidFromStore, Pending
  <2>5. FundedGasIsKept
    BY DEF Init, FundedGasIsKept
  <2>6. ScannedIsSealed
    BY DEF Init, ScannedIsSealed
  <2>7. ClearIsAlone
    BY <2>2 DEF Init, ClearIsAlone, Issued, Pending
  <2>8. QED
    BY <2>1, <2>3, <2>4, <2>5, <2>6, <2>7 DEF IInv
<1>2. IInv /\ [Next]_vars => IInv'
  BY TypeStep, KeysStep, GasStep, KeptStep, ScannedStep, AloneStep DEF IInv
<1>3. QED
  BY <1>1, <1>2, PTL DEF Spec

\* Money the faucet sends is never at an address no device has, unless its
\* vote is on the chain (gas-wallet.ts; clearGasWallet in VoteScreen.tsx).
THEOREM FundedGasAlwaysKept == Spec => []FundedGasIsKept
<1>1. IInv => FundedGasIsKept
  BY DEF IInv
<1>2. QED
  BY <1>1, IInvCorrect, PTL

\* The voter's key in the ring is a key one of his devices stores
\* (getOrCreateVotingKey before the announce, reused by every retry).
THEOREM RingKeyIsHeld == Spec => []AnnouncedKeyIsHeld
<1>1. IInv => AnnouncedKeyIsHeld
  <2> SUFFICES ASSUME IInv, NEW k \in InRing(head) PROVE \E c \in Devices : vk[c] = k
    BY DEF AnnouncedKeyIsHeld
  <2>1. PICK i \in DOMAIN chain : chain[i].m.kind = "announce" /\ chain[i].m.key = k
    BY DEF InRing, Latest, Announces
  <2>2. vk[chain[i].m.by] = k
    BY <2>1 DEF IInv, KeysAreStored, Stored
  <2>3. chain[i] \in Landed
    BY DEF IInv, TypeOK
  <2>4. chain[i].m.by \in Devices
    BY <2>3 DEF Landed, Remark
  <2>5. QED
    BY <2>2, <2>4
<1>2. QED
  BY <1>1, IInvCorrect, PTL

\* Who votes twice, in clear and anonymously, did so with two devices: a
\* browser without a key in the ring never gets one after its clear vote
\* (castClear and the gates of VoteScreen.tsx).
THEOREM ClearVoterHasNoOtherVote == Spec => []OnlyTwoDevicesCountTwice
<1>1. IInv => OnlyTwoDevicesCountTwice
  <2> SUFFICES ASSUME IInv, NEW i \in DOMAIN chain, NEW j \in DOMAIN chain,
                      chain[i].m.kind = "clear", chain[j].m.kind = "vote"
               PROVE  chain[i].m.by # chain[j].m.by
    BY DEF OnlyTwoDevicesCountTwice
  <2>1. chain[i].m \in Issued /\ chain[j].m \in Issued
    BY DEF Issued
  <2>2. QED
    BY <2>1 DEF IInv, ClearIsAlone
<1>2. QED
  BY <1>1, IInvCorrect, PTL
=============================================================================
