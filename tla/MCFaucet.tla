------------------------------ MODULE MCFaucet ------------------------------
(* Small instances of Faucet for TLC.                                      *)
EXTENDS Faucet

\* Alice announces key 1 and, two blocks later, key 3; Bob announces key 2, and
\* another one in the block that opens voting.
Announced(a, k, b) ==
  [kind |-> "announce", p |-> "p", signer |-> a, block |-> b, vk |-> k]
OnChain ==
  {Announced("alice", 1, 2), Announced("bob", 2, 3), Announced("alice", 3, 4),
   Announced("bob", 1, 5), [kind |-> "start", p |-> "p", signer |-> "alice", block |-> 5]}

Ask(k, ring, gas, rb, n) ==
  [sig |-> [key |-> k, ring |-> ring, gas |-> gas, rb |-> rb], gas |-> gas, rb |-> rb,
   wellFormed |-> TRUE, attempt |-> n]
Old(k, gas, n) == Ask(k, {1, 2}, gas, 3, n)
New(k, gas, n) == Ask(k, {2, 3}, gas, 4, n)

\* One key asks at two addresses, in two tabs, and again; the other voter once;
\* and a key that replaced the first.
Races == {Old(1, "g1", 1), Old(1, "g2", 1), Old(1, "g1", 2), Old(2, "g2", 1), New(3, "g1", 1)}

\* Fewer of them when anything may fail at any time.
Drops == Races \ {Old(1, "g1", 2)}
Retries == {Old(1, "g1", 1), Old(1, "g2", 1), New(3, "g1", 1)}

\* One that is in order and some that are not: before the proposal, a ring of
\* one, the ring of another block, an altered address, another proposal.
Doubtful ==
  {Old(2, "g2", 1), Ask(1, {}, "g1", 1, 1), Ask(1, {1}, "g1", 2, 1),
   Ask(2, {2, 3}, "g1", 3, 1),
   [Old(2, "g2", 2) EXCEPT !.gas = "g1"],
   [Old(2, "g2", 3) EXCEPT !.wellFormed = FALSE]}

AllRequests == Races \cup Doubtful

AllWorlds ==
  {[asked |-> {}, heads |-> 0..5, failures |-> {"restart", "shutdown"}],
   [asked |-> Doubtful, heads |-> 2..4, failures |-> {}],
   [asked |-> Races, heads |-> {4}, failures |-> {}],
   [asked |-> Drops, heads |-> {4}, failures |-> {"drop"}],
   [asked |-> Retries, heads |-> {4}, failures |-> {"late", "drop", "restart"}]}
=============================================================================
