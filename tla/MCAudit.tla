------------------------------ MODULE MCAudit -------------------------------
(* Pools of remarks that hold every case of the walk and of the scan.      *)
EXTENDS Audit
CONSTANTS alice, bob, carol
Voters == {alice, bob}
Everyone == {alice, bob, carol}
Ends == {NoBlock, 2, 3}

Ann(a, b, k) == [kind |-> "announce", p |-> "p", signer |-> a, block |-> b, vk |-> k]
Open(b) == [kind |-> "start", p |-> "p", signer |-> carol, block |-> b]
Clear(a, b, c) == [kind |-> "clear", p |-> "p", signer |-> a, block |-> b, c |-> c]
Sign(k, ring, c, rb) == [key |-> k, ring |-> ring, p |-> "p", c |-> c, rb |-> rb]
Cast(s, b) == [kind |-> "vote", p |-> s.p, block |-> b, c |-> s.c, rb |-> s.rb, sig |-> s]

\* Two voters, a same-block tie, a re-announce; two start remarks; votes of
\* one key in two blocks; clear votes before, in and after the window.
Pool ==
  {Ann(alice, 1, 1), Ann(alice, 1, 3), Ann(alice, 2, 2), Ann(bob, 0, 4),
   Open(2), Open(3),
   Cast(Sign(1, {1, 4}, "yes", 1), 3), Cast(Sign(1, {1, 4}, "no", 1), 2),
   Clear(alice, 3, "no"), Clear(alice, 4, "yes")}

\* Chains of two blocks' registrations and two blocks' ballots: every order
\* inside a block, a vote that comes twice, a late announce.
Audited ==
  {<<Ann(bob, 0, 4)>> \o a \o s \o v :
     a \in {<<Ann(alice, 1, 1)>>, <<Ann(alice, 1, 1), Ann(alice, 1, 3)>>,
            <<Ann(alice, 1, 3), Ann(alice, 1, 1)>>},
     s \in {<<>>, <<Open(2)>>, <<Ann(alice, 2, 2), Open(2)>>},
     v \in {<<>>, <<Cast(Sign(1, {1, 4}, "yes", 1), 3)>>,
            <<Cast(Sign(1, {1, 4}, "no", 1), 2), Cast(Sign(1, {1, 4}, "yes", 1), 3)>>,
            <<Clear(alice, 2, "yes"), Clear(carol, 3, "no"), Clear(alice, 3, "no")>>}}
=============================================================================
