----------------------------- MODULE BallotBox ------------------------------
(***************************************************************************)
(* What the protocol promises of an election, with no chain in it.  The     *)
(* roll of keys is fixed when voting opens; each key on it is counted at    *)
(* most once and each registered voter's clear vote at most once; a counted *)
(* choice never changes and is never lost; nothing is counted after the     *)
(* deadline.                                                                *)
(***************************************************************************)
EXTENDS Naturals, FiniteSets

CONSTANTS Voters, VotingKeys

VARIABLES
  phase,    \* "announce", "voting" or "ended"
  roll,     \* the keys that may vote, fixed when voting opens
  voters,   \* who registered, fixed when voting opens
  cast,     \* the votes counted, by key
  clear     \* the clear votes counted, by voter

boxVars == <<phase, roll, voters, cast, clear>>

\* The counted ballots of the members of `who`, one for each at most.
OnePerSlot(counted, who) ==
  LET voted == {b.by : b \in counted}
  IN  voted \subseteq who /\ Cardinality(voted) = Cardinality(counted)

BoxInit ==
  /\ phase = "announce"
  /\ roll = {} /\ voters = {}
  /\ cast = {} /\ clear = {}

\* A block of ballots is counted: what was counted stays as it was.
Count ==
  /\ phase' \in {"voting", "ended"}
  /\ cast \subseteq cast' /\ OnePerSlot(cast', roll')
  /\ clear \subseteq clear' /\ OnePerSlot(clear', voters')

\* Voting opens: the roll has one key per registered voter at most.
Open ==
  /\ phase = "announce"
  /\ Count
  /\ roll' \subseteq VotingKeys /\ voters' \subseteq Voters
  /\ Cardinality(roll') <= Cardinality(voters')

Vote ==
  /\ phase = "voting"
  /\ UNCHANGED <<roll, voters>>
  /\ Count

BoxSpec == BoxInit /\ [][Open \/ Vote]_boxVars
=============================================================================
