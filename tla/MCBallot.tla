------------------------------ MODULE MCBallot ------------------------------
(* Small instances of Ballot for TLC.                                      *)
EXTENDS Ballot, TLC
CONSTANTS alice, bob
Voters == {alice, bob}
Chain(a, s, v, c) ==
  [announce |-> a, start |-> s, vote |-> v, clear |-> c, ballot |-> 2]

\* Signatures of the browser, clear votes and a deadline.
Browsers ==
  [signing |-> "ui", blocks |-> 4, signed |-> 2, choices |-> {"yes"},
   limit |-> Chain(3, 1, 2, 1)]

\* Any ring block: two start remarks and choices to alter, or announces again.
Altered ==
  [signing |-> "any", blocks |-> 3, signed |-> 1, choices |-> {"yes", "no"},
   limit |-> Chain(2, 2, 2, 0)]

Renewed ==
  [signing |-> "any", blocks |-> 3, signed |-> 1, choices |-> {"yes"},
   limit |-> Chain(3, 1, 2, 0)]

CommandLine ==
  [signing |-> "cli", blocks |-> 3, signed |-> 2, choices |-> {"yes"},
   limit |-> Chain(3, 1, 2, 0)]

BrowsersOrAnyone == {Browsers, Altered, Renewed}
OnlyCommandLine == {CommandLine}
=============================================================================
