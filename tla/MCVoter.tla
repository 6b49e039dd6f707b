------------------------------ MODULE MCVoter -------------------------------
(* A browser and a keystore of the command line for TLC.                   *)
EXTENDS Voter
BrowserAndCli == [browser |-> "ui", keystore |-> "cli"]
Remarks == [announce |-> 2, clear |-> 1]
=============================================================================
