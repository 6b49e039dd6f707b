---------------------------- MODULE MCUiIndexer -----------------------------
(* Small instances of UiIndexer for TLC.                                   *)
EXTENDS UiIndexer

Failing == [forcing |-> FALSE, failing |-> TRUE, lastBlock |-> 5]
Forcing == [forcing |-> TRUE, failing |-> FALSE, lastBlock |-> 3]
FailingOrForcing == {Failing, Forcing}
OnlyForcing == {Forcing}
=============================================================================
