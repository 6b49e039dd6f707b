--------------------------- MODULE MCRingIndexer ----------------------------
(* Small instances of RingIndexer for TLC.                                 *)
EXTENDS RingIndexer
=============================================================================
