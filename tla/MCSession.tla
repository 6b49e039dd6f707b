----------------------------- MODULE MCSession ------------------------------
(* Two deployments on one chain, a third on another one, two tabs.         *)
EXTENDS Session, TLC
CONSTANTS finney, test, archive, lite, testnode

Behind == [e \in {archive, lite, testnode} |-> IF e = testnode THEN test ELSE finney]
Interchangeable == Permutations(Tabs)
Deployments ==
  <<[genesis |-> finney, ws |-> archive], [genesis |-> finney, ws |-> lite],
    [genesis |-> test, ws |-> testnode]>>
=============================================================================
