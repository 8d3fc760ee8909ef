----------------------------- MODULE MCNodeApp -----------------------------
EXTENDS NodeApp

(* A node of the gateway's own subnet, a router and a node behind it.       *)
Table == <<[subnet |-> 0, dev |-> 1], [subnet |-> 1, dev |-> 0],
           [subnet |-> 1, dev |-> 1]>>
Nodes == {[subnet |-> 1, dev |-> 1]}
Scripts == {SetDiDiPt, GetDiDiVersion, UpgradeDiDi, UpgradeDiDiSub}
=============================================================================
