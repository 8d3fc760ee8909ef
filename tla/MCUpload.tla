------------------------------ MODULE MCUpload ------------------------------
EXTENDS Upload

(* A gateway of nodes on the bus and, in the list behind it, a meter.        *)
Table == <<"gateway", "meter">>
=============================================================================
