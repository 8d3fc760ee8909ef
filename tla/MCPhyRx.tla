------------------------------ MODULE MCPhyRx -------------------------------
EXTENDS PhyRx

AllPeers == {"patient", "eager"}
=============================================================================
