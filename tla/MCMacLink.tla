----------------------------- MODULE MCMacLink ------------------------------
EXTENDS MacLink

Acks == {"ackOk"}
All == {"ackOk", "ackErr", "data"}
=============================================================================
