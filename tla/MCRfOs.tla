------------------------------- MODULE MCRfOs -------------------------------
EXTENDS RfOs
=============================================================================
