------------------------------- MODULE MCSync -------------------------------
EXTENDS Sync
=============================================================================
