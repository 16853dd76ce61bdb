----------------------------- MODULE MCTraffic -----------------------------
EXTENDS Traffic
=============================================================================
