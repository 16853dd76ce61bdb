----------------------------- MODULE MCSingbox -----------------------------
EXTENDS Singbox
=============================================================================
