----------------------------- MODULE MCDownlink -----------------------------
EXTENDS Downlink
=============================================================================
