----------------------------- MODULE MCVtStream -----------------------------
EXTENDS VtStream
=============================================================================
