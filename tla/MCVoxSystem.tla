----------------------------- MODULE MCVoxSystem -----------------------------
EXTENDS VoxSystem
=============================================================================
