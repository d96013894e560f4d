---------------------------- MODULE MCVideoConfig ----------------------------
EXTENDS VideoConfig
=============================================================================
