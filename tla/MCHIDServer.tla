------------------------------ MODULE MCHIDServer ------------------------------
EXTENDS HIDServer, TLC
=============================================================================
