---------------------------- MODULE MCSessionBeacon ----------------------------
EXTENDS SessionBeacon

MCSession == 1..2

==============================================================================
