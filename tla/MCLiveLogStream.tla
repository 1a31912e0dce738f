---------------------------- MODULE MCLiveLogStream ----------------------------
EXTENDS LiveLogStream, TLC
=============================================================================
