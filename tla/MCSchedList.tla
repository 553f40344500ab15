---------------------------- MODULE MCSchedList ----------------------------
EXTENDS SchedList

FourPids == 1..4
=============================================================================
