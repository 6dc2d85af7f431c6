---------------------------- MODULE MCColumnTools ----------------------------
(* Instances of ColumnTools for TLC: one follower, and the tools of a cfg.    *)
EXTENDS ColumnTools

CONSTANT follower   \* model value

JustFollower   == {follower}
Nobody         == {}
AchievedLookup == {"achieved"}
NoLookup       == {}
SomeLookups    == {"adjusted", "achieved"}
Reattribute    == {"reattribute"}
=============================================================================
