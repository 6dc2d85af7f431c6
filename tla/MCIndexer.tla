------------------------------ MODULE MCIndexer ------------------------------
(* Instances of Indexer for TLC: the cfg files choose the processes, the      *)
(* bounds and the lookups that may fail.                                      *)
EXTENDS Indexer

CONSTANTS follower, backfiller   \* model values

JustFollower   == {follower}
OneBackfiller  == {backfiller}
Nobody         == {}
AnyLookup      == {"difficulty", "adjusted", "achieved"}
AchievedLookup == {"achieved"}
NoLookup       == {}
=============================================================================
