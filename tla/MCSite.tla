------------------------------- MODULE MCSite -------------------------------
(* Instances of TxSearch, and with it of BlockViews, for TLC.                 *)
EXTENDS TxSearch

CONSTANTS follower, backfiller   \* model values

JustFollower  == {follower}
OneBackfiller == {backfiller}
Nobody        == {}
NoLookup      == {}

\* The block of height h carries transaction h, or after a reorganisation the one
\* that was a block below: whatever is mined again is mined one block higher.
Delayed == [h \in Heights |-> [f \in Forks |-> h - f]]

TheFirst == {1}

\* A chain of two blocks, with outages and every request of a visitor ...
TwoBlocks == tip <= 1 /\ \A p \in Procs : to[p] <= 1

\* ... or one of three, whose genesis is not indexed, with searches only and once
\* outages are over.
ThreeBlocks ==
  /\ calm /\ torn = {} /\ skipped = {}
  /\ vpc \in {"idle", "answered"} \/ Searching
  /\ blocks[0] = NoRow
  /\ \A p \in Procs : pc[p] = "idle" \/ from[p] >= 1

TwoOrThree == SiteInit /\ [][SiteNext /\ (TwoBlocks \/ ThreeBlocks)']_siteVars
=============================================================================
