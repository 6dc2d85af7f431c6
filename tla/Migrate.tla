------------------------------- MODULE Migrate -------------------------------
(***************************************************************************)
(* DB.Migrate (internal/db): every long-running program brings the schema  *)
(* up to date when it starts.  The embedded migrations are taken in the    *)
(* order of their file names; one that schema_migrations does not list is  *)
(* executed and recorded in one transaction.  Nothing keeps two programs   *)
(* from doing so at the same time, and a program may be a build that       *)
(* embeds other migrations than the rest.                                  *)
(*                                                                         *)
(* A version is the place of a migration's file name in the order of all   *)
(* of them.                                                                *)
(***************************************************************************)
EXTENDS Integers

CONSTANTS
  Programs,   \* the running programs
  Versions,   \* the versions of all builds
  Embedded    \* the versions that each program's build embeds

ASSUME EmbeddedAssumption ==
  /\ Versions \subseteq Nat
  /\ Embedded \in [Programs -> SUBSET Versions]

VARIABLES
  hasTable,   \* whether the table schema_migrations exists
  applied,    \* the versions it lists
  schema,     \* the migrations whose statements are in effect
  committed,  \* history: how many transactions committed each migration
  pc,         \* where each program is in Migrate
  todo,       \* the versions its loop has still to look at
  stable      \* TRUE once programs and database fail no more

versionVars == <<hasTable, applied, schema, committed>>
migrateVars == <<versionVars, pc, todo, stable>>

MigrateTypeOK ==
  /\ hasTable \in BOOLEAN
  /\ applied \in SUBSET Versions
  /\ schema \in SUBSET Versions
  /\ committed \in [Versions -> Nat]
  /\ pc \in [Programs -> {"down", "first", "create", "check", "apply", "record", "commit", "ready"}]
  /\ todo \in [Programs -> SUBSET Versions]
  /\ stable \in BOOLEAN

MigrateInit ==
  /\ hasTable = FALSE
  /\ applied = {}
  /\ schema = {}
  /\ committed = [v \in Versions |-> 0]
  /\ pc = [p \in Programs |-> "down"]
  /\ todo = [p \in Programs |-> {}]
  /\ stable = FALSE

-----------------------------------------------------------------------------
Goto(p, l) == pc' = [pc EXCEPT ![p] = l]

\* log.Fatalf, or a kill: an open transaction is rolled back.
GoDown(p) ==
  /\ Goto(p, "down")
  /\ todo' = [todo EXCEPT ![p] = {}]

\* The program is started, or started again.  At "first" its CREATE TABLE IF NOT
\* EXISTS schema_migrations may run into that of another program.
Start(p) ==
  /\ pc[p] = "down"
  /\ Goto(p, IF hasTable THEN "create" ELSE "first")
  /\ todo' = [todo EXCEPT ![p] = Embedded[p]]
  /\ UNCHANGED <<versionVars, stable>>

CreateTable(p) ==
  /\ pc[p] \in {"first", "create"}
  /\ hasTable' = TRUE
  /\ Goto(p, "check")
  /\ UNCHANGED <<applied, schema, committed, todo, stable>>

\* Two concurrent CREATE TABLE IF NOT EXISTS: the later one may fail.
LoseCreateTable(p) ==
  /\ pc[p] = "first"
  /\ hasTable
  /\ GoDown(p)
  /\ UNCHANGED <<versionVars, stable>>

IsLast(p, v) ==   \* mutant: the file names are not sorted
  v \in todo[p] /\ \A u \in todo[p] : v >= u

\* The loop takes the versions in ascending order.
IsNext(p, v) == v \in todo[p] /\ \A u \in todo[p] : v <= u

BelowNewest(v) == \E u \in applied : v <= u   \* mutant: only the newest version counts
NeverApplied(v) == FALSE                      \* mutant: no check

AlreadyApplied(v) == v \in applied

Check(p, v) ==
  /\ pc[p] = "check"
  /\ IsNext(p, v)
  /\ IF AlreadyApplied(v) THEN todo' = [todo EXCEPT ![p] = @ \ {v}] /\ UNCHANGED pc
                          ELSE Goto(p, "apply") /\ UNCHANGED todo
  /\ UNCHANGED <<versionVars, stable>>

\* Begin, and the statements of the migration.  They lock what they change, so
\* they wait for another program's open transaction of the same version, and
\* are written to succeed on a schema that has them already.
Apply(p, v) ==
  /\ pc[p] = "apply"
  /\ IsNext(p, v)
  /\ \A q \in Programs \ {p} : ~(pc[q] \in {"record", "commit"} /\ IsNext(q, v))
  /\ Goto(p, "record")
  /\ UNCHANGED <<versionVars, todo, stable>>

InsertsAlways(v) == TRUE   \* mutant: ON CONFLICT DO NOTHING

\* version is the primary key of schema_migrations.
InsertSucceeds(v) == v \notin applied

Record(p, v) ==
  /\ pc[p] = "record"
  /\ IsNext(p, v)
  /\ IF InsertSucceeds(v) THEN Goto(p, "commit") /\ UNCHANGED todo
                          ELSE GoDown(p)
  /\ UNCHANGED <<versionVars, stable>>

Commit(p, v) ==
  /\ pc[p] = "commit"
  /\ IsNext(p, v)
  /\ applied' = applied \cup {v}
  /\ schema' = schema \cup {v}
  /\ committed' = [committed EXCEPT ![v] = @ + 1]
  /\ todo' = [todo EXCEPT ![p] = @ \ {v}]
  /\ Goto(p, "check")
  /\ UNCHANGED <<hasTable, stable>>

\* Migrate returns nil.
Return(p) ==
  /\ pc[p] = "check"
  /\ todo[p] = {}
  /\ Goto(p, "ready")
  /\ UNCHANGED <<versionVars, todo, stable>>

\* A failing statement, or the death of the program.  One that has returned from
\* Migrate is not followed here when it dies: started again it finds all its
\* versions applied (ReadyHasSchema) and changes nothing.
Fail(p) ==
  /\ ~stable
  /\ pc[p] \notin {"down", "ready"}
  /\ GoDown(p)
  /\ UNCHANGED <<versionVars, stable>>

Stabilise ==
  /\ ~stable
  /\ stable' = TRUE
  /\ UNCHANGED <<versionVars, pc, todo>>

MigrateStep(p) ==
  \/ CreateTable(p)
  \/ \E v \in todo[p] : Check(p, v) \/ Apply(p, v) \/ Record(p, v) \/ Commit(p, v)
  \/ Return(p)

MigrateNext ==
  \/ \E p \in Programs : Start(p) \/ MigrateStep(p) \/ LoseCreateTable(p) \/ Fail(p)
  \/ Stabilise

MigrateSpec == MigrateInit /\ [][MigrateNext]_migrateVars

-----------------------------------------------------------------------------
(***************************************************************************)
(* Properties, of any number of programs that start at any time.           *)
(***************************************************************************)
\* "Migrate returned nil" means that the schema has all the program relies on,
\* whichever program of whichever build applied it.
ReadyHasSchema ==
  \A p \in Programs : pc[p] = "ready" => Embedded[p] \subseteq schema

\* A migration is in effect only on top of the earlier ones of a build that
\* embeds it: with one build everywhere, what is applied is a prefix.
AppliedInOrder ==
  \A v \in applied : \E p \in Programs :
    v \in Embedded[p] /\ {u \in Embedded[p] : u < v} \subseteq applied

\* Two programs that both find a migration missing do not both commit it.
CommittedOnce == \A v \in Versions : committed[v] <= 1

\* A program that loses such a race exits; started again it gets through.
EveryoneGetsReady == \A p \in Programs : <>(pc[p] = "ready")
=============================================================================
