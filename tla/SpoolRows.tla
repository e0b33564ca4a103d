----------------------------- MODULE SpoolRows -----------------------------
(***************************************************************************)
(* The rows the migration of the old spool leaves (app/daemon/migration):  *)
(* what Run decides for one record from the commits and attempts of the    *)
(* old tables, the row and the disk, and how the upserts of its            *)
(* transaction apply the decisions.  Between two runs the daemon may work  *)
(* on the row and the files.                                               *)
(***************************************************************************)
EXTENDS Integers

CONSTANT MaxMigrations          \* bound on committed runs

ASSUME RowsAssumption == MaxMigrations \in Nat

VARIABLES
    old,            \* the record in the old tables
    status,         \* its row in download_records
    stored,         \* the file at its path, in the target and archive directory
    migrations      \* history: committed runs

spoolRowVars == <<old, status, stored, migrations>>

\* A file on disk against the size and digest an entry states.
Stored == {"none", "right", "sized", "wrong"}      \* "sized": only the size agrees

LegacyStatus == {"moving", "segmenting", "spooling", "transferring"}
Unfinished == {"pending", "downloading", "committing", "failed", "unavailable", "conflict"}
RowStatus == {"absent", "moving", "success", "archived"} \cup Unfinished

SpoolRowsTypeOK ==
    /\ old \in [commit : {"none", "listed"}, attempt : BOOLEAN,
                digest : BOOLEAN,               \* a sha256 is recorded
                sized  : BOOLEAN]               \* the row states a size above 0
    /\ status \in RowStatus
    /\ stored \in [target : Stored, archive : Stored]
    /\ migrations \in 0 .. MaxMigrations

\* Both columns of an entry may be empty (COALESCE), those of a commit too.
SpoolRowsInit ==
    /\ old \in [commit : {"none", "listed"}, attempt : BOOLEAN, digest : BOOLEAN, sized : BOOLEAN]
    /\ status \in RowStatus
    /\ stored \in [target : Stored, archive : Stored]
    /\ migrations = 0

\* Mutated form: a file of the right size counts whatever its digest.
VerifyDiskFile_SizeOnly(digest, sized) ==
    LET found == IF stored.target # "none" THEN stored.target ELSE stored.archive
    IN  CASE found = "none"  -> FALSE
          [] found \in {"right", "sized"} -> TRUE
          [] found = "wrong" -> ~digest /\ ~sized

\* verifyDiskFile: the first directory that has the file decides.  Its size
\* counts when one is stated, its digest when one is recorded.
VerifyDiskFile(digest, sized) ==
    LET found == IF stored.target # "none" THEN stored.target ELSE stored.archive
    IN  CASE found = "none"  -> FALSE
          [] found = "right" -> TRUE
          [] found = "sized" -> ~digest
          [] found = "wrong" -> ~digest /\ ~sized

Import(verified) == IF verified THEN "IMPORT_SUCCESS" ELSE "RESET_PENDING"

\* Run, step 6: the commit of the record decides alone.
CommitDisposition ==
    IF old.commit = "listed" THEN Import(VerifyDiskFile(old.digest, old.sized)) ELSE "NONE"

\* Run, step 7: unfinished work is reset.
AttemptDisposition ==
    IF old.commit # "listed" /\ old.attempt THEN "RESET_PENDING" ELSE "NONE"

\* Run, step 8: a row the old spool left, as it was when the run began.
RecordDisposition ==
    IF old.commit # "listed" /\ status \in LegacyStatus
    THEN Import(VerifyDiskFile(old.digest, old.sized) /\ old.sized) ELSE "NONE"

\* Mutated form: a reset spares archived rows only.
Upsert_ResetsSuccess(row, disposition) ==
    CASE disposition = "NONE" -> row
      [] disposition = "IMPORT_SUCCESS" -> IF row = "archived" THEN row ELSE "success"
      [] disposition = "RESET_PENDING"  -> IF row = "archived" THEN row ELSE "pending"

\* Run, step 11: the upsert for one disposition.
Upsert(row, disposition) ==
    CASE disposition = "NONE" -> row
      [] disposition = "IMPORT_SUCCESS" -> IF row = "archived" THEN row ELSE "success"
      [] disposition = "RESET_PENDING"  -> IF row \in {"success", "archived"} THEN row ELSE "pending"

\* The row behind the items of one run, applied in their order.
Migrated ==
    Upsert(Upsert(Upsert(status, CommitDisposition), AttemptDisposition), RecordDisposition)

\* One committed run; it may drop the old tables.
Migrate ==
    /\ migrations < MaxMigrations
    /\ migrations' = migrations + 1
    /\ status' = Migrated
    /\ \/ UNCHANGED old
       \/ old' = [commit |-> "none", attempt |-> FALSE, digest |-> old.digest, sized |-> old.sized]
    /\ UNCHANGED stored

\* Everything the daemon does to the row between two runs: it downloads the
\* record as far as it comes, with any file at the path it publishes, and moves
\* the file of a finished one to the archive.  It knows no row of the old spool
\* and writes "archived" to its job, never to the row.
DaemonWorks ==
    /\ \/ /\ status \in Unfinished \cup {"absent"}
          /\ status' \in Unfinished \cup {"success"}
          /\ stored' \in {stored} \cup
                {[stored EXCEPT !.target = f] : f \in IF stored.target = "none" THEN Stored ELSE {}}
          /\ status' = "success" => stored'.target # "none"
       \/ /\ status = "success" /\ stored.target # "none" /\ stored.archive = "none"
          /\ stored' = [target |-> "none", archive |-> stored.target]
          /\ UNCHANGED status
    /\ UNCHANGED <<old, migrations>>

SpoolRowsNext == Migrate \/ DaemonWorks

SpoolRowsSpec == SpoolRowsInit /\ [][SpoolRowsNext]_spoolRowVars

-----------------------------------------------------------------------------
\* Unfinished spool work is never guessed to be done: a run makes a row success
\* only when the first file found at its path agrees with everything its entry
\* states, the size and the digest, and without a commit only when a size is
\* stated.  (A commit that states neither is believed for any file.)
SuccessIsVerified ==
    [][migrations' > migrations /\ status' # status /\ status' = "success" =>
         LET found == IF stored.target # "none" THEN stored.target ELSE stored.archive
         IN  /\ found # "none"
             /\ old.digest => found = "right"
             /\ old.sized => found \in {"right", "sized"}
             /\ old.commit = "none" => old.sized]_spoolRowVars

\* Running the migration again takes nothing back.  A row that is success or
\* archived stays it, and no row is left in a status of the old spool; a run
\* repeated at once changes nothing; and once the old tables are gone, no run
\* changes a row, whatever the daemon left it in.
MigrationIsFinal ==
    [][migrations' > migrations =>
         /\ status \in {"success", "archived"} => status' = status
         /\ status' \notin LegacyStatus
         /\ Migrated' = status'
         /\ migrations > 0 /\ old.commit = "none" /\ ~old.attempt => status' = status]_spoolRowVars
=============================================================================
