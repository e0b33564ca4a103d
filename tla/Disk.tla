-------------------------------- MODULE Disk --------------------------------
(***************************************************************************)
(* The two file systems.  Every record owns four paths: on the SSD the     *)
(* final file and its sibling final.part, on the archive disk the archived *)
(* file and its sibling .moving.  Distinct records have distinct paths.    *)
(*                                                                         *)
(* CommitSiblingPart (internal/fscommit) renames a sibling onto a path     *)
(* that must not exist and then fsyncs the directory.  It can fail in two  *)
(* ways: "rename", before anything moved, and "sync", after the move: the  *)
(* caller sees an error although the file has its new name.  "read" is a   *)
(* failure of the caller to read a target that exists.                     *)
(***************************************************************************)
EXTENDS Process

VARIABLES
    part,           \* SSD: <final>.part
    final,          \* SSD: the published file
    moving,         \* archive: <dst>.moving
    hdd             \* archive: the archived file

diskVars == <<part, final, moving, hdd>>

CommitFailures == {"none", "rename", "sync", "read"}

\* Does CommitSiblingPart move src onto dst?
Moves(src, dst, failure) == dst = None /\ src # None /\ failure # "rename"

\* The error CommitSiblingPart returns for a sibling src and a target dst.
CommitError(src, dst, failure) ==
    IF dst # None THEN "exists"
    ELSE IF src = None \/ failure # "none" THEN "io"
    ELSE "none"

\* A failure is a fault, and hits only a commit that gets as far as it.
CommitFailure(src, dst, failure) ==
    CASE failure = "none"              -> NoFault
      [] failure \in {"rename", "sync"} -> dst = None /\ src # None /\ Fault
      [] failure = "read"              -> dst # None /\ Fault

(***************************************************************************)
(* EvaluateCommitSiblingPart: what a publisher concludes from the commit   *)
(* of a .part whose digest is sha and whose length is size.                *)
(***************************************************************************)
Decision(src, dst, size, sha, failure) ==
    CASE CommitError(src, dst, failure) = "none"   -> "success"
      [] CommitError(src, dst, failure) = "io"     -> "io"
      [] CommitError(src, dst, failure) = "exists" ->
            IF failure # "read" /\ Matches(dst, size, sha) THEN "success" ELSE "conflict"

(***************************************************************************)
(* The files after CommitSiblingPart and EvaluateCommitSiblingPart.  A     *)
(* .part is consumed by the move, or removed when the target already holds *)
(* the same content; it is preserved in every other case.                  *)
(***************************************************************************)
PublishedFile(src, dst, failure) == IF Moves(src, dst, failure) THEN src ELSE dst

RemainingPart(src, dst, size, sha, failure) ==
    IF \/ Moves(src, dst, failure)
       \/ dst # None /\ failure # "read" /\ Matches(dst, size, sha)
    THEN None ELSE src

DiskTypeOK ==
    /\ part   \in [Records -> Files]
    /\ final  \in [Records -> Files]
    /\ moving \in [Records -> Files]
    /\ hdd    \in [Records -> Files]

\* A fresh disk, except that files of other origin may occupy target paths.
DiskInit ==
    /\ part = [r \in Records |-> None]
    /\ moving = [r \in Records |-> None]
    /\ final \in [Records -> Contents \cup {None}]
    /\ hdd \in [Records -> IF ArchiveOn THEN Contents \cup {None} ELSE {None}]
=============================================================================
