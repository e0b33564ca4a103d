------------------------------ MODULE Backoff ------------------------------
(***************************************************************************)
(* The retry delays of app/daemon/db.go, computed in 64-bit integers that  *)
(* wrap around.  FailDownload waits 60 * (1 << attempts) seconds, and      *)
(* FailArchiveJob 5 * (1 << (attempts - 1)), both capped at 30 minutes.    *)
(* There is no bound on the number of attempts: a row keeps its count      *)
(* across restarts and a job is never given up.                            *)
(*                                                                         *)
(* A word is the set of its one bits, bit 63 being the sign.               *)
(***************************************************************************)
EXTENDS Integers, FiniteSetsExt

CONSTANT MaxTries   \* bound on failures in a row

ASSUME TriesAssumption == MaxTries \in Nat

VARIABLES
    downloads,      \* attempts of a download record
    downloadDelay,  \* seconds until its next retry
    archives,       \* attempts of an archive job
    archiveDelay

backoffVars == <<downloads, downloadDelay, archives, archiveDelay>>

Sixty == {2, 3, 4, 5}
Five == {0, 2}

\* The product of a word and 1 << n, modulo 2^64.
Shifted(word, n) == {b + n : b \in word} \cap 0 .. 63

Negative(word) == 63 \in word

(***************************************************************************)
(* The value of a word as far as the cap can tell: -1 for every negative   *)
(* word, and 2048 for every word with a one at bit 11 or above.            *)
(***************************************************************************)
Value(word) ==
    IF Negative(word) THEN -1
    ELSE IF \E b \in word : b >= 11 THEN 2048
    ELSE MapThenSumSet(LAMBDA b : 2 ^ b, word)

Cap == 1800

\* FailDownload: only a value above the cap is replaced by the cap.
DownloadBackoff(attempts) ==
    LET backoff == Value(Shifted(Sixty, attempts))
    IN  IF backoff > Cap THEN Cap ELSE backoff

\* FailArchiveJob without its test for a wrapped value.
ArchiveBackoff_Unchecked(attempts) ==
    LET backoff == Value(Shifted(Five, attempts - 1))
    IN  IF backoff > Cap THEN Cap ELSE backoff

\* FailArchiveJob: a value above the cap, or not positive, becomes the cap.
ArchiveBackoff(attempts) ==
    LET backoff == Value(Shifted(Five, attempts - 1))
    IN  IF backoff > Cap \/ backoff <= 0 THEN Cap ELSE backoff

\* The delay is computed from the count before this failure.
FailDownload ==
    /\ downloads < MaxTries
    /\ downloads' = downloads + 1
    /\ downloadDelay' = DownloadBackoff(downloads)
    /\ UNCHANGED <<archives, archiveDelay>>

\* The delay is computed from the count that includes this failure.
FailArchiveJob ==
    /\ archives < MaxTries
    /\ archives' = archives + 1
    /\ archiveDelay' = ArchiveBackoff(archives + 1)
    /\ UNCHANGED <<downloads, downloadDelay>>

BackoffInit ==
    /\ downloads = 0
    /\ downloadDelay = 0
    /\ archives = 0
    /\ archiveDelay = 0

BackoffNext == FailDownload \/ FailArchiveJob

BackoffSpec == BackoffInit /\ [][BackoffNext]_backoffVars

-----------------------------------------------------------------------------
(***************************************************************************)
(* A record that fails again waits at least as long as before, at most 30  *)
(* minutes, and never becomes due at once: an archive job however often it *)
(* has failed, a download for 58 failures in a row.  From then on          *)
(* 60 << attempts wraps around to a value that is not positive, which      *)
(* FailDownload does not test for.                                         *)
(***************************************************************************)
FailuresBackOff ==
    [][/\ archives' # archives =>
            archiveDelay' >= archiveDelay /\ archiveDelay' \in 1 .. Cap
       /\ downloads' # downloads /\ downloads' <= 58 =>
            downloadDelay' >= downloadDelay /\ downloadDelay' \in 1 .. Cap]_backoffVars
=============================================================================
