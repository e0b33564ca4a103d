------------------------------- MODULE Vault -------------------------------
(***************************************************************************)
(* What the daemon promises, and nothing of how.  A record is promised     *)
(* once its content is stored; from then on a disk holds that content.     *)
(*                                                                         *)
(*   promised   the digest the database vouches for (status success)       *)
(*   ssd        the published file on the download disk                    *)
(*   archive    the file on the archive disk                               *)
(***************************************************************************)
CONSTANTS Records, Contents, None

VARIABLES promised, ssd, archive

vars == <<promised, ssd, archive>>

Slots == [Records -> Contents \cup {None}]

Init ==
    /\ promised = [r \in Records |-> None]
    /\ ssd \in Slots
    /\ archive \in Slots

\* A file appears on the download disk where there was none.
Put(r) ==
    /\ ssd[r] = None
    /\ \E c \in Contents : ssd' = [ssd EXCEPT ![r] = c]
    /\ UNCHANGED <<promised, archive>>

\* A stored file is vouched for, once.
Promise(r) ==
    /\ promised[r] = None
    /\ ssd[r] # None
    /\ promised' = [promised EXCEPT ![r] = ssd[r]]
    /\ UNCHANGED <<ssd, archive>>

\* The promised content is copied to the archive, over nothing.
Copy(r) ==
    /\ promised[r] # None
    /\ archive[r] = None
    /\ archive' = [archive EXCEPT ![r] = promised[r]]
    /\ UNCHANGED <<promised, ssd>>

\* The download disk lets go of a file the archive holds.
LetGo(r) ==
    /\ promised[r] # None
    /\ archive[r] = promised[r]
    /\ ssd' = [ssd EXCEPT ![r] = None]
    /\ UNCHANGED <<promised, archive>>

Next == \E r \in Records : Put(r) \/ Promise(r) \/ Copy(r) \/ LetGo(r)

Spec == Init /\ [][Next]_vars
=============================================================================
