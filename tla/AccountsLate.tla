----------------------------- MODULE AccountsLate -----------------------------
(***************************************************************************)
(* Accounts, with a rename that outlives the call that asked for it: the   *)
(* handler is dropped while the file system's thread has not yet come to   *)
(* the rename, and user_store_write is released with the handler.          *)
(***************************************************************************)
EXTENDS Accounts

VARIABLE late    \* snapshots handed over to be renamed, whose call is gone

LateInit == Init /\ late = {}

DropLate(h) ==
  /\ At(h, "writing") /\ late = {}
  /\ late' = {calls[h].snap}
  /\ lock' = None /\ Goto(h, Idle)
  /\ UNCHANGED <<store, sessions, sessionFile, presence, history>>

LateRename ==
  /\ \E snap \in late : file' = snap /\ late' = late \ {snap}
  /\ UNCHANGED <<users, index, sessions, sessionFile, presence, lock, calls, history>>

LateNext ==
  \/ Live /\ UNCHANGED late
  \/ Restart /\ late' = {}
  \/ \E h \in Handlers : DropLate(h)
  \/ LateRename

LateSpec == LateInit /\ [][LateNext]_<<vars, late>>

\* A deletion that was answered is final: the account is not in the file that the
\* next start begins with (delete_account: the account is deleted for good).
DeletionFinal == \A u \in gone : file[u] = None
=============================================================================
