------------------------------ MODULE UserStore ------------------------------
(***************************************************************************)
(* What the user store of rdesk_server promises: the file of accounts is   *)
(* what the server works with, or one change ahead of it, so that whoever  *)
(* dies between the two takes nothing with it that anybody has seen.       *)
(***************************************************************************)
EXTENDS Integers

CONSTANTS Users, None

VARIABLES
  accounts,      \* the accounts the server answers from
  file           \* the accounts a restart begins with

\* The revision of every account's data; None where there is no account.
Database == [Users -> Nat \cup {None}]

Added(db, u) == [db EXCEPT ![u] = 0]
Revised(db, u) == [db EXCEPT ![u] = db[u] + 1]
Removed(db, u) == [db EXCEPT ![u] = None]

\* One account of db is added, revised or removed.
Change(db, new) ==
  \E u \in Users : \/ db[u] = None /\ new = Added(db, u)
                   \/ db[u] # None /\ new \in {Revised(db, u), Removed(db, u)}

Init ==
  /\ accounts = [u \in Users |-> None]
  /\ file = accounts

\* The file gets one change of what the server works with.  What it was ahead
\* by before, and nobody was told of, is lost.
Write == Change(accounts, file') /\ UNCHANGED accounts

\* The change is seen: its call goes on, or the server starts again.
Publish == accounts' = file /\ UNCHANGED file

Next == Write \/ Publish

Spec == Init /\ [][Next]_<<accounts, file>>
=============================================================================
