---------------------------- MODULE ExtensionData ----------------------------
(***************************************************************************)
(* What a workspace may expect of the rows of an extension it uses, stops  *)
(* using and takes up again (common/extensions/archive.py): they change    *)
(* when somebody changes them.  Being moved to the archive and back is not *)
(* a change.                                                               *)
(***************************************************************************)
EXTENDS Naturals

CONSTANT Row

VARIABLES
  data,           \* the rows of the workspace: 0, or the version of the row
  home            \* where the rows are kept: "tables" or "archive"

vars == <<data, home>>

Init ==
  /\ data = [r \in Row |-> 0]
  /\ home = "tables"

Create(r) ==
  /\ data[r] = 0
  /\ data' = [data EXCEPT ![r] = 1]
  /\ UNCHANGED home

\* A row that comes late is found in the tables whatever the home of the rest.
Edit(r) ==
  /\ data[r] > 0
  /\ data' = [data EXCEPT ![r] = @ + 1]
  /\ UNCHANGED home

Delete(r) ==
  /\ data[r] > 0
  /\ data' = [data EXCEPT ![r] = 0]
  /\ UNCHANGED home

Archive ==
  /\ home = "tables"
  /\ home' = "archive"
  /\ UNCHANGED data

Restore ==
  /\ home = "archive"
  /\ home' = "tables"
  /\ UNCHANGED data

Next ==
  \/ \E r \in Row : Create(r) \/ Edit(r) \/ Delete(r)
  \/ Archive
  \/ Restore

Spec == Init /\ [][Next]_vars
=============================================================================
