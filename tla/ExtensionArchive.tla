-------------------------- MODULE ExtensionArchive --------------------------
(***************************************************************************)
(* The record of one extension in one workspace, and the runs that move    *)
(* the extension's rows to private storage and back                        *)
(* (common/extensions/archive.py), with the requests that switch it on and *)
(* off (services.py) and the entitlement sweep that pauses it              *)
(* (platform/services/entitlements.py).                                    *)
(*                                                                         *)
(* A run holds no lock between its steps.  A worker process performs one   *)
(* run at a time, step by step, and may die anywhere.  Time is kept as     *)
(* ages that stop counting at AgeLimit: nothing compares larger ones, and  *)
(* an age nothing reads is 0.                                              *)
(***************************************************************************)
EXTENDS Integers, FiniteSets, FiniteSetsExt

CONSTANTS
  Worker, Row, Table,
  TableOf,        \* the table each row belongs to
  MaxVersion,     \* bound: how often a row is written
  MaxJobs,        \* bound: restores waiting for a worker
  StuckAfter,     \* BFG_EXTENSION_ARCHIVE_STUCK_MINUTES
  ArchiveAfter,   \* archive_after_days
  RunLimit,       \* how old a run can get: by then it ended or was killed
  IgnoreAge,      \* does an operator pass --ignore-age?
  LateWrites      \* what a request, task or command the status does not stop
                  \* may still do to the rows: "create", "edit", "delete"

ASSUME ExtensionArchiveAssumption ==
  /\ IsFiniteSet(Row) /\ TableOf \in [Row -> Table]
  /\ MaxVersion \in Nat /\ MaxJobs \in Nat
  /\ StuckAfter \in Nat /\ ArchiveAfter \in Nat /\ RunLimit \in Nat
  /\ StuckAfter <= ArchiveAfter
  /\ IgnoreAge \in BOOLEAN
  /\ LateWrites \subseteq {"create", "edit", "delete"}

VARIABLES
  record,         \* the WorkspaceExtension row
  rows,           \* the tables: 0, or the version of the row
  archived,       \* the archive at archive_location
  issued,         \* primary keys the sequences have given out
  jobs,           \* finish_extension_restore tasks in the queue
  worker,         \* what each process is doing
  off             \* history: how long the extension has been switched off,
                  \* 0 while it is in use or archived

vars == <<record, rows, archived, issued, jobs, worker, off>>

-----------------------------------------------------------------------------

SwitchedOff == {"inactive", "paused"}
Busy == {"archiving", "restoring"}
Status == {"active", "archived"} \cup SwitchedOff \cup Busy

AgeLimit == ArchiveAfter + RunLimit
Age == 0 .. AgeLimit
Contents == [Row -> Nat]
Empty == [r \in Row |-> 0]

\* unpaid: status_reason is entitlements.PAUSED_REASON.  before and beforeAge:
\* previous_status and previous_status_changed_at of archive_state, forgotten
\* when nothing reads them any more.
Record == [status: Status, unpaid: BOOLEAN, age: Age,
           before: SwitchedOff, beforeAge: Age]

\* now: how long ago the run read the clock.  copy: the rows it exported or
\* read back, done: the tables it has exported, torn: storage lost some of it.
Run == [at: {"idle", "sweep", "stuck", "due", "export", "verify", "seal",
             "load", "failed", "unload", "pause"},
        now: Age, was: Status, copy: Contents, done: SUBSET Table,
        torn: BOOLEAN]

Idle == [at |-> "idle", now |-> 0, was |-> "active", copy |-> Empty,
         done |-> {}, torn |-> FALSE]

TypeOK ==
  /\ record \in Record
  /\ rows \in Contents /\ archived \in Contents
  /\ issued \subseteq Row
  /\ jobs \in Nat
  /\ worker \in [Worker -> Run]
  /\ off \in Age

Init ==
  /\ record = [status |-> "active", unpaid |-> FALSE, age |-> 0,
               before |-> "inactive", beforeAge |-> 0]
  /\ rows = Empty /\ archived = Empty
  /\ issued = {}
  /\ jobs = 0
  /\ worker = [w \in Worker |-> Idle]
  /\ off = 0

-----------------------------------------------------------------------------
(* Helpers *)

Older(age) == IF age < AgeLimit THEN age + 1 ELSE age

WithStatus(s, unpaid, age) ==
  record' = [status |-> s, unpaid |-> unpaid, age |-> age,
             before |-> "inactive", beforeAge |-> 0]

\* The worker's run, as it becomes.
Becomes(w, at, was, copy, done, torn) ==
  worker' = [worker EXCEPT ![w] =
    [at |-> at, now |-> worker[w].now, was |-> was, copy |-> copy,
     done |-> done, torn |-> torn]]

Goes(w, at) ==
  Becomes(w, at, worker[w].was, worker[w].copy, worker[w].done,
          worker[w].torn)

\* What a failed run read is not used again.
Fails(w, at) == Becomes(w, at, "active", Empty, {}, FALSE)

Ends(w) == worker' = [worker EXCEPT ![w] = Idle]

RowsOf(contents, t) == {r \in Row : TableOf[r] = t /\ contents[r] > 0}

SameContents == UNCHANGED <<rows, archived, issued>>

\* The rows an archive brings back onto the keys they had.
Onto(copy) == [r \in Row |-> IF copy[r] > 0 THEN copy[r] ELSE rows[r]]

-----------------------------------------------------------------------------
(* The extension's own rows, and the console *)

Create(r) ==
  /\ record.status = "active" \/ "create" \in LateWrites
  /\ r \notin issued
  /\ MaxVersion > 0
  /\ issued' = issued \cup {r}
  /\ rows' = [rows EXCEPT ![r] = 1]
  /\ UNCHANGED <<record, archived, jobs, worker, off>>

Edit(r) ==
  /\ record.status = "active" \/ "edit" \in LateWrites
  /\ rows[r] > 0 /\ rows[r] < MaxVersion
  /\ rows' = [rows EXCEPT ![r] = @ + 1]
  /\ UNCHANGED <<record, archived, issued, jobs, worker, off>>

Delete(r) ==
  /\ record.status = "active" \/ "delete" \in LateWrites
  /\ rows[r] > 0
  /\ rows' = [rows EXCEPT ![r] = 0]
  /\ UNCHANGED <<record, archived, issued, jobs, worker, off>>

\* Whether a prerequisite or the entitlement refuses it is left open.
Activate ==
  /\ record.status \in SwitchedOff
  /\ WithStatus("active", FALSE, 0)
  /\ off' = 0
  /\ SameContents
  /\ UNCHANGED <<jobs, worker>>

Deactivate ==
  /\ record.status \in {"active", "paused"}
  /\ WithStatus("inactive", FALSE, 0)
  /\ off' = 0
  /\ SameContents
  /\ UNCHANGED <<jobs, worker>>

\* begin_restore, and the task it queues (or the same request, going on).
BeginRestore ==
  /\ record.status = "archived"
  /\ jobs < MaxJobs
  /\ WithStatus("restoring", FALSE, 0)
  /\ jobs' = jobs + 1
  /\ SameContents
  /\ UNCHANGED <<worker, off>>

-----------------------------------------------------------------------------
(* The entitlement sweep: _pause_extensions reads which records are active *)
(* and writes them by id.                                                  *)

FindActive(w) ==
  /\ worker[w].at = "idle"
  /\ record.status = "active"
  /\ Goes(w, "pause")
  /\ SameContents
  /\ UNCHANGED <<record, jobs, off>>

Pause(w) ==
  /\ worker[w].at = "pause"
  /\ WithStatus("paused", TRUE, worker[w].now)
  /\ off' = worker[w].now
  /\ Ends(w)
  /\ SameContents
  /\ UNCHANGED jobs

-----------------------------------------------------------------------------
(* Archiving *)

BeginSweep(w) ==
  /\ worker[w].at = "idle"
  /\ Goes(w, "sweep")
  /\ SameContents
  /\ UNCHANGED <<record, jobs, off>>

\* Mutant: only archiving is looked for.
FindStuck_Archiving(w) ==
  /\ worker[w].at = "sweep"
  /\ IF /\ record.status = "archiving"
        /\ record.age - worker[w].now >= StuckAfter
       THEN Becomes(w, "stuck", record.status, Empty, {}, FALSE)
       ELSE Goes(w, "due")
  /\ SameContents
  /\ UNCHANGED <<record, jobs, off>>

\* release_stuck reads what has been busy for too long, without a lock.
FindStuck(w) ==
  /\ worker[w].at = "sweep"
  /\ IF /\ record.status \in Busy
        /\ record.age - worker[w].now >= StuckAfter
       THEN Becomes(w, "stuck", record.status, Empty, {}, FALSE)
       ELSE Goes(w, "due")
  /\ SameContents
  /\ UNCHANGED <<record, jobs, off>>

\* Mutant: a failed archive starts the clock again.
PutBack_RestartsClock ==
  IF record.status = "archiving"
    THEN WithStatus(record.before, FALSE, 0)
    ELSE WithStatus("archived", FALSE, 0)

\* _status_before and _moment_before.
PutBack ==
  IF record.status = "archiving"
    THEN WithStatus(record.before, FALSE, record.beforeAge)
    ELSE WithStatus("archived", FALSE, 0)

ReleaseStuck(w) ==
  /\ worker[w].at = "stuck"
  /\ IF record.status = worker[w].was THEN PutBack ELSE UNCHANGED record
  /\ Becomes(w, "due", "active", Empty, {}, FALSE)
  /\ SameContents
  /\ UNCHANGED <<jobs, off>>

\* _claim, under the record's lock.  started_at is the sweep's now.
Claim(w) ==
  /\ worker[w].at = "due"
  /\ record.status \in SwitchedOff
  /\ IgnoreAge \/ record.age - worker[w].now >= ArchiveAfter
  /\ record' = [status |-> "archiving", unpaid |-> FALSE,
                age |-> worker[w].now,
                before |-> record.status, beforeAge |-> record.age]
  /\ Goes(w, "export")
  /\ SameContents
  /\ UNCHANGED <<jobs, off>>

\* Nothing is due, or the rows are pointed at from outside.
EndSweep(w) ==
  /\ worker[w].at = "due"
  /\ Ends(w)
  /\ SameContents
  /\ UNCHANGED <<record, jobs, off>>

\* One table of _export, and the storage that may not keep what it is given.
Export(w, t) ==
  /\ worker[w].at = "export"
  /\ t \notin worker[w].done
  /\ \E torn \in BOOLEAN :
       Becomes(w, "export", "active",
               [r \in Row |-> IF TableOf[r] = t THEN rows[r]
                                                ELSE worker[w].copy[r]],
               worker[w].done \cup {t},
               worker[w].torn \/ torn)
  /\ SameContents
  /\ UNCHANGED <<record, jobs, off>>

\* The manifest is written last.
WriteManifest(w) ==
  /\ worker[w].at = "export"
  /\ worker[w].done = Table
  /\ Goes(w, "verify")
  /\ SameContents
  /\ UNCHANGED <<record, jobs, off>>

\* Mutant: what was written is not read back.
Verify_Trusts(w) ==
  /\ worker[w].at = "verify"
  /\ Goes(w, "seal")
  /\ SameContents
  /\ UNCHANGED <<record, jobs, off>>

\* _verify reads everything back.
Verify(w) ==
  /\ worker[w].at = "verify"
  /\ IF worker[w].torn THEN Fails(w, "failed") ELSE Goes(w, "seal")
  /\ SameContents
  /\ UNCHANGED <<record, jobs, off>>

\* Mutant: the delete is not checked against the export.
Counted_No(w) == TRUE

\* Every table lost as many rows as were exported of it.
Counted(w) ==
  \A t \in Table :
    Cardinality(RowsOf(rows, t)) = Cardinality(RowsOf(worker[w].copy, t))

\* _delete_and_seal, one transaction.
Seal(w) ==
  /\ worker[w].at = "seal"
  /\ record.status = "archiving"
  /\ Counted(w)
  /\ rows' = Empty
  /\ archived' = IF worker[w].torn THEN Empty ELSE worker[w].copy
  /\ WithStatus("archived", FALSE, 0)
  /\ off' = 0
  /\ Ends(w)
  /\ UNCHANGED <<issued, jobs>>

RefuseSeal(w) ==
  /\ worker[w].at = "seal"
  /\ record.status # "archiving" \/ ~ Counted(w)
  /\ Fails(w, "failed")
  /\ SameContents
  /\ UNCHANGED <<record, jobs, off>>

-----------------------------------------------------------------------------
(* Restoring *)

\* Mutant: the queue delivers a task it has already delivered.
FinishRestore_Twice(w) ==
  /\ worker[w].at = "idle"
  /\ jobs' = jobs - 1
  /\ IF record.status = "restoring"
       THEN Becomes(w, "load", "active", archived, {}, FALSE)
       ELSE UNCHANGED worker
  /\ SameContents
  /\ UNCHANGED <<record, off>>

\* finish_restore: the record is read without a lock and the archive at its
\* location read and checked.
FinishRestore(w) ==
  /\ jobs > 0
  /\ worker[w].at = "idle"
  /\ jobs' = jobs - 1
  /\ IF record.status = "restoring"
       THEN Becomes(w, "load", "active", archived, {}, FALSE)
       ELSE UNCHANGED worker
  /\ SameContents
  /\ UNCHANGED <<record, off>>

\* _load, one transaction.
Load(w) ==
  /\ worker[w].at = "load"
  /\ IF record.status = "restoring"
       THEN /\ rows' = Onto(worker[w].copy)
            /\ WithStatus("active", FALSE, 0)
            /\ Ends(w)
       ELSE /\ Fails(w, "unload")
            /\ UNCHANGED <<record, rows>>
  /\ UNCHANGED <<archived, issued, jobs, off>>

-----------------------------------------------------------------------------
(* Failures *)

\* Storage, a file or the database refuses a step: references from outside, a
\* schema that has moved, a missing or changed file.
Fail(w) ==
  /\ \/ worker[w].at \in {"export", "verify", "seal"} /\ Fails(w, "failed")
     \/ worker[w].at = "load" /\ Fails(w, "unload")
  /\ SameContents
  /\ UNCHANGED <<record, jobs, off>>

\* _release, after an archive ("failed") or a restore ("unload") that failed.
Release(w) ==
  /\ \/ worker[w].at = "failed" /\ record.status = "archiving" /\ PutBack
     \/ worker[w].at = "unload" /\ record.status = "restoring" /\ PutBack
     \/ worker[w].at = "failed" /\ record.status # "archiving"
        /\ UNCHANGED record
     \/ worker[w].at = "unload" /\ record.status # "restoring"
        /\ UNCHANGED record
  /\ Ends(w)
  /\ SameContents
  /\ UNCHANGED <<jobs, off>>

\* The process dies, and its transaction with it.
Crash(w) ==
  /\ worker[w].at # "idle"
  /\ Ends(w)
  /\ SameContents
  /\ UNCHANGED <<record, jobs, off>>

\* A queued task is lost.
LoseJob ==
  /\ jobs > 0
  /\ jobs' = jobs - 1
  /\ SameContents
  /\ UNCHANGED <<record, worker, off>>

\* Time passes; no run gets older than RunLimit.
Tick ==
  /\ \A w \in Worker : worker[w].now < RunLimit
  /\ record' = [
       status |-> record.status,
       unpaid |-> record.unpaid,
       age |-> IF record.status \in SwitchedOff \cup Busy
                 THEN Older(record.age) ELSE 0,
       before |-> record.before,
       beforeAge |-> IF record.status = "archiving"
                       THEN Older(record.beforeAge) ELSE 0]
  /\ worker' = [w \in Worker |->
       IF worker[w].at = "idle" THEN worker[w]
       ELSE [at |-> worker[w].at, now |-> worker[w].now + 1,
             was |-> worker[w].was, copy |-> worker[w].copy,
             done |-> worker[w].done, torn |-> worker[w].torn]]
  /\ off' = IF record.status \in SwitchedOff \cup {"archiving"}
              THEN Older(off) ELSE 0
  /\ SameContents
  /\ UNCHANGED jobs

-----------------------------------------------------------------------------

\* What a process does once it has begun.
Advance(w) ==
  \/ Pause(w)
  \/ FindStuck(w) \/ ReleaseStuck(w)
  \/ Claim(w) \/ EndSweep(w)
  \/ \E t \in Table : Export(w, t)
  \/ WriteManifest(w) \/ Verify(w)
  \/ Seal(w) \/ RefuseSeal(w)
  \/ Load(w)
  \/ Release(w)

Writes == \E r \in Row : Create(r) \/ Edit(r) \/ Delete(r)

Next ==
  \/ Writes
  \/ Activate \/ Deactivate \/ BeginRestore
  \/ \E w \in Worker :
       \/ FindActive(w) \/ BeginSweep(w) \/ FinishRestore(w)
       \/ Advance(w)
       \/ Fail(w) \/ Crash(w)
  \/ LoseJob
  \/ Tick

\* A process that runs goes on or dies, time passes, and the sweep is run
\* again and again (cron, or an operator) without dying every time before it
\* has released what is stuck.
Fairness ==
  /\ \A w \in Worker :
       /\ WF_vars(Advance(w))
       /\ SF_vars(BeginSweep(w))
       /\ SF_vars(FindStuck(w))
       /\ SF_vars(ReleaseStuck(w))
  /\ WF_vars(Tick)

Safety == Init /\ [][Next]_vars

Spec == Safety /\ Fairness

-----------------------------------------------------------------------------
(* Properties *)

Home == IF record.status \in {"archived", "restoring"} THEN "archive"
                                                       ELSE "tables"

\* The rows of the workspace, wherever they are.
TheRows == IF Home = "archive" THEN Onto(archived) ELSE rows

Data == INSTANCE ExtensionData WITH data <- TheRows, home <- Home

\* Archiving and restoring change nothing: the rows are in the tables or in
\* the archive the record names, all of them and as they last were.  No
\* failed, interrupted, repeated or overtaken run may break this.
KeepsData == Data!Spec

\* An archive that failed or was interrupted does not start the clock again:
\* an extension is due once it has been off for ArchiveAfter, however many
\* runs were made of it in the meantime (_moment_before).
OffSince ==
  /\ record.status \in SwitchedOff => record.age = off
  /\ record.status = "archiving" => record.beforeAge = off

\* A record a dead process left on archiving or restoring does not stay there.
ComesFree == record.status \in Busy ~> record.status \notin Busy

\* "Paying again is all it takes": an extension that is paused can be told by
\* its status_reason to be one a grant switches on again (_resume_if_paused).
\* Does not hold: an archive that fails or is put back overwrites the reason.
PausedIsUnpaid == record.status = "paused" => record.unpaid
=============================================================================
