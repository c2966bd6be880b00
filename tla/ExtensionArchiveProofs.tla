------------------------ MODULE ExtensionArchiveProofs ------------------------
(***************************************************************************)
(* For any rows, tables, workers, ages and late writes, and with any run   *)
(* failing or dying anywhere: the archive's clock is kept, and archiving   *)
(* and restoring implement ExtensionData but for three events (Spoils)     *)
(* that nothing in the code prevents.                                      *)
(***************************************************************************)
EXTENDS ExtensionArchive, FiniteSetTheorems, TLAPS

USE ExtensionArchiveAssumption

-----------------------------------------------------------------------------
(* Type correctness *)

\* What a step stores for one worker has its type.
LEMMA BecomesType ==
  ASSUME TypeOK, NEW w \in Worker,
         NEW at \in {"idle", "sweep", "stuck", "due", "export", "verify",
                     "seal", "load", "failed", "unload", "pause"},
         NEW was \in Status, NEW copy \in Contents,
         NEW done \in SUBSET Table, NEW torn \in BOOLEAN,
         Becomes(w, at, was, copy, done, torn)
  PROVE  worker' \in [Worker -> Run]
<1>1. worker[w].now \in Age
  BY DEF TypeOK, Run
<1> DEFINE next == [at |-> at, now |-> worker[w].now, was |-> was,
                    copy |-> copy, done |-> done, torn |-> torn]
<1>2. next \in Run
  BY <1>1 DEF Run
<1>3. worker' = [worker EXCEPT ![w] = next]
  BY DEF Becomes
<1> HIDE DEF next
<1> QED
  BY <1>2, <1>3 DEF TypeOK

LEMMA EmptyType == Empty \in Contents /\ Idle \in Run
<1>1. Empty \in Contents
  BY DEF Empty, Contents
<1>2. 0 \in Age /\ "active" \in Status
  BY DEF Age, AgeLimit, Status
<1> QED
  BY <1>1, <1>2 DEF Idle, Run

LEMMA GoesType ==
  ASSUME TypeOK, NEW w \in Worker,
         NEW at \in {"idle", "sweep", "stuck", "due", "export", "verify",
                     "seal", "load", "failed", "unload", "pause"},
         Goes(w, at) \/ Fails(w, at) \/ Ends(w)
  PROVE  worker' \in [Worker -> Run]
<1>1. CASE Goes(w, at)
  <2> DEFINE next == [at |-> at, now |-> worker[w].now, was |-> worker[w].was,
                      copy |-> worker[w].copy, done |-> worker[w].done,
                      torn |-> worker[w].torn]
  <2>1. worker[w] \in Run
    BY DEF TypeOK
  <2>2. next \in Run
    BY <2>1 DEF Run
  <2>3. worker' = [worker EXCEPT ![w] = next]
    BY <1>1 DEF Goes, Becomes
  <2> HIDE DEF next
  <2> QED
    BY <2>2, <2>3 DEF TypeOK
<1>2. CASE Fails(w, at)
  <2>1. "active" \in Status
    BY DEF Status
  <2> QED
    BY <1>2, <2>1, EmptyType, BecomesType DEF Fails
<1>3. CASE Ends(w)
  BY <1>3, EmptyType DEF Ends, TypeOK
<1> QED
  BY <1>1, <1>2, <1>3

LEMMA StatusType ==
  ASSUME NEW s \in Status, NEW unpaid \in BOOLEAN, NEW age \in Age,
         WithStatus(s, unpaid, age)
  PROVE  record' \in Record
<1>1. 0 \in Age
  BY DEF Age, AgeLimit
<1> QED
  BY <1>1 DEF WithStatus, Record, SwitchedOff

LEMMA AgesType ==
  /\ 0 \in Age
  /\ \A a \in Age : Older(a) \in Age /\ a \in Nat
BY DEF Age, AgeLimit, Older

LEMMA PutBackType ==
  ASSUME TypeOK, PutBack
  PROVE  record' \in Record
<1>1. record.before \in Status /\ record.beforeAge \in Age
  BY DEF TypeOK, Record, Status
<1>2. "archived" \in Status
  BY DEF Status
<1> QED
  BY <1>1, <1>2, AgesType, StatusType DEF PutBack

\* The steps on rows.
LEMMA WritesType ==
  ASSUME TypeOK, Writes
  PROVE  TypeOK'
<1> SUFFICES ASSUME NEW r \in Row, Create(r) \/ Edit(r) \/ Delete(r)
             PROVE  TypeOK'
  BY DEF Writes
<1> QED
  BY DEF TypeOK, Create, Edit, Delete, Contents

LEMMA RequestsType ==
  ASSUME TypeOK, Activate \/ Deactivate \/ BeginRestore \/ LoseJob
  PROVE  TypeOK'
<1>1. CASE Activate
  <2>1. record' \in Record
    BY <1>1, AgesType, StatusType DEF Activate, Status
  <2> QED
    BY <1>1, <2>1, AgesType DEF Activate, TypeOK, SameContents
<1>2. CASE Deactivate
  <2>1. record' \in Record
    BY <1>2, AgesType, StatusType DEF Deactivate, Status, SwitchedOff
  <2> QED
    BY <1>2, <2>1, AgesType DEF Deactivate, TypeOK, SameContents
<1>3. CASE BeginRestore
  <2>1. record' \in Record
    BY <1>3, AgesType, StatusType DEF BeginRestore, Status, Busy
  <2> QED
    BY <1>3, <2>1 DEF BeginRestore, TypeOK, SameContents
<1>4. CASE LoseJob
  BY <1>4 DEF LoseJob, TypeOK, SameContents
<1> QED
  BY <1>1, <1>2, <1>3, <1>4

\* The steps of a run up to the export.
LEMMA SweepType ==
  ASSUME TypeOK, NEW w \in Worker,
         \/ FindActive(w) \/ Pause(w) \/ BeginSweep(w)
         \/ FindStuck(w) \/ ReleaseStuck(w) \/ Claim(w) \/ EndSweep(w)
  PROVE  TypeOK'
<1>0. worker[w].now \in Age /\ record.status \in Status
      /\ record.age \in Age
  BY DEF TypeOK, Run, Record
<1>1. CASE FindActive(w) \/ BeginSweep(w) \/ EndSweep(w)
  <2>1. worker' \in [Worker -> Run]
    BY <1>1, GoesType DEF FindActive, BeginSweep, EndSweep
  <2> QED
    BY <1>1, <2>1
    DEF FindActive, BeginSweep, EndSweep, TypeOK, SameContents
<1>2. CASE Pause(w)
  <2>1. record' \in Record
    BY <1>0, <1>2, StatusType DEF Pause, Status, SwitchedOff
  <2>2. worker' \in [Worker -> Run]
    BY <1>2, GoesType DEF Pause
  <2> QED
    BY <1>0, <1>2, <2>1, <2>2 DEF Pause, TypeOK, SameContents
<1>3. CASE FindStuck(w)
  <2>1. worker' \in [Worker -> Run]
    <3>1. CASE Goes(w, "due")
      BY <3>1, GoesType
    <3>2. CASE Becomes(w, "stuck", record.status, Empty, {}, FALSE)
      BY <1>0, <3>2, EmptyType, BecomesType
    <3> QED
      BY <1>3, <3>1, <3>2 DEF FindStuck
  <2> QED
    BY <1>3, <2>1 DEF FindStuck, TypeOK, SameContents
<1>4. CASE ReleaseStuck(w)
  <2>1. record' \in Record
    BY <1>4, PutBackType DEF ReleaseStuck, TypeOK
  <2>2. worker' \in [Worker -> Run]
    BY <1>4, EmptyType, BecomesType DEF ReleaseStuck, Status
  <2> QED
    BY <1>4, <2>1, <2>2 DEF ReleaseStuck, TypeOK, SameContents
<1>5. CASE Claim(w)
  <2>1. record' \in Record
    BY <1>0, <1>5 DEF Claim, Record, Status, Busy
  <2>2. worker' \in [Worker -> Run]
    BY <1>5, GoesType DEF Claim
  <2> QED
    BY <1>5, <2>1, <2>2 DEF Claim, TypeOK, SameContents
<1> QED
  BY <1>1, <1>2, <1>3, <1>4, <1>5

\* Export to seal.
LEMMA ArchiveType ==
  ASSUME TypeOK, NEW w \in Worker,
         \/ \E t \in Table : Export(w, t)
         \/ WriteManifest(w) \/ Verify(w) \/ Seal(w) \/ RefuseSeal(w)
  PROVE  TypeOK'
<1>0. /\ worker[w].copy \in Contents /\ worker[w].done \in SUBSET Table
      /\ worker[w].torn \in BOOLEAN
  BY DEF TypeOK, Run
<1>1. ASSUME NEW t \in Table, Export(w, t)
      PROVE  TypeOK'
  <2> DEFINE copy == [r \in Row |-> IF TableOf[r] = t THEN rows[r]
                                                     ELSE worker[w].copy[r]]
  <2>1. copy \in Contents
    BY <1>0 DEF TypeOK, Contents
  <2>2. PICK torn \in BOOLEAN :
          Becomes(w, "export", "active", copy, worker[w].done \cup {t},
                  worker[w].torn \/ torn)
    BY <1>1 DEF Export
  <2> HIDE DEF copy
  <2>3. worker[w].done \cup {t} \in SUBSET Table /\ "active" \in Status
        /\ (worker[w].torn \/ torn) \in BOOLEAN
    BY <1>0 DEF Status
  <2>4. worker' \in [Worker -> Run]
    BY <2>1, <2>2, <2>3, BecomesType
  <2> QED
    BY <1>1, <2>4 DEF Export, TypeOK, SameContents
<1>2. CASE WriteManifest(w) \/ Verify(w) \/ RefuseSeal(w)
  <2>1. worker' \in [Worker -> Run]
    BY <1>2, GoesType DEF WriteManifest, Verify, RefuseSeal
  <2> QED
    BY <1>2, <2>1 DEF WriteManifest, Verify, RefuseSeal, TypeOK, SameContents
<1>3. CASE Seal(w)
  <2>1. record' \in Record
    BY <1>3, AgesType, StatusType DEF Seal, Status
  <2>2. worker' \in [Worker -> Run]
    BY <1>3, GoesType DEF Seal
  <2> QED
    BY <1>0, <1>3, <2>1, <2>2, EmptyType, AgesType DEF Seal, TypeOK
<1> QED
  BY <1>1, <1>2, <1>3

\* Restoring, failing and time.
LEMMA RestoreType ==
  ASSUME TypeOK, NEW w \in Worker,
         \/ FinishRestore(w) \/ Load(w) \/ Fail(w) \/ Release(w) \/ Crash(w)
  PROVE  TypeOK'
<1>1. CASE FinishRestore(w)
  <2>1. worker' \in [Worker -> Run]
    <3>1. CASE Becomes(w, "load", "active", archived, {}, FALSE)
      <4>1. "active" \in Status /\ archived \in Contents
        BY DEF TypeOK, Status
      <4> QED
        BY <3>1, <4>1, BecomesType
    <3>2. CASE UNCHANGED worker
      BY <3>2 DEF TypeOK
    <3> QED
      BY <1>1, <3>1, <3>2 DEF FinishRestore
  <2> QED
    BY <1>1, <2>1 DEF FinishRestore, TypeOK, SameContents
<1>2. CASE Load(w)
  <2>1. record' \in Record
    <3>1. CASE WithStatus("active", FALSE, 0)
      BY <3>1, AgesType, StatusType DEF Status
    <3>2. CASE UNCHANGED record
      BY <3>2 DEF TypeOK
    <3> QED
      BY <1>2, <3>1, <3>2 DEF Load
  <2>2. worker' \in [Worker -> Run]
    BY <1>2, GoesType DEF Load
  <2>3. worker[w].copy \in Contents
    BY DEF TypeOK, Run
  <2>4. Onto(worker[w].copy) \in Contents
    BY <2>3 DEF Onto, TypeOK, Contents
  <2> QED
    BY <1>2, <2>1, <2>2, <2>4 DEF Load, TypeOK
<1>3. CASE Fail(w) \/ Crash(w)
  <2>1. worker' \in [Worker -> Run]
    BY <1>3, GoesType DEF Fail, Crash
  <2> QED
    BY <1>3, <2>1 DEF Fail, Crash, TypeOK, SameContents
<1>4. CASE Release(w)
  <2>1. record' \in Record
    BY <1>4, PutBackType DEF Release, TypeOK
  <2>2. worker' \in [Worker -> Run]
    BY <1>4, GoesType DEF Release
  <2> QED
    BY <1>4, <2>1, <2>2 DEF Release, TypeOK, SameContents
<1> QED
  BY <1>1, <1>2, <1>3, <1>4

LEMMA TickType ==
  ASSUME TypeOK, Tick
  PROVE  TypeOK'
<1>1. record' \in Record
  <2>1. /\ record.age \in Age /\ record.beforeAge \in Age
        /\ record.status \in Status /\ record.unpaid \in BOOLEAN
        /\ record.before \in SwitchedOff
    BY DEF TypeOK, Record
  <2> QED
    BY <2>1, AgesType DEF Tick, Record
<1>2. worker' \in [Worker -> Run]
  <2>1. SUFFICES ASSUME NEW w \in Worker
                 PROVE  worker'[w] \in Run
    BY DEF Tick
  <2>2. worker[w] \in Run /\ worker[w].now < RunLimit
    BY DEF TypeOK, Tick
  <2>3. worker[w].now + 1 \in Age
    BY <2>2 DEF Run, Age, AgeLimit
  <2> QED
    BY <2>2, <2>3 DEF Tick, Run
<1>3. off' \in Age
  BY AgesType DEF Tick, TypeOK
<1> QED
  BY <1>1, <1>2, <1>3 DEF Tick, TypeOK, SameContents

LEMMA TypeStep ==
  ASSUME TypeOK, [Next]_vars
  PROVE  TypeOK'
<1>1. CASE Next
  BY <1>1, WritesType, RequestsType, SweepType, ArchiveType, RestoreType,
     TickType
  DEF Next, Advance
<1>2. CASE UNCHANGED vars
  BY <1>2 DEF vars, TypeOK
<1> QED
  BY <1>1, <1>2

LEMMA TypeInit ==
  ASSUME Init
  PROVE  TypeOK
<1>1. record \in Record
  BY AgesType DEF Init, Record, Status, SwitchedOff
<1> QED
  BY <1>1, AgesType, EmptyType DEF Init, TypeOK

\* Whatever fails or dies, records, rows and runs keep their types: ages stay
\* below the limit, a copy is a copy of rows, no task is delivered from an
\* empty queue.
THEOREM TypeCorrect == Safety => []TypeOK
<1> QED
  BY TypeInit, TypeStep, PTL DEF Safety

-----------------------------------------------------------------------------
(* The clock *)

LEMMA PutBackOff ==
  ASSUME TypeOK, OffSince, PutBack, record.status \in Busy, UNCHANGED off
  PROVE  OffSince'
<1>1. /\ record.status = "archiving" => record' =
           [status |-> record.before, unpaid |-> FALSE,
            age |-> record.beforeAge, before |-> "inactive", beforeAge |-> 0]
      /\ record.status # "archiving" => record' =
           [status |-> "archived", unpaid |-> FALSE, age |-> 0,
            before |-> "inactive", beforeAge |-> 0]
  BY DEF PutBack, WithStatus
<1>2. record.before \in SwitchedOff
  BY DEF TypeOK, Record
<1>3. CASE record.status = "archiving"
  BY <1>1, <1>2, <1>3 DEF OffSince, SwitchedOff
<1>4. CASE record.status # "archiving"
  BY <1>1, <1>4 DEF OffSince, SwitchedOff
<1> QED
  BY <1>3, <1>4

LEMMA OffStep ==
  ASSUME TypeOK, OffSince, [Next]_vars
  PROVE  OffSince'
<1>0. UNCHANGED <<record, off>> => OffSince'
  BY DEF OffSince
<1>1. CASE Activate \/ Deactivate \/ BeginRestore
  BY <1>1 DEF Activate, Deactivate, BeginRestore, WithStatus, OffSince,
     SwitchedOff
<1>2. ASSUME NEW w \in Worker, Pause(w)
      PROVE  OffSince'
  BY <1>2 DEF Pause, WithStatus, OffSince
<1>3. ASSUME NEW w \in Worker, ReleaseStuck(w)
      PROVE  OffSince'
  <2>1. CASE record.status \in Busy /\ PutBack
    BY <1>3, <2>1, PutBackOff DEF ReleaseStuck
  <2>2. CASE record.status \notin Busy /\ PutBack
    BY <2>2 DEF PutBack, WithStatus, OffSince, SwitchedOff, Busy
  <2>3. CASE UNCHANGED record
    BY <1>0, <1>3, <2>3 DEF ReleaseStuck
  <2> QED
    BY <1>3, <2>1, <2>2, <2>3 DEF ReleaseStuck
<1>4. ASSUME NEW w \in Worker, Claim(w)
      PROVE  OffSince'
  BY <1>4 DEF Claim, OffSince, SwitchedOff
<1>5. ASSUME NEW w \in Worker, Seal(w)
      PROVE  OffSince'
  BY <1>5 DEF Seal, WithStatus, OffSince, SwitchedOff
<1>6. ASSUME NEW w \in Worker, Load(w)
      PROVE  OffSince'
  <2>1. CASE WithStatus("active", FALSE, 0)
    BY <2>1 DEF WithStatus, OffSince, SwitchedOff
  <2> QED
    BY <1>0, <1>6, <2>1 DEF Load
<1>7. ASSUME NEW w \in Worker, Release(w)
      PROVE  OffSince'
  <2>1. CASE record.status \in Busy /\ PutBack
    BY <1>7, <2>1, PutBackOff DEF Release
  <2> QED
    BY <1>0, <1>7, <2>1 DEF Release, Busy
<1>8. CASE Tick
  <2>1. /\ record'.status = record.status
        /\ record'.age = IF record.status \in SwitchedOff \cup Busy
                           THEN Older(record.age) ELSE 0
        /\ record'.beforeAge = IF record.status = "archiving"
                                 THEN Older(record.beforeAge) ELSE 0
        /\ off' = IF record.status \in SwitchedOff \cup {"archiving"}
                    THEN Older(off) ELSE 0
    BY <1>8 DEF Tick
  <2> QED
    BY <2>1 DEF OffSince
<1>9. CASE Writes \/ LoseJob
  BY <1>0, <1>9 DEF Writes, Create, Edit, Delete, LoseJob
<1>10. ASSUME NEW w \in Worker,
              \/ FindActive(w) \/ BeginSweep(w) \/ FinishRestore(w)
              \/ FindStuck(w) \/ EndSweep(w)
              \/ \E t \in Table : Export(w, t)
              \/ WriteManifest(w) \/ Verify(w) \/ RefuseSeal(w)
              \/ Fail(w) \/ Crash(w)
       PROVE  OffSince'
  BY <1>0, <1>10
  DEF FindActive, BeginSweep, FinishRestore, FindStuck, EndSweep, Export,
      WriteManifest, Verify, RefuseSeal, Fail, Crash
<1>11. CASE UNCHANGED vars
  BY <1>0, <1>11 DEF vars
<1> QED
  BY <1>1, <1>2, <1>3, <1>4, <1>5, <1>6, <1>7, <1>8, <1>9, <1>10, <1>11
  DEF Next, Advance

\* An archive that failed, was interrupted or overtaken does not start the
\* clock again (_moment_before), whatever else happens to the record.
THEOREM ClockKept == Safety => []OffSince
<1>1. Init => OffSince
  BY DEF Init, OffSince, SwitchedOff
<1> QED
  BY <1>1, TypeInit, TypeStep, OffStep, PTL DEF Safety

-----------------------------------------------------------------------------
(* The rows *)

Exporting(w) == worker[w].at \in {"export", "verify", "seal"}

\* What the code does not prevent, and the rows do not survive: a row that a
\* run has exported, and may still seal, is edited or deleted; an archive is
\* sealed while a restore has the archive before it in hand; the entitlement
\* sweep pauses what has been archived since it looked.
Spoils ==
  \/ \E w \in Worker, r \in Row :
       Exporting(w) /\ worker[w].copy[r] > 0 /\ (Edit(r) \/ Delete(r))
  \/ \E w, v \in Worker : v # w /\ worker[v].at = "load" /\ Seal(w)
  \/ \E w \in Worker : Home = "archive" /\ Pause(w)

\* What the run has exported is what the workspace has.
Fresh(w) ==
  \A r \in Row : worker[w].copy[r] > 0 => TheRows[r] = worker[w].copy[r]

RunInv(w) ==
  /\ worker[w].at \in {"idle", "sweep", "stuck", "due", "pause"} =>
       worker[w].copy = Empty /\ ~ worker[w].torn
  /\ worker[w].at = "seal" => ~ worker[w].torn
  /\ worker[w].at = "stuck" => worker[w].was \in Busy
  /\ \A r \in Row : worker[w].copy[r] > 0 => r \in issued
  /\ Exporting(w) => Fresh(w)
  /\ worker[w].at = "load" => worker[w].copy = archived

RunsInv == \A w \in Worker : RunInv(w)

\* A key is given out once, and a row is never in both places.
KeysInv ==
  /\ \A r \in Row : rows[r] > 0 \/ archived[r] > 0 => r \in issued
  /\ Home = "archive" => \A r \in Row : archived[r] = 0 \/ rows[r] = 0

RowsInv == TypeOK /\ KeysInv /\ RunsInv

LEMMA Fields ==
  ASSUME TypeOK
  PROVE  /\ \A w \in Worker :
              /\ worker[w].now \in Nat /\ worker[w].copy \in Contents
              /\ \A r \in Row : worker[w].copy[r] \in Nat
              /\ worker[w].torn \in BOOLEAN
         /\ off \in Nat /\ off <= AgeLimit
         /\ \A r \in Row : rows[r] \in Nat /\ archived[r] \in Nat
         /\ record.status \in Status /\ record.before \in SwitchedOff
         /\ record.age \in Nat
BY DEF TypeOK, Run, Record, Contents, Age, AgeLimit

LEMMA EmptyRows == \A r \in Row : Empty[r] = 0
BY DEF Empty

\* A run is not disturbed by what leaves the rows where and as they are.
LEMMA RunKept ==
  ASSUME TypeOK, NEW v \in Worker, RunInv(v), worker'[v] = worker[v],
         Home' = Home, UNCHANGED <<rows, archived>>, issued \subseteq issued'
  PROVE  RunInv(v)'
<1>1. TheRows' = TheRows
  BY DEF TheRows, Onto
<1> QED
  BY <1>1 DEF RunInv, Fresh, Exporting

\* What a step leaves a worker with.
LEMMA Becoming ==
  ASSUME TypeOK, NEW w \in Worker,
         NEW at, NEW was, NEW copy, NEW done, NEW torn,
         Becomes(w, at, was, copy, done, torn)
  PROVE  /\ worker'[w] = [at |-> at, now |-> worker[w].now, was |-> was,
                          copy |-> copy, done |-> done, torn |-> torn]
         /\ worker'[w].at = at /\ worker'[w].now = worker[w].now
         /\ worker'[w].copy = copy /\ worker'[w].torn = torn
         /\ \A v \in Worker : v # w => worker'[v] = worker[v]
<1> DEFINE next == [at |-> at, now |-> worker[w].now, was |-> was,
                    copy |-> copy, done |-> done, torn |-> torn]
<1>1. worker' = [worker EXCEPT ![w] = next]
  BY DEF Becomes
<1>2. worker'[w] = next /\ \A v \in Worker : v # w => worker'[v] = worker[v]
  BY <1>1 DEF TypeOK
<1> QED
  BY <1>2

LEMMA Going ==
  ASSUME TypeOK, NEW w \in Worker, NEW at, Goes(w, at)
  PROVE  /\ worker'[w].at = at /\ worker'[w].now = worker[w].now
         /\ worker'[w].copy = worker[w].copy
         /\ worker'[w].torn = worker[w].torn
         /\ \A v \in Worker : v # w => worker'[v] = worker[v]
<1> DEFINE next == [at |-> at, now |-> worker[w].now, was |-> worker[w].was,
                    copy |-> worker[w].copy, done |-> worker[w].done,
                    torn |-> worker[w].torn]
<1>1. worker' = [worker EXCEPT ![w] = next]
  BY DEF Goes, Becomes
<1>2. worker'[w] = next /\ \A v \in Worker : v # w => worker'[v] = worker[v]
  <2> HIDE DEF next
  <2> QED
    BY <1>1 DEF TypeOK
<1> QED
  BY <1>2

LEMMA Failing ==
  ASSUME TypeOK, NEW w \in Worker, NEW at, Fails(w, at)
  PROVE  /\ worker'[w].at = at /\ worker'[w].now = worker[w].now
         /\ worker'[w].copy = Empty /\ worker'[w].torn = FALSE
         /\ \A v \in Worker : v # w => worker'[v] = worker[v]
<1> DEFINE next == [at |-> at, now |-> worker[w].now, was |-> "active",
                    copy |-> Empty, done |-> {}, torn |-> FALSE]
<1>1. worker' = [worker EXCEPT ![w] = next]
  BY DEF Fails, Becomes
<1>2. worker'[w] = next /\ \A v \in Worker : v # w => worker'[v] = worker[v]
  <2> HIDE DEF next
  <2> QED
    BY <1>1 DEF TypeOK
<1> QED
  BY <1>2

LEMMA Ending ==
  ASSUME TypeOK, NEW w \in Worker, Ends(w)
  PROVE  /\ worker'[w].at = "idle" /\ worker'[w].now = 0
         /\ worker'[w].copy = Empty /\ worker'[w].torn = FALSE
         /\ \A v \in Worker : v # w => worker'[v] = worker[v]
<1>1. worker'[w] = Idle /\ \A v \in Worker : v # w => worker'[v] = worker[v]
  BY DEF Ends, TypeOK
<1> QED
  BY <1>1 DEF Idle

\* A run that holds no copy has nothing to keep.
LEMMA EmptyHanded ==
  ASSUME TypeOK, NEW w \in Worker,
         worker'[w].at # "load",
         worker'[w].at = "stuck" => worker'[w].was \in Busy,
         worker'[w].copy = Empty, worker'[w].torn = FALSE
  PROVE  RunInv(w)'
BY EmptyRows DEF RunInv, Fresh, Exporting

\* The steps of one run that only look, or copy.
LEMMA QuietRuns ==
  ASSUME RowsInv, NEW w \in Worker,
         \/ FindActive(w) \/ BeginSweep(w) \/ FindStuck(w) \/ EndSweep(w)
         \/ WriteManifest(w) \/ Verify(w) \/ RefuseSeal(w)
         \/ FinishRestore(w) \/ Fail(w) \/ Crash(w)
  PROVE  RunsInv'
<1>1. UNCHANGED <<record, rows, archived, issued>> /\ Home' = Home
  BY DEF Home, FindActive, BeginSweep, FindStuck, EndSweep, WriteManifest, Verify,
     RefuseSeal, FinishRestore, Fail, Crash, SameContents
<1>t. TypeOK /\ \A v \in Worker : RunInv(v)
  BY DEF RowsInv, RunsInv
<1>2. \A v \in Worker : v # w => worker'[v] = worker[v]
  <2>1. CASE Ends(w)
    BY <1>t, <2>1, Ending
  <2>2. ASSUME NEW at, Goes(w, at) \/ Fails(w, at)
        PROVE  \A v \in Worker : v # w => worker'[v] = worker[v]
    BY <1>t, <2>2, Going, Failing
  <2>3. CASE UNCHANGED worker
    BY <2>3
  <2>4. CASE Becomes(w, "load", "active", archived, {}, FALSE)
    BY <1>t, <2>4, Becoming
  <2>5. CASE /\ Becomes(w, "stuck", record.status, Empty, {}, FALSE)
             /\ record.status \in Busy
    BY <1>t, <2>5, Becoming
  <2> QED
    BY <2>1, <2>2, <2>3, <2>4, <2>5
    DEF FindActive, BeginSweep, FindStuck, EndSweep, WriteManifest, Verify,
        RefuseSeal, FinishRestore, Fail, Crash
<1>3. \A v \in Worker : v # w => RunInv(v)'
  BY <1>1, <1>2, <1>t, RunKept
<1>w. RunInv(w) /\ TheRows' = TheRows
  BY <1>1, <1>t DEF TheRows, Onto
<1>4. RunInv(w)'
  <2>1. CASE Ends(w)
    BY <1>t, <2>1, Ending, EmptyHanded
  <2>2. ASSUME NEW at \in {"failed", "unload"}, Fails(w, at)
        PROVE  RunInv(w)'
    BY <1>t, <2>2, Failing, EmptyHanded
  <2>3. CASE FindActive(w)
    <3>1. worker'[w].at = "pause" /\ worker'[w].copy = worker[w].copy
          /\ worker'[w].torn = worker[w].torn /\ worker[w].at = "idle"
      BY <1>t, <2>3, Going DEF FindActive
    <3>2. worker'[w].copy = Empty /\ worker'[w].torn = FALSE
      BY <1>w, <3>1, <1>t, Fields DEF RunInv
    <3> QED
      BY <1>t, <3>1, <3>2, EmptyHanded
  <2>4. CASE BeginSweep(w) \/ (FindStuck(w) /\ Goes(w, "due"))
    <3>1. worker'[w].at \in {"sweep", "due"}
          /\ worker'[w].copy = worker[w].copy
          /\ worker'[w].torn = worker[w].torn
          /\ worker[w].at \in {"idle", "sweep"}
      BY <1>t, <2>4, Going DEF BeginSweep, FindStuck
    <3>2. worker'[w].copy = Empty /\ worker'[w].torn = FALSE
      BY <1>w, <3>1, <1>t, Fields DEF RunInv
    <3> QED
      BY <1>t, <1>w, <3>1, <3>2, EmptyHanded
  <2>5. CASE /\ Becomes(w, "stuck", record.status, Empty, {}, FALSE)
             /\ record.status \in Busy
    <3>1. worker'[w].at = "stuck" /\ worker'[w].copy = Empty
          /\ worker'[w].torn = FALSE /\ worker'[w].was = record.status
      <4> DEFINE was == record.status
      <4>1. Becomes(w, "stuck", was, Empty, {}, FALSE)
        BY <2>5
      <4> HIDE DEF was
      <4>2. /\ worker'[w].at = "stuck" /\ worker'[w].copy = Empty
            /\ worker'[w].torn = FALSE /\ worker'[w].was = was
        BY <1>t, <4>1 DEF Becomes, TypeOK
      <4> QED
        BY <4>2 DEF was
    <3> QED
      BY <1>t, <1>w, <2>5, <3>1, EmptyHanded
  <2>6. CASE WriteManifest(w) \/ (Verify(w) /\ Goes(w, "seal"))
    <3>1. worker'[w].at \in {"verify", "seal"}
          /\ worker'[w].copy = worker[w].copy
          /\ worker'[w].torn = worker[w].torn
          /\ worker[w].at \in {"export", "verify"}
          /\ (worker'[w].at = "seal" => ~ worker[w].torn)
      <4>1. CASE WriteManifest(w)
        BY <1>t, <4>1, Going DEF WriteManifest
      <4>2. CASE Verify(w) /\ Goes(w, "seal")
        <5>1. worker'[w].at = "seal"
          BY <1>t, <4>2, Going
        <5>2. CASE worker[w].torn
          <6>1. worker'[w].at = "failed"
            BY <1>t, <4>2, <5>2, Failing DEF Verify
          <6> QED
            BY <5>1, <6>1
        <5>3. CASE ~ worker[w].torn
          BY <1>t, <4>2, <5>1, <5>3, Going DEF Verify
        <5> QED
          BY <5>2, <5>3
      <4> QED
        BY <2>6, <4>1, <4>2
    <3> QED
      BY <1>1, <1>w, <3>1 DEF RunInv, Exporting, Fresh
  <2>7. CASE FinishRestore(w) /\ record.status = "restoring"
    <3>1. worker'[w].at = "load" /\ worker'[w].copy = archived
          /\ worker'[w].torn = FALSE
      BY <1>t, <2>7 DEF FinishRestore, Becomes, TypeOK
    <3>2. KeysInv
      BY DEF RowsInv
    <3> QED
      BY <1>1, <1>w, <3>1, <3>2 DEF RunInv, Exporting, KeysInv
  <2>8. CASE UNCHANGED worker
    BY <1>1, <1>t, <2>8, RunKept
  <2>9. CASE FindStuck(w)
    BY <2>4, <2>5, <2>9 DEF FindStuck
  <2>10. CASE Verify(w)
    BY <2>2, <2>6, <2>10 DEF Verify
  <2>11. CASE RefuseSeal(w) \/ Fail(w)
    BY <2>2, <2>11 DEF RefuseSeal, Fail
  <2>12. CASE FinishRestore(w)
    BY <2>7, <2>8, <2>12 DEF FinishRestore
  <2>13. CASE EndSweep(w) \/ Crash(w)
    BY <2>1, <2>13 DEF EndSweep, Crash
  <2> QED
    BY <2>3, <2>4, <2>6, <2>9, <2>10, <2>11, <2>12, <2>13
<1> QED
  BY <1>3, <1>4 DEF RunsInv

\* One table's export reads the rows as they are.
LEMMA ExportRuns ==
  ASSUME RowsInv, NEW w \in Worker, NEW t \in Table, Export(w, t)
  PROVE  RunsInv'
<1>t. TypeOK /\ KeysInv /\ \A v \in Worker : RunInv(v)
  BY DEF RowsInv, RunsInv
<1>1. UNCHANGED <<record, rows, archived, issued>> /\ Home' = Home
  BY DEF Export, SameContents, Home
<1> DEFINE copy == [r \in Row |-> IF TableOf[r] = t THEN rows[r]
                                                   ELSE worker[w].copy[r]]
<1>2. /\ worker'[w].at = "export" /\ worker'[w].copy = copy
      /\ worker[w].at = "export"
      /\ \A v \in Worker : v # w => worker'[v] = worker[v]
  <2>1. PICK torn \in BOOLEAN :
          Becomes(w, "export", "active", copy, worker[w].done \cup {t},
                  worker[w].torn \/ torn)
    BY DEF Export
  <2> DEFINE next == [at |-> "export", now |-> worker[w].now,
                      was |-> "active", copy |-> copy,
                      done |-> worker[w].done \cup {t},
                      torn |-> worker[w].torn \/ torn]
  <2>2. worker' = [worker EXCEPT ![w] = next]
    BY <2>1 DEF Becomes
  <2>3. worker'[w] = next /\ \A v \in Worker : v # w => worker'[v] = worker[v]
    <3> HIDE DEF next
    <3> QED
      BY <1>t, <2>2 DEF TypeOK
  <2> QED
    BY <2>3 DEF Export
<1>3. \A v \in Worker : v # w => RunInv(v)'
  BY <1>1, <1>2, <1>t, RunKept
<1>4. RunInv(w)'
  <2>1. \A r \in Row : copy[r] > 0 => copy[r] = rows[r] \/ copy[r] = worker[w].copy[r]
    OBVIOUS
  <2>2. \A r \in Row : copy[r] > 0 => r \in issued
    BY <1>t DEF RunInv, KeysInv
  <2>3. TheRows' = TheRows
    BY <1>1 DEF TheRows, Onto
  <2>4. \A r \in Row : rows[r] > 0 => TheRows[r] = rows[r]
    BY <1>t, Fields DEF TheRows, Onto, KeysInv
  <2>5. Fresh(w)'
    BY <1>2, <1>t, <2>1, <2>3, <2>4 DEF Fresh, RunInv, Exporting
  <2> QED
    BY <1>1, <1>2, <2>2, <2>5 DEF RunInv, Exporting
<1> QED
  BY <1>3, <1>4 DEF RunsInv

\* Switching the extension on, off and to restoring, and time.
LEMMA RequestRuns ==
  ASSUME RowsInv, Activate \/ Deactivate \/ BeginRestore \/ LoseJob
  PROVE  RunsInv'
<1>t. TypeOK /\ \A v \in Worker : RunInv(v)
  BY DEF RowsInv, RunsInv
<1>1. UNCHANGED <<rows, archived, issued, worker>>
  BY DEF Activate, Deactivate, BeginRestore, LoseJob, SameContents
<1>2. Home' = Home
  BY DEF Activate, Deactivate, BeginRestore, LoseJob, WithStatus, Home,
     SwitchedOff
<1> QED
  BY <1>t, <1>1, <1>2, RunKept DEF RunsInv

\* A record that is put back says where the rows are, as it did.
LEMMA PutBackHome ==
  ASSUME TypeOK, record.status \in Busy, PutBack
  PROVE  Home' = Home
<1>1. record.before \in SwitchedOff
  BY Fields
<1>2. CASE record.status = "archiving"
  <2>1. record'.status = record.before
    BY <1>2 DEF PutBack, WithStatus
  <2> QED
    BY <1>1, <1>2, <2>1 DEF Home, SwitchedOff
<1>3. CASE record.status = "restoring"
  <2>1. record'.status = "archived"
    BY <1>3 DEF PutBack, WithStatus
  <2> QED
    BY <1>3, <2>1 DEF Home
<1> QED
  BY <1>2, <1>3 DEF Busy

\* A step that leaves a run with nothing in its hands, and the rows alone.
LEMMA LettingGo ==
  ASSUME RowsInv, NEW w \in Worker,
         \/ ReleaseStuck(w) \/ Release(w) \/ Claim(w)
         \/ Pause(w) /\ Home = "tables"
  PROVE  /\ RunsInv' /\ Home' = Home /\ UNCHANGED <<rows, archived, issued>>
<1>t. TypeOK /\ \A v \in Worker : RunInv(v)
  BY DEF RowsInv, RunsInv
<1>1. UNCHANGED <<rows, archived, issued>>
  BY DEF ReleaseStuck, Release, Claim, Pause, SameContents
<1>2. Home' = Home
  <2>1. CASE ReleaseStuck(w) \/ Release(w)
    <3>1. UNCHANGED record \/ (record.status \in Busy /\ PutBack)
      BY <1>t, <2>1 DEF ReleaseStuck, Release, Busy, RunInv
    <3> QED
      BY <1>t, <3>1, PutBackHome DEF Home
  <2>2. CASE Claim(w)
    BY <2>2 DEF Claim, Home, SwitchedOff
  <2>3. CASE Pause(w) /\ Home = "tables"
    BY <2>3 DEF Pause, WithStatus, Home
  <2> QED
    BY <2>1, <2>2, <2>3
<1>3. /\ worker'[w].at \in {"idle", "due", "export"}
      /\ worker'[w].copy = Empty /\ worker'[w].torn = FALSE
      /\ \A v \in Worker : v # w => worker'[v] = worker[v]
  <2>1. CASE Release(w) \/ Pause(w)
    BY <1>t, <2>1, Ending DEF Release, Pause
  <2>2. CASE ReleaseStuck(w)
    <3>1. Becomes(w, "due", "active", Empty, {}, FALSE)
      BY <2>2 DEF ReleaseStuck
    <3> QED
      BY <1>t, <3>1 DEF Becomes, TypeOK
  <2>3. CASE Claim(w)
    <3>1. /\ Goes(w, "export") /\ worker[w].at = "due"
          /\ worker[w].torn \in BOOLEAN
      BY <1>t, <2>3, Fields DEF Claim
    <3>2. worker[w].copy = Empty /\ ~ worker[w].torn
      BY <1>t, <3>1 DEF RunInv
    <3> QED
      BY <1>t, <3>1, <3>2, Going
  <2> QED
    BY <2>1, <2>2, <2>3
<1>4. RunInv(w)'
  BY <1>t, <1>3, EmptyHanded
<1>5. \A v \in Worker : v # w => RunInv(v)'
  BY <1>t, <1>1, <1>2, <1>3, RunKept
<1> QED
  BY <1>1, <1>2, <1>4, <1>5 DEF RunsInv

\* What is edited or deleted is in no archive run's hands, and a new row has a
\* key no copy holds.
LEMMA WritesRuns ==
  ASSUME RowsInv, Writes, ~ Spoils
  PROVE  RunsInv'
<1>t. TypeOK /\ KeysInv /\ \A v \in Worker : RunInv(v)
  BY DEF RowsInv, RunsInv
<1>1. PICK r \in Row : Create(r) \/ Edit(r) \/ Delete(r)
  BY DEF Writes
<1>2. /\ UNCHANGED <<record, archived, worker>> /\ issued \subseteq issued'
      /\ \A s \in Row : s # r => rows'[s] = rows[s]
      /\ Home' = Home
  BY <1>1, <1>t DEF Create, Edit, Delete, TypeOK, Contents, Home
<1>3. \A s \in Row : s # r => TheRows'[s] = TheRows[s]
  BY <1>2 DEF TheRows, Onto
<1> SUFFICES ASSUME NEW v \in Worker
             PROVE  RunInv(v)'
  BY DEF RunsInv
<1>4. Exporting(v) => ~ (worker[v].copy[r] > 0)
  <2>1. CASE Create(r)
    BY <1>t, <2>1 DEF RunInv, Create
  <2>2. CASE Edit(r) \/ Delete(r)
    BY <2>2 DEF Spoils
  <2> QED
    BY <1>1, <2>1, <2>2
<1>5. Exporting(v) => Fresh(v)'
  BY <1>2, <1>3, <1>4, <1>t DEF RunInv, Fresh
<1> QED
  BY <1>2, <1>5, <1>t DEF RunInv, Exporting

\* As many rows as were exported, and every exported row as it was: the copy
\* is the rows.
LEMMA CopyIsWhole ==
  ASSUME TypeOK, NEW w \in Worker, Fresh(w), Counted(w), Home = "tables"
  PROVE  worker[w].copy = rows
<1> DEFINE copy == worker[w].copy
<1>1. copy \in Contents /\ rows \in Contents
  BY Fields DEF TypeOK
<1>2. ASSUME NEW r \in Row
      PROVE  copy[r] = rows[r]
  <2> DEFINE t == TableOf[r]
             A == RowsOf(rows, t)
             B == RowsOf(copy, t)
  <2>1. t \in Table
    OBVIOUS
  <2>2. B \in SUBSET A
    BY <1>1 DEF RowsOf, Fresh, TheRows, Contents
  <2>3. IsFiniteSet(A)
    <3>1. A \in SUBSET Row
      BY DEF RowsOf
    <3> HIDE DEF A
    <3> QED
      BY <3>1, FS_Subset
  <2>4. Cardinality(A) = Cardinality(B)
    BY <2>1 DEF Counted
  <2>5. A = B
    <3> HIDE DEF A, B
    <3> QED
      BY <2>2, <2>3, <2>4, FS_Subset
  <2>6. (r \in A <=> rows[r] > 0) /\ (r \in B <=> copy[r] > 0)
    BY DEF RowsOf
  <2>7. copy[r] > 0 => rows[r] = copy[r]
    BY DEF Fresh, TheRows
  <2>8. copy[r] \in Nat /\ rows[r] \in Nat
    BY <1>1 DEF Contents
  <2> QED
    BY <2>5, <2>6, <2>7, <2>8
<1> QED
  BY <1>1, <1>2 DEF Contents

\* What a run about to seal an extension holds is what the tables hold.
LEMMA SealedIsWhole ==
  ASSUME RowsInv, NEW w \in Worker, Seal(w)
  PROVE  /\ archived' = rows /\ rows' = Empty /\ issued' = issued
         /\ Home = "tables" /\ Home' = "archive" /\ TheRows' = TheRows
         /\ Ends(w)
<1>1. TypeOK /\ RunInv(w)
  BY DEF RowsInv, RunsInv
<1>2. /\ worker[w].at = "seal" /\ record.status = "archiving" /\ Counted(w)
      /\ record'.status = "archived" /\ Ends(w)
      /\ rows' = Empty /\ issued' = issued
      /\ archived' = IF worker[w].torn THEN Empty ELSE worker[w].copy
  BY DEF Seal, WithStatus
<1>3. Home = "tables" /\ Home' = "archive"
  BY <1>2 DEF Home
<1>4. Fresh(w) /\ ~ worker[w].torn
  BY <1>1, <1>2 DEF RunInv, Exporting
<1>5. archived' = rows
  BY <1>1, <1>2, <1>3, <1>4, CopyIsWhole
<1>6. TheRows' = TheRows
  <2>1. TheRows' = Onto(archived)' /\ TheRows = rows
    BY <1>3 DEF TheRows
  <2>2. TheRows' = [r \in Row |-> IF rows[r] > 0 THEN rows[r] ELSE 0]
    BY <1>2, <1>5, <2>1, EmptyRows DEF Onto
  <2> QED
    BY <1>1, <2>1, <2>2 DEF TypeOK, Contents
<1> QED
  BY <1>2, <1>3, <1>5, <1>6

\* A restored extension gets back what the archive it names holds.
LEMMA LoadedIsWhole ==
  ASSUME RowsInv, NEW w \in Worker, Load(w), record.status = "restoring"
  PROVE  /\ rows' = Onto(archived) /\ UNCHANGED <<archived, issued>>
         /\ Home = "archive" /\ Home' = "tables" /\ TheRows' = TheRows
<1>1. worker[w].copy = archived
  BY DEF RowsInv, RunsInv, RunInv, Load
<1> QED
  BY <1>1 DEF Load, WithStatus, Home, TheRows

\* The runs survive each other's moving the rows.
LEMMA MovingRuns ==
  ASSUME RowsInv, NEW w \in Worker,
         \/ Seal(w) /\ ~ Spoils
         \/ Load(w) /\ record.status = "restoring"
  PROVE  RunsInv'
<1>t. TypeOK /\ \A v \in Worker : RunInv(v)
  BY DEF RowsInv, RunsInv
<1>1. /\ TheRows' = TheRows /\ issued' = issued /\ Ends(w)
      /\ \A v \in Worker : v # w /\ worker[v].at = "load"
                             => archived' = archived
  BY SealedIsWhole, LoadedIsWhole DEF Load, Spoils
<1>2. /\ worker'[w].at = "idle" /\ worker'[w].copy = Empty
      /\ worker'[w].torn = FALSE
      /\ \A v \in Worker : v # w => worker'[v] = worker[v]
  BY <1>t, <1>1, Ending
<1>3. RunInv(w)'
  BY <1>t, <1>2, EmptyHanded
<1>4. \A v \in Worker : v # w => RunInv(v)'
  BY <1>1, <1>2, <1>t DEF RunInv, Exporting, Fresh
<1> QED
  BY <1>3, <1>4 DEF RunsInv

\* A restore that comes too late leaves everything as it is.
LEMMA LateLoadRuns ==
  ASSUME RowsInv, NEW w \in Worker, Load(w), record.status # "restoring"
  PROVE  /\ RunsInv' /\ Home' = Home /\ UNCHANGED <<rows, archived, issued>>
<1>t. TypeOK /\ \A v \in Worker : RunInv(v)
  BY DEF RowsInv, RunsInv
<1>1. /\ UNCHANGED <<record, rows, archived, issued>>
      /\ Home' = Home /\ Fails(w, "unload")
  BY DEF Load, Home
<1>2. /\ worker'[w].at = "unload" /\ worker'[w].copy = Empty
      /\ worker'[w].torn = FALSE
      /\ \A v \in Worker : v # w => worker'[v] = worker[v]
  BY <1>t, <1>1, Failing
<1>3. RunInv(w)'
  BY <1>t, <1>2, EmptyHanded
<1>4. \A v \in Worker : v # w => RunInv(v)'
  BY <1>1, <1>2, <1>t, RunKept
<1> QED
  BY <1>1, <1>3, <1>4 DEF RunsInv

LEMMA TickRuns ==
  ASSUME RowsInv, Tick
  PROVE  /\ RunsInv' /\ Home' = Home /\ UNCHANGED <<rows, archived, issued>>
<1>t. TypeOK /\ \A v \in Worker : RunInv(v)
  BY DEF RowsInv, RunsInv
<1>1. /\ UNCHANGED <<rows, archived, issued>>
      /\ record'.status = record.status /\ Home' = Home
  BY DEF Tick, SameContents, Home
<1>2. TheRows' = TheRows
  BY <1>1 DEF TheRows, Onto
<1>3. \A v \in Worker :
        /\ worker'[v].at = worker[v].at /\ worker'[v].copy = worker[v].copy
        /\ worker'[v].torn = worker[v].torn /\ worker'[v].was = worker[v].was
  BY DEF Tick
<1>4. RunsInv'
  BY <1>1, <1>2, <1>3, <1>t DEF RunsInv, RunInv, Exporting, Fresh
<1> QED
  BY <1>1, <1>4

\* Where the rows are kept changes in two steps only, and the runs keep what
\* they know.
LEMMA RowsStep ==
  ASSUME RowsInv, [Next]_vars, ~ Spoils
  PROVE  /\ RunsInv'
         /\ \/ Home' = Home /\ UNCHANGED <<rows, archived, issued>>
            \/ Home' = Home /\ Writes
            \/ \E w \in Worker : Seal(w)
            \/ \E w \in Worker : Load(w) /\ record.status = "restoring"
<1>1. CASE Activate \/ Deactivate \/ BeginRestore \/ LoseJob
  BY <1>1, RequestRuns
  DEF Activate, Deactivate, BeginRestore, LoseJob, WithStatus, Home,
      SwitchedOff, SameContents
<1>2. ASSUME NEW w \in Worker, ReleaseStuck(w) \/ Release(w) \/ Claim(w)
      PROVE  /\ RunsInv' /\ Home' = Home
             /\ UNCHANGED <<rows, archived, issued>>
  BY <1>2, LettingGo
<1>3. ASSUME NEW w \in Worker, Pause(w)
      PROVE  /\ RunsInv' /\ Home' = Home
             /\ UNCHANGED <<rows, archived, issued>>
  <2>1. Home = "tables"
    BY <1>3 DEF Spoils, Home
  <2> QED
    BY <1>3, <2>1, LettingGo
<1>4. ASSUME NEW w \in Worker,
             \/ FindActive(w) \/ BeginSweep(w) \/ FindStuck(w) \/ EndSweep(w)
             \/ WriteManifest(w) \/ Verify(w) \/ RefuseSeal(w)
             \/ FinishRestore(w) \/ Fail(w) \/ Crash(w)
      PROVE  /\ RunsInv' /\ Home' = Home
             /\ UNCHANGED <<rows, archived, issued>>
  BY <1>4, QuietRuns
  DEF FindActive, BeginSweep, FinishRestore, FindStuck, EndSweep,
      WriteManifest, Verify, RefuseSeal, Fail, Crash, SameContents, Home
<1>5. ASSUME NEW w \in Worker, NEW t \in Table, Export(w, t)
      PROVE  /\ RunsInv' /\ Home' = Home
             /\ UNCHANGED <<rows, archived, issued>>
  BY <1>5, ExportRuns DEF Export, SameContents, Home
<1>6. CASE Writes
  <2>1. Home' = Home
    BY <1>6 DEF Writes, Create, Edit, Delete, Home
  <2> QED
    BY <1>6, <2>1, WritesRuns
<1>7. ASSUME NEW w \in Worker, Seal(w)
      PROVE  RunsInv'
  BY <1>7, MovingRuns
<1>8. ASSUME NEW w \in Worker, Load(w)
      PROVE  /\ RunsInv'
             /\ \/ record.status = "restoring"
                \/ Home' = Home /\ UNCHANGED <<rows, archived, issued>>
  BY <1>8, MovingRuns, LateLoadRuns
<1>9. CASE UNCHANGED vars
  <2>1. Home' = Home /\ UNCHANGED <<rows, archived, issued, worker>>
    BY <1>9 DEF vars, Home
  <2> QED
    BY <2>1, RunKept DEF RowsInv, RunsInv
<1>10. CASE Tick
  BY <1>10, TickRuns
<1> QED
  BY <1>1, <1>2, <1>3, <1>4, <1>5, <1>6, <1>7, <1>8, <1>9, <1>10
  DEF Next, Advance

LEMMA KeysStep ==
  ASSUME RowsInv, [Next]_vars, ~ Spoils
  PROVE  KeysInv'
<1>t. TypeOK /\ KeysInv
  BY DEF RowsInv
<1>1. CASE Home' = Home /\ UNCHANGED <<rows, archived, issued>>
  BY <1>t, <1>1 DEF KeysInv
<1>2. CASE Home' = Home /\ Writes
  <2>1. PICK r \in Row : Create(r) \/ Edit(r) \/ Delete(r)
    BY <1>2 DEF Writes
  <2>2. UNCHANGED archived
        /\ \A s \in Row : s # r => rows'[s] = rows[s]
    BY <1>t, <2>1 DEF Create, Edit, Delete, TypeOK, Contents
  <2>3. CASE Create(r)
    <3>1. r \notin issued /\ issued' = issued \cup {r}
      BY <2>3 DEF Create
    <3>2. archived[r] = 0
      BY <1>t, <3>1, Fields DEF KeysInv
    <3> QED
      BY <1>t, <1>2, <2>2, <3>1, <3>2 DEF KeysInv
  <2>4. CASE Edit(r) \/ Delete(r)
    <3>1. issued' = issued /\ rows[r] > 0
      BY <2>4 DEF Edit, Delete
    <3>2. r \in issued /\ (Home = "archive" => archived[r] = 0)
      BY <1>t, <3>1, Fields DEF KeysInv
    <3> QED
      BY <1>t, <1>2, <2>2, <3>1, <3>2 DEF KeysInv
  <2> QED
    BY <2>1, <2>3, <2>4
<1>3. ASSUME NEW w \in Worker, Seal(w)
      PROVE  KeysInv'
  BY <1>t, <1>3, SealedIsWhole, EmptyRows, Fields DEF KeysInv
<1>4. ASSUME NEW w \in Worker, Load(w), record.status = "restoring"
      PROVE  KeysInv'
  <2>1. rows' = Onto(archived) /\ UNCHANGED <<archived, issued>>
        /\ Home' = "tables"
    BY <1>4, LoadedIsWhole
  <2>2. \A r \in Row : rows'[r] \in {archived[r], rows[r]}
    BY <2>1 DEF Onto
  <2> QED
    BY <1>t, <2>1, <2>2 DEF KeysInv
<1> QED
  BY <1>1, <1>2, <1>3, <1>4, RowsStep

\* Every step moves the rows, lets somebody change one, or leaves them alone.
LEMMA DataStep ==
  ASSUME RowsInv, [Next]_vars, ~ Spoils
  PROVE  [Data!Next]_(Data!vars)
<1>t. TypeOK /\ KeysInv
  BY DEF RowsInv
<1>c. rows \in Contents /\ archived \in Contents
  BY <1>t DEF TypeOK
<1>1. CASE Home' = Home /\ UNCHANGED <<rows, archived, issued>>
  BY <1>1 DEF Data!vars, TheRows, Onto
<1>2. CASE Home' = Home /\ Writes
  <2>1. PICK r \in Row : Create(r) \/ Edit(r) \/ Delete(r)
    BY <1>2 DEF Writes
  <2>2. CASE Create(r)
    <3>1. rows' = [rows EXCEPT ![r] = 1] /\ archived' = archived
          /\ r \notin issued
      BY <2>2 DEF Create
    <3>2. rows[r] = 0 /\ archived[r] = 0
      BY <1>t, <3>1, Fields DEF KeysInv
    <3>3. TheRows[r] = 0 /\ TheRows' = [TheRows EXCEPT ![r] = 1]
      <4>1. CASE Home = "archive"
        <5>1. TheRows = Onto(archived) /\ TheRows' = Onto(archived)'
          BY <1>2, <4>1 DEF TheRows
        <5> QED
          BY <1>c, <3>1, <3>2, <5>1 DEF Onto, Contents
      <4>2. CASE Home # "archive"
        BY <1>2, <3>1, <3>2, <4>2 DEF TheRows
      <4> QED
        BY <4>1, <4>2
    <3> QED
      BY <1>2, <3>3 DEF Data!Next, Data!Create
  <2>3. CASE Edit(r)
    <3>1. /\ rows[r] > 0 /\ rows' = [rows EXCEPT ![r] = @ + 1]
          /\ archived' = archived
      BY <2>3 DEF Edit
    <3>2. TheRows[r] > 0 /\ TheRows' = [TheRows EXCEPT ![r] = @ + 1]
      <4>1. CASE Home = "archive"
        <5>1. TheRows = Onto(archived) /\ TheRows' = Onto(archived)'
          BY <1>2, <4>1 DEF TheRows
        <5>2. archived[r] = 0
          BY <1>t, <3>1, <4>1, Fields DEF KeysInv
        <5> QED
          BY <1>c, <3>1, <5>1, <5>2 DEF Onto, Contents
      <4>2. CASE Home # "archive"
        BY <1>2, <3>1, <4>2 DEF TheRows
      <4> QED
        BY <4>1, <4>2
    <3> QED
      BY <1>2, <3>2 DEF Data!Next, Data!Edit
  <2>4. CASE Delete(r)
    <3>1. /\ rows[r] > 0 /\ rows' = [rows EXCEPT ![r] = 0]
          /\ archived' = archived
      BY <2>4 DEF Delete
    <3>2. TheRows[r] > 0 /\ TheRows' = [TheRows EXCEPT ![r] = 0]
      <4>1. CASE Home = "archive"
        <5>1. TheRows = Onto(archived) /\ TheRows' = Onto(archived)'
          BY <1>2, <4>1 DEF TheRows
        <5>2. archived[r] = 0
          BY <1>t, <3>1, <4>1, Fields DEF KeysInv
        <5> QED
          BY <1>c, <3>1, <5>1, <5>2 DEF Onto, Contents
      <4>2. CASE Home # "archive"
        BY <1>2, <3>1, <4>2 DEF TheRows
      <4> QED
        BY <4>1, <4>2
    <3> QED
      BY <1>2, <3>2 DEF Data!Next, Data!Delete
  <2> QED
    BY <2>1, <2>2, <2>3, <2>4
<1>3. ASSUME NEW w \in Worker, Seal(w)
      PROVE  Data!Next
  BY <1>3, SealedIsWhole DEF Data!Next, Data!Archive
<1>4. ASSUME NEW w \in Worker, Load(w), record.status = "restoring"
      PROVE  Data!Next
  BY <1>4, LoadedIsWhole DEF Data!Next, Data!Restore
<1> QED
  BY <1>1, <1>2, <1>3, <1>4, RowsStep

LEMMA RowsInit ==
  ASSUME Init
  PROVE  RowsInv /\ Data!Init
<1>1. TypeOK
  BY TypeInit
<1>2. \A w \in Worker : worker[w] = Idle
  BY DEF Init
<1>3. KeysInv
  BY EmptyRows DEF Init, KeysInv, Home
<1>4. RunsInv
  BY <1>2, EmptyRows DEF RunsInv, RunInv, Idle, Exporting
<1>5. Data!Init
  BY DEF Init, Data!Init, TheRows, Home, Empty
<1> QED
  BY <1>1, <1>3, <1>4, <1>5 DEF RowsInv

\* As long as none of the three events happens, no row is lost, changed or
\* brought back stale by archiving and restoring, whichever runs fail, die, are
\* overtaken, released while they live or forced on a fresh extension, and
\* whatever comes late.
THEOREM OnlySpoiledRows == Safety /\ [][~ Spoils]_vars => KeepsData
<1>1. RowsInv /\ [Next]_vars /\ [~ Spoils]_vars
        => RowsInv' /\ [Data!Next]_(Data!vars)
  <2>1. CASE UNCHANGED vars
    <3>1. UNCHANGED <<TheRows, Home>>
      BY <2>1 DEF vars, TheRows, Home, Onto
    <3>2. RowsInv => RowsInv'
      BY <2>1 DEF vars, RowsInv, TypeOK, KeysInv, RunsInv, RunInv, Exporting,
         Fresh, TheRows, Home, Onto
    <3> QED
      BY <3>1, <3>2 DEF Data!vars
  <2>2. CASE ~ Spoils
    BY <2>2, TypeStep, KeysStep, RowsStep, DataStep DEF RowsInv
  <2> QED
    BY <2>1, <2>2
<1>2. Init => RowsInv /\ Data!Init
  BY RowsInit
<1> QED
  BY <1>1, <1>2, PTL DEF Safety, KeepsData, Data!Spec
=============================================================================
