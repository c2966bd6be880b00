-------------------------- MODULE PlacementProofs --------------------------
(***************************************************************************)
(* Proofs about Placement, for any number of clusters, workspaces, keys    *)
(* and processes.                                                          *)
(*                                                                         *)
(* The inductive invariant says what a process may rely on at each wait:   *)
(* Sound, by the rows it holds; Apart, that no two hold one row or work    *)
(* for one key; and Ordered, that fences only grow.                        *)
(***************************************************************************)
EXTENDS Placement, FiniteSetTheorems, TLAPS

Deciding == {"claimed", "target", "due", "fenced", "admitted"}

Asking == Deciding \cup {"made", "conflict", "already", "full"}

None(k) == request[k].status = "none"

\* What a process in state run knows while it holds rows.
Sound(run, rows) ==
  /\ run.at \in Asking => answer[run.ask.key] = "claimed"
  /\ run.at \in Deciding => None(run.ask.key)
  /\ run.at \in Deciding \ {"claimed"} => ClusterRow(run.ask.target) \in rows
  /\ run.at = "target" => \A k \in run.due :
       ~ None(k) /\ request[k].target = run.ask.target
  /\ run.at \in {"due", "fenced", "admitted"} => \A k \in run.due :
       /\ Reserved(k) /\ request[k].target = run.ask.target
       /\ <<"request", k>> \in rows
  /\ run.at \in {"fenced", "admitted"} =>
       /\ <<"profile", run.ask.workspace>> \in rows
       /\ \A k \in run.due : <<"profile", request[k].workspace>> \in rows
  /\ run.at = "admitted" => /\ ReservedFor(run.ask.workspace) \subseteq run.due
                            /\ HasRoom(run.ask.target, run.due)
  /\ run.at \in {"joining", "rolling"} =>
       Reserved(run.key) /\ <<"request", run.key>> \in rows
  /\ run.at = "expiring" =>
       /\ Cardinality(run.rows) <= run.left
       /\ \A k \in run.rows : Reserved(k) /\ <<"request", k>> \in rows

Apart ==
  \A p, q \in Process : p # q =>
    /\ holds[p] \cap holds[q] = {}
    /\ worker[p].at \in Asking /\ worker[q].at \in Asking
         => worker[p].ask.key # worker[q].ask.key

\* A new key has no request, and no fence is ahead of its workspace's.
Ordered ==
  \A k \in Key : /\ answer[k] = "new" => None(k)
                 /\ ~ None(k) => request[k].fence <= fence[request[k].workspace]

IInv ==
  /\ TypeOK
  /\ Apart
  /\ \A p \in Process : Sound(worker[p], holds[p])
  /\ Ordered
  /\ Fenced

-----------------------------------------------------------------------------
(* Rows, and sets of keys *)

\* The request rows of some keys are theirs (the rows a query locks).
LEMMA RequestRow ==
  ASSUME NEW keys, NEW k
  PROVE  <<"request", k>> \in RequestRows(keys) <=> k \in keys
  BY DEF RequestRows

\* What is counted among the keys is a number, and fewer of them count less
\* (assigned_count and its like).
LEMMA Counting ==
  ASSUME NEW S \in SUBSET Key, NEW T \in SUBSET S
  PROVE  /\ IsFiniteSet(S) /\ Cardinality(S) \in Nat
         /\ Cardinality(T) \in Nat /\ Cardinality(T) <= Cardinality(S)
         /\ Cardinality(S) = 0 <=> S = {}
<1>1. IsFiniteSet(S)
  BY PlacementAssumption, FS_Subset
<1> QED BY <1>1, FS_Subset, FS_CardinalityType, FS_EmptySet

\* A workspace's fence passes by none or more, and by none just if nothing
\* of it is released (_expire_request).
LEMMA Releasing ==
  ASSUME NEW keys \in SUBSET Key, NEW w \in Workspace
  PROVE  /\ Released(keys, w) \in Nat
         /\ Released(keys, w) = 0 <=>
              \A k \in keys : ~ (Reserved(k) /\ request[k].workspace = w)
<1>1. keys \cap ReservedFor(w) \in SUBSET Key
  OBVIOUS
<1> QED BY <1>1, Counting DEF Released, ReservedFor

\* A workspace has one reservation (WorkspacePlacementRequest).
LEMMA OneEach ==
  ASSUME IInv, NEW k \in Key, NEW l \in Key, Reserved(k), Reserved(l),
         request[k].workspace = request[l].workspace
  PROVE  k = l
  BY DEF IInv, Fenced, Reserved

\* A cluster's room and workspaces are numbers (max_workspaces).
LEMMA Sizes ==
  ASSUME TypeOK, NEW c \in Cluster
  PROVE  cluster[c].assigned \in Nat /\ cluster[c].room \in Nat
<1>1. cluster[c].assigned \in 0 .. MaxAssigned /\ cluster[c].room \in Rooms
  BY DEF TypeOK
<1>2. cluster[c].assigned \in Nat
  BY <1>1, PlacementAssumption
<1>3. cluster[c].room \in Nat
  BY <1>1, PlacementAssumption
<1> QED BY <1>2, <1>3

-----------------------------------------------------------------------------
(* What a process holds and carries *)

\* The fields of a worker's record, by where it is.
LEMMA Fields ==
  ASSUME TypeOK, NEW p \in Process
  PROVE  /\ worker[p] \in Run
         /\ worker[p].at \in Asking => worker[p].ask \in Ask
         /\ worker[p].at \in Deciding =>
              worker[p] \in [at: Deciding, ask: Ask, due: SUBSET Key]
         /\ worker[p].at \in {"joining", "rolling"} => worker[p].key \in Key
         /\ worker[p].at \in {"sweep", "swept", "expiring"} =>
              /\ worker[p].todo \in SUBSET Cluster
              /\ worker[p].due \in SUBSET Key
              /\ worker[p].left \in Nat
         /\ worker[p].at \in {"swept", "expiring"} =>
              worker[p].target \in Cluster /\ worker[p].rows \in SUBSET Key
         /\ holds[p] \in SUBSET DBRow
<1>1. worker[p] \in Run /\ holds[p] \in SUBSET DBRow
  BY DEF TypeOK
<1> QED BY <1>1 DEF Run, Asking, Deciding

\* A step that writes the process's own record and locks, and no row, keeps
\* the invariant if the process knows what it should.
LEMMA Moves ==
  ASSUME IInv, NEW p \in Process, NEW run \in Run, NEW rows \in SUBSET DBRow,
         worker' = [worker EXCEPT ![p] = run],
         holds' = [holds EXCEPT ![p] = rows],
         \A q \in Process \ {p} : holds[q] \cap rows = {},
         Sound(run, rows),
         run.at \in Asking => /\ worker[p].at \in Asking
                              /\ worker[p].ask.key = run.ask.key,
         UNCHANGED <<fence, cluster, request, answer>>
  PROVE  IInv'
<1>1. TypeOK'
  BY DEF IInv, TypeOK
<1>2. /\ worker'[p] = run /\ holds'[p] = rows
      /\ \A q \in Process \ {p} : /\ worker'[q] = worker[q]
                                  /\ holds'[q] = holds[q]
  BY DEF IInv, TypeOK
<1>3. Apart'
  BY <1>2 DEF IInv, Apart
<1>4. \A q \in Process : Sound(worker[q], holds[q])'
  <2>1. \A q \in Process : Sound(worker'[q], holds'[q])
    BY <1>2 DEF IInv
  <2>2. /\ request' = request /\ answer' = answer /\ cluster' = cluster
        /\ \A w \in Workspace : ReservedFor(w)' = ReservedFor(w)
        /\ \A c \in Cluster, due \in SUBSET Key :
             HasRoom(c, due)' = HasRoom(c, due)
    BY DEF ReservedFor, ReservedOn, HasRoom, Reserved
  <2> SUFFICES ASSUME NEW q \in Process
               PROVE  Sound(worker[q], holds[q])'
    OBVIOUS
  <2>3. worker'[q].at \in Deciding =>
          /\ worker'[q].ask.workspace \in Workspace
          /\ worker'[q].ask.target \in Cluster
          /\ worker'[q].due \in SUBSET Key
    BY <1>1 DEF TypeOK, Run, Ask, Deciding
  <2> QED BY <2>1, <2>2, <2>3 DEF Sound, None, Reserved, Deciding
<1>5. Ordered' /\ Fenced'
  BY DEF IInv, Ordered, Fenced, None, Reserved
<1> QED BY <1>1, <1>3, <1>4, <1>5 DEF IInv

-----------------------------------------------------------------------------
(* Waiting for locks *)

\* create_reservation locks the target, and then what has lapsed there.
LEMMA LockingKeeps ==
  ASSUME IInv, NEW p \in Process, LockTarget(p) \/ LockDue(p)
  PROVE  IInv'
<1>1. CASE LockTarget(p)
  <2> DEFINE due == {k \in ReservedOn(worker[p].ask.target) :
                       request[k].lapsed}
             run == [at |-> "target", ask |-> worker[p].ask, due |-> due]
             rows == holds[p] \cup {ClusterRow(worker[p].ask.target)}
  <2>1. run \in Run /\ rows \in SUBSET DBRow
    <3>1. worker[p].at = "claimed"
      BY <1>1 DEF LockTarget
    <3>2. worker[p].ask \in Ask /\ worker[p].ask.target \in Cluster
      BY <3>1, Fields DEF IInv, Asking, Deciding, Ask
    <3>3. due \in SUBSET Key
      BY DEF ReservedOn
    <3>4. run \in Run
      BY <3>2, <3>3 DEF Run
    <3>5. rows \in SUBSET DBRow
      BY <3>2, Fields DEF IInv, DBRow, ClusterRow
    <3> QED BY <3>4, <3>5
  <2>2. Sound(run, rows)
    <3>1. Sound(worker[p], holds[p]) /\ worker[p].at = "claimed"
      BY <1>1 DEF IInv, LockTarget
    <3> QED BY <2>1, <3>1 DEF Sound, Asking, Deciding, ReservedOn, Reserved,
                              None
  <2>3. /\ worker' = [worker EXCEPT ![p] = run]
        /\ holds' = [holds EXCEPT ![p] = rows]
        /\ \A q \in Process \ {p} : holds[q] \cap rows = {}
    BY <1>1 DEF LockTarget, Lock, Free, Goto, IInv, Apart
  <2>4. worker[p].at \in Asking
    BY <1>1 DEF LockTarget, Asking, Deciding
  <2> QED BY <1>1, <2>1, <2>2, <2>3, <2>4, Moves DEF LockTarget
<1>2. CASE LockDue(p)
  <2> DEFINE due == {k \in worker[p].due : Reserved(k)}
             run == [at |-> "due", ask |-> worker[p].ask, due |-> due]
             rows == holds[p] \cup RequestRows(due)
  <2>1. run \in Run /\ rows \in SUBSET DBRow
    <3>1. worker[p].at = "target"
      BY <1>2 DEF LockDue
    <3>2. worker[p].ask \in Ask /\ due \in SUBSET Key
      BY <3>1, Fields DEF IInv, Asking, Deciding
    <3>3. run \in Run
      BY <3>2 DEF Run
    <3>4. rows \in SUBSET DBRow
      BY <3>2, Fields DEF IInv, DBRow, RequestRows
    <3> QED BY <3>3, <3>4
  <2>2. Sound(run, rows)
    <3>1. Sound(worker[p], holds[p]) /\ worker[p].at = "target"
      BY <1>2 DEF IInv, LockDue
    <3>2. \A k \in due : <<"request", k>> \in rows
      BY RequestRow
    <3> QED BY <2>1, <3>1, <3>2 DEF Sound, Asking, Deciding
  <2>3. /\ worker' = [worker EXCEPT ![p] = run]
        /\ holds' = [holds EXCEPT ![p] = rows]
        /\ \A q \in Process \ {p} : holds[q] \cap rows = {}
    BY <1>2 DEF LockDue, Lock, Free, Goto, IInv, Apart
  <2>4. worker[p].at \in Asking
    BY <1>2 DEF LockDue, Asking, Deciding
  <2> QED BY <1>2, <2>1, <2>2, <2>3, <2>4, Moves DEF LockDue
<1> QED BY <1>1, <1>2

\* _expire_request locks the profiles of what it expires, one after the other.
LEMMA LockExpiredKeeps ==
  ASSUME IInv, NEW p \in Process, LockExpired(p)
  PROVE  IInv'
<1>1. PICK row \in ProfileRows(Expires(p)) \ holds[p] : Lock(p, {row})
  BY DEF LockExpired
<1> DEFINE rows == holds[p] \cup {row}
<1>2. worker[p] \in Run /\ Sound(worker[p], holds[p])
  BY Fields DEF IInv
<1>3. rows \in SUBSET DBRow
  <2>1. \A k \in Expires(p) : Reserved(k) /\ k \in Key
    <3>1. CASE worker[p].at = "due"
      BY <1>2, <3>1, Fields DEF IInv, Expires, Sound, Deciding
    <3>2. CASE worker[p].at = "expiring"
      BY <1>2, <3>2, Fields DEF IInv, Expires, Sound
    <3> QED BY <3>1, <3>2 DEF LockExpired
  <2>2. \A k \in Expires(p) : request[k].workspace \in Workspace
    BY <2>1 DEF IInv, TypeOK, Request, Reserved
  <2>3. holds[p] \in SUBSET DBRow
    BY Fields DEF IInv
  <2> QED BY <2>2, <2>3 DEF ProfileRows, DBRow
<1>4. Sound(worker[p], rows)
  <2>1. \A held \in holds[p] : held \in rows
    OBVIOUS
  <2> HIDE DEF rows
  <2> QED BY <1>2, <2>1 DEF Sound
<1>5. /\ worker' = [worker EXCEPT ![p] = worker[p]]
      /\ holds' = [holds EXCEPT ![p] = rows]
      /\ \A q \in Process \ {p} : holds[q] \cap rows = {}
      /\ UNCHANGED <<fence, cluster, request, answer>>
  BY <1>1 DEF LockExpired, Lock, Free, IInv, Apart, TypeOK
<1> HIDE DEF rows
<1> QED BY <1>2, <1>3, <1>4, <1>5, Moves

\* _profile_for_update, and the fence that must be the one expected.
LEMMA LockProfileKeeps ==
  ASSUME IInv, NEW p \in Process, LockProfile(p)
  PROVE  IInv'
<1> DEFINE profile == <<"profile", worker[p].ask.workspace>>
<1>1. /\ worker[p].at = "due" /\ worker[p].at \in Asking
      /\ Sound(worker[p], holds[p])
      /\ ProfileRows(worker[p].due) \subseteq holds[p]
      /\ UNCHANGED <<fence, cluster, request, answer>>
  BY DEF IInv, LockProfile, Asking, Deciding
<1>2. CASE FenceSeen(p) = worker[p].ask.expected
  <2> DEFINE run == [worker[p] EXCEPT !.at = "fenced"]
             rows == holds[p] \cup {profile}
  <2>1. run = [at |-> "fenced", ask |-> worker[p].ask, due |-> worker[p].due]
    BY <1>1, Fields DEF IInv, Run
  <2>2. profile \in DBRow
    BY <1>1, Fields DEF IInv, Ask, DBRow
  <2>3. run \in Run /\ rows \in SUBSET DBRow
    BY <1>1, <2>1, <2>2, Fields DEF IInv, Run, Asking, Deciding
  <2>4. Sound(run, rows)
    <3>1. \A k \in worker[p].due : <<"profile", request[k].workspace>> \in rows
      BY <1>1 DEF ProfileRows
    <3> QED BY <1>1, <2>1, <3>1 DEF Sound, Asking, Deciding
  <2>5. /\ worker' = [worker EXCEPT ![p] = run]
        /\ holds' = [holds EXCEPT ![p] = rows]
        /\ \A q \in Process \ {p} : holds[q] \cap rows = {}
    BY <1>2 DEF LockProfile, Lock, Free, Goto, IInv, Apart
  <2> QED BY <1>1, <2>1, <2>3, <2>4, <2>5, Moves
<1>3. CASE FenceSeen(p) # worker[p].ask.expected
  <2> DEFINE run == [at |-> "conflict", ask |-> worker[p].ask]
  <2>1. run \in Run
    BY <1>1, Fields DEF IInv, Run
  <2>2. Sound(run, {})
    BY <1>1 DEF Sound, Asking, Deciding
  <2>3. /\ worker' = [worker EXCEPT ![p] = run]
        /\ holds' = [holds EXCEPT ![p] = {}]
    BY <1>3 DEF LockProfile, Unlock, Goto
  <2>4. /\ worker[p].ask.key = run.ask.key
        /\ {} \in SUBSET DBRow
        /\ \A q \in Process \ {p} : holds[q] \cap {} = {}
    OBVIOUS
  <2> HIDE DEF run
  <2> QED BY <1>1, <2>1, <2>2, <2>3, <2>4, Moves
<1> QED BY <1>2, <1>3

\* The counts of create_reservation admit the request or refuse it.
LEMMA DecidingKeeps ==
  ASSUME IInv, NEW p \in Process, Admit(p) \/ Refuse(p)
  PROVE  IInv'
<1>1. /\ worker[p].at = "fenced" /\ worker[p].at \in Asking
      /\ Sound(worker[p], holds[p])
      /\ UNCHANGED <<fence, cluster, request, answer>>
  BY DEF IInv, Admit, Refuse, Asking, Deciding
<1>2. CASE Admit(p)
  <2> DEFINE run == [worker[p] EXCEPT !.at = "admitted"]
  <2>1. run = [at |-> "admitted", ask |-> worker[p].ask,
               due |-> worker[p].due]
    BY <1>1, Fields DEF IInv, Run
  <2>2. run \in Run /\ holds[p] \in SUBSET DBRow
    BY <1>1, <2>1, Fields DEF IInv, Run, Asking, Deciding
  <2>3. Sound(run, holds[p])
    BY <1>1, <1>2, <2>1 DEF Sound, Asking, Deciding, Admit, Pending
  <2>4. /\ worker' = [worker EXCEPT ![p] = run]
        /\ holds' = [holds EXCEPT ![p] = holds[p]]
        /\ \A q \in Process \ {p} : holds[q] \cap holds[p] = {}
    BY <1>2 DEF Admit, Goto, IInv, Apart, TypeOK
  <2> QED BY <1>1, <2>1, <2>2, <2>3, <2>4, Moves
<1>3. CASE Refuse(p)
  <2> DEFINE run == [at |-> IF Pending(p) # {} THEN "already" ELSE "full",
                     ask |-> worker[p].ask]
  <2>1. run \in Run
    BY <1>1, Fields DEF IInv, Run
  <2>2. Sound(run, {})
    BY <1>1 DEF Sound, Asking, Deciding
  <2>3. /\ worker' = [worker EXCEPT ![p] = run]
        /\ holds' = [holds EXCEPT ![p] = {}]
    BY <1>3 DEF Refuse, Unlock, Goto
  <2> QED BY <1>1, <2>1, <2>2, <2>3, Moves
<1> QED BY <1>2, <1>3

\* rollback_reservation locks the request it is asked for.
LEMMA LockRequestKeeps ==
  ASSUME IInv, NEW p \in Process, NEW k \in Key, LockRequest(p, k)
  PROVE  IInv'
<1> DEFINE run == [at |-> "joining", key |-> k]
           rows == holds[p] \cup RequestRows({k})
<1>1. run \in Run /\ rows \in SUBSET DBRow
  BY Fields DEF IInv, Run, DBRow, RequestRows
<1>2. Sound(run, rows)
  <2>1. Reserved(k) /\ <<"request", k>> \in rows
    BY RequestRow DEF LockRequest
  <2> QED BY <2>1 DEF Sound, Asking, Deciding
<1>3. /\ worker' = [worker EXCEPT ![p] = run]
      /\ holds' = [holds EXCEPT ![p] = rows]
      /\ \A q \in Process \ {p} : holds[q] \cap rows = {}
      /\ UNCHANGED <<fence, cluster, request, answer>>
  BY DEF LockRequest, Lock, Free, Goto, IInv, Apart
<1>4. run.at \notin Asking
  BY DEF Asking, Deciding
<1> HIDE DEF run, rows
<1> QED BY <1>1, <1>2, <1>3, <1>4, Moves

\* What is joined to the request is locked with it.
LEMMA LockJoinedKeeps ==
  ASSUME IInv, NEW p \in Process, LockJoined(p)
  PROVE  IInv'
<1> DEFINE k == worker[p].key
           run == [at |-> "rolling", key |-> k]
           rows == holds[p] \cup {ClusterRow(request[k].target)}
<1>1. worker[p].at = "joining" /\ Sound(worker[p], holds[p])
  BY DEF IInv, LockJoined
<1>2. k \in Key /\ Reserved(k) /\ <<"request", k>> \in holds[p]
  BY <1>1, Fields DEF IInv, Sound
<1>3. run \in Run /\ rows \in SUBSET DBRow
  <2>1. request[k].target \in Cluster
    BY <1>2 DEF IInv, TypeOK, Request, Reserved
  <2>2. run \in Run
    BY <1>2 DEF Run
  <2>3. rows \in SUBSET DBRow
    BY <2>1, Fields DEF IInv, DBRow, ClusterRow
  <2> QED BY <2>2, <2>3
<1>4. /\ worker' = [worker EXCEPT ![p] = run]
      /\ holds' = [holds EXCEPT ![p] = rows]
      /\ \A q \in Process \ {p} : holds[q] \cap rows = {}
      /\ UNCHANGED <<fence, cluster, request, answer>>
  BY DEF LockJoined, Lock, Free, Goto, IInv, Apart
<1>5. Sound(run, rows) /\ run.at \notin Asking
  BY <1>2 DEF Sound, Asking, Deciding
<1> HIDE DEF run, rows
<1> QED BY <1>3, <1>4, <1>5, Moves

\* A sweep begins and ends, and a transaction is given up, with no row held.
LEMMA RestingKeeps ==
  ASSUME IInv, NEW p \in Process,
         BeginSweep(p) \/ EndSweep(p) \/ Crash(p)
  PROVE  IInv'
<1>1. CASE BeginSweep(p)
  <2> DEFINE due == {k \in Key : Reserved(k) /\ request[k].lapsed}
             run == [at |-> "sweep", due |-> due, left |-> Limit,
                     todo |-> {request[k].target : k \in due}]
  <2>1. run \in Run /\ holds[p] \in SUBSET DBRow
    <3>1. \A k \in due : request[k].target \in Cluster
      BY DEF IInv, TypeOK, Request, Reserved
    <3> QED BY <3>1, Fields, PlacementAssumption DEF IInv, Run
  <2>2. Sound(run, holds[p]) /\ run.at \notin Asking
    BY DEF Sound, Asking, Deciding
  <2>3. /\ worker' = [worker EXCEPT ![p] = run]
        /\ holds' = [holds EXCEPT ![p] = holds[p]]
        /\ \A q \in Process \ {p} : holds[q] \cap holds[p] = {}
        /\ UNCHANGED <<fence, cluster, request, answer>>
    BY <1>1 DEF BeginSweep, Goto, IInv, TypeOK, Apart
  <2> HIDE DEF run
  <2> QED BY <2>1, <2>2, <2>3, Moves
<1>2. CASE EndSweep(p) \/ Crash(p)
  <2>1. PICK rows \in {{}, holds[p]} :
          /\ worker' = [worker EXCEPT ![p] = Idle]
          /\ holds' = [holds EXCEPT ![p] = rows]
          /\ UNCHANGED <<fence, cluster, request, answer>>
    BY <1>2 DEF EndSweep, Crash, Unlock, Goto, IInv, TypeOK
  <2>2. Idle \in Run /\ Sound(Idle, rows) /\ Idle.at \notin Asking
    BY DEF Idle, Run, Sound, Asking, Deciding
  <2>3. /\ rows \in SUBSET DBRow
        /\ \A q \in Process \ {p} : holds[q] \cap rows = {}
    BY Fields DEF IInv, Apart
  <2> QED BY <2>1, <2>2, <2>3, Moves
<1> QED BY <1>1, <1>2

\* A sweep locks a cluster, and then what it will expire there.
LEMMA SweepingKeeps ==
  ASSUME IInv, NEW p \in Process, SweepTarget(p) \/ SweepRows(p)
  PROVE  IInv'
<1>1. CASE SweepTarget(p)
  <2>1. PICK c \in worker[p].todo :
          /\ Lock(p, {ClusterRow(c)})
          /\ Goto(p, [at |-> "swept", due |-> worker[p].due,
                      left |-> worker[p].left, todo |-> worker[p].todo \ {c},
                      target |-> c, rows |-> {}])
    BY <1>1 DEF SweepTarget
  <2> DEFINE run == [at |-> "swept", due |-> worker[p].due,
                     left |-> worker[p].left, todo |-> worker[p].todo \ {c},
                     target |-> c, rows |-> {}]
             rows == holds[p] \cup {ClusterRow(c)}
  <2>2. /\ c \in Cluster /\ worker[p].todo \in SUBSET Cluster
        /\ worker[p].due \in SUBSET Key /\ worker[p].left \in Nat
    BY <1>1, Fields DEF IInv, SweepTarget
  <2>3. run \in Run
    BY <2>2 DEF Run
  <2>4. rows \in SUBSET DBRow
    BY <2>2, Fields DEF IInv, DBRow, ClusterRow
  <2>5. Sound(run, rows) /\ run.at \notin Asking
    BY DEF Sound, Asking, Deciding
  <2>6. /\ worker' = [worker EXCEPT ![p] = run]
        /\ holds' = [holds EXCEPT ![p] = rows]
        /\ \A q \in Process \ {p} : holds[q] \cap rows = {}
        /\ UNCHANGED <<fence, cluster, request, answer>>
    BY <1>1, <2>1 DEF SweepTarget, Lock, Free, Goto, IInv, Apart
  <2> HIDE DEF run, rows
  <2> QED BY <2>3, <2>4, <2>5, <2>6, Moves
<1>2. CASE SweepRows(p)
  <2> DEFINE due == worker[p].due \cap ReservedOn(worker[p].target)
  <2>1. PICK keys \in SUBSET due :
          /\ \/ keys = due /\ Cardinality(due) <= worker[p].left
             \/ Cardinality(keys) = worker[p].left
          /\ Lock(p, RequestRows(keys))
          /\ Goto(p, [worker[p] EXCEPT !.at = "expiring", !.rows = keys])
    BY <1>2 DEF SweepRows
  <2> DEFINE run == [worker[p] EXCEPT !.at = "expiring", !.rows = keys]
             rows == holds[p] \cup RequestRows(keys)
  <2>2. /\ worker[p] \in [at: {"swept", "expiring"}, todo: SUBSET Cluster,
                          due: SUBSET Key, left: Nat, target: Cluster,
                          rows: SUBSET Key]
    <3>1. worker[p].at = "swept" /\ worker[p] \in Run
      BY <1>2, Fields DEF SweepRows, IInv
    <3> QED BY <3>1 DEF Run
  <2>3. /\ run \in [at: {"swept", "expiring"}, todo: SUBSET Cluster,
                    due: SUBSET Key, left: Nat, target: Cluster,
                    rows: SUBSET Key]
        /\ run.at = "expiring" /\ run.rows = keys /\ run.left = worker[p].left
    BY <2>2
  <2>4. run \in Run /\ rows \in SUBSET DBRow
    BY <2>2, <2>3, Fields DEF IInv, Run, DBRow, RequestRows
  <2>5. Sound(run, rows) /\ run.at \notin Asking
    <3>1. Cardinality(keys) <= worker[p].left
      BY <2>1, <2>2
    <3>2. \A k \in keys : Reserved(k) /\ <<"request", k>> \in rows
      BY RequestRow DEF ReservedOn
    <3> QED BY <2>3, <3>1, <3>2 DEF Sound, Asking, Deciding
  <2>6. /\ worker' = [worker EXCEPT ![p] = run]
        /\ holds' = [holds EXCEPT ![p] = rows]
        /\ \A q \in Process \ {p} : holds[q] \cap rows = {}
        /\ UNCHANGED <<fence, cluster, request, answer>>
    BY <1>2, <2>1 DEF SweepRows, Lock, Free, Goto, IInv, Apart
  <2> HIDE DEF run, rows
  <2> QED BY <2>4, <2>5, <2>6, Moves
<1> QED BY <1>1, <1>2

-----------------------------------------------------------------------------
(* Writing rows *)

\* What a request becomes when p writes it: nothing, released under its row
\* lock, or the reservation p was admitted for.
Written(p, k) ==
  \/ request'[k] = request[k]
  \/ /\ Reserved(k) /\ <<"request", k>> \in holds[p]
     /\ request'[k].status \in {"rolled_back", "expired"}
     /\ request'[k].target = request[k].target
     /\ request'[k].workspace = request[k].workspace
  \/ /\ worker[p].at = "admitted" /\ None(k) /\ k = worker[p].ask.key
     /\ request'[k].target = worker[p].ask.target
     /\ request'[k].workspace = worker[p].ask.workspace

\* What p writes under its locks leaves what others know
\* (select_for_update, everywhere in placement_queue.py).
LEMMA OthersKnow ==
  ASSUME IInv, TypeOK', NEW p \in Process, NEW q \in Process \ {p},
         worker'[q] = worker[q], holds'[q] = holds[q],
         cluster' = cluster, answer' = answer,
         \A k \in Key : Written(p, k)
  PROVE  Sound(worker[q], holds[q])'
<1> DEFINE run == worker[q]
           rows == holds[q]
<1>1. /\ Sound(run, rows) /\ Sound(worker[p], holds[p])
      /\ rows \cap holds[p] = {}
      /\ run.at \in Asking /\ worker[p].at \in Asking
           => run.ask.key # worker[p].ask.key
  BY DEF IInv, Apart
<1>2. /\ run.at \in Asking => run.ask \in Ask
      /\ run.at \in Deciding => run.due \in SUBSET Key
      /\ run.at \in {"joining", "rolling"} => run.key \in Key
      /\ run.at \in {"swept", "expiring"} => run.rows \in SUBSET Key
  BY Fields DEF IInv
<1>3. \A k \in Key : <<"request", k>> \in rows /\ Reserved(k)
                       => request'[k] = request[k]
  BY <1>1 DEF Written, None, Reserved
<1>4. \A k \in Key : ~ None(k) => /\ request'[k].status # "none"
                                  /\ request'[k].target = request[k].target
  BY DEF Written, None, Reserved
<1>5. run.at \in Deciding => None(run.ask.key)'
  <2> SUFFICES ASSUME run.at \in Deciding
               PROVE  None(run.ask.key)'
    OBVIOUS
  <2>1. run.ask.key \in Key /\ None(run.ask.key)
    BY <1>1, <1>2 DEF Sound, Asking, Deciding, Ask
  <2>2. worker[p].at = "admitted" => run.ask.key # worker[p].ask.key
    BY <1>1 DEF Asking, Deciding
  <2> QED BY <2>1, <2>2 DEF Written, None, Reserved
<1>6. run.at = "admitted" =>
        /\ ReservedFor(run.ask.workspace)' \subseteq run.due
        /\ HasRoom(run.ask.target, run.due)'
  <2> SUFFICES ASSUME run.at = "admitted"
               PROVE  /\ ReservedFor(run.ask.workspace)' \subseteq run.due
                      /\ HasRoom(run.ask.target, run.due)'
    OBVIOUS
  <2>1. /\ ClusterRow(run.ask.target) \in rows
        /\ <<"profile", run.ask.workspace>> \in rows
        /\ ReservedFor(run.ask.workspace) \subseteq run.due
        /\ HasRoom(run.ask.target, run.due)
    BY <1>1 DEF Sound, Deciding
  <2>2. worker[p].at = "admitted" =>
          /\ worker[p].ask.workspace # run.ask.workspace
          /\ worker[p].ask.target # run.ask.target
    BY <1>1, <2>1 DEF Sound, Deciding
  <2>3. ReservedFor(run.ask.workspace)' \subseteq ReservedFor(run.ask.workspace)
    BY <2>2 DEF ReservedFor, Written, Reserved
  <2>4. ReservedOn(run.ask.target)' \subseteq ReservedOn(run.ask.target)
    BY <2>2 DEF ReservedOn, Written, Reserved
  <2>5. HasRoom(run.ask.target, run.due)'
    <3> DEFINE S == ReservedOn(run.ask.target) \ run.due
               T == ReservedOn(run.ask.target)' \ run.due
    <3>1. S \in SUBSET Key /\ T \in SUBSET S
      BY <2>4 DEF ReservedOn
    <3>2. Cardinality(T) <= Cardinality(S) /\ Cardinality(T) \in Nat
          /\ Cardinality(S) \in Nat
      BY <3>1, Counting
    <3>3. /\ cluster[run.ask.target].assigned \in Nat
          /\ cluster[run.ask.target].room \in Nat
      <4>1. run.ask.target \in Cluster
        BY <1>2 DEF Ask, Asking, Deciding
      <4> QED BY <4>1, Sizes DEF IInv
    <3> HIDE DEF S, T
    <3>4. /\ cluster[run.ask.target].accepting
          /\ cluster[run.ask.target].assigned + Cardinality(S)
               < cluster[run.ask.target].room
      BY <2>1 DEF HasRoom, S
    <3>5. cluster[run.ask.target].assigned + Cardinality(T)
               < cluster[run.ask.target].room
      BY <3>2, <3>3, <3>4
    <3> QED BY <3>4, <3>5 DEF HasRoom, T
  <2> QED BY <2>1, <2>3, <2>5
<1>7. /\ (run.at \in Asking => answer[run.ask.key] = "claimed")'
      /\ (run.at \in Deciding => None(run.ask.key))'
      /\ (run.at \in Deciding \ {"claimed"}
            => ClusterRow(run.ask.target) \in rows)'
  BY <1>1, <1>5 DEF Sound, ClusterRow, Asking, Deciding
<1>8. (run.at = "target" => \A k \in run.due :
         ~ None(k) /\ request[k].target = run.ask.target)'
  BY <1>1, <1>2, <1>4 DEF Sound, None, Deciding
<1>9. (run.at \in {"due", "fenced", "admitted"} => \A k \in run.due :
         /\ Reserved(k) /\ request[k].target = run.ask.target
         /\ <<"request", k>> \in rows)'
  <2>1. run.at \in {"due", "fenced", "admitted"} => \A k \in run.due :
          /\ Reserved(k) /\ request[k].target = run.ask.target
          /\ <<"request", k>> \in rows
          /\ request'[k] = request[k]
    BY <1>1, <1>2, <1>3 DEF Sound, Deciding
  <2> QED BY <2>1 DEF Reserved
<1>10. (run.at \in {"fenced", "admitted"} =>
          /\ <<"profile", run.ask.workspace>> \in rows
          /\ \A k \in run.due : <<"profile", request[k].workspace>> \in rows)'
  <2>1. run.at \in {"fenced", "admitted"} => \A k \in run.due :
          request'[k] = request[k]
    BY <1>1, <1>2, <1>3 DEF Sound, Deciding
  <2> QED BY <1>1, <2>1 DEF Sound
<1>11. (run.at \in {"joining", "rolling"} =>
          Reserved(run.key) /\ <<"request", run.key>> \in rows)'
  BY <1>1, <1>2, <1>3 DEF Sound, Reserved
<1>12. (run.at = "expiring" =>
          /\ Cardinality(run.rows) <= run.left
          /\ \A k \in run.rows : Reserved(k) /\ <<"request", k>> \in rows)'
  BY <1>1, <1>2, <1>3 DEF Sound, Reserved
<1>13. (run.at = "admitted" =>
          /\ ReservedFor(run.ask.workspace) \subseteq run.due
          /\ HasRoom(run.ask.target, run.due))'
  BY <1>6
<1> QED BY <1>7, <1>8, <1>9, <1>10, <1>11, <1>12, <1>13 DEF Sound

\* Releasing reservations and passing their workspaces' fences leaves every
\* fence where it belongs (_expire_request, rollback_reservation).
LEMMA ReleaseFences ==
  ASSUME IInv, TypeOK', NEW keys \in SUBSET Key, answer' = answer,
         \A k \in keys : /\ Reserved(k)
                         /\ request'[k].status \in {"rolled_back", "expired"}
                         /\ request'[k].workspace = request[k].workspace
                         /\ request'[k].fence = request[k].fence,
         \A k \in Key \ keys : request'[k] = request[k],
         \A k \in keys :
           fence'[request[k].workspace] > fence[request[k].workspace],
         \A w \in Workspace : (\A k \in keys : request[k].workspace # w)
                                => fence'[w] = fence[w]
  PROVE  Ordered' /\ Fenced'
<1>1. \A k \in Key : ~ None(k) => /\ request[k].workspace \in Workspace
                                  /\ request[k].fence \in Nat
  BY DEF IInv, TypeOK, Request, None
<1>2. \A w \in Workspace : /\ fence[w] \in Nat /\ fence'[w] \in Nat
                           /\ fence[w] <= fence'[w]
  BY DEF IInv, TypeOK
<1>3. \A k \in Key : ~ None(k)' =>
        /\ ~ None(k)
        /\ request'[k].workspace = request[k].workspace
        /\ request'[k].fence = request[k].fence
  BY DEF None, Reserved
<1>4. Ordered'
  <2>1. \A k \in Key : ~ None(k) => request[k].fence <= fence[request[k].workspace]
    BY DEF IInv, Ordered
  <2>2. \A k \in Key : answer'[k] = "new" => None(k)'
    BY DEF IInv, Ordered, None, Reserved
  <2> QED BY <1>1, <1>2, <1>3, <2>1, <2>2 DEF Ordered
<1>5. \A k \in Key : ~ None(k)' =>
        (Reserved(k)' <=> request'[k].fence = fence'[request'[k].workspace])
  <2> SUFFICES ASSUME NEW k \in Key, ~ None(k)'
               PROVE  Reserved(k)' <=>
                        request'[k].fence = fence'[request'[k].workspace]
    OBVIOUS
  <2> DEFINE w == request[k].workspace
  <2>1. /\ w \in Workspace /\ request[k].fence \in Nat
        /\ request'[k].workspace = w /\ request'[k].fence = request[k].fence
        /\ request[k].fence <= fence[w]
        /\ Reserved(k) <=> request[k].fence = fence[w]
    BY <1>1, <1>3 DEF IInv, Ordered, Fenced, None
  <2>2. CASE k \in keys
    BY <1>2, <2>1, <2>2 DEF Reserved
  <2>3. CASE k \notin keys /\ Reserved(k)
    <3>1. \A l \in keys : request[l].workspace # w
      BY <2>3, OneEach
    <3> QED BY <2>1, <2>3, <3>1 DEF Reserved
  <2>4. CASE k \notin keys /\ ~ Reserved(k)
    BY <1>2, <2>1, <2>4 DEF Reserved
  <2> QED BY <2>2, <2>3, <2>4
<1>6. Fenced'
  <2>1. \A k, l \in Key : /\ k # l /\ ~ None(k) /\ ~ None(l)
                          /\ request[l].workspace = request[k].workspace
                          => request[l].fence # request[k].fence
    BY DEF IInv, Fenced, None
  <2> QED BY <1>3, <1>5, <2>1 DEF Fenced, None
<1> QED BY <1>4, <1>6

\* rollback_reservation, at its commit.
LEMMA RollBackKeeps ==
  ASSUME IInv, NEW p \in Process, RollBack(p)
  PROVE  IInv'
<1> DEFINE k == worker[p].key
           w == request[k].workspace
<1>1. /\ worker[p].at = "rolling" /\ k \in Key /\ Reserved(k)
      /\ <<"request", k>> \in holds[p] /\ w \in Workspace
      /\ request[k] \in [status: {"reserved", "rolled_back", "expired"},
           workspace: Workspace, target: Cluster, fence: Nat, lapsed: BOOLEAN]
  <2>1. worker[p].at = "rolling" /\ Sound(worker[p], holds[p]) /\ k \in Key
    BY Fields DEF RollBack, IInv
  <2>2. Reserved(k) /\ <<"request", k>> \in holds[p] /\ request[k] \in Request
    BY <2>1 DEF Sound, IInv, TypeOK
  <2> QED BY <2>1, <2>2 DEF Request, Reserved
<1>2. /\ fence' = [fence EXCEPT ![w] = @ + 1]
      /\ request' = [request EXCEPT ![k] = [@ EXCEPT !.status = "rolled_back"]]
      /\ worker' = [worker EXCEPT ![p] = Idle]
      /\ holds' = [holds EXCEPT ![p] = {}]
      /\ cluster' = cluster /\ answer' = answer
  BY DEF RollBack, Unlock, Goto
<1>3. /\ \A l \in Key \ {k} : request'[l] = request[l]
      /\ request'[k].status = "rolled_back"
      /\ request'[k].workspace = w
      /\ request'[k].target = request[k].target
      /\ request'[k].fence = request[k].fence
      /\ request'[k] \in Request
  <2>1. request'[k] = [request[k] EXCEPT !.status = "rolled_back"]
    BY <1>1, <1>2 DEF IInv, TypeOK
  <2> QED BY <1>1, <1>2, <2>1 DEF IInv, TypeOK, Request
<1>4. /\ fence'[w] = fence[w] + 1 /\ fence[w] \in Nat
      /\ \A v \in Workspace \ {w} : fence'[v] = fence[v]
  BY <1>1, <1>2 DEF IInv, TypeOK
<1> HIDE DEF k, w
<1>5. TypeOK'
  <2>1. fence' \in [Workspace -> Nat]
    BY <1>1, <1>2, <1>4 DEF IInv, TypeOK
  <2>2. request' \in [Key -> Request]
    BY <1>2, <1>3 DEF IInv, TypeOK
  <2>3. Idle \in Run
    BY DEF Idle, Run
  <2> QED BY <1>2, <2>1, <2>2, <2>3 DEF IInv, TypeOK
<1>6. /\ worker'[p] = Idle /\ holds'[p] = {}
      /\ \A q \in Process \ {p} : worker'[q] = worker[q] /\ holds'[q] = holds[q]
  BY <1>2 DEF IInv, TypeOK
<1>7. Apart'
  <2>1. Idle.at \notin Asking
    BY DEF Idle, Asking, Deciding
  <2> QED BY <1>6, <2>1 DEF IInv, Apart
<1>8. Ordered' /\ Fenced'
  <2>1. \A l \in {k} : fence'[request[l].workspace] > fence[request[l].workspace]
    BY <1>4 DEF w
  <2>2. \A v \in Workspace : (\A l \in {k} : request[l].workspace # v)
                               => fence'[v] = fence[v]
    BY <1>4 DEF w
  <2>3. \A l \in {k} : /\ Reserved(l)
                       /\ request'[l].status \in {"rolled_back", "expired"}
                       /\ request'[l].workspace = request[l].workspace
                       /\ request'[l].fence = request[l].fence
    BY <1>1, <1>3 DEF w
  <2>4. {k} \in SUBSET Key /\ \A l \in Key \ {k} : request'[l] = request[l]
    BY <1>1, <1>3
  <2> QED BY <1>2, <1>5, <2>1, <2>2, <2>3, <2>4, ReleaseFences
<1>9. \A q \in Process : Sound(worker[q], holds[q])'
  <2>1. \A l \in Key : Written(p, l)
    BY <1>1, <1>3 DEF Written, w
  <2>2. Sound(worker[p], holds[p])'
    BY <1>6 DEF Sound, Idle, Asking, Deciding
  <2> QED BY <1>2, <1>5, <1>6, <2>1, <2>2, OthersKnow
<1> QED BY <1>5, <1>7, <1>8, <1>9 DEF IInv

\* A request that expires keeps its workspace, target and fence.
LEMMA Expiring ==
  ASSUME TypeOK, NEW k \in Key, Reserved(k)
  PROVE  /\ Expire(k) \in Request
         /\ Expire(k).status = "expired"
         /\ Expire(k).workspace = request[k].workspace
         /\ Expire(k).target = request[k].target
         /\ Expire(k).fence = request[k].fence
         /\ request[k].workspace \in Workspace
<1>1. request[k] \in [status: {"reserved", "rolled_back", "expired"},
        workspace: Workspace, target: Cluster, fence: Nat, lapsed: BOOLEAN]
  BY DEF TypeOK, Request, Reserved
<1> QED BY <1>1 DEF Expire, Request

\* A sweep's commit for a cluster (_expire_request on each row).
LEMMA SweepExpiresKeeps ==
  ASSUME IInv, NEW p \in Process, SweepExpires(p)
  PROVE  IInv'
<1> DEFINE rows == worker[p].rows
           run == [at |-> "sweep", due |-> worker[p].due,
                   todo |-> worker[p].todo,
                   left |-> worker[p].left - Cardinality(rows)]
<1>1. /\ worker[p].at = "expiring" /\ rows \in SUBSET Key
      /\ worker[p].todo \in SUBSET Cluster /\ worker[p].due \in SUBSET Key
      /\ worker[p].left \in Nat
      /\ Cardinality(rows) <= worker[p].left
      /\ \A k \in rows : Reserved(k) /\ <<"request", k>> \in holds[p]
  BY Fields DEF SweepExpires, IInv, Sound
<1>2. /\ fence' = [w \in Workspace |-> fence[w] + Released(rows, w)]
      /\ request' = [k \in Key |-> IF k \in rows THEN Expire(k)
                                                 ELSE request[k]]
      /\ worker' = [worker EXCEPT ![p] = run]
      /\ holds' = [holds EXCEPT ![p] = {}]
      /\ cluster' = cluster /\ answer' = answer
  BY DEF SweepExpires, Unlock, Goto
<1>3. run \in Run /\ run.at \notin Asking
  <2>1. Cardinality(rows) \in Nat
    BY <1>1, Counting
  <2>2. worker[p].left - Cardinality(rows) \in Nat
    BY <1>1, <2>1
  <2> QED BY <1>1, <2>2 DEF Run, Asking, Deciding
<1>4. /\ \A k \in Key \ rows : request'[k] = request[k]
      /\ \A k \in rows : /\ request'[k] \in Request
                         /\ request'[k].status = "expired"
                         /\ request'[k].workspace = request[k].workspace
                         /\ request'[k].target = request[k].target
                         /\ request'[k].fence = request[k].fence
                         /\ request[k].workspace \in Workspace
  BY <1>1, <1>2, Expiring DEF IInv
<1> HIDE DEF rows, run
<1>5. TypeOK'
  <2>1. fence' \in [Workspace -> Nat]
    BY <1>1, <1>2, Releasing DEF IInv, TypeOK
  <2>2. request' \in [Key -> Request]
    BY <1>2, <1>4 DEF IInv, TypeOK
  <2> QED BY <1>2, <1>3, <2>1, <2>2 DEF IInv, TypeOK
<1>6. /\ worker'[p] = run /\ holds'[p] = {}
      /\ \A q \in Process \ {p} : worker'[q] = worker[q] /\ holds'[q] = holds[q]
  BY <1>2 DEF IInv, TypeOK
<1>7. Apart'
  BY <1>3, <1>6 DEF IInv, Apart
<1>8. Ordered' /\ Fenced'
  <2>1. \A w \in Workspace :
          /\ fence'[w] = fence[w] + Released(rows, w)
          /\ fence[w] \in Nat /\ Released(rows, w) \in Nat
          /\ Released(rows, w) = 0 <=>
               \A k \in rows : ~ (Reserved(k) /\ request[k].workspace = w)
    BY <1>1, <1>2, Releasing DEF IInv, TypeOK
  <2>2. \A k \in rows : fence'[request[k].workspace] > fence[request[k].workspace]
    <3>1. \A k \in rows : /\ request[k].workspace \in Workspace
                          /\ Released(rows, request[k].workspace) # 0
      BY <1>1, <1>4, <2>1
    <3> QED BY <2>1, <3>1
  <2>3. \A w \in Workspace : (\A k \in rows : request[k].workspace # w)
                               => fence'[w] = fence[w]
    BY <2>1
  <2> QED BY <1>1, <1>2, <1>4, <1>5, <2>2, <2>3, ReleaseFences
<1>9. \A q \in Process : Sound(worker[q], holds[q])'
  <2>1. \A k \in Key : Written(p, k)
    BY <1>1, <1>4 DEF Written
  <2>2. Sound(worker[p], holds[p])'
    <3>1. run.at = "sweep"
      BY DEF run
    <3> QED BY <1>6, <3>1 DEF Sound, Asking, Deciding
  <2> QED BY <1>2, <1>5, <1>6, <2>1, <2>2, OthersKnow
<1> QED BY <1>5, <1>7, <1>8, <1>9 DEF IInv

\* create_reservation, at its commit: what was due expires, and the new
\* reservation has a fence of its own.
LEMMA ReserveKeeps ==
  ASSUME IInv, NEW p \in Process, Reserve(p)
  PROVE  IInv'
<1> DEFINE ask == worker[p].ask
           due == worker[p].due
           new == fence[ask.workspace] + Released(due, ask.workspace) + 1
           made == [status |-> "reserved", workspace |-> ask.workspace,
                    target |-> ask.target, fence |-> new, lapsed |-> FALSE]
           run == [at |-> "made", ask |-> ask]
<1>1. /\ worker[p].at = "admitted" /\ ask \in Ask /\ due \in SUBSET Key
      /\ ask.key \in Key /\ ask.workspace \in Workspace
      /\ ask.target \in Cluster
      /\ answer[ask.key] = "claimed" /\ None(ask.key)
      /\ ReservedFor(ask.workspace) \subseteq due
      /\ \A k \in due : Reserved(k) /\ <<"request", k>> \in holds[p]
  <2>1. worker[p].at = "admitted" /\ Sound(worker[p], holds[p])
    BY DEF Reserve, IInv
  <2>2. ask \in Ask /\ due \in SUBSET Key
    BY <2>1, Fields DEF IInv, Asking, Deciding
  <2> QED BY <2>1, <2>2 DEF Sound, Asking, Deciding, Ask
<1>2. /\ fence' = [w \in Workspace |->
                     IF w = ask.workspace THEN new
                                          ELSE fence[w] + Released(due, w)]
      /\ request' = [k \in Key |-> IF k = ask.key THEN made
                                   ELSE IF k \in due THEN Expire(k)
                                   ELSE request[k]]
      /\ worker' = [worker EXCEPT ![p] = run]
      /\ holds' = [holds EXCEPT ![p] = {}]
      /\ cluster' = cluster /\ answer' = answer
  BY DEF Reserve, Unlock, Goto
<1>3. run \in Run
  BY <1>1 DEF Run
<1>4. \A w \in Workspace :
        /\ fence[w] \in Nat /\ Released(due, w) \in Nat
        /\ Released(due, w) = 0 <=> \A k \in due : request[k].workspace # w
  BY <1>1, Releasing DEF IInv, TypeOK
<1>5. new \in Nat /\ new > fence[ask.workspace] /\ made \in Request
  <2>1. new \in Nat /\ new > fence[ask.workspace]
    BY <1>1, <1>4
  <2> HIDE DEF new
  <2> QED BY <1>1, <2>1 DEF Request
<1>6. /\ ask.key \notin due /\ request'[ask.key] = made
      /\ \A k \in due : /\ request'[k] \in Request
                        /\ request'[k].status = "expired"
                        /\ request'[k].workspace = request[k].workspace
                        /\ request'[k].target = request[k].target
                        /\ request'[k].fence = request[k].fence
                        /\ request[k].workspace \in Workspace
      /\ \A k \in Key \ due : k # ask.key => request'[k] = request[k]
  <2>1. ask.key \notin due
    BY <1>1 DEF None, Reserved
  <2> QED BY <1>1, <1>2, <2>1, Expiring DEF IInv
<1>7. /\ made.status = "reserved" /\ made.workspace = ask.workspace
      /\ made.target = ask.target /\ made.fence = new
  OBVIOUS
<1>8. run.at = "made" /\ run.ask = ask
  OBVIOUS
<1> HIDE DEF new, made, run
<1>9. TypeOK'
  <2>1. fence' \in [Workspace -> Nat]
    BY <1>2, <1>4, <1>5 DEF IInv, TypeOK
  <2>2. request' \in [Key -> Request]
    BY <1>2, <1>5, <1>6 DEF IInv, TypeOK
  <2> QED BY <1>2, <1>3, <2>1, <2>2 DEF IInv, TypeOK
<1>10. /\ worker'[p] = run /\ holds'[p] = {}
       /\ \A q \in Process \ {p} : worker'[q] = worker[q] /\ holds'[q] = holds[q]
  BY <1>2 DEF IInv, TypeOK
<1>11. Apart'
  <2>1. worker[p].at \in Asking
    BY <1>1 DEF Asking, Deciding
  <2> QED BY <1>8, <1>10, <2>1 DEF IInv, Apart
<1>12. \A w \in Workspace : /\ fence'[w] \in Nat /\ fence[w] <= fence'[w]
                            /\ (\A k \in due : request[k].workspace # w)
                                 /\ w # ask.workspace => fence'[w] = fence[w]
                            /\ (\E k \in due : request[k].workspace = w)
                                 => fence[w] < fence'[w]
  <2>1. fence'[ask.workspace] = new
    BY <1>1, <1>2
  <2>2. \A w \in Workspace \ {ask.workspace} :
          fence'[w] = fence[w] + Released(due, w)
    BY <1>2
  <2> QED BY <1>4, <1>5, <2>1, <2>2
<1>13. \A k \in Key \ {ask.key} : ~ None(k)' =>
         /\ ~ None(k) /\ request[k].workspace \in Workspace
         /\ request[k].fence \in Nat
         /\ request[k].fence <= fence[request[k].workspace]
         /\ request'[k].workspace = request[k].workspace
         /\ request'[k].fence = request[k].fence
  <2>1. \A k \in Key : ~ None(k) => /\ request[k].workspace \in Workspace
                                    /\ request[k].fence \in Nat
                                    /\ request[k].fence
                                         <= fence[request[k].workspace]
    BY DEF IInv, TypeOK, Request, None, Ordered
  <2>2. \A k \in Key \ {ask.key} : ~ None(k)' =>
          /\ ~ None(k)
          /\ request'[k].workspace = request[k].workspace
          /\ request'[k].fence = request[k].fence
    BY <1>1, <1>6 DEF None, Reserved
  <2> QED BY <2>1, <2>2
<1>14. fence'[ask.workspace] = new
  BY <1>1, <1>2
<1>15. Ordered'
  <2>1. \A k \in Key : answer'[k] = "new" => None(k)'
    BY <1>1, <1>2, <1>6 DEF IInv, Ordered, None, Reserved
  <2>2. \A k \in Key : ~ None(k)' =>
          request'[k].fence <= fence'[request'[k].workspace]
    <3>1. request'[ask.key].fence <= fence'[request'[ask.key].workspace]
      BY <1>5, <1>6, <1>7, <1>14
    <3>2. \A k \in Key \ {ask.key} : ~ None(k)' =>
            request'[k].fence <= fence'[request'[k].workspace]
      BY <1>4, <1>12, <1>13
    <3> QED BY <3>1, <3>2
  <2> QED BY <2>1, <2>2 DEF Ordered
<1>16. Fenced'
  <2>1. \A k \in Key \ {ask.key} : ~ None(k)' =>
          (Reserved(k)' <=> request'[k].fence = fence'[request'[k].workspace])
    <3> SUFFICES ASSUME NEW k \in Key \ {ask.key}, ~ None(k)'
                 PROVE  Reserved(k)' <=>
                          request'[k].fence = fence'[request'[k].workspace]
      OBVIOUS
    <3> DEFINE w == request[k].workspace
    <3>1. /\ w \in Workspace /\ request[k].fence \in Nat
          /\ request'[k].workspace = w /\ request'[k].fence = request[k].fence
          /\ request[k].fence <= fence[w]
          /\ Reserved(k) <=> request[k].fence = fence[w]
      BY <1>13 DEF IInv, Fenced, None
    <3>2. CASE k \in due
      BY <1>4, <1>6, <1>12, <3>1, <3>2 DEF Reserved
    <3>3. CASE k \notin due /\ Reserved(k)
      <4>1. /\ \A l \in due : request[l].workspace # w
            /\ w # ask.workspace
        BY <1>1, <3>3, OneEach DEF ReservedFor
      <4> QED BY <1>6, <1>12, <3>1, <3>3, <4>1 DEF Reserved
    <3>4. CASE k \notin due /\ ~ Reserved(k)
      BY <1>4, <1>6, <1>12, <3>1, <3>4 DEF Reserved
    <3> QED BY <3>2, <3>3, <3>4
  <2>2. \A k, l \in Key \ {ask.key} :
          /\ k # l /\ ~ None(k)' /\ ~ None(l)'
          /\ request'[l].workspace = request'[k].workspace
          => request'[l].fence # request'[k].fence
    <3>1. \A k, l \in Key : /\ k # l /\ ~ None(k) /\ ~ None(l)
                            /\ request[l].workspace = request[k].workspace
                            => request[l].fence # request[k].fence
      BY DEF IInv, Fenced, None
    <3> QED BY <1>13, <3>1
  <2>3. \A k \in Key \ {ask.key} :
          ~ None(k)' /\ request'[k].workspace = ask.workspace
            => request'[k].fence # new
    BY <1>4, <1>5, <1>13
  <2>4. /\ request'[ask.key].status = "reserved"
        /\ request'[ask.key].fence = new
        /\ request'[ask.key].workspace = ask.workspace
    BY <1>6, <1>7
  <2>5. \A k \in Key : ~ None(k)' =>
          (Reserved(k)' <=> request'[k].fence = fence'[request'[k].workspace])
    BY <1>14, <2>1, <2>4 DEF Reserved
  <2>6. \A k, l \in Key :
          /\ k # l /\ ~ None(k)' /\ ~ None(l)'
          /\ request'[l].workspace = request'[k].workspace
          => request'[l].fence # request'[k].fence
    BY <2>2, <2>3, <2>4
  <2> QED BY <2>5, <2>6 DEF Fenced, None
<1>17. \A q \in Process : Sound(worker[q], holds[q])'
  <2>1. \A k \in Key : Written(p, k)
    BY <1>1, <1>6, <1>7 DEF Written
  <2>2. Sound(worker[p], holds[p])'
    BY <1>1, <1>2, <1>8, <1>10 DEF Sound, Asking, Deciding
  <2> QED BY <1>2, <1>9, <1>10, <2>1, <2>2, OthersKnow
<1> QED BY <1>9, <1>11, <1>15, <1>16, <1>17 DEF IInv

-----------------------------------------------------------------------------
(* Answers, time and the clusters *)

\* A step that changes no status and no cluster that q has locked leaves what
\* q knows (Lapse, PlaceNew and UpdateCluster wait for no request).
LEMMA SameKnow ==
  ASSUME IInv, TypeOK', NEW q \in Process,
         worker'[q] = worker[q], holds'[q] = holds[q],
         \A k \in Key : /\ request'[k].status = request[k].status
                        /\ ~ None(k) =>
                             /\ request'[k].target = request[k].target
                             /\ request'[k].workspace = request[k].workspace,
         \A c \in Cluster : ClusterRow(c) \in holds[q]
                              => cluster'[c] = cluster[c],
         worker[q].at \in Asking =>
           answer'[worker[q].ask.key] = answer[worker[q].ask.key]
  PROVE  Sound(worker[q], holds[q])'
<1> DEFINE run == worker[q]
           rows == holds[q]
<1>1. Sound(run, rows)
  BY DEF IInv
<1>2. /\ run.at \in Asking => /\ run.ask.key \in Key
                              /\ run.ask.target \in Cluster
                              /\ run.ask.workspace \in Workspace
      /\ run.at \in Deciding => run.due \in SUBSET Key
      /\ run.at \in {"joining", "rolling"} => run.key \in Key
      /\ run.at \in {"swept", "expiring"} => run.rows \in SUBSET Key
  BY Fields DEF IInv, Ask
<1>3. \A k \in Key : /\ Reserved(k)' <=> Reserved(k)
                     /\ None(k)' <=> None(k)
  BY DEF Reserved, None
<1>4. /\ ReservedFor(run.ask.workspace)' = ReservedFor(run.ask.workspace)
      /\ ReservedOn(run.ask.target)' = ReservedOn(run.ask.target)
  BY <1>3 DEF ReservedFor, ReservedOn, Reserved, None
<1>5. (run.at = "admitted" =>
         /\ ReservedFor(run.ask.workspace) \subseteq run.due
         /\ HasRoom(run.ask.target, run.due))'
  <2>1. run.at = "admitted" =>
          /\ ReservedFor(run.ask.workspace) \subseteq run.due
          /\ HasRoom(run.ask.target, run.due)
          /\ cluster'[run.ask.target] = cluster[run.ask.target]
    BY <1>1, <1>2 DEF Sound, Asking, Deciding
  <2> QED BY <1>4, <2>1 DEF HasRoom
<1>6. /\ (run.at \in Asking => answer[run.ask.key] = "claimed")'
      /\ (run.at \in Deciding => None(run.ask.key))'
      /\ (run.at \in Deciding \ {"claimed"}
            => ClusterRow(run.ask.target) \in rows)'
  BY <1>1, <1>2, <1>3 DEF Sound, ClusterRow, Asking, Deciding
<1>7. (run.at = "target" => \A k \in run.due :
         ~ None(k) /\ request[k].target = run.ask.target)'
  BY <1>1, <1>2, <1>3 DEF Sound, Deciding
<1>8. (run.at \in {"due", "fenced", "admitted"} => \A k \in run.due :
         /\ Reserved(k) /\ request[k].target = run.ask.target
         /\ <<"request", k>> \in rows)'
  <2>1. \A k \in Key : Reserved(k) => request'[k].target = request[k].target
    BY DEF Reserved, None
  <2> QED BY <1>1, <1>2, <1>3, <2>1 DEF Sound, Deciding
<1>9. (run.at \in {"fenced", "admitted"} =>
         /\ <<"profile", run.ask.workspace>> \in rows
         /\ \A k \in run.due : <<"profile", request[k].workspace>> \in rows)'
  <2>1. \A k \in Key : Reserved(k)
                         => request'[k].workspace = request[k].workspace
    BY DEF Reserved, None
  <2>2. run.at \in {"fenced", "admitted"} => \A k \in run.due :
          /\ request'[k].workspace = request[k].workspace
          /\ <<"profile", request[k].workspace>> \in rows
    BY <1>1, <1>2, <2>1 DEF Sound, Deciding
  <2> QED BY <1>1, <2>2 DEF Sound
<1>10. (run.at \in {"joining", "rolling"} =>
          Reserved(run.key) /\ <<"request", run.key>> \in rows)'
  BY <1>1, <1>2, <1>3 DEF Sound
<1>11. (run.at = "expiring" =>
          /\ Cardinality(run.rows) <= run.left
          /\ \A k \in run.rows : Reserved(k) /\ <<"request", k>> \in rows)'
  BY <1>1, <1>2, <1>3 DEF Sound
<1> QED BY <1>5, <1>6, <1>7, <1>8, <1>9, <1>10, <1>11 DEF Sound

\* claim_action, and the fence the operator has read.
LEMMA ClaimKeeps ==
  ASSUME IInv, NEW p \in Process, NEW k \in Key, Claim(p, k)
  PROVE  IInv'
<1>1. PICK w \in Workspace, c \in Cluster :
        Goto(p, [at |-> "claimed", due |-> {},
                 ask |-> [key |-> k, workspace |-> w, target |-> c,
                          expected |-> fence[w]]])
  BY DEF Claim
<1> DEFINE ask == [key |-> k, workspace |-> w, target |-> c,
                   expected |-> fence[w]]
           run == [at |-> "claimed", due |-> {}, ask |-> ask]
<1>2. ask \in Ask /\ ask.key = k /\ run \in Run
  BY DEF IInv, TypeOK, Ask, Run
<1>3. /\ answer[k] = "new" /\ answer' = [answer EXCEPT ![k] = "claimed"]
      /\ worker' = [worker EXCEPT ![p] = run]
      /\ UNCHANGED <<fence, cluster, request, holds>>
  BY <1>1 DEF Claim, Goto
<1>4. run.at = "claimed" /\ run.ask = ask /\ run.due = {}
  OBVIOUS
<1> HIDE DEF ask, run
<1>5. TypeOK'
  BY <1>2, <1>3 DEF IInv, TypeOK
<1>6. /\ worker'[p] = run
      /\ \A q \in Process \ {p} : worker'[q] = worker[q]
      /\ answer'[k] = "claimed"
      /\ \A l \in Key \ {k} : answer'[l] = answer[l]
      /\ \A q \in Process : worker[q].at \in Asking =>
           /\ worker[q].ask.key \in Key /\ worker[q].ask.key # k
  <2>1. \A q \in Process : worker[q].at \in Asking =>
          worker[q].ask.key \in Key /\ answer[worker[q].ask.key] = "claimed"
    BY Fields DEF IInv, Sound, Ask
  <2> QED BY <1>3, <2>1 DEF IInv, TypeOK
<1>7. Apart'
  BY <1>2, <1>3, <1>4, <1>6 DEF IInv, Apart
<1>8. Ordered' /\ Fenced'
  BY <1>3, <1>6 DEF IInv, Ordered, Fenced, None, Reserved
<1>9. \A q \in Process : Sound(worker[q], holds[q])'
  <2>1. ASSUME NEW q \in Process \ {p}
        PROVE  Sound(worker[q], holds[q])'
    BY <1>3, <1>5, <1>6, SameKnow
  <2>2. Sound(worker[p], holds[p])'
    <3>1. None(k)'
      BY <1>3 DEF IInv, Ordered, None
    <3> QED BY <1>2, <1>4, <1>6, <3>1 DEF Sound, Asking, Deciding, None
  <2> QED BY <2>1, <2>2
<1> QED BY <1>5, <1>7, <1>8, <1>9 DEF IInv

\* complete_action, with the reservation made or not.
LEMMA AnswerKeeps ==
  ASSUME IInv, NEW p \in Process, Answer(p)
  PROVE  IInv'
<1> DEFINE k == worker[p].ask.key
<1>1. worker[p].at \in Asking /\ k \in Key /\ answer[k] = "claimed"
  BY Fields DEF IInv, Sound, Answer, Asking, Ask
<1>2. /\ answer' \in {[answer EXCEPT ![k] = "succeeded"],
                      [answer EXCEPT ![k] = "failed"]}
      /\ worker' = [worker EXCEPT ![p] = Idle]
      /\ UNCHANGED <<fence, cluster, request, holds>>
  BY DEF Answer, Goto
<1>3. Idle \in Run /\ Idle.at = "idle" /\ Idle.at \notin Asking
  BY DEF Idle, Run, Asking, Deciding
<1>4. TypeOK'
  BY <1>1, <1>2, <1>3 DEF IInv, TypeOK
<1>5. /\ worker'[p] = Idle
      /\ \A q \in Process \ {p} : worker'[q] = worker[q]
      /\ answer'[k] # "new"
      /\ \A l \in Key \ {k} : answer'[l] = answer[l]
      /\ \A q \in Process \ {p} : worker[q].at \in Asking =>
           worker[q].ask.key \in Key /\ worker[q].ask.key # k
  <2>1. \A q \in Process \ {p} : worker[q].at \in Asking =>
          worker[q].ask.key \in Key /\ worker[q].ask.key # k
    BY <1>1, Fields DEF IInv, Apart, Ask
  <2> QED BY <1>1, <1>2, <2>1 DEF IInv, TypeOK
<1> HIDE DEF k
<1>6. Apart'
  BY <1>2, <1>3, <1>5 DEF IInv, Apart
<1>7. Ordered' /\ Fenced'
  BY <1>2, <1>5 DEF IInv, Ordered, Fenced, None, Reserved
<1>8. \A q \in Process : Sound(worker[q], holds[q])'
  <2>1. ASSUME NEW q \in Process \ {p}
        PROVE  Sound(worker[q], holds[q])'
    BY <1>2, <1>4, <1>5, SameKnow
  <2>2. Sound(worker[p], holds[p])'
    BY <1>3, <1>5 DEF Sound, Deciding
  <2> QED BY <2>1, <2>2
<1> QED BY <1>4, <1>6, <1>7, <1>8 DEF IInv

\* Time passes: a reservation lapses, and stands until somebody releases it.
LEMMA LapseKeeps ==
  ASSUME IInv, NEW k \in Key, Lapse(k)
  PROVE  IInv'
<1>1. /\ request' = [request EXCEPT ![k] = [@ EXCEPT !.lapsed = TRUE]]
      /\ UNCHANGED <<fence, cluster, answer, worker, holds>>
  BY DEF Lapse
<1>2. /\ request'[k] \in Request /\ request'[k].status = request[k].status
      /\ request'[k].target = request[k].target
      /\ request'[k].workspace = request[k].workspace
      /\ request'[k].fence = request[k].fence
      /\ \A l \in Key \ {k} : request'[l] = request[l]
  <2>1. request[k] \in [status: {"reserved", "rolled_back", "expired"},
          workspace: Workspace, target: Cluster, fence: Nat, lapsed: BOOLEAN]
    BY DEF Lapse, IInv, TypeOK, Request, Reserved
  <2>2. request'[k] = [request[k] EXCEPT !.lapsed = TRUE]
    BY <1>1 DEF IInv, TypeOK
  <2> QED BY <1>1, <2>1, <2>2 DEF IInv, TypeOK, Request
<1>3. TypeOK'
  BY <1>1, <1>2 DEF IInv, TypeOK
<1>4. Apart'
  BY <1>1 DEF IInv, Apart
<1>5. Ordered' /\ Fenced'
  <2>1. \A l \in Key : /\ request'[l].status = request[l].status
                       /\ request'[l].workspace = request[l].workspace
                       /\ request'[l].fence = request[l].fence
    BY <1>2
  <2> QED BY <1>1, <2>1 DEF IInv, Ordered, Fenced, None, Reserved
<1>6. \A q \in Process : Sound(worker[q], holds[q])'
  BY <1>1, <1>2, <1>3, SameKnow
<1> QED BY <1>3, <1>4, <1>5, <1>6 DEF IInv

\* A new workspace, or an edit of the cluster, waits for the cluster's row.
LEMMA ClusterKeeps ==
  ASSUME IInv, NEW c \in Cluster, PlaceNew(c) \/ UpdateCluster(c)
  PROVE  IInv'
<1>1. /\ \A q \in Process : ClusterRow(c) \notin holds[q]
      /\ UNCHANGED <<fence, request, answer, worker, holds>>
  BY DEF PlaceNew, UpdateCluster
<1>2. /\ cluster' \in [Cluster -> [room: Rooms, accepting: BOOLEAN,
                                   assigned: 0 .. MaxAssigned]]
      /\ \A d \in Cluster \ {c} : cluster'[d] = cluster[d]
  <2>1. CASE PlaceNew(c)
    <3>1. cluster[c].assigned + 1 \in 0 .. MaxAssigned
      <4>1. cluster[c].assigned \in Nat /\ MaxAssigned \in Nat
        BY PlacementAssumption, Sizes DEF IInv
      <4> QED BY <2>1, <4>1 DEF PlaceNew
    <3>2. cluster' = [cluster EXCEPT ![c] =
                        [@ EXCEPT !.assigned = cluster[c].assigned + 1]]
      BY <2>1 DEF PlaceNew
    <3> QED BY <3>1, <3>2 DEF IInv, TypeOK
  <2>2. CASE UpdateCluster(c)
    <3>1. PICK room \in Rooms, accepting \in BOOLEAN :
            cluster' = [cluster EXCEPT ![c].room = room,
                                       ![c].accepting = accepting]
      BY <2>2 DEF UpdateCluster
    <3> QED BY <3>1 DEF IInv, TypeOK
  <2> QED BY <2>1, <2>2
<1>3. TypeOK'
  BY <1>1, <1>2 DEF IInv, TypeOK
<1>4. Apart' /\ Ordered' /\ Fenced'
  BY <1>1 DEF IInv, Apart, Ordered, Fenced, None, Reserved
<1>5. \A q \in Process : Sound(worker[q], holds[q])'
  <2>1. \A d \in Cluster, q \in Process : ClusterRow(d) \in holds[q]
                                            => cluster'[d] = cluster[d]
    BY <1>1, <1>2
  <2> QED BY <1>1, <1>3, <2>1, SameKnow
<1> QED BY <1>3, <1>4, <1>5 DEF IInv

-----------------------------------------------------------------------------
(* The theorems *)

\* Nothing is reserved and nobody works (Init).
LEMMA InitIInv ==
  ASSUME Init
  PROVE  IInv
<1>1. TypeOK
  <2>1. MaxAssigned \in Nat
    BY PlacementAssumption
  <2>2. cluster \in [Cluster -> [room: Rooms, accepting: BOOLEAN,
                                 assigned: 0 .. MaxAssigned]]
    <3>1. 0 \in 0 .. MaxAssigned
      BY <2>1
    <3>2. [room: Rooms, accepting: {TRUE}, assigned: {0}]
            \subseteq [room: Rooms, accepting: BOOLEAN,
                       assigned: 0 .. MaxAssigned]
      BY <3>1
    <3> QED BY <3>2 DEF Init
  <2>3. /\ request \in [Key -> Request] /\ worker \in [Process -> Run]
        /\ fence \in [Workspace -> Nat] /\ holds \in [Process -> SUBSET DBRow]
        /\ answer \in [Key -> {"new", "claimed", "succeeded", "failed"}]
    BY DEF Init, Idle, Run, Request
  <2> QED BY <2>2, <2>3 DEF TypeOK
<1>2. Apart
  BY DEF Init, Apart, Idle, Asking, Deciding
<1>3. \A p \in Process : Sound(worker[p], holds[p])
  BY DEF Init, Sound, Idle, Asking, Deciding
<1>4. Ordered /\ Fenced
  BY DEF Init, Ordered, Fenced, None, Reserved
<1> QED BY <1>1, <1>2, <1>3, <1>4 DEF IInv

\* Every step of an operator, a sweep, the clusters or time keeps it.
LEMMA NextIInv ==
  ASSUME IInv, [Next]_vars
  PROVE  IInv'
<1>1. CASE \E p \in Operator : Operate(p)
  BY <1>1, LockingKeeps, LockExpiredKeeps, LockProfileKeeps, DecidingKeeps,
     ReserveKeeps, AnswerKeeps, RollBackKeeps DEF Operate, Process
<1>2. CASE \E p \in Operator :
             LockJoined(p) \/ \E k \in Key : Claim(p, k) \/ LockRequest(p, k)
  BY <1>2, ClaimKeeps, LockRequestKeeps, LockJoinedKeeps DEF Process
<1>3. CASE \E s \in Sweeper :
             \/ BeginSweep(s) \/ SweepTarget(s) \/ SweepRows(s)
             \/ LockExpired(s) \/ SweepExpires(s) \/ EndSweep(s)
  BY <1>3, RestingKeeps, SweepingKeeps, LockExpiredKeeps, SweepExpiresKeeps
     DEF Process
<1>4. CASE \E c \in Cluster : PlaceNew(c) \/ UpdateCluster(c)
  BY <1>4, ClusterKeeps
<1>5. CASE \E k \in Key : Lapse(k)
  BY <1>5, LapseKeeps
<1>6. CASE \E p \in Process : Crash(p)
  BY <1>6, RestingKeeps
<1>7. CASE UNCHANGED vars
  <2>1. TypeOK' /\ Apart' /\ Ordered' /\ Fenced'
    BY <1>7 DEF vars, IInv, TypeOK, Apart, Ordered, Fenced, None, Reserved
  <2>2. \A q \in Process : Sound(worker[q], holds[q])'
    BY <1>7, <2>1, SameKnow DEF vars
  <2> QED BY <2>1, <2>2 DEF IInv
<1> QED BY <1>1, <1>2, <1>3, <1>4, <1>5, <1>6, <1>7 DEF Next

\* What a process may rely on between two locks of placement_queue.py, it may.
THEOREM WorkersRely == Spec => []IInv
<1>1. Init => IInv
  BY InitIInv
<1>2. IInv /\ [Next]_vars => IInv'
  BY NextIInv
<1> QED BY <1>1, <1>2, PTL DEF Spec, Safety

\* The state of placements is of its types, for any number of clusters,
\* workspaces, keys and processes.
THEOREM TypeCorrect == Spec => []TypeOK
<1>1. IInv => TypeOK
  BY DEF IInv
<1> QED BY <1>1, WorkersRely, PTL

\* The fence of a reservation is its workspace's just as long as it stands,
\* and no other reservation of the workspace ever has it.
THEOREM ReservationsFenced == Spec => []Fenced
<1>1. IInv => Fenced
  BY DEF IInv
<1> QED BY <1>1, WorkersRely, PTL

\* create_reservation counts under the lock of the target, so that what it
\* commits to fits at its commit too.
LEMMA ReserveFits ==
  ASSUME IInv, NEW p \in Process, Reserve(p), NEW c \in Cluster
  PROVE  ReservedOn(c)' \subseteq ReservedOn(c)
           \/ Committed(c)' <= cluster'[c].room
<1> DEFINE ask == worker[p].ask
           due == worker[p].due
<1>1. /\ worker[p].at = "admitted" /\ ask.key \in Key /\ due \in SUBSET Key
      /\ HasRoom(ask.target, due)
  <2>1. worker[p].at = "admitted" /\ Sound(worker[p], holds[p])
    BY DEF Reserve, IInv
  <2> QED BY <2>1, Fields DEF IInv, Sound, Asking, Deciding, Ask
<1>2. \A k \in Key :
        /\ k # ask.key /\ k \in due => request'[k].status = "expired"
        /\ k # ask.key /\ k \notin due => request'[k] = request[k]
        /\ k = ask.key => request'[k].target = ask.target
  BY DEF Reserve, Expire, IInv, TypeOK, Request
<1>3. cluster' = cluster
  BY DEF Reserve
<1>4. ASSUME c # ask.target
      PROVE  ReservedOn(c)' \subseteq ReservedOn(c)
  BY <1>2, <1>4 DEF ReservedOn, Reserved
<1>5. ASSUME c = ask.target
      PROVE  Committed(c)' <= cluster'[c].room
  <2> DEFINE S == ReservedOn(c) \ due
             T == {k \in ReservedOn(c) : ~ request[k].lapsed}'
  <2>1. T \subseteq S \cup {ask.key}
    BY <1>2 DEF ReservedOn, Reserved
  <2>2. S \cup {ask.key} \in SUBSET Key /\ S \in SUBSET Key
    BY <1>1 DEF ReservedOn
  <2> HIDE DEF S, T
  <2>3. /\ Cardinality(T) <= Cardinality(S \cup {ask.key})
        /\ Cardinality(T) \in Nat
    BY <2>1, <2>2, Counting
  <2>4. /\ IsFiniteSet(S) /\ Cardinality(S) \in Nat
        /\ Cardinality(S \cup {ask.key}) \in Nat
    BY <2>2, Counting
  <2>5. Cardinality(S \cup {ask.key}) <= Cardinality(S) + 1
    <3>1. Cardinality(S \cup {ask.key})
            = IF ask.key \in S THEN Cardinality(S) ELSE Cardinality(S) + 1
      BY <2>4, FS_AddElement
    <3> QED BY <2>4, <3>1
  <2>6. cluster[c].assigned + Cardinality(S) < cluster[c].room
    BY <1>1, <1>5 DEF HasRoom, S
  <2>7. cluster[c].assigned \in Nat /\ cluster[c].room \in Nat
    BY Sizes DEF IInv
  <2>8. cluster[c].assigned + Cardinality(T) <= cluster[c].room
    BY <2>3, <2>4, <2>5, <2>6, <2>7
  <2> QED BY <1>3, <2>8 DEF Committed, T
<1> QED BY <1>4, <1>5

\* No other step makes a reservation.
LEMMA OnlyReserve ==
  ASSUME IInv, [Next]_vars, NEW c \in Cluster,
         \A p \in Operator : ~ Reserve(p)
  PROVE  ReservedOn(c)' \subseteq ReservedOn(c)
<1> SUFFICES ASSUME NEW k \in Key, Reserved(k)', (request[k].target = c)'
             PROVE  Reserved(k) /\ request[k].target = c
  BY DEF ReservedOn
<1>1. CASE \E p \in Operator : Operate(p)
  <2>1. CASE \E p \in Operator : RollBack(p)
    BY <2>1 DEF RollBack, Reserved, IInv, TypeOK, Request
  <2>2. CASE UNCHANGED request
    BY <2>2 DEF Reserved
  <2> QED BY <1>1, <2>1, <2>2 DEF Operate, LockTarget, LockDue, LockExpired,
                                  LockProfile, Admit, Refuse, Answer
<1>2. CASE \E s \in Sweeper : SweepExpires(s)
  BY <1>2 DEF SweepExpires, Reserved, Expire, IInv, TypeOK, Request
<1>3. CASE \E l \in Key : Lapse(l)
  BY <1>3 DEF Lapse, Reserved, IInv, TypeOK, Request
<1>4. CASE UNCHANGED request
  BY <1>4 DEF Reserved
<1> QED BY <1>1, <1>2, <1>3, <1>4
        DEF Next, Claim, LockRequest, LockJoined, LockExpired, BeginSweep, SweepTarget, SweepRows,
            EndSweep, PlaceNew, UpdateCluster, Crash, vars

\* No room of a cluster is promised twice, or once it is taken.
THEOREM RoomPromisedOnce == Spec => NeverOverPromised
<1>1. IInv /\ [Next]_vars =>
        \A c \in Cluster : ReservedOn(c)' \subseteq ReservedOn(c)
                             \/ Committed(c)' <= cluster'[c].room
  BY ReserveFits, OnlyReserve DEF Process
<1>2. IInv /\ [Next]_vars =>
        [\A c \in Cluster : ReservedOn(c)' \subseteq ReservedOn(c)
                              \/ Committed(c)' <= cluster'[c].room]_vars
  BY <1>1
<1> QED BY <1>2, WorkersRely, PTL DEF Spec, Safety, NeverOverPromised
=============================================================================
