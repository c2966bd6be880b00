----------------------------- MODULE Placement -----------------------------
(***************************************************************************)
(* Room reserved on clusters for workspaces that have none                 *)
(* (platform/services/placement_queue.py), asked for through the control   *)
(* plane and its idempotency keys (views/control_views.py,                 *)
(* services/control_actions.py).                                           *)
(*                                                                         *)
(* Every operation is one transaction that takes the rows it needs with    *)
(* select_for_update, one after the other, and holds them to its end.  A   *)
(* process takes a step for each wait; what it writes appears at its       *)
(* commit, and a refusal undoes everything.                                *)
(***************************************************************************)
EXTENDS Integers, FiniteSets

CONSTANTS
  Cluster, Workspace,
  Key,            \* X-Idempotency-Key of a request for room
  Operator,       \* requests of the control plane
  Sweeper,        \* runs of expire_due_reservations
  Rooms,          \* what max_workspaces may be set to
  MaxAssigned,    \* bound: workspaces created on a cluster
  Limit           \* reservations one run expires

ASSUME PlacementAssumption ==
  /\ Operator \cap Sweeper = {}
  /\ Rooms \subseteq Nat /\ Rooms # {} /\ IsFiniteSet(Key)
  /\ MaxAssigned \in Nat /\ Limit \in Nat \ {0}

VARIABLES
  fence,          \* profile.placement_fence of each workspace
  cluster,
  request,        \* the WorkspacePlacementRequest made under each key
  answer,         \* the PlatformControlActionRequest of each key
  worker,
  holds           \* the rows each process has locked

vars == <<fence, cluster, request, answer, worker, holds>>

-----------------------------------------------------------------------------

Process == Operator \cup Sweeper

DBRow == ({"cluster"} \X Cluster) \cup ({"profile"} \X Workspace)
           \cup ({"request"} \X Key)

\* lapsed: reservation_expires_at has passed.
Request == [status: {"none"}]
  \cup [status: {"reserved", "rolled_back", "expired"}, workspace: Workspace,
        target: Cluster, fence: Nat, lapsed: BOOLEAN]

Ask == [key: Key, workspace: Workspace, target: Cluster, expected: Nat]

\* due: reservations that have lapsed by the transaction's "now".
Run == [at: {"idle"}]
  \cup [at: {"claimed", "target", "due", "fenced", "admitted"}, ask: Ask,
        due: SUBSET Key]
  \cup [at: {"made", "conflict", "already", "full"}, ask: Ask]
  \cup [at: {"joining", "rolling"}, key: Key]
  \cup [at: {"sweep"}, todo: SUBSET Cluster, due: SUBSET Key, left: Nat]
  \cup [at: {"swept", "expiring"}, todo: SUBSET Cluster, due: SUBSET Key,
        left: Nat, target: Cluster, rows: SUBSET Key]

TypeOK ==
  /\ fence \in [Workspace -> Nat]
  /\ cluster \in [Cluster -> [room: Rooms, accepting: BOOLEAN,
                              assigned: 0 .. MaxAssigned]]
  /\ request \in [Key -> Request]
  /\ answer \in [Key -> {"new", "claimed", "succeeded", "failed"}]
  /\ worker \in [Process -> Run]
  /\ holds \in [Process -> SUBSET DBRow]

Idle == [at |-> "idle"]

Init ==
  /\ fence = [w \in Workspace |-> 0]
  /\ cluster \in [Cluster -> [room: Rooms, accepting: {TRUE}, assigned: {0}]]
  /\ request = [k \in Key |-> [status |-> "none"]]
  /\ answer = [k \in Key |-> "new"]
  /\ worker = [p \in Process |-> Idle]
  /\ holds = [p \in Process |-> {}]

Reserved(k) == request[k].status = "reserved"

ReservedOn(c) == {k \in Key : Reserved(k) /\ request[k].target = c}

ReservedFor(w) == {k \in Key : Reserved(k) /\ request[k].workspace = w}

RequestRows(keys) == {"request"} \X keys

ProfileRows(keys) == {"profile"} \X {request[k].workspace : k \in keys}

ClusterRow(c) == <<"cluster", c>>

Free(p, rows) == \A q \in Process \ {p} : holds[q] \cap rows = {}

\* SELECT ... FOR UPDATE
Lock(p, rows) ==
  /\ Free(p, rows)
  /\ holds' = [holds EXCEPT ![p] = @ \cup rows]

\* The transaction ends.
Unlock(p) == holds' = [holds EXCEPT ![p] = {}]

Goto(p, run) == worker' = [worker EXCEPT ![p] = run]

-----------------------------------------------------------------------------
(* create_reservation *)

\* The view's part: the key is claimed in a transaction of its own, for the
\* fence the operator has just read.
Claim(p, k) ==
  /\ worker[p].at = "idle"
  /\ answer[k] = "new"
  /\ answer' = [answer EXCEPT ![k] = "claimed"]
  /\ \E w \in Workspace, c \in Cluster :
       Goto(p, [at |-> "claimed", due |-> {},
                ask |-> [key |-> k, workspace |-> w, target |-> c,
                         expected |-> fence[w]]])
  /\ UNCHANGED <<fence, cluster, request, holds>>

\* Mutant: the target is read without being locked.
LockTarget_Reads(p) ==
  /\ worker[p].at = "claimed"
  /\ UNCHANGED holds
  /\ Goto(p, [at |-> "target", ask |-> worker[p].ask, due |->
       {k \in ReservedOn(worker[p].ask.target) : request[k].lapsed}])
  /\ UNCHANGED <<fence, cluster, request, answer>>

LockTarget(p) ==
  /\ worker[p].at = "claimed"
  /\ Lock(p, {ClusterRow(worker[p].ask.target)})
  /\ Goto(p, [at |-> "target", ask |-> worker[p].ask, due |->
       {k \in ReservedOn(worker[p].ask.target) : request[k].lapsed}])
  /\ UNCHANGED <<fence, cluster, request, answer>>

\* _expire_reserved_for_target finds what is still reserved once it has the
\* rows.
LockDue(p) ==
  /\ worker[p].at = "target"
  /\ LET due == {k \in worker[p].due : Reserved(k)}
     IN  /\ Lock(p, RequestRows(due))
         /\ Goto(p, [at |-> "due", ask |-> worker[p].ask, due |-> due])
  /\ UNCHANGED <<fence, cluster, request, answer>>

\* Each reservation that is released passes its workspace's fence by one.
Released(keys, w) == Cardinality(keys \cap ReservedFor(w))

\* The fence the transaction sees, which has just expired what was due.
FenceSeen(p) ==
  fence[worker[p].ask.workspace]
    + Released(worker[p].due, worker[p].ask.workspace)

\* The requests a transaction expires, which lock their workspaces' profiles.
Expires(p) == IF worker[p].at = "expiring" THEN worker[p].rows
                                           ELSE worker[p].due

\* _expire_request, of one request after the other: here, in any order.
LockExpired(p) ==
  /\ worker[p].at \in {"due", "expiring"}
  /\ \E row \in ProfileRows(Expires(p)) \ holds[p] : Lock(p, {row})
  /\ UNCHANGED <<fence, cluster, request, answer, worker>>

\* _profile_for_update, and the fence that must be the one expected.
LockProfile(p) ==
  LET row == <<"profile", worker[p].ask.workspace>>
  IN  /\ worker[p].at = "due"
      /\ ProfileRows(worker[p].due) \subseteq holds[p]
      /\ IF FenceSeen(p) = worker[p].ask.expected
           THEN /\ Lock(p, {row})
                /\ Goto(p, [worker[p] EXCEPT !.at = "fenced"])
           ELSE /\ Free(p, {row})
                /\ Unlock(p)
                /\ Goto(p, [at |-> "conflict", ask |-> worker[p].ask])
      /\ UNCHANGED <<fence, cluster, request, answer>>

\* What the workspace has reserved already.
Pending(p) == ReservedFor(worker[p].ask.workspace) \ worker[p].due

\* Room that is neither taken nor promised; is_active is part of accepting.
HasRoom(c, due) ==
  /\ cluster[c].accepting
  /\ cluster[c].assigned + Cardinality(ReservedOn(c) \ due) < cluster[c].room

\* The workspace has nothing pending, and the target room.
Admit(p) ==
  /\ worker[p].at = "fenced"
  /\ Pending(p) = {}
  /\ HasRoom(worker[p].ask.target, worker[p].due)
  /\ Goto(p, [worker[p] EXCEPT !.at = "admitted"])
  /\ UNCHANGED <<fence, cluster, request, answer, holds>>

Refuse(p) ==
  /\ worker[p].at = "fenced"
  /\ Free(p, RequestRows(Pending(p)))
  /\ \/ Pending(p) # {}
     \/ ~ HasRoom(worker[p].ask.target, worker[p].due)
  /\ Goto(p, [at |-> IF Pending(p) # {} THEN "already" ELSE "full",
              ask |-> worker[p].ask])
  /\ Unlock(p)
  /\ UNCHANGED <<fence, cluster, request, answer>>

Expire(k) == [request[k] EXCEPT !.status = "expired"]

Reserve(p) ==
  LET ask == worker[p].ask
      due == worker[p].due
      new == fence[ask.workspace] + Released(due, ask.workspace) + 1
  IN  /\ worker[p].at = "admitted"
      /\ fence' = [w \in Workspace |->
                     IF w = ask.workspace THEN new
                                          ELSE fence[w] + Released(due, w)]
      /\ request' = [k \in Key |->
           IF k = ask.key
             THEN [status |-> "reserved", workspace |-> ask.workspace,
                   target |-> ask.target, fence |-> new, lapsed |-> FALSE]
           ELSE IF k \in due THEN Expire(k)
           ELSE request[k]]
      /\ Unlock(p)
      /\ Goto(p, [at |-> "made", ask |-> ask])
      /\ UNCHANGED <<cluster, answer>>

\* complete_action, outside the transaction.
Answer(p) ==
  /\ worker[p].at \in {"made", "conflict", "already", "full"}
  /\ answer' = [answer EXCEPT ![worker[p].ask.key] =
                  IF worker[p].at = "made" THEN "succeeded" ELSE "failed"]
  /\ Goto(p, Idle)
  /\ UNCHANGED <<fence, cluster, request, holds>>

-----------------------------------------------------------------------------
(* rollback_reservation, whatever key it is asked for under *)

\* Mutant: the request is looked at and not locked.
LockRequest_Reads(p, k) ==
  /\ worker[p].at = "idle"
  /\ Reserved(k)
  /\ Goto(p, [at |-> "joining", key |-> k])
  /\ UNCHANGED <<fence, cluster, request, answer, holds>>

LockRequest(p, k) ==
  /\ worker[p].at = "idle"
  /\ Reserved(k)
  /\ Lock(p, RequestRows({k}))
  /\ Goto(p, [at |-> "joining", key |-> k])
  /\ UNCHANGED <<fence, cluster, request, answer>>

\* select_related: MySQL locks the rows joined to the request too, the target
\* cluster's among them.
LockJoined(p) ==
  /\ worker[p].at = "joining"
  /\ Lock(p, {ClusterRow(request[worker[p].key].target)})
  /\ Goto(p, [at |-> "rolling", key |-> worker[p].key])
  /\ UNCHANGED <<fence, cluster, request, answer>>

RollBack(p) ==
  /\ worker[p].at = "rolling"
  /\ LET k == worker[p].key
         w == request[k].workspace
     IN  /\ Free(p, ProfileRows({k}))
         /\ fence' = [fence EXCEPT ![w] = @ + 1]
         /\ request' = [request EXCEPT ![k].status = "rolled_back"]
  /\ Unlock(p)
  /\ Goto(p, Idle)
  /\ UNCHANGED <<cluster, answer>>

-----------------------------------------------------------------------------
(* expire_due_reservations, a transaction for each cluster *)

\* Mutant: a cluster that takes no new workspaces is passed over.
BeginSweep_OpenOnly(s) ==
  LET due == {k \in Key : /\ Reserved(k) /\ request[k].lapsed
                          /\ cluster[request[k].target].accepting}
  IN  /\ worker[s].at = "idle"
      /\ due # {}
      /\ Goto(s, [at |-> "sweep", due |-> due, left |-> Limit,
                  todo |-> {request[k].target : k \in due}])
      /\ UNCHANGED <<fence, cluster, request, answer, holds>>

BeginSweep(s) ==
  LET due == {k \in Key : Reserved(k) /\ request[k].lapsed}
  IN  /\ worker[s].at = "idle"
      /\ due # {}
      /\ Goto(s, [at |-> "sweep", due |-> due, left |-> Limit,
                  todo |-> {request[k].target : k \in due}])
      /\ UNCHANGED <<fence, cluster, request, answer, holds>>

\* The clusters come by their ids: here, in any order.
SweepTarget(s) ==
  /\ worker[s].at = "sweep"
  /\ worker[s].left > 0
  /\ \E c \in worker[s].todo :
       /\ Lock(s, {ClusterRow(c)})
       /\ Goto(s, [at |-> "swept", due |-> worker[s].due,
                   left |-> worker[s].left, todo |-> worker[s].todo \ {c},
                   target |-> c, rows |-> {}])
  /\ UNCHANGED <<fence, cluster, request, answer>>

\* Mutant: the limit is forgotten.
SweepRows_All(s) ==
  LET due == worker[s].due \cap ReservedOn(worker[s].target)
  IN  /\ worker[s].at = "swept"
      /\ Lock(s, RequestRows(due))
      /\ Goto(s, [worker[s] EXCEPT !.at = "expiring", !.rows = due])
      /\ UNCHANGED <<fence, cluster, request, answer>>

SweepRows(s) ==
  LET due == worker[s].due \cap ReservedOn(worker[s].target)
  IN  /\ worker[s].at = "swept"
      /\ \E rows \in SUBSET due :
           /\ \/ rows = due /\ Cardinality(due) <= worker[s].left
              \/ Cardinality(rows) = worker[s].left
           /\ Lock(s, RequestRows(rows))
           /\ Goto(s, [worker[s] EXCEPT !.at = "expiring", !.rows = rows])
      /\ UNCHANGED <<fence, cluster, request, answer>>

\* Mutant: what lapsed is not fenced out.
SweepExpires_Unfenced(s) ==
  LET rows == worker[s].rows
  IN  /\ worker[s].at = "expiring"
      /\ ProfileRows(rows) \subseteq holds[s]
      /\ request' = [k \in Key |-> IF k \in rows THEN Expire(k)
                                                  ELSE request[k]]
      /\ Unlock(s)
      /\ Goto(s, [at |-> "sweep", due |-> worker[s].due,
                  todo |-> worker[s].todo,
                  left |-> worker[s].left - Cardinality(rows)])
      /\ UNCHANGED <<fence, cluster, answer>>

SweepExpires(s) ==
  LET rows == worker[s].rows
  IN  /\ worker[s].at = "expiring"
      /\ ProfileRows(rows) \subseteq holds[s]
      /\ fence' = [w \in Workspace |-> fence[w] + Released(rows, w)]
      /\ request' = [k \in Key |-> IF k \in rows THEN Expire(k)
                                                  ELSE request[k]]
      /\ Unlock(s)
      /\ Goto(s, [at |-> "sweep", due |-> worker[s].due,
                  todo |-> worker[s].todo,
                  left |-> worker[s].left - Cardinality(rows)])
      /\ UNCHANGED <<cluster, answer>>

EndSweep(s) ==
  /\ worker[s].at = "sweep"
  /\ worker[s].todo = {} \/ worker[s].left = 0
  /\ Goto(s, Idle)
  /\ UNCHANGED <<fence, cluster, request, answer, holds>>

-----------------------------------------------------------------------------
(* The clusters, and time *)

\* A workspace created or imported with a cluster: _available_cluster counts
\* the workspaces the cluster has, and no reservation.
PlaceNew(c) ==
  /\ \A p \in Process : ClusterRow(c) \notin holds[p]
  /\ cluster[c].accepting
  /\ cluster[c].assigned < cluster[c].room
  /\ cluster[c].assigned < MaxAssigned
  /\ cluster' = [cluster EXCEPT ![c].assigned = @ + 1]
  /\ UNCHANGED <<fence, request, answer, worker, holds>>

\* partial_update of a cluster.
UpdateCluster(c) ==
  /\ \A p \in Process : ClusterRow(c) \notin holds[p]
  /\ \E room \in Rooms, accepting \in BOOLEAN :
       /\ room >= cluster[c].assigned \/ room = cluster[c].room
       /\ cluster' = [cluster EXCEPT ![c].room = room,
                                     ![c].accepting = accepting]
  /\ UNCHANGED <<fence, request, answer, worker, holds>>

Lapse(k) ==
  /\ Reserved(k)
  /\ ~ request[k].lapsed
  /\ request' = [request EXCEPT ![k].lapsed = TRUE]
  /\ UNCHANGED <<fence, cluster, answer, worker, holds>>

\* A process dies, or the database ends its transaction.
Crash(p) ==
  /\ worker[p].at # "idle"
  /\ Unlock(p)
  /\ Goto(p, Idle)
  /\ UNCHANGED <<fence, cluster, request, answer>>

-----------------------------------------------------------------------------
(* Deadlocks *)

\* The rows a process holding some goes on to lock.
Wants(p) ==
  CASE worker[p].at = "target" ->
         RequestRows({k \in worker[p].due : Reserved(k)})
    [] worker[p].at = "due" ->
         ProfileRows(worker[p].due)
           \cup {<<"profile", worker[p].ask.workspace>>}
    [] worker[p].at = "fenced" -> RequestRows(Pending(p))
    [] worker[p].at = "joining" ->
         {ClusterRow(request[worker[p].key].target)}
    [] worker[p].at = "rolling" -> ProfileRows({worker[p].key})
    [] worker[p].at = "swept" ->
         RequestRows(worker[p].due \cap ReservedOn(worker[p].target))
    [] worker[p].at = "expiring" -> ProfileRows(worker[p].rows)
    [] OTHER -> {}

WaitsFor(p, q) == p # q /\ Wants(p) \cap holds[q] # {}

Deadlocked(p) ==
  \E cycle \in SUBSET Process :
    /\ p \in cycle
    /\ \A q \in cycle : /\ \E r \in cycle : WaitsFor(q, r)
                        /\ \E r \in cycle : WaitsFor(r, q)

\* The database finds the cycle and gives one of its transactions up.
GiveUp(p) == Deadlocked(p) /\ Crash(p)

-----------------------------------------------------------------------------

Operate(p) ==
  \/ LockTarget(p) \/ LockDue(p) \/ LockExpired(p) \/ LockProfile(p)
  \/ Admit(p) \/ Refuse(p) \/ Reserve(p) \/ Answer(p)
  \/ RollBack(p)

Next ==
  \/ \E p \in Operator :
       \/ Operate(p) \/ LockJoined(p)
       \/ \E k \in Key : Claim(p, k) \/ LockRequest(p, k)
  \/ \E s \in Sweeper :
       \/ BeginSweep(s) \/ SweepTarget(s) \/ SweepRows(s)
       \/ LockExpired(s) \/ SweepExpires(s) \/ EndSweep(s)
  \/ \E c \in Cluster : PlaceNew(c) \/ UpdateCluster(c)
  \/ \E k \in Key : Lapse(k)
  \/ \E p \in Process : Crash(p)

Safety == Init /\ [][Next]_vars

\* A deadlock is found, a lock that comes free again and again is granted in the
\* end, and not every process that waits at the same step dies there.
Fairness ==
  /\ WF_vars(\E p \in Process : GiveUp(p))
  /\ SF_vars(\E p \in Operator : Operate(p))
  /\ SF_vars(\E p \in Operator : LockJoined(p))
  /\ \A s \in Sweeper :
       /\ WF_vars(BeginSweep(s) \/ EndSweep(s))
       /\ SF_vars(SweepTarget(s))
       /\ SF_vars(SweepRows(s))
       /\ SF_vars(LockExpired(s))
       /\ SF_vars(SweepExpires(s))

Spec == Safety /\ Fairness

-----------------------------------------------------------------------------
(* Properties *)

\* The fence of a reservation is its workspace's fence as long as it stands,
\* and never again: a late worker of a released one is turned away.
Fenced ==
  \A k \in Key : request[k].status # "none" =>
    /\ Reserved(k) <=> request[k].fence = fence[request[k].workspace]
    /\ \A l \in Key \ {k} :
         /\ request[l].status # "none"
         /\ request[l].workspace = request[k].workspace
         => request[l].fence # request[k].fence

\* The room of c that is taken, or promised for as long as time allows.
Committed(c) ==
  cluster[c].assigned + Cardinality({k \in ReservedOn(c) : ~ request[k].lapsed})

\* No reservation is made on a cluster whose room is taken or promised.
NeverOverPromised ==
  [][\A c \in Cluster : ReservedOn(c)' \subseteq ReservedOn(c)
                           \/ Committed(c)' <= cluster'[c].room]_vars

\* A reservation that has lapsed gives its room back.
LapsedIsReleased ==
  \A k \in Key : Reserved(k) /\ request[k].lapsed ~> ~ Reserved(k)

\* A request is refused for its fence only when the workspace's placement has
\* changed since the operator looked.  Does not hold: a lapsed reservation on the
\* same cluster is expired by the request itself, which moves the fence, is
\* refused, and takes the expiry back.
ConflictIsChange ==
  \A p \in Operator : worker[p].at = "conflict" =>
    fence[worker[p].ask.workspace] # worker[p].ask.expected
=============================================================================
