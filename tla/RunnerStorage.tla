---------------------------- MODULE RunnerStorage ----------------------------
(***************************************************************************)
(* Runner registrations and shard leases of Effect Cluster:                *)
(* src/cluster/runner-storage.ts.                                          *)
(*                                                                         *)
(* Every operation is one transaction with retryOnMaybeCommitted: false.   *)
(* An attempt reads its keys and the clock when it begins; its commit is   *)
(* refused if a key it read was written since, and the runner then begins  *)
(* a new attempt.  A runner may also give up on a call whose commit is in  *)
(* flight, and go on with another: that commit may still land.             *)
(***************************************************************************)
EXTENDS Integers, FiniteSets

CONSTANTS
  Address,         \* runner addresses
  Shard,           \* shard identifiers
  None,            \* undefined: no row, no call
  MachineIdCount,  \* machineIdCount, 1024 in the code
  Expiration,      \* shardLockExpiration
  MaxLost,         \* bound: commits in flight nobody waits for
  MaxTime          \* bound: last value of the wall clock

ASSUME RunnerStorageAssumption ==
  /\ MachineIdCount \in Nat
  /\ Expiration \in Nat \ {0}
  /\ MaxLost \in Nat /\ MaxTime \in Nat

VARIABLES
  runners,  \* registrations, by address
  leases,   \* leases, by shard
  call,     \* call[a]: the operation runner a waits for
  lost,     \* lost[a]: an operation a gave up on, its commit in flight
  held,     \* held[a][s]: until when a was told it owns s
  clock     \* wall clock, shared by synchronized hosts

vars == <<runners, leases, call, lost, held, clock>>

MachineId == 0 .. MachineIdCount - 1

\* The name and the health of a runner are data that nothing here depends on.
Registration == [machineId : MachineId, heartbeat : Nat]

Lease == [address : Address, expiresAt : Nat]

Kinds == {"register", "unregister", "setRunnerHealth", "acquire", "refresh",
          "release", "releaseAll"}

\* An attempt: the rows it has read, what it made of them, and whether one of
\* them was written since.  machineId is the identifier the registration of the
\* caller will have, rows the leases the attempt sets or clears.
Call == [kind : Kinds, shards : SUBSET Shard, now : Nat,
         reads : SUBSET (Address \cup Shard), machineId : MachineId \cup {None},
         rows : SUBSET Shard, stale : BOOLEAN]

\* undefined is none of the values it stands beside.
ASSUME NoneAssumption == None \notin Nat \cup Registration \cup Lease \cup Call

\* Runners and shards have rows of their own.
ASSUME RowsAssumption == Address \cap Shard = {}

-----------------------------------------------------------------------------
(* Transaction bodies: what an operation of runner a reads and writes      *)

\* Mutant: the range is read as a snapshot, without a conflict.
ReadsSnapshot(a, kind, shards) ==
  CASE kind \in {"register", "setRunnerHealth"} -> {a}
    [] kind = "unregister" -> {}
    [] kind = "refresh"    -> {a} \cup shards
    [] kind \in {"acquire", "release"} -> shards
    [] kind = "releaseAll" -> Shard

\* The rows an attempt reads.  register reads every registration when it has
\* an identifier to choose.
Reads(a, kind, shards) ==
  CASE kind = "register"   -> IF runners[a] = None THEN Address ELSE {a}
    [] kind = "setRunnerHealth" -> {a}
    [] kind = "unregister" -> {}
    [] kind = "refresh"    -> {a} \cup shards
    [] kind \in {"acquire", "release"} -> shards
    [] kind = "releaseAll" -> Shard

Used == {runners[b].machineId : b \in {d \in Address : runners[d] # None}}

Free == MachineId \ Used

\* Mutant: identifiers of runners that left are not given again.
OneAfterUsed == IF Used = {} THEN 0 ELSE 1 + CHOOSE m \in Used : \A n \in Used : n <= m

LowestFree == CHOOSE m \in Free : \A n \in Free : m <= n

\* A registration keeps its identifier; a new one gets the lowest that no
\* registration has, or none.
MachineIdFor(a, kind) ==
  CASE runners[a] # None -> runners[a].machineId
    [] runners[a] = None /\ kind = "register" /\ Free # {} -> LowestFree
    [] OTHER -> None

Owns(a, s) == leases[s] # None /\ leases[s].address = a

\* Mutant: a lease can be taken over in its last instant.
VacantEarly(s, now) == leases[s] = None \/ leases[s].expiresAt <= now

Vacant(s, now) == leases[s] = None \/ leases[s].expiresAt < now

\* Mutant: releasing does not look at the owner.
RowsOfAnyone(a, kind, shards, now) ==
  {s \in shards : leases[s] # None \/ (kind = "acquire" /\ Vacant(s, now))}

\* The leases an operation writes: an acquire takes those that are vacant too.
Rows(a, kind, shards, now) ==
  {s \in shards : Owns(a, s) \/ (kind = "acquire" /\ Vacant(s, now))}

\* Mutant: a heartbeat writes the registration whether it is there or not.
RunnersRevived(a, c) ==
  CASE c.kind = "unregister" -> [runners EXCEPT ![a] = None]
    [] c.kind \in {"register", "refresh"} ->
         [runners EXCEPT ![a] = [machineId |-> IF c.machineId = None THEN 0 ELSE c.machineId,
                                 heartbeat |-> c.now]]
    [] OTHER -> runners

\* refresh and setRunnerHealth only rewrite a registration that is there; the
\* latter changes nothing but its health.
RunnersAfter(a, c) ==
  CASE c.kind = "unregister" -> [runners EXCEPT ![a] = None]
    [] c.kind \in {"register", "refresh"} /\ c.machineId # None ->
         [runners EXCEPT ![a] = [machineId |-> c.machineId, heartbeat |-> c.now]]
    [] OTHER -> runners

LeasesAfter(a, c) ==
  [s \in Shard |->
     CASE s \notin c.rows -> leases[s]
       [] s \in c.rows /\ c.kind \in {"acquire", "refresh"} ->
            [address |-> a, expiresAt |-> c.now + Expiration]
       [] OTHER -> None]

\* The rows operation c writes; writing the value a row has is a write.
Writes(a, c) ==
  c.rows \cup
    (IF \/ c.kind = "unregister"
        \/ c.kind \in {"register", "setRunnerHealth", "refresh"} /\ c.machineId # None
     THEN {a} ELSE {})

-----------------------------------------------------------------------------
(* Attempts                                                                *)

Init ==
  /\ runners = [a \in Address |-> None]
  /\ leases = [s \in Shard |-> None]
  /\ call = [a \in Address |-> None]
  /\ lost = [a \in Address |-> None]
  /\ held = [a \in Address |-> [s \in Shard |-> None]]
  /\ clock = 0

\* An attempt that begins now.
Attempt(a, kind, shards) ==
  [kind |-> kind, shards |-> shards,
   now |-> IF kind \in {"register", "acquire", "refresh"} THEN clock ELSE 0,
   reads |-> Reads(a, kind, shards),
   machineId |-> IF kind \in {"register", "refresh", "setRunnerHealth"}
                 THEN MachineIdFor(a, kind) ELSE None,
   rows |-> Rows(a, kind, shards, clock),
   stale |-> FALSE]

\* An attempt that can only be repeated.
Outdated(c) == [c EXCEPT !.now = 0, !.reads = {}, !.machineId = None, !.rows = {},
                         !.stale = TRUE]

\* The shards a call is about.  A runner acquires those it does not own and
\* refreshes those it does; before it releases one it stops working on it.
ShardsOf(a, kind) ==
  LET mine == {s \in Shard : held[a][s] # None}
  IN  CASE kind = "acquire"    -> (SUBSET (Shard \ mine)) \ {{}}
        [] kind = "refresh"    -> SUBSET mine
        [] kind = "release"    -> {{s} : s \in Shard}
        [] kind = "releaseAll" -> {Shard}
        [] OTHER -> {{}}

Forgotten(a, shards) ==
  [held EXCEPT ![a] = [s \in Shard |-> IF s \in shards THEN None ELSE @[s]]]

Begin(a) ==
  /\ call[a] = None
  /\ \E kind \in Kinds : \E shards \in ShardsOf(a, kind) :
       /\ call' = [call EXCEPT ![a] = Attempt(a, kind, shards)]
       /\ held' = IF kind \in {"release", "releaseAll"} THEN Forgotten(a, shards) ELSE held
  /\ UNCHANGED <<runners, leases, lost, clock>>

\* Attempts in flight that read a row of `rows`, written by this commit.
Conflicts(pending, rows) ==
  [b \in Address |-> IF pending[b] # None /\ pending[b].reads \cap rows # {}
                     THEN Outdated(pending[b]) ELSE pending[b]]

\* register without an identifier left: RunnerMachineIdsExhaustedError.
Exhausted(c) == c.kind = "register" /\ c.machineId = None /\ ~c.stale

\* Operation c of runner a is applied.
Applies(a, c) ==
  /\ ~c.stale
  /\ ~Exhausted(c)
  /\ runners' = RunnersAfter(a, c)
  /\ leases' = LeasesAfter(a, c)

\* The runner learns the answer.
Commit(a) ==
  /\ call[a] # None
  /\ Applies(a, call[a])
  /\ call' = Conflicts([call EXCEPT ![a] = None], Writes(a, call[a]))
  /\ lost' = Conflicts(lost, Writes(a, call[a]))
  /\ held' = IF call[a].kind \in {"acquire", "refresh"}
             THEN [held EXCEPT ![a] = [s \in Shard |->
                     CASE s \notin call[a].shards -> @[s]
                       [] s \in call[a].rows -> call[a].now + Expiration
                       [] OTHER -> None]]
             ELSE held
  /\ UNCHANGED clock

\* not_committed: the runner of the transaction begins another attempt.
Retry(a) ==
  /\ call[a] # None
  /\ call[a].stale
  /\ call' = [call EXCEPT ![a] = Attempt(a, call[a].kind, call[a].shards)]
  /\ UNCHANGED <<runners, leases, lost, held, clock>>

\* The call fails without a commit in flight: out of retries or of machine
\* identifiers.
Fail(a) ==
  /\ call[a] # None
  /\ call[a].stale \/ Exhausted(call[a])
  /\ call' = [call EXCEPT ![a] = None]
  /\ UNCHANGED <<runners, leases, lost, held, clock>>

MayLose(a) == lost[a] = None /\ Cardinality({b \in Address : lost[b] # None}) < MaxLost

\* The call is interrupted, times out or answers commit_unknown_result: the
\* runner goes on, the commit stays in flight.
Lose(a) ==
  /\ call[a] # None /\ ~call[a].stale
  /\ MayLose(a)
  /\ lost' = [lost EXCEPT ![a] = call[a]]
  /\ call' = [call EXCEPT ![a] = None]
  /\ UNCHANGED <<runners, leases, held, clock>>

LostLands(a) ==
  /\ lost[a] # None
  /\ Applies(a, lost[a])
  /\ call' = Conflicts(call, Writes(a, lost[a]))
  /\ lost' = Conflicts([lost EXCEPT ![a] = None], Writes(a, lost[a]))
  /\ UNCHANGED <<held, clock>>

LostIsDropped(a) ==
  /\ lost[a] # None
  /\ lost' = [lost EXCEPT ![a] = None]
  /\ UNCHANGED <<runners, leases, call, held, clock>>

\* The process of a runner ends and starts again, with nothing it was told.
Restart(a) ==
  /\ held' = Forgotten(a, Shard)
  /\ IF call[a] # None /\ ~call[a].stale /\ MayLose(a)
     THEN lost' = [lost EXCEPT ![a] = call[a]] ELSE UNCHANGED lost
  /\ call' = [call EXCEPT ![a] = None]
  /\ UNCHANGED <<runners, leases, clock>>

Tick ==
  /\ clock < MaxTime
  /\ clock' = clock + 1
  /\ UNCHANGED <<runners, leases, call, lost, held>>

RunnerStep(a) ==
  \/ Begin(a)
  \/ Commit(a)
  \/ Retry(a)
  \/ Fail(a)
  \/ Lose(a)
  \/ LostLands(a)
  \/ LostIsDropped(a)
  \/ Restart(a)

Next == Tick \/ \E a \in Address : RunnerStep(a)

Spec == Init /\ [][Next]_vars

-----------------------------------------------------------------------------
(* Properties                                                              *)

\* Every variable has its type.
TypeOK ==
  /\ runners \in [Address -> Registration \cup {None}]
  /\ leases \in [Shard -> Lease \cup {None}]
  /\ call \in [Address -> Call \cup {None}]
  /\ lost \in [Address -> Call \cup {None}]
  /\ held \in [Address -> [Shard -> Nat \cup {None}]]
  /\ clock \in Nat

\* "Runner registration assigns unique 10-bit machine IDs" (README.md:521), for
\* registrations that race, retry, are given up or come back late.
MachineIdsUnique ==
  \A a, b \in Address :
    runners[a] # None /\ runners[b] # None /\ runners[a].machineId = runners[b].machineId
      => a = b

\* What a runner was told is backed by the table: while it may work on a shard
\* (up to and including the last instant it was promised) the lease is its
\* own, for at least as long.  So no two runners work on a shard at once, and
\* "Lease ownership checks prevent stale runners from releasing another
\* runner's shards" (README.md:525-526).
LeaseBacksOwner ==
  \A a \in Address, s \in Shard :
    held[a][s] # None /\ clock <= held[a][s] =>
      Owns(a, s) /\ leases[s].expiresAt >= held[a][s]

\* A lease changes hands only after it has expired, or was given back by its
\* owner.
LeaseRespected ==
  [][\A s \in Shard :
       leases[s] # None /\ (leases'[s] = None \/ leases'[s].address # leases[s].address) =>
         \/ leases[s].expiresAt < clock
         \/ leases'[s] = None /\ \E c \in {call[leases[s].address], lost[leases[s].address]} :
              c # None /\ c.kind \in {"release", "releaseAll"} /\ s \in c.shards]_vars

\* Registrations keep their machine identifier "until explicitly unregistered,
\* even when their heartbeat expires" (runner-storage.ts:78-83), and a late
\* heartbeat or health report never brings an unregistered runner back.
RegistrationLasts ==
  [][\A a \in Address :
       LET asked(kind) == \E c \in {call[a], lost[a]} : c # None /\ c.kind = kind
       IN  /\ runners[a] # None /\ runners'[a] = None => asked("unregister")
           /\ runners[a] # None /\ runners'[a] # None =>
                runners'[a].machineId = runners[a].machineId
           /\ runners[a] = None /\ runners'[a] # None => asked("register")]_vars
=============================================================================
