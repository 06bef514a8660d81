------------------------- MODULE RunnerStorageProofs -------------------------
(***************************************************************************)
(* Machine identifiers are unique and leases back what runners were told,  *)
(* for any runners and shards, any clock and any expiration.               *)
(***************************************************************************)
EXTENDS RunnerStorage, WellFoundedInduction, TLAPS

LeaseKinds == {"acquire", "refresh", "release", "releaseAll"}

Gives(c) == c.kind \in {"release", "releaseAll"}

\* What a runner asks for: it has stopped working on the shards it gives back.
\* told is held[a].
Asks(c, told) ==
  /\ c.kind \notin LeaseKinds => c.shards = {}
  /\ Gives(c) => \A s \in c.shards : told[s] = None

\* The identifier c will write is the caller's, or still free.
IdentifierSound(a, c, regs) ==
  c.kind \in {"register", "refresh"} /\ c.machineId # None =>
    /\ a \in c.reads
    /\ \/ regs[a] # None /\ regs[a].machineId = c.machineId
       \/ /\ c.kind = "register" /\ regs[a] = None
          /\ Address \subseteq c.reads
          /\ \A b \in Address : regs[b] # None => regs[b].machineId # c.machineId

\* The leases c will write are the caller's, or had expired when c began.
RowSound(a, c, s, table) ==
  /\ \/ table[s] # None /\ table[s].address = a
     \/ c.kind = "acquire" /\ (table[s] = None \/ table[s].expiresAt < c.now)
  /\ c.kind \in {"acquire", "refresh"} /\ table[s] # None =>
       table[s].expiresAt <= c.now + Expiration

\* An attempt that can still be applied: what it decided holds of the rows now.
\* regs is `runners`, table `leases`.
Sound(a, c, regs, table, told, now) ==
  /\ Asks(c, told)
  /\ c.rows \subseteq c.shards /\ c.shards \subseteq c.reads
  /\ c.now <= now
  /\ IdentifierSound(a, c, regs)
  /\ \A s \in c.rows : RowSound(a, c, s, table)

LeasesBounded ==
  \A s \in Shard : leases[s] # None => leases[s].expiresAt <= clock + Expiration

PendingSound ==
  \A a \in Address : \A c \in {call[a], lost[a]} :
    c # None /\ ~c.stale => Sound(a, c, runners, leases, held[a], clock)

CallsAsk == \A a \in Address : call[a] # None => Asks(call[a], held[a])

\* The inductive invariant.
IInv ==
  /\ TypeOK
  /\ MachineIdsUnique
  /\ LeaseBacksOwner
  /\ LeasesBounded
  /\ PendingSound
  /\ CallsAsk

-----------------------------------------------------------------------------
(* Attempts                                                                *)

\* A set of naturals has a least element.
LEMMA NatMin ==
  ASSUME NEW T, T \subseteq Nat, T # {}
  PROVE  \E x \in T : \A y \in T : x <= y
<1> DEFINE R == OpToRel(<, Nat)
<1>1. \E x \in T : \A y \in T : ~(<<y, x>> \in R)
  BY WFMin, NatLessThanWellFounded
<1>2. \A x \in Nat, y \in Nat : y < x => <<y, x>> \in R
  BY DEF OpToRel
<1> HIDE DEF R
<1>3. PICK x \in T : \A y \in T : ~(<<y, x>> \in R)
  BY <1>1
<1>4. ASSUME NEW y \in T PROVE x <= y
  <2>1. x \in Nat /\ y \in Nat
    OBVIOUS
  <2>2. ~(y < x)
    BY <1>2, <1>3, <2>1
  <2> QED BY <2>1, <2>2
<1> QED BY <1>4

LEMMA LowestFreeIsFree ==
  ASSUME Free # {}
  PROVE  LowestFree \in MachineId \ Used
<1>1. Free \subseteq Nat
  BY RunnerStorageAssumption DEF Free, MachineId
<1>2. \E m \in Free : \A n \in Free : m <= n
  BY <1>1, NatMin
<1> QED BY <1>2 DEF LowestFree, Free

\* What an attempt reads includes what its writes depend on.
LEMMA ReadsCover ==
  ASSUME NEW a \in Address, NEW kind \in Kinds, NEW shards \in SUBSET Shard,
         kind \notin LeaseKinds => shards = {}
  PROVE  /\ Reads(a, kind, shards) \in SUBSET (Address \cup Shard)
         /\ shards \subseteq Reads(a, kind, shards)
         /\ kind \in {"register", "refresh"} => a \in Reads(a, kind, shards)
         /\ kind = "register" /\ runners[a] = None => Address \subseteq Reads(a, kind, shards)
BY DEF Reads, Kinds, LeaseKinds

\* The identifier an attempt finds is the caller's, or one nobody has.
LEMMA IdentifierFound ==
  ASSUME TypeOK, NEW a \in Address, NEW kind \in Kinds
  PROVE  /\ MachineIdFor(a, kind) \in MachineId \cup {None}
         /\ MachineIdFor(a, kind) # None =>
              \/ runners[a] # None /\ runners[a].machineId = MachineIdFor(a, kind)
              \/ kind = "register" /\ runners[a] = None /\ MachineIdFor(a, kind) \notin Used
<1>1. runners[a] # None => runners[a].machineId \in MachineId
  BY DEF TypeOK, Registration
<1>2. CASE runners[a] # None
  BY <1>1, <1>2 DEF MachineIdFor
<1>3. CASE runners[a] = None /\ kind = "register" /\ Free # {}
  BY <1>3, LowestFreeIsFree DEF MachineIdFor
<1>4. CASE runners[a] = None /\ ~(kind = "register" /\ Free # {})
  BY <1>4 DEF MachineIdFor
<1> QED BY <1>2, <1>3, <1>4

\* An attempt that begins is sound.
LEMMA AttemptSound ==
  ASSUME TypeOK, LeasesBounded,
         NEW a \in Address, NEW kind \in Kinds, NEW shards \in SUBSET Shard, NEW told,
         kind \notin LeaseKinds => shards = {},
         kind \in {"release", "releaseAll"} => \A s \in shards : told[s] = None
  PROVE  /\ Attempt(a, kind, shards) \in Call
         /\ Asks(Attempt(a, kind, shards), told)
         /\ Sound(a, Attempt(a, kind, shards), runners, leases, told, clock)
<1> DEFINE c == Attempt(a, kind, shards)
<1>1. /\ c.kind = kind /\ c.shards = shards /\ c.stale = FALSE
      /\ c.now = IF kind \in {"register", "acquire", "refresh"} THEN clock ELSE 0
      /\ c.reads = Reads(a, kind, shards)
      /\ c.machineId = IF kind \in {"register", "refresh", "setRunnerHealth"}
                       THEN MachineIdFor(a, kind) ELSE None
      /\ c.rows = Rows(a, kind, shards, clock)
  BY DEF Attempt
<1>2. c.now \in Nat /\ c.now <= clock
  BY <1>1 DEF TypeOK
<1>3. c \in Call
  <2>1. /\ c.machineId \in MachineId \cup {None}
        /\ c.reads \in SUBSET (Address \cup Shard)
        /\ c.rows \in SUBSET Shard
    BY <1>1, IdentifierFound, ReadsCover DEF Rows
  <2>2. c = [kind |-> c.kind, shards |-> c.shards, now |-> c.now, reads |-> c.reads,
             machineId |-> c.machineId, rows |-> c.rows, stale |-> c.stale]
    BY DEF Attempt
  <2> HIDE DEF c
  <2> QED BY <1>1, <1>2, <2>1, <2>2 DEF Call
<1> HIDE DEF c
<1>4. Asks(c, told)
  BY <1>1 DEF Asks, Gives
<1>5. c.rows \subseteq c.shards /\ c.shards \subseteq c.reads
  BY <1>1, ReadsCover DEF Rows
<1>6. IdentifierSound(a, c, runners)
  <2> SUFFICES ASSUME kind \in {"register", "refresh"}, c.machineId # None
               PROVE  /\ a \in c.reads
                      /\ \/ runners[a] # None /\ runners[a].machineId = c.machineId
                         \/ /\ kind = "register" /\ runners[a] = None
                            /\ Address \subseteq c.reads
                            /\ \A b \in Address : runners[b] # None =>
                                 runners[b].machineId # c.machineId
    BY <1>1 DEF IdentifierSound
  <2>1. c.machineId = MachineIdFor(a, kind)
    BY <1>1
  <2>2. a \in c.reads /\ (kind = "register" /\ runners[a] = None => Address \subseteq c.reads)
    BY <1>1, ReadsCover
  <2>3. CASE runners[a] # None /\ runners[a].machineId = c.machineId
    BY <2>2, <2>3
  <2>4. CASE kind = "register" /\ runners[a] = None /\ c.machineId \notin Used
    BY <2>2, <2>4 DEF Used
  <2> QED BY <2>1, <2>3, <2>4, IdentifierFound
<1>7. ASSUME NEW s \in c.rows PROVE RowSound(a, c, s, leases)
  <2>1. s \in Shard /\ (Owns(a, s) \/ (kind = "acquire" /\ Vacant(s, clock)))
    BY <1>1 DEF Rows
  <2>2. kind \in {"acquire", "refresh"} => c.now = clock
    BY <1>1
  <2>3. leases[s] # None => leases[s].expiresAt <= clock + Expiration
    BY <2>1 DEF LeasesBounded
  <2> QED BY <1>1, <2>1, <2>2, <2>3 DEF RowSound, Owns, Vacant
<1> QED BY <1>2, <1>3, <1>4, <1>5, <1>6, <1>7 DEF Sound, c

-----------------------------------------------------------------------------
(* Commits                                                                 *)

\* A commit outdates the attempts that read what it wrote, and no other.
LEMMA ConflictsKeep ==
  ASSUME NEW pending \in [Address -> Call \cup {None}], NEW rows
  PROVE  /\ Conflicts(pending, rows) \in [Address -> Call \cup {None}]
         /\ \A b \in Address : Conflicts(pending, rows)[b] # None =>
              LET d == Conflicts(pending, rows)[b]
              IN  /\ pending[b] # None /\ d.kind = pending[b].kind /\ d.shards = pending[b].shards
                  /\ ~d.stale => d = pending[b] /\ d.reads \cap rows = {}
<1>1. ASSUME NEW c \in Call PROVE /\ Outdated(c) \in Call /\ Outdated(c).stale
                                  /\ Outdated(c).kind = c.kind /\ Outdated(c).shards = c.shards
  BY RunnerStorageAssumption DEF Outdated, Call
<1> SUFFICES ASSUME NEW b \in Address
             PROVE  LET d == IF pending[b] # None /\ pending[b].reads \cap rows # {}
                             THEN Outdated(pending[b]) ELSE pending[b]
                    IN  /\ d \in Call \cup {None}
                        /\ d # None => 
                             /\ pending[b] # None /\ d.kind = pending[b].kind /\ d.shards = pending[b].shards
                             /\ ~d.stale => d = pending[b] /\ d.reads \cap rows = {}
  BY DEF Conflicts
<1>2. CASE pending[b] # None /\ pending[b].reads \cap rows # {}
  BY <1>1, <1>2
<1>3. CASE ~(pending[b] # None /\ pending[b].reads \cap rows # {})
  BY <1>3
<1> QED BY <1>2, <1>3

\* An operation that is applied was sound.
LEMMA PendingType ==
  ASSUME IInv, NEW a \in Address, NEW c \in {call[a], lost[a]}, c # None
  PROVE  /\ c \in Call
         /\ ~c.stale => Sound(a, c, runners, leases, held[a], clock)
<1>1. c \in Call
  BY DEF IInv, TypeOK
<1>2. ~c.stale => Sound(a, c, runners, leases, held[a], clock)
  BY DEF IInv, PendingSound
<1> QED BY <1>1, <1>2

LEMMA AppliedRunners ==
  ASSUME IInv, NEW a \in Address, NEW c \in {call[a], lost[a]}, c # None, Applies(a, c)
  PROVE  /\ runners' \in [Address -> Registration \cup {None}]
         /\ MachineIdsUnique'
<1>1. c \in Call /\ IdentifierSound(a, c, runners)
  BY PendingType DEF Applies, Sound
<1>2. runners \in [Address -> Registration \cup {None}] /\ runners' = RunnersAfter(a, c)
  BY DEF IInv, TypeOK, Applies
<1>3. CASE c.kind = "unregister"
  <2>1. runners' = [runners EXCEPT ![a] = None]
    BY <1>2, <1>3 DEF RunnersAfter
  <2> QED BY <1>2, <2>1 DEF MachineIdsUnique, IInv
<1>4. CASE c.kind \in {"register", "refresh"} /\ c.machineId # None
  <2> DEFINE r == [machineId |-> c.machineId, heartbeat |-> c.now]
  <2>1. runners' = [runners EXCEPT ![a] = r]
    BY <1>2, <1>4 DEF RunnersAfter
  <2>2. r \in Registration /\ r.machineId = c.machineId
    BY <1>1, <1>4 DEF Call, Registration
  <2>3. \A b \in Address \ {a} : runners[b] # None => runners[b].machineId # c.machineId
    BY <1>1, <1>4 DEF IdentifierSound, IInv, MachineIdsUnique
  <2> HIDE DEF r
  <2>4. /\ runners' \in [Address -> Registration \cup {None}]
        /\ runners'[a] = r
        /\ \A b \in Address \ {a} : runners'[b] = runners[b]
    BY <1>2, <2>1, <2>2
  <2> QED BY <2>2, <2>3, <2>4 DEF MachineIdsUnique, IInv
<1>5. CASE c.kind # "unregister" /\ ~(c.kind \in {"register", "refresh"} /\ c.machineId # None)
  <2>1. runners' = runners
    BY <1>2, <1>5 DEF RunnersAfter
  <2> QED BY <1>2, <2>1 DEF MachineIdsUnique, IInv
<1> QED BY <1>3, <1>4, <1>5

\* The rows an operation leaves: its own lease, or none if it gives it back.
LEMMA AppliedLeases ==
  ASSUME IInv, NEW a \in Address, NEW c \in {call[a], lost[a]}, c # None, Applies(a, c)
  PROVE  /\ leases' \in [Shard -> Lease \cup {None}]
         /\ \A s \in Shard : leases'[s] # None => leases'[s].expiresAt <= clock + Expiration
         /\ \A s \in Shard \ c.rows : leases'[s] = leases[s]
         /\ \A s \in c.rows :
              /\ s \in Shard /\ s \in c.shards /\ RowSound(a, c, s, leases)
              /\ \/ /\ c.kind \in {"acquire", "refresh"}
                    /\ leases'[s] # None
                    /\ leases'[s].address = a /\ leases'[s].expiresAt = c.now + Expiration
                 \/ Gives(c) /\ leases'[s] = None
<1>1. /\ c \in Call /\ c.rows \subseteq c.shards
      /\ c.kind \notin LeaseKinds => c.shards = {}
      /\ c.now <= clock
      /\ \A s \in c.rows : RowSound(a, c, s, leases)
  BY PendingType DEF Applies, Sound, Asks
<1>2. /\ leases \in [Shard -> Lease \cup {None}] /\ clock \in Nat
      /\ leases' = LeasesAfter(a, c)
      /\ c.now \in Nat /\ c.rows \subseteq Shard
  BY <1>1 DEF IInv, TypeOK, Applies, Call
<1>3. \A s \in Shard \ c.rows : leases'[s] = leases[s]
  BY <1>2 DEF LeasesAfter
<1> DEFINE mine == [address |-> a, expiresAt |-> c.now + Expiration]
<1>4. /\ mine \in Lease /\ mine # None
      /\ mine.address = a /\ mine.expiresAt = c.now + Expiration
      /\ mine.expiresAt <= clock + Expiration
  BY <1>1, <1>2, RunnerStorageAssumption, NoneAssumption DEF Lease
<1>5. \A s \in c.rows : IF c.kind \in {"acquire", "refresh"}
                        THEN leases'[s] = mine ELSE Gives(c) /\ leases'[s] = None
  BY <1>1, <1>2 DEF LeasesAfter, Gives, LeaseKinds
<1> HIDE DEF mine
<1>6. \A s \in Shard : leases'[s] \in Lease \cup {None}
  BY <1>2, <1>3, <1>4, <1>5
<1>7. leases' \in [Shard -> Lease \cup {None}]
  <2>1. leases' = [s \in Shard |-> leases'[s]]
    BY <1>2 DEF LeasesAfter
  <2> QED BY <1>6, <2>1
<1>8. \A s \in Shard : leases'[s] # None => leases'[s].expiresAt <= clock + Expiration
  BY <1>2, <1>3, <1>4, <1>5 DEF IInv, LeasesBounded
<1> QED BY <1>1, <1>2, <1>3, <1>4, <1>5, <1>7, <1>8

\* What runners were told stays backed by the table.
LEMMA AppliedBacks ==
  ASSUME IInv, NEW a \in Address, NEW c \in {call[a], lost[a]}, c # None, Applies(a, c),
         NEW b \in Address, NEW s \in Shard, held[b][s] # None, clock <= held[b][s]
  PROVE  leases'[s] # None /\ leases'[s].address = b /\ leases'[s].expiresAt >= held[b][s]
<1>1. /\ leases[s] # None /\ leases[s].address = b /\ leases[s].expiresAt >= held[b][s]
      /\ leases[s].expiresAt \in Nat /\ held[b][s] \in Nat /\ clock \in Nat
  BY DEF IInv, LeaseBacksOwner, Owns, TypeOK, Lease
<1>2. CASE s \notin c.rows
  BY <1>1, <1>2, AppliedLeases
<1>3. CASE s \in c.rows
  <2>1. c \in Call /\ c.now <= clock /\ Asks(c, held[a])
    BY PendingType DEF Applies, Sound
  <2>2. c.now \in Nat /\ Expiration \in Nat
    BY <2>1, RunnerStorageAssumption DEF Call
  <2>3. RowSound(a, c, s, leases) /\ s \in c.shards
    BY <1>3, AppliedLeases
  <2>4. a = b
    BY <1>1, <2>1, <2>2, <2>3 DEF RowSound
  <2>5. ~Gives(c)
    BY <2>1, <2>3, <2>4 DEF Asks
  <2>6. /\ leases'[s] # None /\ leases'[s].address = a
        /\ leases'[s].expiresAt = c.now + Expiration
        /\ c.kind \in {"acquire", "refresh"}
    BY <1>3, <2>5, AppliedLeases
  <2> QED BY <1>1, <2>2, <2>3, <2>4, <2>6 DEF RowSound
<1> QED BY <1>2, <1>3

\* An attempt that read nothing of what was written is as sound as before.
LEMMA OthersSound ==
  ASSUME IInv, NEW a \in Address, NEW c \in {call[a], lost[a]}, c # None, Applies(a, c),
         NEW b \in Address, NEW d \in {call[b], lost[b]}, d # None, ~d.stale,
         d.reads \cap Writes(a, c) = {}, NEW told, Asks(d, told)
  PROVE  Sound(b, d, runners', leases', told, clock)
<1>1. d \in Call /\ Sound(b, d, runners, leases, held[b], clock)
  BY PendingType
<1>2. \A e \in Address : e \in d.reads => runners'[e] = runners[e]
  <2> SUFFICES ASSUME NEW e \in Address, e \in d.reads PROVE runners'[e] = runners[e]
    OBVIOUS
  <2>1. runners \in [Address -> Registration \cup {None}] /\ runners' = RunnersAfter(a, c)
    BY DEF IInv, TypeOK, Applies
  <2>2. CASE e # a
    BY <2>1, <2>2 DEF RunnersAfter
  <2>3. CASE e = a
    BY <2>1, <2>3 DEF RunnersAfter, Writes
  <2> QED BY <2>2, <2>3
<1>3. IdentifierSound(b, d, runners')
  BY <1>1, <1>2 DEF Sound, IdentifierSound
<1>4. ASSUME NEW s \in d.rows PROVE RowSound(b, d, s, leases')
  <2>1. s \in Shard /\ s \in d.reads /\ RowSound(b, d, s, leases)
    BY <1>1 DEF Sound, Call
  <2>2. s \notin c.rows
    BY <2>1 DEF Writes
  <2>3. leases'[s] = leases[s]
    BY <2>1, <2>2, AppliedLeases
  <2> QED BY <2>1, <2>3 DEF RowSound
<1> QED BY <1>1, <1>3, <1>4 DEF Sound

-----------------------------------------------------------------------------
(* Steps that leave the tables alone                                       *)

LEMMA QuietKeeps ==
  ASSUME IInv, UNCHANGED <<runners, leases, clock>>,
         call' \in [Address -> Call \cup {None}],
         lost' \in [Address -> Call \cup {None}],
         held' \in [Address -> [Shard -> Nat \cup {None}]],
         \A b \in Address, s \in Shard : held'[b][s] \in {held[b][s], None},
         \A b \in Address : call'[b] # None =>
           \/ call'[b] = call[b]
           \/ Sound(b, call'[b], runners, leases, held'[b], clock),
         \A b \in Address : lost'[b] \in {None, lost[b], call[b]}
  PROVE  IInv'
<1>1. TypeOK' /\ MachineIdsUnique' /\ LeasesBounded'
  BY DEF IInv, TypeOK, MachineIdsUnique, LeasesBounded
<1>2. LeaseBacksOwner'
  BY DEF IInv, LeaseBacksOwner, Owns
<1>3. ASSUME NEW b \in Address, NEW d \in Call, Asks(d, held[b]) PROVE Asks(d, held'[b])
  BY <1>3 DEF Asks, Call
<1>4. ASSUME NEW b \in Address, NEW d \in Call, Sound(b, d, runners, leases, held[b], clock)
      PROVE  Sound(b, d, runners, leases, held'[b], clock)
  BY <1>3, <1>4 DEF Sound
<1>5. CallsAsk'
  <2> SUFFICES ASSUME NEW b \in Address, call'[b] # None PROVE Asks(call'[b], held'[b])
    BY DEF CallsAsk
  <2>1. CASE call'[b] = call[b]
    BY <1>3, <2>1 DEF IInv, CallsAsk, TypeOK
  <2>2. CASE Sound(b, call'[b], runners, leases, held'[b], clock)
    BY <2>2 DEF Sound
  <2> QED BY <2>1, <2>2
<1>6. PendingSound'
  <2> SUFFICES ASSUME NEW b \in Address, NEW d \in {call'[b], lost'[b]}, d # None, ~d.stale
               PROVE  Sound(b, d, runners, leases, held'[b], clock)
    BY DEF PendingSound
  <2>1. CASE d = call[b] \/ d = lost[b]
    BY <1>4, <2>1 DEF IInv, PendingSound, TypeOK
  <2>2. CASE Sound(b, d, runners, leases, held'[b], clock)
    BY <2>2
  <2> QED BY <2>1, <2>2
<1> QED BY <1>1, <1>2, <1>5, <1>6 DEF IInv

LEMMA ForgottenType ==
  ASSUME TypeOK, NEW a \in Address, NEW shards
  PROVE  /\ Forgotten(a, shards) \in [Address -> [Shard -> Nat \cup {None}]]
         /\ \A b \in Address, s \in Shard : Forgotten(a, shards)[b][s] \in {held[b][s], None}
         /\ \A s \in Shard \cap shards : Forgotten(a, shards)[a][s] = None
BY DEF TypeOK, Forgotten

\* The shards of a call that begins are as Asks has them.
LEMMA ShardsAsked ==
  ASSUME NEW a \in Address, NEW kind \in Kinds, NEW shards \in ShardsOf(a, kind)
  PROVE  shards \in SUBSET Shard /\ (kind \notin LeaseKinds => shards = {})
BY DEF ShardsOf, LeaseKinds, Kinds

LEMMA BeginKeeps ==
  ASSUME IInv, NEW a \in Address, Begin(a)
  PROVE  IInv'
<1>0. PICK kind \in Kinds : \E shards \in ShardsOf(a, kind) :
        /\ call' = [call EXCEPT ![a] = Attempt(a, kind, shards)]
        /\ held' = IF kind \in {"release", "releaseAll"} THEN Forgotten(a, shards) ELSE held
  BY DEF Begin
<1>1. PICK shards \in ShardsOf(a, kind) :
        /\ call' = [call EXCEPT ![a] = Attempt(a, kind, shards)]
        /\ held' = IF kind \in {"release", "releaseAll"} THEN Forgotten(a, shards) ELSE held
  BY <1>0
<1>2. UNCHANGED <<runners, leases, lost, clock>> /\ TypeOK /\ LeasesBounded
  BY DEF Begin, IInv
<1>3. shards \in SUBSET Shard /\ (kind \notin LeaseKinds => shards = {})
  BY ShardsAsked
<1>4. /\ held' \in [Address -> [Shard -> Nat \cup {None}]]
      /\ \A b \in Address, s \in Shard : held'[b][s] \in {held[b][s], None}
      /\ kind \in {"release", "releaseAll"} => \A s \in shards : held'[a][s] = None
  <2>1. CASE kind \in {"release", "releaseAll"}
    BY <1>1, <1>2, <1>3, <2>1, ForgottenType
  <2>2. CASE kind \notin {"release", "releaseAll"}
    BY <1>1, <1>2, <2>2 DEF TypeOK
  <2> QED BY <2>1, <2>2
<1>5. /\ Attempt(a, kind, shards) \in Call
      /\ Sound(a, Attempt(a, kind, shards), runners, leases, held'[a], clock)
  BY <1>2, <1>3, <1>4, AttemptSound
<1>6. /\ call' \in [Address -> Call \cup {None}]
      /\ \A b \in Address : IF b = a THEN call'[b] = Attempt(a, kind, shards)
                            ELSE call'[b] = call[b]
  BY <1>1, <1>2, <1>5 DEF TypeOK
<1>7. lost' \in [Address -> Call \cup {None}] /\ \A b \in Address : lost'[b] = lost[b]
  BY <1>2 DEF TypeOK
<1> QED BY <1>2, <1>4, <1>5, <1>6, <1>7, QuietKeeps

LEMMA RetryKeeps ==
  ASSUME IInv, NEW a \in Address, Retry(a)
  PROVE  IInv'
<1> DEFINE c == call[a]
<1>1. /\ c \in Call /\ c # None /\ Asks(c, held[a])
      /\ call' = [call EXCEPT ![a] = Attempt(a, c.kind, c.shards)]
      /\ UNCHANGED <<runners, leases, lost, held, clock>>
      /\ TypeOK /\ LeasesBounded
  BY DEF Retry, IInv, TypeOK, CallsAsk
<1>2. /\ c.kind \in Kinds /\ c.shards \in SUBSET Shard
      /\ c.kind \notin LeaseKinds => c.shards = {}
      /\ c.kind \in {"release", "releaseAll"} => \A s \in c.shards : held[a][s] = None
  BY <1>1 DEF Call, Asks, Gives
<1> HIDE DEF c
<1>3. /\ Attempt(a, c.kind, c.shards) \in Call
      /\ Sound(a, Attempt(a, c.kind, c.shards), runners, leases, held[a], clock)
  BY <1>1, <1>2, AttemptSound
<1>4. /\ call' \in [Address -> Call \cup {None}]
      /\ \A b \in Address : IF b = a THEN call'[b] = Attempt(a, c.kind, c.shards)
                            ELSE call'[b] = call[b]
  BY <1>1, <1>3 DEF TypeOK
<1>5. /\ lost' \in [Address -> Call \cup {None}] /\ \A b \in Address : lost'[b] = lost[b]
      /\ held' \in [Address -> [Shard -> Nat \cup {None}]]
      /\ held' = held
  BY <1>1 DEF TypeOK
<1> QED BY <1>1, <1>3, <1>4, <1>5, QuietKeeps

LEMMA EndKeeps ==
  ASSUME IInv, NEW a \in Address,
         Fail(a) \/ Lose(a) \/ LostIsDropped(a) \/ Restart(a)
  PROVE  IInv'
<1>1. UNCHANGED <<runners, leases, clock>> /\ TypeOK
  BY DEF IInv, Fail, Lose, LostIsDropped, Restart
<1>2. /\ held' \in [Address -> [Shard -> Nat \cup {None}]]
      /\ \A b \in Address, s \in Shard : held'[b][s] \in {held[b][s], None}
  <2>1. CASE held' = held
    BY <1>1, <2>1 DEF TypeOK
  <2>2. CASE held' = Forgotten(a, Shard)
    BY <1>1, <2>2, ForgottenType
  <2> QED BY <2>1, <2>2 DEF Fail, Lose, LostIsDropped, Restart
<1>3. /\ call' \in [Address -> Call \cup {None}]
      /\ \A b \in Address : call'[b] \in {call[b], None}
  BY <1>1 DEF TypeOK, Fail, Lose, LostIsDropped, Restart
<1>4. /\ lost' \in [Address -> Call \cup {None}]
      /\ \A b \in Address : lost'[b] \in {None, lost[b], call[b]}
  <2>1. lost' \in {lost, [lost EXCEPT ![a] = None], [lost EXCEPT ![a] = call[a]]}
    BY DEF Fail, Lose, LostIsDropped, Restart
  <2> QED BY <1>1, <2>1 DEF TypeOK
<1> QED BY <1>1, <1>2, <1>3, <1>4, QuietKeeps

LEMMA TickKeeps ==
  ASSUME IInv, Tick
  PROVE  IInv'
<1>1. /\ clock \in Nat /\ clock' = clock + 1 /\ Expiration \in Nat
      /\ UNCHANGED <<runners, leases, call, lost, held>>
  BY RunnerStorageAssumption DEF IInv, TypeOK, Tick
<1>2. TypeOK' /\ MachineIdsUnique' /\ CallsAsk'
  BY <1>1 DEF IInv, TypeOK, MachineIdsUnique, CallsAsk
<1>3. LeaseBacksOwner'
  BY <1>1 DEF IInv, TypeOK, LeaseBacksOwner, Owns
<1>4. LeasesBounded'
  BY <1>1 DEF IInv, TypeOK, LeasesBounded, Lease
<1>5. PendingSound'
  <2> SUFFICES ASSUME NEW b \in Address, NEW d \in {call[b], lost[b]}, d # None, ~d.stale
               PROVE  Sound(b, d, runners, leases, held[b], clock')
    BY <1>1 DEF PendingSound
  <2>1. d \in Call /\ Sound(b, d, runners, leases, held[b], clock)
    BY PendingType
  <2>2. d.now \in Nat
    BY <2>1 DEF Call
  <2> QED BY <1>1, <2>1, <2>2 DEF Sound
<1> QED BY <1>2, <1>3, <1>4, <1>5 DEF IInv

-----------------------------------------------------------------------------
(* Steps that commit                                                       *)

\* Attempts still pending after a commit were pending before, and read nothing
\* the commit wrote unless they are stale.
After(before, now, rows) ==
  \A b \in Address : now[b] # None =>
    /\ before[b] # None /\ now[b].kind = before[b].kind /\ now[b].shards = before[b].shards
    /\ ~now[b].stale => now[b] = before[b] /\ now[b].reads \cap rows = {}

LEMMA LandsKeeps ==
  ASSUME IInv, NEW a \in Address, NEW c \in {call[a], lost[a]}, c # None, Applies(a, c),
         UNCHANGED clock,
         call' \in [Address -> Call \cup {None}],
         lost' \in [Address -> Call \cup {None}],
         held' \in [Address -> [Shard -> Nat \cup {None}]],
         After(call, call', Writes(a, c)), After(lost, lost', Writes(a, c)),
         CallsAsk', LeaseBacksOwner',
         \A b \in Address : lost'[b] # None /\ ~lost'[b].stale => Asks(lost'[b], held'[b])
  PROVE  IInv'
<1>1. TypeOK' /\ MachineIdsUnique' /\ LeasesBounded'
  <2>1. clock \in Nat
    BY DEF IInv, TypeOK
  <2> QED BY <2>1, AppliedRunners, AppliedLeases DEF TypeOK, LeasesBounded
<1>2. PendingSound'
  <2> SUFFICES ASSUME NEW b \in Address, NEW d \in {call'[b], lost'[b]}, d # None, ~d.stale
               PROVE  Sound(b, d, runners', leases', held'[b], clock)
    BY DEF PendingSound
  <2>1. d \in {call[b], lost[b]} /\ d.reads \cap Writes(a, c) = {}
    BY DEF After
  <2>2. Asks(d, held'[b])
    BY DEF CallsAsk
  <2> QED BY <2>1, <2>2, OthersSound
<1> QED BY <1>1, <1>2 DEF IInv

LEMMA AskSame ==
  ASSUME NEW c, NEW d, d.kind = c.kind, d.shards = c.shards, NEW told, Asks(c, told)
  PROVE  Asks(d, told)
BY DEF Asks, Gives

LEMMA CommitKeeps ==
  ASSUME IInv, NEW a \in Address, Commit(a)
  PROVE  IInv'
<1> DEFINE c == call[a]
           others == [call EXCEPT ![a] = None]
<1>1. /\ c \in {call[a], lost[a]} /\ c # None /\ Applies(a, c)
      /\ call' = Conflicts(others, Writes(a, c))
      /\ lost' = Conflicts(lost, Writes(a, c))
      /\ UNCHANGED clock
  BY DEF Commit
<1>2. /\ others \in [Address -> Call \cup {None}] /\ lost \in [Address -> Call \cup {None}]
      /\ \A b \in Address : others[b] # None => b # a /\ others[b] = call[b]
      /\ held \in [Address -> [Shard -> Nat \cup {None}]]
  BY DEF IInv, TypeOK
<1>3. held' = IF c.kind \in {"acquire", "refresh"}
              THEN [held EXCEPT ![a] = [s \in Shard |->
                      CASE s \notin c.shards -> @[s]
                        [] s \in c.rows -> c.now + Expiration
                        [] OTHER -> None]]
              ELSE held
  BY DEF Commit
<1> HIDE DEF c, others
<1>4. /\ call' \in [Address -> Call \cup {None}] /\ lost' \in [Address -> Call \cup {None}]
      /\ After(others, call', Writes(a, c)) /\ After(lost, lost', Writes(a, c))
  BY <1>1, <1>2, ConflictsKeep DEF After
<1>5. After(call, call', Writes(a, c)) /\ call'[a] = None
  BY <1>2, <1>4 DEF After
<1>6. c \in Call /\ c.now + Expiration \in Nat /\ c.rows \subseteq c.shards
  BY <1>1, PendingType, RunnerStorageAssumption DEF Call, Applies, Sound
<1>7. /\ \A b \in Address \ {a} : held'[b] = held[b]
      /\ \A s \in Shard : held'[a][s] # None =>
           \/ held'[a][s] = held[a][s] /\ s \notin c.rows
           \/ held'[a][s] = held[a][s] /\ c.kind \notin {"acquire", "refresh"}
           \/ s \in c.rows /\ c.kind \in {"acquire", "refresh"} /\ held'[a][s] = c.now + Expiration
      /\ held' \in [Address -> [Shard -> Nat \cup {None}]]
  BY <1>2, <1>3, <1>6
<1>8. LeaseBacksOwner'
  <2> SUFFICES ASSUME NEW b \in Address, NEW s \in Shard, held'[b][s] # None, clock <= held'[b][s]
               PROVE  /\ leases'[s] # None /\ leases'[s].address = b
                      /\ leases'[s].expiresAt >= held'[b][s]
    BY <1>1 DEF LeaseBacksOwner, Owns
  <2>1. CASE held'[b][s] = held[b][s]
    BY <1>1, <2>1, AppliedBacks
  <2>2. CASE held'[b][s] # held[b][s]
    <3>1. /\ b = a /\ s \in c.rows /\ c.kind \in {"acquire", "refresh"}
          /\ held'[b][s] = c.now + Expiration
      BY <1>7, <2>2
    <3>2. /\ leases'[s] # None /\ leases'[s].address = a
          /\ leases'[s].expiresAt = c.now + Expiration
      BY <1>1, <3>1, AppliedLeases DEF Gives
    <3> QED BY <1>6, <3>1, <3>2
  <2> QED BY <2>1, <2>2
<1>9. CallsAsk'
  <2> SUFFICES ASSUME NEW b \in Address, call'[b] # None PROVE Asks(call'[b], held'[b])
    BY DEF CallsAsk
  <2>1. b # a /\ held'[b] = held[b]
    BY <1>5, <1>7
  <2>2. call[b] # None /\ call'[b].kind = call[b].kind /\ call'[b].shards = call[b].shards
    BY <1>5 DEF After
  <2>3. Asks(call[b], held[b])
    BY <2>2 DEF IInv, CallsAsk
  <2> QED BY <2>1, <2>2, <2>3, AskSame
<1>10. ASSUME NEW b \in Address, lost'[b] # None, ~lost'[b].stale
       PROVE  Asks(lost'[b], held'[b])
  <2> DEFINE d == lost'[b]
  <2>1. d = lost[b] /\ d # None /\ ~d.stale /\ d.reads \cap Writes(a, c) = {}
    BY <1>4, <1>10 DEF After
  <2> HIDE DEF d
  <2>2. d \in Call /\ Asks(d, held[b]) /\ d.shards \subseteq d.reads /\ d.shards \subseteq Shard
    BY <2>1, PendingType DEF Sound, Call
  <2>3. \A s \in d.shards : s \notin c.rows
    BY <2>1, <2>2 DEF Writes
  <2>4. \A s \in d.shards : held'[b][s] # None => held'[b][s] = held[b][s]
    BY <1>7, <2>2, <2>3
  <2>5. Asks(d, held'[b])
    BY <2>2, <2>4 DEF Asks
  <2> QED BY <2>5 DEF d
<1> QED BY <1>1, <1>4, <1>5, <1>7, <1>8, <1>9, <1>10, LandsKeeps

LEMMA LostLandsKeeps ==
  ASSUME IInv, NEW a \in Address, LostLands(a)
  PROVE  IInv'
<1> DEFINE c == lost[a]
           others == [lost EXCEPT ![a] = None]
<1>1. /\ c \in {call[a], lost[a]} /\ c # None /\ Applies(a, c)
      /\ call' = Conflicts(call, Writes(a, c))
      /\ lost' = Conflicts(others, Writes(a, c))
      /\ UNCHANGED <<held, clock>>
  BY DEF LostLands
<1>2. /\ others \in [Address -> Call \cup {None}] /\ call \in [Address -> Call \cup {None}]
      /\ \A b \in Address : others[b] # None => b # a /\ others[b] = lost[b]
      /\ held' \in [Address -> [Shard -> Nat \cup {None}]]
  BY <1>1 DEF IInv, TypeOK
<1> HIDE DEF c, others
<1>3. /\ call' \in [Address -> Call \cup {None}] /\ lost' \in [Address -> Call \cup {None}]
      /\ After(call, call', Writes(a, c)) /\ After(others, lost', Writes(a, c))
  BY <1>1, <1>2, ConflictsKeep DEF After
<1>4. After(lost, lost', Writes(a, c))
  BY <1>2, <1>3 DEF After
<1>5. LeaseBacksOwner'
  BY <1>1, AppliedBacks DEF LeaseBacksOwner, Owns
<1>6. CallsAsk'
  <2> SUFFICES ASSUME NEW b \in Address, call'[b] # None PROVE Asks(call'[b], held[b])
    BY <1>1 DEF CallsAsk
  <2>1. call[b] # None /\ call'[b].kind = call[b].kind /\ call'[b].shards = call[b].shards
    BY <1>3 DEF After
  <2>2. Asks(call[b], held[b])
    BY <2>1 DEF IInv, CallsAsk
  <2> QED BY <2>1, <2>2, AskSame
<1>7. ASSUME NEW b \in Address, lost'[b] # None, ~lost'[b].stale
      PROVE  Asks(lost'[b], held'[b])
  <2>1. lost'[b] = lost[b]
    BY <1>4, <1>7 DEF After
  <2> QED BY <1>1, <1>7, <2>1, PendingType DEF Sound
<1> QED BY <1>1, <1>2, <1>3, <1>4, <1>5, <1>6, <1>7, LandsKeeps

-----------------------------------------------------------------------------
(* Theorems                                                                *)

LEMMA InitEstablishes ==
  ASSUME Init
  PROVE  IInv
<1>1. TypeOK
  BY DEF Init, TypeOK
<1>2. MachineIdsUnique /\ LeaseBacksOwner /\ LeasesBounded /\ PendingSound /\ CallsAsk
  BY DEF Init, MachineIdsUnique, LeaseBacksOwner, LeasesBounded, PendingSound, CallsAsk
<1> QED BY <1>1, <1>2 DEF IInv

LEMMA NextKeeps ==
  ASSUME IInv, [Next]_vars
  PROVE  IInv'
<1>1. CASE Tick
  BY <1>1, TickKeeps
<1>2. ASSUME NEW a \in Address, RunnerStep(a) PROVE IInv'
  <2>1. CASE Begin(a)
    BY <2>1, BeginKeeps
  <2>2. CASE Commit(a)
    BY <2>2, CommitKeeps
  <2>3. CASE Retry(a)
    BY <2>3, RetryKeeps
  <2>4. CASE LostLands(a)
    BY <2>4, LostLandsKeeps
  <2>5. CASE Fail(a) \/ Lose(a) \/ LostIsDropped(a) \/ Restart(a)
    BY <2>5, EndKeeps
  <2> QED BY <1>2, <2>1, <2>2, <2>3, <2>4, <2>5 DEF RunnerStep
<1>3. CASE UNCHANGED vars
  BY <1>3 DEF vars, IInv, TypeOK, MachineIdsUnique, LeaseBacksOwner, Owns, LeasesBounded,
              PendingSound, CallsAsk
<1> QED BY <1>1, <1>2, <1>3 DEF Next

\* What an attempt decided still holds when it is applied, however many runners
\* write, retry, give up and come back.
THEOREM Inductive == Spec => []IInv
<1>1. Init => IInv
  BY InitEstablishes
<1>2. IInv /\ [Next]_vars => IInv'
  BY NextKeeps
<1> QED BY <1>1, <1>2, PTL DEF Spec

\* Every variable of the runner table keeps its type; in particular the
\* identifiers given are below machineIdCount.
THEOREM TypeCorrect == Spec => []TypeOK
<1>1. IInv => TypeOK
  BY DEF IInv
<1> QED BY <1>1, Inductive, PTL

\* No two registered runners have the same machine identifier.
THEOREM IdentifiersUnique == Spec => []MachineIdsUnique
<1>1. IInv => MachineIdsUnique
  BY DEF IInv
<1> QED BY <1>1, Inductive, PTL

\* A runner that may still work on a shard owns its lease, for at least as long
\* as it was told.
THEOREM LeasesBack == Spec => []LeaseBacksOwner
<1>1. IInv => LeaseBacksOwner
  BY DEF IInv
<1> QED BY <1>1, Inductive, PTL

\* A step that writes the tables applies an operation of some runner.
LEMMA OnlyCommitsWrite ==
  ASSUME [Next]_vars
  PROVE  \/ UNCHANGED <<runners, leases>>
         \/ \E a \in Address : \E c \in {call[a], lost[a]} : c # None /\ Applies(a, c)
<1>1. ASSUME NEW a \in Address, RunnerStep(a)
      PROVE  \/ UNCHANGED <<runners, leases>>
             \/ \E c \in {call[a], lost[a]} : c # None /\ Applies(a, c)
  BY <1>1 DEF RunnerStep, Begin, Commit, Retry, Fail, Lose, LostLands, LostIsDropped, Restart
<1> QED BY <1>1 DEF Next, Tick, vars

\* A lease that is not given back by its owner changes hands only once expired.
THEOREM LeasesRespected == Spec => LeaseRespected
<1> DEFINE Kept ==
      \A s \in Shard :
        leases[s] # None /\ (leases'[s] = None \/ leases'[s].address # leases[s].address) =>
          \/ leases[s].expiresAt < clock
          \/ leases'[s] = None /\ \E c \in {call[leases[s].address], lost[leases[s].address]} :
               c # None /\ c.kind \in {"release", "releaseAll"} /\ s \in c.shards
<1>1. ASSUME IInv, [Next]_vars, NEW a \in Address, NEW c \in {call[a], lost[a]},
             c # None, Applies(a, c)
      PROVE  Kept
  <2> SUFFICES ASSUME NEW s \in Shard, leases[s] # None,
                      leases'[s] = None \/ leases'[s].address # leases[s].address,
                      ~(leases[s].expiresAt < clock)
               PROVE  /\ leases'[s] = None /\ leases[s].address = a
                      /\ c.kind \in {"release", "releaseAll"} /\ s \in c.shards
    BY <1>1
  <2>1. s \in c.rows
    BY <1>1, AppliedLeases
  <2>2. /\ RowSound(a, c, s, leases) /\ s \in c.shards
        /\ \/ leases'[s] # None /\ leases'[s].address = a
           \/ Gives(c) /\ leases'[s] = None
    BY <1>1, <2>1, AppliedLeases
  <2>3. c.now \in Nat /\ c.now <= clock /\ clock \in Nat /\ leases[s].expiresAt \in Nat
    BY <1>1, PendingType DEF Applies, Sound, Call, IInv, TypeOK, Lease
  <2>4. leases[s].address = a
    BY <2>2, <2>3 DEF RowSound
  <2> QED BY <2>2, <2>4 DEF Gives
<1>2. IInv /\ [Next]_vars => [Kept]_vars
  <2> SUFFICES ASSUME IInv, [Next]_vars PROVE Kept
    OBVIOUS
  <2>1. CASE UNCHANGED <<runners, leases>>
    BY <2>1
  <2>2. CASE \E a \in Address : \E c \in {call[a], lost[a]} : c # None /\ Applies(a, c)
    BY <1>1, <2>2
  <2> QED BY <2>1, <2>2, OnlyCommitsWrite
<1>3. Spec => [][Kept]_vars
  BY <1>2, Inductive, PTL DEF Spec
<1> QED BY <1>3 DEF LeaseRespected

\* A registration lasts, with its identifier, until its runner unregisters; a
\* late heartbeat or health report brings none back.
THEOREM RegistrationsLast == Spec => RegistrationLasts
<1> DEFINE asked(a, kind) == \E c \in {call[a], lost[a]} : c # None /\ c.kind = kind
           Lasts ==
             \A a \in Address :
               /\ runners[a] # None /\ runners'[a] = None => asked(a, "unregister")
               /\ runners[a] # None /\ runners'[a] # None =>
                    runners'[a].machineId = runners[a].machineId
               /\ runners[a] = None /\ runners'[a] # None => asked(a, "register")
<1>1. ASSUME IInv, NEW a \in Address, NEW c \in {call[a], lost[a]}, c # None, Applies(a, c)
      PROVE  Lasts
  <2>1. /\ IdentifierSound(a, c, runners) /\ c \in Call
        /\ runners \in [Address -> Registration \cup {None}]
        /\ runners' = RunnersAfter(a, c)
    BY <1>1, PendingType DEF Applies, Sound, IInv, TypeOK
  <2>2. \A b \in Address \ {a} : runners'[b] = runners[b]
    BY <2>1 DEF RunnersAfter
  <2>3. CASE c.kind = "unregister"
    <3>1. runners'[a] = None /\ asked(a, "unregister")
      BY <1>1, <2>1, <2>3 DEF RunnersAfter
    <3> QED BY <2>2, <3>1
  <2>4. CASE c.kind \in {"register", "refresh"} /\ c.machineId # None
    <3>1. runners'[a] = [machineId |-> c.machineId, heartbeat |-> c.now]
      BY <2>1, <2>4 DEF RunnersAfter
    <3>2. runners'[a] # None
      BY <2>1, <2>4, <3>1, NoneAssumption DEF Registration, Call
    <3>3. runners[a] # None => runners'[a].machineId = runners[a].machineId
      BY <2>1, <2>4, <3>1 DEF IdentifierSound, IInv, MachineIdsUnique
    <3>4. runners[a] = None => asked(a, "register")
      BY <1>1, <2>1, <2>4 DEF IdentifierSound
    <3> QED BY <2>2, <3>2, <3>3, <3>4
  <2>5. CASE c.kind # "unregister" /\ ~(c.kind \in {"register", "refresh"} /\ c.machineId # None)
    BY <2>1, <2>5 DEF RunnersAfter
  <2> QED BY <2>3, <2>4, <2>5
<1>2. IInv /\ [Next]_vars => [Lasts]_vars
  <2> SUFFICES ASSUME IInv, [Next]_vars PROVE Lasts
    OBVIOUS
  <2>1. CASE UNCHANGED <<runners, leases>>
    BY <2>1
  <2>2. CASE \E a \in Address : \E c \in {call[a], lost[a]} : c # None /\ Applies(a, c)
    BY <1>1, <2>2
  <2> QED BY <2>1, <2>2, OnlyCommitsWrite
<1>3. Spec => [][Lasts]_vars
  BY <1>2, Inductive, PTL DEF Spec
<1> QED BY <1>3 DEF RegistrationLasts
=============================================================================
