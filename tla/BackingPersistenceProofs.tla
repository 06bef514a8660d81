---------------------- MODULE BackingPersistenceProofs ----------------------
(***************************************************************************)
(* Theorems about BackingPersistence for any keys, clients, batch sizes    *)
(* and chunks: the expiration index is exact; unless a direct publication  *)
(* may be replayed, what is collected is in use nowhere and manifests have *)
(* all their chunks; and unless a clear is replayed, chunks stay within    *)
(* reach of the collector.                                                 *)
(***************************************************************************)
EXTENDS BackingPersistence, FiniteSetTheorems, SequenceTheorems, TLAPS

\* The keys and times of the rows of the expiration index, one by one.
ExactRows(db) ==
  \A r \in [at : Nat, key : Key, identity : Identity] :
    r \in db.expires <=> /\ db.entries[r.key] # None
                         /\ db.entries[r.key].expires = r.at
                         /\ db.entries[r.key].identity = r.identity

Active(w) == w.phase \in {"staging", "publishing"}

\* A call's counters, identities and epoch fit its phase; a call that publishes
\* has an epoch exactly if it staged.
InPhase(c) ==
  LET w == work[c]
  IN  /\ w.done <= w.upto /\ w.upto <= MutationCount(w)
      /\ Active(w) => w.first >= 1 /\ w.first + Len(w.keys) - 1 <= Len(born)
      /\ w.phase = "staging" => c \in Staging
      /\ w.phase = "publishing" => (w.epoch # None <=> c \in Staging)
      /\ w.phase = "clearing" => w.epoch \in Epoch

TInv ==
  /\ store \in Store /\ work \in [Client -> Work]
  /\ clock \in Nat /\ born \in Seq(Nat) /\ Len(born) <= MaxIdentity
  /\ \A c \in Client : InPhase(c)
  /\ ExactRows(store)

-----------------------------------------------------------------------------
(* Identities                                                              *)

OneRow(db) == \A r, q \in db.garbage : r.identity = q.identity => r = q

OneEntry(db) ==
  \A k, j \in Key :
    db.entries[k] # None /\ db.entries[j] # None
    /\ db.entries[k].identity = db.entries[j].identity => k = j

Unreferenced(db) ==
  \A r \in db.garbage, k \in Key :
    db.entries[k] # None => db.entries[k].identity # r.identity

Complete(db) ==
  \A k \in Key : db.entries[k] # None => db.values[db.entries[k].identity] = Chunk

Sound(db) == OneRow(db) /\ OneEntry(db) /\ Unreferenced(db) /\ Complete(db)

InEntry(db, i) == \E k \in Key : db.entries[k] # None /\ db.entries[k].identity = i
InGarbage(db, i) == \E r \in db.garbage : r.identity = i

\* Identities in use have been drawn.
Known(db, n) == \A i \in Identity : InEntry(db, i) \/ InGarbage(db, i) => i <= n

\* The identities of a call that stages are in no entry, and in the garbage
\* index under its own markers only; while a marker stands, so do the chunks
\* staged before.
StagingSound(db, w) ==
  \A n \in DOMAIN w.keys :
    LET i == IdentityOf(w, n)
    IN  /\ ~InEntry(db, i)
        /\ \A r \in db.garbage : r.identity = i => r = Marker(w, n)
        /\ InGarbage(db, i) =>
             \A p \in 1 .. w.done :
               EntryAt(p) = n /\ ChunkAt(p) # 0 => ChunkAt(p) \in db.values[i]

\* Those of a direct publication are unused; those of a staged one have their
\* value while the garbage index, for whatever reason, names them.
PublishingSound(db, w) ==
  \A n \in DOMAIN w.keys :
    LET i == IdentityOf(w, n)
    IN  IF w.epoch = None THEN ~InEntry(db, i) /\ ~InGarbage(db, i)
        ELSE InGarbage(db, i) => db.values[i] = Chunk

WorkSound(db, w) ==
  /\ w.phase = "staging" => StagingSound(db, w)
  /\ w.phase = "publishing" => PublishingSound(db, w)

Names(w) == {IdentityOf(w, n) : n \in DOMAIN w.keys}

NoDirectReplay == Retrying \subseteq Staging

GInv ==
  /\ NoDirectReplay
  /\ Sound(store) /\ Known(store, Len(born))
  /\ \A c \in Client : WorkSound(store, work[c])
  /\ \A c, d \in Client :
       Active(work[c]) /\ Active(work[d]) /\ c # d => Names(work[c]) \cap Names(work[d]) = {}

-----------------------------------------------------------------------------
(* Types                                                                   *)

LEMMA StoreFields ==
  ASSUME NEW db \in Store
  PROVE  /\ db.entries \in [Key -> Manifest \cup {None}]
         /\ db.values \in [Identity -> SUBSET Chunk]
         /\ db.expires \subseteq [at : Nat, key : Key, identity : Identity]
         /\ db.garbage \subseteq [at : Nat, identity : Identity]
         /\ db.epoch \in Epoch
BY DEF Store

LEMMA EntryFields ==
  ASSUME NEW db \in Store, NEW k \in Key, db.entries[k] # None
  PROVE  /\ db.entries[k] \in Manifest
         /\ db.entries[k].identity \in Identity
         /\ db.entries[k].expires \in Nat \cup {None}
BY StoreFields DEF Manifest

LEMMA Product == ASSUME NEW a \in Nat, NEW b \in Nat PROVE a * b \in Nat
OBVIOUS

LEMMA WorkFields ==
  ASSUME NEW w \in Work
  PROVE  /\ w.phase \in Phases /\ w.keys \in Seq(Key) /\ Len(w.keys) \in Nat
         /\ DOMAIN w.keys = 1 .. Len(w.keys)
         /\ \A n \in DOMAIN w.keys : w.keys[n] \in Key
         /\ w.ttl \in Nat \cup {None} /\ w.first \in Nat /\ w.expires \in Nat \cup {None}
         /\ w.garbageAt \in Nat /\ w.done \in Nat /\ w.upto \in Nat
         /\ w.epoch \in Epoch \cup {None} /\ w.replacedAt \in Nat
         /\ MutationCount(w) \in Nat
<1>1. w.keys \in Seq(Key)
  BY DEF Work
<1>2. Len(w.keys) \in Nat /\ DOMAIN w.keys = 1 .. Len(w.keys)
  BY <1>1
<1>3. MutationCount(w) \in Nat
  <2>1. ChunkCount + 1 \in Nat
    BY PersistenceAssumption
  <2> QED BY <1>2, <2>1, Product DEF MutationCount
<1> QED BY <1>1, <1>2, <1>3 DEF Work

\* A mutation belongs to one entry, as its marker or as one of its chunks.
LEMMA DivMod ==
  ASSUME NEW K \in Nat \ {0}, NEW x \in Nat
  PROVE  x \div K \in Nat /\ x % K \in 0 .. K - 1 /\ x = (K * (x \div K)) + (x % K)
OBVIOUS

LEMMA DivIn ==
  ASSUME NEW K \in Nat \ {0}, NEW L \in Nat, NEW p \in 1 .. L * K
  PROVE  /\ (p - 1) \div K + 1 \in 1 .. L
         /\ p = (K * ((p - 1) \div K)) + ((p - 1) % K) + 1
<1>1. L * K \in Nat /\ p - 1 \in Nat
  OBVIOUS
<1> DEFINE q == (p - 1) \div K
           j == (p - 1) % K
<1>2. q \in Nat /\ j \in 0 .. K - 1 /\ p - 1 = (K * q) + j
  BY <1>1, DivMod
<1> HIDE DEF q, j
<1>3. K * q <= p - 1 /\ p - 1 < L * K
  BY <1>1, <1>2
<1>4. K * q < K * L
  BY <1>1, <1>2, <1>3
<1>5. q < L
  BY <1>2, <1>4
<1>6. p = (K * q) + j + 1
  BY <1>2
<1> QED BY <1>2, <1>5, <1>6 DEF q, j

LEMMA DivOf ==
  ASSUME NEW K \in Nat \ {0}, NEW n \in Nat, NEW j \in 0 .. K - 1
  PROVE  ((n * K) + j) \div K = n /\ ((n * K) + j) % K = j
OBVIOUS

LEMMA Positions ==
  ASSUME NEW w \in Work, NEW p \in 1 .. MutationCount(w)
  PROVE  /\ EntryAt(p) \in DOMAIN w.keys /\ ChunkAt(p) \in {0} \cup Chunk
         /\ p = ((ChunkCount + 1) * (EntryAt(p) - 1)) + ChunkAt(p) + 1
<1> DEFINE K == ChunkCount + 1
           L == Len(w.keys)
<1>1. K \in Nat \ {0} /\ L \in Nat
  BY WorkFields, PersistenceAssumption
<1>2. p \in 1 .. L * K /\ p - 1 \in Nat
  BY WorkFields DEF MutationCount
<1>3. EntryAt(p) = (p - 1) \div K + 1 /\ ChunkAt(p) = (p - 1) % K
  BY DEF EntryAt, ChunkAt
<1>4. Chunk = 1 .. K - 1 /\ DOMAIN w.keys = 1 .. L
  BY WorkFields, PersistenceAssumption DEF Chunk
<1> HIDE DEF K, L
<1>5. (p - 1) \div K \in Nat /\ (p - 1) % K \in 0 .. K - 1
  BY <1>1, <1>2, DivMod
<1>6. EntryAt(p) \in DOMAIN w.keys /\ ChunkAt(p) \in {0} \cup Chunk
  BY <1>1, <1>2, <1>3, <1>4, <1>5, DivIn
<1>7. EntryAt(p) - 1 = (p - 1) \div K
  BY <1>3, <1>5
<1>8. p = (K * (EntryAt(p) - 1)) + ChunkAt(p) + 1
  BY <1>1, <1>2, <1>3, <1>7, DivIn
<1> QED BY <1>6, <1>8 DEF K

LEMMA PositionOf ==
  ASSUME NEW w \in Work, NEW n \in DOMAIN w.keys, NEW j \in {0} \cup Chunk
  PROVE  \E p \in 1 .. MutationCount(w) : EntryAt(p) = n /\ ChunkAt(p) = j
<1> DEFINE K == ChunkCount + 1
           L == Len(w.keys)
           x == ((n - 1) * K) + j
<1>1. K \in Nat \ {0} /\ L \in Nat /\ n \in 1 .. L /\ n - 1 \in Nat /\ j \in 0 .. K - 1
  BY WorkFields, PersistenceAssumption DEF Chunk
<1>2. MutationCount(w) = L * K
  BY DEF MutationCount
<1> HIDE DEF K, L
<1>3. x \in Nat
  BY <1>1
<1>4. x \div K = n - 1 /\ x % K = j
  BY <1>1, DivOf
<1>5. (n - 1) * K + K = n * K /\ n * K <= L * K
  BY <1>1
<1>6. x + 1 \in 1 .. L * K
  BY <1>1, <1>3, <1>5
<1> HIDE DEF x
<1>7. x + 1 - 1 = x /\ n - 1 + 1 = n
  BY <1>1, <1>3
<1>8. EntryAt(x + 1) = n /\ ChunkAt(x + 1) = j
  <2>1. EntryAt(x + 1) = ((x + 1) - 1) \div K + 1
    BY DEF EntryAt, K
  <2>2. ChunkAt(x + 1) = ((x + 1) - 1) % K
    BY DEF ChunkAt, K
  <2> QED BY <1>1, <1>3, <1>4, <2>1, <2>2
<1> QED BY <1>2, <1>6, <1>8

LEMMA IdentityFacts ==
  ASSUME NEW w \in Work, w.first >= 1, NEW b \in Nat, w.first + Len(w.keys) - 1 <= b,
         b <= MaxIdentity
  PROVE  /\ \A n \in DOMAIN w.keys : /\ IdentityOf(w, n) \in Identity
                                     /\ IdentityOf(w, n) \in w.first .. b
         /\ \A n, m \in DOMAIN w.keys : IdentityOf(w, n) = IdentityOf(w, m) => n = m
<1>1. w.first \in Nat /\ Len(w.keys) \in Nat /\ MaxIdentity \in Nat
      /\ DOMAIN w.keys = 1 .. Len(w.keys)
  BY WorkFields, PersistenceAssumption
<1>2. \A n \in DOMAIN w.keys : n \in Nat /\ n >= 1 /\ n <= Len(w.keys)
  BY <1>1
<1>3. \A n \in DOMAIN w.keys : IdentityOf(w, n) = w.first + n - 1
  BY DEF IdentityOf
<1> DEFINE at(n) == IdentityOf(w, n)
<1>4. \A n \in DOMAIN w.keys : at(n) \in Int /\ at(n) >= w.first /\ at(n) <= b
  BY <1>1, <1>2, <1>3
<1>5. \A n, m \in DOMAIN w.keys : at(n) = at(m) => n = m
  BY <1>1, <1>2, <1>3
<1> HIDE DEF at
<1>6. \A n \in DOMAIN w.keys : at(n) \in Identity /\ at(n) \in w.first .. b
  BY <1>1, <1>4 DEF Identity
<1> QED BY <1>5, <1>6 DEF at

LEMMA NewManifestType ==
  ASSUME NEW w \in Work, NEW k \in Written(w),
         \A n \in DOMAIN w.keys : IdentityOf(w, n) \in Identity
  PROVE  /\ PlaceOf(w, k) \in DOMAIN w.keys /\ w.keys[PlaceOf(w, k)] = k
         /\ k \in Key
         /\ NewManifest(w, k) \in Manifest
         /\ NewManifest(w, k).identity = IdentityOf(w, PlaceOf(w, k))
         /\ NewManifest(w, k).expires = w.expires
<1>1. \E n \in DOMAIN w.keys : w.keys[n] = k
  BY DEF Written
<1>2. PlaceOf(w, k) \in DOMAIN w.keys /\ w.keys[PlaceOf(w, k)] = k
  BY <1>1 DEF PlaceOf
<1> QED BY <1>2, WorkFields DEF NewManifest, Manifest

\* The row that marks an entry of a batch.
LEMMA MarkerType ==
  ASSUME NEW w \in Work, NEW n \in DOMAIN w.keys, IdentityOf(w, n) \in Identity
  PROVE  /\ Marker(w, n) \in [at : Nat, identity : Identity]
         /\ Marker(w, n).identity = IdentityOf(w, n)
BY WorkFields DEF Marker

LEMMA StagedType ==
  ASSUME NEW db \in Store, NEW w \in Work, w.upto <= MutationCount(w),
         \A n \in DOMAIN w.keys : IdentityOf(w, n) \in Identity
  PROVE  Staged(db, w) \in Store
<1> DEFINE batch == w.done + 1 .. w.upto
           G == {[at |-> w.garbageAt, identity |-> IdentityOf(w, EntryAt(p))] :
                   p \in {q \in batch : ChunkAt(q) = 0}}
           V == [i \in Identity |-> db.values[i] \cup
                   {ChunkAt(p) : p \in {q \in batch :
                                          /\ ChunkAt(q) # 0
                                          /\ IdentityOf(w, EntryAt(q)) = i}}]
<1>1. \A p \in batch : /\ EntryAt(p) \in DOMAIN w.keys /\ ChunkAt(p) \in {0} \cup Chunk
  <2> SUFFICES ASSUME NEW p \in batch PROVE p \in 1 .. MutationCount(w)
    BY Positions
  <2> QED BY WorkFields
<1>2. G \subseteq [at : Nat, identity : Identity]
  BY <1>1, WorkFields
<1>3. V \in [Identity -> SUBSET Chunk]
  BY <1>1, StoreFields
<1>4. Staged(db, w) = [db EXCEPT !.garbage = @ \cup G, !.values = V]
  BY DEF Staged
<1> HIDE DEF G, V
<1>5. db.garbage \cup G \subseteq [at : Nat, identity : Identity]
  BY <1>2, StoreFields
<1> QED BY <1>3, <1>4, <1>5 DEF Store

LEMMA PublishedType ==
  ASSUME NEW db \in Store, NEW w \in Work, \A n \in DOMAIN w.keys : IdentityOf(w, n) \in Identity
  PROVE  Published(db, w) \in Store
<1>1. Expirations(db, w) \subseteq [at : Nat, key : Key, identity : Identity]
  <2>1. \A k \in Written(w) : k \in Key /\ NewManifest(w, k).identity \in Identity
    BY NewManifestType
  <2>2. w.expires # None => w.expires \in Nat
    BY WorkFields
  <2> QED BY <2>1, <2>2, StoreFields DEF Expirations
<1>2. Replaced(db, w) \subseteq [at : Nat, identity : Identity]
  <2>1. \A k \in Written(w) : k \in Key
    BY NewManifestType
  <2> QED BY <2>1, EntryFields, WorkFields DEF Replaced
<1>3. WrittenValues(db, w) \in [Identity -> SUBSET Chunk]
  BY StoreFields DEF WrittenValues
<1>4. [k \in Key |-> IF k \in Written(w) THEN NewManifest(w, k) ELSE db.entries[k]]
        \in [Key -> Manifest \cup {None}]
  BY StoreFields, NewManifestType
<1>5. /\ db.garbage \ Markers(w) \subseteq [at : Nat, identity : Identity]
      /\ (db.garbage \cup Replaced(db, w)) \ Markers(w) \subseteq [at : Nat, identity : Identity]
  BY <1>2, StoreFields
<1> QED BY <1>1, <1>3, <1>4, <1>5 DEF Published, Store

LEMMA DroppedType ==
  ASSUME NEW db \in Store, NEW gone \in SUBSET Key
  PROVE  Dropped(db, gone) \in Store
BY DEF Dropped, Store, ClearValues

LEMMA ClearedType ==
  ASSUME NEW db, NEW epoch \in Epoch
  PROVE  Cleared(db, epoch) \in Store
BY DEF Cleared, Store

LEMMA CleanedType ==
  ASSUME NEW db \in Store, NEW expired, NEW garbage, NEW now
  PROVE  Cleaned(db, expired, garbage, now) \in Store
BY DEF Cleaned, Store, ClearValues

LEMMA BatchRows ==
  ASSUME NEW rows, NEW now, NEW batch \in FirstRows(rows, now)
  PROVE  batch \subseteq rows /\ \A r \in batch : r.at <= now
BY DEF FirstRows

-----------------------------------------------------------------------------
(* The expiration index                                                    *)

LEMMA ExactMeaning == TInv => ExpirationIndexExact
<1> SUFFICES ASSUME TInv PROVE ExpirationIndexExact
  OBVIOUS
<1> DEFINE dated == {j \in Key : store.entries[j] # None /\ store.entries[j].expires # None}
           row(k) == [at |-> store.entries[k].expires, key |-> k,
                      identity |-> store.entries[k].identity]
<1>1. store \in Store /\ ExactRows(store)
  BY DEF TInv
<1>2. \A k \in dated : row(k) \in [at : Nat, key : Key, identity : Identity]
  BY <1>1, EntryFields
<1>3. \A k \in dated : row(k) \in store.expires
  BY <1>1, <1>2 DEF ExactRows
<1>4. ASSUME NEW r \in store.expires PROVE r.key \in dated /\ r = row(r.key)
  <2>1. r \in [at : Nat, key : Key, identity : Identity]
    BY <1>1, StoreFields
  <2>2. /\ store.entries[r.key] # None /\ store.entries[r.key].expires = r.at
        /\ store.entries[r.key].identity = r.identity
    BY <1>1, <2>1 DEF ExactRows
  <2> QED BY <2>1, <2>2, NoneAssumption
<1> QED BY <1>3, <1>4 DEF ExpirationIndexExact

LEMMA PublishedExact ==
  ASSUME NEW db \in Store, ExactRows(db), NEW w \in Work,
         \A n \in DOMAIN w.keys : IdentityOf(w, n) \in Identity
  PROVE  ExactRows(Published(db, w))
<1> DEFINE new == Published(db, w)
<1>1. CASE w.epoch # None /\ AlreadyPublished(db, w)
  <2>1. new.entries = db.entries /\ new.expires = db.expires
    BY <1>1 DEF Published, Store
  <2> HIDE DEF new
  <2>2. ExactRows(new)
    BY <2>1 DEF ExactRows
  <2> QED BY <2>2 DEF new
<1>2. CASE ~(w.epoch # None /\ AlreadyPublished(db, w))
  <2>1. /\ new.expires = Expirations(db, w)
        /\ \A k \in Key : new.entries[k] = IF k \in Written(w) THEN NewManifest(w, k)
                                           ELSE db.entries[k]
    BY <1>2 DEF Published, Store
  <2>2. \A k \in Written(w) : /\ NewManifest(w, k) # None
                              /\ NewManifest(w, k).expires = w.expires
    BY NewManifestType, NoneAssumption
  <2> HIDE DEF new
  <2> SUFFICES ASSUME NEW r \in [at : Nat, key : Key, identity : Identity]
               PROVE  r \in new.expires <=> /\ new.entries[r.key] # None
                                            /\ new.entries[r.key].expires = r.at
                                            /\ new.entries[r.key].identity = r.identity
    BY DEF ExactRows, new
  <2>3. r \in db.expires <=> /\ db.entries[r.key] # None
                             /\ db.entries[r.key].expires = r.at
                             /\ db.entries[r.key].identity = r.identity
    BY DEF ExactRows
  <2>4. CASE r.key \notin Written(w)
    BY <2>1, <2>3, <2>4 DEF Expirations
  <2>5. CASE r.key \in Written(w)
    <3>1. r \in new.expires <=>
            w.expires # None /\ \E k \in Written(w) :
               r = [at |-> w.expires, key |-> k, identity |-> NewManifest(w, k).identity]
      BY <2>1, <2>3, <2>5 DEF Expirations
    <3>2. r.at # None
      BY NoneAssumption
    <3> QED BY <2>1, <2>2, <2>5, <3>1, <3>2
  <2> QED BY <2>4, <2>5
<1> QED BY <1>1, <1>2

LEMMA StagedExact ==
  ASSUME NEW db \in Store, ExactRows(db), NEW w
  PROVE  ExactRows(Staged(db, w))
BY DEF Staged, Store, ExactRows

LEMMA DroppedExact ==
  ASSUME NEW db \in Store, ExactRows(db), NEW gone
  PROVE  ExactRows(Dropped(db, gone))
<1>1. /\ Dropped(db, gone).expires =
           {r \in db.expires : ~\E k \in gone : r.key = k /\ r.at = db.entries[k].expires}
      /\ \A k \in Key : Dropped(db, gone).entries[k] = IF k \in gone THEN None ELSE db.entries[k]
  BY DEF Dropped, Store
<1> QED BY <1>1 DEF ExactRows

LEMMA ClearedExact ==
  ASSUME NEW db, NEW epoch
  PROVE  ExactRows(Cleared(db, epoch))
BY DEF Cleared, ExactRows

LEMMA CleanedExact ==
  ASSUME NEW db \in Store, ExactRows(db), NEW now \in Nat,
         NEW expired \in FirstRows(db.expires, now), NEW garbage
  PROVE  ExactRows(Cleaned(db, expired, garbage, now))
<1> DEFINE new == Cleaned(db, expired, garbage, now)
           gone == {r.key : r \in {q \in expired : /\ Expired(db, q.key, now)
                                                  /\ db.entries[q.key].identity = q.identity}}
<1>1. /\ new.expires = db.expires \ expired
      /\ \A k \in Key : new.entries[k] = IF k \in gone THEN None ELSE db.entries[k]
  BY DEF Cleaned, Store
<1>2. ASSUME NEW r \in expired
      PROVE  /\ r.key \in gone /\ r.at = db.entries[r.key].expires
             /\ r.identity = db.entries[r.key].identity
  <2>1. r \in db.expires /\ r.at <= now
    BY BatchRows
  <2>2. r \in [at : Nat, key : Key, identity : Identity]
    BY <2>1, StoreFields
  <2>3. /\ db.entries[r.key] # None /\ db.entries[r.key].expires = r.at
        /\ db.entries[r.key].identity = r.identity
    BY <2>1, <2>2 DEF ExactRows
  <2>4. Expired(db, r.key, now)
    BY <2>1, <2>2, <2>3, NoneAssumption DEF Expired
  <2> QED BY <2>3, <2>4
\* A key is gone by the one row that says when its entry expires.
<1>3. ASSUME NEW r \in [at : Nat, key : Key, identity : Identity], r \in db.expires,
             r.key \in gone
      PROVE  r \in expired
  <2>1. PICK q \in expired : q.key = r.key
    BY <1>3
  <2>2. q \in [at : Nat, key : Key, identity : Identity]
    BY BatchRows, StoreFields
  <2>3. r.at = db.entries[r.key].expires /\ r.identity = db.entries[r.key].identity
    BY <1>3 DEF ExactRows
  <2>4. q = r
    BY <1>2, <2>1, <2>2, <2>3
  <2> QED BY <2>4
<1> HIDE DEF new, gone
<1> SUFFICES ASSUME NEW r \in [at : Nat, key : Key, identity : Identity]
             PROVE  r \in new.expires <=> /\ new.entries[r.key] # None
                                          /\ new.entries[r.key].expires = r.at
                                          /\ new.entries[r.key].identity = r.identity
  BY DEF ExactRows, new
<1>4. r \in db.expires <=> /\ db.entries[r.key] # None
                           /\ db.entries[r.key].expires = r.at
                           /\ db.entries[r.key].identity = r.identity
  BY DEF ExactRows
<1> QED BY <1>1, <1>2, <1>3, <1>4

-----------------------------------------------------------------------------
(* Types are invariant                                                     *)

\* What the invariant says of one call.
LEMMA CallFacts ==
  ASSUME TInv, NEW c \in Client
  PROVE  /\ work[c] \in Work /\ InPhase(c) /\ Len(born) \in Nat
         /\ Active(work[c]) =>
              /\ work[c].first >= 1 /\ work[c].first + Len(work[c].keys) - 1 <= Len(born)
              /\ \A n \in DOMAIN work[c].keys :
                   /\ IdentityOf(work[c], n) \in Identity
                   /\ IdentityOf(work[c], n) \in 1 .. Len(born)
              /\ \A n, m \in DOMAIN work[c].keys :
                   IdentityOf(work[c], n) = IdentityOf(work[c], m) => n = m
<1>1. work[c] \in Work /\ InPhase(c) /\ Len(born) \in Nat /\ Len(born) <= MaxIdentity
  BY DEF TInv
<1>2. ASSUME Active(work[c])
      PROVE  /\ work[c].first >= 1 /\ work[c].first + Len(work[c].keys) - 1 <= Len(born)
             /\ \A n \in DOMAIN work[c].keys :
                  /\ IdentityOf(work[c], n) \in Identity
                  /\ IdentityOf(work[c], n) \in 1 .. Len(born)
             /\ \A n, m \in DOMAIN work[c].keys :
                  IdentityOf(work[c], n) = IdentityOf(work[c], m) => n = m
  <2>1. work[c].first >= 1 /\ work[c].first + Len(work[c].keys) - 1 <= Len(born)
    BY <1>1, <1>2 DEF InPhase
  <2>2. work[c].first \in Nat
    BY <1>1, WorkFields
  <2> QED BY <1>1, <2>1, <2>2, IdentityFacts
<1> QED BY <1>1, <1>2

\* A step that leaves the identities drawn and changes no call but one.
LEMMA TypedStep ==
  ASSUME TInv, store' \in Store, ExactRows(store'), born' = born, clock' \in Nat,
         NEW c \in Client, NEW w \in Work,
         work' = [work EXCEPT ![c] = w],
         w.done <= w.upto, w.upto <= MutationCount(w),
         Active(w) => w.first >= 1 /\ w.first + Len(w.keys) - 1 <= Len(born),
         w.phase = "staging" => c \in Staging,
         w.phase = "publishing" => (w.epoch # None <=> c \in Staging),
         w.phase = "clearing" => w.epoch \in Epoch
  PROVE  TInv'
<1>1. work' \in [Client -> Work]
  BY DEF TInv
<1>2. \A d \in Client : InPhase(d)'
  BY DEF TInv, InPhase
<1> QED BY <1>1, <1>2 DEF TInv

LEMMA IdleType ==
  /\ Idle \in Work /\ Idle.phase = "idle" /\ Idle.done = 0 /\ Idle.upto = 0
  /\ \A epoch \in Epoch :
       LET w == [Idle EXCEPT !.phase = "clearing", !.epoch = epoch]
       IN  /\ w \in Work /\ w.phase = "clearing" /\ w.epoch = epoch
           /\ w.done = 0 /\ w.upto = 0
<1>1. <<>> \in Seq(Key)
  OBVIOUS
<1> QED BY <1>1 DEF Idle, Work, Phases

\* A call that waits or starts again has nothing to keep.
LEMMA RestStep ==
  ASSUME TInv, store' \in Store, ExactRows(store'), born' = born, clock' = clock,
         NEW c \in Client, NEW w \in Work, work' = [work EXCEPT ![c] = w],
         w.phase \in {"idle", "preparing", "clearing"}, w.done = 0, w.upto = 0,
         w.phase = "clearing" => w.epoch \in Epoch
  PROVE  TInv'
<1>1. MutationCount(w) \in Nat
  BY WorkFields
<1>2. clock' \in Nat
  BY DEF TInv
<1>3. ~Active(w) /\ w.phase # "staging" /\ w.phase # "publishing"
  BY DEF Active
<1>4. w.done <= w.upto /\ w.upto <= MutationCount(w)
  BY <1>1
<1> QED BY <1>2, <1>3, <1>4, TypedStep

LEMMA AgainType ==
  ASSUME NEW w \in Work
  PROVE  /\ Again(w) \in Work /\ Again(w).phase = "preparing"
         /\ Again(w).done = 0 /\ Again(w).upto = 0
BY WorkFields DEF Again, Idle, Work, Phases

LEMMA StoreStepTyped ==
  ASSUME TInv, store' \in Store, ExactRows(store'), UNCHANGED <<work, born>>, clock' \in Nat
  PROVE  TInv'
<1>1. \A d \in Client : InPhase(d)'
  BY DEF TInv, InPhase
<1> QED BY <1>1 DEF TInv

\* Where a batch that was drawn can stand.
LEMMA StagedStep ==
  ASSUME TInv, NEW c \in Client, work[c].phase = "staging"
  PROVE  Staged(store, work[c]) \in Store /\ ExactRows(Staged(store, work[c]))
<1>1. store \in Store /\ ExactRows(store)
  BY DEF TInv
<1>2. Active(work[c]) /\ work[c].upto <= MutationCount(work[c])
  BY CallFacts DEF Active, InPhase
<1> QED BY <1>1, <1>2, CallFacts, StagedType, StagedExact

LEMMA PublishedStep ==
  ASSUME TInv, NEW c \in Client, work[c].phase = "publishing"
  PROVE  Published(store, work[c]) \in Store /\ ExactRows(Published(store, work[c]))
<1>1. store \in Store /\ ExactRows(store)
  BY DEF TInv
<1>2. Active(work[c])
  BY DEF Active
<1> QED BY <1>1, <1>2, CallFacts, PublishedType, PublishedExact

LEMMA BatchType ==
  ASSUME NEW keys \in Batches
  PROVE  keys \in Seq(Key)
<1>1. Cardinality(Key) \in Nat
  BY FS_CardinalityType, PersistenceAssumption
<1>2. PICK n \in 1 .. Cardinality(Key) : keys \in [1 .. n -> Key]
  BY DEF Batches
<1>3. n \in Nat
  BY <1>1
<1> QED BY <1>2, <1>3

\* The identities of a batch follow those drawn before.
LEMMA Drawn ==
  ASSUME NEW b \in Seq(Nat), NEW keys \in Seq(Key), NEW now \in Nat
  PROVE  LET new == b \o [n \in DOMAIN keys |-> now]
         IN  new \in Seq(Nat) /\ Len(new) = Len(b) + Len(keys)
<1> DEFINE more == [n \in DOMAIN keys |-> now]
<1>1. Len(keys) \in Nat /\ DOMAIN keys = 1 .. Len(keys)
  OBVIOUS
<1>2. more \in Seq(Nat) /\ Len(more) = Len(keys)
  <2>1. more \in [1 .. Len(keys) -> Nat]
    BY <1>1
  <2> HIDE DEF more
  <2> QED BY <1>1, <2>1
<1> HIDE DEF more
<1>3. b \o more \in Seq(Nat) /\ Len(b \o more) = Len(b) + Len(more)
  BY <1>2, ConcatProperties
<1> QED BY <1>2, <1>3 DEF more

LEMMA PrepareTyped ==
  ASSUME TInv, NEW c \in Client, Prepare(c)
  PROVE  /\ TInv' /\ store' = store
         /\ Len(born) \in Nat /\ Len(born') = Len(born) + Len(work[c].keys)
         /\ \A d \in Client : d # c => work'[d] = work[d]
         /\ work'[c].keys = work[c].keys /\ work'[c].first = Len(born) + 1
         /\ work'[c].done = 0 /\ work'[c].epoch = None
         /\ work'[c].garbageAt = clock + GarbageDelay
<1> DEFINE w == work[c]
<1>1. w \in Work /\ clock \in Nat /\ born \in Seq(Nat) /\ Len(born) \in Nat
      /\ Len(w.keys) \in Nat /\ MaxIdentity \in Nat
  BY WorkFields, PersistenceAssumption DEF TInv
<1>2. /\ born' = born \o [n \in DOMAIN w.keys |-> clock]
      /\ Len(born) + Len(w.keys) <= MaxIdentity /\ UNCHANGED <<store, clock>>
  BY DEF Prepare
<1>3. born' \in Seq(Nat) /\ Len(born') = Len(born) + Len(w.keys)
  BY <1>1, <1>2, Drawn, WorkFields
<1>4. PICK upto \in 1 .. MutationCount(w) :
        work' = [work EXCEPT ![c] = [@ EXCEPT
            !.phase = IF c \in Staging THEN "staging" ELSE "publishing",
            !.first = Len(born) + 1,
            !.expires = ExpirationFor(w.ttl, clock),
            !.garbageAt = clock + GarbageDelay,
            !.done = 0,
            !.upto = upto,
            !.epoch = None,
            !.replacedAt = clock]]
  BY DEF Prepare
<1> DEFINE new == [w EXCEPT
            !.phase = IF c \in Staging THEN "staging" ELSE "publishing",
            !.first = Len(born) + 1,
            !.expires = ExpirationFor(w.ttl, clock),
            !.garbageAt = clock + GarbageDelay,
            !.done = 0,
            !.upto = upto,
            !.epoch = None,
            !.replacedAt = clock]
<1>5. work' = [work EXCEPT ![c] = new]
  <2>1. work \in [Client -> Work]
    BY DEF TInv
  <2>2. DOMAIN work = Client /\ c \in DOMAIN work
    BY <2>1
  <2> QED BY <1>4, <2>2
<1>6. ExpirationFor(w.ttl, clock) \in Nat \cup {None} /\ clock + GarbageDelay \in Nat
      /\ upto \in Nat /\ upto <= MutationCount(w) /\ Len(born) + 1 \in Nat
  <2>1. ExpirationFor(w.ttl, clock) \in Nat \cup {None} /\ clock + GarbageDelay \in Nat
    BY <1>1, WorkFields, PersistenceAssumption DEF ExpirationFor
  <2>2. MutationCount(w) \in Nat
    BY <1>1, WorkFields
  <2>3. upto \in Nat /\ upto <= MutationCount(w)
    BY <2>2
  <2> QED BY <1>1, <2>1, <2>3
<1>7. new \in Work
  BY <1>1, <1>6 DEF Work, Phases
<1>8. /\ new.phase = IF c \in Staging THEN "staging" ELSE "publishing"
      /\ new.keys = w.keys /\ new.first = Len(born) + 1
      /\ new.done = 0 /\ new.upto = upto /\ new.epoch = None
      /\ new.garbageAt = clock + GarbageDelay
      /\ MutationCount(new) = MutationCount(w)
  BY <1>1 DEF Work, MutationCount
<1> HIDE DEF new
<1>9. work' \in [Client -> Work] /\ work'[c] = new /\ \A d \in Client : d # c => work'[d] = work[d]
  BY <1>5, <1>7 DEF TInv
<1>10. InPhase(c)'
  <2>1. new.done <= new.upto /\ new.upto <= MutationCount(new)
    BY <1>6, <1>8
  <2>2. new.first >= 1 /\ new.first + Len(new.keys) - 1 <= Len(born')
    <3> DEFINE a == Len(born)
               m == Len(w.keys)
    <3>1. a \in Nat /\ m \in Nat /\ new.first = a + 1 /\ Len(new.keys) = m /\ Len(born') = a + m
      BY <1>1, <1>3, <1>8
    <3> HIDE DEF a, m
    <3> QED BY <3>1
  <2> QED BY <1>8, <1>9, <2>1, <2>2 DEF InPhase
<1>11. ASSUME NEW d \in Client, d # c PROVE InPhase(d)'
  <2>1. InPhase(d) /\ work[d] \in Work
    BY DEF TInv
  <2>2. work[d].first \in Nat /\ Len(work[d].keys) \in Nat
    BY <2>1, WorkFields
  <2>3. work[d].first + Len(work[d].keys) - 1 <= Len(born) =>
          work[d].first + Len(work[d].keys) - 1 <= Len(born')
    <3> DEFINE a == Len(born)
               m == Len(work[d].keys)
               k == Len(w.keys)
    <3>1. a \in Nat /\ m \in Nat /\ k \in Nat /\ Len(born') = a + k
      BY <1>1, <1>3, <2>2
    <3> HIDE DEF a, m, k
    <3> SUFFICES work[d].first + m - 1 <= a => work[d].first + m - 1 <= Len(born')
      BY DEF a, m
    <3> QED BY <2>2, <3>1
  <2> QED BY <1>9, <1>11, <2>1, <2>3 DEF InPhase
<1>12. TInv'
  BY <1>1, <1>2, <1>3, <1>9, <1>10, <1>11 DEF TInv
<1> QED BY <1>1, <1>2, <1>3, <1>8, <1>9, <1>12

\* The call after a batch of mutations was committed.
LEMMA StagedCall ==
  ASSUME TInv, NEW c \in Client, Stage(c), ~EpochChanged(store, work[c])
  PROVE  \E w \in Work :
           /\ work' = [work EXCEPT ![c] = w]
           /\ w.keys = work[c].keys /\ w.first = work[c].first
           /\ w.garbageAt = work[c].garbageAt
           /\ w.epoch # None /\ w.epoch = store.epoch /\ w.done = work[c].upto
           /\ w.done <= w.upto /\ w.upto <= MutationCount(w)
           /\ \/ w.phase = "staging"
              \/ w.phase = "publishing" /\ work[c].upto = MutationCount(work[c])
<1> DEFINE o == work[c]
<1>1. o \in Work /\ work \in [Client -> Work] /\ store.epoch \in Epoch /\ clock \in Nat
  BY StoreFields DEF TInv
<1>2. store.epoch # None
  BY <1>1, NoneAssumption DEF Epoch
<1>3. o.upto \in Nat /\ o.upto <= MutationCount(o) /\ MutationCount(o) \in Nat
  BY <1>1, CallFacts, WorkFields DEF InPhase
<1>4. CASE o.upto = MutationCount(o)
  <2> DEFINE w == [o EXCEPT !.phase = "publishing", !.epoch = store.epoch,
                            !.done = o.upto, !.replacedAt = clock]
  <2>1. /\ w \in Work /\ w.keys = o.keys /\ w.first = o.first /\ w.garbageAt = o.garbageAt
        /\ w.epoch = store.epoch /\ w.done = o.upto /\ w.upto = o.upto
        /\ w.phase = "publishing" /\ MutationCount(w) = MutationCount(o)
    BY <1>1, <1>3 DEF Work, Phases, MutationCount
  <2>2. work' = [work EXCEPT ![c] = w]
    BY <1>1, <1>4 DEF Stage
  <2> HIDE DEF w
  <2> QED BY <1>2, <1>3, <1>4, <2>1, <2>2
<1>5. CASE o.upto # MutationCount(o)
  <2>1. PICK upto \in o.upto + 1 .. MutationCount(o) :
          work' = [work EXCEPT ![c].epoch = store.epoch, ![c].done = o.upto, ![c].upto = upto]
    BY <1>5 DEF Stage
  <2> DEFINE w == [o EXCEPT !.epoch = store.epoch, !.done = o.upto, !.upto = upto]
  <2>2. upto \in Nat /\ o.upto <= upto /\ upto <= MutationCount(o)
    BY <1>3
  <2>3. o.phase = "staging"
    BY DEF Stage
  <2>4. /\ w \in Work /\ w.keys = o.keys /\ w.first = o.first /\ w.garbageAt = o.garbageAt
        /\ w.epoch = store.epoch /\ w.done = o.upto /\ w.upto = upto
        /\ w.phase = "staging" /\ MutationCount(w) = MutationCount(o)
    BY <1>1, <1>3, <2>2, <2>3 DEF Work, MutationCount
  <2>5. work' = [work EXCEPT ![c] = w]
    BY <1>1, <2>1
  <2> HIDE DEF w
  <2> QED BY <1>2, <2>2, <2>4, <2>5
<1> QED BY <1>4, <1>5

\* After an unknown result the call is as it was, or over.
LEMMA UnknownStep ==
  ASSUME TInv, store' \in Store, ExactRows(store'), born' = born, clock' = clock,
         NEW c \in Client, Unknown(c)
  PROVE  TInv'
<1>1. CASE work' = work
  <2>1. clock' \in Nat
    BY DEF TInv
  <2> QED BY <1>1, <2>1, StoreStepTyped
<1>2. CASE work' = [work EXCEPT ![c] = Idle]
  BY <1>2, RestStep, IdleType
<1> QED BY <1>1, <1>2 DEF Unknown

LEMMA TInvInit == Init => TInv
<1> SUFFICES ASSUME Init PROVE TInv
  OBVIOUS
<1>1. store \in Store
  BY PersistenceAssumption DEF Init, Store, Epoch
<1>2. work \in [Client -> Work] /\ clock \in Nat
  BY IdleType DEF Init
<1>3. born \in Seq(Nat) /\ Len(born) = 0 /\ 0 <= MaxIdentity
  BY PersistenceAssumption DEF Init
<1>4. \A c \in Client : InPhase(c)
  <2> SUFFICES ASSUME NEW c \in Client PROVE InPhase(c)
    OBVIOUS
  <2>1. MutationCount(Idle) \in Nat
    BY IdleType, WorkFields
  <2>2. work[c] = Idle
    BY DEF Init
  <2>3. Idle.done <= Idle.upto /\ Idle.upto <= MutationCount(Idle)
    <3>1. Idle.done = 0 /\ Idle.upto = 0
      BY IdleType
    <3> QED BY <2>1, <3>1
  <2> QED BY <2>2, <2>3, IdleType DEF InPhase, Active
<1>5. ExactRows(store)
  BY DEF Init, ExactRows
<1> QED BY <1>1, <1>2, <1>3, <1>4, <1>5 DEF TInv

LEMMA TInvNext == TInv /\ [Next]_vars => TInv'
<1> SUFFICES ASSUME TInv, [Next]_vars PROVE TInv'
  OBVIOUS
<1>1. /\ store \in Store /\ ExactRows(store) /\ clock \in Nat
      /\ work \in [Client -> Work]
  BY DEF TInv
<1>2. ASSUME NEW c \in Client, ClientStep(c) PROVE TInv'
  <2>1. CASE WriteBegins(c)
    <3>1. PICK keys \in Batches, ttl \in Ttls :
            work' = [work EXCEPT ![c] = [Idle EXCEPT !.phase = "preparing",
                                                     !.keys = keys, !.ttl = ttl]]
      BY <2>1 DEF WriteBegins
    <3>2. keys \in Seq(Key) /\ ttl \in Nat \cup {None}
      BY BatchType, PersistenceAssumption
    <3> DEFINE w == [Idle EXCEPT !.phase = "preparing", !.keys = keys, !.ttl = ttl]
    <3>3. w \in Work /\ w.phase = "preparing" /\ w.done = 0 /\ w.upto = 0
      BY <3>2, PersistenceAssumption DEF Idle, Work, Phases
    <3> HIDE DEF w
    <3> QED BY <1>1, <2>1, <3>1, <3>3, RestStep DEF WriteBegins, w
  <2>2. CASE Prepare(c)
    BY <2>2, PrepareTyped
  <2>3. CASE Stage(c)
    <3>1. born' = born /\ clock' = clock /\ work[c].phase = "staging"
      BY <2>3 DEF Stage
    <3>2. CASE EpochChanged(store, work[c])
      <4>1. store' = store /\ work' = [work EXCEPT ![c] = Again(work[c])]
        BY <2>3, <3>2 DEF Stage
      <4> QED BY <1>1, <3>1, <4>1, RestStep, AgainType
    <3>3. CASE ~EpochChanged(store, work[c])
      <4>1. store' = Staged(store, work[c])
        BY <2>3, <3>3 DEF Stage
      <4>2. PICK w \in Work :
              /\ work' = [work EXCEPT ![c] = w]
              /\ w.keys = work[c].keys /\ w.first = work[c].first
              /\ w.epoch # None /\ w.done <= w.upto /\ w.upto <= MutationCount(w)
              /\ w.phase \in {"staging", "publishing"}
        BY <2>3, <3>3, StagedCall
      <4>3. c \in Staging /\ work[c].first >= 1
            /\ work[c].first + Len(work[c].keys) - 1 <= Len(born)
        BY <3>1, CallFacts DEF InPhase, Active
      <4>4. clock' \in Nat
        BY <1>1, <3>1
      <4> QED BY <3>1, <4>1, <4>2, <4>3, <4>4, StagedStep, TypedStep
    <3> QED BY <3>2, <3>3
  <2>4. CASE StageUnknown(c)
    BY <2>4, StagedStep, UnknownStep DEF StageUnknown
  <2>5. CASE Publish(c)
    <3>1. born' = born /\ clock' = clock /\ work[c].phase = "publishing"
      BY <2>5 DEF Publish
    <3>2. CASE Stale(store, work[c])
      <4>1. store' = store /\ work' = [work EXCEPT ![c] = Again(work[c])]
        BY <2>5, <3>2 DEF Publish
      <4> QED BY <1>1, <3>1, <4>1, RestStep, AgainType
    <3>3. CASE ~Stale(store, work[c])
      <4>1. store' = Published(store, work[c]) /\ work' = [work EXCEPT ![c] = Idle]
        BY <2>5, <3>3 DEF Publish
      <4> QED BY <3>1, <4>1, PublishedStep, RestStep, IdleType
    <3> QED BY <3>2, <3>3
  <2>6. CASE PublishUnknown(c)
    BY <2>6, PublishedStep, UnknownStep DEF PublishUnknown
  <2>7. CASE ClearBegins(c)
    <3>1. PICK epoch \in Epoch :
            work' = [work EXCEPT ![c] = [Idle EXCEPT !.phase = "clearing", !.epoch = epoch]]
      BY <2>7 DEF ClearBegins
    <3> DEFINE w == [Idle EXCEPT !.phase = "clearing", !.epoch = epoch]
    <3>2. w \in Work /\ w.phase = "clearing" /\ w.epoch = epoch /\ w.done = 0 /\ w.upto = 0
      BY IdleType
    <3> HIDE DEF w
    <3> QED BY <1>1, <2>7, <3>1, <3>2, RestStep DEF ClearBegins, w
  <2>8. CASE Clear(c)
    <3>1. work[c].epoch \in Epoch
      BY <2>8, CallFacts DEF Clear, InPhase
    <3> QED BY <2>8, <3>1, ClearedType, ClearedExact, RestStep, IdleType DEF Clear
  <2>9. CASE ClearUnknown(c)
    <3>1. work[c].epoch \in Epoch
      BY <2>9, CallFacts DEF ClearUnknown, InPhase
    <3> QED BY <2>9, <3>1, ClearedType, ClearedExact, UnknownStep DEF ClearUnknown
  <2>10. CASE GiveUp(c)
    BY <1>1, <2>10, RestStep, IdleType DEF GiveUp
  <2> QED BY <1>2, <2>1, <2>2, <2>3, <2>4, <2>5, <2>6, <2>7, <2>8, <2>9, <2>10 DEF ClientStep
<1>3. ASSUME NEW keys \in SUBSET Key, Read(keys) PROVE TInv'
  <2> DEFINE gone == {k \in keys : Expired(store, k, clock)}
  <2>1. gone \in SUBSET Key
    OBVIOUS
  <2>2. store' = Dropped(store, gone) /\ UNCHANGED <<work, clock, born>>
    BY <1>3 DEF Read
  <2> HIDE DEF gone
  <2> QED BY <1>1, <2>1, <2>2, DroppedType, DroppedExact, StoreStepTyped
<1>4. ASSUME NEW k \in Key, RemoveKey(k) PROVE TInv'
  <2>1. {k} \in SUBSET Key
    OBVIOUS
  <2>2. store' = store \/ store' = Dropped(store, {k})
    BY <1>4 DEF RemoveKey, Removed
  <2> QED BY <1>1, <1>4, <2>1, <2>2, DroppedType, DroppedExact, StoreStepTyped DEF RemoveKey
<1>5. CASE Cleanup
  BY <1>1, <1>5, CleanedType, CleanedExact, StoreStepTyped DEF Cleanup
<1>6. CASE Tick
  <2>1. clock' \in Nat
    BY <1>1, <1>6 DEF Tick
  <2> QED BY <1>1, <1>6, <2>1, StoreStepTyped DEF Tick
<1>7. CASE UNCHANGED vars
  BY <1>1, <1>7, StoreStepTyped DEF vars
<1> QED BY <1>2, <1>3, <1>4, <1>5, <1>6, <1>7 DEF Next

-----------------------------------------------------------------------------
(* What a transaction does to identities that are not its own              *)

\* It puts in the garbage index none but those it takes out of entries, in
\* entries none, and removes a value only with all garbage rows of it.
KeepsOthers(db, new, mine) ==
  /\ \A i \in Identity \ mine : InGarbage(new, i) => InGarbage(db, i) \/ InEntry(db, i)
  /\ \A r \in new.garbage : r.identity \notin mine =>
       r \in db.garbage \/ InEntry(db, r.identity)
  /\ \A i \in Identity \ mine : InEntry(new, i) => InEntry(db, i)
  /\ \A i \in Identity \ mine : InGarbage(new, i) => db.values[i] \subseteq new.values[i]

LEMMA OthersSound ==
  ASSUME NEW db \in Store, NEW new \in Store, NEW mine, KeepsOthers(db, new, mine), Sound(db),
         NEW w \in Work, \A n \in DOMAIN w.keys : IdentityOf(w, n) \in Identity,
         Names(w) \cap mine = {}, WorkSound(db, w)
  PROVE  WorkSound(new, w)
<1> SUFFICES ASSUME NEW n \in DOMAIN w.keys,
                    NEW i \in Identity, i = IdentityOf(w, n), i \notin mine
             PROVE  /\ w.phase = "staging" =>
                         /\ ~InEntry(new, i)
                         /\ \A r \in new.garbage : r.identity = i => r = Marker(w, n)
                         /\ InGarbage(new, i) =>
                              \A p \in 1 .. w.done :
                                EntryAt(p) = n /\ ChunkAt(p) # 0 => ChunkAt(p) \in new.values[i]
                    /\ w.phase = "publishing" =>
                         IF w.epoch = None THEN ~InEntry(new, i) /\ ~InGarbage(new, i)
                         ELSE InGarbage(new, i) => new.values[i] = Chunk
  BY DEF WorkSound, StagingSound, PublishingSound, Names
<1>1. /\ InGarbage(new, i) => InGarbage(db, i) \/ InEntry(db, i)
      /\ InEntry(new, i) => InEntry(db, i)
      /\ InGarbage(new, i) => db.values[i] \subseteq new.values[i]
      /\ \A r \in new.garbage : r.identity = i => r \in db.garbage \/ InEntry(db, i)
  BY DEF KeepsOthers
<1>2. CASE w.phase = "staging"
  <2>1. /\ ~InEntry(db, i)
        /\ \A r \in db.garbage : r.identity = i => r = Marker(w, n)
        /\ InGarbage(db, i) =>
             \A p \in 1 .. w.done :
               EntryAt(p) = n /\ ChunkAt(p) # 0 => ChunkAt(p) \in db.values[i]
    BY <1>2 DEF WorkSound, StagingSound
  <2>2. ~InEntry(new, i) /\ \A r \in new.garbage : r.identity = i => r = Marker(w, n)
    BY <1>1, <2>1
  <2>3. ASSUME InGarbage(new, i), NEW p \in 1 .. w.done, EntryAt(p) = n, ChunkAt(p) # 0
        PROVE  ChunkAt(p) \in new.values[i]
    <3>1. InGarbage(db, i) /\ db.values[i] \subseteq new.values[i]
      BY <1>1, <2>1, <2>3
    <3>2. ChunkAt(p) \in db.values[i]
      BY <2>1, <2>3, <3>1
    <3> QED BY <3>1, <3>2
  <2>4. InGarbage(new, i) =>
          \A p \in 1 .. w.done :
            EntryAt(p) = n /\ ChunkAt(p) # 0 => ChunkAt(p) \in new.values[i]
    BY <2>3
  <2>5. w.phase # "publishing"
    BY <1>2
  <2> HIDE DEF InGarbage, InEntry, EntryAt, ChunkAt, Marker
  <2> QED BY <2>2, <2>4, <2>5
<1>3. CASE w.phase = "publishing"
  <2>1. IF w.epoch = None THEN ~InEntry(db, i) /\ ~InGarbage(db, i)
        ELSE InGarbage(db, i) => db.values[i] = Chunk
    BY <1>3 DEF WorkSound, PublishingSound
  <2>2. InEntry(db, i) => db.values[i] = Chunk
    BY DEF InEntry, Sound, Complete
  <2>3. new.values[i] \subseteq Chunk
    BY StoreFields
  <2>4. ASSUME w.epoch # None, InGarbage(new, i) PROVE new.values[i] = Chunk
    BY <1>1, <2>1, <2>2, <2>3, <2>4
  <2>5. w.epoch = None => ~InEntry(new, i) /\ ~InGarbage(new, i)
    BY <1>1, <2>1
  <2>6. w.phase # "staging"
    BY <1>3
  <2> HIDE DEF InGarbage, InEntry, EntryAt, ChunkAt, Marker
  <2> QED BY <2>4, <2>5, <2>6
<1> QED BY <1>2, <1>3

LEMMA OthersKnown ==
  ASSUME NEW db \in Store, NEW new, NEW mine, KeepsOthers(db, new, mine),
         NEW b \in Nat, Known(db, b), \A i \in mine : i <= b
  PROVE  Known(new, b)
BY DEF KeepsOthers, Known

\* A transaction that only removes, and values only with what names them.
LEMMA ShrunkSound ==
  ASSUME NEW db \in Store, NEW new \in Store, Sound(db),
         \A k \in Key : new.entries[k] \in {None, db.entries[k]},
         new.garbage \subseteq db.garbage,
         \A i \in Identity : InEntry(new, i) \/ InGarbage(new, i) => new.values[i] = db.values[i]
  PROVE  Sound(new) /\ KeepsOthers(db, new, {})
<1>1. \A k \in Key : new.entries[k] # None =>
        /\ new.entries[k] = db.entries[k] /\ db.entries[k].identity \in Identity
        /\ InEntry(new, db.entries[k].identity)
  BY EntryFields DEF InEntry
<1>2. OneRow(new) /\ OneEntry(new) /\ Unreferenced(new)
  BY <1>1 DEF Sound, OneRow, OneEntry, Unreferenced
<1>3. Complete(new)
  BY <1>1 DEF Sound, Complete
<1>4. KeepsOthers(db, new, {})
  BY <1>1 DEF KeepsOthers, InEntry, InGarbage
<1> QED BY <1>2, <1>3, <1>4 DEF Sound

LEMMA DroppedSound ==
  ASSUME NEW db \in Store, Sound(db), NEW gone \in SUBSET Key,
         \A k \in gone : db.entries[k] # None
  PROVE  Sound(Dropped(db, gone)) /\ KeepsOthers(db, Dropped(db, gone), {})
<1> DEFINE new == Dropped(db, gone)
<1>1. /\ \A k \in Key : new.entries[k] = IF k \in gone THEN None ELSE db.entries[k]
      /\ new.garbage = db.garbage
      /\ \A i \in Identity :
           new.values[i] = IF \E k \in gone : db.entries[k].identity = i THEN {} ELSE db.values[i]
  BY DEF Dropped, Store, ClearValues
<1>2. new \in Store
  BY DroppedType
<1> HIDE DEF new
<1>3. ASSUME NEW i \in Identity, InEntry(new, i) \/ InGarbage(new, i), NEW k \in gone,
             db.entries[k].identity = i
      PROVE  FALSE
  <2>1. ~InGarbage(new, i)
    BY <1>1, <1>3 DEF InGarbage, Sound, Unreferenced
  <2>2. PICK j \in Key : new.entries[j] # None /\ new.entries[j].identity = i
    BY <1>3, <2>1 DEF InEntry
  <2>3. j = k
    BY <1>1, <1>3, <2>2 DEF Sound, OneEntry
  <2> QED BY <1>1, <2>2, <2>3
<1>4. \A i \in Identity : InEntry(new, i) \/ InGarbage(new, i) => new.values[i] = db.values[i]
  BY <1>1, <1>3
<1>5. Sound(new) /\ KeepsOthers(db, new, {})
  BY <1>1, <1>2, <1>4, ShrunkSound
<1> QED BY <1>5 DEF new

LEMMA CleanedSound ==
  ASSUME NEW db \in Store, Sound(db), NEW expired, expired \subseteq db.expires,
         NEW garbage, garbage \subseteq db.garbage, NEW now
  PROVE  LET new == Cleaned(db, expired, garbage, now)
         IN  Sound(new) /\ KeepsOthers(db, new, {})
<1> DEFINE new == Cleaned(db, expired, garbage, now)
           gone == {r.key : r \in {q \in expired : /\ Expired(db, q.key, now)
                                                  /\ db.entries[q.key].identity = q.identity}}
<1>1. /\ \A k \in Key : new.entries[k] = IF k \in gone THEN None ELSE db.entries[k]
      /\ new.garbage = db.garbage \ garbage
      /\ \A i \in Identity :
           new.values[i] = IF i \in {db.entries[k].identity : k \in gone}
                                      \cup {r.identity : r \in garbage}
                           THEN {} ELSE db.values[i]
  BY DEF Cleaned, Store, ClearValues
<1>2. new \in Store
  BY CleanedType
<1>3. \A k \in gone : k \in Key /\ db.entries[k] # None
  BY StoreFields DEF Expired
<1> HIDE DEF new, gone
<1>4. ASSUME NEW i \in Identity, InEntry(new, i) \/ InGarbage(new, i), NEW k \in gone,
             db.entries[k].identity = i
      PROVE  FALSE
  <2>1. ~InGarbage(new, i)
    BY <1>1, <1>3, <1>4 DEF InGarbage, Sound, Unreferenced
  <2>2. PICK j \in Key : new.entries[j] # None /\ new.entries[j].identity = i
    BY <1>4, <2>1 DEF InEntry
  <2>3. j = k
    BY <1>1, <1>3, <1>4, <2>2 DEF Sound, OneEntry
  <2> QED BY <1>1, <2>2, <2>3
\* The row collected was the only one of its value, and no entry has it.
<1>5. ASSUME NEW i \in Identity, InEntry(new, i) \/ InGarbage(new, i), NEW r \in garbage,
             r.identity = i
      PROVE  FALSE
  <2>1. r \in db.garbage
    BY <1>5
  <2>2. ~InGarbage(new, i)
    BY <1>1, <1>5, <2>1 DEF InGarbage, Sound, OneRow
  <2>3. ~InEntry(new, i)
    BY <1>1, <1>5, <2>1 DEF InEntry, Sound, Unreferenced
  <2> QED BY <1>5, <2>2, <2>3
<1>6. \A i \in Identity : InEntry(new, i) \/ InGarbage(new, i) => new.values[i] = db.values[i]
  BY <1>1, <1>4, <1>5
<1>7. Sound(new) /\ KeepsOthers(db, new, {})
  BY <1>1, <1>2, <1>6, ShrunkSound
<1> QED BY <1>7 DEF new

LEMMA ClearedSound ==
  ASSUME NEW db \in Store, Sound(db), NEW epoch \in Epoch
  PROVE  Sound(Cleared(db, epoch)) /\ KeepsOthers(db, Cleared(db, epoch), {})
BY DEF Cleared, Sound, OneRow, OneEntry, Unreferenced, Complete, KeepsOthers, InEntry, InGarbage

-----------------------------------------------------------------------------
(* What a transaction does to its own identities                           *)

\* A batch stages the marker of an entry before its chunks: where the garbage
\* index has an identity after it, the chunks up to its end are stored.
StagedUpTo(new, w) ==
  \A n \in DOMAIN w.keys :
    LET i == IdentityOf(w, n)
    IN  /\ ~InEntry(new, i)
        /\ \A r \in new.garbage : r.identity = i => r = Marker(w, n)
        /\ InGarbage(new, i) =>
             \A p \in 1 .. w.upto :
               EntryAt(p) = n /\ ChunkAt(p) # 0 => ChunkAt(p) \in new.values[i]

LEMMA StagedRows ==
  ASSUME NEW db \in Store, NEW w \in Work, w.upto <= MutationCount(w),
         \A n \in DOMAIN w.keys : IdentityOf(w, n) \in Identity
  PROVE  LET new == Staged(db, w)
             batch == w.done + 1 .. w.upto
         IN  /\ new.entries = db.entries
             /\ \A p \in batch : /\ p \in 1 .. MutationCount(w)
                                 /\ EntryAt(p) \in DOMAIN w.keys
             /\ \A r \in new.garbage : r \in db.garbage \/
                  \E p \in batch : ChunkAt(p) = 0 /\ r = Marker(w, EntryAt(p))
             /\ \A i \in Identity : db.values[i] \subseteq new.values[i]
             /\ \A p \in batch : ChunkAt(p) # 0 =>
                  ChunkAt(p) \in new.values[IdentityOf(w, EntryAt(p))]
<1> DEFINE batch == w.done + 1 .. w.upto
           new == Staged(db, w)
<1>1. \A p \in batch : p \in 1 .. MutationCount(w)
  BY WorkFields
<1>2. \A p \in batch : EntryAt(p) \in DOMAIN w.keys
  BY <1>1, Positions
<1>3. /\ new.entries = db.entries
      /\ new.garbage = db.garbage \cup
           {[at |-> w.garbageAt, identity |-> IdentityOf(w, EntryAt(p))] :
              p \in {q \in batch : ChunkAt(q) = 0}}
      /\ new.values = [i \in Identity |-> db.values[i] \cup
           {ChunkAt(p) : p \in {q \in batch : /\ ChunkAt(q) # 0
                                             /\ IdentityOf(w, EntryAt(q)) = i}}]
  BY DEF Staged, Store
<1> HIDE DEF new, batch
<1>4. \A r \in new.garbage : r \in db.garbage \/
        \E p \in batch : ChunkAt(p) = 0 /\ r = Marker(w, EntryAt(p))
  BY <1>3 DEF Marker
<1>5. \A i \in Identity : db.values[i] \subseteq new.values[i]
  BY <1>3
<1>6. \A p \in batch : ChunkAt(p) # 0 =>
        ChunkAt(p) \in new.values[IdentityOf(w, EntryAt(p))]
  BY <1>2, <1>3
<1> QED BY <1>1, <1>2, <1>3, <1>4, <1>5, <1>6 DEF new, batch

LEMMA StagedOwn ==
  ASSUME NEW db \in Store, NEW w \in Work, w.upto <= MutationCount(w),
         \A n \in DOMAIN w.keys : IdentityOf(w, n) \in Identity,
         \A n, m \in DOMAIN w.keys : IdentityOf(w, n) = IdentityOf(w, m) => n = m,
         StagingSound(db, w)
  PROVE  StagedUpTo(Staged(db, w), w)
<1> DEFINE new == Staged(db, w)
           batch == w.done + 1 .. w.upto
<1>1. /\ new.entries = db.entries
      /\ \A p \in batch : p \in 1 .. MutationCount(w) /\ EntryAt(p) \in DOMAIN w.keys
      /\ \A r \in new.garbage : r \in db.garbage \/
           \E p \in batch : ChunkAt(p) = 0 /\ r = Marker(w, EntryAt(p))
      /\ \A i \in Identity : db.values[i] \subseteq new.values[i]
      /\ \A p \in batch : ChunkAt(p) # 0 =>
           ChunkAt(p) \in new.values[IdentityOf(w, EntryAt(p))]
  BY StagedRows
<1> HIDE DEF new
<1> SUFFICES ASSUME NEW n \in DOMAIN w.keys, NEW i \in Identity, i = IdentityOf(w, n)
             PROVE  /\ ~InEntry(new, i)
                    /\ \A r \in new.garbage : r.identity = i => r = Marker(w, n)
                    /\ InGarbage(new, i) =>
                         \A p \in 1 .. w.upto :
                           EntryAt(p) = n /\ ChunkAt(p) # 0 => ChunkAt(p) \in new.values[i]
  BY DEF StagedUpTo, new
<1>2. /\ ~InEntry(db, i)
      /\ \A r \in db.garbage : r.identity = i => r = Marker(w, n)
      /\ InGarbage(db, i) =>
           \A p \in 1 .. w.done :
             EntryAt(p) = n /\ ChunkAt(p) # 0 => ChunkAt(p) \in db.values[i]
  BY DEF StagingSound
<1>3. ~InEntry(new, i)
  BY <1>1, <1>2 DEF InEntry
\* A row of this identity is old, or the marker of this entry.
<1>4. ASSUME NEW r \in new.garbage, r.identity = i, r \notin db.garbage
      PROVE  r = Marker(w, n) /\ \E p \in batch : ChunkAt(p) = 0 /\ EntryAt(p) = n
  <2>1. PICK p \in batch : ChunkAt(p) = 0 /\ r = Marker(w, EntryAt(p))
    BY <1>1, <1>4
  <2>2. EntryAt(p) \in DOMAIN w.keys
    BY <1>1
  <2>3. r.identity = IdentityOf(w, EntryAt(p))
    BY <2>1, <2>2, MarkerType
  <2>4. EntryAt(p) = n
    BY <1>4, <2>2, <2>3
  <2> QED BY <2>1, <2>4
<1>5. \A r \in new.garbage : r.identity = i => r = Marker(w, n)
  BY <1>2, <1>4
<1>6. ASSUME InGarbage(new, i), NEW p \in 1 .. w.upto, EntryAt(p) = n, ChunkAt(p) # 0
      PROVE  ChunkAt(p) \in new.values[i]
  <2>1. CASE p \in batch
    BY <1>1, <1>6, <2>1
  <2>2. CASE p \notin batch
    <3>1. p \in 1 .. w.done
      BY <2>2, WorkFields
    <3>2. InGarbage(db, i)
      <4> SUFFICES ASSUME ~InGarbage(db, i) PROVE FALSE
        OBVIOUS
      <4>1. PICK r \in new.garbage : r.identity = i
        BY <1>6 DEF InGarbage
      <4>2. PICK q \in batch : ChunkAt(q) = 0 /\ EntryAt(q) = n
        BY <1>4, <4>1 DEF InGarbage
      <4>3. q \in 1 .. MutationCount(w) /\ p \in 1 .. MutationCount(w)
        BY <1>1, WorkFields
      <4> DEFINE start == (ChunkCount + 1) * (n - 1)
      <4>4. q = start + 0 + 1 /\ p = start + ChunkAt(p) + 1 /\ ChunkAt(p) \in Chunk
        BY <1>6, <4>2, <4>3, Positions
      <4>5. start \in Int
        BY WorkFields, PersistenceAssumption
      <4> HIDE DEF start
      <4>6. q < p
        BY <4>4, <4>5, PersistenceAssumption DEF Chunk
      <4> QED BY <3>1, <4>6, WorkFields
    <3> QED BY <1>1, <1>2, <1>6, <3>1, <3>2
  <2> QED BY <2>1, <2>2
<1>7. InGarbage(new, i) =>
        \A p \in 1 .. w.upto :
          EntryAt(p) = n /\ ChunkAt(p) # 0 => ChunkAt(p) \in new.values[i]
  BY <1>6
<1> HIDE DEF InGarbage, InEntry, EntryAt, ChunkAt, Marker
<1> QED BY <1>3, <1>5, <1>7

\* Hence after the last batch the values are complete.
LEMMA StagedAll ==
  ASSUME NEW new \in Store, NEW w \in Work, StagedUpTo(new, w), w.upto = MutationCount(w),
         \A n \in DOMAIN w.keys : IdentityOf(w, n) \in Identity,
         NEW n \in DOMAIN w.keys, InGarbage(new, IdentityOf(w, n))
  PROVE  new.values[IdentityOf(w, n)] = Chunk
<1>1. \A p \in 1 .. MutationCount(w) :
        EntryAt(p) = n /\ ChunkAt(p) # 0 => ChunkAt(p) \in new.values[IdentityOf(w, n)]
  BY DEF StagedUpTo
<1>2. new.values[IdentityOf(w, n)] \subseteq Chunk
  BY StoreFields
<1>3. ASSUME NEW j \in Chunk PROVE j \in new.values[IdentityOf(w, n)]
  <2>1. j \in {0} \cup Chunk
    OBVIOUS
  <2>2. \E p \in 1 .. MutationCount(w) : EntryAt(p) = n /\ ChunkAt(p) = j
    BY <2>1, PositionOf, Zenon
  <2>3. PICK p \in 1 .. MutationCount(w) : EntryAt(p) = n /\ ChunkAt(p) = j
    BY <2>2
  <2>4. j # 0
    BY PersistenceAssumption DEF Chunk
  <2> QED BY <1>1, <2>3, <2>4
<1> QED BY <1>2, <1>3

LEMMA StagedSound ==
  ASSUME NEW db \in Store, Sound(db), NEW w \in Work, w.upto <= MutationCount(w),
         \A n \in DOMAIN w.keys : IdentityOf(w, n) \in Identity,
         \A n, m \in DOMAIN w.keys : IdentityOf(w, n) = IdentityOf(w, m) => n = m,
         StagingSound(db, w)
  PROVE  Sound(Staged(db, w)) /\ KeepsOthers(db, Staged(db, w), Names(w))
<1> DEFINE new == Staged(db, w)
           batch == w.done + 1 .. w.upto
<1>1. /\ new.entries = db.entries
      /\ \A p \in batch : EntryAt(p) \in DOMAIN w.keys
      /\ \A r \in new.garbage : r \in db.garbage \/
           \E p \in batch : ChunkAt(p) = 0 /\ r = Marker(w, EntryAt(p))
      /\ \A i \in Identity : db.values[i] \subseteq new.values[i]
  BY StagedRows
<1>2. StagedUpTo(new, w)
  BY StagedOwn
<1>3. new \in Store
  BY StagedType
<1> HIDE DEF new, batch
<1>4. ASSUME NEW r \in new.garbage, r.identity \notin Names(w) PROVE r \in db.garbage
  <2> SUFFICES ASSUME r \notin db.garbage PROVE FALSE
    OBVIOUS
  <2>1. PICK p \in batch : r = Marker(w, EntryAt(p))
    BY <1>1
  <2>2. r.identity = IdentityOf(w, EntryAt(p)) /\ EntryAt(p) \in DOMAIN w.keys
    BY <1>1, <2>1, MarkerType
  <2> QED BY <1>4, <2>2 DEF Names
<1>5. ASSUME NEW r \in new.garbage, r.identity \in Names(w)
      PROVE  /\ ~InEntry(new, r.identity)
             /\ \A q \in new.garbage : q.identity = r.identity => q = r
  <2>1. PICK n \in DOMAIN w.keys : r.identity = IdentityOf(w, n)
    BY <1>5 DEF Names
  <2> QED BY <1>2, <2>1 DEF StagedUpTo
<1>6. OneRow(new)
  BY <1>4, <1>5 DEF Sound, OneRow
<1>7. OneEntry(new)
  BY <1>1 DEF Sound, OneEntry
<1>8. Unreferenced(new)
  BY <1>1, <1>4, <1>5 DEF Sound, Unreferenced, InEntry
<1>9. Complete(new)
  <2> SUFFICES ASSUME NEW k \in Key, new.entries[k] # None
               PROVE  new.values[new.entries[k].identity] = Chunk
    BY DEF Complete
  <2>1. new.entries[k].identity \in Identity /\ db.values[new.entries[k].identity] = Chunk
    BY <1>1, EntryFields DEF Sound, Complete
  <2>2. new.values[new.entries[k].identity] \subseteq Chunk
    BY <1>3, <2>1, StoreFields
  <2> QED BY <1>1, <2>1, <2>2
<1>10. KeepsOthers(db, new, Names(w))
  <2>1. \A i \in Identity : InEntry(new, i) => InEntry(db, i)
    BY <1>1 DEF InEntry
  <2> QED BY <1>1, <1>4, <2>1 DEF KeepsOthers, InGarbage
<1> QED BY <1>6, <1>7, <1>8, <1>9, <1>10 DEF Sound, new

\* A publication that does not find its entries already there writes them under
\* identities that nothing uses, with all their chunks.
LEMMA PublishedRows ==
  ASSUME NEW db \in Store, NEW w \in Work, ~(w.epoch # None /\ AlreadyPublished(db, w)),
         \A n \in DOMAIN w.keys : IdentityOf(w, n) \in Identity
  PROVE  LET new == Published(db, w)
         IN  /\ \A k \in Key : new.entries[k] = IF k \in Written(w) THEN NewManifest(w, k)
                                                ELSE db.entries[k]
             /\ new.garbage = (db.garbage \cup Replaced(db, w)) \ Markers(w)
             /\ \A i \in Identity : i \notin Names(w) \/ w.epoch # None =>
                  new.values[i] = db.values[i]
             /\ w.epoch = None => \A i \in Identity : i \in Names(w) => new.values[i] = Chunk
             /\ \A k \in Written(w) : /\ NewManifest(w, k) # None
                                      /\ NewManifest(w, k).identity \in Names(w)
<1> DEFINE new == Published(db, w)
<1>1. /\ new.entries = [k \in Key |-> IF k \in Written(w) THEN NewManifest(w, k)
                                      ELSE db.entries[k]]
      /\ new.garbage = (db.garbage \cup Replaced(db, w)) \ Markers(w)
      /\ new.values = WrittenValues(db, w)
  BY DEF Published, Store
<1> HIDE DEF new
<1>2. \A i \in Identity : i \notin Names(w) \/ w.epoch # None => new.values[i] = db.values[i]
  BY <1>1 DEF WrittenValues, Names
<1>3. w.epoch = None => \A i \in Identity : i \in Names(w) => new.values[i] = Chunk
  BY <1>1 DEF WrittenValues, Names
<1>4. \A k \in Written(w) : /\ NewManifest(w, k) # None
                            /\ NewManifest(w, k).identity \in Names(w)
  BY NewManifestType, NoneAssumption DEF Names
<1> QED BY <1>1, <1>2, <1>3, <1>4 DEF new

LEMMA ReplacedRows ==
  ASSUME NEW db \in Store, NEW w \in Work, \A n \in DOMAIN w.keys : IdentityOf(w, n) \in Identity,
         NEW r \in Replaced(db, w)
  PROVE  \E k \in Key : /\ k \in Written(w) /\ db.entries[k] # None
                        /\ r = [at |-> w.replacedAt, identity |-> db.entries[k].identity]
                        /\ r.identity = db.entries[k].identity /\ r.identity \in Identity
<1>1. \A k \in Written(w) : k \in Key
  BY NewManifestType
<1>2. PICK k \in Written(w) : /\ db.entries[k] # None
                              /\ r = [at |-> w.replacedAt, identity |-> db.entries[k].identity]
  BY DEF Replaced
<1> QED BY <1>1, <1>2, EntryFields

\* Its identities are its own, before and after.
LEMMA PublishedOwn ==
  ASSUME NEW db \in Store, Sound(db), NEW w \in Work, PublishingSound(db, w), ~Stale(db, w),
         ~(w.epoch # None /\ AlreadyPublished(db, w)),
         \A n \in DOMAIN w.keys : IdentityOf(w, n) \in Identity
  PROVE  \A i \in Names(w) : /\ i \in Identity /\ ~InEntry(db, i)
                             /\ ~InGarbage(Published(db, w), i)
                             /\ Published(db, w).values[i] = Chunk
<1> DEFINE new == Published(db, w)
<1> SUFFICES ASSUME NEW n \in DOMAIN w.keys, NEW i \in Identity, i = IdentityOf(w, n)
             PROVE  ~InEntry(db, i) /\ ~InGarbage(new, i) /\ new.values[i] = Chunk
  BY DEF Names
<1>1. i \in Names(w)
  BY DEF Names
<1>2. /\ new.garbage = (db.garbage \cup Replaced(db, w)) \ Markers(w)
      /\ i \notin Names(w) \/ w.epoch # None => new.values[i] = db.values[i]
      /\ w.epoch = None => new.values[i] = Chunk
  BY <1>1, PublishedRows
<1> HIDE DEF new
<1>3. CASE w.epoch = None
  <2>1. ~InEntry(db, i) /\ ~InGarbage(db, i)
    BY <1>3 DEF PublishingSound
  <2>2. ~InGarbage(new, i)
    <3> SUFFICES ASSUME NEW r \in new.garbage, r.identity = i PROVE FALSE
      BY DEF InGarbage
    <3>1. r \in Replaced(db, w)
      BY <1>2, <2>1 DEF InGarbage
    <3>2. InEntry(db, i)
      BY <3>1, ReplacedRows DEF InEntry
    <3> QED BY <2>1, <3>2
  <2> QED BY <1>2, <1>3, <2>1, <2>2
<1>4. CASE w.epoch # None
  <2>1. Marker(w, n) \in db.garbage /\ Marker(w, n).identity = i
    BY <1>4, MarkerType DEF Stale
  <2>2. ~InEntry(db, i)
    BY <2>1 DEF InEntry, Sound, Unreferenced
  <2>3. db.values[i] = Chunk
    BY <1>4, <2>1 DEF PublishingSound, InGarbage
  <2>4. ~InGarbage(new, i)
    <3> SUFFICES ASSUME NEW r \in new.garbage, r.identity = i PROVE FALSE
      BY DEF InGarbage
    <3>1. CASE r \in db.garbage
      <4>1. r = Marker(w, n)
        BY <2>1, <3>1 DEF Sound, OneRow
      <4> QED BY <1>2, <1>4, <4>1 DEF Markers
    <3>2. CASE r \in Replaced(db, w)
      <4>1. InEntry(db, i)
        BY <3>2, ReplacedRows DEF InEntry
      <4> QED BY <2>2, <4>1
    <3> QED BY <1>2, <3>1, <3>2
  <2> QED BY <1>2, <1>4, <2>2, <2>3, <2>4
<1> QED BY <1>3, <1>4

LEMMA PublishedNew ==
  ASSUME NEW db \in Store, Sound(db), NEW w \in Work, PublishingSound(db, w), ~Stale(db, w),
         ~(w.epoch # None /\ AlreadyPublished(db, w)),
         \A n \in DOMAIN w.keys : IdentityOf(w, n) \in Identity,
         \A n, m \in DOMAIN w.keys : IdentityOf(w, n) = IdentityOf(w, m) => n = m
  PROVE  Sound(Published(db, w)) /\ KeepsOthers(db, Published(db, w), Names(w))
<1> DEFINE new == Published(db, w)
<1>1. /\ \A k \in Key : new.entries[k] = IF k \in Written(w) THEN NewManifest(w, k)
                                         ELSE db.entries[k]
      /\ new.garbage \subseteq db.garbage \cup Replaced(db, w)
      /\ \A i \in Identity : i \notin Names(w) => new.values[i] = db.values[i]
      /\ \A k \in Written(w) : /\ NewManifest(w, k) # None
                               /\ NewManifest(w, k).identity \in Names(w)
  BY PublishedRows
<1>2. \A i \in Names(w) : /\ i \in Identity /\ ~InEntry(db, i)
                          /\ ~InGarbage(new, i) /\ new.values[i] = Chunk
  BY PublishedOwn
<1> HIDE DEF new
<1>3. \A r \in new.garbage : r \in db.garbage \/
        \E k \in Key : /\ k \in Written(w) /\ db.entries[k] # None
                       /\ r = [at |-> w.replacedAt, identity |-> db.entries[k].identity]
                       /\ r.identity = db.entries[k].identity
  BY <1>1, ReplacedRows
<1>4. \A k \in Key : db.entries[k] # None =>
        db.entries[k].identity \in Identity /\ db.entries[k].identity \notin Names(w)
  BY <1>2, EntryFields DEF InEntry
<1>5. OneRow(new)
  <2> SUFFICES ASSUME NEW r \in new.garbage, NEW q \in new.garbage, r.identity = q.identity
               PROVE  r = q
    BY DEF OneRow
  <2>1. CASE r \in db.garbage /\ q \in db.garbage
    BY <2>1 DEF Sound, OneRow
  <2>2. CASE r \in db.garbage /\ q \notin db.garbage
    BY <1>3, <2>2 DEF Sound, Unreferenced
  <2>3. CASE r \notin db.garbage /\ q \in db.garbage
    BY <1>3, <2>3 DEF Sound, Unreferenced
  <2>4. CASE r \notin db.garbage /\ q \notin db.garbage
    <3>1. PICK k \in Key : /\ db.entries[k] # None /\ r.identity = db.entries[k].identity
                           /\ r = [at |-> w.replacedAt, identity |-> db.entries[k].identity]
      BY <1>3, <2>4
    <3>2. PICK j \in Key : /\ db.entries[j] # None /\ q.identity = db.entries[j].identity
                           /\ q = [at |-> w.replacedAt, identity |-> db.entries[j].identity]
      BY <1>3, <2>4
    <3>3. k = j
      BY <3>1, <3>2 DEF Sound, OneEntry
    <3> QED BY <3>1, <3>2, <3>3
  <2> QED BY <2>1, <2>2, <2>3, <2>4
<1>6. OneEntry(new)
  <2> SUFFICES ASSUME NEW k \in Key, NEW j \in Key, new.entries[k] # None,
                      new.entries[j] # None,
                      new.entries[k].identity = new.entries[j].identity
               PROVE  k = j
    BY DEF OneEntry
  <2>1. CASE k \in Written(w) /\ j \in Written(w)
    <3>1. new.entries[k].identity = IdentityOf(w, PlaceOf(w, k))
          /\ PlaceOf(w, k) \in DOMAIN w.keys /\ w.keys[PlaceOf(w, k)] = k
      BY <1>1, <2>1, NewManifestType
    <3>2. new.entries[j].identity = IdentityOf(w, PlaceOf(w, j))
          /\ PlaceOf(w, j) \in DOMAIN w.keys /\ w.keys[PlaceOf(w, j)] = j
      BY <1>1, <2>1, NewManifestType
    <3>3. PlaceOf(w, k) = PlaceOf(w, j)
      BY <3>1, <3>2
    <3> QED BY <3>1, <3>2, <3>3
  <2>2. CASE k \in Written(w) /\ j \notin Written(w)
    BY <1>1, <1>4, <2>2
  <2>3. CASE k \notin Written(w) /\ j \in Written(w)
    BY <1>1, <1>4, <2>3
  <2>4. CASE k \notin Written(w) /\ j \notin Written(w)
    BY <1>1, <2>4 DEF Sound, OneEntry
  <2> QED BY <2>1, <2>2, <2>3, <2>4
<1>7. Unreferenced(new)
  <2> SUFFICES ASSUME NEW r \in new.garbage, NEW k \in Key, new.entries[k] # None,
                      new.entries[k].identity = r.identity
               PROVE  FALSE
    BY DEF Unreferenced
  <2>1. CASE k \in Written(w)
    BY <1>1, <1>2, <2>1 DEF InGarbage
  <2>2. CASE k \notin Written(w)
    <3>1. new.entries[k] = db.entries[k]
      BY <1>1, <2>2
    <3>2. r \notin db.garbage
      BY <3>1 DEF Sound, Unreferenced
    <3>3. PICK j \in Key : /\ j \in Written(w) /\ db.entries[j] # None
                           /\ r.identity = db.entries[j].identity
      BY <1>3, <3>2
    <3>4. k = j
      BY <3>1, <3>3 DEF Sound, OneEntry
    <3> QED BY <2>2, <3>3, <3>4
  <2> QED BY <2>1, <2>2
<1>8. Complete(new)
  <2> SUFFICES ASSUME NEW k \in Key, new.entries[k] # None
               PROVE  new.values[new.entries[k].identity] = Chunk
    BY DEF Complete
  <2>1. CASE k \in Written(w)
    BY <1>1, <1>2, <2>1
  <2>2. CASE k \notin Written(w)
    BY <1>1, <1>4, <2>2 DEF Sound, Complete
  <2> QED BY <2>1, <2>2
<1>9. KeepsOthers(db, new, Names(w))
  <2>1. \A r \in new.garbage : r.identity \notin Names(w) =>
          r \in db.garbage \/ InEntry(db, r.identity)
    BY <1>3 DEF InEntry
  <2>2. \A i \in Identity \ Names(w) : InGarbage(new, i) => InGarbage(db, i) \/ InEntry(db, i)
    BY <2>1 DEF InGarbage
  <2>3. \A i \in Identity \ Names(w) : InEntry(new, i) => InEntry(db, i)
    BY <1>1 DEF InEntry
  <2> QED BY <1>1, <2>1, <2>2, <2>3 DEF KeepsOthers
<1> QED BY <1>5, <1>6, <1>7, <1>8, <1>9 DEF Sound, new

\* A publication that is executed again finds its entries, and takes its
\* markers away.
LEMMA PublishedAgain ==
  ASSUME NEW db \in Store, Sound(db), NEW w \in Work, PublishingSound(db, w),
         w.epoch # None, AlreadyPublished(db, w),
         \A n \in DOMAIN w.keys : IdentityOf(w, n) \in Identity
  PROVE  /\ Sound(Published(db, w)) /\ KeepsOthers(db, Published(db, w), Names(w))
         /\ PublishingSound(Published(db, w), w)
<1> DEFINE new == Published(db, w)
<1>1. /\ new.entries = db.entries /\ new.values = db.values
      /\ new.garbage = db.garbage \ Markers(w)
  BY DEF Published, Store
<1>2. new \in Store
  BY PublishedType
<1> HIDE DEF new
<1>3. Sound(new) /\ KeepsOthers(db, new, {})
  BY <1>1, <1>2, ShrunkSound
<1>4. KeepsOthers(db, new, Names(w))
  BY <1>3 DEF KeepsOthers
<1>5. PublishingSound(new, w)
  BY <1>1 DEF PublishingSound, InGarbage
<1> QED BY <1>3, <1>4, <1>5 DEF new

LEMMA PublishedSound ==
  ASSUME NEW db \in Store, Sound(db), NEW w \in Work, PublishingSound(db, w), ~Stale(db, w),
         \A n \in DOMAIN w.keys : IdentityOf(w, n) \in Identity,
         \A n, m \in DOMAIN w.keys : IdentityOf(w, n) = IdentityOf(w, m) => n = m
  PROVE  /\ Sound(Published(db, w)) /\ KeepsOthers(db, Published(db, w), Names(w))
         /\ w.epoch # None => PublishingSound(Published(db, w), w)
<1>1. CASE w.epoch # None /\ AlreadyPublished(db, w)
  BY <1>1, PublishedAgain
<1>2. CASE ~(w.epoch # None /\ AlreadyPublished(db, w))
  <2>1. \A i \in Names(w) : ~InGarbage(Published(db, w), i)
    BY <1>2, PublishedOwn
  <2>2. w.epoch # None => PublishingSound(Published(db, w), w)
    BY <2>1 DEF PublishingSound, Names
  <2> QED BY <1>2, <2>2, PublishedNew
<1> QED BY <1>1, <1>2

-----------------------------------------------------------------------------
(* The invariant holds of every step                                       *)

LEMMA GInvInit == NoDirectReplay /\ Init => GInv
<1> SUFFICES ASSUME NoDirectReplay, Init PROVE GInv
  OBVIOUS
<1>1. Sound(store)
  BY DEF Init, Sound, OneRow, OneEntry, Unreferenced, Complete
<1>2. Known(store, Len(born))
  BY DEF Init, Known, InEntry, InGarbage
<1>3. \A c \in Client : work[c].phase = "idle"
  BY IdleType DEF Init
<1> QED BY <1>1, <1>2, <1>3 DEF GInv, WorkSound, Active

\* A call keeps what it relies on when a transaction of another one, or of no
\* call, is applied.
LEMMA CallKept ==
  ASSUME TInv, GInv, store' \in Store, NEW mine, KeepsOthers(store, store', mine),
         NEW d \in Client, Active(work[d]) => Names(work[d]) \cap mine = {}
  PROVE  WorkSound(store', work[d])
<1>1. store \in Store /\ work[d] \in Work /\ Sound(store) /\ WorkSound(store, work[d])
  BY CallFacts DEF TInv, GInv
<1>2. CASE Active(work[d])
  <2>1. \A n \in DOMAIN work[d].keys : IdentityOf(work[d], n) \in Identity
    BY <1>2, CallFacts
  <2> QED BY <1>1, <1>2, <2>1, OthersSound
<1>3. CASE ~Active(work[d])
  BY <1>3 DEF Active, WorkSound
<1> QED BY <1>2, <1>3

\* A transaction of call c that touches identities of its own only.
LEMMA OwnStep ==
  ASSUME TInv, GInv, store' \in Store, born' = born, NEW c \in Client,
         \A d \in Client : d # c => work'[d] = work[d],
         Sound(store'), NEW mine, KeepsOthers(store, store', mine),
         mine = {} \/ (Active(work[c]) /\ mine = Names(work[c])),
         WorkSound(store', work'[c]),
         Active(work'[c]) => Active(work[c]) /\ Names(work'[c]) = Names(work[c])
  PROVE  GInv'
<1>1. \A d \in Client : d # c => (Active(work[d]) => Names(work[d]) \cap mine = {})
  BY DEF GInv
<1>2. \A d \in Client : WorkSound(store', work'[d])
  BY <1>1, CallKept
<1>3. Known(store', Len(born))
  <2>1. \A i \in mine : i <= Len(born)
    <3>1. CASE mine = {}
      BY <3>1
    <3>2. CASE Active(work[c]) /\ mine = Names(work[c])
      <4>1. \A n \in DOMAIN work[c].keys : IdentityOf(work[c], n) \in 1 .. Len(born)
        BY <3>2, CallFacts
      <4>2. Len(born) \in Nat
        BY CallFacts
      <4> QED BY <3>2, <4>1, <4>2 DEF Names
    <3> QED BY <3>1, <3>2
  <2>2. store \in Store /\ Known(store, Len(born)) /\ Len(born) \in Nat
    BY CallFacts DEF TInv, GInv
  <2> QED BY <2>1, <2>2, OthersKnown
<1>4. ASSUME NEW d \in Client, NEW e \in Client, Active(work'[d]), Active(work'[e]), d # e
      PROVE  Names(work'[d]) \cap Names(work'[e]) = {}
  <2>1. \A f \in Client : Active(work'[f]) =>
          Active(work[f]) /\ Names(work'[f]) = Names(work[f])
    OBVIOUS
  <2>2. Names(work[d]) \cap Names(work[e]) = {}
    BY <1>4, <2>1 DEF GInv
  <2> QED BY <1>4, <2>1, <2>2
<1> QED BY <1>2, <1>3, <1>4 DEF GInv

\* A transaction of no call, or one that only takes away.
LEMMA QuietStep ==
  ASSUME TInv, GInv, store' \in Store, UNCHANGED <<work, born>>,
         Sound(store'), KeepsOthers(store, store', {})
  PROVE  GInv'
<1>1. \A d \in Client : WorkSound(store', work[d])
  BY CallKept
<1>2. Known(store', Len(born))
  <2>1. store \in Store /\ Known(store, Len(born))
    BY DEF TInv, GInv
  <2>2. Len(born) \in Nat
    BY DEF TInv
  <2> QED BY <2>1, <2>2, OthersKnown
<1> QED BY <1>1, <1>2 DEF GInv

\* The call is as it was, or over.
LEMMA RetryStep ==
  ASSUME TInv, GInv, store' \in Store, born' = born, NEW c \in Client, Unknown(c),
         Sound(store'), NEW mine, KeepsOthers(store, store', mine),
         mine = {} \/ (Active(work[c]) /\ mine = Names(work[c])),
         c \in Retrying => WorkSound(store', work[c])
  PROVE  GInv'
<1>1. CASE c \in Retrying
  BY <1>1, OwnStep DEF Unknown
<1>2. CASE c \notin Retrying
  <2>1. work' = [work EXCEPT ![c] = Idle] /\ work \in [Client -> Work]
    BY <1>2 DEF Unknown, TInv
  <2>2. work'[c] = Idle /\ \A d \in Client : d # c => work'[d] = work[d]
    BY <2>1
  <2>3. WorkSound(store', Idle) /\ ~Active(Idle)
    BY IdleType DEF WorkSound, Active
  <2> QED BY <2>2, <2>3, OwnStep
<1> QED BY <1>1, <1>2

\* A call rests, and the store stands.
LEMMA RestingStep ==
  ASSUME TInv, GInv, UNCHANGED <<store, born>>, NEW c \in Client, NEW w,
         work' = [work EXCEPT ![c] = w], ~Active(w)
  PROVE  GInv'
<1>1. work'[c] = w /\ \A d \in Client : d # c => work'[d] = work[d]
  BY DEF TInv
<1>2. WorkSound(store', work'[c]) /\ ~Active(work'[c])
  BY <1>1 DEF WorkSound, Active
<1>3. PICK mine : mine = {}
  OBVIOUS
<1>4. Sound(store') /\ store' \in Store /\ born' = born
  BY DEF GInv, TInv
<1>5. KeepsOthers(store, store', mine)
  BY <1>3 DEF KeepsOthers
<1>6. mine = {} \/ (Active(work[c]) /\ mine = Names(work[c]))
  BY <1>3
<1> HIDE DEF Active, Names, KeepsOthers
<1> QED BY <1>1, <1>2, <1>4, <1>5, <1>6, OwnStep

\* The identities of a batch follow those drawn before.
LEMMA PrepareNames ==
  ASSUME TInv, NEW c \in Client, Prepare(c)
  PROVE  /\ \A n \in DOMAIN work'[c].keys :
              /\ IdentityOf(work'[c], n) \in Identity /\ IdentityOf(work'[c], n) > Len(born)
              /\ IdentityOf(work'[c], n) \in 1 .. Len(born')
         /\ \A d \in Client : d # c /\ Active(work[d]) =>
              Names(work'[c]) \cap Names(work[d]) = {}
<1> DEFINE w == work'[c]
           b == Len(born)
<1>1. /\ TInv' /\ b \in Nat /\ Len(born') = b + Len(w.keys) /\ w.first = b + 1
  BY PrepareTyped
<1>2. w \in Work /\ Len(w.keys) \in Nat /\ Len(born') <= MaxIdentity /\ Len(born') \in Nat
  BY <1>1, WorkFields DEF TInv
<1> HIDE DEF w, b
<1>3. w.first >= 1 /\ w.first + Len(w.keys) - 1 <= Len(born')
  <2> DEFINE m == Len(w.keys)
  <2>1. m \in Nat /\ Len(born') = b + m /\ w.first = b + 1
    BY <1>1, <1>2
  <2> HIDE DEF m
  <2>2. w.first >= 1 /\ w.first + m - 1 <= Len(born')
    BY <1>1, <2>1
  <2> QED BY <2>2 DEF m
<1>4. \A n \in DOMAIN w.keys : /\ IdentityOf(w, n) \in Identity
                               /\ IdentityOf(w, n) \in w.first .. Len(born')
  BY <1>2, <1>3, IdentityFacts
<1>5. \A n \in DOMAIN w.keys : /\ IdentityOf(w, n) \in Identity /\ IdentityOf(w, n) > b
                               /\ IdentityOf(w, n) \in 1 .. Len(born')
  BY <1>1, <1>2, <1>4
<1>6. ASSUME NEW d \in Client, d # c, Active(work[d])
      PROVE  Names(w) \cap Names(work[d]) = {}
  <2>1. \A n \in DOMAIN work[d].keys : IdentityOf(work[d], n) \in 1 .. b
    BY <1>6, CallFacts DEF b
  <2> QED BY <1>1, <1>5, <2>1 DEF Names, Identity
<1> QED BY <1>5, <1>6 DEF w, b

\* All identities in use were drawn before.
LEMMA PrepareSound ==
  ASSUME TInv, GInv, NEW c \in Client, Prepare(c)
  PROVE  GInv'
<1> DEFINE w == work'[c]
           b == Len(born)
<1>1. /\ TInv' /\ store' = store
      /\ b \in Nat /\ Len(born') = b + Len(w.keys)
      /\ \A d \in Client : d # c => work'[d] = work[d]
      /\ w.done = 0 /\ w.epoch = None
  BY PrepareTyped
<1>2. w \in Work /\ Len(w.keys) \in Nat /\ Len(born') \in Nat
  BY <1>1, WorkFields DEF TInv
<1>3. /\ \A n \in DOMAIN w.keys : IdentityOf(w, n) \in Identity /\ IdentityOf(w, n) > b
      /\ \A d \in Client : d # c /\ Active(work[d]) => Names(w) \cap Names(work[d]) = {}
  BY PrepareNames
<1> HIDE DEF w, b
<1>4. Known(store, b)
  BY DEF GInv, b
<1>5. \A n \in DOMAIN w.keys : /\ ~InEntry(store, IdentityOf(w, n))
                               /\ ~InGarbage(store, IdentityOf(w, n))
  BY <1>1, <1>3, <1>4 DEF Known, Identity
<1>6. WorkSound(store, w)
  BY <1>1, <1>5 DEF WorkSound, StagingSound, PublishingSound, InGarbage
<1>7. Known(store, Len(born'))
  BY <1>1, <1>2, <1>4 DEF Known, Identity
<1>8. ASSUME NEW d \in Client, NEW e \in Client, Active(work'[d]), Active(work'[e]), d # e
      PROVE  Names(work'[d]) \cap Names(work'[e]) = {}
  <2>1. CASE d = c
    BY <1>1, <1>3, <1>8, <2>1 DEF w
  <2>2. CASE e = c
    BY <1>1, <1>3, <1>8, <2>2 DEF w
  <2>3. CASE d # c /\ e # c
    BY <1>1, <1>8, <2>3 DEF GInv
  <2> QED BY <2>1, <2>2, <2>3
<1>9. \A d \in Client : WorkSound(store, work'[d])
  BY <1>1, <1>6 DEF GInv, w
<1> QED BY <1>1, <1>7, <1>8, <1>9 DEF GInv

\* What a call that stages or publishes knows of its identities.
LEMMA OwnFacts ==
  ASSUME TInv, GInv, NEW c \in Client, Active(work[c])
  PROVE  /\ store \in Store /\ Sound(store) /\ work[c] \in Work
         /\ work[c].done <= work[c].upto /\ work[c].upto <= MutationCount(work[c])
         /\ \A n \in DOMAIN work[c].keys : IdentityOf(work[c], n) \in Identity
         /\ \A n, m \in DOMAIN work[c].keys :
              IdentityOf(work[c], n) = IdentityOf(work[c], m) => n = m
         /\ work[c].phase = "staging" => StagingSound(store, work[c])
         /\ work[c].phase = "publishing" => PublishingSound(store, work[c])
BY CallFacts DEF TInv, GInv, InPhase, WorkSound

LEMMA StageSound ==
  ASSUME TInv, GInv, NEW c \in Client, Stage(c), ~EpochChanged(store, work[c])
  PROVE  GInv'
<1> DEFINE o == work[c]
<1>1. /\ store' = Staged(store, o) /\ born' = born /\ o.phase = "staging" /\ Active(o)
  BY DEF Stage, Active
<1>2. PICK w \in Work :
        /\ work' = [work EXCEPT ![c] = w]
        /\ w.keys = o.keys /\ w.first = o.first /\ w.garbageAt = o.garbageAt
        /\ w.epoch # None /\ w.done = o.upto
        /\ \/ w.phase = "staging"
           \/ w.phase = "publishing" /\ o.upto = MutationCount(o)
  BY StagedCall
<1>3. work'[c] = w /\ \A d \in Client : d # c => work'[d] = work[d]
  BY <1>2 DEF TInv
<1>4. /\ store \in Store /\ Sound(store) /\ o \in Work /\ o.upto <= MutationCount(o)
      /\ \A n \in DOMAIN o.keys : IdentityOf(o, n) \in Identity
      /\ \A n, m \in DOMAIN o.keys : IdentityOf(o, n) = IdentityOf(o, m) => n = m
      /\ StagingSound(store, o)
  BY <1>1, OwnFacts
<1> HIDE DEF o
<1>5. store' \in Store /\ Sound(store') /\ KeepsOthers(store, store', Names(o))
  BY <1>1, <1>4, StagedType, StagedSound
<1>6. StagedUpTo(store', o)
  BY <1>1, <1>4, StagedOwn
<1>7. /\ \A n \in DOMAIN w.keys : /\ IdentityOf(w, n) = IdentityOf(o, n)
                                  /\ Marker(w, n) = Marker(o, n)
      /\ Names(w) = Names(o)
  BY <1>2 DEF IdentityOf, Marker, Names
<1>8. StagingSound(store', w)
  BY <1>2, <1>6, <1>7 DEF StagingSound, StagedUpTo
<1>9. ASSUME w.phase = "publishing" PROVE PublishingSound(store', w)
  <2>1. o.upto = MutationCount(o)
    BY <1>2, <1>9
  <2>2. \A n \in DOMAIN o.keys :
          InGarbage(store', IdentityOf(o, n)) => store'.values[IdentityOf(o, n)] = Chunk
    BY <1>4, <1>5, <1>6, <2>1, StagedAll
  <2> QED BY <1>2, <1>7, <2>2 DEF PublishingSound
<1>10. WorkSound(store', work'[c])
  BY <1>3, <1>8, <1>9 DEF WorkSound
<1>11. Active(work[c]) /\ Names(o) = Names(work[c]) /\ Names(work'[c]) = Names(work[c])
  BY <1>1, <1>3, <1>7 DEF o
<1> QED BY <1>1, <1>3, <1>5, <1>10, <1>11, OwnStep

\* The same batch again: the call has not moved.
LEMMA StageAgainSound ==
  ASSUME TInv, GInv, NEW c \in Client, StageUnknown(c)
  PROVE  GInv'
<1> DEFINE o == work[c]
<1>1. /\ store' = Staged(store, o) /\ born' = born /\ o.phase = "staging" /\ Active(o)
      /\ Unknown(c)
  BY DEF StageUnknown, Active
<1>2. /\ store \in Store /\ Sound(store) /\ o \in Work
      /\ o.done <= o.upto /\ o.upto <= MutationCount(o)
      /\ \A n \in DOMAIN o.keys : IdentityOf(o, n) \in Identity
      /\ \A n, m \in DOMAIN o.keys : IdentityOf(o, n) = IdentityOf(o, m) => n = m
      /\ StagingSound(store, o)
  BY <1>1, OwnFacts
<1>3. store' \in Store /\ Sound(store') /\ KeepsOthers(store, store', Names(o))
  BY <1>1, <1>2, StagedType, StagedSound
<1>4. StagedUpTo(store', o)
  BY <1>1, <1>2, StagedOwn
<1>5. \A p \in 1 .. o.done : p \in 1 .. o.upto
  BY <1>2, WorkFields
<1>6. WorkSound(store', o)
  BY <1>1, <1>4, <1>5 DEF WorkSound, StagingSound, StagedUpTo
<1> QED BY <1>1, <1>3, <1>6, RetryStep

LEMMA PublishSound ==
  ASSUME TInv, GInv, NEW c \in Client, work[c].phase = "publishing",
         ~Stale(store, work[c]), store' = Published(store, work[c]), born' = born,
         \/ work' = [work EXCEPT ![c] = Idle]
         \/ Unknown(c)
  PROVE  GInv'
<1> DEFINE o == work[c]
<1>1. Active(o)
  BY DEF Active
<1>2. /\ store \in Store /\ Sound(store) /\ o \in Work
      /\ \A n \in DOMAIN o.keys : IdentityOf(o, n) \in Identity
      /\ \A n, m \in DOMAIN o.keys : IdentityOf(o, n) = IdentityOf(o, m) => n = m
      /\ PublishingSound(store, o)
  BY <1>1, OwnFacts
<1>3. store' \in Store /\ Sound(store') /\ KeepsOthers(store, store', Names(o))
  BY <1>2, PublishedType, PublishedSound
<1>4. CASE work' = [work EXCEPT ![c] = Idle]
  <2>1. work'[c] = Idle /\ \A d \in Client : d # c => work'[d] = work[d]
    BY <1>4 DEF TInv
  <2>2. WorkSound(store', Idle) /\ ~Active(Idle)
    BY IdleType DEF WorkSound, Active
  <2> QED BY <1>1, <1>3, <2>1, <2>2, OwnStep
<1>5. CASE Unknown(c)
  \* Only a staged publication is executed again.
  <2>1. c \in Retrying => WorkSound(store', o)
    <3> SUFFICES ASSUME c \in Retrying PROVE WorkSound(store', o)
      OBVIOUS
    <3>1. c \in Staging
      BY DEF GInv, NoDirectReplay
    <3>2. o.epoch # None
      BY <3>1, CallFacts DEF InPhase
    <3> QED BY <1>2, <3>2, PublishedSound DEF WorkSound
  <2> QED BY <1>1, <1>3, <1>5, <2>1, RetryStep
<1> QED BY <1>4, <1>5

LEMMA ClearSound ==
  ASSUME TInv, GInv, NEW c \in Client, work[c].phase = "clearing",
         store' = Cleared(store, work[c].epoch), born' = born, Unknown(c) \/
         work' = [work EXCEPT ![c] = Idle]
  PROVE  GInv'
<1>1. work[c].epoch \in Epoch /\ store \in Store /\ Sound(store)
  BY CallFacts DEF InPhase, TInv, GInv
<1>2. store' \in Store /\ Sound(store')
  BY <1>1, ClearedType, ClearedSound
<1>3. PICK mine : mine = {}
  OBVIOUS
<1>4. KeepsOthers(store, store', mine)
  BY <1>1, <1>3, ClearedSound
<1>5. CASE Unknown(c)
  <2>1. WorkSound(store', work[c])
    BY DEF WorkSound
  <2> QED BY <1>2, <1>3, <1>4, <1>5, <2>1, RetryStep
<1>6. CASE work' = [work EXCEPT ![c] = Idle]
  <2>1. work'[c] = Idle /\ \A d \in Client : d # c => work'[d] = work[d]
    BY <1>6 DEF TInv
  <2>2. WorkSound(store', Idle) /\ ~Active(Idle)
    BY IdleType DEF WorkSound, Active
  <2> QED BY <1>2, <1>3, <1>4, <2>1, <2>2, OwnStep
<1> QED BY <1>5, <1>6

LEMMA GInvNext == TInv /\ GInv /\ [Next]_vars => GInv'
<1> SUFFICES ASSUME TInv, GInv, [Next]_vars PROVE GInv'
  OBVIOUS
<1>1. store \in Store /\ ExactRows(store) /\ Sound(store) /\ work \in [Client -> Work]
  BY DEF TInv, GInv
<1>2. ASSUME NEW c \in Client, ClientStep(c) PROVE GInv'
  <2>1. CASE WriteBegins(c)
    <3>1. PICK keys \in Batches, ttl \in Ttls :
            work' = [work EXCEPT ![c] = [Idle EXCEPT !.phase = "preparing",
                                                     !.keys = keys, !.ttl = ttl]]
      BY <2>1 DEF WriteBegins
    <3> DEFINE w == [Idle EXCEPT !.phase = "preparing", !.keys = keys, !.ttl = ttl]
    <3>2. ~Active(w)
      BY DEF Idle, Active
    <3> HIDE DEF w
    <3> QED BY <2>1, <3>1, <3>2, RestingStep DEF WriteBegins, w
  <2>2. CASE Prepare(c)
    BY <2>2, PrepareSound
  <2>3. CASE Stage(c)
    <3>1. CASE EpochChanged(store, work[c])
      <4>1. UNCHANGED <<store, born>> /\ work' = [work EXCEPT ![c] = Again(work[c])]
        BY <2>3, <3>1 DEF Stage
      <4>2. ~Active(Again(work[c]))
        BY DEF Again, Idle, Active
      <4> QED BY <4>1, <4>2, RestingStep
    <3>2. CASE ~EpochChanged(store, work[c])
      BY <2>3, <3>2, StageSound
    <3> QED BY <3>1, <3>2
  <2>4. CASE StageUnknown(c)
    BY <2>4, StageAgainSound
  <2>5. CASE Publish(c)
    <3>1. CASE Stale(store, work[c])
      <4>1. UNCHANGED <<store, born>> /\ work' = [work EXCEPT ![c] = Again(work[c])]
        BY <2>5, <3>1 DEF Publish
      <4>2. ~Active(Again(work[c]))
        BY DEF Again, Idle, Active
      <4> QED BY <4>1, <4>2, RestingStep
    <3>2. CASE ~Stale(store, work[c])
      BY <2>5, <3>2, PublishSound DEF Publish
    <3> QED BY <3>1, <3>2
  <2>6. CASE PublishUnknown(c)
    BY <2>6, PublishSound DEF PublishUnknown
  <2>7. CASE ClearBegins(c)
    <3>1. PICK epoch \in Epoch :
            work' = [work EXCEPT ![c] = [Idle EXCEPT !.phase = "clearing", !.epoch = epoch]]
      BY <2>7 DEF ClearBegins
    <3> DEFINE w == [Idle EXCEPT !.phase = "clearing", !.epoch = epoch]
    <3>2. ~Active(w)
      BY DEF Idle, Active
    <3> HIDE DEF w
    <3> QED BY <2>7, <3>1, <3>2, RestingStep DEF ClearBegins, w
  <2>8. CASE Clear(c)
    BY <2>8, ClearSound DEF Clear
  <2>9. CASE ClearUnknown(c)
    BY <2>9, ClearSound DEF ClearUnknown
  <2>10. CASE GiveUp(c)
    <3>1. ~Active(Idle)
      BY IdleType DEF Active
    <3> QED BY <2>10, <3>1, RestingStep DEF GiveUp
  <2> QED BY <1>2, <2>1, <2>2, <2>3, <2>4, <2>5, <2>6, <2>7, <2>8, <2>9, <2>10 DEF ClientStep
<1>3. ASSUME NEW keys \in SUBSET Key, Read(keys) PROVE GInv'
  <2> DEFINE gone == {k \in keys : Expired(store, k, clock)}
  <2>1. gone \in SUBSET Key /\ \A k \in gone : store.entries[k] # None
    BY DEF Expired
  <2>2. store' = Dropped(store, gone) /\ UNCHANGED <<work, born>>
    BY <1>3 DEF Read
  <2> HIDE DEF gone
  <2> QED BY <1>1, <2>1, <2>2, DroppedType, DroppedSound, QuietStep
<1>4. ASSUME NEW k \in Key, RemoveKey(k) PROVE GInv'
  <2>1. UNCHANGED <<work, born>>
    BY <1>4 DEF RemoveKey
  <2>2. CASE store.entries[k] = None
    <3>1. store' = store
      BY <1>4, <2>2 DEF RemoveKey, Removed
    <3>2. KeepsOthers(store, store', {})
      BY <3>1 DEF KeepsOthers
    <3> QED BY <1>1, <2>1, <3>1, <3>2, QuietStep
  <2>3. CASE store.entries[k] # None
    <3>1. store' = Dropped(store, {k})
      BY <1>4, <2>3 DEF RemoveKey, Removed
    <3>2. {k} \in SUBSET Key /\ \A j \in {k} : store.entries[j] # None
      BY <2>3
    <3> QED BY <1>1, <2>1, <3>1, <3>2, DroppedType, DroppedSound, QuietStep
  <2> QED BY <2>2, <2>3
<1>5. CASE Cleanup
  <2>1. PICK expired \in FirstRows(store.expires, clock),
             garbage \in FirstRows(store.garbage, clock) :
          store' = Cleaned(store, expired, garbage, clock)
    BY <1>5 DEF Cleanup
  <2>2. expired \subseteq store.expires /\ garbage \subseteq store.garbage
    BY BatchRows
  <2>3. store' \in Store /\ Sound(store') /\ KeepsOthers(store, store', {})
    BY <1>1, <2>1, <2>2, CleanedType, CleanedSound
  <2> QED BY <1>5, <2>3, QuietStep DEF Cleanup
<1>6. CASE Tick \/ UNCHANGED vars
  <2>1. UNCHANGED <<store, work, born>>
    BY <1>6 DEF Tick, vars
  <2>2. KeepsOthers(store, store', {})
    BY <2>1 DEF KeepsOthers
  <2> QED BY <1>1, <2>1, <2>2, QuietStep
<1> QED BY <1>2, <1>3, <1>4, <1>5, <1>6 DEF Next

-----------------------------------------------------------------------------
(* Nothing leaks                                                           *)

\* No clear is executed twice.
NoClearReplay == [][\A c \in Retrying : ~ClearUnknown(c)]_vars

Reachable(db, i) == InEntry(db, i) \/ InGarbage(db, i)

\* The chunks of an identity are reachable, or older than their marker's delay.
Owned(db, b, now) ==
  \A i \in Identity : db.values[i] # {} =>
    i \in DOMAIN b /\ (Reachable(db, i) \/ b[i] + GarbageDelay <= now)

\* Calls write under identities of their own.
Apart ==
  \A c, d \in Client :
    Active(work[c]) /\ Active(work[d]) /\ c # d => Names(work[c]) \cap Names(work[d]) = {}

\* A batch has distinct keys; its identities were drawn when its times were read.
Batched(w, b) ==
  /\ \A n, m \in DOMAIN w.keys : w.keys[n] = w.keys[m] => n = m
  /\ Active(w) =>
       \A n \in DOMAIN w.keys :
         IdentityOf(w, n) \in DOMAIN b /\ b[IdentityOf(w, n)] + GarbageDelay = w.garbageAt

\* The epoch a clear will write is stored nowhere and held by no other call.
EpochFresh(c) ==
  work[c].phase = "clearing" =>
    /\ work[c].epoch # store.epoch
    /\ \A d \in Client : d # c => work[d].epoch # work[c].epoch

\* Before the epoch is observed nothing was committed.  While the epoch of a
\* call that stages stands, so do its markers, unless their delay is over.
MarkersStand(db, w, now) ==
  w.phase = "staging" =>
    /\ w.epoch = None => w.done = 0
    /\ w.epoch = db.epoch =>
         \A p \in 1 .. w.done :
           ChunkAt(p) = 0 => Marker(w, EntryAt(p)) \in db.garbage \/ w.garbageAt <= now

LInv ==
  /\ Owned(store, born, clock)
  /\ Apart
  /\ \A c \in Client : Batched(work[c], born)
  /\ \A c \in Client : EpochFresh(c)
  /\ \A c \in Client : MarkersStand(store, work[c], clock)

\* A transaction keeps no chunk without what leads to it.
KeepsReach(db, new, mine) ==
  \A i \in Identity : new.values[i] # {} =>
    \/ i \in mine /\ Reachable(new, i)
    \/ db.values[i] # {} /\ (Reachable(db, i) => Reachable(new, i))

LEMMA ReachOwned ==
  ASSUME NEW db, NEW new, NEW mine, NEW b, NEW now, Owned(db, b, now),
         KeepsReach(db, new, mine), \A i \in mine : i \in DOMAIN b
  PROVE  Owned(new, b, now)
BY DEF Owned, KeepsReach

LEMMA DroppedReach ==
  ASSUME NEW db \in Store, NEW gone \in SUBSET Key, \A k \in gone : db.entries[k] # None
  PROVE  KeepsReach(db, Dropped(db, gone), {})
<1> DEFINE new == Dropped(db, gone)
<1>1. /\ \A k \in Key : new.entries[k] = IF k \in gone THEN None ELSE db.entries[k]
      /\ new.garbage = db.garbage
      /\ \A i \in Identity :
           new.values[i] = IF \E k \in gone : db.entries[k].identity = i THEN {} ELSE db.values[i]
  BY DEF Dropped, Store, ClearValues
<1> HIDE DEF new
<1>2. ASSUME NEW i \in Identity, new.values[i] # {}
      PROVE  db.values[i] # {} /\ (Reachable(db, i) => Reachable(new, i))
  <2>1. new.values[i] = db.values[i] /\ \A k \in gone : db.entries[k].identity # i
    BY <1>1, <1>2
  <2>2. InEntry(db, i) => InEntry(new, i)
    BY <1>1, <2>1 DEF InEntry
  <2>3. InGarbage(db, i) => InGarbage(new, i)
    BY <1>1 DEF InGarbage
  <2> QED BY <1>2, <2>1, <2>2, <2>3 DEF Reachable
<1> QED BY <1>2 DEF KeepsReach, new

LEMMA CleanedReach ==
  ASSUME NEW db \in Store, NEW expired, NEW garbage, NEW now
  PROVE  KeepsReach(db, Cleaned(db, expired, garbage, now), {})
<1> DEFINE new == Cleaned(db, expired, garbage, now)
           gone == {r.key : r \in {q \in expired : /\ Expired(db, q.key, now)
                                                  /\ db.entries[q.key].identity = q.identity}}
<1>1. /\ \A k \in Key : new.entries[k] = IF k \in gone THEN None ELSE db.entries[k]
      /\ new.garbage = db.garbage \ garbage
      /\ \A i \in Identity :
           new.values[i] = IF i \in {db.entries[k].identity : k \in gone}
                                    \cup {r.identity : r \in garbage}
                           THEN {} ELSE db.values[i]
  BY DEF Cleaned, Store, ClearValues
<1> HIDE DEF new, gone
<1>2. ASSUME NEW i \in Identity, new.values[i] # {}
      PROVE  db.values[i] # {} /\ (Reachable(db, i) => Reachable(new, i))
  <2>1. /\ new.values[i] = db.values[i]
        /\ \A k \in gone : db.entries[k].identity # i
        /\ \A r \in garbage : r.identity # i
    BY <1>1, <1>2
  <2>2. InEntry(db, i) => InEntry(new, i)
    BY <1>1, <2>1 DEF InEntry
  <2>3. InGarbage(db, i) => InGarbage(new, i)
    BY <1>1, <2>1 DEF InGarbage
  <2> QED BY <1>2, <2>1, <2>2, <2>3 DEF Reachable
<1> QED BY <1>2 DEF KeepsReach, new

LEMMA ClearedReach ==
  ASSUME NEW db, NEW epoch
  PROVE  KeepsReach(db, Cleared(db, epoch), {})
BY DEF KeepsReach, Cleared

\* A publication names all it wrote, and puts what it replaced in the index.
LEMMA PublishedReach ==
  ASSUME NEW db \in Store, NEW w \in Work,
         \A n \in DOMAIN w.keys : IdentityOf(w, n) \in Identity,
         \A n, m \in DOMAIN w.keys : w.keys[n] = w.keys[m] => n = m
  PROVE  KeepsReach(db, Published(db, w), Names(w))
<1> DEFINE new == Published(db, w)
<1>1. \A r \in Markers(w) : r.identity \in Names(w)
  BY DEF Markers, Marker, Names
<1>2. CASE w.epoch # None /\ AlreadyPublished(db, w)
  <2>1. new.entries = db.entries /\ new.values = db.values /\ new.garbage = db.garbage \ Markers(w)
    BY <1>2 DEF Published, Store
  <2> HIDE DEF new
  <2>2. \A n \in DOMAIN w.keys : /\ w.keys[n] \in Key
                                 /\ db.entries[w.keys[n]] =
                                      [identity |-> IdentityOf(w, n), expires |-> w.expires]
    BY <1>2, WorkFields DEF AlreadyPublished, SameManifest
  <2>3. ASSUME NEW n \in DOMAIN w.keys PROVE InEntry(new, IdentityOf(w, n))
    <3>1. [identity |-> IdentityOf(w, n), expires |-> w.expires] \in Manifest
      BY WorkFields DEF Manifest
    <3>2. db.entries[w.keys[n]] # None
      BY <2>2, <3>1, NoneAssumption
    <3> DEFINE k == w.keys[n]
               i == IdentityOf(w, n)
    <3>3. k \in Key /\ db.entries[k] = [identity |-> i, expires |-> w.expires]
      BY <2>2
    <3> HIDE DEF k, i
    <3>4. db.entries[k].identity = i
      BY <3>3
    <3>5. new.entries[k] # None /\ new.entries[k].identity = i
      BY <2>1, <3>2, <3>4 DEF k
    <3>6. InEntry(new, i)
      BY <3>3, <3>5 DEF InEntry
    <3> QED BY <3>6 DEF i
  <2>4. ASSUME NEW i \in Identity, new.values[i] # {}, i \notin Names(w)
        PROVE  Reachable(db, i) => Reachable(new, i)
    <3>1. InEntry(db, i) => InEntry(new, i)
      BY <2>1 DEF InEntry
    <3>2. InGarbage(db, i) => InGarbage(new, i)
      BY <1>1, <2>1, <2>4 DEF InGarbage
    <3> QED BY <3>1, <3>2 DEF Reachable
  <2>5. \A i \in Names(w) : Reachable(new, i)
    BY <2>3 DEF Names, Reachable
  <2> QED BY <2>1, <2>4, <2>5 DEF KeepsReach, new
<1>3. CASE ~(w.epoch # None /\ AlreadyPublished(db, w))
  <2>1. /\ \A k \in Key : new.entries[k] = IF k \in Written(w) THEN NewManifest(w, k)
                                           ELSE db.entries[k]
        /\ new.garbage = (db.garbage \cup Replaced(db, w)) \ Markers(w)
        /\ \A i \in Identity : i \notin Names(w) => new.values[i] = db.values[i]
    BY <1>3 DEF Published, Store, WrittenValues, Names
  <2> HIDE DEF new
  <2>2. ASSUME NEW n \in DOMAIN w.keys PROVE InEntry(new, IdentityOf(w, n))
    <3>1. w.keys[n] \in Key /\ w.keys[n] \in Written(w)
      BY WorkFields DEF Written
    <3>2. PlaceOf(w, w.keys[n]) = n
      BY <3>1, NewManifestType
    <3>3. /\ NewManifest(w, w.keys[n]) \in Manifest
          /\ NewManifest(w, w.keys[n]).identity = IdentityOf(w, n)
      BY <3>1, <3>2, NewManifestType
    <3>4. NewManifest(w, w.keys[n]) # None
      BY <3>3, NoneAssumption
    <3>5. new.entries[w.keys[n]] = NewManifest(w, w.keys[n])
      BY <2>1, <3>1
    <3> QED BY <3>1, <3>3, <3>4, <3>5 DEF InEntry
  <2>3. \A k \in Written(w) : k \in Key /\ NewManifest(w, k).identity \in Names(w)
    BY NewManifestType DEF Names
  <2>4. ASSUME NEW i \in Identity, i \notin Names(w), new.values[i] # {}, Reachable(db, i)
        PROVE  Reachable(new, i)
    <3>1. CASE InGarbage(db, i)
      BY <1>1, <2>1, <2>4, <3>1 DEF InGarbage, Reachable
    <3>2. CASE InEntry(db, i)
      <4>1. PICK k \in Key : db.entries[k] # None /\ db.entries[k].identity = i
        BY <3>2 DEF InEntry
      <4>2. CASE k \notin Written(w)
        BY <2>1, <4>1, <4>2 DEF InEntry, Reachable
      <4>3. CASE k \in Written(w)
        <5>1. NewManifest(w, k).identity # i
          BY <2>3, <2>4, <4>3
        <5>2. [at |-> w.replacedAt, identity |-> i] \in Replaced(db, w)
          BY <4>1, <4>3, <5>1 DEF Replaced
        <5>3. [at |-> w.replacedAt, identity |-> i] \in new.garbage
          BY <1>1, <2>1, <2>4, <5>2
        <5> QED BY <5>3 DEF InGarbage, Reachable
      <4> QED BY <4>2, <4>3
    <3> QED BY <2>4, <3>1, <3>2 DEF Reachable
  <2>5. \A i \in Names(w) : Reachable(new, i)
    BY <2>2 DEF Names, Reachable
  <2> QED BY <2>1, <2>4, <2>5 DEF KeepsReach, new
<1> QED BY <1>2, <1>3

\* Where the marker of a chunk is.
LEMMA MarkerBefore ==
  ASSUME NEW w \in Work, NEW p \in 1 .. MutationCount(w)
  PROVE  /\ EntryAt(p) \in DOMAIN w.keys
         /\ \E q \in 1 .. MutationCount(w) : EntryAt(q) = EntryAt(p) /\ ChunkAt(q) = 0 /\ q <= p
<1> DEFINE n == EntryAt(p)
<1>1. n \in DOMAIN w.keys /\ ChunkAt(p) \in {0} \cup Chunk
      /\ p = ((ChunkCount + 1) * (n - 1)) + ChunkAt(p) + 1
  BY Positions
<1>2. PICK q \in 1 .. MutationCount(w) : EntryAt(q) = n /\ ChunkAt(q) = 0
  BY <1>1, PositionOf
<1>3. q = ((ChunkCount + 1) * (n - 1)) + ChunkAt(q) + 1
  BY <1>2, Positions
<1>4. ChunkAt(p) \in Nat /\ ChunkCount + 1 \in Nat /\ n - 1 \in Nat
  <2>1. ChunkAt(p) \in Nat /\ ChunkCount + 1 \in Nat
    BY <1>1, PersistenceAssumption DEF Chunk
  <2>2. DOMAIN w.keys = 1 .. Len(w.keys) /\ Len(w.keys) \in Nat
    BY WorkFields
  <2> HIDE DEF n
  <2>3. n \in 1 .. Len(w.keys)
    BY <1>1, <2>2
  <2>4. n - 1 \in Nat
    BY <2>2, <2>3
  <2> QED BY <2>1, <2>4 DEF n
<1> HIDE DEF n
<1>5. (ChunkCount + 1) * (n - 1) \in Nat
  BY <1>4, Product
<1>6. q <= p
  BY <1>1, <1>2, <1>3, <1>4, <1>5
<1> QED BY <1>1, <1>2, <1>6 DEF n

\* A batch of mutations that passed its check of the epoch finds the markers of
\* what was committed before, and adds its own.
LEMMA StagedMarkers ==
  ASSUME NEW db \in Store, NEW w \in Work, w.upto <= MutationCount(w), w.phase = "staging",
         ~EpochChanged(db, w), NEW now, MarkersStand(db, w, now)
  PROVE  \A p \in 1 .. w.upto :
           ChunkAt(p) = 0 => \/ Marker(w, EntryAt(p)) \in Staged(db, w).garbage
                             \/ w.garbageAt <= now
<1> DEFINE new == Staged(db, w)
<1> SUFFICES ASSUME NEW p \in 1 .. w.upto, ChunkAt(p) = 0
             PROVE  Marker(w, EntryAt(p)) \in new.garbage \/ w.garbageAt <= now
  OBVIOUS
<1>1. w.upto \in Nat /\ w.done \in Nat
  BY WorkFields
<1>2. new.garbage = db.garbage \cup {Marker(w, EntryAt(q)) :
                                       q \in {x \in w.done + 1 .. w.upto : ChunkAt(x) = 0}}
  BY DEF Staged, Store, Marker
<1> HIDE DEF new
<1>3. CASE p > w.done
  BY <1>1, <1>2, <1>3
<1>4. CASE p <= w.done
  <2>1. p \in 1 .. w.done /\ w.done # 0
    BY <1>1, <1>4
  <2>2. w.epoch # None /\ w.epoch = db.epoch
    BY <2>1 DEF MarkersStand, EpochChanged
  <2>3. Marker(w, EntryAt(p)) \in db.garbage \/ w.garbageAt <= now
    BY <2>1, <2>2 DEF MarkersStand
  <2> QED BY <1>2, <2>3
<1> QED BY <1>1, <1>3, <1>4

LEMMA StagedOwned ==
  ASSUME NEW db \in Store, NEW w \in Work, w.upto <= MutationCount(w), w.phase = "staging",
         ~EpochChanged(db, w), NEW now, MarkersStand(db, w, now),
         NEW b, Batched(w, b), Owned(db, b, now)
  PROVE  Owned(Staged(db, w), b, now)
<1> DEFINE new == Staged(db, w)
           batch == w.done + 1 .. w.upto
<1>1. /\ new.entries = db.entries /\ db.garbage \subseteq new.garbage
      /\ \A i \in Identity : new.values[i] = db.values[i] \cup
           {ChunkAt(p) : p \in {q \in batch : /\ ChunkAt(q) # 0
                                              /\ IdentityOf(w, EntryAt(q)) = i}}
  BY DEF Staged, Store
<1>2. \A p \in 1 .. w.upto :
        ChunkAt(p) = 0 => Marker(w, EntryAt(p)) \in new.garbage \/ w.garbageAt <= now
  BY StagedMarkers
<1> HIDE DEF new
<1> SUFFICES ASSUME NEW i \in Identity, new.values[i] # {}
             PROVE  i \in DOMAIN b /\ (Reachable(new, i) \/ b[i] + GarbageDelay <= now)
  BY DEF Owned, new
<1>3. CASE db.values[i] # {}
  <2>1. Reachable(db, i) => Reachable(new, i)
    BY <1>1 DEF Reachable, InEntry, InGarbage
  <2> QED BY <1>3, <2>1 DEF Owned
<1>4. CASE db.values[i] = {}
  <2>1. PICK p \in batch : IdentityOf(w, EntryAt(p)) = i
    BY <1>1, <1>4
  <2>2. p \in 1 .. MutationCount(w) /\ p \in Nat /\ w.upto \in Nat /\ p <= w.upto
    BY WorkFields
  <2>3. EntryAt(p) \in DOMAIN w.keys
    BY <2>2, MarkerBefore
  <2>4. PICK q \in 1 .. MutationCount(w) :
          EntryAt(q) = EntryAt(p) /\ ChunkAt(q) = 0 /\ q <= p
    BY <2>2, MarkerBefore
  <2>5. q \in 1 .. w.upto
    BY <2>2, <2>4, WorkFields
  <2>6. Marker(w, EntryAt(p)) \in new.garbage \/ w.garbageAt <= now
    BY <1>2, <2>4, <2>5
  <2>7. i \in DOMAIN b /\ b[i] + GarbageDelay = w.garbageAt
    BY <2>1, <2>3 DEF Batched, Active
  <2>8. Marker(w, EntryAt(p)).identity = i
    BY <2>1 DEF Marker
  <2> QED BY <2>6, <2>7, <2>8 DEF Reachable, InGarbage
<1> QED BY <1>3, <1>4

\* The call goes on with its batch.
Continues(o, w) ==
  Active(o) /\ w.keys = o.keys /\ w.first = o.first /\ w.garbageAt = o.garbageAt

\* What a step other than Prepare does to the calls.
Shape(c) ==
  /\ UNCHANGED <<born, clock>>
  /\ \A d \in Client : d # c => work'[d] = work[d]
  /\ Active(work'[c]) => Continues(work[c], work'[c])
  /\ work'[c].keys \in {<<>>, work[c].keys} \/ work'[c].keys \in Batches
  /\ ClearBegins(c) \/ work'[c].epoch \in {None, work[c].epoch, store.epoch}
  /\ work'[c].phase = "clearing" => ClearBegins(c) \/ (ClearUnknown(c) /\ c \in Retrying)
  /\ \/ store'.epoch = store.epoch
     \/ work[c].phase = "clearing" /\ store'.epoch = work[c].epoch

LEMMA UnknownShape ==
  ASSUME TInv, NEW c \in Client, Unknown(c), UNCHANGED <<born, clock>>,
         work[c].phase = "clearing" => ClearUnknown(c),
         \/ store'.epoch = store.epoch
         \/ work[c].phase = "clearing" /\ store'.epoch = work[c].epoch
  PROVE  Shape(c)
<1>1. CASE c \in Retrying
  <2>1. work' = work
    BY <1>1 DEF Unknown
  <2> QED BY <1>1, <2>1 DEF Shape, Continues, Active
<1>2. CASE c \notin Retrying
  <2>1. work' = [work EXCEPT ![c] = Idle] /\ work \in [Client -> Work]
    BY <1>2 DEF Unknown, TInv
  <2>2. work'[c] = Idle /\ \A d \in Client : d # c => work'[d] = work[d]
    BY <2>1
  <2> QED BY <2>2 DEF Shape, Idle, Active
<1> QED BY <1>1, <1>2

LEMMA RestShape ==
  ASSUME TInv, NEW c \in Client, UNCHANGED <<born, clock>>, NEW w,
         work' = [work EXCEPT ![c] = w], w.phase \in {"idle", "preparing"}, w.epoch = None,
         w.keys \in {<<>>, work[c].keys} \/ w.keys \in Batches,
         \/ store'.epoch = store.epoch
         \/ work[c].phase = "clearing" /\ store'.epoch = work[c].epoch
  PROVE  Shape(c)
<1>1. work'[c] = w /\ \A d \in Client : d # c => work'[d] = work[d]
  BY DEF TInv
<1> QED BY <1>1 DEF Shape, Active

LEMMA IdleRests == Idle.phase = "idle" /\ Idle.epoch = None /\ Idle.keys = <<>>
BY DEF Idle

LEMMA AgainRests ==
  ASSUME NEW w
  PROVE  Again(w).phase = "preparing" /\ Again(w).epoch = None /\ Again(w).keys = w.keys
BY DEF Again, Idle

LEMMA EpochsKept ==
  ASSUME NEW db \in Store, NEW w, NEW gone, NEW expired, NEW garbage, NEW now
  PROVE  /\ Staged(db, w).epoch = db.epoch /\ Published(db, w).epoch = db.epoch
         /\ Dropped(db, gone).epoch = db.epoch
         /\ Cleaned(db, expired, garbage, now).epoch = db.epoch
         /\ Cleared(db, now).epoch = now
<1>1. Staged(db, w).epoch = db.epoch
  BY DEF Staged, Store
<1>2. Published(db, w).epoch = db.epoch
  BY DEF Published, Store
<1>3. Dropped(db, gone).epoch = db.epoch
  BY DEF Dropped, Store
<1>4. Cleaned(db, expired, garbage, now).epoch = db.epoch
  BY DEF Cleaned, Store
<1>5. Cleared(db, now).epoch = now
  BY DEF Cleared
<1> QED BY <1>1, <1>2, <1>3, <1>4, <1>5

LEMMA StepShape ==
  ASSUME TInv, NEW c \in Client, ClientStep(c), ~Prepare(c)
  PROVE  Shape(c)
<1>0. store \in Store /\ work \in [Client -> Work]
  BY DEF TInv
<1>1. CASE WriteBegins(c)
  <2>1. PICK keys \in Batches, ttl \in Ttls :
          work' = [work EXCEPT ![c] = [Idle EXCEPT !.phase = "preparing",
                                                   !.keys = keys, !.ttl = ttl]]
    BY <1>1 DEF WriteBegins
  <2> DEFINE w == [Idle EXCEPT !.phase = "preparing", !.keys = keys, !.ttl = ttl]
  <2>2. w.phase = "preparing" /\ w.epoch = None /\ w.keys = keys
    BY DEF Idle
  <2>3. work' = [work EXCEPT ![c] = w] /\ UNCHANGED <<store, born, clock>>
    BY <1>1, <2>1 DEF WriteBegins
  <2> HIDE DEF w
  <2> QED BY <2>2, <2>3, RestShape
<1>2. CASE Stage(c)
  <2>1. CASE EpochChanged(store, work[c])
    <3>1. UNCHANGED <<store, born, clock>> /\ work' = [work EXCEPT ![c] = Again(work[c])]
      BY <1>2, <2>1 DEF Stage
    <3> QED BY <3>1, AgainRests, RestShape
  <2>2. CASE ~EpochChanged(store, work[c])
    <3>1. PICK w \in Work :
            /\ work' = [work EXCEPT ![c] = w]
            /\ w.keys = work[c].keys /\ w.first = work[c].first
            /\ w.garbageAt = work[c].garbageAt /\ w.epoch = store.epoch
            /\ w.phase \in {"staging", "publishing"}
      BY <1>2, <2>2, StagedCall
    <3>2. work'[c] = w /\ \A d \in Client : d # c => work'[d] = work[d]
      BY <1>0, <3>1
    <3>3. store' = Staged(store, work[c]) /\ UNCHANGED <<born, clock>> /\ Active(work[c])
      BY <1>2, <2>2 DEF Stage, Active
    <3>4. store'.epoch = store.epoch
      BY <1>0, <3>3, EpochsKept
    <3> QED BY <3>1, <3>2, <3>3, <3>4 DEF Shape, Continues
  <2> QED BY <2>1, <2>2
<1>3. CASE StageUnknown(c)
  <2>1. /\ store' = Staged(store, work[c]) /\ UNCHANGED <<born, clock>> /\ Unknown(c)
        /\ work[c].phase # "clearing"
    BY <1>3 DEF StageUnknown
  <2>2. store'.epoch = store.epoch
    BY <1>0, <2>1, EpochsKept
  <2> QED BY <2>1, <2>2, UnknownShape
<1>4. CASE Publish(c)
  <2>1. CASE Stale(store, work[c])
    <3>1. UNCHANGED <<store, born, clock>> /\ work' = [work EXCEPT ![c] = Again(work[c])]
      BY <1>4, <2>1 DEF Publish
    <3> QED BY <3>1, AgainRests, RestShape
  <2>2. CASE ~Stale(store, work[c])
    <3>1. /\ store' = Published(store, work[c]) /\ UNCHANGED <<born, clock>>
          /\ work' = [work EXCEPT ![c] = Idle]
      BY <1>4, <2>2 DEF Publish
    <3>2. store'.epoch = store.epoch
      BY <1>0, <3>1, EpochsKept
    <3> QED BY <3>1, <3>2, IdleRests, RestShape
  <2> QED BY <2>1, <2>2
<1>5. CASE PublishUnknown(c)
  <2>1. /\ store' = Published(store, work[c]) /\ UNCHANGED <<born, clock>> /\ Unknown(c)
        /\ work[c].phase # "clearing"
    BY <1>5 DEF PublishUnknown
  <2>2. store'.epoch = store.epoch
    BY <1>0, <2>1, EpochsKept
  <2> QED BY <2>1, <2>2, UnknownShape
<1>6. CASE ClearBegins(c)
  <2>1. PICK epoch \in Epoch :
          work' = [work EXCEPT ![c] = [Idle EXCEPT !.phase = "clearing", !.epoch = epoch]]
    BY <1>6 DEF ClearBegins
  <2> DEFINE w == [Idle EXCEPT !.phase = "clearing", !.epoch = epoch]
  <2>2. w.phase = "clearing" /\ w.keys = <<>>
    BY DEF Idle
  <2>3. work'[c] = w /\ \A d \in Client : d # c => work'[d] = work[d]
    BY <1>0, <2>1
  <2> HIDE DEF w
  <2>4. UNCHANGED <<store, born, clock>>
    BY <1>6 DEF ClearBegins
  <2> QED BY <1>6, <2>2, <2>3, <2>4 DEF Shape, Active
<1>7. CASE Clear(c)
  <2>1. /\ store' = Cleared(store, work[c].epoch) /\ UNCHANGED <<born, clock>>
        /\ work[c].phase = "clearing" /\ work' = [work EXCEPT ![c] = Idle]
    BY <1>7 DEF Clear
  <2>2. store'.epoch = work[c].epoch
    BY <1>0, <2>1, EpochsKept
  <2> QED BY <2>1, <2>2, IdleRests, RestShape
<1>8. CASE ClearUnknown(c)
  <2>1. /\ store' = Cleared(store, work[c].epoch) /\ UNCHANGED <<born, clock>>
        /\ work[c].phase = "clearing" /\ Unknown(c)
    BY <1>8 DEF ClearUnknown
  <2>2. store'.epoch = work[c].epoch
    BY <1>0, <2>1, EpochsKept
  <2> QED BY <1>8, <2>1, <2>2, UnknownShape
<1>9. CASE GiveUp(c)
  <2>1. UNCHANGED <<store, born, clock>> /\ work' = [work EXCEPT ![c] = Idle]
    BY <1>9 DEF GiveUp
  <2> QED BY <2>1, IdleRests, RestShape
<1> QED BY <1>1, <1>2, <1>3, <1>4, <1>5, <1>6, <1>7, <1>8, <1>9 DEF ClientStep

\* A step that no call makes.
Calm ==
  UNCHANGED <<work, born>> /\ store'.epoch = store.epoch /\ clock' \in {clock, clock + 1}

LEMMA NextShape ==
  ASSUME TInv, [Next]_vars
  PROVE  \/ \E c \in Client : Prepare(c)
         \/ \E c \in Client : ClientStep(c) /\ Shape(c)
         \/ Calm
<1>0. store \in Store
  BY DEF TInv
<1>1. ASSUME NEW c \in Client, ClientStep(c) PROVE Prepare(c) \/ Shape(c)
  BY <1>1, StepShape
<1>2. ASSUME NEW keys \in SUBSET Key, Read(keys) PROVE Calm
  BY <1>0, <1>2, EpochsKept DEF Read, Calm
<1>3. ASSUME NEW k \in Key, RemoveKey(k) PROVE Calm
  BY <1>0, <1>3, EpochsKept DEF RemoveKey, Removed, Calm
<1>4. CASE Cleanup
  BY <1>0, <1>4, EpochsKept DEF Cleanup, Calm
<1>5. CASE Tick \/ UNCHANGED vars
  BY <1>5 DEF Tick, vars, Calm
<1> QED BY <1>1, <1>2, <1>3, <1>4, <1>5 DEF Next

LEMMA ContinuedNames ==
  ASSUME NEW o, NEW w, Continues(o, w)
  PROVE  /\ Names(w) = Names(o) /\ Active(o)
         /\ \A n : IdentityOf(w, n) = IdentityOf(o, n) /\ Marker(w, n) = Marker(o, n)
BY DEF Continues, Names, IdentityOf, Marker

LEMMA ApartNext == TInv /\ Apart /\ [Next]_vars => Apart'
<1> SUFFICES ASSUME TInv, Apart, [Next]_vars, NEW d \in Client, NEW e \in Client, d # e,
                    Active(work'[d]), Active(work'[e])
             PROVE  Names(work'[d]) \cap Names(work'[e]) = {}
  BY DEF Apart
<1>1. ASSUME NEW c \in Client, Prepare(c) PROVE Names(work'[d]) \cap Names(work'[e]) = {}
  <2>1. /\ \A f \in Client : f # c => work'[f] = work[f]
        /\ \A f \in Client : f # c /\ Active(work[f]) => Names(work'[c]) \cap Names(work[f]) = {}
    BY <1>1, PrepareTyped, PrepareNames
  <2>2. CASE d = c
    BY <2>1, <2>2
  <2>3. CASE e = c
    BY <2>1, <2>3
  <2>4. CASE d # c /\ e # c
    BY <2>1, <2>4 DEF Apart
  <2> QED BY <2>2, <2>3, <2>4
<1>2. ASSUME NEW c \in Client, Shape(c) PROVE Names(work'[d]) \cap Names(work'[e]) = {}
  <2>1. \A f \in Client : Active(work'[f]) =>
          Active(work[f]) /\ Names(work'[f]) = Names(work[f])
    BY <1>2, ContinuedNames DEF Shape
  <2>2. /\ Active(work[d]) /\ Names(work'[d]) = Names(work[d])
        /\ Active(work[e]) /\ Names(work'[e]) = Names(work[e])
    BY <2>1
  <2> QED BY <2>2 DEF Apart
<1>3. CASE Calm
  BY <1>3 DEF Calm, Apart
<1> QED BY <1>1, <1>2, <1>3, NextShape

\* Those drawn before keep their times, the new ones have the present.
LEMMA PrepareBirths ==
  ASSUME TInv, NEW c \in Client, Prepare(c)
  PROVE  /\ DOMAIN born' = 1 .. Len(born')
         /\ \A i \in 1 .. Len(born) : i \in DOMAIN born' /\ born'[i] = born[i]
         /\ \A i \in 1 .. Len(born') : i > Len(born) => born'[i] = clock
<1> DEFINE more == [n \in DOMAIN work[c].keys |-> clock]
<1>1. born \in Seq(Nat) /\ clock \in Nat /\ Len(born) \in Nat
  BY DEF TInv
<1>2. born' = born \o more
  BY DEF Prepare
<1>3. work[c] \in Work /\ Len(work[c].keys) \in Nat
      /\ DOMAIN work[c].keys = 1 .. Len(work[c].keys)
  BY WorkFields DEF TInv
<1>4. more \in Seq(Nat) /\ Len(more) = Len(work[c].keys)
  <2>1. more \in [1 .. Len(work[c].keys) -> Nat]
    BY <1>1, <1>3
  <2> HIDE DEF more
  <2> QED BY <1>3, <2>1
<1>5. \A n \in 1 .. Len(more) : more[n] = clock
  BY <1>3, <1>4
<1> HIDE DEF more
<1> QED BY <1>1, <1>2, <1>4, <1>5

LEMMA BatchedNext ==
  TInv /\ (\A c \in Client : Batched(work[c], born)) /\ [Next]_vars =>
    \A c \in Client : Batched(work'[c], born')
<1> SUFFICES ASSUME TInv, \A c \in Client : Batched(work[c], born), [Next]_vars,
                    NEW d \in Client
             PROVE  Batched(work'[d], born')
  OBVIOUS
<1>0. born \in Seq(Nat) /\ clock \in Nat /\ Len(born) \in Nat /\ DOMAIN born = 1 .. Len(born)
  BY DEF TInv
<1>1. ASSUME NEW c \in Client, Prepare(c) PROVE Batched(work'[d], born')
  <2>1. /\ work'[c].keys = work[c].keys /\ work'[c].garbageAt = clock + GarbageDelay
        /\ \A f \in Client : f # c => work'[f] = work[f]
        /\ TInv' /\ Len(born') = Len(born) + Len(work[c].keys)
        /\ \A n \in DOMAIN work'[c].keys : /\ IdentityOf(work'[c], n) > Len(born)
                                           /\ IdentityOf(work'[c], n) \in 1 .. Len(born')
    BY <1>1, PrepareTyped, PrepareNames
  <2>2. /\ DOMAIN born' = 1 .. Len(born')
        /\ \A i \in 1 .. Len(born) : i \in DOMAIN born' /\ born'[i] = born[i]
        /\ \A i \in 1 .. Len(born') : i > Len(born) => born'[i] = clock
    BY <1>1, PrepareBirths
  <2>3. CASE d = c
    <3>1. \A n, m \in DOMAIN work'[c].keys : work'[c].keys[n] = work'[c].keys[m] => n = m
      BY <2>1 DEF Batched
    <3>2. ASSUME NEW n \in DOMAIN work'[c].keys
          PROVE  /\ IdentityOf(work'[c], n) \in DOMAIN born'
                 /\ born'[IdentityOf(work'[c], n)] + GarbageDelay = work'[c].garbageAt
      BY <2>1, <2>2
    <3> QED BY <2>3, <3>1, <3>2 DEF Batched
  <2>4. CASE d # c
    BY <1>0, <2>1, <2>2, <2>4 DEF Batched
  <2> QED BY <2>3, <2>4
<1>2. ASSUME NEW c \in Client, Shape(c) PROVE Batched(work'[d], born')
  <2>1. born' = born /\ \A f \in Client : f # c => work'[f] = work[f]
    BY <1>2 DEF Shape
  <2>2. CASE d = c
    <3>1. \A n, m \in DOMAIN work'[c].keys : work'[c].keys[n] = work'[c].keys[m] => n = m
      <4>1. CASE work'[c].keys = <<>>
        BY <4>1
      <4>2. CASE work'[c].keys = work[c].keys
        BY <4>2 DEF Batched
      <4>3. CASE work'[c].keys \in Batches
        BY <4>3 DEF Batches
      <4> QED BY <1>2, <4>1, <4>2, <4>3 DEF Shape
    <3>2. ASSUME Active(work'[c]), NEW n \in DOMAIN work'[c].keys
          PROVE  /\ IdentityOf(work'[c], n) \in DOMAIN born
                 /\ born[IdentityOf(work'[c], n)] + GarbageDelay = work'[c].garbageAt
      <4>1. Continues(work[c], work'[c])
        BY <1>2, <3>2 DEF Shape
      <4>2. IdentityOf(work'[c], n) = IdentityOf(work[c], n) /\ Active(work[c])
        BY <4>1, ContinuedNames
      <4> QED BY <3>2, <4>1, <4>2 DEF Batched, Continues
    <3> QED BY <2>1, <2>2, <3>1, <3>2 DEF Batched
  <2>3. CASE d # c
    BY <2>1, <2>3
  <2> QED BY <2>2, <2>3
<1>3. CASE Calm
  BY <1>3 DEF Calm
<1> QED BY <1>1, <1>2, <1>3, NextShape

LEMMA FreshNext ==
  /\ TInv /\ (\A c \in Client : EpochFresh(c))
  /\ [Next]_vars /\ (\A c \in Retrying : ~ClearUnknown(c))
  => \A c \in Client : EpochFresh(c)'
<1> SUFFICES ASSUME TInv, \A c \in Client : EpochFresh(c), [Next]_vars,
                    \A c \in Retrying : ~ClearUnknown(c),
                    NEW e \in Client, work'[e].phase = "clearing"
             PROVE  /\ work'[e].epoch # store'.epoch
                    /\ \A d \in Client : d # e => work'[d].epoch # work'[e].epoch
  BY DEF EpochFresh
<1>1. ASSUME work[e].phase = "clearing"
      PROVE  /\ work[e].epoch \in Epoch /\ work[e].epoch # None /\ work[e].epoch # store.epoch
             /\ \A d \in Client : d # e => work[d].epoch # work[e].epoch
  <2>1. work[e].epoch \in Epoch
    BY <1>1, CallFacts DEF InPhase
  <2> QED BY <1>1, <2>1, NoneAssumption DEF EpochFresh, Epoch
<1>2. ASSUME NEW c \in Client, Prepare(c)
      PROVE  /\ work'[e].epoch # store'.epoch
             /\ \A d \in Client : d # e => work'[d].epoch # work'[e].epoch
  <2>1. /\ store' = store /\ work'[c].epoch = None
        /\ \A d \in Client : d # c => work'[d] = work[d]
    BY <1>2, PrepareTyped
  <2>2. work'[c].phase # "clearing"
    BY <1>2 DEF Prepare, TInv
  <2>3. e # c /\ work'[e] = work[e]
    BY <2>1, <2>2
  <2> QED BY <1>1, <2>1, <2>3
<1>3. ASSUME NEW c \in Client, ClientStep(c), Shape(c)
      PROVE  /\ work'[e].epoch # store'.epoch
             /\ \A d \in Client : d # e => work'[d].epoch # work'[e].epoch
  <2>1. /\ \A d \in Client : d # c => work'[d] = work[d]
        /\ ClearBegins(c) \/ work'[c].epoch \in {None, work[c].epoch, store.epoch}
        /\ work'[c].phase = "clearing" => ClearBegins(c)
        /\ \/ store'.epoch = store.epoch
           \/ work[c].phase = "clearing" /\ store'.epoch = work[c].epoch
    BY <1>3 DEF Shape
  <2>2. ASSUME ClearBegins(c)
        PROVE  /\ store' = store /\ work'[c].epoch # store.epoch
               /\ \A d \in Client : work'[c].epoch # work[d].epoch
    <3>1. PICK epoch \in Epoch \ ({store.epoch} \cup {work[d].epoch : d \in Client}) :
            work' = [work EXCEPT ![c] = [Idle EXCEPT !.phase = "clearing", !.epoch = epoch]]
      BY <2>2 DEF ClearBegins
    <3>2. work'[c].epoch = epoch
      BY <3>1 DEF TInv, Idle
    <3> QED BY <2>2, <3>1, <3>2 DEF ClearBegins
  <2>3. CASE e = c
    BY <2>1, <2>2, <2>3
  <2>4. CASE e # c
    <3>1. work'[e] = work[e] /\ work[e].phase = "clearing"
      BY <2>1, <2>4
    <3>2. work[e].epoch # store'.epoch
      BY <1>1, <2>1, <2>4, <3>1
    <3>3. work'[c].epoch # work[e].epoch
      BY <1>1, <2>1, <2>2, <2>4, <3>1
    <3> QED BY <1>1, <2>1, <3>1, <3>2, <3>3
  <2> QED BY <2>3, <2>4
<1>4. CASE Calm
  BY <1>1, <1>4 DEF Calm
<1> QED BY <1>2, <1>3, <1>4, NextShape

\* Markers stand on while a step keeps them, or is the clear that ends them.
LEMMA MarkersStay ==
  ASSUME NEW db, NEW new, NEW w \in Work, w.done <= w.upto, w.upto <= MutationCount(w),
         NEW now \in Nat, NEW later \in Nat, now <= later, MarkersStand(db, w, now),
         w.phase = "staging" /\ w.epoch = new.epoch => w.epoch = db.epoch,
         \A n \in DOMAIN w.keys :
           Marker(w, n) \in db.garbage => Marker(w, n) \in new.garbage \/ w.garbageAt <= now
  PROVE  MarkersStand(new, w, later)
<1> SUFFICES ASSUME w.phase = "staging"
             PROVE  /\ w.epoch = None => w.done = 0
                    /\ w.epoch = new.epoch =>
                         \A p \in 1 .. w.done : ChunkAt(p) = 0 =>
                           Marker(w, EntryAt(p)) \in new.garbage \/ w.garbageAt <= later
  BY DEF MarkersStand
<1>1. w.epoch = None => w.done = 0
  BY DEF MarkersStand
<1>2. ASSUME w.epoch = new.epoch, NEW p \in 1 .. w.done, ChunkAt(p) = 0
      PROVE  Marker(w, EntryAt(p)) \in new.garbage \/ w.garbageAt <= later
  <2>1. Marker(w, EntryAt(p)) \in db.garbage \/ w.garbageAt <= now
    BY <1>2 DEF MarkersStand
  <2>2. p \in 1 .. MutationCount(w) /\ w.garbageAt \in Nat
    BY WorkFields
  <2>3. EntryAt(p) \in DOMAIN w.keys
    BY <2>2, MarkerBefore
  <2> QED BY <2>1, <2>2, <2>3
<1> QED BY <1>1, <1>2

\* The markers of another call survive a publication, which removes its own.
LEMMA PublishedMarkers ==
  ASSUME NEW db \in Store, NEW w \in Work, NEW v, NEW n \in DOMAIN v.keys,
         Names(v) \cap Names(w) = {}, Marker(v, n) \in db.garbage
  PROVE  Marker(v, n) \in Published(db, w).garbage
<1>1. \A r \in Markers(w) : r.identity \in Names(w)
  BY DEF Markers, Marker, Names
<1>2. Marker(v, n).identity \in Names(v)
  BY DEF Marker, Names
<1>3. Published(db, w).garbage \in {db.garbage \ Markers(w),
                                    (db.garbage \cup Replaced(db, w)) \ Markers(w)}
  BY DEF Published, Store
<1> QED BY <1>1, <1>2, <1>3

\* The calls that do not step keep their markers.
LEMMA OthersMarkers ==
  ASSUME TInv, Apart, \A c \in Client : EpochFresh(c), NEW c \in Client, ClientStep(c),
         NEW d \in Client, d # c, MarkersStand(store, work[d], clock)
  PROVE  MarkersStand(store', work[d], clock)
<1>0. /\ store \in Store /\ work[d] \in Work /\ clock \in Nat /\ clock <= clock
      /\ work[d].done <= work[d].upto /\ work[d].upto <= MutationCount(work[d])
  BY CallFacts DEF TInv, InPhase
<1>1. CASE store' = store
  BY <1>1
<1>2. CASE work[d].phase # "staging"
  BY <1>2 DEF MarkersStand
<1>3. CASE work[d].phase = "staging" /\ store' = Staged(store, work[c])
  <2>1. store'.epoch = store.epoch
    BY <1>0, <1>3, EpochsKept
  <2>2. store.garbage \subseteq store'.garbage
    BY <1>0, <1>3 DEF Staged, Store
  <2> QED BY <1>0, <2>1, <2>2, MarkersStay
<1>4. CASE work[d].phase = "staging" /\ work[c].phase = "publishing"
           /\ store' = Published(store, work[c])
  <2>1. store'.epoch = store.epoch
    BY <1>0, <1>4, EpochsKept
  <2>2. Names(work[d]) \cap Names(work[c]) = {} /\ work[c] \in Work
    BY <1>4, CallFacts DEF Apart, Active
  <2>3. \A n \in DOMAIN work[d].keys :
          Marker(work[d], n) \in store.garbage => Marker(work[d], n) \in store'.garbage
    BY <1>0, <1>4, <2>2, PublishedMarkers
  <2> QED BY <1>0, <2>1, <2>3, MarkersStay
<1>5. CASE work[c].phase = "clearing" /\ store' = Cleared(store, work[c].epoch)
  <2>1. store'.epoch = work[c].epoch /\ work[d].epoch # work[c].epoch
    BY <1>0, <1>5, EpochsKept DEF EpochFresh
  <2> QED BY <2>1 DEF MarkersStand
<1> QED BY <1>1, <1>2, <1>3, <1>4, <1>5 DEF ClientStep, WriteBegins, Prepare, Stage,
           StageUnknown, Publish, PublishUnknown, ClearBegins, Clear, ClearUnknown, GiveUp

LEMMA MarkersNext ==
  /\ TInv /\ LInv /\ [Next]_vars
  => \A c \in Client : MarkersStand(store', work'[c], clock')
<1> SUFFICES ASSUME TInv, LInv, [Next]_vars, NEW d \in Client
             PROVE  MarkersStand(store', work'[d], clock')
  OBVIOUS
<1>0. /\ store \in Store /\ work \in [Client -> Work] /\ clock \in Nat
      /\ work[d] \in Work /\ work[d].done <= work[d].upto
      /\ work[d].upto <= MutationCount(work[d])
  BY CallFacts DEF TInv, InPhase
<1>1. /\ Apart /\ \A c \in Client : EpochFresh(c)
      /\ \A c \in Client : MarkersStand(store, work[c], clock)
  BY DEF LInv
<1>2. ASSUME NEW c \in Client, ClientStep(c), d # c
      PROVE  MarkersStand(store', work'[d], clock')
  <2>1. clock' = clock /\ work'[d] = work[d]
    <3>1. CASE Prepare(c)
      BY <1>2, <3>1, PrepareTyped DEF Prepare
    <3>2. CASE ~Prepare(c)
      BY <1>2, <3>2, StepShape DEF Shape
    <3> QED BY <3>1, <3>2
  <2> QED BY <1>1, <1>2, <2>1, OthersMarkers
<1>3. ASSUME Prepare(d) PROVE MarkersStand(store', work'[d], clock')
  <2>1. work'[d].done = 0
    BY <1>3, PrepareTyped
  <2> QED BY <2>1 DEF MarkersStand
<1>4. ASSUME Stage(d), ~EpochChanged(store, work[d])
      PROVE  MarkersStand(store', work'[d], clock')
  <2> DEFINE o == work[d]
  <2>1. PICK w \in Work :
          /\ work' = [work EXCEPT ![d] = w] /\ w.keys = o.keys /\ w.first = o.first
          /\ w.garbageAt = o.garbageAt /\ w.epoch # None /\ w.done = o.upto
    BY <1>4, StagedCall
  <2>2. o.phase = "staging" /\ store' = Staged(store, o) /\ clock' = clock
    BY <1>4 DEF Stage
  <2>3. \A p \in 1 .. o.upto :
          ChunkAt(p) = 0 => Marker(o, EntryAt(p)) \in store'.garbage \/ o.garbageAt <= clock
    BY <1>0, <1>1, <1>4, <2>2, StagedMarkers
  <2>4. \A n : Marker(w, n) = Marker(o, n)
    BY <2>1 DEF Marker, IdentityOf
  <2>5. work'[d] = w
    BY <1>0, <2>1
  <2> HIDE DEF o
  <2> QED BY <2>1, <2>2, <2>3, <2>4, <2>5 DEF MarkersStand
<1>5. ASSUME StageUnknown(d) PROVE MarkersStand(store', work'[d], clock')
  <2>1. /\ store' = Staged(store, work[d]) /\ clock' = clock /\ Unknown(d)
    BY <1>5 DEF StageUnknown
  <2>2. CASE work' = work
    <3>1. store'.epoch = store.epoch
      BY <1>0, <2>1, EpochsKept
    <3>2. store.garbage \subseteq store'.garbage
      BY <1>0, <2>1 DEF Staged, Store
    <3> QED BY <1>0, <1>1, <2>1, <2>2, <3>1, <3>2, MarkersStay
  <2>3. CASE work' = [work EXCEPT ![d] = Idle]
    BY <1>0, <2>3, IdleRests DEF MarkersStand
  <2> QED BY <2>1, <2>2, <2>3 DEF Unknown
<1>6. ASSUME ClientStep(d), ~Prepare(d), ~(Stage(d) /\ ~EpochChanged(store, work[d])),
             ~StageUnknown(d)
      PROVE  MarkersStand(store', work'[d], clock')
  <2>1. work'[d].phase # "staging"
    <3>1. CASE WriteBegins(d)
      BY <1>0, <3>1 DEF WriteBegins, Idle
    <3>2. CASE Stage(d) \/ Publish(d)
      BY <1>0, <1>6, <3>2, AgainRests, IdleRests DEF Stage, Publish
    <3>3. CASE PublishUnknown(d)
      BY <1>0, <3>3, IdleRests DEF PublishUnknown, Unknown
    <3>4. CASE ClearBegins(d)
      BY <1>0, <3>4 DEF ClearBegins, Idle
    <3>5. CASE Clear(d) \/ GiveUp(d)
      BY <1>0, <3>5, IdleRests DEF Clear, GiveUp
    <3>6. CASE ClearUnknown(d)
      BY <1>0, <3>6, IdleRests DEF ClearUnknown, Unknown
    <3> QED BY <1>6, <3>1, <3>2, <3>3, <3>4, <3>5, <3>6 DEF ClientStep
  <2> QED BY <2>1 DEF MarkersStand
<1>7. ASSUME UNCHANGED work, store'.epoch = store.epoch, clock' \in Nat, clock <= clock',
             \A r \in store.garbage : r \in store'.garbage \/ r.at <= clock
      PROVE  MarkersStand(store', work'[d], clock')
  <2>1. \A n \in DOMAIN work[d].keys : Marker(work[d], n) \in store.garbage =>
          Marker(work[d], n) \in store'.garbage \/ work[d].garbageAt <= clock
    BY <1>7 DEF Marker
  <2> QED BY <1>0, <1>1, <1>7, <2>1, MarkersStay
<1>8. ASSUME NEW keys \in SUBSET Key, Read(keys) PROVE MarkersStand(store', work'[d], clock')
  <2>1. store'.epoch = store.epoch /\ store'.garbage = store.garbage
    BY <1>0, <1>8 DEF Read, Dropped, Store
  <2> QED BY <1>0, <1>7, <1>8, <2>1 DEF Read
<1>9. ASSUME NEW k \in Key, RemoveKey(k) PROVE MarkersStand(store', work'[d], clock')
  <2>1. store'.epoch = store.epoch /\ store'.garbage = store.garbage
    BY <1>0, <1>9 DEF RemoveKey, Removed, Dropped, Store
  <2> QED BY <1>0, <1>7, <1>9, <2>1 DEF RemoveKey
<1>10. CASE Cleanup
  <2>1. PICK expired \in FirstRows(store.expires, clock),
             garbage \in FirstRows(store.garbage, clock) :
          store' = Cleaned(store, expired, garbage, clock)
    BY <1>10 DEF Cleanup
  <2>2. store'.garbage = store.garbage \ garbage
    BY <1>0, <2>1 DEF Cleaned, Store
  <2>3. store'.epoch = store.epoch
    BY <1>0, <2>1, EpochsKept
  <2>4. \A r \in garbage : r.at <= clock
    BY <2>1 DEF FirstRows
  <2> QED BY <1>0, <1>7, <1>10, <2>2, <2>3, <2>4 DEF Cleanup
<1>11. CASE Tick \/ UNCHANGED vars
  <2>1. UNCHANGED <<work, store>> /\ clock' \in Nat /\ clock <= clock'
    BY <1>0, <1>11 DEF Tick, vars
  <2> QED BY <1>7, <2>1
<1>12. ASSUME NEW c \in Client, ClientStep(c) PROVE MarkersStand(store', work'[d], clock')
  BY <1>2, <1>3, <1>4, <1>5, <1>6, <1>12
<1> QED BY <1>8, <1>9, <1>10, <1>11, <1>12 DEF Next

LEMMA OwnedNext ==
  TInv /\ LInv /\ [Next]_vars => Owned(store', born', clock')
<1> SUFFICES ASSUME TInv, LInv, [Next]_vars PROVE Owned(store', born', clock')
  OBVIOUS
<1>0. /\ store \in Store /\ clock \in Nat /\ born \in Seq(Nat) /\ Len(born) \in Nat
      /\ DOMAIN born = 1 .. Len(born) /\ Owned(store, born, clock)
  BY DEF TInv, LInv
\* A transaction that keeps what leads to a chunk.
<1>1. ASSUME UNCHANGED <<born, clock>>, KeepsReach(store, store', {})
      PROVE  Owned(store', born', clock')
  <2>1. Owned(store', born, clock)
    BY <1>0, <1>1, ReachOwned
  <2> QED BY <1>1, <2>1
<1>2. ASSUME UNCHANGED <<born, clock>>, store' = store PROVE Owned(store', born', clock')
  BY <1>0, <1>2
<1>3. ASSUME NEW c \in Client, Prepare(c) PROVE Owned(store', born', clock')
  <2>1. store' = store /\ clock' = clock
    BY <1>3 DEF Prepare
  <2>2. \A i \in DOMAIN born : i \in DOMAIN born' /\ born'[i] = born[i]
    BY <1>0, <1>3, PrepareBirths
  <2> QED BY <1>0, <2>1, <2>2 DEF Owned
<1>4. ASSUME NEW c \in Client, work[c].phase = "staging", ~EpochChanged(store, work[c]),
             store' = Staged(store, work[c]), UNCHANGED <<born, clock>>
      PROVE  Owned(store', born', clock')
  <2>1. /\ work[c] \in Work /\ work[c].upto <= MutationCount(work[c])
        /\ MarkersStand(store, work[c], clock) /\ Batched(work[c], born)
    BY CallFacts DEF InPhase, LInv
  <2>2. Owned(Staged(store, work[c]), born, clock)
    BY <1>0, <1>4, <2>1, StagedOwned
  <2> QED BY <1>4, <2>2
<1>5. ASSUME NEW c \in Client, work[c].phase = "publishing",
             store' = Published(store, work[c]), UNCHANGED <<born, clock>>
      PROVE  Owned(store', born', clock')
  <2>1. /\ work[c] \in Work /\ Active(work[c]) /\ Batched(work[c], born)
        /\ \A n \in DOMAIN work[c].keys : IdentityOf(work[c], n) \in Identity
    BY <1>5, CallFacts DEF LInv, Active
  <2>2. KeepsReach(store, store', Names(work[c]))
    BY <1>0, <1>5, <2>1, PublishedReach DEF Batched
  <2>3. \A i \in Names(work[c]) : i \in DOMAIN born
    BY <2>1 DEF Batched, Names
  <2>4. Owned(store', born, clock)
    BY <1>0, <2>2, <2>3, ReachOwned
  <2> QED BY <1>5, <2>4
<1>6. ASSUME NEW c \in Client, store' = Cleared(store, work[c].epoch), UNCHANGED <<born, clock>>
      PROVE  Owned(store', born', clock')
  BY <1>1, <1>6, ClearedReach
<1>7. ASSUME NEW c \in Client, ClientStep(c) PROVE Owned(store', born', clock')
  <2>1. CASE WriteBegins(c) \/ ClearBegins(c) \/ GiveUp(c)
    BY <1>2, <2>1 DEF WriteBegins, ClearBegins, GiveUp
  <2>2. CASE Stage(c)
    BY <1>2, <1>4, <2>2 DEF Stage
  <2>3. CASE StageUnknown(c)
    BY <1>4, <2>3 DEF StageUnknown
  <2>4. CASE Publish(c) \/ PublishUnknown(c)
    BY <1>2, <1>5, <2>4 DEF Publish, PublishUnknown
  <2>5. CASE Clear(c) \/ ClearUnknown(c)
    BY <1>6, <2>5 DEF Clear, ClearUnknown
  <2> QED BY <1>3, <1>7, <2>1, <2>2, <2>3, <2>4, <2>5 DEF ClientStep
<1>8. ASSUME NEW keys \in SUBSET Key, Read(keys) PROVE Owned(store', born', clock')
  <2> DEFINE gone == {k \in keys : Expired(store, k, clock)}
  <2>1. gone \in SUBSET Key /\ \A k \in gone : store.entries[k] # None
    BY DEF Expired
  <2>2. store' = Dropped(store, gone) /\ UNCHANGED <<born, clock>>
    BY <1>8 DEF Read
  <2> HIDE DEF gone
  <2> QED BY <1>0, <1>1, <2>1, <2>2, DroppedReach
<1>9. ASSUME NEW k \in Key, RemoveKey(k) PROVE Owned(store', born', clock')
  <2>1. UNCHANGED <<born, clock>>
    BY <1>9 DEF RemoveKey
  <2>2. CASE store.entries[k] = None
    BY <1>2, <1>9, <2>1, <2>2 DEF RemoveKey, Removed
  <2>3. CASE store.entries[k] # None
    <3>1. store' = Dropped(store, {k})
      BY <1>9, <2>3 DEF RemoveKey, Removed
    <3>2. {k} \in SUBSET Key /\ \A j \in {k} : store.entries[j] # None
      BY <2>3
    <3> QED BY <1>0, <1>1, <2>1, <3>1, <3>2, DroppedReach
  <2> QED BY <2>2, <2>3
<1>10. CASE Cleanup
  <2>1. PICK expired, garbage : store' = Cleaned(store, expired, garbage, clock)
    BY <1>10 DEF Cleanup
  <2>2. UNCHANGED <<born, clock>>
    BY <1>10 DEF Cleanup
  <2> QED BY <1>0, <1>1, <2>1, <2>2, CleanedReach
<1>11. CASE Tick
  <2>1. UNCHANGED <<store, born>> /\ clock' = clock + 1
    BY <1>11 DEF Tick
  <2>2. \A i \in DOMAIN born : born[i] + GarbageDelay <= clock => born[i] + GarbageDelay <= clock + 1
    BY <1>0, PersistenceAssumption
  <2> QED BY <1>0, <2>1, <2>2 DEF Owned
<1>12. CASE UNCHANGED vars
  BY <1>2, <1>12 DEF vars
<1> QED BY <1>7, <1>8, <1>9, <1>10, <1>11, <1>12 DEF Next

LEMMA LInvInit == Init => LInv
<1> SUFFICES ASSUME Init PROVE LInv
  OBVIOUS
<1>1. \A c \in Client : work[c] = Idle
  BY DEF Init
<1>2. Owned(store, born, clock)
  BY DEF Init, Owned
<1>3. Idle.phase = "idle" /\ Idle.keys = <<>>
  BY IdleRests
<1> QED BY <1>1, <1>2, <1>3 DEF LInv, Apart, Batched, EpochFresh, MarkersStand, Active

LEMMA LInvNext ==
  TInv /\ LInv /\ [Next]_vars /\ [\A c \in Retrying : ~ClearUnknown(c)]_vars => LInv'
<1> SUFFICES ASSUME TInv, LInv, [Next]_vars, [\A c \in Retrying : ~ClearUnknown(c)]_vars
             PROVE  LInv'
  OBVIOUS
<1>1. /\ Owned(store', born', clock') /\ Apart'
      /\ \A c \in Client : Batched(work'[c], born')
      /\ \A c \in Client : MarkersStand(store', work'[c], clock')
  BY OwnedNext, ApartNext, BatchedNext, MarkersNext DEF LInv
<1>2. \A c \in Client : EpochFresh(c)'
  <2>1. CASE \A c \in Retrying : ~ClearUnknown(c)
    BY <2>1, FreshNext DEF LInv
  <2>2. CASE UNCHANGED vars
    BY <2>2 DEF vars, LInv, EpochFresh
  <2> QED BY <2>1, <2>2
<1> QED BY <1>1, <1>2 DEF LInv

-----------------------------------------------------------------------------
(* Theorems                                                                *)

\* The times a step may take an entry away.
Lawful(k) ==
  store.entries[k] # None /\ store'.entries[k] = None =>
    \/ store.entries[k].expires # None /\ store.entries[k].expires <= clock
    \/ store' = Removed(store, k)
    \/ \E c \in Client : work[c].phase = "clearing" /\ store' = Cleared(store, work[c].epoch)

LEMMA PublishedStays ==
  ASSUME NEW db \in Store, NEW w \in Work, NEW k \in Key, db.entries[k] # None,
         \A n \in DOMAIN w.keys : IdentityOf(w, n) \in Identity
  PROVE  Published(db, w).entries[k] # None
<1>1. CASE w.epoch # None /\ AlreadyPublished(db, w)
  BY <1>1 DEF Published, Store
<1>2. CASE ~(w.epoch # None /\ AlreadyPublished(db, w))
  BY <1>2, PublishedRows
<1> QED BY <1>1, <1>2

LEMMA StepLawful ==
  ASSUME TInv, [Next]_vars, NEW k \in Key
  PROVE  Lawful(k)
<1>1. store \in Store
  BY DEF TInv
<1> SUFFICES ASSUME store.entries[k] # None, store'.entries[k] = None
             PROVE  \/ store.entries[k].expires # None /\ store.entries[k].expires <= clock
                    \/ store' = Removed(store, k)
                    \/ \E c \in Client : /\ work[c].phase = "clearing"
                                         /\ store' = Cleared(store, work[c].epoch)
  BY DEF Lawful
<1>2. store' # store
  OBVIOUS
<1>3. ASSUME NEW c \in Client, ClientStep(c)
      PROVE  work[c].phase = "clearing" /\ store' = Cleared(store, work[c].epoch)
  <2>1. ASSUME Active(work[c]), store' = Staged(store, work[c]) PROVE FALSE
    <3>1. Staged(store, work[c]).entries = store.entries
      BY <1>1 DEF Staged, Store
    <3> QED BY <2>1, <3>1
  <2>2. ASSUME Active(work[c]), store' = Published(store, work[c]) PROVE FALSE
    BY <1>1, <2>2, CallFacts, PublishedStays
  <2>3. CASE Stage(c) \/ StageUnknown(c)
    BY <1>2, <2>1, <2>3 DEF Stage, StageUnknown, Active
  <2>4. CASE Publish(c) \/ PublishUnknown(c)
    BY <1>2, <2>2, <2>4 DEF Publish, PublishUnknown, Active
  <2>5. CASE Clear(c) \/ ClearUnknown(c)
    BY <2>5 DEF Clear, ClearUnknown
  <2>6. CASE WriteBegins(c) \/ Prepare(c) \/ ClearBegins(c) \/ GiveUp(c)
    BY <1>2, <2>6 DEF WriteBegins, Prepare, ClearBegins, GiveUp
  <2> QED BY <1>3, <2>3, <2>4, <2>5, <2>6 DEF ClientStep
<1>4. ASSUME NEW keys \in SUBSET Key, Read(keys)
      PROVE  store.entries[k].expires # None /\ store.entries[k].expires <= clock
  <2>1. k \in {j \in keys : Expired(store, j, clock)}
    BY <1>1, <1>4 DEF Read, Dropped, Store
  <2> QED BY <2>1 DEF Expired
<1>5. ASSUME NEW j \in Key, RemoveKey(j)
      PROVE  store' = Removed(store, k)
  <2>1. store' = Removed(store, j)
    BY <1>5 DEF RemoveKey
  <2>2. store' = Dropped(store, {j})
    BY <1>2, <2>1 DEF Removed
  <2>3. j = k
    BY <1>1, <2>2 DEF Dropped, Store
  <2> QED BY <2>1, <2>3
<1>6. ASSUME Cleanup
      PROVE  store.entries[k].expires # None /\ store.entries[k].expires <= clock
  <2>1. PICK expired \in FirstRows(store.expires, clock),
             garbage \in FirstRows(store.garbage, clock) :
          store' = Cleaned(store, expired, garbage, clock)
    BY <1>6 DEF Cleanup
  <2>2. PICK r \in expired : Expired(store, r.key, clock) /\ r.key = k
    BY <1>1, <2>1 DEF Cleaned, Store
  <2> QED BY <2>2 DEF Expired
<1>7. CASE Tick \/ UNCHANGED vars
  BY <1>2, <1>7 DEF Tick, vars
<1> QED BY <1>3, <1>4, <1>5, <1>6, <1>7 DEF Next

\* Every variable has its type, whatever the calls do.
THEOREM TypeCorrect == Spec => []TypeOK
<1>1. TInv => TypeOK
  <2> SUFFICES ASSUME TInv PROVE TypeOK
    OBVIOUS
  <2>1. ASSUME NEW c \in Client
        PROVE  /\ work[c].phase \in Phases /\ work[c].keys \in Seq(Key)
               /\ work[c].epoch \in Epoch \cup {None}
               /\ work[c].done <= work[c].upto
               /\ work[c].upto <= MutationCount(work[c])
    BY CallFacts, WorkFields DEF InPhase
  <2> QED BY <2>1 DEF TInv, TypeOK
<1> QED BY <1>1, TInvInit, TInvNext, PTL DEF Spec

\* The expiration index has a row for each entry that expires and no other:
\* publications, removals, clears and the collector keep it so, replayed or not.
THEOREM IndexExact == Spec => []ExpirationIndexExact
BY ExactMeaning, TInvInit, TInvNext, PTL DEF Spec

\* No step takes a live entry away but a remove and a clear.
THEOREM LiveStays == Spec => LiveEntriesStay
<1>1. TInv /\ [Next]_vars =>
        [\A k \in Key :
           store.entries[k] # None /\ store'.entries[k] = None =>
             \/ store.entries[k].expires # None /\ store.entries[k].expires <= clock
             \/ store' = Removed(store, k)
             \/ \E c \in Client : work[c].phase = "clearing"
                                  /\ store' = Cleared(store, work[c].epoch)]_vars
  BY StepLawful DEF Lawful
<1> QED BY <1>1, TInvInit, TInvNext, PTL DEF Spec, LiveEntriesStay

\* The collector never meets a value in use: a row of the garbage index names
\* no manifest's value, when direct publications are not executed twice.
THEOREM GarbageUnused == ASSUME NoDirectReplay PROVE Spec => []GarbageUnreferenced
<1>1. GInv => GarbageUnreferenced
  BY DEF GInv, Sound, Unreferenced, GarbageUnreferenced
<1>2. Init => TInv /\ GInv
  BY TInvInit, GInvInit
<1>3. TInv /\ GInv /\ [Next]_vars => (TInv /\ GInv)'
  BY TInvNext, GInvNext
<1> QED BY <1>1, <1>2, <1>3, PTL DEF Spec

\* A reader that finds a manifest finds every chunk of its value, under the
\* same condition: staged publications may be executed twice, stores cleared
\* and markers collected between any two transactions.
THEOREM ValuesComplete == ASSUME NoDirectReplay PROVE Spec => []ManifestComplete
<1>1. GInv => ManifestComplete
  BY DEF GInv, Sound, Complete, ManifestComplete
<1>2. Init => TInv /\ GInv
  BY TInvInit, GInvInit
<1>3. TInv /\ GInv /\ [Next]_vars => (TInv /\ GInv)'
  BY TInvNext, GInvNext
<1> QED BY <1>1, <1>2, <1>3, PTL DEF Spec

\* Chunks are named by a manifest or by a row of the garbage index, or their
\* staging outlived its marker (stagingMutations puts the marker first, and
\* publishEntries takes it away with the names in place), whatever is replayed
\* but a clear: TLC shows that the second application of one, after a call
\* observed the epoch of the first, parts the chunks of that call from their
\* marker.
THEOREM NothingLost == Spec /\ NoClearReplay => []NothingLeaks
<1>1. LInv => NothingLeaks
  BY DEF LInv, Owned, Reachable, InEntry, InGarbage, NothingLeaks
<1>2. Init => TInv /\ LInv
  BY TInvInit, LInvInit
<1>3. TInv /\ LInv /\ [Next]_vars /\ [\A c \in Retrying : ~ClearUnknown(c)]_vars
        => (TInv /\ LInv)'
  BY TInvNext, LInvNext
<1> QED BY <1>1, <1>2, <1>3, PTL DEF Spec, NoClearReplay
=============================================================================
