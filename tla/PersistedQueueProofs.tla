------------------------ MODULE PersistedQueueProofs ------------------------
(***************************************************************************)
(* The type invariant and the consistency of the indexes of PersistedQueue,*)
(* what one of its steps does to each entry, and from it that owners keep  *)
(* their entries, settled entries stay settled, queued ones have an        *)
(* attempt left and no wake-up is lost, and that the queue implements      *)
(* AtLeastOnceQueue: every step is, element by element, a step or a        *)
(* stutter of it.  For any number of elements, takes and attempts and any  *)
(* clock.                                                                  *)
(***************************************************************************)
EXTENDS MCPersistedQueue, WellFoundedInduction, FiniteSetTheorems, TLAPS

\* The index rows and the entries of a store, with types.
Consistent(db) ==
  /\ db \in Store
  /\ RowsMatchEntries(db)
  /\ ClaimsMatchEntries(db)
  /\ IdsMatchEntries(db)

(***************************************************************************)
(* The fields of a store.                                                  *)
(***************************************************************************)
LEMMA StoreFields ==
  ASSUME NEW db \in Store
  PROVE  /\ db.entries \in [Seqs -> Entry \cup {None}]
         /\ db.ids \in [Id -> Seqs \cup {None}]
         /\ db.claims \in [Take -> Seqs \cup {None}]
         /\ db.counter \in 0 .. MaxSeq
         /\ db.pending \subseteq Row
         /\ db.locks \subseteq Row
         /\ db.completed \subseteq Row
         /\ db.failed \subseteq Row
         /\ db.watching \subseteq Take
BY DEF Store, NoEntry

\* offer keeps the store in its type (repository.ts:315-355).
LEMMA OfferedType ==
  ASSUME NEW db \in Store, db.counter < MaxSeq, NEW i \in Id, NEW now \in Nat
  PROVE  Offered(db, i, now) \in Store
<1>1. CASE db.ids[i] # None
  BY <1>1 DEF Offered
<1>2. CASE db.ids[i] = None
  <2> DEFINE s == db.counter
  <2>1. s \in Seqs
    BY QueueAssumption, StoreFields DEF Seqs
  <2>2. NewEntry(i, now) \in Entry
    BY DEF NewEntry, Entry, States
  <2>3. s + 1 \in 0 .. MaxSeq
    BY QueueAssumption, StoreFields
  <2>4. <<now, s>> \in Row
    BY <2>1 DEF Row
  <2>5. Offered(db, i, now) =
          [db EXCEPT !.entries = [@ EXCEPT ![s] = NewEntry(i, now)],
                     !.ids = [@ EXCEPT ![i] = s],
                     !.pending = @ \cup {<<now, s>>},
                     !.counter = @ + 1,
                     !.watching = {}]
    BY <1>2 DEF Offered, Store
  <2> HIDE DEF s
  <2>6. [db.entries EXCEPT ![s] = NewEntry(i, now)] \in [Seqs -> Entry \cup {NoEntry}]
    BY <2>1, <2>2 DEF Store
  <2>7. [db.ids EXCEPT ![i] = s] \in [Id -> Seqs \cup {None}]
    BY <2>1 DEF Store
  <2>8. db.pending \cup {<<now, s>>} \subseteq Row /\ db.counter + 1 \in 0 .. MaxSeq
    BY <2>3, <2>4, StoreFields DEF s
  <2> QED
    BY <2>5, <2>6, <2>7, <2>8 DEF Store
<1> QED BY <1>1, <1>2

(***************************************************************************)
(* RowsMatchEntries row by row, which is how the steps are argued.         *)
(***************************************************************************)
RowByRow(db) ==
  \A s \in Seqs, n \in Nat :
    /\ <<n, s>> \in db.pending
         <=> EntryIn(db, s, "pending") /\ db.entries[s].visibleAt = n
    /\ <<n, s>> \in db.locks
         <=> EntryIn(db, s, "processing") /\ db.entries[s].acquiredAt = n
    /\ <<n, s>> \in db.completed
         <=> EntryIn(db, s, "completed") /\ db.entries[s].updatedAt = n
    /\ <<n, s>> \in db.failed
         <=> EntryIn(db, s, "failed") /\ db.entries[s].updatedAt = n

\* The times of the entries are numbers where a row records them.
LEMMA EntryTimes ==
  ASSUME NEW db \in Store, NEW s \in Seqs, db.entries[s] # None
  PROVE  /\ db.entries[s] \in Entry
         /\ db.entries[s].visibleAt \in Nat
         /\ db.entries[s].updatedAt \in Nat
         /\ db.entries[s].acquiredAt \in Nat \cup {None}
         /\ db.entries[s].acquiredBy \in Take \cup {None}
         /\ db.entries[s].attempts \in Nat
         /\ db.entries[s].id \in Id
         /\ db.entries[s].state \in States
BY StoreFields DEF Entry

\* The images of RowsMatchEntries, row by row: the form the provers use.
LEMMA RowsPointwise ==
  ASSUME NEW db \in Store, ClaimsMatchEntries(db)
  PROVE  RowsMatchEntries(db) <=> RowByRow(db)
<1> DEFINE In(state) == {u \in Seqs : EntryIn(db, u, state)}
<1>1. \A s \in In("pending") : db.entries[s].visibleAt \in Nat
  BY EntryTimes DEF EntryIn, NoEntry
<1>2. \A s \in In("processing") : db.entries[s].acquiredAt \in Nat
  BY EntryTimes DEF EntryIn, NoEntry, ClaimsMatchEntries
<1>3. \A s \in In("completed") : db.entries[s].updatedAt \in Nat
  BY EntryTimes DEF EntryIn, NoEntry
<1>4. \A s \in In("failed") : db.entries[s].updatedAt \in Nat
  BY EntryTimes DEF EntryIn, NoEntry
<1>5. db.pending = {<<db.entries[s].visibleAt, s>> : s \in In("pending")}
      <=> \A s \in Seqs, n \in Nat : <<n, s>> \in db.pending
            <=> EntryIn(db, s, "pending") /\ db.entries[s].visibleAt = n
  BY <1>1, StoreFields DEF Row
<1>6. db.locks = {<<db.entries[s].acquiredAt, s>> : s \in In("processing")}
      <=> \A s \in Seqs, n \in Nat : <<n, s>> \in db.locks
            <=> EntryIn(db, s, "processing") /\ db.entries[s].acquiredAt = n
  BY <1>2, StoreFields DEF Row
<1>7. db.completed = {<<db.entries[s].updatedAt, s>> : s \in In("completed")}
      <=> \A s \in Seqs, n \in Nat : <<n, s>> \in db.completed
            <=> EntryIn(db, s, "completed") /\ db.entries[s].updatedAt = n
  BY <1>3, StoreFields DEF Row
<1>8. db.failed = {<<db.entries[s].updatedAt, s>> : s \in In("failed")}
      <=> \A s \in Seqs, n \in Nat : <<n, s>> \in db.failed
            <=> EntryIn(db, s, "failed") /\ db.entries[s].updatedAt = n
  BY <1>4, StoreFields DEF Row
<1> QED
  BY <1>5, <1>6, <1>7, <1>8 DEF RowsMatchEntries, RowByRow

(***************************************************************************)
(* offer                                                                   *)
(***************************************************************************)
LEMMA OfferedConsistent ==
  ASSUME NEW db, Consistent(db), db.counter < MaxSeq,
         NEW i \in Id, NEW now \in Nat
  PROVE  Consistent(Offered(db, i, now))
<1>1. CASE db.ids[i] # None
  BY <1>1 DEF Offered
<1>2. CASE db.ids[i] = None
  <2> DEFINE s == db.counter
             new == Offered(db, i, now)
  <2>1. db \in Store /\ RowByRow(db) /\ ClaimsMatchEntries(db) /\ IdsMatchEntries(db)
    BY RowsPointwise DEF Consistent
  <2>2. s \in Seqs /\ db.entries[s] = None
    BY <2>1, QueueAssumption, StoreFields DEF Seqs, IdsMatchEntries, NoEntry
  <2>3. new \in Store
    BY <2>1, OfferedType
  <2>4. /\ new.entries = [db.entries EXCEPT ![s] = NewEntry(i, now)]
        /\ new.ids = [db.ids EXCEPT ![i] = s]
        /\ new.pending = db.pending \cup {<<now, s>>}
        /\ new.counter = s + 1
        /\ new.locks = db.locks
        /\ new.completed = db.completed
        /\ new.failed = db.failed
        /\ new.claims = db.claims
    BY <1>2, <2>1 DEF Offered, Store
  <2>5. /\ new.entries[s] = NewEntry(i, now)
        /\ \A u \in Seqs : u # s => new.entries[u] = db.entries[u]
        /\ NewEntry(i, now) \in Entry
        /\ NewEntry(i, now) # None
    BY <2>1, <2>2, <2>4, StoreFields, NoneAssumption DEF NewEntry, Entry, States
  <2> HIDE DEF s, new
  <2>6. RowByRow(new)
    <3> SUFFICES ASSUME NEW u \in Seqs, NEW n \in Nat
                 PROVE  RowByRow(new)!(u, n)
      BY DEF RowByRow
    <3>1. RowByRow(db)!(u, n)
      BY <2>1 DEF RowByRow
    <3>2. CASE u = s
      BY <3>1, <3>2, <2>2, <2>4, <2>5 DEF EntryIn, NewEntry, NoEntry
    <3>3. CASE u # s
      BY <3>1, <3>3, <2>2, <2>4, <2>5 DEF EntryIn, NoEntry
    <3> QED BY <3>2, <3>3
  <2>7. ClaimsMatchEntries(new)
    BY <2>1, <2>2, <2>4, <2>5, StoreFields, NoneAssumption
       DEF ClaimsMatchEntries, Owns, EntryIn, NewEntry, NoEntry
  <2>8. IdsMatchEntries(new)
    <3>1. ASSUME NEW j \in Id, NEW u \in Seqs
          PROVE  new.ids[j] = u <=> new.entries[u] # NoEntry /\ new.entries[u].id = j
      <4>1. db.ids[j] = u <=> db.entries[u] # NoEntry /\ db.entries[u].id = j
        BY <2>1 DEF IdsMatchEntries
      <4>2. new.ids[j] = IF j = i THEN s ELSE db.ids[j]
        BY <2>1, <2>4, StoreFields
      <4>3. NewEntry(i, now).id = i
        BY DEF NewEntry
      <4>4. CASE u = s
        BY <4>1, <4>2, <4>3, <4>4, <2>2, <2>5, NoneAssumption DEF NoEntry
      <4>5. CASE u # s
        BY <1>2, <4>1, <4>2, <4>3, <4>5, <2>2, <2>5, NoneAssumption DEF NoEntry, Seqs
      <4> QED BY <4>4, <4>5
    <3>2. \A u \in Seqs : u >= new.counter => new.entries[u] = NoEntry
      BY <2>1, <2>2, <2>4, <2>5, QueueAssumption DEF IdsMatchEntries, Seqs, NoEntry, s
    <3> QED BY <3>1, <3>2 DEF IdsMatchEntries
  <2> QED
    BY <2>3, <2>6, <2>7, <2>8, RowsPointwise DEF Consistent, new
<1> QED BY <1>1, <1>2

(***************************************************************************)
(* What indexBefore returns.                                               *)
(***************************************************************************)
LEMMA IndexBeforeRows ==
  ASSUME NEW index, NEW time
  PROVE  /\ IndexBefore(index, time) \subseteq index
         /\ \A r \in IndexBefore(index, time) : r[1] <= time
BY DEF IndexBefore

(***************************************************************************)
(* refreshClaim                                                            *)
(***************************************************************************)
LEMMA RefreshedConsistent ==
  ASSUME NEW db, Consistent(db), NEW t \in Take, NEW s \in Seqs, NEW now \in Nat
  PROVE  Consistent(Refreshed(db, t, s, now))
<1>1. CASE ~Holds(db, t, s)
  BY <1>1 DEF Refreshed
<1>2. CASE Holds(db, t, s)
  <2> DEFINE new == Refreshed(db, t, s, now)
             e == [db.entries[s] EXCEPT !.acquiredAt = now]
  <2>1. db \in Store /\ RowByRow(db) /\ ClaimsMatchEntries(db) /\ IdsMatchEntries(db)
    BY RowsPointwise DEF Consistent
  <2>2. /\ db.entries[s] # None
        /\ db.entries[s].state = "processing"
        /\ db.entries[s].acquiredBy = t
        /\ db.entries[s].acquiredAt \in Nat
        /\ db.entries[s] \in Entry
    BY <1>2, <2>1, EntryTimes DEF Holds, Owns, EntryIn, NoEntry
  <2>3. /\ e \in Entry /\ e # None
        /\ e.id = db.entries[s].id
        /\ e.state = "processing" /\ e.acquiredBy = t /\ e.acquiredAt = now
    BY <2>2, NoneAssumption DEF Entry
  <2>4. /\ new.entries = [db.entries EXCEPT ![s] = e]
        /\ new.locks = (db.locks \ {<<db.entries[s].acquiredAt, s>>}) \cup {<<now, s>>}
        /\ new.ids = db.ids /\ new.claims = db.claims /\ new.counter = db.counter
        /\ new.pending = db.pending /\ new.completed = db.completed
        /\ new.failed = db.failed /\ new.watching = db.watching
    BY <1>2, <2>1 DEF Refreshed, Store
  <2>5. new \in Store
    <3>1. <<now, s>> \in Row
      BY DEF Row
    <3>2. new = [db EXCEPT
                   !.locks = (@ \ {<<db.entries[s].acquiredAt, s>>}) \cup {<<now, s>>},
                   !.entries = [@ EXCEPT ![s] = e]]
      BY <1>2, <2>1 DEF Refreshed, Store
    <3> HIDE DEF e, new
    <3> QED
      BY <3>1, <3>2, <2>1, <2>3, StoreFields DEF Store, NoEntry
  <2>6. /\ new.entries[s] = e
        /\ \A u \in Seqs : u # s => new.entries[u] = db.entries[u]
    BY <2>1, <2>4, StoreFields
  <2> HIDE DEF new, e
  <2>7. RowByRow(new)
    <3> SUFFICES ASSUME NEW u \in Seqs, NEW n \in Nat
                 PROVE  RowByRow(new)!(u, n)
      BY DEF RowByRow
    <3>1. RowByRow(db)!(u, n)
      BY <2>1 DEF RowByRow
    <3>2. CASE u = s
      BY <3>1, <3>2, <2>2, <2>3, <2>4, <2>6 DEF EntryIn, NoEntry
    <3>3. CASE u # s
      BY <3>1, <3>3, <2>4, <2>6 DEF EntryIn, NoEntry
    <3> QED BY <3>2, <3>3
  <2>8. ClaimsMatchEntries(new)
    BY <2>1, <2>2, <2>3, <2>4, <2>6, NoneAssumption
       DEF ClaimsMatchEntries, Owns, EntryIn, NoEntry
  <2>9. IdsMatchEntries(new)
    BY <2>1, <2>2, <2>3, <2>4, <2>6 DEF IdsMatchEntries, NoEntry
  <2> QED
    BY <2>5, <2>7, <2>8, <2>9, RowsPointwise DEF Consistent, new
<1> QED BY <1>1, <1>2

(***************************************************************************)
(* The claim of one pending row.                                           *)
(***************************************************************************)
LEMMA ClaimedEntryType ==
  ASSUME NEW x \in Entry, NEW t \in Take, NEW now \in Nat
  PROVE  /\ ClaimedEntry(x, t, now) \in Entry
         /\ ClaimedEntry(x, t, now).id = x.id
         /\ ClaimedEntry(x, t, now).state = "processing"
         /\ ClaimedEntry(x, t, now).acquiredBy = t
         /\ ClaimedEntry(x, t, now).acquiredAt = now
<1>1. x.attempts + 1 \in Nat
  BY DEF Entry
<1>2. ClaimedEntry(x, t, now)
        = [x EXCEPT !.attempts = x.attempts + 1, !.state = "processing",
                    !.acquiredAt = now, !.acquiredBy = t, !.updatedAt = now]
  BY DEF ClaimedEntry
<1> DEFINE n == x.attempts + 1
<1> HIDE DEF n
<1> QED BY <1>1, <1>2 DEF Entry, States, n

\* Claiming a row moves its entry from pending to locks, with its claims row.
LEMMA ClaimedConsistent ==
  ASSUME NEW db, Consistent(db), NEW t \in Take, db.claims[t] = None,
         NEW row \in db.pending, NEW now \in Nat
  PROVE  Consistent(Claimed(db, t, row, now))
<1> DEFINE new == Claimed(db, t, row, now)
           s == row[2]
           e == ClaimedEntry(db.entries[s], t, now)
<1>1. db \in Store /\ RowByRow(db) /\ ClaimsMatchEntries(db) /\ IdsMatchEntries(db)
  BY RowsPointwise DEF Consistent
<1>2. row[1] \in Nat /\ s \in Seqs /\ row = <<row[1], s>>
  BY <1>1, StoreFields DEF Row
<1>3. /\ EntryIn(db, s, "pending")
      /\ db.entries[s].visibleAt = row[1]
  <2>1. RowByRow(db)!(s, row[1])
    BY <1>1, <1>2 DEF RowByRow
  <2> QED BY <2>1, <1>2
<1>4. db.entries[s] # None /\ db.entries[s] \in Entry
  BY <1>1, <1>2, <1>3, EntryTimes DEF EntryIn, NoEntry
<1>5. /\ e \in Entry /\ e # None
      /\ e.id = db.entries[s].id
      /\ e.state = "processing" /\ e.acquiredBy = t /\ e.acquiredAt = now
  <2> HIDE DEF s
  <2> QED BY <1>1, <1>2, <1>4, ClaimedEntryType, NoneAssumption
<1>6. /\ new.entries = [db.entries EXCEPT ![s] = e]
      /\ new.pending = db.pending \ {row}
      /\ new.locks = db.locks \cup {<<now, s>>}
      /\ new.claims = [db.claims EXCEPT ![t] = s]
      /\ new.ids = db.ids /\ new.counter = db.counter
      /\ new.completed = db.completed
      /\ new.failed = db.failed /\ new.watching = db.watching
  BY <1>1 DEF Claimed, Store
<1>7. new \in Store
  <2>1. <<now, s>> \in Row
    BY <1>2 DEF Row
  <2> HIDE DEF e, s
  <2> QED
    BY <1>1, <1>2, <1>5, <2>1, StoreFields DEF Store, NoEntry, Claimed, e, s
<1>8. /\ new.entries[s] = e
      /\ \A u \in Seqs : u # s => new.entries[u] = db.entries[u]
      /\ new.claims[t] = s
      /\ \A o \in Take : o # t => new.claims[o] = db.claims[o]
  BY <1>1, <1>2, <1>6, StoreFields
<1> HIDE DEF new, e, s
<1>9. RowByRow(new)
  <2> SUFFICES ASSUME NEW u \in Seqs, NEW n \in Nat
               PROVE  RowByRow(new)!(u, n)
    BY DEF RowByRow
  <2>1. RowByRow(db)!(u, n)
    BY <1>1 DEF RowByRow
  <2>2. CASE u = s
    BY <2>1, <2>2, <1>2, <1>3, <1>5, <1>6, <1>8 DEF EntryIn, NoEntry
  <2>3. CASE u # s
    BY <2>1, <2>3, <1>2, <1>6, <1>8 DEF EntryIn, NoEntry
  <2> QED BY <2>2, <2>3
<1>10. ClaimsMatchEntries(new)
  <2>1. \A u \in Seqs : new.entries[u] # NoEntry =>
          IF new.entries[u].state = "processing"
          THEN new.entries[u].acquiredAt # None /\ new.entries[u].acquiredBy # None
          ELSE new.entries[u].acquiredAt = None /\ new.entries[u].acquiredBy = None
    BY <1>1, <1>5, <1>8, NoneAssumption DEF ClaimsMatchEntries, NoEntry
  <2>2. ASSUME NEW o \in Take, NEW u \in Seqs
        PROVE  new.claims[o] = u <=> Owns(new, o, u)
    <3>1. db.claims[o] = u <=> Owns(db, o, u)
      BY <1>1 DEF ClaimsMatchEntries
    <3>2. u # None
      BY NoneAssumption, QueueAssumption DEF Seqs
    <3>3. CASE u = s
      BY <3>1, <3>3, <1>2, <1>3, <1>5, <1>8 DEF Owns, EntryIn, NoEntry
    <3>4. CASE u # s
      BY <3>1, <3>2, <3>4, <1>8 DEF Owns, EntryIn, NoEntry
    <3> QED BY <3>3, <3>4
  <2> QED BY <2>1, <2>2 DEF ClaimsMatchEntries
<1>11. IdsMatchEntries(new)
  BY <1>1, <1>2, <1>4, <1>5, <1>6, <1>8 DEF IdsMatchEntries, NoEntry
<1> QED
  BY <1>7, <1>9, <1>10, <1>11, RowsPointwise DEF Consistent, new

(***************************************************************************)
(* The recovery of expired leases.                                         *)
(***************************************************************************)
LEMMA ReleasedEntryType ==
  ASSUME NEW x \in Entry, NEW now \in Nat
  PROVE  /\ ReleasedEntry(x, now) \in Entry
         /\ ReleasedEntry(x, now).id = x.id
         /\ ReleasedEntry(x, now).attempts = x.attempts
         /\ ReleasedEntry(x, now).acquiredAt = None
         /\ ReleasedEntry(x, now).acquiredBy = None
         /\ IF x.attempts >= MaxAttempts
            THEN /\ ReleasedEntry(x, now).state = "failed"
                 /\ ReleasedEntry(x, now).updatedAt = now
            ELSE /\ ReleasedEntry(x, now).state = "pending"
                 /\ ReleasedEntry(x, now).visibleAt = now
BY DEF ReleasedEntry, Entry, States

\* Under consistency an expired lock row always describes its entry: the row
\* that is cleared and the entry that is released go together.
LEMMA LapsedRows ==
  ASSUME NEW db, db \in Store, RowByRow(db), ClaimsMatchEntries(db),
         NEW now \in Nat, NEW s \in Seqs, NEW n \in Nat
  PROVE  <<n, s>> \in IndexBefore(db.locks, now - LockExpiration)
           <=> s \in LapsedSeqs(db, now) /\ db.entries[s].acquiredAt = n
<1> DEFINE due == IndexBefore(db.locks, now - LockExpiration)
<1>1. due \subseteq db.locks /\ \A r \in due : r[1] <= now - LockExpiration
  BY IndexBeforeRows
<1>2. \A m \in Nat : <<m, s>> \in db.locks
        <=> EntryIn(db, s, "processing") /\ db.entries[s].acquiredAt = m
  BY DEF RowByRow
<1>3. \A r \in due : r[1] \in Nat /\ r[2] \in Seqs /\ r = <<r[1], r[2]>>
  BY <1>1, StoreFields DEF Row
<1> HIDE DEF due
<1>4. ASSUME <<n, s>> \in due
      PROVE  s \in LapsedSeqs(db, now) /\ db.entries[s].acquiredAt = n
  <2>1. EntryIn(db, s, "processing") /\ db.entries[s].acquiredAt = n
    BY <1>1, <1>2, <1>4
  <2>2. n <= now - LockExpiration /\ n # None
    BY <1>1, <1>4, NoneAssumption
  <2> QED BY <1>4, <2>1, <2>2 DEF LapsedSeqs, due
<1>5. ASSUME s \in LapsedSeqs(db, now), db.entries[s].acquiredAt = n
      PROVE  <<n, s>> \in due
  <2>1. PICK r \in due : r[2] = s
    BY <1>5 DEF LapsedSeqs, due
  <2>2. r = <<r[1], s>> /\ r[1] \in Nat /\ r \in db.locks
    BY <1>1, <1>3, <2>1
  <2>3. db.entries[s].acquiredAt = r[1]
    BY <1>2, <2>2
  <2> QED BY <1>5, <2>1, <2>2, <2>3
<1> QED BY <1>4, <1>5 DEF due

\* Recovery keeps the indexes consistent (repository.ts:382-433).
LEMMA RecoveredConsistent ==
  ASSUME NEW db, Consistent(db), NEW now \in Nat
  PROVE  Consistent(Recovered(db, now))
<1> DEFINE lapsed == LapsedSeqs(db, now)
           spent == {s \in lapsed : Exhausted(db, s)}
           again == lapsed \ spent
           new == Recovered(db, now)
<1>1. db \in Store /\ RowByRow(db) /\ ClaimsMatchEntries(db) /\ IdsMatchEntries(db)
  BY RowsPointwise DEF Consistent
<1>2. /\ lapsed \subseteq Seqs
      /\ \A s \in lapsed : /\ EntryIn(db, s, "processing")
                           /\ db.entries[s] \in Entry
                           /\ db.entries[s] # None
                           /\ db.entries[s].attempts \in Nat
  BY <1>1, EntryTimes DEF LapsedSeqs, EntryIn, NoEntry
<1>3. /\ new.entries = [s \in Seqs |-> IF s \in lapsed
                                      THEN ReleasedEntry(db.entries[s], now)
                                      ELSE db.entries[s]]
      /\ new.locks = db.locks \ IndexBefore(db.locks, now - LockExpiration)
      /\ new.claims = [t \in Take |-> IF \E s \in lapsed : db.entries[s].acquiredBy = t
                                      THEN None ELSE db.claims[t]]
      /\ new.failed = db.failed \cup {<<now, s>> : s \in spent}
      /\ new.pending = db.pending \cup {<<now, s>> : s \in again}
      /\ new.completed = db.completed
      /\ new.ids = db.ids /\ new.counter = db.counter
      /\ new.watching \subseteq db.watching
  BY <1>1 DEF Recovered, Store
<1>4. \A s \in lapsed : /\ new.entries[s] = ReleasedEntry(db.entries[s], now)
                        /\ new.entries[s] \in Entry
                        /\ new.entries[s] # None
                        /\ new.entries[s].id = db.entries[s].id
                        /\ new.entries[s].acquiredAt = None
                        /\ new.entries[s].acquiredBy = None
                        /\ s \in spent => /\ new.entries[s].state = "failed"
                                          /\ new.entries[s].updatedAt = now
                        /\ s \in again => /\ new.entries[s].state = "pending"
                                          /\ new.entries[s].visibleAt = now
  <2> SUFFICES ASSUME NEW s \in lapsed
               PROVE  <1>4!(s)
    OBVIOUS
  <2>1. new.entries[s] = ReleasedEntry(db.entries[s], now)
    BY <1>2, <1>3
  <2>2. /\ s \in spent => db.entries[s].attempts >= MaxAttempts
        /\ s \in again => ~(db.entries[s].attempts >= MaxAttempts)
    BY DEF Exhausted
  <2>3. db.entries[s] \in Entry
    BY <1>2
  <2> HIDE DEF new, lapsed, spent, again
  <2> QED BY <2>1, <2>2, <2>3, ReleasedEntryType, NoneAssumption
<1>5. \A s \in Seqs \ lapsed : new.entries[s] = db.entries[s]
  BY <1>3
<1>6. new \in Store
  <2>1. new.entries \in [Seqs -> Entry \cup {None}]
    <3>1. \A s \in Seqs : new.entries[s] \in Entry \cup {None}
      BY <1>1, <1>4, <1>5, StoreFields
    <3>2. DOMAIN new.entries = Seqs /\ new.entries = [s \in Seqs |-> new.entries[s]]
      BY <1>3
    <3> HIDE DEF new
    <3> QED BY <3>1, <3>2
  <2>2. new.claims \in [Take -> Seqs \cup {None}]
    BY <1>1, <1>3, StoreFields
  <2>3. /\ new.pending \subseteq Row /\ new.failed \subseteq Row
        /\ new.locks \subseteq Row
    BY <1>1, <1>2, <1>3, StoreFields DEF Row
  <2> DEFINE L == new.locks
             C == new.claims
             E == new.entries
             F == new.failed
             P == new.pending
             W == new.watching
  <2>4. new = [db EXCEPT !.locks = L, !.claims = C, !.entries = E,
                         !.failed = F, !.pending = P, !.watching = W]
    BY <1>1, <1>3 DEF Recovered, Store
  <2>5. W \subseteq Take
    BY <1>1, <1>3, StoreFields
  <2> HIDE DEF new, L, C, E, F, P, W
  <2> QED BY <1>1, <2>1, <2>2, <2>3, <2>4, <2>5, StoreFields
             DEF Store, NoEntry, L, C, E, F, P, W
<1>7. RowByRow(new)
  <2> SUFFICES ASSUME NEW u \in Seqs, NEW n \in Nat
               PROVE  RowByRow(new)!(u, n)
    BY DEF RowByRow
  <2>1. RowByRow(db)!(u, n)
    BY <1>1 DEF RowByRow
  <2>2. <<n, u>> \in IndexBefore(db.locks, now - LockExpiration)
          <=> u \in lapsed /\ db.entries[u].acquiredAt = n
    BY <1>1, LapsedRows
  <2> HIDE DEF new, lapsed
  <2>3. CASE u \in lapsed
    <3>1. u \in spent \/ u \in again
      BY <2>3
    <3> HIDE DEF spent, again
    <3>2. u \in spent => u \notin again
      BY DEF again
    <3> QED
      BY SMTT(20), <2>1, <2>2, <2>3, <3>1, <3>2, <1>2, <1>3, <1>4 DEF EntryIn, NoEntry
  <2>4. CASE u \notin lapsed
    <3>1. u \notin spent /\ u \notin again
      BY <2>4
    <3> HIDE DEF spent, again
    <3> QED
      BY <2>1, <2>2, <2>4, <3>1, <1>3, <1>5 DEF EntryIn, NoEntry
  <2> QED BY <2>3, <2>4
<1>8. ClaimsMatchEntries(new)
  <2>1. \A u \in Seqs : new.entries[u] # NoEntry =>
          IF new.entries[u].state = "processing"
          THEN new.entries[u].acquiredAt # None /\ new.entries[u].acquiredBy # None
          ELSE new.entries[u].acquiredAt = None /\ new.entries[u].acquiredBy = None
    <3> SUFFICES ASSUME NEW u \in Seqs PROVE <2>1!(u)
      OBVIOUS
    <3> HIDE DEF new, lapsed
    <3>1. CASE u \in lapsed
      BY <3>1, <1>4
    <3>2. CASE u \notin lapsed
      BY <3>2, <1>1, <1>5 DEF ClaimsMatchEntries
    <3> QED BY <3>1, <3>2
  <2>2. ASSUME NEW o \in Take, NEW u \in Seqs
        PROVE  new.claims[o] = u <=> Owns(new, o, u)
    <3>1. \A v \in Seqs : db.claims[o] = v <=> Owns(db, o, v)
      BY <1>1 DEF ClaimsMatchEntries
    <3>2. u # None /\ o # None
      BY NoneAssumption, QueueAssumption DEF Seqs
    <3>3. new.claims[o] = IF \E s \in lapsed : db.entries[s].acquiredBy = o
                          THEN None ELSE db.claims[o]
      BY <1>3
    <3> HIDE DEF new, lapsed
    <3>4. CASE u \in lapsed
      BY <3>1, <3>2, <3>3, <3>4, <1>2, <1>4 DEF Owns, EntryIn, NoEntry
    <3>5. CASE u \notin lapsed
      BY <3>1, <3>2, <3>3, <3>5, <1>2, <1>5 DEF Owns, EntryIn, NoEntry
    <3> QED BY <3>4, <3>5
  <2> QED BY <2>1, <2>2 DEF ClaimsMatchEntries
<1>9. IdsMatchEntries(new)
  <2> HIDE DEF new, lapsed
  <2>1. \A u \in Seqs : /\ new.entries[u] # NoEntry <=> db.entries[u] # NoEntry
                        /\ db.entries[u] # NoEntry => new.entries[u].id = db.entries[u].id
    BY <1>2, <1>4, <1>5 DEF NoEntry
  <2> QED BY <1>1, <1>3, <2>1 DEF IdsMatchEntries
<1> HIDE DEF new
<1> QED
  BY <1>6, <1>7, <1>8, <1>9, RowsPointwise DEF Consistent, new

(***************************************************************************)
(* The passed rows of a claim.                                             *)
(***************************************************************************)
LEMMA GivenUpType ==
  ASSUME NEW x \in Entry, NEW now \in Nat
  PROVE  /\ GivenUp(x, now) \in Entry
         /\ GivenUp(x, now).id = x.id
         /\ GivenUp(x, now).acquiredAt = x.acquiredAt
         /\ GivenUp(x, now).acquiredBy = x.acquiredBy
         /\ GivenUp(x, now).state = "failed"
         /\ GivenUp(x, now).updatedAt = now
BY DEF GivenUp, Entry, States

\* Moving and failing passed rows keeps the indexes consistent.
LEMMA PassedConsistent ==
  ASSUME NEW db, Consistent(db), NEW now \in Nat
  PROVE  Consistent(Passed(db, now))
<1> DEFINE rows  == PassedRows(db, now)
           alive == {s \in Seqs : EntryIn(db, s, "pending") /\ \E r \in rows : r[2] = s}
           late  == {s \in alive : db.entries[s].visibleAt > now}
           spent == alive \ late
           new == Passed(db, now)
<1>1. db \in Store /\ RowByRow(db) /\ ClaimsMatchEntries(db) /\ IdsMatchEntries(db)
  BY RowsPointwise DEF Consistent
<1>2. \A r \in rows : /\ r \in db.pending /\ r[1] <= now
                      /\ r[1] \in Nat /\ r[2] \in Seqs /\ r = <<r[1], r[2]>>
                      /\ EntryIn(db, r[2], "pending")
                      /\ db.entries[r[2]].visibleAt = r[1]
  <2> SUFFICES ASSUME NEW r \in rows PROVE <1>2!(r)
    OBVIOUS
  <2>1. r \in db.pending /\ r[1] <= now
    BY IndexBeforeRows DEF PassedRows
  <2>2. r[1] \in Nat /\ r[2] \in Seqs /\ r = <<r[1], r[2]>>
    BY <1>1, <2>1, StoreFields DEF Row
  <2>3. RowByRow(db)!(r[2], r[1])
    BY <1>1, <2>2 DEF RowByRow
  <2> QED BY <2>1, <2>2, <2>3
<1>3. late = {}
  BY <1>2
<1>4. \A s \in Seqs : s \in spent =>
        /\ EntryIn(db, s, "pending") /\ db.entries[s] \in Entry
        /\ db.entries[s] # None
  BY <1>1, EntryTimes DEF EntryIn, NoEntry
<1>5. \A s \in Seqs, n \in Nat :
        <<n, s>> \in rows <=> s \in spent /\ db.entries[s].visibleAt = n
  <2> SUFFICES ASSUME NEW s \in Seqs, NEW n \in Nat PROVE <1>5!(s, n)
    OBVIOUS
  <2>1. ASSUME <<n, s>> \in rows
        PROVE  s \in spent /\ db.entries[s].visibleAt = n
    BY <1>2, <1>3, <2>1
  <2>2. ASSUME s \in spent, db.entries[s].visibleAt = n
        PROVE  <<n, s>> \in rows
    <3>1. PICK r \in rows : r[2] = s
      BY <2>2
    <3> QED BY <1>2, <2>2, <3>1
  <2> QED BY <2>1, <2>2
<1>6. /\ new.entries = [s \in Seqs |-> IF s \in spent THEN GivenUp(db.entries[s], now)
                                                      ELSE db.entries[s]]
      /\ new.pending = db.pending \ rows
      /\ new.failed = db.failed \cup {<<now, s>> : s \in spent}
      /\ new.locks = db.locks /\ new.completed = db.completed
      /\ new.claims = db.claims /\ new.ids = db.ids
      /\ new.counter = db.counter /\ new.watching = db.watching
  BY <1>1, <1>3 DEF Passed, Store
<1>7. \A s \in spent : /\ new.entries[s] \in Entry
                       /\ new.entries[s] # None
                       /\ new.entries[s].id = db.entries[s].id
                       /\ new.entries[s].acquiredAt = None
                       /\ new.entries[s].acquiredBy = None
                       /\ new.entries[s].state = "failed"
                       /\ new.entries[s].updatedAt = now
  <2> SUFFICES ASSUME NEW s \in Seqs, s \in spent PROVE <1>7!(s)
    OBVIOUS
  <2>1. new.entries[s] = GivenUp(db.entries[s], now)
    BY <1>6
  <2>2. db.entries[s] \in Entry /\ db.entries[s] # None
        /\ db.entries[s].acquiredAt = None /\ db.entries[s].acquiredBy = None
    BY <1>1, <1>4 DEF ClaimsMatchEntries, EntryIn, NoEntry
  <2> HIDE DEF new, spent
  <2> QED BY <2>1, <2>2, GivenUpType, NoneAssumption
<1>8. \A s \in Seqs : s \notin spent => new.entries[s] = db.entries[s]
  BY <1>6
<1>9. new \in Store
  <2> DEFINE E == new.entries
             P == new.pending
             F == new.failed
  <2>1. E \in [Seqs -> Entry \cup {None}]
    <3>1. \A s \in Seqs : E[s] \in Entry \cup {None}
      BY <1>1, <1>7, <1>8, StoreFields
    <3>2. E = [s \in Seqs |-> E[s]]
      BY <1>6
    <3> HIDE DEF E
    <3> QED BY <3>1, <3>2
  <2>2. P \subseteq Row /\ F \subseteq Row
    BY <1>1, <1>6, StoreFields DEF Row
  <2>3. new = [db EXCEPT !.pending = P, !.entries = E, !.failed = F]
    BY <1>1, <1>6 DEF Passed, Store
  <2> HIDE DEF new, E, P, F
  <2> QED BY <1>1, <2>1, <2>2, <2>3 DEF Store, NoEntry
<1> HIDE DEF new, rows, alive, late, spent
<1>10. RowByRow(new)
  <2> SUFFICES ASSUME NEW u \in Seqs, NEW n \in Nat
               PROVE  RowByRow(new)!(u, n)
    BY DEF RowByRow
  <2>1. RowByRow(db)!(u, n)
    BY <1>1 DEF RowByRow
  <2>2. <<n, u>> \in rows <=> u \in spent /\ db.entries[u].visibleAt = n
    BY <1>5
  <2>3. CASE u \in spent
    BY <2>1, <2>2, <2>3, <1>4, <1>6, <1>7 DEF EntryIn, NoEntry
  <2>4. CASE u \notin spent
    BY <2>1, <2>2, <2>4, <1>6, <1>8 DEF EntryIn, NoEntry
  <2> QED BY <2>3, <2>4
<1>11. ClaimsMatchEntries(new)
  <2>1. ASSUME NEW u \in Seqs
        PROVE  /\ new.entries[u] # NoEntry =>
                    IF new.entries[u].state = "processing"
                    THEN new.entries[u].acquiredAt # None /\ new.entries[u].acquiredBy # None
                    ELSE new.entries[u].acquiredAt = None /\ new.entries[u].acquiredBy = None
               /\ \A o \in Take : Owns(new, o, u) <=> Owns(db, o, u)
    <3>1. CASE u \in spent
      BY <3>1, <1>4, <1>7 DEF Owns, EntryIn, NoEntry
    <3>2. CASE u \notin spent
      BY <3>2, <1>1, <1>8 DEF ClaimsMatchEntries, Owns, EntryIn, NoEntry
    <3> QED BY <3>1, <3>2
  <2> QED BY <2>1, <1>1, <1>6 DEF ClaimsMatchEntries
<1>12. IdsMatchEntries(new)
  <2>1. \A u \in Seqs : /\ new.entries[u] # NoEntry <=> db.entries[u] # NoEntry
                        /\ db.entries[u] # NoEntry => new.entries[u].id = db.entries[u].id
    BY <1>4, <1>7, <1>8 DEF NoEntry
  <2> QED BY <1>1, <1>6, <2>1 DEF IdsMatchEntries
<1> QED
  BY <1>9, <1>10, <1>11, <1>12, RowsPointwise DEF Consistent, new

(***************************************************************************)
(* The first row of a non-empty set of rows exists.                        *)
(***************************************************************************)
LEMMA NatMin ==
  ASSUME NEW T, T \subseteq Nat, T # {}
  PROVE  \E x \in T : \A y \in T : x <= y
<1> DEFINE R == OpToRel(<, Nat)
<1>1. \E x \in T : \A y \in T : ~(<<y, x>> \in R)
  BY WFMin, NatLessThanWellFounded
<1>2. \A x \in Nat, y \in Nat : y < x => <<y, x>> \in R
  BY DEF OpToRel
<1> HIDE DEF R
<1>3. PICK x \in T : \A y \in T : ~(<<y, x>> \in R)
  BY <1>1
<1>4. ASSUME NEW y \in T PROVE x <= y
  <2>1. x \in Nat /\ y \in Nat
    OBVIOUS
  <2>2. ~(y < x)
    BY <1>2, <1>3, <2>1
  <2> QED BY <2>1, <2>2
<1> QED BY <1>4

\* A non-empty set of rows has an earliest row, which First picks.
LEMMA FirstRow ==
  ASSUME NEW rows, rows \subseteq Row, rows # {}
  PROVE  /\ First(rows) \in rows
         /\ \A q \in rows \ {First(rows)} : Earlier(First(rows), q)
<1>1. \A r \in rows : r[1] \in Nat /\ r[2] \in Nat /\ r = <<r[1], r[2]>>
  BY QueueAssumption DEF Row, Seqs
<1>2. PICK n \in {r[1] : r \in rows} : \A m \in {r[1] : r \in rows} : n <= m
  BY <1>1, NatMin
<1>3. PICK s \in {r[2] : r \in {q \in rows : q[1] = n}} :
           \A u \in {r[2] : r \in {q \in rows : q[1] = n}} : s <= u
  BY <1>1, <1>2, NatMin
<1>4. PICK r \in rows : r[1] = n /\ r[2] = s
  BY <1>3
<1>5. \A q \in rows \ {r} : Earlier(r, q)
  <2> SUFFICES ASSUME NEW q \in rows, q # r PROVE Earlier(r, q)
    OBVIOUS
  <2>1. n <= q[1] /\ (q[1] = n => s <= q[2])
    BY <1>2, <1>3
  <2>2. q[1] # n \/ q[2] # s
    BY <1>1, <1>4
  <2> QED BY <1>1, <1>4, <2>1, <2>2 DEF Earlier
<1> QED BY <1>4, <1>5 DEF First

(***************************************************************************)
(* finalizeClaim                                                           *)
(***************************************************************************)
LEMMA SettledEntryType ==
  ASSUME NEW x \in Entry, NEW c \in Call
  PROVE  /\ SettledState(c) \in {"pending", "completed", "failed"}
         /\ SettledVisibleAt(c) \in Nat
         /\ SettledEntry(x, c) \in Entry
         /\ SettledEntry(x, c).id = x.id
         /\ SettledEntry(x, c).state = SettledState(c)
         /\ SettledEntry(x, c).visibleAt = SettledVisibleAt(c)
         /\ SettledEntry(x, c).acquiredAt = None
         /\ SettledEntry(x, c).acquiredBy = None
         /\ SettledEntry(x, c).updatedAt = c.now
<1>1. SettledState(c) \in {"pending", "completed", "failed"}
  BY DEF SettledState
<1>2. c.now \in Nat /\ c.delay \in Nat /\ c.attempts \in Nat
  BY DEF Call
<1>3. SettledVisibleAt(c) \in Nat
  BY <1>2 DEF SettledVisibleAt
<1> DEFINE a == IF c.exit = "interrupt" /\ x.attempts > 0
                THEN x.attempts - 1 ELSE x.attempts
           st == SettledState(c)
           v == SettledVisibleAt(c)
           n == c.now
<1>4. a \in Nat
  BY DEF Entry
<1>5. SettledEntry(x, c)
        = [x EXCEPT !.attempts = a, !.state = st, !.visibleAt = v,
                    !.acquiredAt = None, !.acquiredBy = None, !.updatedAt = n]
  BY DEF SettledEntry
<1> HIDE DEF a, st, v, n
<1>6. n \in Nat /\ st \in States /\ v \in Nat
  BY <1>1, <1>2, <1>3 DEF n, st, v, States
<1>7. /\ SettledEntry(x, c) \in Entry
      /\ SettledEntry(x, c).id = x.id
      /\ SettledEntry(x, c).state = st
      /\ SettledEntry(x, c).visibleAt = v
      /\ SettledEntry(x, c).acquiredAt = None
      /\ SettledEntry(x, c).acquiredBy = None
      /\ SettledEntry(x, c).updatedAt = n
  BY <1>4, <1>5, <1>6 DEF Entry
<1> QED BY <1>1, <1>3, <1>7 DEF st, v, n

\* Settling an entry keeps the indexes consistent (repository.ts:566-622).
LEMMA SettledConsistent ==
  ASSUME NEW db, Consistent(db), NEW t \in Take,
         NEW c \in Call, c.seq \in Seqs
  PROVE  Consistent(Settled(db, t, c))
<1>1. CASE ~Holds(db, t, c.seq)
  BY <1>1 DEF Settled
<1>2. CASE Holds(db, t, c.seq)
  <2> DEFINE new == Settled(db, t, c)
             s == c.seq
             e == SettledEntry(db.entries[s], c)
             st == SettledState(c)
             v == SettledVisibleAt(c)
  <2>1. db \in Store /\ RowByRow(db) /\ ClaimsMatchEntries(db) /\ IdsMatchEntries(db)
    BY RowsPointwise DEF Consistent
  <2>2. /\ s \in Seqs
        /\ db.entries[s] # None
        /\ db.entries[s].state = "processing"
        /\ db.entries[s].acquiredBy = t
        /\ db.entries[s].acquiredAt \in Nat
        /\ db.entries[s] \in Entry
        /\ c.now \in Nat
    BY <1>2, <2>1, EntryTimes DEF Holds, Owns, EntryIn, NoEntry, Call
  <2>3. /\ st \in {"pending", "completed", "failed"}
        /\ v \in Nat
        /\ e \in Entry /\ e # None
        /\ e.id = db.entries[s].id
        /\ e.state = st /\ e.visibleAt = v /\ e.updatedAt = c.now
        /\ e.acquiredAt = None /\ e.acquiredBy = None
    <3> HIDE DEF s
    <3> QED BY <2>2, SettledEntryType, NoneAssumption
  <2> DEFINE P == IF st = "pending" THEN db.pending \cup {<<v, s>>} ELSE db.pending
             D == IF st = "completed" THEN db.completed \cup {<<c.now, s>>} ELSE db.completed
             F == IF st = "failed" THEN db.failed \cup {<<c.now, s>>} ELSE db.failed
             L == db.locks \ {<<db.entries[s].acquiredAt, s>>}
             C == [db.claims EXCEPT ![t] = None]
             E == [db.entries EXCEPT ![s] = e]
             W == IF st = "pending" THEN {} ELSE db.watching
  <2>4. new = [db EXCEPT !.locks = L, !.claims = C, !.entries = E, !.pending = P,
                         !.completed = D, !.failed = F, !.watching = W]
    <3>1. CASE st = "pending"
      BY <1>2, <2>1, <3>1 DEF Settled, Indexed, Store
    <3>2. CASE st = "completed"
      BY <1>2, <2>1, <3>2 DEF Settled, Indexed, Store
    <3>3. CASE st = "failed"
      BY <1>2, <2>1, <3>3 DEF Settled, Indexed, Store
    <3> QED BY <2>3, <3>1, <3>2, <3>3
  <2> HIDE DEF new, e, st, v
  <2>5. /\ P \subseteq Row /\ D \subseteq Row /\ F \subseteq Row /\ L \subseteq Row
        /\ W \subseteq Take
        /\ C \in [Take -> Seqs \cup {None}]
        /\ E \in [Seqs -> Entry \cup {None}]
    BY <2>1, <2>2, <2>3, StoreFields DEF Row
  <2>6. /\ new \in Store
        /\ new.locks = L /\ new.claims = C /\ new.entries = E /\ new.pending = P
        /\ new.completed = D /\ new.failed = F
        /\ new.ids = db.ids /\ new.counter = db.counter
    <3> HIDE DEF P, D, F, L, C, E, W
    <3> QED BY <2>1, <2>4, <2>5 DEF Store, NoEntry
  <2>7. /\ new.entries[s] = e
        /\ \A u \in Seqs : u # s => new.entries[u] = db.entries[u]
        /\ new.claims[t] = None
        /\ \A o \in Take : o # t => new.claims[o] = db.claims[o]
    BY <2>1, <2>2, <2>6, StoreFields
  <2> HIDE DEF s
  <2>8. RowByRow(new)
    <3> SUFFICES ASSUME NEW u \in Seqs, NEW n \in Nat
                 PROVE  RowByRow(new)!(u, n)
      BY DEF RowByRow
    <3>1. RowByRow(db)!(u, n)
      BY <2>1 DEF RowByRow
    <3>2. CASE u = s
      BY <3>1, <3>2, <2>2, <2>3, <2>6, <2>7 DEF EntryIn, NoEntry
    <3>3. CASE u # s
      BY <3>1, <3>3, <2>2, <2>3, <2>6, <2>7 DEF EntryIn, NoEntry
    <3> QED BY <3>2, <3>3
  <2>9. ClaimsMatchEntries(new)
    <3>1. \A u \in Seqs : new.entries[u] # NoEntry =>
            IF new.entries[u].state = "processing"
            THEN new.entries[u].acquiredAt # None /\ new.entries[u].acquiredBy # None
            ELSE new.entries[u].acquiredAt = None /\ new.entries[u].acquiredBy = None
      BY <2>1, <2>3, <2>7 DEF ClaimsMatchEntries
    <3>2. ASSUME NEW o \in Take, NEW u \in Seqs
          PROVE  new.claims[o] = u <=> Owns(new, o, u)
      <4>1. /\ db.claims[o] = u <=> Owns(db, o, u)
            /\ db.claims[o] = s <=> Owns(db, o, s)
            /\ db.claims[t] = s
        BY <1>2, <2>1, <2>2 DEF ClaimsMatchEntries, Holds, s
      <4>2. u # None
        BY NoneAssumption, QueueAssumption DEF Seqs
      <4>3. CASE u = s
        BY <4>1, <4>2, <4>3, <2>2, <2>3, <2>7 DEF Owns, EntryIn, NoEntry
      <4>4. CASE u # s
        BY <4>1, <4>2, <4>4, <2>2, <2>7 DEF Owns, EntryIn, NoEntry
      <4> QED BY <4>3, <4>4
    <3> QED BY <3>1, <3>2 DEF ClaimsMatchEntries
  <2>10. IdsMatchEntries(new)
    BY <2>1, <2>2, <2>3, <2>6, <2>7 DEF IdsMatchEntries, NoEntry
  <2> QED
    BY <2>6, <2>8, <2>9, <2>10, RowsPointwise DEF Consistent, new
<1> QED BY <1>1, <1>2

(***************************************************************************)
(* cleanupState                                                            *)
(***************************************************************************)
LEMMA CleanedConsistent ==
  ASSUME NEW db, Consistent(db), NEW state \in {"completed", "failed"},
         NEW cutoff \in Int
  PROVE  Consistent(Cleaned(db, state, cutoff))
<1> DEFINE rows == IndexBefore(IndexOf(db, state), cutoff)
           gone == {s \in Seqs : /\ \E r \in rows : r[2] = s
                                 /\ EntryIn(db, s, state)
                                 /\ db.entries[s].updatedAt <= cutoff}
           new == Cleaned(db, state, cutoff)
<1>1. db \in Store /\ RowByRow(db) /\ ClaimsMatchEntries(db) /\ IdsMatchEntries(db)
  BY RowsPointwise DEF Consistent
<1>2. /\ IndexOf(db, state) \subseteq Row
      /\ \A s \in Seqs, n \in Nat : <<n, s>> \in IndexOf(db, state)
           <=> EntryIn(db, s, state) /\ db.entries[s].updatedAt = n
  BY <1>1, StoreFields DEF IndexOf, RowByRow
<1>3. \A r \in rows : /\ r \in IndexOf(db, state) /\ r[1] <= cutoff
                      /\ r[1] \in Nat /\ r[2] \in Seqs /\ r = <<r[1], r[2]>>
  BY <1>2, IndexBeforeRows DEF Row
<1> HIDE DEF rows
<1>4. \A s \in Seqs, n \in Nat :
        <<n, s>> \in rows <=> s \in gone /\ db.entries[s].updatedAt = n
  <2> SUFFICES ASSUME NEW s \in Seqs, NEW n \in Nat PROVE <1>4!(s, n)
    OBVIOUS
  <2>1. ASSUME <<n, s>> \in rows
        PROVE  s \in gone /\ db.entries[s].updatedAt = n
    BY <1>2, <1>3, <2>1
  <2>2. ASSUME s \in gone, db.entries[s].updatedAt = n
        PROVE  <<n, s>> \in rows
    <3>1. PICK r \in rows : r[2] = s
      BY <2>2
    <3>2. db.entries[s].updatedAt = r[1] /\ r = <<r[1], s>>
      BY <1>2, <1>3, <3>1
    <3> QED BY <2>2, <3>1, <3>2
  <2> QED BY <2>1, <2>2
<1>5. /\ new.entries = [s \in Seqs |-> IF s \in gone THEN NoEntry ELSE db.entries[s]]
      /\ new.ids = [i \in Id |-> IF \E s \in gone : db.entries[s].id = i
                                 THEN None ELSE db.ids[i]]
      /\ new.completed = IF state = "completed" THEN db.completed \ rows ELSE db.completed
      /\ new.failed = IF state = "failed" THEN db.failed \ rows ELSE db.failed
      /\ new.pending = db.pending /\ new.locks = db.locks
      /\ new.claims = db.claims /\ new.counter = db.counter
      /\ new.watching = db.watching
  BY <1>1 DEF Cleaned, Store, rows
<1>6. /\ \A s \in Seqs : s \in gone => /\ new.entries[s] = NoEntry
                                       /\ EntryIn(db, s, state)
      /\ \A s \in Seqs : s \notin gone => new.entries[s] = db.entries[s]
  BY <1>5
<1>7. new \in Store
  <2> DEFINE E == new.entries
             I == new.ids
             D == new.completed
             F == new.failed
  <2>1. /\ E \in [Seqs -> Entry \cup {None}]
        /\ I \in [Id -> Seqs \cup {None}]
        /\ D \subseteq Row /\ F \subseteq Row
    BY <1>1, <1>5, StoreFields DEF NoEntry
  <2>2. new = [db EXCEPT !.entries = E, !.ids = I, !.completed = D, !.failed = F]
    BY <1>1, <1>5 DEF Cleaned, Store
  <2> HIDE DEF new, E, I, D, F
  <2> QED BY <1>1, <2>1, <2>2 DEF Store, NoEntry
<1> HIDE DEF new, gone
<1>8. RowByRow(new)
  <2> SUFFICES ASSUME NEW u \in Seqs, NEW n \in Nat
               PROVE  RowByRow(new)!(u, n)
    BY DEF RowByRow
  <2>1. RowByRow(db)!(u, n)
    BY <1>1 DEF RowByRow
  <2>2. <<n, u>> \in rows <=> u \in gone /\ db.entries[u].updatedAt = n
    BY <1>4
  <2>3. CASE u \in gone
    BY <2>1, <2>2, <2>3, <1>5, <1>6 DEF EntryIn, NoEntry
  <2>4. CASE u \notin gone
    BY <2>1, <2>2, <2>4, <1>5, <1>6 DEF EntryIn, NoEntry
  <2> QED BY <2>3, <2>4
<1>9. ClaimsMatchEntries(new)
  <2>1. ASSUME NEW u \in Seqs
        PROVE  /\ new.entries[u] # NoEntry =>
                    IF new.entries[u].state = "processing"
                    THEN new.entries[u].acquiredAt # None /\ new.entries[u].acquiredBy # None
                    ELSE new.entries[u].acquiredAt = None /\ new.entries[u].acquiredBy = None
               /\ \A o \in Take : Owns(new, o, u) <=> Owns(db, o, u)
    <3>1. CASE u \in gone
      BY <3>1, <1>6 DEF Owns, EntryIn, NoEntry
    <3>2. CASE u \notin gone
      BY <3>2, <1>1, <1>6 DEF ClaimsMatchEntries, Owns, EntryIn, NoEntry
    <3> QED BY <3>1, <3>2
  <2> QED BY <2>1, <1>1, <1>5 DEF ClaimsMatchEntries
<1>10. IdsMatchEntries(new)
  <2>1. ASSUME NEW j \in Id, NEW u \in Seqs
        PROVE  new.ids[j] = u <=> new.entries[u] # NoEntry /\ new.entries[u].id = j
    <3>1. \A w \in Seqs : db.ids[j] = w <=> db.entries[w] # NoEntry /\ db.entries[w].id = j
      BY <1>1 DEF IdsMatchEntries
    <3>2. new.ids[j] = IF \E w \in gone : db.entries[w].id = j THEN None ELSE db.ids[j]
      BY <1>5
    <3>3. u # None
      BY NoneAssumption, QueueAssumption DEF Seqs
    <3>4. gone \subseteq Seqs
      BY DEF gone
    <3>5. CASE u \in gone
      BY <3>1, <3>2, <3>3, <3>5, <1>6
    <3>6. CASE u \notin gone
      BY <3>1, <3>2, <3>3, <3>4, <3>6, <1>6 DEF EntryIn
    <3> QED BY <3>5, <3>6
  <2>2. \A u \in Seqs : u >= new.counter => new.entries[u] = NoEntry
    BY <1>1, <1>5, <1>6 DEF IdsMatchEntries
  <2> QED BY <2>1, <2>2 DEF IdsMatchEntries
<1> QED
  BY <1>7, <1>8, <1>9, <1>10, RowsPointwise DEF Consistent, new

(***************************************************************************)
(* claim                                                                   *)
(***************************************************************************)
LEMMA UnwatchedConsistent ==
  ASSUME NEW db, Consistent(db), NEW t \in Take
  PROVE  Consistent(Unwatched(db, t))
<1> DEFINE W == db.watching \ {t}
           new == [db EXCEPT !.watching = W]
<1>1. W \subseteq Take
  BY StoreFields DEF Consistent
<1> HIDE DEF W
<1>2. /\ new \in Store
      /\ new.entries = db.entries /\ new.ids = db.ids /\ new.claims = db.claims
      /\ new.counter = db.counter /\ new.pending = db.pending
      /\ new.locks = db.locks /\ new.completed = db.completed
      /\ new.failed = db.failed
  BY <1>1 DEF Consistent, Store
<1> HIDE DEF new
<1>3. Consistent(new)
  BY <1>2 DEF Consistent, RowsMatchEntries, ClaimsMatchEntries, IdsMatchEntries,
              Owns, EntryIn
<1> QED BY <1>3 DEF Unwatched, new, W

\* Arming a watch touches no row.
LEMMA WatchedConsistent ==
  ASSUME NEW db, Consistent(db), NEW t \in Take
  PROVE  Consistent([db EXCEPT !.watching = @ \cup {t}])
<1> DEFINE W == db.watching \cup {t}
           new == [db EXCEPT !.watching = W]
<1>1. W \subseteq Take
  BY StoreFields DEF Consistent
<1> HIDE DEF W
<1>2. /\ new \in Store
      /\ new.entries = db.entries /\ new.ids = db.ids /\ new.claims = db.claims
      /\ new.counter = db.counter /\ new.pending = db.pending
      /\ new.locks = db.locks /\ new.completed = db.completed
      /\ new.failed = db.failed
  BY <1>1 DEF Consistent, Store
<1> HIDE DEF new
<1>3. Consistent(new)
  BY <1>2 DEF Consistent, RowsMatchEntries, ClaimsMatchEntries, IdsMatchEntries,
              Owns, EntryIn
<1> QED BY <1>3 DEF new, W

\* A claims row whose entry another take owns by now cannot exist: the row is
\* removed with the ownership it records.
LEMMA ClaimRowOwns ==
  ASSUME NEW db, Consistent(db), NEW t \in Take
  PROVE  db.claims[t] # None => db.claims[t] \in Seqs /\ Owns(db, t, db.claims[t])
BY StoreFields DEF Consistent, ClaimsMatchEntries

\* What a claim leaves and answers.
ClaimResult(db, t, r) ==
  /\ Consistent(r.db)
  /\ \A o \in Take : o # t => r.db.claims[o] \in {None, db.claims[o]}
  /\ r.result \in {"held", "again", "wait"}
  /\ r.result = "held" => r.seq \in Seqs /\ r.db.claims[t] = r.seq
  /\ r.result # "held" => r.seq = None /\ r.db.claims[t] = None

\* The whole body of claim keeps the indexes consistent, and answers what the
\* claims row of its take says (repository.ts:364-503).
LEMMA ClaimBodyConsistent ==
  ASSUME NEW db, Consistent(db), NEW t \in Take, NEW now \in Nat
  PROVE  ClaimResult(db, t, ClaimBody(db, t, now))
<1>1. CASE db.claims[t] # None
  <2>1. db.claims[t] \in Seqs /\ Owns(db, t, db.claims[t])
    BY <1>1, ClaimRowOwns
  <2>2. ClaimBody(db, t, now) = [db |-> db, result |-> "held", seq |-> db.claims[t]]
    BY <1>1, <2>1 DEF ClaimBody
  <2> QED BY <2>1, <2>2 DEF ClaimResult
<1>2. CASE db.claims[t] = None
  <2> DEFINE recovered == Recovered(db, now)
             passed == Passed(recovered, now)
             rows == ClaimableRows(recovered, now)
             won == Claimed(passed, t, First(rows), now)
             idle == [passed EXCEPT !.watching = @ \cup {t}]
  <2>1. [db EXCEPT !.claims[t] = None] = db
    BY <1>2, StoreFields DEF Consistent, Store
  <2>2. Consistent(recovered) /\ Consistent(passed)
    BY RecoveredConsistent, PassedConsistent
  <2>3. \A o \in Take : recovered.claims[o] \in {None, db.claims[o]}
    BY DEF Recovered, Consistent, Store
  <2>4. passed.claims = recovered.claims
    BY <2>2 DEF Passed, Consistent, Store
  <2>5. passed.claims[t] = None
    BY <1>2, <2>3, <2>4
  <2>6. CASE rows # {}
    <3>1. rows \subseteq recovered.pending
      BY IndexBeforeRows DEF ClaimableRows
    <3>2. First(rows) \in rows
      BY <2>2, <2>6, <3>1, FirstRow, StoreFields DEF Consistent
    <3>3. First(rows) \in passed.pending /\ First(rows)[2] \in Seqs
      <4>1. First(rows) \notin PassedRows(recovered, now)
        BY <3>2 DEF ClaimableRows, PassedRows
      <4>2. recovered.pending \ PassedRows(recovered, now) \subseteq passed.pending
        BY <2>2 DEF Passed, Consistent, Store
      <4>3. recovered.pending \subseteq Row
        BY <2>2, StoreFields DEF Consistent
      <4> HIDE DEF recovered, passed, rows
      <4> QED BY <3>1, <3>2, <4>1, <4>2, <4>3 DEF Row
    <3>4. Consistent(won)
      BY <2>2, <2>5, <3>3, ClaimedConsistent
    <3>5. won.claims = [passed.claims EXCEPT ![t] = First(rows)[2]]
      BY <2>2 DEF Claimed, Consistent, Store
    <3>6. ClaimBody(db, t, now)
            = [db |-> won, result |-> "held", seq |-> First(rows)[2]]
      BY <1>2, <2>1, <2>6 DEF ClaimBody
    <3>7. passed.claims \in [Take -> Seqs \cup {None}]
      BY <2>2, StoreFields DEF Consistent
    <3> HIDE DEF won, passed, recovered, rows
    <3> QED BY <2>3, <2>4, <3>3, <3>4, <3>5, <3>6, <3>7 DEF ClaimResult
  <2>7. CASE rows = {}
    <3>1. Consistent(idle) /\ idle.claims = passed.claims
      BY <2>2, WatchedConsistent DEF Consistent, Store
    <3>2. \/ ClaimBody(db, t, now) = [db |-> passed, result |-> "again", seq |-> None]
          \/ ClaimBody(db, t, now) = [db |-> idle, result |-> "wait", seq |-> None]
      BY <1>2, <2>1, <2>7 DEF ClaimBody
    <3> HIDE DEF idle, passed, recovered, rows
    <3> QED BY <2>2, <2>3, <2>4, <2>5, <3>1, <3>2 DEF ClaimResult
  <2> QED BY <2>6, <2>7
<1> QED BY <1>1, <1>2

(***************************************************************************)
(* The inductive invariant.  The claims row of a take that works on an     *)
(* element is gone or names that element; with the claims rows being the   *)
(* ownerships, the take owns no other element.                             *)
(***************************************************************************)
Fenced ==
  \A t \in Take : call[t].phase \in {"holding", "settling"} =>
    call[t].seq \in Seqs /\ store.claims[t] \in {None, call[t].seq}

IInv == TypeOK /\ IndexesConsistent /\ Fenced

\* What the inductive invariant says of the variables one by one.
LEMMA IInvFields ==
  ASSUME IInv
  PROVE  /\ Consistent(store)
         /\ call \in [Take -> Call]
         /\ clock \in Nat
         /\ delivered \subseteq Seqs
         /\ Fenced
         /\ \A t \in Take : call[t] \in Call /\ call[t].now \in Nat
BY DEF IInv, TypeOK, IndexesConsistent, Consistent, Call

\* The inductive invariant holds of an empty queue.
LEMMA IInvInit == Init => IInv
<1> SUFFICES ASSUME Init PROVE IInv
  OBVIOUS
<1>1. store \in Store
  BY QueueAssumption DEF Init, Store
<1>2. Idle \in Call
  BY DEF Idle, Call, Phases
<1>3. TypeOK
  BY <1>1, <1>2 DEF Init, TypeOK
<1>4. \A s \in Seqs : store.entries[s] = NoEntry
  BY DEF Init
<1>5. RowsMatchEntries(store)
  BY <1>4 DEF Init, RowsMatchEntries, EntryIn
<1>6. ClaimsMatchEntries(store) /\ IdsMatchEntries(store)
  BY <1>4, NoneAssumption, QueueAssumption
     DEF Init, ClaimsMatchEntries, IdsMatchEntries, Owns, EntryIn, Seqs
<1>7. Fenced
  BY DEF Init, Fenced, Idle
<1> QED BY <1>3, <1>5, <1>6, <1>7 DEF IInv, IndexesConsistent

\* A step that only changes rows, and no claims row but to remove it.
LEMMA StoreStep ==
  ASSUME IInv, Consistent(store'), UNCHANGED <<call, clock, delivered>>,
         \A t \in Take : store'.claims[t] \in {None, store.claims[t]}
  PROVE  IInv'
<1>1. TypeOK' /\ IndexesConsistent'
  BY IInvFields DEF Consistent, TypeOK, IndexesConsistent
<1>2. Fenced'
  BY IInvFields DEF Fenced
<1> QED BY <1>1, <1>2 DEF IInv

\* A step of take t that leaves the other takes alone.
LEMMA CallStep ==
  ASSUME IInv, Consistent(store'), NEW t \in Take, NEW c \in Call,
         call' = [call EXCEPT ![t] = c],
         clock' = clock, delivered' \subseteq Seqs,
         \A o \in Take : o # t => store'.claims[o] \in {None, store.claims[o]},
         c.phase \in {"holding", "settling"}
           => c.seq \in Seqs /\ store'.claims[t] \in {None, c.seq}
  PROVE  IInv'
<1>1. call' \in [Take -> Call]
  BY IInvFields
<1>2. TypeOK' /\ IndexesConsistent'
  BY <1>1, IInvFields DEF Consistent, TypeOK, IndexesConsistent
<1>3. ASSUME NEW o \in Take, call'[o].phase \in {"holding", "settling"}
      PROVE  call'[o].seq \in Seqs /\ store'.claims[o] \in {None, call'[o].seq}
  <2>1. CASE o = t
    BY <1>3, <2>1, IInvFields
  <2>2. CASE o # t
    BY <1>3, <2>2, IInvFields DEF Fenced
  <2> QED BY <2>1, <2>2
<1>4. Fenced'
  BY <1>3 DEF Fenced
<1> QED BY <1>2, <1>4 DEF IInv

\* An idle call is a call.
LEMMA IdleIsCall == Idle \in Call /\ Idle.phase \notin {"holding", "settling"}
BY DEF Idle, Call, Phases

\* A committed claim, answered or not, preserves the inductive invariant.
LEMMA ClaimStep ==
  ASSUME IInv, NEW t \in Take, NEW c \in Call,
         call' = [call EXCEPT ![t] = c], clock' = clock, delivered' = delivered,
         store' = Unwatched(ClaimBody(store, t, call[t].now).db, t),
         c.phase \notin {"holding", "settling"}
  PROVE  IInv'
<1> DEFINE r == ClaimBody(store, t, call[t].now)
<1>1. ClaimResult(store, t, r)
  BY IInvFields, ClaimBodyConsistent
<1> HIDE DEF r
<1>2. Consistent(Unwatched(r.db, t)) /\ Unwatched(r.db, t).claims = r.db.claims
  BY <1>1, UnwatchedConsistent DEF ClaimResult, Unwatched, Consistent, Store
<1>3. store' = Unwatched(r.db, t)
  BY DEF r
<1> QED BY <1>1, <1>2, <1>3, IInvFields, CallStep DEF ClaimResult

\* Every step preserves the inductive invariant.
LEMMA IInvNext == IInv /\ [Next]_vars => IInv'
<1> SUFFICES ASSUME IInv, [Next]_vars PROVE IInv'
  OBVIOUS
<1> USE IInvFields
<1>1. CASE UNCHANGED vars
  BY <1>1 DEF vars, IInv, TypeOK, IndexesConsistent, Fenced
<1>2. ASSUME NEW i \in Id, Offer(i) PROVE IInv'
  <2>1. PICK now \in 0 .. clock :
          store.counter < MaxSeq /\ store' = Offered(store, i, now)
    BY <1>2 DEF Offer
  <2>2. Consistent(store')
    BY <2>1, OfferedConsistent
  <2>3. store'.claims = store.claims
    BY <2>1 DEF Offered, Consistent, Store
  <2> QED BY <1>2, <2>2, <2>3, StoreStep DEF Offer
<1>3. ASSUME NEW t \in Take, TakeBegins(t) PROVE IInv'
  <2> DEFINE c == [call[t] EXCEPT !.phase = "looking"]
  <2>1. c \in Call /\ c.phase = "looking"
    BY DEF Call, Phases
  <2>2. call' = [call EXCEPT ![t] = c]
    BY <1>3 DEF TakeBegins
  <2> QED BY <1>3, <2>1, <2>2, CallStep DEF TakeBegins
<1>4. ASSUME NEW t \in Take, ClaimBegins(t) PROVE IInv'
  <2> DEFINE c == [call[t] EXCEPT !.phase = "claiming", !.now = clock]
  <2>1. c \in Call /\ c.phase = "claiming"
    BY DEF Call, Phases
  <2>2. call' = [call EXCEPT ![t] = c]
    BY <1>4 DEF ClaimBegins
  <2> QED BY <1>4, <2>1, <2>2, CallStep DEF ClaimBegins
<1>5. ASSUME NEW t \in Take, ClaimCommits(t) PROVE IInv'
  <2> DEFINE r == ClaimBody(store, t, call[t].now)
             a == IF r.result = "held" THEN r.db.entries[r.seq].attempts ELSE 0
             p == NextPhase[r.result]
             q == r.seq
             c == [call[t] EXCEPT !.phase = p, !.seq = q, !.attempts = a]
  <2>1. ClaimResult(store, t, r)
    BY ClaimBodyConsistent
  <2>2. /\ store' = r.db
        /\ call' = [call EXCEPT ![t] = c]
        /\ delivered' = delivered \cup {s \in Seqs : s = r.seq}
        /\ clock' = clock
    BY <1>5 DEF ClaimCommits
  <2> HIDE DEF r
  <2>3. a \in Nat
    <3>1. CASE r.result = "held"
      <4>1. Owns(r.db, t, r.seq)
        BY <2>1, <3>1 DEF ClaimResult, Consistent, ClaimsMatchEntries
      <4> QED BY <2>1, <3>1, <4>1, EntryTimes
              DEF ClaimResult, Consistent, Owns, EntryIn, NoEntry
    <3> QED BY <3>1
  <2>4. /\ p \in {"holding", "looking", "waiting"}
        /\ p = "holding" => r.result = "held"
        /\ q \in Seqs \cup {None}
    BY <2>1 DEF ClaimResult, NextPhase
  <2> HIDE DEF a, p, q
  <2>5. c \in Call /\ c.phase = p /\ c.seq = q
    BY <2>3, <2>4 DEF Call, Phases
  <2>6. c.phase \in {"holding", "settling"}
          => c.seq \in Seqs /\ store'.claims[t] \in {None, c.seq}
    BY <2>1, <2>2, <2>4, <2>5 DEF ClaimResult, q
  <2> HIDE DEF c
  <2> QED BY <2>1, <2>2, <2>5, <2>6, CallStep DEF ClaimResult
<1>6. ASSUME NEW t \in Take, ClaimUnknown(t) PROVE IInv'
  <2>1. call' = [call EXCEPT ![t] = call[t]]
    BY <1>6 DEF ClaimUnknown
  <2>2. call[t].phase \notin {"holding", "settling"}
    BY <1>6 DEF ClaimUnknown
  <2> QED BY <1>6, <2>1, <2>2, ClaimStep DEF ClaimUnknown
<1>7. ASSUME NEW t \in Take, TakeAborts(t) PROVE IInv'
  <2> DEFINE c == IF call[t].phase = "claiming"
                  THEN [Idle EXCEPT !.phase = "abandoned", !.now = call[t].now]
                  ELSE Idle
  <2>1. c \in Call /\ c.phase \notin {"holding", "settling"}
    BY DEF Idle, Call, Phases
  <2>2. call' = [call EXCEPT ![t] = c]
    BY <1>7 DEF TakeAborts
  <2>3. Consistent(store') /\ store'.claims = store.claims
    BY <1>7, UnwatchedConsistent DEF TakeAborts, Unwatched, Consistent, Store
  <2> HIDE DEF c
  <2> QED BY <1>7, <2>1, <2>2, <2>3, CallStep DEF TakeAborts
<1>8. ASSUME NEW t \in Take, AbandonedLands(t) PROVE IInv'
  BY <1>8, IdleIsCall, ClaimStep DEF AbandonedLands
<1>9. ASSUME NEW t \in Take, AbandonedIsLost(t) PROVE IInv'
  BY <1>9, IdleIsCall, CallStep DEF AbandonedIsLost
<1>10. ASSUME NEW t \in Take, WatchWakes(t) PROVE IInv'
  <2> DEFINE c == [call[t] EXCEPT !.phase = "looking"]
  <2>1. c \in Call /\ c.phase = "looking"
    BY DEF Call, Phases
  <2>2. call' = [call EXCEPT ![t] = c]
    BY <1>10 DEF WatchWakes
  <2> QED BY <1>10, <2>1, <2>2, CallStep DEF WatchWakes
<1>11. ASSUME NEW t \in Take, LatchOrPollWakes(t) PROVE IInv'
  <2> DEFINE c == [call[t] EXCEPT !.phase = "looking"]
  <2>1. c \in Call /\ c.phase = "looking"
    BY DEF Call, Phases
  <2>2. call' = [call EXCEPT ![t] = c]
    BY <1>11 DEF LatchOrPollWakes
  <2>3. Consistent(store') /\ store'.claims = store.claims
    BY <1>11, UnwatchedConsistent DEF LatchOrPollWakes, Unwatched, Consistent, Store
  <2> QED BY <1>11, <2>1, <2>2, <2>3, CallStep DEF LatchOrPollWakes
<1>12. ASSUME NEW t \in Take, Refresh(t) PROVE IInv'
  <2>1. PICK now \in 0 .. clock : store' = Refreshed(store, t, call[t].seq, now)
    BY <1>12 DEF Refresh
  <2>2. call[t].seq \in Seqs
    BY <1>12 DEF Refresh, Fenced
  <2>3. Consistent(store')
    BY <2>1, <2>2, RefreshedConsistent
  <2>4. store'.claims = store.claims
    BY <2>1 DEF Refreshed, Consistent, Store
  <2> QED BY <1>12, <2>3, <2>4, StoreStep DEF Refresh
<1>13. ASSUME NEW t \in Take, SettleBegins(t) PROVE IInv'
  <2>1. PICK exit \in Exits, delay \in RetryDelays :
          call' = [call EXCEPT ![t].phase = "settling", ![t].now = clock,
                               ![t].exit = exit,
                               ![t].delay = IF exit = "failure" THEN delay ELSE 0]
    BY <1>13 DEF SettleBegins
  <2> DEFINE d == IF exit = "failure" THEN delay ELSE 0
             c == [call[t] EXCEPT !.phase = "settling", !.now = clock,
                                  !.exit = exit, !.delay = d]
  <2>2. d \in Nat
    BY QueueAssumption
  <2>3. call' = [call EXCEPT ![t] = c]
    BY <2>1
  <2> HIDE DEF d
  <2>4. c \in Call /\ c.seq = call[t].seq
    BY <2>2 DEF Call, Phases
  <2>5. call[t].seq \in Seqs /\ store.claims[t] \in {None, call[t].seq}
    BY <1>13 DEF SettleBegins, Fenced
  <2> HIDE DEF c
  <2> QED BY <1>13, <2>3, <2>4, <2>5, CallStep DEF SettleBegins
<1>14. ASSUME NEW t \in Take, call[t].phase = "settling",
              store' = Settled(store, t, call[t])
       PROVE  /\ Consistent(store')
              /\ \A o \in Take : store'.claims[o] \in {None, store.claims[o]}
  <2>1. call[t].seq \in Seqs
    BY <1>14 DEF Fenced
  <2>2. Consistent(store')
    BY <1>14, <2>1, SettledConsistent
  <2>3. SettledState(call[t]) \in {"pending", "completed", "failed"}
    BY DEF SettledState
  <2>4. store'.claims \in {store.claims, [store.claims EXCEPT ![t] = None]}
    BY <1>14, <2>3 DEF Settled, Indexed, Consistent, Store
  <2> QED BY <2>2, <2>4, StoreFields DEF Consistent
<1>15. ASSUME NEW t \in Take, SettleCommits(t) PROVE IInv'
  BY <1>14, <1>15, IdleIsCall, CallStep DEF SettleCommits
<1>16. ASSUME NEW t \in Take, SettleUnknown(t) PROVE IInv'
  BY <1>14, <1>16, StoreStep DEF SettleUnknown
<1>17. ASSUME NEW t \in Take, HolderDies(t) PROVE IInv'
  BY <1>17, IdleIsCall, CallStep DEF HolderDies
<1>18. ASSUME NEW state \in {"completed", "failed"}, Cleanup(state) PROVE IInv'
  <2>1. PICK now \in 0 .. clock : store' = Cleaned(store, state, now - TimeToLive)
    BY <1>18 DEF Cleanup
  <2>2. now - TimeToLive \in Int
    BY QueueAssumption
  <2>3. Consistent(store')
    BY <2>1, <2>2, CleanedConsistent
  <2>4. store'.claims = store.claims
    BY <2>1 DEF Cleaned, Consistent, Store
  <2> QED BY <1>18, <2>3, <2>4, StoreStep DEF Cleanup
<1>19. ASSUME Tick PROVE IInv'
  BY <1>19 DEF Tick, IInv, TypeOK, IndexesConsistent, Fenced
<1> QED
  BY <1>1, <1>2, <1>3, <1>4, <1>5, <1>6, <1>7, <1>8, <1>9, <1>10, <1>11, <1>12,
     <1>13, <1>15, <1>16, <1>17, <1>18, <1>19 DEF Next, TakeStep

(***************************************************************************)
(* The theorems.                                                           *)
(***************************************************************************)

\* The inductive invariant: the indexes agree with the entries, and the claims
\* row of a take that works on an element names that element or nothing
\* (repository.ts:370-381, the look-up of the claims row).
THEOREM Invariance == Spec => []IInv
BY IInvInit, IInvNext, PTL DEF Spec

\* Every state is well typed: a retry delay, a refresh or a recovery never
\* writes a row outside the queue's key space (repository.ts, every pack).
THEOREM TypeCorrect == Spec => []TypeOK
BY Invariance, PTL DEF IInv

\* After any interleaving of offers, claims, recoveries, refreshes, settlements,
\* retries and cleanups the indexes, the claims rows and the identifiers say
\* exactly what the entries say (repository.ts:308-684).
THEOREM IndexesStayConsistent == Spec => []IndexesConsistent
BY Invariance, PTL DEF IInv

\* A take owns no element but the one it was answered, whatever its claim
\* committed before (repository.ts:370-377, the claims row).
THEOREM TakesAreFenced == Spec => []HoldsOnlyItsElement
<1>1. IInv => HoldsOnlyItsElement
  <2> SUFFICES ASSUME IInv, NEW t \in Take, NEW s \in Seqs,
                      call[t].phase \in {"holding", "settling"}, Owns(store, t, s)
               PROVE  s = call[t].seq
    BY DEF HoldsOnlyItsElement
  <2>1. store.claims[t] = s
    BY IInvFields DEF Consistent, ClaimsMatchEntries
  <2>2. s # None
    BY NoneAssumption, QueueAssumption DEF Seqs
  <2> QED BY <2>1, <2>2, IInvFields DEF Fenced
<1> QED BY <1>1, Invariance, PTL

-----------------------------------------------------------------------------
(* Attempts                                                                 *)


\* Attempts of the entries that a take has or may get.
AttemptsBounded(db) ==
  \A s \in Seqs :
    /\ EntryIn(db, s, "pending") => db.entries[s].attempts < MaxAttempts
    /\ EntryIn(db, s, "processing") => db.entries[s].attempts <= MaxAttempts

\* A take counts the attempts of the element it owns.
AttemptsAgree ==
  \A t \in Take :
    call[t].phase \in {"holding", "settling"} /\ Owns(store, t, call[t].seq) =>
      store.entries[call[t].seq].attempts = call[t].attempts

Timely == \A t \in Take : call[t].now <= clock

\* With IInv, an inductive invariant.
AInv == AttemptsBounded(store) /\ AttemptsAgree /\ Timely

-----------------------------------------------------------------------------
(* What may become of an entry                                             *)

Lapses(db, s, now) ==
  /\ EntryIn(db, s, "processing") /\ db.entries[s].acquiredAt # None
  /\ db.entries[s].acquiredAt + LockExpiration <= now

\* e, which nobody else owns any more, becomes n: t's next attempt.
Attempted(e, n, t) ==
  /\ n \in Entry /\ n.id = e.id /\ n.state = "processing"
  /\ n.acquiredBy = t /\ e.acquiredBy # t
  /\ n.attempts = e.attempts + 1 /\ e.attempts < MaxAttempts

ClaimChange(db, s, t, now, n) ==
  \/ n = db.entries[s]
  \/ Lapses(db, s, now) /\ n = ReleasedEntry(db.entries[s], now)
  \/ /\ EntryIn(db, s, "pending") \/ Lapses(db, s, now)
     /\ Attempted(db.entries[s], n, t)

\* e has its lease extended.
Extended(e, n) == n \in Entry /\ n.id = e.id /\ n.state = e.state
                  /\ n.attempts = e.attempts /\ n.acquiredBy = e.acquiredBy

\* Entry s of a step; t is the take that claims, if one does.
Change(t, s) ==
  LET e == store.entries[s]
      n == store'.entries[s]
  IN  \/ /\ e = None
         /\ \E i \in Id, now \in Nat : store.ids[i] = None /\ n = NewEntry(i, now)
      \/ /\ t \in Take /\ call[t].phase \in {"claiming", "abandoned"}
         /\ ClaimChange(store, s, t, call[t].now, n)
      \/ EntryIn(store, s, "processing") /\ Extended(e, n)
      \/ \E u \in Take : /\ call[u].phase = "settling" /\ call[u].seq = s
                         /\ Owns(store, u, s) /\ n = SettledEntry(e, call[u])
      \/ /\ EntryIn(store, s, "completed") \/ EntryIn(store, s, "failed")
         /\ n = None /\ e.updatedAt + TimeToLive <= clock
      \/ n = e

-----------------------------------------------------------------------------
(* The entries a claim leaves                                              *)

LEMMA RecoveredEntry ==
  ASSUME NEW db, Consistent(db), NEW now \in Nat, NEW s \in Seqs
  PROVE  \/ Recovered(db, now).entries[s] = db.entries[s]
         \/ Lapses(db, s, now) /\ Recovered(db, now).entries[s] = ReleasedEntry(db.entries[s], now)
<1>1. Recovered(db, now).entries[s] =
        IF s \in LapsedSeqs(db, now) THEN ReleasedEntry(db.entries[s], now) ELSE db.entries[s]
  BY DEF Recovered, Consistent, Store
<1>2. ASSUME s \in LapsedSeqs(db, now) PROVE Lapses(db, s, now)
  <2>1. /\ EntryIn(db, s, "processing") /\ db.entries[s].acquiredAt # None
        /\ db.entries[s].acquiredAt <= now - LockExpiration
    BY <1>2 DEF LapsedSeqs
  <2>2. db.entries[s].acquiredAt \in Nat
    BY <2>1, EntryTimes DEF Consistent, EntryIn, NoEntry
  <2> QED BY <2>1, <2>2, QueueAssumption DEF Lapses
<1> QED BY <1>1, <1>2

LEMMA RecoveredBounded ==
  ASSUME NEW db, Consistent(db), AttemptsBounded(db), NEW now \in Nat
  PROVE  AttemptsBounded(Recovered(db, now))
<1> DEFINE new == Recovered(db, now)
<1> SUFFICES ASSUME NEW s \in Seqs
             PROVE  /\ EntryIn(new, s, "pending") => new.entries[s].attempts < MaxAttempts
                    /\ EntryIn(new, s, "processing") => new.entries[s].attempts <= MaxAttempts
  BY DEF AttemptsBounded
<1>1. \/ new.entries[s] = db.entries[s]
      \/ Lapses(db, s, now) /\ new.entries[s] = ReleasedEntry(db.entries[s], now)
  BY RecoveredEntry
<1> HIDE DEF new
<1>2. CASE new.entries[s] = db.entries[s]
  BY <1>2 DEF AttemptsBounded, EntryIn
<1>3. CASE Lapses(db, s, now) /\ new.entries[s] = ReleasedEntry(db.entries[s], now)
  <2>1. db.entries[s] \in Entry /\ db.entries[s].attempts \in Nat
    BY <1>3, EntryTimes DEF Lapses, EntryIn, NoEntry, Consistent
  <2>2. /\ new.entries[s].attempts = db.entries[s].attempts
        /\ IF db.entries[s].attempts >= MaxAttempts
           THEN new.entries[s].state = "failed" ELSE new.entries[s].state = "pending"
    BY SMTT(20), <1>3, <2>1, ReleasedEntryType
  <2>3. MaxAttempts \in Nat
    BY QueueAssumption
  <2> QED BY <2>1, <2>2, <2>3 DEF EntryIn
<1> QED BY <1>1, <1>2, <1>3

\* Nothing is given up in the second half: what is due is exhausted, late or
\* claimable.
LEMMA PassedEntry ==
  ASSUME NEW db, Consistent(db), AttemptsBounded(db), NEW now \in Nat, NEW s \in Seqs
  PROVE  Passed(db, now).entries[s] = db.entries[s]
<1> DEFINE alive == {u \in Seqs : EntryIn(db, u, "pending")
                                  /\ \E r \in PassedRows(db, now) : r[2] = u}
           spent == alive \ {u \in alive : db.entries[u].visibleAt > now}
<1>1. Passed(db, now).entries[s] =
        IF s \in spent THEN GivenUp(db.entries[s], now) ELSE db.entries[s]
  BY DEF Passed, Consistent, Store
<1>2. ASSUME s \in spent PROVE FALSE
  <2>1. EntryIn(db, s, "pending") /\ ~(db.entries[s].visibleAt > now)
    BY <1>2
  <2>2. ~Claimable(db, s, now)
    BY <1>2 DEF PassedRows
  <2>3. /\ db.entries[s].visibleAt \in Nat /\ db.entries[s].attempts \in Nat
        /\ db.entries[s].attempts < MaxAttempts
    BY <2>1, EntryTimes DEF AttemptsBounded, EntryIn, NoEntry, Consistent
  <2> QED BY <2>1, <2>2, <2>3, QueueAssumption DEF Claimable, Exhausted
<1> HIDE DEF spent
<1> QED BY <1>1, <1>2

\* A claim releases what lapsed and makes at most one attempt.
LEMMA ClaimEntries ==
  ASSUME NEW db, Consistent(db), AttemptsBounded(db),
         NEW t \in Take, NEW now \in Nat
  PROVE  LET r == ClaimBody(db, t, now)
         IN  /\ r.db.ids = db.ids
             /\ \A s \in Seqs :
                  /\ ClaimChange(db, s, t, now, r.db.entries[s])
                  /\ Owns(r.db, t, s) => Owns(db, t, s) \/ s = r.seq
<1> DEFINE r == ClaimBody(db, t, now)
<1>1. CASE db.claims[t] # None
  <2>1. r.db = db
    BY <1>1, ClaimRowOwns DEF ClaimBody
  <2> QED BY <2>1 DEF ClaimChange
<1>2. CASE db.claims[t] = None
  <2> DEFINE recovered == Recovered(db, now)
             passed == Passed(recovered, now)
             rows == ClaimableRows(recovered, now)
             row == First(rows)
             won == Claimed(passed, t, row, now)
             idle == [passed EXCEPT !.watching = @ \cup {t}]
  <2>1. [db EXCEPT !.claims[t] = None] = db
    BY <1>2, StoreFields DEF Consistent, Store
  <2>2. /\ Consistent(recovered) /\ AttemptsBounded(recovered) /\ Consistent(passed)
        /\ passed.ids = db.ids
    <3>1. Consistent(recovered) /\ AttemptsBounded(recovered) /\ Consistent(passed)
      BY RecoveredConsistent, PassedConsistent, RecoveredBounded
    <3>2. recovered.ids = db.ids
      BY DEF Recovered, Consistent, Store
    <3>3. passed.ids = recovered.ids
      BY <3>1 DEF Passed, Consistent, Store
    <3> QED BY <3>1, <3>2, <3>3
  <2>3. \A s \in Seqs : passed.entries[s] = recovered.entries[s]
    BY <2>2, PassedEntry
  <2>4. ASSUME NEW s \in Seqs
        PROVE  /\ \/ passed.entries[s] = db.entries[s]
                  \/ /\ Lapses(db, s, now)
                     /\ passed.entries[s] = ReleasedEntry(db.entries[s], now)
               /\ ClaimChange(db, s, t, now, passed.entries[s])
    BY <2>3, RecoveredEntry DEF ClaimChange
  <2>5. ASSUME NEW s \in Seqs PROVE ~Owns(db, t, s) /\ ~Owns(passed, t, s)
    <3>1. ~Owns(db, t, s)
      BY <1>2, NoneAssumption DEF Consistent, ClaimsMatchEntries, Seqs
    <3>2. CASE passed.entries[s] = db.entries[s]
      BY <3>1, <3>2 DEF Owns, EntryIn
    <3>3. CASE Lapses(db, s, now) /\ passed.entries[s] = ReleasedEntry(db.entries[s], now)
      <4>1. db.entries[s] \in Entry
        BY <3>3, EntryTimes DEF Lapses, EntryIn, NoEntry, Consistent
      <4>2. ~Owns(passed, t, s)
        BY <3>3, <4>1, ReleasedEntryType DEF Owns, EntryIn
      <4> QED BY <3>1, <4>2
    <3> QED BY <2>4, <3>2, <3>3
  <2>6. CASE rows # {}
    <3>1. rows \subseteq recovered.pending
      BY IndexBeforeRows DEF ClaimableRows
    <3>2. row \in rows
      BY <2>2, <2>6, <3>1, FirstRow, StoreFields DEF Consistent
    <3>3. row[2] \in Seqs /\ Claimable(recovered, row[2], now)
      <4>1. row \in Row
        BY <2>2, <3>1, <3>2, StoreFields DEF Consistent
      <4>2. row[2] \in Seqs
        BY <4>1 DEF Row
      <4> QED BY <3>2, <4>2 DEF ClaimableRows
    <3>4. r = [db |-> won, result |-> "held", seq |-> row[2]]
      BY <1>2, <2>1, <2>6 DEF ClaimBody
    <3>5. /\ won.ids = passed.ids
          /\ \A s \in Seqs : won.entries[s] =
               IF s = row[2] THEN ClaimedEntry(passed.entries[s], t, now) ELSE passed.entries[s]
      BY <2>2, <3>3 DEF Claimed, Consistent, Store
    <3>6. ClaimChange(db, row[2], t, now, won.entries[row[2]])
      <4> DEFINE s == row[2]
                 e == db.entries[s]
                 x == passed.entries[s]
      <4>1. /\ s \in Seqs /\ EntryIn(passed, s, "pending") /\ x = recovered.entries[s]
            /\ x \in Entry /\ x.attempts \in Nat /\ x.attempts < MaxAttempts
        <5>1. s \in Seqs /\ EntryIn(passed, s, "pending") /\ x = recovered.entries[s]
          BY <2>3, <3>3 DEF Claimable, EntryIn
        <5>2. x \in Entry /\ x.attempts \in Nat
          BY <2>2, <5>1, EntryTimes DEF EntryIn, NoEntry, Consistent
        <5> QED BY <2>2, <5>1, <5>2 DEF AttemptsBounded, EntryIn
      <4>2. x = e \/ (Lapses(db, s, now) /\ x = ReleasedEntry(e, now))
        BY <2>4, <4>1
      <4>3. /\ x.id = e.id /\ x.attempts = e.attempts
            /\ EntryIn(db, s, "pending") \/ Lapses(db, s, now)
        <5>1. CASE x = e
          BY <4>1, <5>1 DEF EntryIn
        <5>2. CASE Lapses(db, s, now) /\ x = ReleasedEntry(e, now)
          <6>1. e \in Entry
            BY <4>1, <5>2, EntryTimes DEF Lapses, EntryIn, NoEntry, Consistent
          <6> QED BY <5>2, <6>1, ReleasedEntryType
        <5> QED BY <4>2, <5>1, <5>2
      <4>4. ClaimedEntry(x, t, now).attempts = x.attempts + 1
        BY <4>1 DEF ClaimedEntry, Entry
      <4>5. won.entries[s] = ClaimedEntry(x, t, now)
        BY <3>5, <4>1
      <4>6. e.acquiredBy # t
        BY <2>5, <4>1, <4>3, NoneAssumption
           DEF Owns, Lapses, EntryIn, Consistent, ClaimsMatchEntries
      <4> HIDE DEF s, e, x, won, passed, recovered
      <4>7. Attempted(e, won.entries[s], t)
        BY SMTT(20), <4>1, <4>3, <4>4, <4>5, <4>6, ClaimedEntryType DEF Attempted
      <4> QED BY <4>3, <4>7 DEF ClaimChange, s, e
    <3> HIDE DEF r, won, passed, recovered, rows, row
    <3>7. \A s \in Seqs : ClaimChange(db, s, t, now, won.entries[s])
      BY <2>4, <3>5, <3>6
    <3>8. \A s \in Seqs : Owns(won, t, s) => s = row[2]
      BY <2>5, <3>5 DEF Owns, EntryIn
    <3> QED BY <2>2, <3>4, <3>5, <3>7, <3>8 DEF r
  <2>7. CASE rows = {}
    <3>1. /\ idle.ids = passed.ids /\ idle.entries = passed.entries
      BY <2>2 DEF Consistent, Store
    <3>2. r.db = passed \/ r.db = idle
      BY <1>2, <2>1, <2>7 DEF ClaimBody
    <3> HIDE DEF r, idle, passed, recovered, rows
    <3>3. r.db.ids = passed.ids /\ r.db.entries = passed.entries
      BY <3>1, <3>2
    <3>4. \A s \in Seqs : ~Owns(r.db, t, s)
      BY <2>5, <3>3 DEF Owns, EntryIn
    <3> QED BY <2>2, <2>4, <3>3, <3>4 DEF r
  <2> QED BY <2>6, <2>7
<1> QED BY <1>1, <1>2

-----------------------------------------------------------------------------
(* The entries a step leaves                                               *)

LEMMA UnwatchedEntries ==
  ASSUME NEW db \in Store, NEW t
  PROVE  Unwatched(db, t).entries = db.entries /\ Unwatched(db, t).ids = db.ids
BY DEF Unwatched, Store

LEMMA OfferedEntries ==
  ASSUME NEW db, Consistent(db), db.counter < MaxSeq, NEW i \in Id, NEW now \in Nat, NEW s \in Seqs
  PROVE  \/ Offered(db, i, now).entries[s] = db.entries[s]
         \/ /\ db.entries[s] = None /\ s = db.counter /\ db.ids[i] = None
            /\ Offered(db, i, now).entries[s] = NewEntry(i, now)
<1>1. Offered(db, i, now).entries[s] \in
        {db.entries[s], IF s = db.counter THEN NewEntry(i, now) ELSE db.entries[s]}
  BY DEF Offered, Consistent, Store
<1>2. db.ids[i] # None => Offered(db, i, now) = db
  BY DEF Offered
<1>3. s = db.counter => db.entries[s] = None
  BY StoreFields, QueueAssumption DEF Consistent, IdsMatchEntries, NoEntry, Seqs
<1> QED BY <1>1, <1>2, <1>3

LEMMA SettledEntries ==
  ASSUME NEW db, Consistent(db), NEW t \in Take, NEW c \in Call, c.seq \in Seqs, NEW s \in Seqs
  PROVE  \/ Settled(db, t, c).entries[s] = db.entries[s]
         \/ /\ s = c.seq /\ Owns(db, t, s)
            /\ Settled(db, t, c).entries[s] = SettledEntry(db.entries[s], c)
<1>1. CASE Holds(db, t, c.seq)
  <2>1. SettledState(c) \in {"pending", "completed", "failed"}
    BY DEF SettledState
  <2>2. Settled(db, t, c).entries = [db.entries EXCEPT ![c.seq] = SettledEntry(@, c)]
    BY <1>1, <2>1 DEF Settled, Indexed, Consistent, Store
  <2>3. db.entries \in [Seqs -> Entry \cup {None}]
    BY StoreFields DEF Consistent
  <2> QED BY <1>1, <2>2, <2>3 DEF Holds
<1>2. CASE ~Holds(db, t, c.seq)
  BY <1>2 DEF Settled
<1> QED BY <1>1, <1>2

LEMMA RefreshedEntries ==
  ASSUME NEW db, Consistent(db), NEW t \in Take, NEW u \in Seqs, NEW now \in Nat, NEW s \in Seqs
  PROVE  \/ Refreshed(db, t, u, now).entries[s] = db.entries[s]
         \/ /\ EntryIn(db, s, "processing")
            /\ Extended(db.entries[s], Refreshed(db, t, u, now).entries[s])
<1>1. CASE Holds(db, t, u) /\ s = u
  <2>1. Refreshed(db, t, u, now).entries[s] = [db.entries[s] EXCEPT !.acquiredAt = now]
    BY <1>1 DEF Refreshed, Consistent, Store
  <2>2. EntryIn(db, s, "processing") /\ db.entries[s] \in Entry
    BY <1>1, EntryTimes DEF Holds, Owns, EntryIn, NoEntry, Consistent
  <2> QED BY <2>1, <2>2 DEF Extended, Entry
<1>2. CASE ~(Holds(db, t, u) /\ s = u)
  BY <1>2 DEF Refreshed, Consistent, Store
<1> QED BY <1>1, <1>2

LEMMA CleanedEntries ==
  ASSUME NEW db, Consistent(db), NEW state \in {"completed", "failed"}, NEW cutoff \in Int,
         NEW s \in Seqs
  PROVE  \/ Cleaned(db, state, cutoff).entries[s] = db.entries[s]
         \/ /\ EntryIn(db, s, state) /\ db.entries[s].updatedAt <= cutoff
            /\ Cleaned(db, state, cutoff).entries[s] = None
BY DEF Cleaned, Consistent, Store, NoEntry

\* Every step changes each entry in one of the ways of Change.
LEMMA StepChanges ==
  ASSUME IInv, AInv, [Next]_vars
  PROVE  \E t : \A s \in Seqs : Change(t, s)
<1> USE IInvFields
<1>1. UNCHANGED store => \A s \in Seqs : Change(None, s)
  BY DEF Change
<1>2. ASSUME NEW i \in Id, Offer(i), NEW s \in Seqs PROVE Change(None, s)
  <2>1. PICK now \in 0 .. clock : store.counter < MaxSeq /\ store' = Offered(store, i, now)
    BY <1>2 DEF Offer
  <2>2. now \in Nat
    OBVIOUS
  <2>3. \/ store'.entries[s] = store.entries[s]
        \/ /\ store.entries[s] = None /\ store.ids[i] = None
           /\ store'.entries[s] = NewEntry(i, now)
    BY <2>1, <2>2, OfferedEntries
  <2> QED BY <2>2, <2>3 DEF Change
<1>3. ASSUME NEW t \in Take, call[t].phase \in {"claiming", "abandoned"},
             LET r == ClaimBody(store, t, call[t].now)
             IN  store' = r.db \/ store' = Unwatched(r.db, t),
             NEW s \in Seqs
      PROVE  Change(t, s)
  <2> DEFINE r == ClaimBody(store, t, call[t].now)
  <2>1. ClaimChange(store, s, t, call[t].now, r.db.entries[s])
    BY ClaimEntries DEF AInv
  <2>2. r.db \in Store
    BY ClaimBodyConsistent DEF ClaimResult, Consistent
  <2>3. store'.entries = r.db.entries
    BY <1>3, <2>2, UnwatchedEntries
  <2> HIDE DEF r
  <2> QED BY <1>3, <2>1, <2>3 DEF Change
<1>4. ASSUME NEW t \in Take, store' = Unwatched(store, t), NEW s \in Seqs PROVE Change(None, s)
  BY <1>4, UnwatchedEntries DEF Change, Consistent
<1>5. ASSUME NEW t \in Take, Refresh(t), NEW s \in Seqs PROVE Change(None, s)
  <2>1. PICK now \in 0 .. clock : store' = Refreshed(store, t, call[t].seq, now)
    BY <1>5 DEF Refresh
  <2>2. call[t].seq \in Seqs /\ now \in Nat
    BY <1>5 DEF Refresh, Fenced
  <2>3. \/ store'.entries[s] = store.entries[s]
        \/ EntryIn(store, s, "processing") /\ Extended(store.entries[s], store'.entries[s])
    BY <2>1, <2>2, RefreshedEntries
  <2> QED BY <2>3 DEF Change
<1>6. ASSUME NEW t \in Take, SettleCommits(t) \/ SettleUnknown(t), NEW s \in Seqs
      PROVE  Change(None, s)
  <2>1. call[t].phase = "settling" /\ store' = Settled(store, t, call[t])
    BY <1>6 DEF SettleCommits, SettleUnknown
  <2>2. call[t] \in Call /\ call[t].seq \in Seqs
    BY <2>1 DEF Fenced
  <2>3. \/ store'.entries[s] = store.entries[s]
        \/ /\ s = call[t].seq /\ Owns(store, t, s)
           /\ store'.entries[s] = SettledEntry(store.entries[s], call[t])
    BY <2>1, <2>2, SettledEntries
  <2> QED BY <2>1, <2>3 DEF Change
<1>7. ASSUME NEW state \in {"completed", "failed"}, Cleanup(state), NEW s \in Seqs
      PROVE  Change(None, s)
  <2>1. PICK now \in 0 .. clock : store' = Cleaned(store, state, now - TimeToLive)
    BY <1>7 DEF Cleanup
  <2>2. now - TimeToLive \in Int /\ now <= clock /\ now \in Nat /\ TimeToLive \in Nat
    BY QueueAssumption
  <2>3. \/ store'.entries[s] = store.entries[s]
        \/ /\ EntryIn(store, s, state) /\ store.entries[s].updatedAt <= now - TimeToLive
           /\ store'.entries[s] = None
    BY <2>1, <2>2, CleanedEntries
  <2>4. EntryIn(store, s, state) => store.entries[s].updatedAt \in Nat
    BY EntryTimes DEF EntryIn, NoEntry, Consistent
  <2> QED BY <2>2, <2>3, <2>4 DEF Change
<1>8. ASSUME NEW t \in Take, TakeStep(t) PROVE \E u : \A s \in Seqs : Change(u, s)
  <2>1. CASE ClaimCommits(t) \/ ClaimUnknown(t) \/ AbandonedLands(t)
    <3>1. \A s \in Seqs : Change(t, s)
      BY <1>3, <2>1 DEF ClaimCommits, ClaimUnknown, AbandonedLands
    <3> QED BY <3>1
  <2>2. CASE TakeAborts(t) \/ LatchOrPollWakes(t)
    <3>1. \A s \in Seqs : Change(None, s)
      BY <1>4, <2>2 DEF TakeAborts, LatchOrPollWakes
    <3> QED BY <3>1
  <2>3. CASE TakeBegins(t) \/ ClaimBegins(t) \/ AbandonedIsLost(t) \/ WatchWakes(t)
             \/ SettleBegins(t) \/ HolderDies(t)
    <3>1. UNCHANGED store
      BY <2>3 DEF TakeBegins, ClaimBegins, AbandonedIsLost, WatchWakes, SettleBegins, HolderDies
    <3> QED BY <1>1, <3>1
  <2>4. CASE Refresh(t) \/ SettleCommits(t) \/ SettleUnknown(t)
    <3>1. \A s \in Seqs : Change(None, s)
      BY <1>5, <1>6, <2>4
    <3> QED BY <3>1
  <2> QED BY <1>8, <2>1, <2>2, <2>3, <2>4 DEF TakeStep
<1>9. (Tick \/ UNCHANGED vars) => UNCHANGED store
  BY DEF Tick, vars
<1>10. ((\E i \in Id : Offer(i)) \/ (\E state \in {"completed", "failed"} : Cleanup(state)))
         => \A s \in Seqs : Change(None, s)
  BY <1>2, <1>7
<1> QED BY <1>1, <1>8, <1>9, <1>10 DEF Next

-----------------------------------------------------------------------------
(* The invariant                                                           *)

LEMMA SettledAttempts ==
  ASSUME NEW x \in Entry, x.attempts <= MaxAttempts, NEW c \in Call, c.attempts = x.attempts,
         SettledState(c) = "pending"
  PROVE  SettledEntry(x, c).attempts < MaxAttempts
<1>1. /\ SettledEntry(x, c).attempts = IF c.exit = "interrupt" /\ x.attempts > 0
                                       THEN x.attempts - 1 ELSE x.attempts
      /\ x.attempts \in Nat /\ MaxAttempts \in Nat /\ MaxAttempts > 0
  BY QueueAssumption DEF SettledEntry, Entry
<1>2. CASE c.exit = "interrupt"
  BY <1>1, <1>2
<1>3. CASE c.exit # "interrupt"
  <2>1. ~(x.attempts >= MaxAttempts)
    BY <1>3 DEF SettledState
  <2> QED BY <1>1, <1>3, <2>1
<1> QED BY <1>2, <1>3

\* Change with what the invariant knows of the entry and the take.
LEMMA ChangeCases ==
  ASSUME IInv, AInv, NEW t, NEW s \in Seqs, Change(t, s)
  PROVE  LET e == store.entries[s]
             n == store'.entries[s]
         IN  \/ n = e
             \/ /\ e = None
                /\ \E i \in Id, now \in Nat : store.ids[i] = None /\ n = NewEntry(i, now)
             \/ /\ t \in Take /\ call[t].phase \in {"claiming", "abandoned"} /\ e \in Entry
                /\ Lapses(store, s, call[t].now) /\ call[t].now <= clock
                /\ n = ReleasedEntry(e, call[t].now)
             \/ /\ t \in Take /\ call[t].phase \in {"claiming", "abandoned"} /\ e \in Entry
                /\ EntryIn(store, s, "pending") \/ Lapses(store, s, call[t].now)
                /\ call[t].now <= clock /\ Attempted(e, n, t)
             \/ EntryIn(store, s, "processing") /\ e \in Entry /\ Extended(e, n)
             \/ \E u \in Take :
                  /\ call[u].phase = "settling" /\ call[u].seq = s
                  /\ Owns(store, u, s) /\ e \in Entry /\ call[u].attempts = e.attempts
                  /\ n = SettledEntry(e, call[u])
             \/ /\ EntryIn(store, s, "completed") \/ EntryIn(store, s, "failed")
                /\ n = None /\ e.updatedAt + TimeToLive <= clock
<1>1. /\ store.entries[s] # None => store.entries[s] \in Entry
      /\ \A u \in Take : call[u].now <= clock
      /\ \A u \in Take : call[u].phase = "settling" /\ call[u].seq = s /\ Owns(store, u, s) =>
           call[u].attempts = store.entries[s].attempts
  BY IInvFields, EntryTimes DEF Consistent, AInv, Timely, AttemptsAgree
<1>2. \A state : EntryIn(store, s, state) => store.entries[s] # None
  BY DEF EntryIn, NoEntry
<1> QED BY <1>1, <1>2 DEF Change, ClaimChange, Lapses, Owns

LEMMA BoundedNext ==
  ASSUME IInv, AInv, [Next]_vars
  PROVE  AttemptsBounded(store')
<1> SUFFICES ASSUME NEW s \in Seqs
             PROVE  /\ EntryIn(store', s, "pending") => store'.entries[s].attempts < MaxAttempts
                    /\ EntryIn(store', s, "processing") => store'.entries[s].attempts <= MaxAttempts
  BY DEF AttemptsBounded
<1> DEFINE e == store.entries[s]
           n == store'.entries[s]
           P == /\ EntryIn(store', s, "pending") => n.attempts < MaxAttempts
                /\ EntryIn(store', s, "processing") => n.attempts <= MaxAttempts
<1>0. MaxAttempts \in Nat /\ MaxAttempts > 0
  BY QueueAssumption
<1>1. n = e => P
  BY DEF AInv, AttemptsBounded, EntryIn
<1>2. ASSUME NEW i \in Id, NEW now \in Nat, n = NewEntry(i, now) PROVE P
  BY <1>0, <1>2 DEF NewEntry
<1>3. ASSUME NEW t \in Take, e \in Entry, n = ReleasedEntry(e, call[t].now) PROVE P
  <2>1. call[t].now \in Nat /\ e.attempts \in Nat
    BY <1>3, IInvFields DEF Entry
  <2> HIDE DEF e, n
  <2>2. /\ n.attempts = e.attempts
        /\ IF e.attempts >= MaxAttempts THEN n.state = "failed" ELSE n.state = "pending"
    BY <1>3, <2>1, ReleasedEntryType
  <2> QED BY <1>0, <2>1, <2>2 DEF EntryIn, n
<1>4. ASSUME NEW t \in Take, e \in Entry, Attempted(e, n, t) PROVE P
  <2>1. n.state = "processing" /\ n.attempts = e.attempts + 1 /\ e.attempts \in Nat
        /\ e.attempts < MaxAttempts
    BY <1>4 DEF Attempted, Entry
  <2> QED BY <1>0, <2>1 DEF EntryIn
<1>5. ASSUME EntryIn(store, s, "processing"), Extended(e, n) PROVE P
  BY <1>5 DEF Extended, EntryIn, AInv, AttemptsBounded
<1>6. ASSUME NEW t \in Take, Owns(store, t, s), e \in Entry,
             call[t].attempts = e.attempts, n = SettledEntry(e, call[t])
      PROVE  P
  <2>1. e.attempts <= MaxAttempts /\ call[t] \in Call
    BY <1>6, IInvFields DEF AInv, AttemptsBounded, Owns
  <2>2. n.state = SettledState(call[t]) /\ n.state # "processing"
    BY <1>6, <2>1, SettledEntryType
  <2>3. SettledState(call[t]) = "pending" => n.attempts < MaxAttempts
    BY <1>6, <2>1, SettledAttempts
  <2> QED BY <2>2, <2>3 DEF EntryIn
<1>7. n = None => P
  BY DEF EntryIn, NoEntry
<1>8. PICK t : Change(t, s)
  BY StepChanges
<1> HIDE DEF P
<1> QED BY <1>1, <1>2, <1>3, <1>4, <1>5, <1>6, <1>7, <1>8, ChangeCases DEF P

\* A take at work was at work on the same attempt, or its claim answers now.
LEMMA HoldingBefore ==
  ASSUME IInv, [Next]_vars, NEW t \in Take, call'[t].phase \in {"holding", "settling"}
  PROVE  \/ ClaimCommits(t)
         \/ /\ call[t].phase \in {"holding", "settling"}
            /\ call'[t].seq = call[t].seq /\ call'[t].attempts = call[t].attempts
<1> USE IInvFields
<1>1. CASE call' = call
  BY <1>1
<1>2. ASSUME NEW u \in Take, TakeStep(u), u # t PROVE call'[t] = call[t]
  BY <1>2 DEF TakeStep, TakeBegins, ClaimBegins, ClaimCommits, ClaimUnknown, TakeAborts,
              AbandonedLands, AbandonedIsLost, WatchWakes, LatchOrPollWakes, Refresh,
              SettleBegins, SettleCommits, SettleUnknown, HolderDies
<1>3. ASSUME TakeBegins(t) \/ ClaimBegins(t) \/ TakeAborts(t) \/ AbandonedLands(t)
             \/ AbandonedIsLost(t) \/ WatchWakes(t) \/ LatchOrPollWakes(t) \/ SettleCommits(t)
             \/ HolderDies(t)
      PROVE  FALSE
  <2>1. call[t] = [call[t] EXCEPT !.phase = call[t].phase]
        /\ Idle.phase = "idle"
        /\ \A x \in Nat : [Idle EXCEPT !.phase = "abandoned", !.now = x].phase = "abandoned"
    BY DEF Call, Idle
  <2>2. CASE TakeBegins(t) \/ ClaimBegins(t) \/ WatchWakes(t) \/ LatchOrPollWakes(t)
    BY <2>2 DEF TakeBegins, ClaimBegins, WatchWakes, LatchOrPollWakes, Call
  <2>3. CASE AbandonedLands(t) \/ AbandonedIsLost(t) \/ SettleCommits(t) \/ HolderDies(t)
    BY <2>1, <2>3 DEF AbandonedLands, AbandonedIsLost, SettleCommits, HolderDies
  <2>4. CASE TakeAborts(t)
    BY <2>1, <2>4 DEF TakeAborts
  <2> QED BY <1>3, <2>2, <2>3, <2>4
<1>4. CASE SettleBegins(t)
  BY <1>4 DEF SettleBegins, Call
<1>5. (ClaimUnknown(t) \/ Refresh(t) \/ SettleUnknown(t)) => call' = call
  BY DEF ClaimUnknown, Refresh, SettleUnknown
<1>6. \/ call' = call
      \/ \E u \in Take : TakeStep(u)
  BY DEF Next, Offer, Cleanup, Tick, vars
<1> QED BY <1>1, <1>2, <1>3, <1>4, <1>5, <1>6 DEF TakeStep

LEMMA AgreeNext ==
  ASSUME IInv, AInv, [Next]_vars
  PROVE  AttemptsAgree'
<1> USE IInvFields
<1> SUFFICES ASSUME NEW t \in Take, call'[t].phase \in {"holding", "settling"},
                    Owns(store', t, call'[t].seq)
             PROVE  store'.entries[call'[t].seq].attempts = call'[t].attempts
  BY DEF AttemptsAgree
<1>1. CASE ClaimCommits(t)
  <2> DEFINE r == ClaimBody(store, t, call[t].now)
  <2>1. ClaimResult(store, t, r)
    BY ClaimBodyConsistent
  <2>2. /\ store' = r.db /\ call'[t].phase = NextPhase[r.result]
        /\ call'[t].seq = r.seq
        /\ r.result = "held" => call'[t].attempts = r.db.entries[r.seq].attempts
    BY <1>1 DEF ClaimCommits, Call
  <2> HIDE DEF r
  <2>3. r.result = "held"
    BY <2>1, <2>2 DEF ClaimResult, NextPhase
  <2> QED BY <2>2, <2>3
<1>2. CASE /\ call[t].phase \in {"holding", "settling"}
           /\ call'[t].seq = call[t].seq /\ call'[t].attempts = call[t].attempts
  <2> DEFINE s == call[t].seq
             e == store.entries[s]
             n == store'.entries[s]
  <2>1. s \in Seqs
    BY <1>2 DEF Fenced
  <2>2. EntryIn(store', s, "processing") /\ n.state = "processing" /\ n.acquiredBy = t
    BY <1>2 DEF Owns, EntryIn
  <2>3. Owns(store, t, s) => e.attempts = call[t].attempts
    BY <1>2 DEF AInv, AttemptsAgree
  <2>4. t # None
    BY NoneAssumption
  <2>5. CASE n = e
    BY <1>2, <2>2, <2>3, <2>5 DEF Owns, EntryIn
  <2>6. CASE \E i \in Id, now \in Nat : n = NewEntry(i, now)
    BY <2>2, <2>6 DEF NewEntry
  <2>7. ASSUME NEW u \in Take, e \in Entry, n = ReleasedEntry(e, call[u].now) PROVE FALSE
    <3> HIDE DEF s, e, n
    <3> QED BY <2>2, <2>4, <2>7, ReleasedEntryType
  <2>8. ASSUME NEW u \in Take, call[u].phase \in {"claiming", "abandoned"}, Attempted(e, n, u)
        PROVE  FALSE
    BY <1>2, <2>2, <2>8 DEF Attempted
  <2>9. CASE EntryIn(store, s, "processing") /\ Extended(e, n)
    BY <1>2, <2>2, <2>3, <2>9 DEF Extended, Owns
  <2>10. ASSUME NEW u \in Take, e \in Entry, n = SettledEntry(e, call[u]) PROVE FALSE
    <3> HIDE DEF s, e, n
    <3> QED BY <2>2, <2>10, SettledEntryType
  <2>11. CASE n = None
    BY <2>2, <2>11 DEF EntryIn, NoEntry
  <2>12. PICK u : Change(u, s)
    BY <2>1, StepChanges
  <2> QED BY <1>2, <2>1, <2>5, <2>6, <2>7, <2>8, <2>9, <2>10, <2>11, <2>12, ChangeCases
<1> QED BY <1>1, <1>2, HoldingBefore

LEMMA TimelyNext ==
  ASSUME IInv, AInv, [Next]_vars
  PROVE  Timely'
<1> USE IInvFields
<1>1. /\ clock' \in Nat /\ clock <= clock'
      /\ \A t \in Take : call[t].now <= clock
  <2>1. \A t \in Take : TakeStep(t) => clock' = clock
    BY DEF TakeStep, TakeBegins, ClaimBegins, ClaimCommits, ClaimUnknown, TakeAborts,
           AbandonedLands, AbandonedIsLost, WatchWakes, LatchOrPollWakes, Refresh,
           SettleBegins, SettleCommits, SettleUnknown, HolderDies
  <2>2. clock' = clock \/ clock' = clock + 1
    BY <2>1 DEF Next, Offer, Cleanup, Tick, vars
  <2>3. \A t \in Take : call[t].now <= clock
    BY DEF AInv, Timely
  <2> QED BY <2>2, <2>3
<1>2. Idle.now = 0
      /\ \A x \in Nat : [Idle EXCEPT !.phase = "abandoned", !.now = x].now = x
  BY DEF Idle
<1>3. ASSUME NEW u \in Take, TakeStep(u), NEW t \in Take
      PROVE  call'[t].now \in {call[t].now, clock, 0}
  <2>1. CASE t # u
    BY <1>3, <2>1
       DEF TakeStep, TakeBegins, ClaimBegins, ClaimCommits, ClaimUnknown, TakeAborts,
           AbandonedLands, AbandonedIsLost, WatchWakes, LatchOrPollWakes, Refresh,
           SettleBegins, SettleCommits, SettleUnknown, HolderDies
  <2>2. CASE t = u
    <3>1. CASE TakeBegins(t) \/ WatchWakes(t) \/ LatchOrPollWakes(t)
      BY <3>1 DEF TakeBegins, WatchWakes, LatchOrPollWakes, Call
    <3>2. CASE ClaimBegins(t)
      BY <3>2 DEF ClaimBegins, Call
    <3>3. CASE SettleBegins(t)
      BY <3>3 DEF SettleBegins, Call
    <3>4. CASE ClaimCommits(t)
      BY <3>4 DEF ClaimCommits
    <3>5. CASE AbandonedLands(t) \/ AbandonedIsLost(t) \/ SettleCommits(t) \/ HolderDies(t)
      BY <1>2, <3>5 DEF AbandonedLands, AbandonedIsLost, SettleCommits, HolderDies
    <3>6. CASE TakeAborts(t)
      BY <1>2, <3>6 DEF TakeAborts
    <3>7. CASE ClaimUnknown(t) \/ Refresh(t) \/ SettleUnknown(t)
      BY <3>7 DEF ClaimUnknown, Refresh, SettleUnknown
    <3> QED BY <1>3, <2>2, <3>1, <3>2, <3>3, <3>4, <3>5, <3>6, <3>7 DEF TakeStep
  <2> QED BY <2>1, <2>2
<1>4. call' = call \/ \E u \in Take : TakeStep(u)
  BY DEF Next, Offer, Cleanup, Tick, vars
<1> QED BY <1>1, <1>3, <1>4 DEF Timely

LEMMA AInvInit == Init => AInv
<1> SUFFICES ASSUME Init PROVE AInv
  OBVIOUS
<1>1. AttemptsBounded(store) /\ AttemptsAgree
  BY DEF Init, AttemptsBounded, AttemptsAgree, EntryIn, Idle
<1>2. Timely
  BY DEF Init, Timely, Idle
<1> QED BY <1>1, <1>2 DEF AInv

-----------------------------------------------------------------------------
(* Theorems                                                                *)

\* A take and the store agree on attempts, and clocks read are not ahead.
THEOREM AttemptsInvariance == Spec => [](IInv /\ AInv)
<1>1. Init => IInv /\ AInv
  BY IInvInit, AInvInit
<1>2. IInv /\ AInv /\ [Next]_vars => (IInv /\ AInv)'
  BY IInvNext, BoundedNext, AgreeNext, TimelyNext DEF AInv
<1> QED BY <1>1, <1>2, PTL DEF Spec

\* An element is queued again only with an attempt left, although that is
\* decided before the transaction (repository.ts:552-564).
THEOREM QueuedCanBeTaken == Spec => []QueuedHasAttemptsLeft
<1>1. AInv => QueuedHasAttemptsLeft
  BY DEF AInv, AttemptsBounded, QueuedHasAttemptsLeft
<1> QED BY <1>1, AttemptsInvariance, PTL

\* No step of another take, however late or repeated, ends a lease that lasts
\* (repository.ts:382-433, 505-530, 566-610).
THEOREM LeasesLast == Spec => OwnershipRespected
<1> DEFINE Respected ==
      \A t \in Take, s \in Seqs :
        Owns(store, t, s) /\ ~Owns(store', t, s) =>
          \/ call[t].phase = "settling" /\ call[t].seq = s
          \/ store.entries[s].acquiredAt + LockExpiration <= clock
<1>1. ASSUME IInv, AInv, [Next]_vars PROVE Respected
  <2> SUFFICES ASSUME NEW t \in Take, NEW s \in Seqs, Owns(store, t, s), ~Owns(store', t, s)
               PROVE  \/ call[t].phase = "settling" /\ call[t].seq = s
                      \/ store.entries[s].acquiredAt + LockExpiration <= clock
    OBVIOUS
  <2> DEFINE e == store.entries[s]
             n == store'.entries[s]
  <2>1. e # None /\ e.state = "processing" /\ e.acquiredBy = t
    BY DEF Owns, EntryIn, NoEntry
  <2>2. n # e
    BY <2>1 DEF Owns, EntryIn
  <2>3. ASSUME NEW now \in Nat, now <= clock, Lapses(store, s, now)
        PROVE  e.acquiredAt + LockExpiration <= clock
    <3>1. e.acquiredAt \in Nat /\ clock \in Nat
      BY <1>1, <2>1, <2>3, IInvFields, EntryTimes DEF Lapses, Consistent
    <3> QED BY <2>3, <3>1, QueueAssumption DEF Lapses
  <2>4. ASSUME Extended(e, n) PROVE FALSE
    <3>1. n # None
      BY <2>4, NoneAssumption DEF Extended
    <3> QED BY <2>1, <2>4, <3>1 DEF Extended, Owns, EntryIn, NoEntry
  <2>5. ~EntryIn(store, s, "pending") /\ ~EntryIn(store, s, "completed")
        /\ ~EntryIn(store, s, "failed")
    BY <2>1 DEF EntryIn
  <2>6. \A u \in Take : call[u].now \in Nat /\ (Owns(store, u, s) => u = t)
    BY <1>1, <2>1, IInvFields DEF Owns
  <2>7. PICK u : Change(u, s)
    BY <1>1, StepChanges
  <2> HIDE DEF e, n
  <2> QED BY <1>1, <2>1, <2>2, <2>3, <2>4, <2>5, <2>6, <2>7, ChangeCases DEF e, n
<1>2. Spec => [][Respected]_vars
  BY <1>1, AttemptsInvariance, PTL DEF Spec
<1> QED BY <1>2 DEF OwnershipRespected

\* A settled entry is not touched until cleanup removes it after its time to
\* live (repository.ts:612-684).
THEOREM SettledStays == Spec => SettledIsFinal
<1> DEFINE Final ==
      \A s \in Seqs :
        EntryIn(store, s, "completed") \/ EntryIn(store, s, "failed") =>
          \/ store'.entries[s] = store.entries[s]
          \/ /\ store'.entries[s] = NoEntry
             /\ store.entries[s].updatedAt + TimeToLive <= clock
<1>1. ASSUME IInv, AInv, [Next]_vars PROVE Final
  <2> SUFFICES ASSUME NEW s \in Seqs, EntryIn(store, s, "completed") \/ EntryIn(store, s, "failed")
               PROVE  \/ store'.entries[s] = store.entries[s]
                      \/ /\ store'.entries[s] = None
                         /\ store.entries[s].updatedAt + TimeToLive <= clock
    BY DEF NoEntry
  <2>1. /\ ~EntryIn(store, s, "pending") /\ ~EntryIn(store, s, "processing")
        /\ store.entries[s] # None
    BY DEF EntryIn, NoEntry
  <2>2. PICK u : Change(u, s)
    BY <1>1, StepChanges
  <2> QED BY <1>1, <2>1, <2>2, ChangeCases DEF Lapses, Owns
<1>2. Spec => [][Final]_vars
  BY <1>1, AttemptsInvariance, PTL DEF Spec
<1> QED BY <1>2 DEF SettledIsFinal

-----------------------------------------------------------------------------
(* Wake-ups                                                                *)

\* Either nothing is queued that was not, or every watch has fired but t's,
\* which may have been armed.
Quiet(db, new, t) ==
  /\ new.watching \subseteq db.watching \cup {t}
  /\ new.pending \subseteq db.pending \/ new.watching \subseteq {t}

LEMMA NothingDue ==
  ASSUME NEW index, index \subseteq Row, NEW time, IndexBefore(index, time) = {}
  PROVE  \A r \in index : ~(r[1] <= time)
<1> DEFINE due == {r \in index : r[1] <= time}
<1> SUFFICES due = {}
  OBVIOUS
<1> SUFFICES ASSUME due # {} PROVE FALSE
  OBVIOUS
<1> DEFINE first == First(due)
<1>1. due \subseteq Row
  OBVIOUS
<1>2. first \in due /\ \A q \in due \ {first} : Earlier(first, q)
  <2> HIDE DEF due
  <2> QED BY <1>1, FirstRow
<1>3. ASSUME NEW q \in due PROVE ~Earlier(q, first)
  <2>1. /\ q[1] \in Nat /\ q[2] \in Nat /\ first[1] \in Nat /\ first[2] \in Nat
    BY <1>1, <1>2 DEF Row, Seqs
  <2>2. q = first \/ Earlier(first, q)
    BY <1>2
  <2> HIDE DEF first
  <2> QED BY <2>1, <2>2 DEF Earlier
<1>4. {q \in due : Earlier(q, first)} = {}
  BY <1>3
<1>5. Cardinality({q \in due : Earlier(q, first)}) < IndexBatchSize
  <2>1. Cardinality({}) = 0 /\ 0 < IndexBatchSize
    BY FS_EmptySet, QueueAssumption
  <2> HIDE DEF due, first
  <2> QED BY <1>4, <2>1
<1> QED BY <1>2, <1>5 DEF IndexBefore

LEMMA RecoveredQuiet ==
  ASSUME NEW db, Consistent(db), NEW now \in Nat
  PROVE  /\ Recovered(db, now).watching \subseteq db.watching
         /\ \/ Recovered(db, now).pending = db.pending
            \/ Recovered(db, now).watching = {}
<1> DEFINE again == LapsedSeqs(db, now) \ {s \in LapsedSeqs(db, now) : Exhausted(db, s)}
<1>1. /\ Recovered(db, now).pending = db.pending \cup {<<now, s>> : s \in again}
      /\ Recovered(db, now).watching = IF again # {} THEN {} ELSE db.watching
  BY DEF Recovered, Consistent, Store
<1> HIDE DEF again
<1> QED BY <1>1

\* A row that moves goes where its entry says it already is.
LEMMA PassedQuiet ==
  ASSUME NEW db, Consistent(db), NEW now \in Nat
  PROVE  Passed(db, now).watching = db.watching /\ Passed(db, now).pending \subseteq db.pending
<1> DEFINE rows == PassedRows(db, now)
           late == {s \in {u \in Seqs : EntryIn(db, u, "pending") /\ \E r \in rows : r[2] = u} :
                      db.entries[s].visibleAt > now}
<1>1. /\ Passed(db, now).watching = db.watching
      /\ Passed(db, now).pending =
           (db.pending \ rows) \cup {<<db.entries[s].visibleAt, s>> : s \in late}
  BY DEF Passed, Consistent, Store
<1>2. \A s \in late : <<db.entries[s].visibleAt, s>> \in db.pending
  BY DEF Consistent, RowsMatchEntries
<1> HIDE DEF late, rows
<1> QED BY <1>1, <1>2

LEMMA ClaimQuiet ==
  ASSUME NEW db, Consistent(db), NEW t \in Take, NEW now \in Nat
  PROVE  LET r == ClaimBody(db, t, now)
         IN  /\ Quiet(db, r.db, t)
             /\ r.result = "wait" => \A row \in r.db.pending : row[1] > now
<1> DEFINE r == ClaimBody(db, t, now)
<1>1. CASE db.claims[t] # None
  <2>1. r = [db |-> db, result |-> "held", seq |-> db.claims[t]]
    BY <1>1, ClaimRowOwns DEF ClaimBody
  <2> QED BY <2>1 DEF Quiet
<1>2. CASE db.claims[t] = None
  <2> DEFINE recovered == Recovered(db, now)
             passed == Passed(recovered, now)
             rows == ClaimableRows(recovered, now)
             won == Claimed(passed, t, First(rows), now)
             idle == [passed EXCEPT !.watching = @ \cup {t}]
  <2>1. [db EXCEPT !.claims[t] = None] = db
    BY <1>2, StoreFields DEF Consistent, Store
  <2>2. Consistent(recovered) /\ Consistent(passed)
    BY RecoveredConsistent, PassedConsistent
  <2>3. /\ passed.watching \subseteq db.watching
        /\ passed.pending \subseteq recovered.pending
        /\ passed.pending \subseteq db.pending \/ passed.watching = {}
    <3>1. /\ passed.watching = recovered.watching
          /\ passed.pending \subseteq recovered.pending
      BY <2>2, PassedQuiet
    <3>2. /\ recovered.watching \subseteq db.watching
          /\ recovered.pending = db.pending \/ recovered.watching = {}
      BY RecoveredQuiet
    <3> QED BY <3>1, <3>2
  <2>4. /\ won.watching = passed.watching /\ won.pending \subseteq passed.pending
        /\ idle.watching = passed.watching \cup {t} /\ idle.pending = passed.pending
    BY <2>2 DEF Claimed, Consistent, Store
  <2>5. \/ r = [db |-> won, result |-> "held", seq |-> First(rows)[2]]
        \/ r = [db |-> passed, result |-> "again", seq |-> None]
        \/ /\ r = [db |-> idle, result |-> "wait", seq |-> None]
           /\ IndexBefore(recovered.pending, now) = {}
    BY <1>2, <2>1 DEF ClaimBody
  <2>6. IndexBefore(recovered.pending, now) = {} =>
          \A row \in recovered.pending : row[1] > now
    <3>1. recovered.pending \subseteq Row
      BY <2>2, StoreFields DEF Consistent
    <3>2. \A row \in recovered.pending : row[1] \in Nat
      BY <3>1 DEF Row
    <3> HIDE DEF recovered
    <3> QED BY <3>1, <3>2, NothingDue
  <2> HIDE DEF r, won, idle, passed, recovered, rows
  <2>7. Quiet(db, r.db, t)
    BY <2>3, <2>4, <2>5 DEF Quiet
  <2>8. r.result = "wait" => \A row \in r.db.pending : row[1] > now
    BY <2>3, <2>4, <2>5, <2>6
  <2> QED BY <2>7, <2>8 DEF r
<1> QED BY <1>1, <1>2

LEMMA OfferedQuiet ==
  ASSUME NEW db \in Store, NEW i \in Id, NEW now \in Nat
  PROVE  Offered(db, i, now) = db \/ Offered(db, i, now).watching = {}
BY DEF Offered, Store

LEMMA SettledQuiet ==
  ASSUME NEW db \in Store, NEW t \in Take, NEW c \in Call, NEW u
  PROVE  Quiet(db, Settled(db, t, c), u)
<1>1. SettledState(c) \in {"pending", "completed", "failed"}
  BY DEF SettledState
<1>2. \/ Settled(db, t, c) = db
      \/ Settled(db, t, c).watching = {}
      \/ /\ Settled(db, t, c).watching = db.watching
         /\ Settled(db, t, c).pending = db.pending
  BY <1>1 DEF Settled, Indexed, Store
<1> QED BY <1>2 DEF Quiet

LEMMA OthersQuiet ==
  ASSUME NEW db \in Store, NEW t, NEW s, NEW now, NEW state, NEW u
  PROVE  /\ Quiet(db, Refreshed(db, t, s, now), u)
         /\ Quiet(db, Cleaned(db, state, now), u)
         /\ Quiet(db, Unwatched(db, t), u) /\ t \notin Unwatched(db, t).watching
<1>1. /\ Refreshed(db, t, s, now).pending = db.pending
      /\ Refreshed(db, t, s, now).watching = db.watching
  BY DEF Refreshed, Store
<1>2. /\ Cleaned(db, state, now).pending = db.pending
      /\ Cleaned(db, state, now).watching = db.watching
  BY DEF Cleaned, Store
<1>3. /\ Unwatched(db, t).pending = db.pending
      /\ Unwatched(db, t).watching = db.watching \ {t}
  BY DEF Unwatched, Store
<1> QED BY <1>1, <1>2, <1>3 DEF Quiet

LEMMA TakeQuiet ==
  ASSUME IInv, NEW u \in Take, TakeStep(u)
  PROVE  Quiet(store, store', u)
<1>1. /\ store \in Store /\ Consistent(store) /\ call[u] \in Call /\ call[u].now \in Nat
  BY IInvFields DEF Consistent, Call
<1>2. UNCHANGED store => Quiet(store, store', u)
  BY DEF Quiet
<1> DEFINE r == ClaimBody(store, u, call[u].now)
<1>3. Quiet(store, r.db, u) /\ Quiet(store, Unwatched(r.db, u), u)
  <2>1. Quiet(store, r.db, u) /\ r.db \in Store
    BY <1>1, ClaimQuiet, ClaimBodyConsistent DEF ClaimResult, Consistent
  <2>2. /\ Unwatched(r.db, u).pending = r.db.pending
        /\ Unwatched(r.db, u).watching = r.db.watching \ {u}
    <3> HIDE DEF r
    <3> QED BY <2>1 DEF Unwatched, Store
  <2> QED BY <2>1, <2>2 DEF Quiet
<1>4. (ClaimCommits(u) \/ ClaimUnknown(u) \/ AbandonedLands(u)) => Quiet(store, store', u)
  BY <1>3 DEF ClaimCommits, ClaimUnknown, AbandonedLands
<1> HIDE DEF r
<1>5. (TakeAborts(u) \/ LatchOrPollWakes(u)) => Quiet(store, store', u)
  BY <1>1, OthersQuiet DEF TakeAborts, LatchOrPollWakes
<1>6. Refresh(u) => Quiet(store, store', u)
  BY <1>1, OthersQuiet DEF Refresh
<1>7. (SettleCommits(u) \/ SettleUnknown(u)) => Quiet(store, store', u)
  BY <1>1, SettledQuiet DEF SettleCommits, SettleUnknown
<1>8. (TakeBegins(u) \/ ClaimBegins(u) \/ AbandonedIsLost(u) \/ WatchWakes(u)
       \/ SettleBegins(u) \/ HolderDies(u)) => UNCHANGED store
  BY DEF TakeBegins, ClaimBegins, AbandonedIsLost, WatchWakes, SettleBegins, HolderDies
<1> QED BY <1>2, <1>4, <1>5, <1>6, <1>7, <1>8 DEF TakeStep

\* A take waits after a claim that told it to.
LEMMA WaitsAfterClaim ==
  ASSUME IInv, NEW t \in Take, TakeStep(t), call'[t].phase = "waiting"
  PROVE  ClaimCommits(t)
<1>1. call \in [Take -> Call]
  BY IInvFields
<1>2. Idle.phase = "idle" /\ \A x : [Idle EXCEPT !.phase = "abandoned", !.now = x].phase = "abandoned"
  BY DEF Idle
<1>3. ~(TakeBegins(t) \/ ClaimBegins(t) \/ WatchWakes(t) \/ LatchOrPollWakes(t))
  BY <1>1 DEF TakeBegins, ClaimBegins, WatchWakes, LatchOrPollWakes, Call
<1>4. ~(AbandonedLands(t) \/ AbandonedIsLost(t) \/ SettleCommits(t) \/ HolderDies(t))
  BY <1>1, <1>2 DEF AbandonedLands, AbandonedIsLost, SettleCommits, HolderDies
<1>5. ~TakeAborts(t)
  BY <1>1, <1>2 DEF TakeAborts
<1>6. ~SettleBegins(t)
  <2> SUFFICES ASSUME SettleBegins(t) PROVE FALSE
    OBVIOUS
  <2>1. PICK exit \in Exits, delay \in RetryDelays :
          call' = [call EXCEPT ![t].phase = "settling", ![t].now = clock, ![t].exit = exit,
                               ![t].delay = IF exit = "failure" THEN delay ELSE 0]
    BY DEF SettleBegins
  <2> QED BY <1>1, <2>1 DEF Call
<1>7. ~(ClaimUnknown(t) \/ Refresh(t) \/ SettleUnknown(t))
  BY DEF ClaimUnknown, Refresh, SettleUnknown
<1> QED BY <1>3, <1>4, <1>5, <1>6, <1>7 DEF TakeStep

LEMMA WakeupNext ==
  ASSUME IInv, NoLostWakeup, [Next]_vars
  PROVE  NoLostWakeup'
<1> USE IInvFields
<1> SUFFICES ASSUME NEW t \in store'.watching, call'[t].phase = "waiting",
                    NEW r \in store'.pending
             PROVE  r[1] > call'[t].now
  BY DEF NoLostWakeup
<1>1. t \in Take /\ store \in Store
  <2>1. store' \in Store
    BY IInvNext DEF IInv, TypeOK
  <2> QED BY <2>1, StoreFields DEF Consistent
<1>2. ASSUME NEW u, u # t, Quiet(store, store', u), call'[t] = call[t]
      PROVE  r[1] > call'[t].now
  <2>1. t \in store.watching /\ r \in store.pending
    BY <1>2 DEF Quiet
  <2> QED BY <1>2, <2>1 DEF NoLostWakeup
<1>3. None # t
  BY <1>1, NoneAssumption
<1>4. ASSUME NEW i \in Id, Offer(i) PROVE call' = call /\ Quiet(store, store', None)
  <2>1. PICK now \in 0 .. clock : store' = Offered(store, i, now) /\ call' = call
    BY <1>4 DEF Offer
  <2>2. now \in Nat
    OBVIOUS
  <2> QED BY <1>1, <2>1, <2>2, OfferedQuiet DEF Quiet
<1>5. ASSUME NEW state \in {"completed", "failed"}, Cleanup(state)
      PROVE  call' = call /\ Quiet(store, store', None)
  BY <1>1, <1>5, OthersQuiet DEF Cleanup
<1>6. (Tick \/ UNCHANGED vars) => call' = call /\ Quiet(store, store', None)
  BY DEF Tick, vars, Quiet
<1>7. ASSUME NEW u \in Take, TakeStep(u), u # t PROVE r[1] > call'[t].now
  <2>1. call'[t] = call[t]
    BY <1>1, <1>7
       DEF TakeStep, TakeBegins, ClaimBegins, ClaimCommits, ClaimUnknown, TakeAborts,
           AbandonedLands, AbandonedIsLost, WatchWakes, LatchOrPollWakes, Refresh,
           SettleBegins, SettleCommits, SettleUnknown, HolderDies
  <2> QED BY <1>2, <1>7, <2>1, TakeQuiet
<1>8. ASSUME TakeStep(t) PROVE r[1] > call'[t].now
  <2> DEFINE b == ClaimBody(store, t, call[t].now)
  <2>1. ClaimCommits(t)
    BY <1>1, <1>8, WaitsAfterClaim
  <2>2. /\ store' = b.db /\ call'[t].now = call[t].now
        /\ call'[t].phase = NextPhase[b.result] /\ call[t].now \in Nat
    BY <1>1, <2>1 DEF ClaimCommits, Call
  <2>3. /\ b.result \in {"held", "again", "wait"}
        /\ b.result = "wait" => \A row \in b.db.pending : row[1] > call[t].now
    BY <1>1, <2>2, ClaimBodyConsistent, ClaimQuiet DEF ClaimResult
  <2> HIDE DEF b
  <2>4. b.result = "wait"
    BY <2>2, <2>3 DEF NextPhase
  <2> QED BY <2>2, <2>3, <2>4
<1> QED BY <1>2, <1>3, <1>4, <1>5, <1>6, <1>7, <1>8 DEF Next

\* A take never sleeps through work its empty scan could have seen: a row that
\* appears since fires its watch (repository.ts:494-501, mod.ts:67-84).
THEOREM WatchesFire == Spec => []NoLostWakeup
<1>1. Init => NoLostWakeup
  BY DEF Init, NoLostWakeup
<1>2. IInv /\ NoLostWakeup /\ [Next]_vars => NoLostWakeup'
  BY WakeupNext
<1> QED BY <1>1, <1>2, Invariance, PTL DEF Spec

-----------------------------------------------------------------------------
(* The refinement of AtLeastOnceQueue                                      *)

\* ElementView of a store.
View(db, i) ==
  IF db.ids[i] = None
  THEN [status |-> "unknown", attempts |-> 0, owner |-> None]
  ELSE LET e == db.entries[db.ids[i]]
       IN  [status |-> e.state, attempts |-> e.attempts, owner |-> e.acquiredBy]

EntryView(e) == [status |-> e.state, attempts |-> e.attempts, owner |-> e.acquiredBy]

\* An element is seen where its identifier leads.
LEMMA ViewOf ==
  ASSUME NEW db, Consistent(db), NEW i \in Id
  PROVE  \/ /\ db.ids[i] = None /\ View(db, i) = Promise!Unknown
            /\ \A s \in Seqs : db.entries[s] # None => db.entries[s].id # i
         \/ /\ db.ids[i] \in Seqs /\ db.entries[db.ids[i]] \in Entry
            /\ db.entries[db.ids[i]].id = i
            /\ View(db, i) = EntryView(db.entries[db.ids[i]])
            /\ \A s \in Seqs : db.entries[s] # None /\ db.entries[s].id = i => s = db.ids[i]
<1>1. db.ids[i] \in Seqs \cup {None} /\ db \in Store
  BY StoreFields DEF Consistent
<1>2. \A s \in Seqs : db.ids[i] = s <=> db.entries[s] # None /\ db.entries[s].id = i
  BY DEF Consistent, IdsMatchEntries, NoEntry
<1>3. \A s \in Seqs : s # None
  BY NoneAssumption DEF Seqs
<1>4. CASE db.ids[i] = None
  BY <1>2, <1>3, <1>4 DEF View, Promise!Unknown
<1>5. CASE db.ids[i] \in Seqs
  <2>1. db.entries[db.ids[i]] # None /\ db.entries[db.ids[i]].id = i
    BY <1>2, <1>5
  <2>2. db.entries[db.ids[i]] \in Entry
    BY <1>1, <1>5, <2>1, EntryTimes
  <2>3. View(db, i) = EntryView(db.entries[db.ids[i]])
    BY <1>3, <1>5 DEF View, EntryView
  <2> QED BY <1>2, <1>5, <2>1, <2>2, <2>3
<1> QED BY <1>1, <1>4, <1>5

\* The owner of an element seen owns its entry.
LEMMA OwnerOf ==
  ASSUME NEW db, Consistent(db), NEW i \in Id, View(db, i).owner # None
  PROVE  /\ db.ids[i] \in Seqs /\ View(db, i).owner \in Take
         /\ db.claims[View(db, i).owner] = db.ids[i]
         /\ db.entries[db.ids[i]].id = i
<1>1. db.ids[i] # None
  BY DEF View
<1>2. /\ db.ids[i] \in Seqs /\ db.entries[db.ids[i]] \in Entry
      /\ db.entries[db.ids[i]].id = i
      /\ View(db, i).owner = db.entries[db.ids[i]].acquiredBy
  BY <1>1, ViewOf DEF EntryView
<1>3. db.entries[db.ids[i]] # None /\ db.entries[db.ids[i]].acquiredBy \in Take
  BY <1>2, NoneAssumption DEF Entry
<1>4. Owns(db, db.entries[db.ids[i]].acquiredBy, db.ids[i])
  BY <1>2, <1>3, NoneAssumption DEF Consistent, ClaimsMatchEntries, Owns, EntryIn, NoEntry
<1> QED BY <1>2, <1>3, <1>4 DEF Consistent, ClaimsMatchEntries

\* An attempt of a settling take ends as the promise allows.
LEMMA SettledAllowed ==
  ASSUME NEW x \in Entry, x.state = "processing", x.attempts <= MaxAttempts,
         NEW c \in Call, c.attempts = x.attempts
  PROVE  Promise!Settled(EntryView(x), EntryView(SettledEntry(x, c)))
<1> DEFINE n == SettledEntry(x, c)
<1>1. /\ x.attempts \in Nat /\ MaxAttempts \in Nat /\ MaxAttempts > 0
      /\ n.attempts = IF c.exit = "interrupt" /\ x.attempts > 0
                      THEN x.attempts - 1 ELSE x.attempts
  BY QueueAssumption DEF SettledEntry, Entry
<1>2. n.state = SettledState(c) /\ n.acquiredBy = None
  BY SettledEntryType
<1>3. EntryView(n) = [status |-> SettledState(c), attempts |-> n.attempts, owner |-> None]
  BY <1>2 DEF EntryView
<1>4. EntryView(x).status = "processing" /\ EntryView(x).attempts = x.attempts
  BY DEF EntryView
<1> HIDE DEF n
<1>5. CASE c.exit = "success"
  BY <1>1, <1>3, <1>4, <1>5 DEF SettledState, Promise!Settled, Promise!Ended, n
<1>6. CASE c.exit = "deadLetter"
  BY <1>1, <1>3, <1>4, <1>6 DEF SettledState, Promise!Settled, Promise!Ended, n
<1>7. CASE c.exit = "interrupt"
  <2>1. SettledState(c) = "pending"
    BY <1>7 DEF SettledState
  <2>2. CASE x.attempts > 0
    BY <1>1, <1>3, <1>4, <1>7, <2>1, <2>2 DEF Promise!Settled, Promise!Queued, n
  <2>3. CASE x.attempts = 0
    BY <1>1, <1>3, <1>4, <1>7, <2>1, <2>3 DEF Promise!Settled, Promise!Queued, n
  <2> QED BY <1>1, <2>2, <2>3
<1>8. CASE c.exit \notin {"success", "deadLetter", "interrupt"}
  <2>1. SettledState(c) = IF x.attempts >= MaxAttempts THEN "failed" ELSE "pending"
    BY <1>8 DEF SettledState
  <2>2. n.attempts = x.attempts
    BY <1>1, <1>8
  <2>3. CASE x.attempts >= MaxAttempts
    BY <1>3, <1>4, <2>1, <2>2, <2>3 DEF Promise!Settled, Promise!Ended, n
  <2>4. CASE x.attempts < MaxAttempts
    BY <1>1, <1>3, <1>4, <2>1, <2>2, <2>4 DEF Promise!Settled, Promise!Queued, n
  <2> QED BY <1>1, <2>3, <2>4
<1> QED BY <1>5, <1>6, <1>7, <1>8

-----------------------------------------------------------------------------
(* Steps                                                                   *)

\* An entry keeps its identifier; a new one has an identifier that led nowhere.
LEMMA ChangedId ==
  ASSUME IInv, AInv, NEW t, NEW s \in Seqs, Change(t, s), store'.entries[s] # None
  PROVE  \/ /\ store.entries[s] # None /\ store'.entries[s].id = store.entries[s].id
         \/ /\ store.entries[s] = None
            /\ \E j \in Id, now \in Nat : store.ids[j] = None /\ store'.entries[s] = NewEntry(j, now)
<1> DEFINE e == store.entries[s]
           n == store'.entries[s]
<1>1. e \in Entry => e # None
  BY NoneAssumption
<1>2. \A u \in Take : call[u] \in Call /\ call[u].now \in Nat
  BY IInvFields DEF Call
<1>3. ASSUME NEW u \in Take, e \in Entry, n = ReleasedEntry(e, call[u].now) PROVE n.id = e.id
  <2> HIDE DEF e, n
  <2> QED BY <1>2, <1>3, ReleasedEntryType
<1>4. ASSUME NEW u \in Take, e \in Entry, n = SettledEntry(e, call[u]) PROVE n.id = e.id
  BY <1>2, <1>4, SettledEntryType
<1>5. \A u : Attempted(e, n, u) => n.id = e.id
  BY DEF Attempted
<1>6. Extended(e, n) => n.id = e.id
  BY DEF Extended
<1> HIDE DEF e, n
<1> QED BY <1>1, <1>3, <1>4, <1>5, <1>6, ChangeCases DEF e, n

\* What a step does to an entry it leaves in place is a step of the promise.
LEMMA EntryStep ==
  ASSUME IInv, AInv, NEW t, NEW s \in Seqs, Change(t, s),
         store.entries[s] \in Entry, store'.entries[s] # None
  PROVE  LET old == EntryView(store.entries[s])
             new == EntryView(store'.entries[s])
         IN  /\ \/ new = old
                \/ Promise!Delivered(old, new)
                \/ Promise!Lapsed(old, new)
                \/ Promise!Settled(old, new)
             /\ new.owner \in {None, old.owner, t}
<1> DEFINE e == store.entries[s]
           n == store'.entries[s]
           old == EntryView(e)
           new == EntryView(n)
           P == /\ new = old \/ Promise!Delivered(old, new) \/ Promise!Lapsed(old, new)
                   \/ Promise!Settled(old, new)
                /\ new.owner \in {None, old.owner, t}
<1>1. /\ e # None /\ e.attempts \in Nat /\ MaxAttempts \in Nat /\ MaxAttempts > 0
      /\ old = [status |-> e.state, attempts |-> e.attempts, owner |-> e.acquiredBy]
      /\ new = [status |-> n.state, attempts |-> n.attempts, owner |-> n.acquiredBy]
  BY NoneAssumption, QueueAssumption DEF Entry, EntryView
<1>2. \A u \in Take : call[u] \in Call /\ call[u].now \in Nat
  BY IInvFields DEF Call
<1>3. \A state : EntryIn(store, s, state) => e.state = state
  BY DEF EntryIn
<1>4. EntryIn(store, s, "processing") => e.attempts <= MaxAttempts
  BY DEF AInv, AttemptsBounded
<1>5. n = e => P
  OBVIOUS
<1> HIDE DEF e, n
<1>6. ASSUME NEW u \in Take, EntryIn(store, s, "processing"), n = ReleasedEntry(e, call[u].now)
      PROVE  P
  <2>1. e \in Entry
    BY DEF e
  <2>2. /\ n.attempts = e.attempts /\ n.acquiredBy = None
        /\ IF e.attempts >= MaxAttempts THEN n.state = "failed" ELSE n.state = "pending"
    BY <1>2, <1>6, <2>1, ReleasedEntryType
  <2>3. Promise!Lapsed(old, new)
    BY <1>1, <1>3, <1>6, <2>2 DEF Promise!Lapsed, Promise!Queued, Promise!Ended
  <2> QED BY <1>1, <2>2, <2>3
<1>7. ASSUME t \in Take, Attempted(e, n, t), e.state \in {"pending", "processing"} PROVE P
  <2>1. /\ n.state = "processing" /\ n.acquiredBy = t /\ e.acquiredBy # t
        /\ n.attempts = e.attempts + 1 /\ e.attempts < MaxAttempts
    BY <1>7 DEF Attempted
  <2>2. new = Promise!With(t, old.attempts + 1) /\ new.owner = t /\ old.owner # t
    BY <1>1, <2>1 DEF Promise!With
  <2>3. Promise!Delivered(old, new)
    BY <1>1, <1>7, <2>1, <2>2 DEF Promise!Delivered
  <2> QED BY <2>2, <2>3
<1>8. Extended(e, n) => P
  BY <1>1 DEF Extended
<1>9. ASSUME NEW u \in Take, EntryIn(store, s, "processing"), call[u].attempts = e.attempts,
             n = SettledEntry(e, call[u])
      PROVE  P
  <2>1. e \in Entry
    BY DEF e
  <2>2. Promise!Settled(old, new)
    BY <1>2, <1>3, <1>4, <1>9, <2>1, SettledAllowed
  <2>3. n.acquiredBy = None
    BY <1>2, <1>9, <2>1, SettledEntryType
  <2> QED BY <1>1, <2>2, <2>3
<1> HIDE DEF P
<1>10. \A now : Lapses(store, s, now) => EntryIn(store, s, "processing")
  BY DEF Lapses
<1>11. \A u : Owns(store, u, s) => EntryIn(store, s, "processing")
  BY DEF Owns
<1>12. P
  BY <1>1, <1>3, <1>5, <1>6, <1>7, <1>8, <1>9, <1>10, <1>11, ChangeCases DEF e, n
<1> QED BY <1>12 DEF P, e, n

\* An entry goes only once it is settled.
LEMMA RemovedWasSettled ==
  ASSUME IInv, AInv, NEW t, NEW s \in Seqs, Change(t, s),
         store.entries[s] # None, store'.entries[s] = None
  PROVE  store.entries[s].state \in {"completed", "failed"}
<1> DEFINE e == store.entries[s]
           n == store'.entries[s]
<1>1. \A u \in Take : call[u] \in Call /\ call[u].now \in Nat
  BY IInvFields DEF Call
<1>2. ASSUME NEW u \in Take, e \in Entry, n = ReleasedEntry(e, call[u].now) PROVE FALSE
  <2>1. n \in Entry
    <3> HIDE DEF e, n
    <3> QED BY <1>1, <1>2, ReleasedEntryType
  <2> QED BY <2>1, NoneAssumption
<1>3. ASSUME NEW u \in Take, e \in Entry, n = SettledEntry(e, call[u]) PROVE FALSE
  BY <1>1, <1>3, SettledEntryType, NoneAssumption
<1>4. ~Extended(e, n) /\ \A u : ~Attempted(e, n, u)
  BY NoneAssumption DEF Extended, Attempted
<1> QED BY <1>2, <1>3, <1>4, ChangeCases DEF EntryIn

\* Every step is, for each element, a step or a stutter of the promise, and
\* hands it to nobody but the take that claims.
LEMMA ElementStep ==
  ASSUME IInv, AInv, Consistent(store'), NEW t, \A s \in Seqs : Change(t, s), NEW i \in Id
  PROVE  LET old == View(store, i)
             new == View(store', i)
         IN  /\ \/ new = old
                \/ Promise!Enqueued(old, new)
                \/ Promise!Delivered(old, new)
                \/ Promise!Lapsed(old, new)
                \/ Promise!Settled(old, new)
                \/ Promise!Forgotten(old, new)
             /\ new.owner \in {None, old.owner, t}
<1> DEFINE old == View(store, i)
           new == View(store', i)
<1>1. Consistent(store)
  BY IInvFields
<1>2. Promise!Unknown.owner = None /\ \A j, now : NewEntry(j, now).id = j
  BY DEF Promise!Unknown, NewEntry
\* An entry that comes to bear the identifier is a new one.
<1>3. ASSUME NEW s \in Seqs, store'.entries[s] # None, store'.entries[s].id = i,
             store.entries[s] # None => store.entries[s].id # i
      PROVE  store.ids[i] = None /\ \E now \in Nat : store'.entries[s] = NewEntry(i, now)
  BY <1>2, <1>3, ChangedId
<1>4. CASE store.ids[i] = None
  <2>1. old = Promise!Unknown /\ \A s \in Seqs : store.entries[s] # None => store.entries[s].id # i
    BY <1>1, <1>4, ViewOf, NoneAssumption DEF Seqs
  <2>2. CASE store'.ids[i] = None
    <3>1. new = Promise!Unknown
      BY <2>2, ViewOf, NoneAssumption DEF Seqs
    <3> QED BY <1>2, <2>1, <3>1
  <2>3. CASE store'.ids[i] # None
    <3> DEFINE s == store'.ids[i]
    <3>1. /\ s \in Seqs /\ store'.entries[s] # None /\ store'.entries[s].id = i
          /\ new = EntryView(store'.entries[s])
      BY <2>3, ViewOf, NoneAssumption
    <3>2. PICK now \in Nat : store'.entries[s] = NewEntry(i, now)
      BY <1>3, <2>1, <3>1
    <3>3. new = Promise!Queued(0)
      BY <3>1, <3>2 DEF EntryView, NewEntry, Promise!Queued
    <3>4. Promise!Enqueued(old, new) /\ new.owner = None
      BY <2>1, <3>3 DEF Promise!Enqueued, Promise!Queued
    <3> QED BY <3>4
  <2> QED BY <2>2, <2>3
<1>5. CASE store.ids[i] # None
  <2> DEFINE s == store.ids[i]
             n == store'.entries[s]
  <2>1. /\ s \in Seqs /\ store.entries[s] \in Entry /\ store.entries[s].id = i
        /\ old = EntryView(store.entries[s])
        /\ \A r \in Seqs : store.entries[r] # None /\ store.entries[r].id = i => r = s
    BY <1>1, <1>5, ViewOf
  <2>2. store.entries[s] # None
    BY <2>1, NoneAssumption
  <2>3. CASE n # None
    <3>1. n.id = i
      BY <2>1, <2>2, <2>3, ChangedId
    <3>2. new = EntryView(n)
      BY <2>1, <2>3, <3>1, ViewOf
    <3> QED BY <2>1, <2>3, <3>2, EntryStep
  <2>4. CASE n = None
    <3>1. store'.ids[i] = None
      <4> SUFFICES ASSUME store'.ids[i] # None PROVE FALSE
        OBVIOUS
      <4> DEFINE r == store'.ids[i]
      <4>1. r \in Seqs /\ store'.entries[r] # None /\ store'.entries[r].id = i
        BY ViewOf, NoneAssumption
      <4>2. r # s
        BY <2>4, <4>1
      <4> QED BY <1>3, <1>5, <2>1, <4>1, <4>2
    <3>2. new = Promise!Unknown
      BY <3>1, ViewOf, NoneAssumption DEF Seqs
    <3>3. store.entries[s].state \in {"completed", "failed"}
      BY <2>1, <2>2, <2>4, RemovedWasSettled
    <3>4. Promise!Forgotten(old, new)
      BY <2>1, <3>2, <3>3 DEF Promise!Forgotten, EntryView
    <3> QED BY <1>2, <3>2, <3>4
  <2> QED BY <2>3, <2>4
<1> QED BY <1>4, <1>5

\* What Promise!Next says of the views before and after.
Allowed(old, new) ==
  \/ new = old
  \/ Promise!Enqueued(old, new)
  \/ Promise!Delivered(old, new)
  \/ Promise!Lapsed(old, new)
  \/ Promise!Settled(old, new)
  \/ Promise!Forgotten(old, new)

LEMMA StepMaps == IInv /\ AInv /\ [Next]_vars => Promise!Next
<1> SUFFICES ASSUME IInv, AInv, [Next]_vars PROVE Promise!Next
  OBVIOUS
<1>1. PICK t : \A s \in Seqs : Change(t, s)
  BY StepChanges
<1>2. Consistent(store')
  <2>1. IInv'
    BY IInvNext
  <2> QED BY <2>1 DEF IInv, TypeOK, IndexesConsistent, Consistent
<1>3. ASSUME NEW i \in Id
      PROVE  /\ Allowed(View(store, i), View(store', i))
             /\ View(store', i).owner \in {None, View(store, i).owner, t}
  BY <1>1, <1>2, ElementStep DEF Allowed
\* An owner has one claims row, which leads to one element.
<1>4. ASSUME NEW i \in Id, NEW j \in Id, View(store', i).owner # None,
             View(store', i).owner = View(store', j).owner
      PROVE  i = j
  BY <1>2, <1>4, OwnerOf
<1> DEFINE old == [i \in Id |-> View(store, i)]
           new == [i \in Id |-> View(store', i)]
<1>5. /\ [i \in Id |-> ElementView(i)] = old
      /\ [i \in Id |-> ElementView(i)]' = new
  BY DEF ElementView, View
<1>6. new \in [Id -> {new[i] : i \in Id}]
  OBVIOUS
<1>7. \A i \in Id : old[i] = View(store, i) /\ new[i] = View(store', i)
  OBVIOUS
<1> HIDE DEF old, new
<1>8. \A i \in Id : Allowed(old[i], new[i])
  BY <1>3, <1>7
<1>9. ASSUME NEW i \in Id, NEW j \in Id
      PROVE  /\ new[i].owner # None /\ new[i].owner = new[j].owner => i = j
             /\ new[i].owner \notin {None, old[i].owner} /\
                new[j].owner \notin {None, old[j].owner} => i = j
  BY <1>3, <1>4, <1>7
<1> QED BY <1>5, <1>6, <1>8, <1>9 DEF Promise!Next, Allowed

LEMMA InitMaps == Init => Promise!Init
<1> SUFFICES ASSUME Init PROVE Promise!Init
  OBVIOUS
<1>1. \A i \in Id : ElementView(i) = Promise!Unknown
  BY DEF Init, ElementView, Promise!Unknown
<1> QED BY <1>1 DEF Promise!Init

\* The transactions, with their indexes, stale clocks, lapsed leases, retries
\* and lost commits, are an at-least-once queue with exclusive claims
\* (repository.ts:308-684).
THEOREM Implements == Spec => ImplementsPromise
<1>1. IInv /\ AInv /\ [Next]_vars => [Promise!Next]_([i \in Id |-> ElementView(i)])
  BY StepMaps
<1> QED BY <1>1, InitMaps, AttemptsInvariance, PTL DEF Spec, ImplementsPromise, Promise!Spec
=============================================================================
