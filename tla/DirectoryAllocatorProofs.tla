---------------------- MODULE DirectoryAllocatorProofs ----------------------
(***************************************************************************)
(* The prefixes the directory allocator hands out are unique, and a call   *)
(* that looks for one finds room, for any number of transactions, fibers   *)
(* and windows of any sizes.                                               *)
(***************************************************************************)
EXTENDS DirectoryAllocator, FiniteSetTheorems, WellFoundedInduction, TLAPS

\* What is cleared below a window has that window's counter in its place.
Anchored(w) == w.below = 0 \/ w.added[w.below] > 0

\* g is `given`.  Prefixes given before the transaction began are behind its snapshot's
\* window or have their rows in it; the others were written since.
SnapshotCovers(x, g) ==
  \A p \in Prefix : g[p] > 0 =>
    p \in x.since \/ p < Latest(x.snapshot) \/ p \in x.snapshot.recent

\* What its calls returned is guarded by conflicts, and fresh unless the
\* transaction is bound to fail.
GotFresh(x, g) ==
  \A p \in Prefix : x.got[p] > 0 =>
    /\ x.got[p] = 1
    /\ p \in x.reads /\ p \in x.claims
    /\ p < x.writes.below \/ p \in x.writes.set
    /\ g[p] = 0 \/ p \in x.since

Sound(x, g) == Anchored(x.writes) /\ SnapshotCovers(x, g) /\ GotFresh(x, g)

\* What a call read is still so.
Current(c, x) ==
  LET view == Apply(x.writes, x.snapshot)
  IN  /\ c.candidate \in Window(c.start)
      /\ c.latest = Latest(view)
      /\ c.taken <=> c.candidate \in view.recent
      /\ c.candidate \in x.reads \/ c.candidate \in x.writes.set

Fibers ==
  /\ \A f \in Fiber : Working(f) => txn[TransactionOf[f]] # None
  /\ \A f \in Fiber : call[f].phase = "claiming" => Current(call[f], txn[TransactionOf[f]])
  /\ \A f, g \in Fiber :
       Working(f) /\ Working(g) /\ TransactionOf[f] = TransactionOf[g] => f = g

\* The inductive invariant.
IInv ==
  /\ TypeOK
  /\ PrefixesUnique
  /\ RecentCoversWindow
  /\ \A t \in Transaction : txn[t] # None => Sound(txn[t], given)
  /\ Fibers

-----------------------------------------------------------------------------
(* Windows and counters                                                    *)

LEMMA Numbers ==
  /\ Starts \subseteq Nat /\ 0 \in Starts
  /\ Prefix \subseteq Nat /\ 0 \in Prefix
  /\ \A s \in Starts : Window(s) \subseteq Prefix
  /\ \A s \in Starts, p \in Prefix : p \in Window(s) => p >= s
<1>1. \A s \in Starts : s \in Nat /\ WindowSize(s) \in Nat \ {0}
  BY AllocatorAssumption DEF WindowSize
<1>2. \A s \in Starts : Window(s) \subseteq Prefix
  BY DEF Window, Prefix
<1>3. \A s \in Starts, p \in Prefix : p \in Window(s) => p >= s
  BY <1>1 DEF Window
<1>4. Prefix \subseteq Nat
  BY <1>1 DEF Prefix
<1>5. 0 \in Window(0)
  BY <1>1, AllocatorAssumption DEF Window
<1> QED BY <1>1, <1>2, <1>3, <1>4, <1>5, AllocatorAssumption

\* A set of starts has a greatest element.
LEMMA GreatestStart ==
  ASSUME NEW S \in SUBSET Starts, S # {}
  PROVE  \E s \in S : \A r \in S : r <= s
<1>1. PICK m \in Starts : \A s \in Starts : s <= m
  BY AllocatorAssumption
<1>2. \A s \in S : s \in Nat /\ m \in Nat /\ s <= m
  BY <1>1, Numbers
<1> DEFINE T == {m - s : s \in S}
<1>3. T \subseteq Nat /\ T # {}
  BY <1>2
<1>4. PICK d \in T : \A e \in T : ~(<<e, d>> \in OpToRel(<, Nat))
  BY <1>3, NatLessThanWellFounded, WFMin
<1>5. PICK s \in S : d = m - s
  BY <1>4
<1>6. \A r \in S : ~(m - r < m - s)
  BY <1>3, <1>4, <1>5 DEF OpToRel
<1> QED BY <1>2, <1>6

\* The latest counter is the greatest that is positive, or 0.
LEMMA LatestIs ==
  ASSUME NEW base, base.count \in [Starts -> Nat]
  PROVE  /\ Latest(base) \in Starts
         /\ Latest(base) = 0 \/ base.count[Latest(base)] > 0
         /\ \A s \in Starts : base.count[s] > 0 => s <= Latest(base)
<1> DEFINE present == {s \in Starts : base.count[s] > 0}
<1>1. CASE present = {}
  BY <1>1, Numbers DEF Latest
<1>2. CASE present # {}
  <2>1. \E s \in present : \A r \in present : r <= s
    BY <1>2, GreatestStart
  <2>2. Latest(base) \in present /\ \A r \in present : r <= Latest(base)
    BY <1>2, <2>1 DEF Latest
  <2> QED BY <2>2
<1> QED BY <1>1, <1>2

\* Writes that are anchored leave the latest window where it is, or move it on.
LEMMA ApplyIs ==
  ASSUME NEW w \in Writes, Anchored(w), NEW base \in Database
  PROVE  /\ Apply(w, base) \in Database
         /\ Latest(Apply(w, base)) >= Latest(base)
         /\ Latest(Apply(w, base)) >= w.below
         /\ \A p \in Prefix :
              p \in Apply(w, base).recent <=> (p \in base.recent /\ p >= w.below) \/ p \in w.set
<1> DEFINE out == Apply(w, base)
<1>1. /\ w.below \in Starts /\ w.added \in [Starts -> Nat] /\ w.set \subseteq Prefix
      /\ base.count \in [Starts -> Nat] /\ base.recent \subseteq Prefix
  BY DEF Writes, Database
<1>2. out.count = [s \in Starts |-> (IF s < w.below THEN 0 ELSE base.count[s]) + w.added[s]]
  BY <1>1 DEF Apply, CountKept
<1>3. out.recent = {p \in base.recent : p >= w.below} \cup w.set
  BY DEF Apply, Kept
<1>4. out.count \in [Starts -> Nat] /\ out \in Database
  BY <1>1, <1>2, <1>3 DEF Apply, Database
<1>5. Latest(base) \in Nat /\ Latest(out) \in Nat /\ w.below \in Nat
  BY <1>1, <1>4, LatestIs, Numbers
<1>6. Latest(out) >= w.below
  <2>1. CASE w.below = 0
    BY <1>5, <2>1
  <2>2. CASE w.added[w.below] > 0
    <3>1. out.count[w.below] > 0
      BY <1>1, <1>2, <2>2
    <3> QED BY <1>1, <1>4, <3>1, LatestIs, <1>5
  <2> QED BY <2>1, <2>2 DEF Anchored
<1>7. Latest(out) >= Latest(base)
  <2>1. CASE Latest(base) = 0 \/ Latest(base) < w.below
    BY <1>5, <1>6, <2>1
  <2>2. CASE Latest(base) # 0 /\ ~(Latest(base) < w.below)
    <3>1. Latest(base) \in Starts /\ base.count[Latest(base)] > 0
      BY <1>1, <2>2, LatestIs
    <3>2. out.count[Latest(base)] > 0
      BY <1>1, <1>2, <2>2, <3>1
    <3> QED BY <1>4, <1>5, <3>1, <3>2, LatestIs
  <2> QED BY <2>1, <2>2
<1> QED BY <1>1, <1>3, <1>4, <1>6, <1>7

\* Entering a window keeps the writes anchored, and forgets only rows that
\* are behind it.
LEMMA EnteredIs ==
  ASSUME NEW w \in Writes, Anchored(w), NEW latest \in Starts, NEW start \in Starts,
         w.below <= latest, latest <= start
  PROVE  /\ Entered(w, latest, start) \in Writes
         /\ Anchored(Entered(w, latest, start))
         /\ \A p \in Prefix : p < w.below \/ p \in w.set =>
              p < Entered(w, latest, start).below \/ p \in Entered(w, latest, start).set
<1>1. w.below \in Starts /\ w.added \in [Starts -> Nat] /\ w.set \subseteq Prefix
  BY DEF Writes
<1>2. w.below \in Nat /\ latest \in Nat /\ start \in Nat /\ \A p \in Prefix : p \in Nat
  BY <1>1, Numbers
<1>3. CASE start = latest
  <2> DEFINE new == [w EXCEPT !.added = Counted(@, start)]
  <2>1. Entered(w, latest, start) = new
    BY <1>3 DEF Entered
  <2>2. new.below = w.below /\ new.set = w.set /\ new.added = Counted(w.added, start)
    BY DEF Writes
  <2>3. Counted(w.added, start) \in [Starts -> Nat]
    BY <1>1 DEF Counted
  <2>4. \A s \in Starts : w.added[s] > 0 => Counted(w.added, start)[s] > 0
    BY <1>1 DEF Counted
  <2>5. new \in Writes
    BY <1>1, <2>2, <2>3 DEF Writes
  <2>6. Anchored(new)
    BY <1>1, <2>2, <2>4 DEF Anchored
  <2> QED BY <2>1, <2>2, <2>5, <2>6
<1>4. CASE start # latest
  <2> DEFINE added == Counted(CountKept(w.added, start), start)
             new == [below |-> start, added |-> added, set |-> Kept(w.set, start)]
  <2>1. Entered(w, latest, start) = new
    BY <1>4 DEF Entered
  <2>2. added \in [Starts -> Nat] /\ added[start] > 0
    BY <1>1, <1>2 DEF Counted, CountKept
  <2>3. new \in Writes
    BY <1>1, <2>2 DEF Writes, Kept
  <2>4. Anchored(new)
    BY <2>2 DEF Anchored
  <2>5. \A p \in Prefix : p < w.below \/ p \in w.set => p < start \/ p \in Kept(w.set, start)
    BY <1>2 DEF Kept
  <2> QED BY <2>1, <2>3, <2>4, <2>5
<1> QED BY <1>3, <1>4

-----------------------------------------------------------------------------
(* Steps of a fiber                                                        *)

LEMMA OpenFields ==
  ASSUME NEW x \in Open
  PROVE  /\ x.snapshot \in Database /\ x.writes \in Writes
         /\ x.reads \subseteq Prefix /\ x.claims \subseteq Prefix /\ x.since \subseteq Prefix
         /\ x.got \in [Prefix -> Nat]
         /\ x.writes.below \in Starts /\ x.writes.added \in [Starts -> Nat]
         /\ x.writes.set \subseteq Prefix
         /\ x = [snapshot |-> x.snapshot, writes |-> x.writes, reads |-> x.reads,
                 claims |-> x.claims, since |-> x.since, got |-> x.got]
BY DEF Open, Writes

\* A step of fiber f that replaces its transaction by x and its call by c,
\* while no other fiber works in that transaction.
LEMMA FiberFrame ==
  ASSUME IInv, NEW f \in Fiber, NEW x \in Open, NEW c \in Call,
         txn[TransactionOf[f]] # None,
         txn' = [txn EXCEPT ![TransactionOf[f]] = x], call' = [call EXCEPT ![f] = c],
         UNCHANGED <<db, given>>,
         Sound(x, given), c.phase = "claiming" => Current(c, x),
         \A g \in Fiber : TransactionOf[g] = TransactionOf[f] /\ Working(g) => g = f
  PROVE  IInv'
<1> DEFINE t == TransactionOf[f]
<1>1. /\ t \in Transaction /\ TransactionOf \in [Fiber -> Transaction]
      /\ txn \in [Transaction -> Open \cup {None}] /\ call \in [Fiber -> Call]
  BY AllocatorAssumption DEF IInv, TypeOK
<1>2. /\ \A u \in Transaction : txn'[u] = IF u = t THEN x ELSE txn[u]
      /\ \A g \in Fiber : call'[g] = IF g = f THEN c ELSE call[g]
  BY <1>1
<1>3. x # None
  BY NoneAssumption
<1>4. TypeOK'
  BY <1>1 DEF IInv, TypeOK
<1>5. (PrefixesUnique /\ RecentCoversWindow)'
  BY DEF IInv, PrefixesUnique, RecentCoversWindow
<1>6. (\A u \in Transaction : txn[u] # None => Sound(txn[u], given))'
  BY <1>2 DEF IInv
<1>7. Fibers'
  <2>1. \A g \in Fiber : Working(g)' => (g = f \/ Working(g))
    BY <1>2 DEF Working
  <2>2. \A g \in Fiber : g # f /\ Working(g) => TransactionOf[g] # t
    OBVIOUS
  <2>3. \A g \in Fiber : Working(g)' => txn'[TransactionOf[g]] # None
    BY <1>1, <1>2, <1>3, <2>1 DEF IInv, Fibers
  <2>4. ASSUME NEW g \in Fiber, call'[g].phase = "claiming"
        PROVE  Current(call'[g], txn'[TransactionOf[g]])
    <3>1. CASE g = f
      BY <1>1, <1>2, <2>4, <3>1
    <3>2. CASE g # f
      <4>1. call'[g] = call[g] /\ Working(g)
        BY <1>2, <2>4, <3>2 DEF Working
      <4>2. txn'[TransactionOf[g]] = txn[TransactionOf[g]]
        BY <1>1, <1>2, <2>2, <3>2, <4>1
      <4> QED BY <2>4, <4>1, <4>2 DEF IInv, Fibers
    <3> QED BY <3>1, <3>2
  <2>5. \A g, h \in Fiber :
          Working(g)' /\ Working(h)' /\ TransactionOf[g] = TransactionOf[h] => g = h
    BY <2>1, <2>2 DEF IInv, Fibers
  <2> QED BY <2>3, <2>4, <2>5 DEF Fibers
<1> HIDE DEF t
<1> QED BY <1>4, <1>5, <1>6, <1>7 DEF IInv

\* The search for a window (allocator.ts:83-120).
LEMMA SearchKeepsSound ==
  ASSUME NEW x \in Open, NEW g \in [Prefix -> Nat], Sound(x, g), NEW start,
         start \in Tried(Apply(x.writes, x.snapshot))
  PROVE  LET w == Entered(x.writes, Latest(Apply(x.writes, x.snapshot)), start)
             y == [x EXCEPT !.writes = w]
         IN  start \in Starts /\ y \in Open /\ Sound(y, g)
<1> DEFINE view == Apply(x.writes, x.snapshot)
           w == Entered(x.writes, Latest(view), start)
           y == [x EXCEPT !.writes = w]
<1>1. Anchored(x.writes) /\ x.snapshot \in Database /\ x.writes \in Writes
  BY OpenFields DEF Sound
<1>2. view \in Database /\ Latest(view) >= x.writes.below
  BY <1>1, ApplyIs
<1>3. Latest(view) \in Starts
  BY <1>2, LatestIs DEF Database
<1>4. start \in Starts /\ start >= Latest(view)
  BY DEF Tried
<1>5. x.writes.below \in Nat /\ Latest(view) \in Nat /\ start \in Nat
  BY <1>3, <1>4, OpenFields, Numbers
<1> HIDE DEF view
<1>6. /\ w \in Writes /\ Anchored(w)
      /\ \A p \in Prefix : p < x.writes.below \/ p \in x.writes.set =>
           p < w.below \/ p \in w.set
  <2>1. x.writes.below <= Latest(view) /\ Latest(view) <= start
    BY <1>2, <1>4, <1>5
  <2> QED BY <1>1, <1>3, <1>4, <2>1, EnteredIs
<1> HIDE DEF w
<1>7. /\ y \in Open /\ y.writes = w /\ y.snapshot = x.snapshot /\ y.reads = x.reads
      /\ y.claims = x.claims /\ y.since = x.since /\ y.got = x.got
  BY <1>6 DEF Open
<1> HIDE DEF y
<1>8. Sound(y, g)
  BY <1>6, <1>7 DEF Sound, SnapshotCovers, GotFresh
<1> QED BY <1>4, <1>7, <1>8 DEF view, w, y

\* Reading a candidate (allocator.ts:124-137) adds a read conflict.
LEMMA SeekKeepsSound ==
  ASSUME NEW x \in Open, NEW g \in [Prefix -> Nat], Sound(x, g), NEW candidate \in Prefix
  PROVE  LET y == [x EXCEPT !.reads = @ \cup ({candidate} \ x.writes.set)]
         IN  /\ y \in Open /\ Sound(y, g)
             /\ y.writes = x.writes /\ y.snapshot = x.snapshot
             /\ candidate \in y.reads \/ candidate \in y.writes.set
<1> DEFINE reads == x.reads \cup ({candidate} \ x.writes.set)
           y == [x EXCEPT !.reads = reads]
<1>1. reads \subseteq Prefix /\ x.reads \subseteq reads
      /\ (candidate \in reads \/ candidate \in x.writes.set)
  BY OpenFields
<1> HIDE DEF reads
<1>2. /\ y \in Open /\ y.writes = x.writes /\ y.snapshot = x.snapshot /\ y.reads = reads
      /\ y.claims = x.claims /\ y.since = x.since /\ y.got = x.got
  BY <1>1 DEF Open
<1> HIDE DEF y
<1>3. Sound(y, g)
  BY <1>1, <1>2 DEF Sound, SnapshotCovers, GotFresh
<1> QED BY <1>1, <1>2, <1>3 DEF y, reads

\* A candidate that is returned was given to nobody the transaction would not
\* conflict with.
LEMMA ReturnedIsFresh ==
  ASSUME NEW x \in Open, NEW g \in [Prefix -> Nat], Sound(x, g),
         NEW c \in Call, Current(c, x), Returned(c)
  PROVE  /\ x.got[c.candidate] = 0
         /\ c.candidate \in x.reads
         /\ g[c.candidate] = 0 \/ c.candidate \in x.since
<1> DEFINE view == Apply(x.writes, x.snapshot)
           p == c.candidate
<1>1. Anchored(x.writes) /\ x.snapshot \in Database /\ x.writes \in Writes
  BY OpenFields DEF Sound
<1>2. /\ Latest(view) >= x.writes.below /\ Latest(view) >= Latest(x.snapshot)
      /\ \A q \in Prefix :
           q \in view.recent <=> (q \in x.snapshot.recent /\ q >= x.writes.below)
                                 \/ q \in x.writes.set
      /\ view \in Database
  BY <1>1, ApplyIs
<1>3. p \in Prefix /\ c.start \in Starts /\ c.latest \in Starts
  BY DEF Call
<1>4. /\ p \in Window(c.start) /\ c.latest = Latest(view) /\ c.latest <= c.start
      /\ p \notin view.recent /\ (p \in x.reads \/ p \in x.writes.set)
  BY DEF Current, Returned
<1>5. p >= c.start
  BY <1>3, <1>4, Numbers
<1>6. Latest(x.snapshot) \in Nat /\ x.writes.below \in Nat /\ c.start \in Nat
      /\ c.latest \in Nat /\ p \in Nat
  BY <1>1, <1>3, LatestIs, OpenFields, Numbers DEF Database
<1> HIDE DEF view
<1>7. ~(p < x.writes.below) /\ ~(p < Latest(x.snapshot))
  BY <1>2, <1>4, <1>5, <1>6
<1>8. p \notin x.writes.set /\ p \notin x.snapshot.recent
  BY <1>2, <1>3, <1>4, <1>6, <1>7
<1>9. x.got[p] = 0
  BY <1>3, <1>7, <1>8, OpenFields DEF Sound, GotFresh
<1>10. g[p] = 0 \/ p \in x.since
  BY <1>3, <1>7, <1>8 DEF Sound, SnapshotCovers
<1> QED BY <1>4, <1>8, <1>9, <1>10

\* Setting the row of a candidate, and returning it (allocator.ts:138-153).
LEMMA ClaimKeepsSound ==
  ASSUME NEW x \in Open, NEW g \in [Prefix -> Nat], Sound(x, g),
         NEW c \in Call, Current(c, x)
  PROVE  Claimed(x, c) \in Open /\ Sound(Claimed(x, c), g)
<1> DEFINE p == c.candidate
           w == [x.writes EXCEPT !.set = @ \cup {p}]
           claims == IF Returned(c) THEN x.claims \cup {p} ELSE x.claims
           got == IF Returned(c) THEN [x.got EXCEPT ![p] = @ + 1] ELSE x.got
           y == Claimed(x, c)
<1>1. p \in Prefix
  BY DEF Call
<1>2. /\ w \in Writes /\ w.below = x.writes.below /\ w.added = x.writes.added
      /\ w.set = x.writes.set \cup {p}
  BY <1>1, OpenFields DEF Writes
<1>3. claims \subseteq Prefix /\ x.claims \subseteq claims /\ (Returned(c) => p \in claims)
  BY <1>1, OpenFields
<1>4. /\ got \in [Prefix -> Nat]
      /\ \A q \in Prefix : got[q] > 0 => (x.got[q] > 0 /\ got[q] = x.got[q])
                                          \/ (Returned(c) /\ q = p /\ got[q] = x.got[q] + 1)
  BY <1>1, OpenFields
<1>5. /\ y.writes = w /\ y.snapshot = x.snapshot /\ y.reads = x.reads
      /\ y.claims = claims /\ y.since = x.since /\ y.got = got
      /\ y = [snapshot |-> y.snapshot, writes |-> y.writes, reads |-> y.reads,
              claims |-> y.claims, since |-> y.since, got |-> y.got]
  BY DEF Claimed, Open
<1> HIDE DEF p, w, claims, got, y
<1>6. y \in Open
  BY <1>2, <1>3, <1>4, <1>5, OpenFields DEF Open
<1>7. Anchored(y.writes) /\ SnapshotCovers(y, g)
  BY <1>2, <1>5 DEF Sound, Anchored, SnapshotCovers
<1>8. GotFresh(y, g)
  <2> SUFFICES ASSUME NEW q \in Prefix, got[q] > 0
               PROVE  /\ got[q] = 1
                      /\ q \in x.reads /\ q \in claims
                      /\ q < w.below \/ q \in w.set
                      /\ g[q] = 0 \/ q \in x.since
    BY <1>5 DEF GotFresh
  <2>1. CASE x.got[q] > 0 /\ got[q] = x.got[q]
    BY <1>2, <1>3, <2>1 DEF Sound, GotFresh
  <2>2. CASE Returned(c) /\ q = p /\ got[q] = x.got[q] + 1
    <3>1. x.got[p] = 0 /\ p \in x.reads /\ (g[p] = 0 \/ p \in x.since)
      BY <2>2, ReturnedIsFresh DEF p
    <3> QED BY <1>2, <1>3, <2>2, <3>1
  <2> QED BY <1>4, <2>1, <2>2
<1> QED BY <1>6, <1>7, <1>8 DEF Sound, y

-----------------------------------------------------------------------------
(* The actions                                                             *)

\* What IInv says of the transaction of a fiber, if it is open.
LEMMA Opened ==
  ASSUME IInv, NEW t \in Transaction, txn[t] # None
  PROVE  txn[t] \in Open /\ Sound(txn[t], given) /\ given \in [Prefix -> Nat]
BY DEF IInv, TypeOK

LEMMA NoCallIs ==
  /\ NoCall \in Call /\ Done \in Call
  /\ NoCall.phase = "idle" /\ Done.phase = "done"
BY Numbers DEF NoCall, Done, Call

\* A fiber whose turn it is has the transaction to itself.
LEMMA Alone ==
  ASSUME IInv, NEW f \in Fiber, Working(f) \/ Permit(TransactionOf[f]),
         NEW g \in Fiber, TransactionOf[g] = TransactionOf[f], Working(g)
  PROVE  g = f
BY DEF IInv, Fibers, Permit

LEMMA LocateInv ==
  ASSUME IInv, NEW f \in Fiber, Locate(f)
  PROVE  IInv'
<1> DEFINE t == TransactionOf[f]
           x == txn[t]
<1>1. t \in Transaction
  BY AllocatorAssumption
<1>2. PICK start \in Tried(View(t)) :
        /\ txn' = [txn EXCEPT ![t].writes = Entered(@, Latest(View(t)), start)]
        /\ call' = [call EXCEPT ![f] = [NoCall EXCEPT !.phase = "seeking", !.start = start]]
  BY DEF Locate
<1>3. /\ x # None /\ UNCHANGED <<db, given>>
      /\ call[f].phase \in {"idle", "locating"} /\ (call[f].phase = "idle" => Permit(t))
  BY DEF Locate
<1>4. x \in Open /\ Sound(x, given) /\ given \in [Prefix -> Nat]
  BY <1>1, <1>3, Opened
<1> DEFINE w == Entered(x.writes, Latest(Apply(x.writes, x.snapshot)), start)
           y == [x EXCEPT !.writes = w]
           c == [NoCall EXCEPT !.phase = "seeking", !.start = start]
<1>5. start \in Starts /\ y \in Open /\ Sound(y, given)
  BY <1>2, <1>4, SearchKeepsSound DEF View
<1>6. c \in Call /\ c.phase = "seeking"
  BY <1>5, NoCallIs DEF Call
<1>7. txn' = [txn EXCEPT ![t] = y]
  BY <1>2 DEF View
<1>8. \A g \in Fiber : TransactionOf[g] = t /\ Working(g) => g = f
  BY <1>3, Alone DEF Working
<1> HIDE DEF y, c
<1> QED BY <1>2, <1>3, <1>5, <1>6, <1>7, <1>8, FiberFrame DEF c

LEMMA InterruptSearchInv ==
  ASSUME IInv, NEW f \in Fiber, InterruptSearch(f)
  PROVE  IInv'
<1> DEFINE t == TransactionOf[f]
           x == txn[t]
<1>1. t \in Transaction
  BY AllocatorAssumption
<1>2. PICK start \in Tried(View(t)) :
        txn' = [txn EXCEPT ![t].writes = Entered(@, Latest(View(t)), start)]
  BY DEF InterruptSearch
<1>3. /\ x # None /\ UNCHANGED <<db, given>> /\ Permit(t)
      /\ call' = [call EXCEPT ![f] = Done]
  BY DEF InterruptSearch
<1>4. x \in Open /\ Sound(x, given) /\ given \in [Prefix -> Nat]
  BY <1>1, <1>3, Opened
<1> DEFINE w == Entered(x.writes, Latest(Apply(x.writes, x.snapshot)), start)
           y == [x EXCEPT !.writes = w]
<1>5. y \in Open /\ Sound(y, given)
  BY <1>2, <1>4, SearchKeepsSound DEF View
<1>6. txn' = [txn EXCEPT ![t] = y]
  BY <1>2 DEF View
<1>7. \A g \in Fiber : TransactionOf[g] = t /\ Working(g) => g = f
  BY <1>3, Alone
<1> HIDE DEF y
<1> QED BY <1>3, <1>5, <1>6, <1>7, NoCallIs, FiberFrame

LEMMA SeekInv ==
  ASSUME IInv, NEW f \in Fiber, Seek(f)
  PROVE  IInv'
<1> DEFINE t == TransactionOf[f]
           x == txn[t]
           view == Apply(x.writes, x.snapshot)
<1>1. t \in Transaction /\ call[f] \in Call
  BY AllocatorAssumption DEF IInv, TypeOK
<1>2. PICK candidate \in Window(call[f].start) :
        /\ txn' = [txn EXCEPT ![t].reads = @ \cup ({candidate} \ txn[t].writes.set)]
        /\ call' = [call EXCEPT ![f] =
             [@ EXCEPT !.phase = "claiming", !.candidate = candidate,
                       !.taken = candidate \in View(t).recent, !.latest = Latest(View(t))]]
  BY DEF Seek
<1>3. call[f].phase = "seeking" /\ Working(f) /\ UNCHANGED <<db, given>>
  BY DEF Seek, Working
<1>4. x # None
  BY <1>3 DEF IInv, Fibers
<1>5. x \in Open /\ Sound(x, given) /\ given \in [Prefix -> Nat]
  BY <1>1, <1>4, Opened
<1>6. call[f].start \in Starts /\ candidate \in Prefix
  BY <1>1, <1>2, Numbers DEF Call
<1> DEFINE y == [x EXCEPT !.reads = @ \cup ({candidate} \ x.writes.set)]
           taken == candidate \in view.recent
           c == [call[f] EXCEPT !.phase = "claiming", !.candidate = candidate,
                                !.taken = taken, !.latest = Latest(view)]
<1>7. /\ y \in Open /\ Sound(y, given) /\ y.writes = x.writes /\ y.snapshot = x.snapshot
      /\ candidate \in y.reads \/ candidate \in y.writes.set
  BY <1>5, <1>6, SeekKeepsSound
<1>8. Latest(view) \in Starts
  BY <1>5, OpenFields, ApplyIs, LatestIs DEF Sound, Database
<1> HIDE DEF view, y
<1>9. taken \in BOOLEAN
  OBVIOUS
<1> HIDE DEF taken
<1>10. /\ c \in Call /\ c.candidate = candidate /\ c.start = call[f].start
      /\ c.taken = taken /\ c.latest = Latest(view)
  BY <1>1, <1>6, <1>8, <1>9 DEF Call
<1> HIDE DEF c
<1>11. Current(c, y)
  BY <1>2, <1>7, <1>10 DEF Current, view, taken
<1>12. txn' = [txn EXCEPT ![t] = y] /\ call' = [call EXCEPT ![f] = c]
  BY <1>2 DEF View, y, c, view, taken
<1>13. \A g \in Fiber : TransactionOf[g] = t /\ Working(g) => g = f
  BY <1>3, Alone
<1> QED BY <1>3, <1>4, <1>7, <1>10, <1>11, <1>12, <1>13, FiberFrame

LEMMA ClaimInv ==
  ASSUME IInv, NEW f \in Fiber, Claim(f)
  PROVE  IInv'
<1> DEFINE t == TransactionOf[f]
           x == txn[t]
           d == IF Returned(call[f]) THEN Done
                ELSE [call[f] EXCEPT
                        !.phase = IF call[f].latest > call[f].start THEN "locating" ELSE "seeking"]
<1>1. t \in Transaction /\ call[f] \in Call
  BY AllocatorAssumption DEF IInv, TypeOK
<1>2. /\ call[f].phase = "claiming" /\ Working(f) /\ UNCHANGED <<db, given>>
      /\ txn' = [txn EXCEPT ![t] = Claimed(x, call[f])]
      /\ call' = [call EXCEPT ![f] = d]
  BY DEF Claim, Working
<1>3. x # None /\ Current(call[f], x)
  BY <1>2 DEF IInv, Fibers
<1>4. x \in Open /\ Sound(x, given) /\ given \in [Prefix -> Nat]
  BY <1>1, <1>3, Opened
<1>5. Claimed(x, call[f]) \in Open /\ Sound(Claimed(x, call[f]), given)
  BY <1>1, <1>3, <1>4, ClaimKeepsSound
<1>6. d \in Call /\ d.phase # "claiming"
  BY <1>1, NoCallIs DEF Call
<1>7. \A g \in Fiber : TransactionOf[g] = t /\ Working(g) => g = f
  BY <1>2, Alone
<1> HIDE DEF d
<1> QED BY <1>2, <1>3, <1>5, <1>6, <1>7, FiberFrame

LEMMA InterruptInv ==
  ASSUME IInv, NEW f \in Fiber, Interrupt(f)
  PROVE  IInv'
<1> DEFINE t == TransactionOf[f]
<1>1. t \in Transaction /\ txn \in [Transaction -> Open \cup {None}]
  BY AllocatorAssumption DEF IInv, TypeOK
<1>2. Working(f) /\ txn[t] # None /\ UNCHANGED <<db, given, txn>>
      /\ call' = [call EXCEPT ![f] = Done]
  BY DEF Interrupt, IInv, Fibers
<1>3. txn[t] \in Open /\ Sound(txn[t], given)
  BY <1>1, <1>2, Opened
<1>4. txn' = [txn EXCEPT ![t] = txn[t]]
  BY <1>1, <1>2
<1>5. \A g \in Fiber : TransactionOf[g] = t /\ Working(g) => g = f
  BY <1>2, Alone
<1> QED BY <1>2, <1>3, <1>4, <1>5, NoCallIs, FiberFrame

LEMMA BeginInv ==
  ASSUME IInv, NEW t \in Transaction, Begin(t)
  PROVE  IInv'
<1> DEFINE x == [snapshot |-> db, writes |-> NoWrites, reads |-> {}, claims |-> {},
                 since |-> {}, got |-> [p \in Prefix |-> 0]]
<1>1. /\ txn[t] = None /\ txn' = [txn EXCEPT ![t] = x] /\ UNCHANGED <<db, call, given>>
      /\ txn \in [Transaction -> Open \cup {None}] /\ db \in Database
  BY DEF Begin, IInv, TypeOK
<1>2. NoWrites \in Writes /\ Anchored(NoWrites)
  BY Numbers DEF NoWrites, Writes, Anchored
<1>3. x \in Open
  BY <1>1, <1>2 DEF Open
<1>4. Sound(x, given)
  <2>1. \A p \in Prefix : p \in Nat /\ Latest(db) \in Nat
    BY <1>1, LatestIs, Numbers DEF Database
  <2>2. SnapshotCovers(x, given)
    BY <2>1 DEF SnapshotCovers, IInv, RecentCoversWindow
  <2> QED BY <1>2, <2>2 DEF Sound, GotFresh
<1> HIDE DEF x
<1>5. \A u \in Transaction : txn'[u] = IF u = t THEN x ELSE txn[u]
  BY <1>1
<1>6. \A f \in Fiber : Working(f) => TransactionOf[f] # t
  BY <1>1 DEF IInv, Fibers
<1>7. Fibers'
  <2>1. \A f \in Fiber : TransactionOf[f] \in Transaction
    BY AllocatorAssumption
  <2>2. \A f \in Fiber : Working(f)' <=> Working(f)
    BY <1>1 DEF Working
  <2>3. \A f \in Fiber : Working(f) => txn'[TransactionOf[f]] = txn[TransactionOf[f]]
    BY <1>5, <1>6, <2>1
  <2>4. \A f \in Fiber : call[f].phase = "claiming" => Working(f)
    BY DEF Working
  <2> QED BY <1>1, <2>2, <2>3, <2>4 DEF IInv, Fibers
<1>8. TypeOK'
  BY <1>1, <1>3 DEF IInv, TypeOK
<1>9. (PrefixesUnique /\ RecentCoversWindow)'
  BY <1>1 DEF IInv, PrefixesUnique, RecentCoversWindow
<1>10. (\A u \in Transaction : txn[u] # None => Sound(txn[u], given))'
  BY <1>1, <1>4, <1>5 DEF IInv
<1> QED BY <1>7, <1>8, <1>9, <1>10 DEF IInv

\* Fibers of a transaction that ends are idle; the others keep their calls,
\* and their transactions what they read and wrote.
LEMMA EndKeepsFibers ==
  ASSUME IInv, NEW t \in Transaction, Closed(t), txn' \in [Transaction -> Open \cup {None}],
         \A u \in Transaction : u # t /\ txn[u] # None =>
           /\ txn'[u] # None
           /\ txn'[u].writes = txn[u].writes /\ txn'[u].snapshot = txn[u].snapshot
           /\ txn'[u].reads = txn[u].reads
  PROVE  Fibers' /\ call' \in [Fiber -> Call]
<1>1. \A f \in Fiber : TransactionOf[f] \in Transaction
  BY AllocatorAssumption
<1>2. \A f \in Fiber : call'[f] = IF TransactionOf[f] = t THEN NoCall ELSE call[f]
  BY DEF Closed
<1>3. call' \in [Fiber -> Call]
  BY NoCallIs DEF Closed, IInv, TypeOK
<1>4. \A f \in Fiber : Working(f)' => Working(f) /\ TransactionOf[f] # t /\ call'[f] = call[f]
  BY <1>2, NoCallIs DEF Working
<1>5. \A f \in Fiber : Working(f)' => txn'[TransactionOf[f]] # None
  BY <1>1, <1>4 DEF IInv, Fibers
<1>6. ASSUME NEW f \in Fiber, call'[f].phase = "claiming"
      PROVE  Current(call'[f], txn'[TransactionOf[f]])
  <2> DEFINE u == TransactionOf[f]
  <2>1. Working(f)' /\ call'[f] = call[f] /\ u # t /\ txn[u] # None
    BY <1>4, <1>6 DEF Working, IInv, Fibers
  <2>2. Current(call[f], txn[u])
    BY <1>6, <2>1 DEF IInv, Fibers
  <2>3. /\ txn'[u].writes = txn[u].writes /\ txn'[u].snapshot = txn[u].snapshot
        /\ txn'[u].reads = txn[u].reads
    BY <1>1, <2>1
  <2> QED BY <2>1, <2>2, <2>3 DEF Current
<1>7. \A f, g \in Fiber :
        Working(f)' /\ Working(g)' /\ TransactionOf[f] = TransactionOf[g] => f = g
  BY <1>4 DEF IInv, Fibers
<1> QED BY <1>3, <1>5, <1>6, <1>7 DEF Fibers

LEMMA AbortInv ==
  ASSUME IInv, NEW t \in Transaction, Abort(t)
  PROVE  IInv'
<1>1. /\ txn' = [txn EXCEPT ![t] = None] /\ Closed(t) /\ UNCHANGED <<db, given>>
      /\ txn \in [Transaction -> Open \cup {None}]
  BY DEF Abort, IInv, TypeOK
<1>2. \A u \in Transaction : txn'[u] = IF u = t THEN None ELSE txn[u]
  BY <1>1
<1>3. txn' \in [Transaction -> Open \cup {None}]
  BY <1>1
<1>4. Fibers' /\ call' \in [Fiber -> Call]
  BY <1>1, <1>2, <1>3, EndKeepsFibers
<1>5. TypeOK'
  BY <1>1, <1>3, <1>4 DEF IInv, TypeOK
<1>6. (PrefixesUnique /\ RecentCoversWindow)'
  BY <1>1 DEF IInv, PrefixesUnique, RecentCoversWindow
<1>7. (\A u \in Transaction : txn[u] # None => Sound(txn[u], given))'
  BY <1>1, <1>2 DEF IInv
<1> QED BY <1>4, <1>5, <1>6, <1>7 DEF IInv

\* What a transaction returned reaches nobody twice when it commits, because
\* it has read and nobody has written its rows since.
LEMMA CommitInv ==
  ASSUME IInv, NEW t \in Transaction, Commit(t)
  PROVE  IInv' /\ Latest(db') >= Latest(db)
<1> DEFINE x == txn[t]
           Seen(u) == [txn[u] EXCEPT !.since = @ \cup x.claims]
<1>1. /\ x # None /\ x.reads \cap x.since = {} /\ db' = Apply(x.writes, db) /\ Closed(t)
      /\ given' = [p \in Prefix |-> given[p] + x.got[p]]
      /\ txn' = [u \in Transaction |-> IF u = t \/ txn[u] = None THEN None ELSE Seen(u)]
  BY DEF Commit, Conflicting
<1>2. /\ x \in Open /\ Sound(x, given) /\ given \in [Prefix -> Nat] /\ db \in Database
      /\ txn \in [Transaction -> Open \cup {None}]
  BY <1>1, Opened DEF IInv, TypeOK
<1>3. /\ db' \in Database /\ Latest(db') >= Latest(db) /\ Latest(db') >= x.writes.below
      /\ \A p \in Prefix :
           p \in db'.recent <=> (p \in db.recent /\ p >= x.writes.below) \/ p \in x.writes.set
  BY <1>1, <1>2, OpenFields, ApplyIs DEF Sound
<1>4. /\ Latest(db') \in Nat /\ Latest(db) \in Nat /\ x.writes.below \in Nat
      /\ \A p \in Prefix : p \in Nat
  BY <1>2, <1>3, OpenFields, LatestIs, Numbers DEF Database
<1>5. \A u \in Transaction : txn[u] # None =>
        /\ Seen(u) \in Open /\ Seen(u).since = txn[u].since \cup x.claims
        /\ Seen(u).snapshot = txn[u].snapshot /\ Seen(u).writes = txn[u].writes
        /\ Seen(u).reads = txn[u].reads /\ Seen(u).claims = txn[u].claims
        /\ Seen(u).got = txn[u].got
  BY <1>2, OpenFields DEF Open
<1> HIDE DEF Seen
<1>6. \A u \in Transaction : txn'[u] = IF u = t \/ txn[u] = None THEN None ELSE Seen(u)
  BY <1>1
<1>7. txn' \in [Transaction -> Open \cup {None}]
  BY <1>1, <1>5
<1>8. Fibers' /\ call' \in [Fiber -> Call]
  BY <1>1, <1>5, <1>6, <1>7, NoneAssumption, EndKeepsFibers
<1>9. given' \in [Prefix -> Nat] /\ \A p \in Prefix : given'[p] = given[p] + x.got[p]
  BY <1>1, <1>2, OpenFields
<1>10. \A p \in Prefix : x.got[p] > 0 => x.got[p] = 1 /\ given[p] = 0 /\ p \in x.claims
  BY <1>1, <1>2 DEF Sound, GotFresh
<1>11. \A p \in Prefix : given'[p] > 0 => given[p] > 0 \/ x.got[p] > 0
  BY <1>2, <1>9, OpenFields
<1>12. TypeOK'
  BY <1>3, <1>7, <1>8, <1>9 DEF TypeOK
<1>13. PrefixesUnique'
  <2> SUFFICES ASSUME NEW p \in Prefix PROVE given'[p] <= 1
    BY DEF PrefixesUnique
  <2>1. given[p] <= 1 /\ given[p] \in Nat /\ x.got[p] \in Nat
    BY <1>2, OpenFields DEF IInv, PrefixesUnique
  <2> QED BY <1>9, <1>10, <2>1
<1>14. RecentCoversWindow'
  <2> SUFFICES ASSUME NEW p \in Prefix, given'[p] > 0, p >= Latest(db') PROVE p \in db'.recent
    BY DEF RecentCoversWindow
  <2>1. p >= x.writes.below /\ p >= Latest(db) /\ ~(p < x.writes.below)
    BY <1>3, <1>4
  <2>2. CASE given[p] > 0
    BY <1>3, <2>1, <2>2 DEF IInv, RecentCoversWindow
  <2>3. CASE x.got[p] > 0
    BY <1>2, <1>3, <2>1, <2>3 DEF Sound, GotFresh
  <2> QED BY <1>11, <2>2, <2>3
<1>15. ASSUME NEW u \in Transaction, txn'[u] # None
       PROVE  Sound(txn'[u], given')
  <2>1. txn[u] # None /\ txn'[u] = Seen(u) /\ Sound(txn[u], given)
    BY <1>6, <1>15 DEF IInv
  <2>2. \A p \in Prefix : x.got[p] > 0 => p \in Seen(u).since
    BY <1>5, <1>10, <2>1
  <2>3. \A p \in Prefix : given'[p] > 0 => given[p] > 0 \/ p \in Seen(u).since
    BY <1>11, <2>2
  <2>4. SnapshotCovers(Seen(u), given')
    BY <1>5, <2>1, <2>3 DEF Sound, SnapshotCovers
  <2>5. \A p \in Prefix : given[p] = 0 => given'[p] = 0 \/ p \in Seen(u).since
    BY <1>2, <1>9, <2>2, OpenFields
  <2>6. GotFresh(Seen(u), given')
    BY <1>5, <2>1, <2>5 DEF Sound, GotFresh
  <2> QED BY <1>5, <2>1, <2>4, <2>6 DEF Sound
<1> QED BY <1>3, <1>8, <1>12, <1>13, <1>14, <1>15 DEF IInv

-----------------------------------------------------------------------------
(* Theorems                                                                *)

LEMMA InitInv == Init => IInv
<1> SUFFICES ASSUME Init PROVE IInv
  OBVIOUS
<1>1. TypeOK
  BY NoCallIs DEF Init, TypeOK, Database
<1>2. PrefixesUnique /\ RecentCoversWindow
  BY DEF Init, PrefixesUnique, RecentCoversWindow
<1>3. \A t \in Transaction : txn[t] = None
  BY DEF Init
<1>4. \A f \in Fiber : ~Working(f) /\ call[f].phase # "claiming"
  BY NoCallIs DEF Init, Working
<1> QED BY <1>1, <1>2, <1>3, <1>4 DEF IInv, Fibers

LEMMA NextInv == IInv /\ [Next]_vars => IInv' /\ Latest(db') >= Latest(db)
<1> SUFFICES ASSUME IInv, [Next]_vars PROVE IInv' /\ Latest(db') >= Latest(db)
  OBVIOUS
<1>1. Latest(db) >= Latest(db)
  <2>1. db.count \in [Starts -> Nat]
    BY DEF IInv, TypeOK, Database
  <2>2. Latest(db) \in Nat
    BY <2>1, LatestIs, Numbers
  <2> QED BY <2>2
<1>2. CASE UNCHANGED vars
  <2>1. Fibers'
    BY <1>2 DEF vars, IInv, Fibers, Working
  <2> QED BY <1>1, <1>2, <2>1 DEF vars, IInv, TypeOK, PrefixesUnique, RecentCoversWindow
<1>3. ASSUME NEW t \in Transaction, Begin(t) PROVE IInv' /\ Latest(db') >= Latest(db)
  BY <1>1, <1>3, BeginInv DEF Begin
<1>4. ASSUME NEW t \in Transaction, Commit(t) PROVE IInv' /\ Latest(db') >= Latest(db)
  BY <1>4, CommitInv
<1>5. ASSUME NEW t \in Transaction, Abort(t) PROVE IInv' /\ Latest(db') >= Latest(db)
  BY <1>1, <1>5, AbortInv DEF Abort
<1>6. ASSUME NEW f \in Fiber, FiberStep(f) PROVE IInv' /\ Latest(db') >= Latest(db)
  <2>1. db' = db
    BY <1>6 DEF FiberStep, Locate, InterruptSearch, Seek, Claim, Interrupt
  <2>2. IInv'
    BY <1>6, LocateInv, InterruptSearchInv, SeekInv, ClaimInv, InterruptInv DEF FiberStep
  <2> QED BY <1>1, <2>1, <2>2
<1> QED BY <1>2, <1>3, <1>4, <1>5, <1>6 DEF Next

\* The inductive invariant holds of every behaviour of the allocator.
THEOREM Invariance == Spec => []IInv
BY InitInv, NextInv, PTL DEF Spec

\* Counters, writes and calls have their types; candidates stay in windows.
THEOREM TypeCorrect == Spec => []TypeOK
<1>1. IInv => TypeOK
  BY DEF IInv
<1> QED BY <1>1, Invariance, PTL

\* No prefix is handed out twice (allocator.ts:83-156).
THEOREM PrefixesAreUnique == Spec => []PrefixesUnique
<1>1. IInv => PrefixesUnique
  BY DEF IInv
<1> QED BY <1>1, Invariance, PTL

\* Clearing old windows forgets no prefix that can be drawn again
\* (allocator.ts:93-107).
THEOREM NothingForgotten == Spec => []RecentCoversWindow
<1>1. IInv => RecentCoversWindow
  BY DEF IInv
<1> QED BY <1>1, Invariance, PTL

\* The latest window never goes back, whatever commits late.
THEOREM WindowsOnlyAdvance == Spec => WindowsAdvance
<1>1. IInv /\ [Next]_vars => [Latest(db') >= Latest(db)]_vars
  BY NextInv
<1> QED BY <1>1, Invariance, PTL DEF Spec, WindowsAdvance

-----------------------------------------------------------------------------
(* Room in the windows                                                     *)

\* Candidates of window s among ps.
InWindow(s, ps) == Window(s) \cap ps

Searching(f) == call[f].phase \in {"seeking", "claiming"}

\* The windows in which fibers of transaction t look for a candidate.
SearchedBy(t) == {call[f].start : f \in {g \in Fiber : TransactionOf[g] = t /\ Searching(g)}}

\* In the latest window and beyond, no more rows are set than were counted.
RowsCounted(base) ==
  \A s \in Starts : s >= Latest(base) => Cardinality(InWindow(s, base.recent)) <= base.count[s]

\* A transaction counted each row that it sets and did not find, and the one
\* that it is going to set.
OwnCounted(x, searched) ==
  \A s \in Starts :
    Cardinality(InWindow(s, x.writes.set \ x.snapshot.recent)) + (IF s \in searched THEN 1 ELSE 0)
      <= x.writes.added[s]

\* A row that a transaction reads goes only when its window is left.
SnapshotKept(x, base) == \A p \in x.snapshot.recent : p >= Latest(base) => p \in base.recent

\* The window a fiber chose is the latest it sees, and less than half used.
HalfUsed(c, x) ==
  LET view == Apply(x.writes, x.snapshot)
  IN  Latest(view) <= c.start /\ view.count[c.start] * 2 < WindowSize(c.start)

\* With IInv, an inductive invariant.
RInv ==
  /\ RowsCounted(db)
  /\ \A t \in Transaction : txn[t] # None =>
       /\ RowsCounted(txn[t].snapshot)
       /\ SnapshotKept(txn[t], db)
       /\ OwnCounted(txn[t], SearchedBy(t))
  /\ \A f \in Fiber : Searching(f) => HalfUsed(call[f], txn[TransactionOf[f]])

\* Each window starts where another one ends, so no two overlap.
LEMMA StartsApart ==
  ASSUME NEW r \in Starts, NEW s \in Starts, r < s
  PROVE  r + WindowSize(r) <= s
<1> DEFINE bad == {q \in Starts : \E p \in Starts : p < q /\ ~(p + WindowSize(p) <= q)}
<1>0. \A q \in Starts : q \in Nat /\ WindowSize(q) \in Nat \ {0}
  BY AllocatorAssumption DEF WindowSize
<1>1. SUFFICES bad = {}
  OBVIOUS
<1>2. SUFFICES ASSUME bad # {} PROVE FALSE
  OBVIOUS
<1>3. bad \subseteq Nat
  BY <1>0
<1>4. PICK q \in bad : \A p \in bad : ~(<<p, q>> \in OpToRel(<, Nat))
  BY <1>2, <1>3, NatLessThanWellFounded, WFMin
<1>5. \A p \in bad : ~(p < q)
  BY <1>3, <1>4 DEF OpToRel
<1>6. PICK p \in Starts : q \in Starts /\ p < q /\ ~(p + WindowSize(p) <= q)
  OBVIOUS
<1>7. PICK e \in Starts : q = e + WindowSize(e)
  BY <1>0, <1>6, AllocatorAssumption
<1>8. e < q /\ e \notin bad /\ p \notin bad
  BY <1>0, <1>5, <1>6, <1>7
<1>9. CASE p < e
  <2>1. p + WindowSize(p) <= e
    BY <1>8, <1>9
  <2> QED BY <1>0, <1>6, <1>8, <2>1
<1>10. CASE e < p
  <2>1. e + WindowSize(e) <= p
    BY <1>8, <1>10
  <2> QED BY <1>0, <1>6, <1>7, <2>1
<1>11. CASE p = e
  BY <1>0, <1>6, <1>7, <1>11
<1> QED BY <1>0, <1>9, <1>10, <1>11

LEMMA WindowIs ==
  ASSUME NEW s \in Starts
  PROVE  /\ s \in Nat /\ WindowSize(s) \in Nat \ {0}
         /\ IsFiniteSet(Window(s)) /\ Cardinality(Window(s)) = WindowSize(s)
         /\ \A p \in Window(s) : p \in Nat /\ s <= p /\ p < s + WindowSize(s)
<1>1. s \in Nat /\ WindowSize(s) \in Nat \ {0}
  BY AllocatorAssumption DEF WindowSize
<1> DEFINE last == s + WindowSize(s) - 1
<1>2. s \in Int /\ last \in Int /\ ~(s > last) /\ last - s + 1 = WindowSize(s)
  BY <1>1
<1>3. Window(s) = s .. last
  BY DEF Window
<1> HIDE DEF last
<1>4. IsFiniteSet(Window(s)) /\ Cardinality(Window(s)) = WindowSize(s)
  BY <1>2, <1>3, FS_Interval
<1>5. \A p \in Window(s) : p \in Nat /\ s <= p /\ p < s + WindowSize(s)
  BY <1>1 DEF Window
<1> QED BY <1>1, <1>4, <1>5

LEMMA WindowsApart ==
  ASSUME NEW r \in Starts, NEW s \in Starts, r # s
  PROVE  Window(r) \cap Window(s) = {}
<1>1. /\ r \in Nat /\ s \in Nat /\ WindowSize(r) \in Nat /\ WindowSize(s) \in Nat
      /\ \A p \in Window(r) : p \in Nat /\ r <= p /\ p < r + WindowSize(r)
      /\ \A p \in Window(s) : p \in Nat /\ s <= p /\ p < s + WindowSize(s)
  BY WindowIs
<1>2. r < s => r + WindowSize(r) <= s
  BY StartsApart
<1>3. s < r => s + WindowSize(s) <= r
  BY StartsApart
<1> QED BY <1>1, <1>2, <1>3

LEMMA InWindowIs ==
  ASSUME NEW s \in Starts, NEW ps
  PROVE  IsFiniteSet(InWindow(s, ps)) /\ Cardinality(InWindow(s, ps)) \in Nat
<1>1. IsFiniteSet(Window(s))
  BY WindowIs
<1>2. IsFiniteSet(InWindow(s, ps))
  BY <1>1, FS_Intersection DEF InWindow
<1> QED BY <1>2, FS_CardinalityType

LEMMA InWindowSubset ==
  ASSUME NEW s \in Starts, NEW ps, NEW qs, InWindow(s, ps) \subseteq InWindow(s, qs)
  PROVE  Cardinality(InWindow(s, ps)) <= Cardinality(InWindow(s, qs))
<1>1. IsFiniteSet(InWindow(s, qs)) /\ InWindow(s, ps) \in SUBSET InWindow(s, qs)
  BY InWindowIs
<1> QED BY <1>1, FS_Subset

LEMMA InWindowUnion ==
  ASSUME NEW s \in Starts, NEW ps, NEW qs, NEW rs,
         InWindow(s, rs) \subseteq InWindow(s, ps) \cup InWindow(s, qs)
  PROVE  Cardinality(InWindow(s, rs))
           <= Cardinality(InWindow(s, ps)) + Cardinality(InWindow(s, qs))
<1> DEFINE P == InWindow(s, ps)
           Q == InWindow(s, qs)
<1>1. /\ IsFiniteSet(P) /\ Cardinality(P) \in Nat
      /\ IsFiniteSet(Q) /\ Cardinality(Q) \in Nat /\ Cardinality(InWindow(s, rs)) \in Nat
  BY InWindowIs
<1> HIDE DEF P, Q
<1>2. /\ IsFiniteSet(P \cup Q)
      /\ Cardinality(P \cup Q) = Cardinality(P) + Cardinality(Q) - Cardinality(P \cap Q)
  BY <1>1, FS_Union
<1>3. IsFiniteSet(P \cap Q)
  BY <1>1, FS_Intersection
<1>4. Cardinality(P \cap Q) \in Nat /\ Cardinality(P \cup Q) \in Nat
  BY <1>2, <1>3, FS_CardinalityType
<1>5. InWindow(s, rs) \in SUBSET (P \cup Q)
  BY DEF P, Q
<1>6. Cardinality(InWindow(s, rs)) <= Cardinality(P \cup Q)
  BY <1>2, <1>5, FS_Subset
<1> QED BY <1>1, <1>2, <1>4, <1>6 DEF P, Q

LEMMA InWindowNothing ==
  ASSUME NEW s \in Starts, NEW ps, InWindow(s, ps) = {}
  PROVE  Cardinality(InWindow(s, ps)) = 0
BY FS_EmptySet

LEMMA InWindowAdd ==
  ASSUME NEW s \in Starts, NEW ps, NEW p
  PROVE  Cardinality(InWindow(s, ps \cup {p})) <= Cardinality(InWindow(s, ps)) + 1
<1> DEFINE P == InWindow(s, ps)
<1>1. IsFiniteSet(P) /\ Cardinality(P) \in Nat /\ Cardinality(InWindow(s, ps \cup {p})) \in Nat
  BY InWindowIs
<1>2. InWindow(s, ps \cup {p}) \in SUBSET (P \cup {p})
  BY DEF InWindow
<1> HIDE DEF P
<1>3. /\ IsFiniteSet(P \cup {p})
      /\ Cardinality(P \cup {p}) = IF p \in P THEN Cardinality(P) ELSE Cardinality(P) + 1
  BY <1>1, FS_AddElement
<1>4. Cardinality(InWindow(s, ps \cup {p})) <= Cardinality(P \cup {p})
  BY <1>2, <1>3, FS_Subset
<1> QED BY <1>1, <1>3, <1>4 DEF P

-----------------------------------------------------------------------------
(* Counting rows                                                           *)

LEMMA ApplyCount ==
  ASSUME NEW w \in Writes, NEW base \in Database, NEW s \in Starts
  PROVE  Apply(w, base).count[s]
           = (IF s < w.below THEN 0 ELSE base.count[s]) + w.added[s]
BY DEF Apply, CountKept, Writes, Database

\* The counters a transaction sees after it came to a window.
LEMMA EnteredCount ==
  ASSUME NEW w \in Writes, Anchored(w), NEW base \in Database, NEW start \in Starts,
         start >= Latest(Apply(w, base))
  PROVE  LET view == Apply(w, base)
             new  == Apply(Entered(w, Latest(view), start), base)
         IN  /\ new.count[start] = view.count[start] + 1
             /\ Latest(new) <= start
<1> DEFINE view == Apply(w, base)
           v    == Entered(w, Latest(view), start)
           new  == Apply(v, base)
<1>1. /\ view \in Database /\ Latest(view) >= w.below /\ Latest(view) \in Starts
      /\ \A s \in Starts : view.count[s] > 0 => s <= Latest(view)
  BY ApplyIs, LatestIs DEF Database
<1>2. /\ w.below \in Starts /\ w.added \in [Starts -> Nat] /\ base.count \in [Starts -> Nat]
      /\ view.count \in [Starts -> Nat]
  BY <1>1 DEF Writes, Database
<1>3. /\ w.below \in Nat /\ Latest(view) \in Nat /\ start \in Nat /\ \A s \in Starts : s \in Nat
      /\ w.below <= Latest(view) /\ Latest(view) <= start
  BY <1>1, <1>2, Numbers
<1>4. \A s \in Starts :
        view.count[s] = (IF s < w.below THEN 0 ELSE base.count[s]) + w.added[s]
  BY ApplyCount
<1>5. start >= Latest(view)
  OBVIOUS
<1> HIDE DEF view
<1>6. v \in Writes
  BY <1>1, <1>3, <1>5, EnteredIs
<1>7. \A s \in Starts :
        new.count[s] = (IF s < v.below THEN 0 ELSE base.count[s]) + v.added[s]
  BY <1>6, ApplyCount
<1>8. /\ v.below \in {w.below, start}
      /\ v.added[start] = w.added[start] + 1
      /\ \A s \in Starts : s > start => v.added[s] = w.added[s]
  <2>1. CASE start = Latest(view)
    <3>1. v = [w EXCEPT !.added = Counted(@, start)]
      BY <2>1 DEF Entered
    <3>2. v.below = w.below /\ v.added = Counted(w.added, start)
      BY <3>1 DEF Writes
    <3>3. \A s \in Starts : v.added[s] = IF s = start THEN w.added[s] + 1 ELSE w.added[s]
      BY <1>2, <3>2 DEF Counted
    <3> HIDE DEF v
    <3>4. \A s \in Starts : s > start => s # start
      BY <1>3
    <3> QED BY <3>2, <3>3, <3>4
  <2>2. CASE start # Latest(view)
    <3>1. v.below = start /\ v.added = Counted(CountKept(w.added, start), start)
      BY <2>2 DEF Entered
    <3>2. \A s \in Starts : v.added[s] = (IF s < start THEN 0 ELSE w.added[s])
                                           + (IF s = start THEN 1 ELSE 0)
      BY <1>2, <1>3, <3>1 DEF Counted, CountKept
    <3> HIDE DEF v
    <3>3. v.added[start] = w.added[start] + 1
      BY <1>2, <1>3, <3>2
    <3>4. ASSUME NEW s \in Starts, s > start PROVE v.added[s] = w.added[s]
      <4>1. ~(s < start) /\ s # start /\ w.added[s] \in Nat
        BY <1>2, <1>3, <3>4
      <4> QED BY <3>2, <4>1
    <3> QED BY <3>1, <3>3, <3>4
  <2> QED BY <2>1, <2>2
<1>9. new \in Database /\ new.count \in [Starts -> Nat]
  <2>1. Anchored(v)
    BY <1>1, <1>3, <1>5, EnteredIs
  <2> QED BY <1>6, <2>1, ApplyIs DEF Database
<1>10. /\ Latest(new) \in Starts /\ (Latest(new) = 0 \/ new.count[Latest(new)] > 0)
  BY <1>9, LatestIs
<1> HIDE DEF v, new
<1>11. new.count[start] = view.count[start] + 1
  <2>1. ~(start < v.below) /\ ~(start < w.below)
    BY <1>3, <1>8
  <2> QED BY <1>2, <1>4, <1>7, <1>8, <2>1
<1>12. ASSUME NEW s \in Starts, s > start
       PROVE  new.count[s] = 0
  <2>1. s \in Nat /\ ~(s < v.below) /\ ~(s < w.below) /\ ~(s <= Latest(view))
    BY <1>3, <1>8, <1>12
  <2>2. view.count[s] = 0
    BY <1>1, <1>2, <2>1
  <2> QED BY <1>4, <1>7, <1>8, <1>12, <2>1, <2>2
<1>13. Latest(new) <= start
  <2>1. PICK last \in Starts : last = Latest(new) /\ (last = 0 \/ new.count[last] > 0)
    BY <1>10
  <2>2. last \in Nat /\ start \in Nat
    BY <1>3
  <2>3. ~(last > start)
    BY <1>12, <2>1, <2>2
  <2> QED BY <2>1, <2>2, <2>3
<1> QED BY <1>11, <1>13 DEF view, v, new

\* Entering a window counts the row to come; what is cleared needs no counter.
LEMMA EnteredOwn ==
  ASSUME NEW x \in Open, OwnCounted(x, {}), NEW latest \in Starts, NEW start \in Starts,
         NEW y \in Open, y.snapshot = x.snapshot, y.writes = Entered(x.writes, latest, start)
  PROVE  OwnCounted(y, {start})
<1> DEFINE own(z) == z.writes.set \ z.snapshot.recent
           size(s, z) == Cardinality(InWindow(s, own(z)))
<1>1. SUFFICES ASSUME NEW s \in Starts
               PROVE  size(s, y) + (IF s \in {start} THEN 1 ELSE 0) <= y.writes.added[s]
  BY DEF OwnCounted
<1>2. size(s, x) \in Nat /\ size(s, y) \in Nat
  BY InWindowIs
<1>3. size(s, x) + 0 <= x.writes.added[s]
  BY DEF OwnCounted
<1>4. /\ x.writes.added \in [Starts -> Nat] /\ x.writes \in Writes /\ x.writes.set \subseteq Prefix
      /\ s \in Nat /\ start \in Nat
  BY OpenFields, Numbers
<1>5. CASE start = latest
  <2>1. /\ y.writes.set = x.writes.set
        /\ y.writes.added[s] = x.writes.added[s] + (IF s = start THEN 1 ELSE 0)
    BY <1>4, <1>5 DEF Entered, Counted, Writes
  <2>2. size(s, y) = size(s, x)
    BY <2>1
  <2> HIDE DEF size
  <2> QED BY <1>2, <1>3, <1>4, <2>1, <2>2
<1>6. CASE start # latest
  <2>1. /\ y.writes.set = Kept(x.writes.set, start)
        /\ y.writes.added = Counted(CountKept(x.writes.added, start), start)
    BY <1>6 DEF Entered
  <2>2. y.writes.added[s] = (IF s < start THEN 0 ELSE x.writes.added[s])
                              + (IF s = start THEN 1 ELSE 0)
    BY <1>4, <2>1 DEF Counted, CountKept
  <2>3. CASE s < start
    <3>1. \A p \in Window(s) : ~(p >= start)
      BY <1>4, <2>3, WindowIs, StartsApart
    <3>2. InWindow(s, own(y)) = {}
      BY <2>1, <3>1 DEF InWindow, Kept
    <3>3. size(s, y) = 0
      BY <3>2, InWindowNothing
    <3> HIDE DEF size
    <3> QED BY <1>4, <2>2, <2>3, <3>3
  <2>4. CASE ~(s < start)
    <3>1. InWindow(s, own(y)) \subseteq InWindow(s, own(x))
      BY <2>1 DEF InWindow, Kept
    <3>2. size(s, y) <= size(s, x)
      BY <3>1, InWindowSubset
    <3> HIDE DEF size
    <3> QED BY <1>2, <1>3, <1>4, <2>2, <2>4, <3>2
  <2> QED BY <2>3, <2>4
<1> QED BY <1>5, <1>6

LEMMA OwnFewer ==
  ASSUME NEW x \in Open, NEW more, OwnCounted(x, more)
  PROVE  OwnCounted(x, {})
<1> DEFINE size(s) == Cardinality(InWindow(s, x.writes.set \ x.snapshot.recent))
<1>1. \A s \in Starts : size(s) \in Nat /\ x.writes.added[s] \in Nat
  BY InWindowIs, OpenFields
<1>2. \A s \in Starts : size(s) + (IF s \in more THEN 1 ELSE 0) <= x.writes.added[s]
  BY DEF OwnCounted
<1>3. \A s \in Starts : size(s) + 0 <= x.writes.added[s]
  <2> HIDE DEF size
  <2> QED BY <1>1, <1>2
<1> QED BY <1>3 DEF OwnCounted

-----------------------------------------------------------------------------
(* Steps of a fiber that looks for room                                    *)

LookedFor(c) == IF c.phase \in {"seeking", "claiming"} THEN {c.start} ELSE {}

\* A fiber whose turn it is counts for its transaction.
LEMMA SearchedAlone ==
  ASSUME NEW f \in Fiber,
         \A g \in Fiber : TransactionOf[g] = TransactionOf[f] /\ Working(g) => g = f
  PROVE  SearchedBy(TransactionOf[f]) = LookedFor(call[f])
BY DEF SearchedBy, Searching, Working, LookedFor

LEMMA RoomFrame ==
  ASSUME IInv, RInv, NEW f \in Fiber, NEW x \in Open, NEW c \in Call,
         txn[TransactionOf[f]] # None, x.snapshot = txn[TransactionOf[f]].snapshot,
         txn' = [txn EXCEPT ![TransactionOf[f]] = x], call' = [call EXCEPT ![f] = c],
         UNCHANGED db,
         OwnCounted(x, LookedFor(c)),
         c.phase \in {"seeking", "claiming"} => HalfUsed(c, x),
         \A g \in Fiber : TransactionOf[g] = TransactionOf[f] /\ Working(g) => g = f
  PROVE  RInv'
<1> DEFINE t == TransactionOf[f]
<1>1. /\ t \in Transaction /\ \A g \in Fiber : TransactionOf[g] \in Transaction
      /\ txn \in [Transaction -> Open \cup {None}] /\ call \in [Fiber -> Call]
  BY AllocatorAssumption DEF IInv, TypeOK
<1>2. /\ \A u \in Transaction : txn'[u] = IF u = t THEN x ELSE txn[u]
      /\ \A g \in Fiber : call'[g] = IF g = f THEN c ELSE call[g]
  BY <1>1
<1>3. RowsCounted(db)'
  BY DEF RInv, RowsCounted
<1>4. \A g \in Fiber : g # f /\ Searching(g) => TransactionOf[g] # t
  BY DEF Searching, Working
<1>5. SearchedBy(t)' = LookedFor(c)
  BY <1>2, <1>4 DEF SearchedBy, Searching, LookedFor
<1>6. \A u \in Transaction \ {t} : SearchedBy(u)' = SearchedBy(u)
  BY <1>2 DEF SearchedBy, Searching
<1>7. ASSUME NEW u \in Transaction, txn'[u] # None
      PROVE  /\ RowsCounted(txn'[u].snapshot) /\ SnapshotKept(txn'[u], db')
             /\ OwnCounted(txn'[u], SearchedBy(u)')
  <2>1. CASE u = t
    <3>1. RowsCounted(txn[t].snapshot) /\ SnapshotKept(txn[t], db)
      BY <1>1 DEF RInv
    <3> QED BY <1>2, <1>5, <2>1, <3>1 DEF SnapshotKept
  <2>2. CASE u # t
    <3>1. txn'[u] = txn[u] /\ SearchedBy(u)' = SearchedBy(u)
      BY <1>2, <1>6, <2>2
    <3>2. RowsCounted(txn[u].snapshot) /\ SnapshotKept(txn[u], db) /\ OwnCounted(txn[u], SearchedBy(u))
      BY <1>7, <3>1 DEF RInv
    <3> QED BY <3>1, <3>2
  <2> QED BY <2>1, <2>2
<1>8. ASSUME NEW g \in Fiber, Searching(g)'
      PROVE  HalfUsed(call'[g], txn'[TransactionOf[g]])
  <2>1. CASE g = f
    BY <1>1, <1>2, <1>8, <2>1 DEF Searching
  <2>2. CASE g # f
    <3>1. call'[g] = call[g] /\ Searching(g)
      BY <1>2, <1>8, <2>2 DEF Searching
    <3>2. txn'[TransactionOf[g]] = txn[TransactionOf[g]]
      BY <1>1, <1>2, <1>4, <2>2, <3>1
    <3> QED BY <3>1, <3>2 DEF RInv
  <2> QED BY <2>1, <2>2
<1>9. \A u \in Transaction : txn'[u] # None =>
        /\ RowsCounted(txn'[u].snapshot) /\ SnapshotKept(txn'[u], db')
        /\ OwnCounted(txn'[u], SearchedBy(u)')
  BY <1>7
<1>10. \A g \in Fiber : Searching(g)' => HalfUsed(call'[g], txn'[TransactionOf[g]])
  BY <1>8
<1>11. (\A u \in Transaction : txn[u] # None =>
          /\ RowsCounted(txn[u].snapshot) /\ SnapshotKept(txn[u], db)
          /\ OwnCounted(txn[u], SearchedBy(u)))'
  BY <1>9
<1> QED BY <1>3, <1>10, <1>11 DEF RInv

LEMMA OwnBefore ==
  ASSUME IInv, RInv, NEW t \in Transaction, txn[t] # None
  PROVE  OwnCounted(txn[t], {})
<1>1. txn[t] \in Open /\ OwnCounted(txn[t], SearchedBy(t))
  BY Opened DEF RInv
<1> QED BY <1>1, OwnFewer

\* What the search for a window makes of a transaction.
LEMMA SearchRoom ==
  ASSUME IInv, RInv, NEW t \in Transaction, txn[t] # None, NEW start \in Tried(View(t))
  PROVE  LET x == txn[t]
             y == [x EXCEPT !.writes = Entered(x.writes, Latest(View(t)), start)]
         IN  /\ start \in Starts /\ y \in Open /\ y.snapshot = x.snapshot
             /\ OwnCounted(y, {start})
             /\ Latest(Apply(y.writes, y.snapshot)) <= start
             /\ Apply(y.writes, y.snapshot).count[start] = View(t).count[start] + 1
<1> DEFINE x == txn[t]
           w == Entered(x.writes, Latest(View(t)), start)
           y == [x EXCEPT !.writes = w]
<1>1. /\ x \in Open /\ Sound(x, given) /\ given \in [Prefix -> Nat] /\ OwnCounted(x, {})
  BY Opened, OwnBefore
<1>2. View(t) = Apply(x.writes, x.snapshot)
  BY DEF View
<1>3. start \in Starts /\ y \in Open
  BY <1>1, <1>2, SearchKeepsSound
<1>4. x.writes \in Writes /\ x.snapshot \in Database /\ Anchored(x.writes)
  BY <1>1, OpenFields DEF Sound
<1>5. start >= Latest(View(t))
  BY DEF Tried
<1>6. Latest(View(t)) \in Starts
  BY <1>2, <1>4, ApplyIs, LatestIs DEF Database
<1>7. y.writes = w /\ y.snapshot = x.snapshot
  BY <1>1 DEF Open
<1>8. /\ Latest(Apply(w, x.snapshot)) <= start
      /\ Apply(w, x.snapshot).count[start] = View(t).count[start] + 1
  BY <1>2, <1>3, <1>4, <1>5, EnteredCount
<1> HIDE DEF y
<1>9. OwnCounted(y, {start})
  BY <1>1, <1>3, <1>6, <1>7, EnteredOwn
<1> QED BY <1>3, <1>7, <1>8, <1>9 DEF y

LEMMA LocateRoom ==
  ASSUME IInv, RInv, NEW f \in Fiber, Locate(f)
  PROVE  RInv'
<1> DEFINE t == TransactionOf[f]
           x == txn[t]
<1>1. t \in Transaction
  BY AllocatorAssumption
<1>2. PICK start \in Tried(View(t)) :
        /\ Fits(View(t), start)
        /\ txn' = [txn EXCEPT ![t].writes = Entered(@, Latest(View(t)), start)]
        /\ call' = [call EXCEPT ![f] = [NoCall EXCEPT !.phase = "seeking", !.start = start]]
  BY DEF Locate
<1>3. /\ x # None /\ UNCHANGED <<db, given>>
      /\ call[f].phase \in {"idle", "locating"} /\ (call[f].phase = "idle" => Permit(t))
  BY DEF Locate
<1> DEFINE y == [x EXCEPT !.writes = Entered(x.writes, Latest(View(t)), start)]
           c == [NoCall EXCEPT !.phase = "seeking", !.start = start]
<1>4. /\ start \in Starts /\ y \in Open /\ y.snapshot = x.snapshot
      /\ OwnCounted(y, {start})
      /\ Latest(Apply(y.writes, y.snapshot)) <= start
      /\ Apply(y.writes, y.snapshot).count[start] = View(t).count[start] + 1
  BY <1>1, <1>3, SearchRoom
<1>5. c \in Call /\ c.phase = "seeking" /\ c.start = start
  BY <1>4, NoCallIs DEF Call
<1>6. txn' = [txn EXCEPT ![t] = y] /\ call' = [call EXCEPT ![f] = c]
  BY <1>2
<1>7. \A g \in Fiber : TransactionOf[g] = t /\ Working(g) => g = f
  BY <1>3, Alone DEF Working
<1>8. (View(t).count[start] + 1) * 2 < WindowSize(start)
  <2>1. View(t).count \in [Starts -> Nat]
    BY <1>1, <1>3, Opened, OpenFields, ApplyIs DEF View, Sound, Database
  <2>2. Counted(View(t).count, start)[start] = View(t).count[start] + 1
    BY <1>4, <2>1 DEF Counted
  <2> QED BY <1>2, <2>2 DEF Fits
<1> HIDE DEF y, c
<1>9. OwnCounted(y, LookedFor(c)) /\ HalfUsed(c, y)
  BY <1>4, <1>5, <1>8 DEF LookedFor, HalfUsed
<1>10. y.snapshot = txn[TransactionOf[f]].snapshot /\ txn[TransactionOf[f]] # None
  BY <1>3, <1>4
<1> QED BY <1>3, <1>4, <1>5, <1>6, <1>7, <1>9, <1>10, RoomFrame

LEMMA InterruptSearchRoom ==
  ASSUME IInv, RInv, NEW f \in Fiber, InterruptSearch(f)
  PROVE  RInv'
<1> DEFINE t == TransactionOf[f]
           x == txn[t]
<1>1. t \in Transaction
  BY AllocatorAssumption
<1>2. PICK start \in Tried(View(t)) :
        txn' = [txn EXCEPT ![t].writes = Entered(@, Latest(View(t)), start)]
  BY DEF InterruptSearch
<1>3. /\ x # None /\ UNCHANGED <<db, given>> /\ Permit(t)
      /\ call' = [call EXCEPT ![f] = Done]
  BY DEF InterruptSearch
<1> DEFINE y == [x EXCEPT !.writes = Entered(x.writes, Latest(View(t)), start)]
<1>4. y \in Open /\ y.snapshot = x.snapshot /\ OwnCounted(y, {start})
  BY <1>1, <1>3, SearchRoom
<1>5. txn' = [txn EXCEPT ![t] = y]
  BY <1>2
<1>6. \A g \in Fiber : TransactionOf[g] = t /\ Working(g) => g = f
  BY <1>3, Alone
<1> HIDE DEF y
<1>7. OwnCounted(y, LookedFor(Done))
  BY <1>4, OwnFewer, NoCallIs DEF LookedFor
<1>8. Done.phase \notin {"seeking", "claiming"}
  BY NoCallIs
<1>9. y.snapshot = txn[TransactionOf[f]].snapshot /\ txn[TransactionOf[f]] # None
  BY <1>3, <1>4
<1> QED BY <1>3, <1>4, <1>5, <1>6, <1>7, <1>8, <1>9, NoCallIs, RoomFrame

LEMMA SeekRoom ==
  ASSUME IInv, RInv, NEW f \in Fiber, Seek(f)
  PROVE  RInv'
<1> DEFINE t == TransactionOf[f]
           x == txn[t]
<1>1. t \in Transaction /\ call[f] \in Call
  BY AllocatorAssumption DEF IInv, TypeOK
<1>2. PICK candidate \in Window(call[f].start) :
        /\ txn' = [txn EXCEPT ![t].reads = @ \cup ({candidate} \ txn[t].writes.set)]
        /\ call' = [call EXCEPT ![f] =
             [@ EXCEPT !.phase = "claiming", !.candidate = candidate,
                       !.taken = candidate \in View(t).recent, !.latest = Latest(View(t))]]
  BY DEF Seek
<1>3. call[f].phase = "seeking" /\ Working(f) /\ Searching(f) /\ UNCHANGED <<db, given>>
  BY DEF Seek, Working, Searching
<1>4. x # None
  BY <1>3 DEF IInv, Fibers
<1>5. x \in Open /\ Sound(x, given) /\ given \in [Prefix -> Nat]
  BY <1>1, <1>4, Opened
<1>6. call[f].start \in Starts /\ candidate \in Prefix
  BY <1>1, <1>2, Numbers DEF Call
<1> DEFINE y == [x EXCEPT !.reads = @ \cup ({candidate} \ x.writes.set)]
           taken == candidate \in View(t).recent
           c == [call[f] EXCEPT !.phase = "claiming", !.candidate = candidate,
                                !.taken = taken, !.latest = Latest(View(t))]
<1>7. y \in Open /\ y.writes = x.writes /\ y.snapshot = x.snapshot
  BY <1>5, <1>6, SeekKeepsSound
<1>8. Latest(View(t)) \in Starts
  BY <1>5, OpenFields, ApplyIs, LatestIs DEF View, Sound, Database
<1>9. txn' = [txn EXCEPT ![t] = y] /\ call' = [call EXCEPT ![f] = c]
  BY <1>2
<1> HIDE DEF y
<1>10. taken \in BOOLEAN
  OBVIOUS
<1> HIDE DEF taken
<1>11. c \in Call /\ c.phase = "claiming" /\ c.start = call[f].start
  BY <1>1, <1>6, <1>8, <1>10 DEF Call
<1> HIDE DEF c
<1>12. \A g \in Fiber : TransactionOf[g] = t /\ Working(g) => g = f
  BY <1>3, Alone
<1>13. OwnCounted(y, LookedFor(c))
  <2>1. LookedFor(c) = SearchedBy(t)
    BY <1>3, <1>11, <1>12, SearchedAlone DEF LookedFor
  <2>2. OwnCounted(x, SearchedBy(t))
    BY <1>1, <1>4 DEF RInv
  <2> QED BY <1>7, <2>1, <2>2 DEF OwnCounted
<1>14. HalfUsed(c, y)
  BY <1>3, <1>7, <1>11 DEF RInv, HalfUsed
<1> QED BY <1>3, <1>4, <1>7, <1>9, <1>11, <1>12, <1>13, <1>14, RoomFrame

\* A row that was taken is the transaction's or its snapshot's already; one that
\* was free uses what the search counted.
LEMMA ClaimOwn ==
  ASSUME NEW x \in Open, Anchored(x.writes), NEW c \in Call, Current(c, x),
         OwnCounted(x, {c.start}), NEW y \in Open, y.snapshot = x.snapshot,
         y.writes.set = x.writes.set \cup {c.candidate}, y.writes.added = x.writes.added
  PROVE  OwnCounted(y, IF c.taken THEN {c.start} ELSE {})
<1> DEFINE own(z) == z.writes.set \ z.snapshot.recent
           size(s, z) == Cardinality(InWindow(s, own(z)))
           p == c.candidate
           more == IF c.taken THEN {c.start} ELSE {}
<1>1. /\ x.writes \in Writes /\ x.snapshot \in Database /\ x.writes.added \in [Starts -> Nat]
      /\ c.start \in Starts /\ p \in Prefix /\ c.taken \in BOOLEAN
  BY OpenFields DEF Call
<1>2. \A s \in Starts : /\ size(s, x) \in Nat /\ size(s, y) \in Nat
                        /\ x.writes.added[s] \in Nat
  BY <1>1, InWindowIs
<1>3. \A s \in Starts : size(s, x) + (IF s \in {c.start} THEN 1 ELSE 0) <= x.writes.added[s]
  BY DEF OwnCounted
<1>4. p \in Window(c.start)
  BY DEF Current
<1>5. c.taken => own(y) = own(x)
  <2>1. c.taken => p \in x.snapshot.recent \/ p \in x.writes.set
    BY <1>1, ApplyIs DEF Current
  <2> QED BY <2>1
<1>6. ASSUME NEW s \in Starts
      PROVE  size(s, y) + (IF s \in more THEN 1 ELSE 0) <= y.writes.added[s]
  <2>1. CASE c.taken
    <3>1. size(s, y) = size(s, x)
      BY <1>5, <2>1
    <3> HIDE DEF size
    <3> QED BY <1>3, <2>1, <3>1
  <2>2. CASE ~c.taken /\ s = c.start
    <3>1. InWindow(s, own(y)) \subseteq InWindow(s, own(x) \cup {p})
      BY DEF InWindow
    <3>2. /\ Cardinality(InWindow(s, own(y))) <= Cardinality(InWindow(s, own(x) \cup {p}))
          /\ Cardinality(InWindow(s, own(x) \cup {p})) <= Cardinality(InWindow(s, own(x))) + 1
          /\ Cardinality(InWindow(s, own(x) \cup {p})) \in Nat
      BY <3>1, InWindowSubset, InWindowAdd, InWindowIs
    <3>3. size(s, y) <= size(s, x) + 1
      <4>1. size(s, x) \in Nat /\ size(s, y) \in Nat
        BY <1>2
      <4> QED BY <3>2, <4>1
    <3> HIDE DEF size
    <3> QED BY <1>2, <1>3, <2>2, <3>3
  <2>3. CASE ~c.taken /\ s # c.start
    <3>1. p \notin Window(s)
      BY <1>1, <1>4, <2>3, WindowsApart
    <3>2. InWindow(s, own(y)) \subseteq InWindow(s, own(x))
      BY <3>1 DEF InWindow
    <3>3. size(s, y) <= size(s, x)
      BY <3>2, InWindowSubset
    <3> HIDE DEF size
    <3> QED BY <1>2, <1>3, <2>3, <3>3
  <2> QED BY <2>1, <2>2, <2>3
<1> QED BY <1>6 DEF OwnCounted

LEMMA ClaimRoom ==
  ASSUME IInv, RInv, NEW f \in Fiber, Claim(f)
  PROVE  RInv'
<1> DEFINE t == TransactionOf[f]
           x == txn[t]
           c == call[f]
           y == Claimed(x, c)
           d == IF Returned(c) THEN Done
                ELSE [c EXCEPT !.phase = IF c.latest > c.start THEN "locating" ELSE "seeking"]
<1>1. t \in Transaction /\ c \in Call
  BY AllocatorAssumption DEF IInv, TypeOK
<1>2. /\ c.phase = "claiming" /\ Working(f) /\ Searching(f) /\ UNCHANGED <<db, given>>
      /\ txn' = [txn EXCEPT ![t] = y] /\ call' = [call EXCEPT ![f] = d]
  BY DEF Claim, Working, Searching
<1>3. x # None /\ Current(c, x)
  BY <1>2 DEF IInv, Fibers
<1>4. x \in Open /\ Sound(x, given) /\ given \in [Prefix -> Nat]
  BY <1>1, <1>3, Opened
<1>5. y \in Open
  BY <1>1, <1>3, <1>4, ClaimKeepsSound
<1>6. /\ y.snapshot = x.snapshot /\ y.writes.below = x.writes.below
      /\ y.writes.added = x.writes.added /\ y.writes.set = x.writes.set \cup {c.candidate}
  <2>1. x.writes \in Writes
    BY <1>4, OpenFields
  <2> DEFINE w == [x.writes EXCEPT !.set = @ \cup {c.candidate}]
  <2>2. /\ w.below = x.writes.below /\ w.added = x.writes.added
        /\ w.set = x.writes.set \cup {c.candidate}
    BY <2>1 DEF Writes
  <2>3. y.writes = w /\ y.snapshot = x.snapshot
    BY <1>4 DEF Claimed, Open
  <2> QED BY <2>2, <2>3
<1>7. /\ d \in Call /\ (Returned(c) => d.phase = "done")
      /\ ~Returned(c) => /\ d.start = c.start
                         /\ d.phase = IF c.latest > c.start THEN "locating" ELSE "seeking"
  BY <1>1, NoCallIs DEF Call
<1>8. \A g \in Fiber : TransactionOf[g] = t /\ Working(g) => g = f
  BY <1>2, Alone
<1>9. OwnCounted(x, {c.start}) /\ HalfUsed(c, x)
  <2>1. SearchedBy(t) = {c.start}
    BY <1>2, <1>8, SearchedAlone DEF LookedFor
  <2> QED BY <1>1, <1>2, <1>3, <2>1 DEF RInv
<1> HIDE DEF y, d
<1>10. OwnCounted(y, IF c.taken THEN {c.start} ELSE {})
  BY <1>1, <1>3, <1>4, <1>5, <1>6, <1>9, ClaimOwn DEF Sound
<1>11. OwnCounted(y, LookedFor(d))
  <2>1. c.latest \in Nat /\ c.start \in Nat
    BY <1>1, Numbers DEF Call
  <2>2. d.phase \in {"seeking", "claiming"} => c.taken /\ d.start = c.start
    BY <1>7, <2>1 DEF Returned
  <2>3. OwnCounted(y, {})
    BY <1>5, <1>10, OwnFewer
  <2> QED BY <1>10, <2>2, <2>3 DEF LookedFor
<1>12. d.phase \in {"seeking", "claiming"} => HalfUsed(d, y)
  <2> DEFINE view == Apply(x.writes, x.snapshot)
             new == Apply(y.writes, y.snapshot)
  <2>1. new.count = view.count
    BY <1>6 DEF Apply
  <2>2. Latest(new) = Latest(view)
    BY <2>1 DEF Latest
  <2>3. d.phase \in {"seeking", "claiming"} => d.start = c.start
    BY <1>7
  <2> QED BY <1>9, <2>1, <2>2, <2>3 DEF HalfUsed
<1>13. y.snapshot = txn[TransactionOf[f]].snapshot /\ txn[TransactionOf[f]] # None
  BY <1>3, <1>6
<1> QED BY <1>2, <1>5, <1>7, <1>8, <1>11, <1>12, <1>13, RoomFrame

LEMMA InterruptRoom ==
  ASSUME IInv, RInv, NEW f \in Fiber, Interrupt(f)
  PROVE  RInv'
<1> DEFINE t == TransactionOf[f]
<1>1. t \in Transaction /\ txn \in [Transaction -> Open \cup {None}]
  BY AllocatorAssumption DEF IInv, TypeOK
<1>2. Working(f) /\ txn[t] # None /\ UNCHANGED <<db, given, txn>>
      /\ call' = [call EXCEPT ![f] = Done]
  BY DEF Interrupt, IInv, Fibers
<1>3. txn[t] \in Open
  BY <1>1, <1>2
<1>4. txn' = [txn EXCEPT ![t] = txn[t]]
  BY <1>1, <1>2
<1>5. \A g \in Fiber : TransactionOf[g] = t /\ Working(g) => g = f
  BY <1>2, Alone
<1>6. OwnCounted(txn[t], LookedFor(Done)) /\ Done.phase \notin {"seeking", "claiming"}
  BY <1>1, <1>2, OwnBefore, NoCallIs DEF LookedFor
<1> QED BY <1>2, <1>3, <1>4, <1>5, <1>6, NoCallIs, RoomFrame

-----------------------------------------------------------------------------
(* Transactions begin and end                                              *)

LEMMA BeginRoom ==
  ASSUME IInv, RInv, NEW t \in Transaction, Begin(t)
  PROVE  RInv'
<1> DEFINE x == [snapshot |-> db, writes |-> NoWrites, reads |-> {}, claims |-> {},
                 since |-> {}, got |-> [p \in Prefix |-> 0]]
<1>1. /\ txn[t] = None /\ txn' = [txn EXCEPT ![t] = x] /\ UNCHANGED <<db, call, given>>
      /\ txn \in [Transaction -> Open \cup {None}]
  BY DEF Begin, IInv, TypeOK
<1>2. x.snapshot = db /\ x.writes = NoWrites
  OBVIOUS
<1> HIDE DEF x
<1>3. /\ \A u \in Transaction : txn'[u] = IF u = t THEN x ELSE txn[u]
      /\ \A u \in Transaction : SearchedBy(u)' = SearchedBy(u)
      /\ \A f \in Fiber : Searching(f)' <=> Searching(f)
  BY <1>1 DEF SearchedBy, Searching
<1>4. \A f \in Fiber : Searching(f) => TransactionOf[f] # t /\ TransactionOf[f] \in Transaction
  BY <1>1, AllocatorAssumption DEF Searching, Working, IInv, Fibers
<1>5. OwnCounted(x, SearchedBy(t))
  <2>1. SearchedBy(t) = {}
    BY <1>4 DEF SearchedBy
  <2>2. ASSUME NEW s \in Starts
        PROVE  /\ Cardinality(InWindow(s, x.writes.set \ x.snapshot.recent)) = 0
               /\ x.writes.added[s] = 0
    <3>1. x.writes.set = {} /\ x.writes.added[s] = 0
      BY <1>2 DEF NoWrites
    <3>2. InWindow(s, x.writes.set \ x.snapshot.recent) = {}
      BY <3>1 DEF InWindow
    <3> QED BY <3>1, <3>2, InWindowNothing
  <2> QED BY <2>1, <2>2 DEF OwnCounted
<1>6. ASSUME NEW u \in Transaction, txn'[u] # None
      PROVE  /\ RowsCounted(txn'[u].snapshot) /\ SnapshotKept(txn'[u], db')
             /\ OwnCounted(txn'[u], SearchedBy(u)')
  <2>1. CASE u = t
    BY <1>1, <1>2, <1>3, <1>5, <2>1 DEF RInv, SnapshotKept
  <2>2. CASE u # t
    <3>1. txn'[u] = txn[u] /\ SearchedBy(u)' = SearchedBy(u) /\ db' = db
      BY <1>1, <1>3, <2>2
    <3>2. RowsCounted(txn[u].snapshot) /\ SnapshotKept(txn[u], db) /\ OwnCounted(txn[u], SearchedBy(u))
      BY <1>6, <3>1 DEF RInv
    <3> QED BY <3>1, <3>2
  <2> QED BY <2>1, <2>2
<1>7. \A f \in Fiber : Searching(f)' => HalfUsed(call'[f], txn'[TransactionOf[f]])
  BY <1>1, <1>3, <1>4 DEF RInv
<1>8. (\A u \in Transaction : txn[u] # None =>
         /\ RowsCounted(txn[u].snapshot) /\ SnapshotKept(txn[u], db)
         /\ OwnCounted(txn[u], SearchedBy(u)))'
  BY <1>6
<1>9. RowsCounted(db)'
  BY <1>1 DEF RInv, RowsCounted
<1> QED BY <1>7, <1>8, <1>9 DEF RInv

\* The transactions that stay open keep what they read, wrote and search, and
\* have their snapshots in the database that replaces db.
LEMMA EndRoom ==
  ASSUME IInv, RInv, NEW t \in Transaction, Closed(t), txn'[t] = None,
         \A u \in Transaction \ {t} :
           /\ txn'[u] # None => txn[u] # None
           /\ txn[u] # None => /\ txn'[u].writes = txn[u].writes
                               /\ txn'[u].snapshot = txn[u].snapshot
                               /\ SnapshotKept(txn[u], db'),
         RowsCounted(db)'
  PROVE  RInv'
<1>1. \A f \in Fiber : call'[f] = IF TransactionOf[f] = t THEN NoCall ELSE call[f]
  BY DEF Closed
<1>2. \A f \in Fiber : Searching(f)' => Searching(f) /\ TransactionOf[f] # t /\ call'[f] = call[f]
  BY <1>1, NoCallIs DEF Searching
<1>3. \A u \in Transaction \ {t} : SearchedBy(u)' = SearchedBy(u)
  BY <1>1 DEF SearchedBy, Searching
<1>4. ASSUME NEW u \in Transaction, txn'[u] # None
      PROVE  /\ RowsCounted(txn'[u].snapshot) /\ SnapshotKept(txn'[u], db')
             /\ OwnCounted(txn'[u], SearchedBy(u)')
  <2>1. u # t /\ txn[u] # None
    BY <1>4
  <2>2. /\ txn'[u].writes = txn[u].writes /\ txn'[u].snapshot = txn[u].snapshot
        /\ SnapshotKept(txn[u], db') /\ SearchedBy(u)' = SearchedBy(u)
    BY <1>3, <2>1
  <2>3. RowsCounted(txn[u].snapshot) /\ OwnCounted(txn[u], SearchedBy(u))
    BY <2>1 DEF RInv
  <2> QED BY <2>2, <2>3 DEF SnapshotKept, OwnCounted
<1>5. ASSUME NEW f \in Fiber, Searching(f)'
      PROVE  HalfUsed(call'[f], txn'[TransactionOf[f]])
  <2>1. /\ Searching(f) /\ call'[f] = call[f] /\ TransactionOf[f] \in Transaction \ {t}
        /\ txn[TransactionOf[f]] # None
    BY <1>2, <1>5, AllocatorAssumption DEF Searching, Working, IInv, Fibers
  <2>2. HalfUsed(call[f], txn[TransactionOf[f]])
    BY <2>1 DEF RInv
  <2>3. /\ txn'[TransactionOf[f]].writes = txn[TransactionOf[f]].writes
        /\ txn'[TransactionOf[f]].snapshot = txn[TransactionOf[f]].snapshot
    BY <2>1
  <2> QED BY <2>1, <2>2, <2>3 DEF HalfUsed
<1>6. (\A u \in Transaction : txn[u] # None =>
         /\ RowsCounted(txn[u].snapshot) /\ SnapshotKept(txn[u], db)
         /\ OwnCounted(txn[u], SearchedBy(u)))'
  BY <1>4
<1> QED BY <1>5, <1>6 DEF RInv

LEMMA AbortRoom ==
  ASSUME IInv, RInv, NEW t \in Transaction, Abort(t)
  PROVE  RInv'
<1>1. /\ txn' = [txn EXCEPT ![t] = None] /\ Closed(t) /\ UNCHANGED db
      /\ txn \in [Transaction -> Open \cup {None}]
  BY DEF Abort, IInv, TypeOK
<1>2. \A u \in Transaction : txn'[u] = IF u = t THEN None ELSE txn[u]
  BY <1>1
<1>3. RowsCounted(db)'
  BY <1>1 DEF RInv, RowsCounted
<1>4. \A u \in Transaction : txn[u] # None => SnapshotKept(txn[u], db')
  BY <1>1 DEF RInv
<1> QED BY <1>1, <1>2, <1>3, <1>4, EndRoom

\* The rows a commit adds to a window were counted by it or are there already.
LEMMA CommitCounted ==
  ASSUME IInv, RInv, NEW t \in Transaction, Commit(t)
  PROVE  RowsCounted(db)'
<1> DEFINE x == txn[t]
           own == x.writes.set \ x.snapshot.recent
<1>1. txn[t] # None /\ db' = Apply(x.writes, db)
  BY DEF Commit
<1>2. /\ x \in Open /\ Sound(x, given) /\ db \in Database /\ x.writes \in Writes
      /\ Anchored(x.writes) /\ x.writes.added \in [Starts -> Nat] /\ x.snapshot \in Database
  BY <1>1, Opened, OpenFields DEF IInv, TypeOK, Sound
<1>3. /\ db' \in Database /\ Latest(db') >= Latest(db) /\ Latest(db') >= x.writes.below
      /\ \A p \in Prefix :
           p \in db'.recent <=> (p \in db.recent /\ p >= x.writes.below) \/ p \in x.writes.set
  BY <1>1, <1>2, ApplyIs
<1>4. /\ Latest(db') \in Nat /\ Latest(db) \in Nat /\ x.writes.below \in Nat
      /\ x.writes.set \subseteq Prefix
  BY <1>2, <1>3, OpenFields, LatestIs, Numbers DEF Database
<1>5. OwnCounted(x, {}) /\ SnapshotKept(x, db) /\ RowsCounted(db)
  BY <1>1, OwnBefore DEF RInv
<1>6. ASSUME NEW s \in Starts, s >= Latest(db')
      PROVE  Cardinality(InWindow(s, db'.recent)) <= db'.count[s]
  <2>1. s \in Nat /\ s >= Latest(db) /\ s >= x.writes.below
    BY <1>3, <1>4, <1>6, Numbers
  <2>2. db'.count[s] = db.count[s] + x.writes.added[s]
    <3>1. ~(s < x.writes.below)
      BY <1>4, <2>1
    <3> QED BY <1>1, <1>2, <3>1, ApplyCount
  <2>3. InWindow(s, db'.recent) \subseteq InWindow(s, db.recent) \cup InWindow(s, own)
    <3>1. \A p \in Window(s) : p \in Prefix /\ p >= Latest(db)
      BY <1>4, <2>1, Numbers, WindowIs
    <3> QED BY <1>3, <1>5, <3>1 DEF InWindow, SnapshotKept
  <2>4. Cardinality(InWindow(s, db'.recent))
          <= Cardinality(InWindow(s, db.recent)) + Cardinality(InWindow(s, own))
    BY <2>3, InWindowUnion
  <2>5. Cardinality(InWindow(s, db.recent)) <= db.count[s]
    BY <1>5, <2>1 DEF RowsCounted
  <2>6. Cardinality(InWindow(s, own)) + 0 <= x.writes.added[s]
    BY <1>5 DEF OwnCounted
  <2>7. /\ Cardinality(InWindow(s, db'.recent)) \in Nat
        /\ Cardinality(InWindow(s, db.recent)) \in Nat
        /\ Cardinality(InWindow(s, own)) \in Nat
        /\ db.count[s] \in Nat /\ x.writes.added[s] \in Nat
    BY <1>2, InWindowIs DEF Database
  <2> QED BY <2>2, <2>4, <2>5, <2>6, <2>7
<1> QED BY <1>6 DEF RowsCounted

LEMMA CommitRoom ==
  ASSUME IInv, RInv, NEW t \in Transaction, Commit(t)
  PROVE  RInv'
<1> DEFINE x == txn[t]
           Seen(u) == [txn[u] EXCEPT !.since = @ \cup x.claims]
<1>1. /\ x # None /\ db' = Apply(x.writes, db) /\ Closed(t)
      /\ txn' = [u \in Transaction |-> IF u = t \/ txn[u] = None THEN None ELSE Seen(u)]
  BY DEF Commit
<1>2. /\ x \in Open /\ Sound(x, given) /\ db \in Database
      /\ txn \in [Transaction -> Open \cup {None}]
  BY <1>1, Opened DEF IInv, TypeOK
<1>3. \A u \in Transaction : txn[u] # None =>
        Seen(u).snapshot = txn[u].snapshot /\ Seen(u).writes = txn[u].writes
  BY <1>2, OpenFields DEF Open
<1> HIDE DEF Seen
<1>4. /\ txn'[t] = None
      /\ \A u \in Transaction \ {t} :
           /\ txn'[u] # None => txn[u] # None
           /\ txn[u] # None => txn'[u] = Seen(u)
  BY <1>1
<1>5. /\ db' \in Database /\ Latest(db') >= Latest(db) /\ Latest(db') >= x.writes.below
      /\ \A p \in Prefix :
           p \in db'.recent <=> (p \in db.recent /\ p >= x.writes.below) \/ p \in x.writes.set
  BY <1>1, <1>2, OpenFields, ApplyIs DEF Sound
<1>6. /\ Latest(db') \in Nat /\ Latest(db) \in Nat /\ x.writes.below \in Nat
      /\ \A p \in Prefix : p \in Nat
  BY <1>2, <1>5, OpenFields, LatestIs, Numbers DEF Database
<1>7. ASSUME NEW u \in Transaction, txn[u] # None
      PROVE  SnapshotKept(txn[u], db')
  <2>1. SnapshotKept(txn[u], db) /\ txn[u].snapshot.recent \subseteq Prefix
    BY <1>2, <1>7, OpenFields DEF RInv, Database
  <2> QED BY <1>5, <1>6, <2>1 DEF SnapshotKept
<1>8. RowsCounted(db)'
  BY CommitCounted
<1> QED BY <1>1, <1>3, <1>4, <1>7, <1>8, EndRoom

LEMMA InitRoom == Init => RInv
<1> SUFFICES ASSUME Init PROVE RInv
  OBVIOUS
<1>1. \A t \in Transaction : txn[t] = None
  BY DEF Init
<1>2. \A f \in Fiber : ~Searching(f)
  BY NoCallIs DEF Init, Searching
<1>3. RowsCounted(db)
  <2>1. ASSUME NEW s \in Starts
        PROVE  Cardinality(InWindow(s, db.recent)) <= db.count[s]
    <3>1. InWindow(s, db.recent) = {} /\ db.count[s] = 0
      BY DEF Init, InWindow
    <3> QED BY <3>1, InWindowNothing
  <2> QED BY <2>1 DEF RowsCounted
<1> QED BY <1>1, <1>2, <1>3 DEF RInv

LEMMA NextRoom == IInv /\ RInv /\ [Next]_vars => RInv'
<1> SUFFICES ASSUME IInv, RInv, [Next]_vars PROVE RInv'
  OBVIOUS
<1>1. CASE UNCHANGED vars
  BY <1>1 DEF vars, RInv, RowsCounted, SearchedBy, Searching
<1>2. ASSUME NEW t \in Transaction, Begin(t) PROVE RInv'
  BY <1>2, BeginRoom
<1>3. ASSUME NEW t \in Transaction, Commit(t) PROVE RInv'
  BY <1>3, CommitRoom
<1>4. ASSUME NEW t \in Transaction, Abort(t) PROVE RInv'
  BY <1>4, AbortRoom
<1>5. ASSUME NEW f \in Fiber, FiberStep(f) PROVE RInv'
  BY <1>5, LocateRoom, InterruptSearchRoom, SeekRoom, ClaimRoom, InterruptRoom DEF FiberStep
<1> QED BY <1>1, <1>2, <1>3, <1>4, <1>5 DEF Next

\* As many rows are taken as were counted at most, and less than half the
\* window was counted.
LEMMA ProvideRoom == IInv /\ RInv => WindowHasRoom
<1> SUFFICES ASSUME IInv, RInv, NEW f \in Fiber, call[f].phase = "seeking"
             PROVE  \E p \in Window(call[f].start) : p \notin View(TransactionOf[f]).recent
  BY DEF WindowHasRoom
<1> DEFINE t == TransactionOf[f]
           x == txn[t]
           s == call[f].start
           own == x.writes.set \ x.snapshot.recent
<1>1. /\ t \in Transaction /\ s \in Starts /\ Searching(f) /\ Working(f)
  BY AllocatorAssumption DEF IInv, TypeOK, Call, Searching, Working
<1>2. txn[t] # None
  BY <1>1 DEF IInv, Fibers
<1>3. /\ x \in Open /\ Anchored(x.writes) /\ x.writes \in Writes /\ x.snapshot \in Database
      /\ x.writes.added \in [Starts -> Nat]
  BY <1>1, <1>2, Opened, OpenFields DEF Sound
<1> DEFINE view == Apply(x.writes, x.snapshot)
<1>4. /\ view \in Database /\ Latest(view) >= Latest(x.snapshot) /\ Latest(view) >= x.writes.below
      /\ \A p \in Prefix :
           p \in view.recent <=> (p \in x.snapshot.recent /\ p >= x.writes.below)
                                 \/ p \in x.writes.set
      /\ view.count[s] = (IF s < x.writes.below THEN 0 ELSE x.snapshot.count[s])
                           + x.writes.added[s]
  BY <1>1, <1>3, ApplyIs, ApplyCount
<1>5. View(t) = view
  BY DEF View
<1>6. Latest(view) <= s /\ view.count[s] * 2 < WindowSize(s)
  BY <1>1 DEF RInv, HalfUsed
<1> HIDE DEF view
<1>7. /\ Latest(view) \in Nat /\ Latest(x.snapshot) \in Nat /\ x.writes.below \in Nat /\ s \in Nat
      /\ x.snapshot.count[s] \in Nat /\ x.writes.added[s] \in Nat
      /\ view.count[s] \in Nat /\ WindowSize(s) \in Nat
  BY <1>1, <1>3, <1>4, OpenFields, LatestIs, Numbers, WindowIs DEF Database
<1> DEFINE now == Latest(view)
           old == Latest(x.snapshot)
           cut == x.writes.below
           new == Cardinality(InWindow(s, view.recent))
           was == Cardinality(InWindow(s, x.snapshot.recent))
           mine == Cardinality(InWindow(s, own))
           seen == x.snapshot.count[s]
           added == x.writes.added[s]
           size == WindowSize(s)
           here == s
<1>8. s >= Latest(x.snapshot) /\ ~(s < x.writes.below)
  <2>1. now \in Nat /\ old \in Nat /\ cut \in Nat /\ here \in Nat
    BY <1>7
  <2>2. now >= old /\ now >= cut /\ now <= here
    BY <1>4, <1>6
  <2> HIDE DEF now, old, cut, here
  <2>3. here >= old /\ ~(here < cut)
    BY <2>1, <2>2
  <2> QED BY <2>3 DEF old, cut, here
<1>9. Cardinality(InWindow(s, x.snapshot.recent)) <= x.snapshot.count[s]
  BY <1>1, <1>2, <1>8 DEF RInv, RowsCounted
<1>10. Cardinality(InWindow(s, own)) + 0 <= x.writes.added[s]
  BY <1>1, <1>2, OwnBefore DEF OwnCounted
<1>11. InWindow(s, view.recent) \subseteq InWindow(s, x.snapshot.recent) \cup InWindow(s, own)
  <2>1. \A p \in Window(s) : p \in Prefix
    BY <1>1, Numbers
  <2> QED BY <1>4, <2>1 DEF InWindow
<1>12. Cardinality(InWindow(s, view.recent))
         <= Cardinality(InWindow(s, x.snapshot.recent)) + Cardinality(InWindow(s, own))
  BY <1>1, <1>11, InWindowUnion
<1>13. /\ Cardinality(InWindow(s, view.recent)) \in Nat
       /\ Cardinality(InWindow(s, x.snapshot.recent)) \in Nat
       /\ Cardinality(InWindow(s, own)) \in Nat
  BY <1>1, InWindowIs
<1>14. Cardinality(InWindow(s, view.recent)) < WindowSize(s)
  <2>1. new \in Nat /\ was \in Nat /\ mine \in Nat /\ seen \in Nat /\ added \in Nat
        /\ size \in Nat
    BY <1>7, <1>13
  <2>2. view.count[s] = seen + added
    BY <1>1, <1>4, <1>8
  <2>3. (seen + added) * 2 < size
    BY <1>6, <2>2
  <2>4. new <= was + mine /\ was <= seen /\ mine + 0 <= added
    BY <1>9, <1>10, <1>12
  <2> HIDE DEF new, was, mine, seen, added, size
  <2>5. new < size
    BY <2>1, <2>3, <2>4
  <2> QED BY <2>5 DEF new, size
<1>15. SUFFICES ASSUME \A p \in Window(s) : p \in view.recent PROVE FALSE
  BY <1>5
<1>16. InWindow(s, view.recent) = Window(s)
  BY <1>15 DEF InWindow
<1>17. Cardinality(Window(s)) = WindowSize(s)
  BY <1>1, WindowIs
<1> QED BY <1>7, <1>14, <1>16, <1>17

\* A call that looks for a candidate finds one, however the searches of other
\* fibers were interrupted and whatever commits: the loop of
\* allocator.ts:123-153 cannot go on for want of a free row.
THEOREM RoomRemains == Spec => []WindowHasRoom
BY InitInv, NextInv, InitRoom, NextRoom, ProvideRoom, PTL DEF Spec
=============================================================================
