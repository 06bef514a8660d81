------------------------- MODULE DirectoryAllocator -------------------------
(***************************************************************************)
(* The high contention allocator of directory prefixes:                    *)
(* src/directory/allocator.ts.                                             *)
(*                                                                         *)
(* Candidates are drawn at random from the window that starts at the       *)
(* greatest counter.  Counters are read by snapshot, incremented atomically *)
(* and cleared without write conflicts, so allocations conflict only when  *)
(* they draw the same candidate.  When a window is half used the next one  *)
(* is entered, and what is known of the older ones is cleared.             *)
(*                                                                         *)
(* Transactions are optimistic: they read the database of their read       *)
(* version under their own writes, and commit unless a key they have a     *)
(* read conflict on was written, with a write conflict, since then.        *)
(* Several fibers may allocate in one transaction.                         *)
(***************************************************************************)
EXTENDS Integers, FiniteSets

CONSTANTS
  Transaction,    \* transactions that are open at a time
  Fiber,          \* fibers that allocate a prefix
  TransactionOf,  \* TransactionOf[f]: the transaction fiber f allocates in
  None,           \* undefined
  SmallWindow,    \* size of the windows that start before Boundary; 64
  LargeWindow,    \* size of the others; 1024 (and 8192 from 65535)
  Boundary,       \* 255
  Starts,         \* bound: the windows that are ever entered, by their starts
  MaxCount,       \* bound: counters that interrupted searches add to
  MaxGiven        \* bound: transactions begin until this many were handed out

VARIABLES
  db,    \* the counters and the recent candidates
  txn,   \* txn[t]: the open transaction, or None
  call,  \* call[f]: the allocation of fiber f
  given  \* history: how often each prefix was handed out by a commit

vars == <<db, txn, call, given>>

WindowSize(start) == IF start < Boundary THEN SmallWindow ELSE LargeWindow

Window(start) == start .. start + WindowSize(start) - 1

Prefix == UNION {s .. s + WindowSize(s) - 1 : s \in Starts}

\* The starts are 0, and where the window before it ends.
ASSUME AllocatorAssumption ==
  /\ TransactionOf \in [Fiber -> Transaction]
  /\ SmallWindow \in Nat \ {0} /\ LargeWindow \in Nat \ {0} /\ Boundary \in Nat
  /\ Starts \subseteq Nat /\ 0 \in Starts /\ \E m \in Starts : \A s \in Starts : s <= m
  /\ \A s \in Starts \ {0} : \E r \in Starts : s = r + WindowSize(r)
  /\ MaxCount \in Nat /\ MaxGiven \in Nat

Database == [count : [Starts -> Nat], recent : SUBSET Prefix]

\* Writes that are not committed yet: everything below `below` is cleared,
\* then counters are added to and candidates are set.
Writes == [below : Starts, added : [Starts -> Nat], set : SUBSET Prefix]
NoWrites == [below |-> 0, added |-> [s \in Starts |-> 0], set |-> {}]

Open ==
  [snapshot : Database, writes : Writes,
   reads  : SUBSET Prefix,   \* read conflicts
   claims : SUBSET Prefix,   \* write conflicts
   since  : SUBSET Prefix,   \* write conflicts committed since the read version
   got    : [Prefix -> Nat]] \* how often its calls returned each prefix

ASSUME NoneAssumption == None \notin Open

Call ==
  [phase : {"idle", "locating", "seeking", "claiming", "done"}, start : Starts,
   candidate : Prefix, taken : BOOLEAN, latest : Starts]

NoCall == [phase |-> "idle", start |-> 0, candidate |-> 0, taken |-> FALSE, latest |-> 0]
Done == [NoCall EXCEPT !.phase = "done"]

-----------------------------------------------------------------------------
(* The database under the writes of a transaction                          *)

\* Mutant: the window that is entered is cleared too.
KeptBeyond(recent, start) == {p \in recent : start = 0 \/ p >= start + WindowSize(start)}
Kept(recent, start) == {p \in recent : p >= start}

CountKept(count, start) == [s \in Starts |-> IF s < start THEN 0 ELSE count[s]]

Apply(writes, base) ==
  LET count == CountKept(base.count, writes.below)
  IN  [count  |-> [s \in Starts |-> count[s] + writes.added[s]],
       recent |-> Kept(base.recent, writes.below) \cup writes.set]

View(t) == Apply(txn[t].writes, txn[t].snapshot)

\* Mutant: the counters are not read in reverse.
LatestForward(base) ==
  LET present == {s \in Starts : base.count[s] > 0}
  IN  IF present = {} THEN 0 ELSE CHOOSE s \in present : \A r \in present : s <= r

\* The greatest counter that exists; an ADD creates one, a clear removes it.
Latest(base) ==
  LET present == {s \in Starts : base.count[s] > 0}
  IN  IF present = {} THEN 0 ELSE CHOOSE s \in present : \A r \in present : r <= s

-----------------------------------------------------------------------------

Init ==
  /\ db = [count |-> [s \in Starts |-> 0], recent |-> {}]
  /\ txn = [t \in Transaction |-> None]
  /\ call = [f \in Fiber |-> NoCall]
  /\ given = [p \in Prefix |-> 0]

Begin(t) ==
  /\ txn[t] = None
  /\ Cardinality({p \in Prefix : given[p] > 0}) < MaxGiven
  /\ txn' = [txn EXCEPT ![t] =
       [snapshot |-> db, writes |-> NoWrites, reads |-> {}, claims |-> {}, since |-> {},
        got |-> [p \in Prefix |-> 0]]]
  /\ UNCHANGED <<db, call, given>>

Working(f) == call[f].phase \in {"locating", "seeking", "claiming"}

\* Mutant: allocations of one transaction do not wait for each other.
PermitAlways(t) == TRUE

\* allocationSemaphore: one allocation at a time in a transaction.
Permit(t) == \A f \in Fiber : TransactionOf[f] = t => ~Working(f)

Counted(count, start) == [count EXCEPT ![start] = @ + 1]

\* Mutant: the factor is on the wrong side.
FitsTwice(base, start) == Counted(base.count, start)[start] < WindowSize(start) * 2

\* This allocation counted, the window is less than half used.
Fits(base, start) == Counted(base.count, start)[start] * 2 < WindowSize(start)

\* Windows the search comes to: the latest, and the next while they do not fit.
Tried(base) ==
  {s \in Starts : /\ s >= Latest(base)
                  /\ \A r \in Starts : Latest(base) <= r /\ r < s => ~Fits(base, r)}

\* Writes of the search: entering a window clears the older ones.
Entered(writes, latest, start) ==
  IF start = latest
  THEN [writes EXCEPT !.added = Counted(@, start)]
  ELSE [below |-> start,
        added |-> Counted(CountKept(writes.added, start), start),
        set |-> Kept(writes.set, start)]

\* The loop up to the choice of a window.
Locate(f) ==
  LET t == TransactionOf[f]
  IN  /\ txn[t] # None
      /\ call[f].phase \in {"idle", "locating"}
      /\ call[f].phase = "idle" => Permit(t)
      /\ \E start \in Tried(View(t)) :
           /\ Fits(View(t), start)
           /\ txn' = [txn EXCEPT ![t].writes = Entered(@, Latest(View(t)), start)]
           /\ call' = [call EXCEPT ![f] = [NoCall EXCEPT !.phase = "seeking", !.start = start]]
      /\ UNCHANGED <<db, given>>

\* A call is interrupted while it reads the counter of a full window, and what
\* it wrote stays in the transaction.
InterruptSearch(f) ==
  LET t == TransactionOf[f]
  IN  /\ txn[t] # None
      /\ call[f].phase = "idle" /\ Permit(t)
      /\ \E start \in Tried(View(t)) :
           /\ ~Fits(View(t), start)
           /\ View(t).count[start] < MaxCount
           /\ txn' = [txn EXCEPT ![t].writes = Entered(@, Latest(View(t)), start)]
      /\ call' = [call EXCEPT ![f] = Done]
      /\ UNCHANGED <<db, given>>

\* A candidate is drawn, the latest counter and the candidate's row are read;
\* a row the transaction set itself is known without a read conflict.
Seek(f) ==
  LET t == TransactionOf[f]
  IN  /\ call[f].phase = "seeking"
      /\ \E candidate \in Window(call[f].start) :
           /\ txn' = [txn EXCEPT ![t].reads = @ \cup ({candidate} \ txn[t].writes.set)]
           /\ call' = [call EXCEPT ![f] =
                [@ EXCEPT !.phase = "claiming", !.candidate = candidate,
                          !.taken = candidate \in View(t).recent,
                          !.latest = Latest(View(t))]]
      /\ UNCHANGED <<db, given>>

\* The row is set without a write conflict.  The candidate is returned, with
\* one, if its window is the latest and its row was free.  While allocations
\* have the transaction one at a time, the window they found is the latest.
Returned(c) == c.latest <= c.start /\ ~c.taken

Claimed(x, c) ==
  IF Returned(c)
  THEN [x EXCEPT !.writes.set = @ \cup {c.candidate},
                 !.claims = @ \cup {c.candidate},
                 !.got[c.candidate] = @ + 1]
  ELSE [x EXCEPT !.writes.set = @ \cup {c.candidate}]

Claim(f) ==
  LET t == TransactionOf[f]
      c == call[f]
  IN  /\ c.phase = "claiming"
      /\ txn' = [txn EXCEPT ![t] = Claimed(@, c)]
      /\ call' = [call EXCEPT ![f] =
           IF Returned(c) THEN Done
           ELSE [@ EXCEPT !.phase = IF c.latest > c.start THEN "locating" ELSE "seeking"]]
      /\ UNCHANGED <<db, given>>

Interrupt(f) ==
  /\ Working(f)
  /\ call' = [call EXCEPT ![f] = Done]
  /\ UNCHANGED <<db, txn, given>>

Closed(t) == call' = [f \in Fiber |-> IF TransactionOf[f] = t THEN NoCall ELSE call[f]]

Conflicting(t) == txn[t].reads \cap txn[t].since # {}

\* The commit is applied.  Whether the answer arrives makes no difference: a
\* replay is a new transaction.
Commit(t) ==
  /\ txn[t] # None
  /\ \A f \in Fiber : TransactionOf[f] = t => ~Working(f)
  /\ ~Conflicting(t)
  /\ db' = Apply(txn[t].writes, db)
  /\ given' = [p \in Prefix |-> given[p] + txn[t].got[p]]
  /\ txn' = [u \in Transaction |->
       IF u = t \/ txn[u] = None THEN None
       ELSE [txn[u] EXCEPT !.since = @ \cup txn[t].claims]]
  /\ Closed(t)

\* The commit conflicts, or the transaction is abandoned or fails.
Abort(t) ==
  /\ txn[t] # None
  /\ txn' = [txn EXCEPT ![t] = None]
  /\ Closed(t)
  /\ UNCHANGED <<db, given>>

FiberStep(f) == Locate(f) \/ InterruptSearch(f) \/ Seek(f) \/ Claim(f) \/ Interrupt(f)

Next ==
  \/ \E t \in Transaction : Begin(t) \/ Commit(t) \/ Abort(t)
  \/ \E f \in Fiber : FiberStep(f)

Spec == Init /\ [][Next]_vars

-----------------------------------------------------------------------------
(* Properties                                                              *)

\* Every variable has its type.
TypeOK ==
  /\ db \in Database
  /\ txn \in [Transaction -> Open \cup {None}]
  /\ call \in [Fiber -> Call]
  /\ given \in [Prefix -> Nat]

\* No prefix is handed out twice, by transactions that race, by one that read
\* before a window was cleared, or by fibers of one transaction
\* (allocator.ts:83-156, README.md:266 "concurrent automatic prefix allocation").
PrefixesUnique == \A p \in Prefix : given[p] <= 1

\* Clearing old windows (allocator.ts:93-107) forgets no prefix that can be
\* drawn again: those of the latest window and beyond keep their rows.
RecentCoversWindow ==
  \A p \in Prefix : given[p] > 0 /\ p >= Latest(db) => p \in db.recent

\* A call that looks for a candidate can find one: its window has a free row,
\* or the loop of allocator.ts:123-153 would never end.
WindowHasRoom ==
  \A f \in Fiber :
    call[f].phase = "seeking" =>
      \E p \in Window(call[f].start) : p \notin View(TransactionOf[f]).recent

\* Windows only advance, also when a transaction that read an older one
\* commits its counters and its clears late.
WindowsAdvance == [][Latest(db') >= Latest(db)]_vars
=============================================================================
