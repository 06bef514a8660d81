---------------------------- MODULE KeyValueStore ----------------------------
(***************************************************************************)
(* The key-value store of src/persistence/key-value-store.ts, kept in a    *)
(* directory that every operation opens, or creates, in its transaction    *)
(* (makeDirectoryStore), while other clients create, move and remove       *)
(* directories.  An entry is one row here; its value is left out.          *)
(***************************************************************************)
EXTENDS DirectoryLayer, Integers

CONSTANTS
  StorePath,  \* directoryPath
  Options     \* options of the creations that clients ask for

ASSUME StoreAssumption ==
  /\ StorePath \in Path
  /\ Options \subseteq [tag : {"", "partition"}, manual : ManualPrefix \cup {None},
                        open : BOOLEAN]

\* root of makeDirectoryStore: a partition there fails the operation.
StoreRoot(draw) ==
  CreateOrOpen(Begin(rows), <<>>, StorePath,
    [tag |-> "store", manual |-> None, open |-> TRUE, busy |-> Busy, draw |-> draw])

Add(t, key, delta) == [t EXCEPT !.adds = With(@, key, delta)]

\* Mutant: presence is looked up in a snapshot.
PresenceReadsSnapshot(p, k) == {}

\* hasChunkedValue reads the entry with a conflict range.
PresenceReads(p, k) == {EntryKey(p, k)}

\* The operations of the store; t is the transaction that has opened it.

\* set, and modify of a present key, which does not count.
SetEntry(c, t, k) ==
  LET p == t.at.prefix
      u == Put(Reads(t, PresenceReads(p, k)), EntryKey(p, k), TRUE)
  IN /\ t.ok
     /\ Submits(c, IF EntryKey(p, k) \in DOMAIN t.view THEN u ELSE Add(u, SizeKey(p), 1))

\* remove.
RemoveEntry(c, t, k) ==
  LET p == t.at.prefix
      u == Reads(t, PresenceReads(p, k))
  IN /\ t.ok
     /\ Submits(c, IF EntryKey(p, k) \in DOMAIN t.view
                   THEN Add(Clear(u, {EntryKey(p, k)}), SizeKey(p), -1) ELSE u)

\* clear.
ClearStore(c, t) ==
  LET p == t.at.prefix
  IN /\ t.ok
     /\ Submits(c, Put(Clear(t, {EntryKey(p, k) : k \in StoreKey}), SizeKey(p), 0))

-----------------------------------------------------------------------------

\* What a client does in a transaction before it commits.
Operation(c) ==
  \/ \E path \in Path, opt \in Options, draw \in Draws :
       CreateDirectory(c, path, opt.tag, opt.manual, opt.open, draw)
  \/ \E path \in Path : RemoveDirectory(c, path)
  \/ \E old, new \in Path : MoveDirectory(c, old, new)
  \/ \E k \in StoreKey, draw \in Draws :
       SetEntry(c, StoreRoot(draw), k) \/ RemoveEntry(c, StoreRoot(draw), k)
  \/ \E draw \in Draws : ClearStore(c, StoreRoot(draw))

Next == \E c \in Client : Operation(c) \/ Commit(c) \/ Abort(c)

Spec == Init /\ [][Next]_vars

-----------------------------------------------------------------------------
(* Properties.                                                              *)

Live(L) == {p \in PrefixesOf(L) : LayerKey(L, p) \in DOMAIN rows}

Links(L) == {k \in UNION {ChildRange(L, p) : p \in Live(L) \cup {RootNode(L)}} : k \in DOMAIN rows}

\* The nodes of a layer reached from its root.
Reached(L) ==
  {p \in PrefixesOf(L) :
     \A S \in SUBSET PrefixesOf(L) :
       ChildrenOf(rows, L, RootNode(L)) \subseteq S /\ Closed(rows, L, S) => p \in S}

Partitions == {p \in Live(<<>>) : rows[LayerKey(<<>>, p)] = "partition"}

\* However creations, moves and removals race, the directories form one tree:
\* each has exactly one parent and a path from the root, no path leads
\* nowhere, and nested layers exist only below live partitions.
TreeOK ==
  /\ \A L \in Layers :
       /\ Live(L) = Reached(L)
       /\ \A j, k \in Links(L) : rows[j] = rows[k] => j = k
       /\ \A p \in PrefixesOf(L) \ Live(L) : ChildRange(L, p) \cap DOMAIN rows = {}
  /\ \A L \in RootPrefix \ Partitions : LayerRange[L] \cap DOMAIN rows = {}

\* Rows are kept only below the prefix of a live directory: removing one takes
\* its whole content along, whatever was being written in it.
RowsOwned ==
  \A L \in Layers : \A p \in PrefixesOf(L) :
    DirectoryRange(p) \cap DOMAIN rows # {} => \E M \in Layers : p \in Live(M)

\* The stored size is the number of entries, after any interleaving of the
\* operations of the store and of those on its directory.
SizeExact ==
  \A L \in Layers : \A p \in PrefixesOf(L) :
    Cardinality({k \in StoreKey : EntryKey(p, k) \in DOMAIN rows})
      = IF SizeKey(p) \in DOMAIN rows THEN rows[SizeKey(p)] ELSE 0

\* Nodes of a layer that a transaction creates.
Given(t, L) == {p \in PrefixesOf(L) : LayerKey(L, p) \in DOMAIN t.puts}

\* Prefixes a transaction allocated and another gave to a directory by hand
\* since it began.
Doubled(t) == Given(t, <<>>) \cap t.auto \cap t.unseen

\* No commit gives a prefix to a second directory.  This is a premise: the
\* code does not exclude it, since an allocated prefix is looked up in a
\* snapshot and who gives one by hand reads nothing that allocating it writes
\* before it commits.
NoneTwice == \A c \in Client : txn[c] # None /\ Doubled(txn[c]) # {} => ~Commit(c)

PrefixesGivenOnce == [][NoneTwice]_vars

\* A new directory gets a prefix that is no other's, nor overlaps another of
\* its layer, but for an allocated one, looked up in a snapshot, when the other
\* was made by hand after that snapshot; and for one given by hand inside a
\* directory in which such an overlap hides, since only the last node before
\* it is compared.
NewPrefixesFree ==
  [][\A c \in Client : Commit(c) =>
       \A L \in Layers : \A p \in Given(txn[c], L) : \A q \in Live(L) \cup (Given(txn[c], L) \ {p}) :
         Overlap(p, q) =>
           \/ p \in txn[c].auto /\ q \in txn[c].unseen
           \/ p \notin txn[c].auto /\ \E x \in Live(L) \ {q} : IsPrefix(q, x) /\ Before(x, p)]_vars
=============================================================================
