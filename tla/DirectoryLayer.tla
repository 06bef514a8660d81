--------------------------- MODULE DirectoryLayer ---------------------------
(***************************************************************************)
(* The directory layer: src/directory/engine.ts over the transactions of   *)
(* FoundationDB.                                                           *)
(*                                                                         *)
(* A layer keeps a tree of nodes in its node subspace: a row per child,    *)
(* naming the prefix of the child, and a row with the layer of the node.   *)
(* A node whose layer is "partition" holds a nested directory layer below  *)
(* its prefix.  Layers are named by that prefix; <<>> is the root layer.   *)
(* A prefix is the sequence of the tuple elements packed in it, so that    *)
(* startsWith is to be a prefix of the sequence.                           *)
(*                                                                         *)
(* An operation runs in a transaction: it is evaluated on the rows at its  *)
(* read version, noting what it reads with a conflict range and what it    *)
(* writes, and commits later unless a transaction that committed in        *)
(* between wrote what it read.                                             *)
(***************************************************************************)
EXTENDS Naturals, FiniteSets, Sequences, SequencesExt

CONSTANTS
  Client,        \* processes that run transactions
  Name,          \* directory names, numbered in the order of their encoding
  Path,          \* paths the operations are called with, at most two names
  ManualPrefix,  \* prefixes given by hand, in the root layer
  MaxNumber,     \* bound of the numbers the allocators hand out
  Draws,         \* how an allocator may draw from the numbers left
  StoreKey,      \* keys of the rows kept in a directory
  None

\* An element 0 stands for NODE_PREFIX: prefixes in the node subspace of a
\* layer are left out.
ASSUME DirectoryAssumption ==
  /\ MaxNumber \in Nat
  /\ Name \subseteq Nat /\ \E last \in Name : \A name \in Name : name <= last
  /\ \A path \in Path : path \in Seq(Name) /\ Len(path) \in 1 .. 2
  /\ \A p \in ManualPrefix : p \in Seq(Nat \ {0}) /\ p # <<>>
  /\ \A draw \in Draws : \A S \in SUBSET (1 .. MaxNumber) : S # {} => draw[S] \in S

VARIABLES
  rows,  \* the database
  txn    \* txn[c]: the transaction of a client that has not committed yet

vars == <<rows, txn>>

-----------------------------------------------------------------------------
(* Prefixes and keys.                                                       *)

RootPrefix == {<<n>> : n \in 1 .. MaxNumber} \cup ManualPrefix

Layers == {<<>>} \cup RootPrefix

\* The root node of a layer has the prefix of its node subspace, which ends
\* with NODE_PREFIX; it is never compared with other prefixes by their order.
RootNode(L) == Append(L, 0)

Allocatable(L) == {Append(L, n) : n \in 1 .. MaxNumber}

PrefixesOf(L) == IF L = <<>> THEN RootPrefix ELSE Allocatable(L)

VersionKey(L) == <<"version", L>>
LayerKey(L, p) == <<"layer", L, p>>
ChildKey(L, p, name) == <<"child", L, p, name>>
TakenKey(L, n) == <<"taken", L, n>>
EntryKey(p, k) == <<"entry", p, k>>
SizeKey(p) == <<"size", p>>

ChildRange(L, p) == {ChildKey(L, p, name) : name \in Name}

\* The rows of a node.
NodeRange(L, p) == {LayerKey(L, p)} \cup ChildRange(L, p)

\* The rows of a layer: its nodes, its version and its allocator.
LayerRange ==
  [L \in Layers |->
     {VersionKey(L)} \cup {TakenKey(L, n) : n \in 1 .. MaxNumber}
       \cup UNION {NodeRange(L, p) : p \in PrefixesOf(L) \cup {RootNode(L)}}]

DirectoryRange(p) == {EntryKey(p, k) : k \in StoreKey} \cup {SizeKey(p)}

AnyPrefix == UNION {PrefixesOf(L) : L \in Layers}

ASSUME NoneAssumption == None \notin AnyPrefix \cup {RootNode(L) : L \in Layers}

Below(p) == {q \in AnyPrefix : IsPrefix(p, q)}

\* The keys from prefix p to incrementPrefix(p).
ContentRange ==
  [p \in AnyPrefix |->
     (UNION {DirectoryRange(q) : q \in Below(p)})
       \cup UNION {LayerRange[L] : L \in Below(p) \cap RootPrefix}]

\* The order of packed prefixes.
Before(p, q) ==
  \/ IsPrefix(p, q)
  \/ \E i \in DOMAIN p \cap DOMAIN q : p[i] < q[i] /\ \A j \in 1 .. i - 1 : p[j] = q[j]

Overlap(p, q) == IsPrefix(p, q) \/ IsPrefix(q, p)

-----------------------------------------------------------------------------
(* Transactions.                                                            *)

\* view: the rows it sees; reads: its read conflict ranges; puts, clears and
\* adds: its mutations; auto: prefixes it allocated; at: the directory its
\* last operation returned; ok: no operation failed.
Begin(view) ==
  [view |-> view, reads |-> {}, puts |-> <<>>, clears |-> {}, adds |-> <<>>,
   auto |-> {}, at |-> None, ok |-> TRUE]

Reads(t, keys) == [t EXCEPT !.reads = @ \cup keys]

Without(f, keys) == [k \in DOMAIN f \ keys |-> f[k]]

With(f, key, value) ==
  [k \in DOMAIN f \cup {key} |-> IF k = key THEN value ELSE f[k]]

Put(t, key, value) ==
  [t EXCEPT !.view = With(@, key, value), !.puts = With(@, key, value),
            !.clears = @ \ {key}]

Clear(t, keys) ==
  [t EXCEPT !.view = Without(@, keys), !.puts = Without(@, keys),
            !.clears = @ \cup keys, !.adds = Without(@, keys)]

Fail(t) == [t EXCEPT !.ok = FALSE]

At(t, L, p) == [t EXCEPT !.at = [layer |-> L, prefix |-> p]]

-----------------------------------------------------------------------------
(* Walking the tree.                                                        *)

\* Mutant: the walk reads without conflict ranges.
WalkReadsSnapshot(keys) == {}

\* findNode reads with conflict ranges.
WalkReads(keys) == keys

\* loadLayer.
Tag(view, L, p) == IF LayerKey(L, p) \in DOMAIN view THEN view[LayerKey(L, p)] ELSE ""

\* findNode, one name of the path.
WalkName(view, L, w, name) ==
  LET child == ChildKey(L, w.node, name)
  IN IF w.node = None \/ w.tag = "partition" THEN w
     ELSE IF child \notin DOMAIN view
     THEN [node |-> None, tag |-> "", depth |-> w.depth + 1,
           reads |-> w.reads \cup WalkReads({child})]
     ELSE [node |-> view[child], tag |-> Tag(view, L, view[child]),
           depth |-> w.depth + 1,
           reads |-> w.reads \cup WalkReads({child, LayerKey(L, view[child])})]

WalkRoot(L) == [node |-> RootNode(L), tag |-> "", depth |-> 0, reads |-> {}]

\* findNode: node None when the path leads nowhere; depth: how many names it
\* walked, fewer than the path has when it met a partition.
FindNode(view, L, path) ==
  LET walk[i \in 0 .. Len(path)] ==
        IF i = 0 THEN WalkRoot(L) ELSE WalkName(view, L, walk[i - 1], path[i])
  IN walk[Len(path)]

\* isInPartition, without its root.
InPartition(found, path) == found.tag = "partition" /\ found.depth < Len(path)

\* partitionSubpath.
Subpath(found, path) == SubSeq(path, found.depth + 1, Len(path))

\* checkVersion: a writer stores the version of a new layer.
CheckVersion(t, L, write) ==
  LET u == Reads(t, {VersionKey(L)})
  IN IF write /\ VersionKey(L) \notin DOMAIN u.view THEN Put(u, VersionKey(L), 1) ELSE u

-----------------------------------------------------------------------------
(* Choosing a prefix.                                                       *)

NodesIn(view, L) == {p \in PrefixesOf(L) : NodeRange(L, p) \cap DOMAIN view # {}}

\* nodeContainingKey: the last node at or before the prefix.
Previous(view, L, p) ==
  LET before == {q \in NodesIn(view, L) : Before(q, p)}
  IN {q \in before : \A x \in before : Before(x, q)}

\* isPrefixFree.
IsPrefixFree(view, L, p, manual) ==
  /\ \A q \in Previous(view, L, p) : ~IsPrefix(q, p)
  /\ \A q \in NodesIn(view, L) : ~IsPrefix(p, q)

\* Mutant: of a prefix given by hand, only its own node is read with a
\* conflict range.
LookupReadsItself(view, L, p) == {LayerKey(L, p)}

\* The rows of a node from the last one it has: that of its layer precedes
\* those of its children.
LastRows(view, L, p) ==
  LET names == {name \in Name : ChildKey(L, p, name) \in DOMAIN view}
  IN {ChildKey(L, p, name) : name \in {x \in Name : \A y \in names : y <= x}}
       \cup IF names = {} THEN {LayerKey(L, p)} ELSE {}

\* The conflict ranges of isPrefixFree for a prefix given by hand, from the
\* row found before it; for an allocated one the lookup is a snapshot read.
LookupReads(view, L, p) ==
  LET last == Previous(view, L, p)
  IN (UNION {LastRows(view, L, q) : q \in last})
       \cup UNION {NodeRange(L, q) : q \in {x \in PrefixesOf(L) \ last :
              IsPrefix(p, x) \/ (Before(x, p) /\ \A y \in last : Before(y, x))}}

\* allocatePrefix, as DirectoryAllocator shows it: a number that no other
\* transaction was given.
Numbers(t, L, busy) == {n \in 1 .. MaxNumber : TakenKey(L, n) \notin DOMAIN t.view \cup busy}

\* choosePrefix.
ChoosePrefix(t, L, opt) ==
  LET free == Numbers(t, L, opt.busy)
      n == opt.draw[free]
      p == Append(L, n)
      u == Reads(Put(t, TakenKey(L, n), TRUE), ContentRange[p])
  IN CASE opt.manual # None -> At(Reads(t, LookupReads(t.view, L, opt.manual)), L, opt.manual)
       [] opt.manual = None /\ (free = {} \/ ContentRange[p] \cap DOMAIN t.view # {}) -> Fail(t)
       [] OTHER -> At([u EXCEPT !.auto = @ \cup {p}], L, p)

-----------------------------------------------------------------------------
(* createOrOpenInternal and createInternal.  They call themselves with a    *)
(* shorter path: for the parent, and in a partition on the way.  A path has *)
(* two names at most, so that the calls are nested once: CreateOrOpenName   *)
(* takes a path of one name.                                                *)

\* createInternal, once it has the node of the parent.
CreateNode(parent, L, path, opt) ==
  LET chosen == ChoosePrefix(parent, L, opt)
      p == chosen.at.prefix
  IN CASE ~parent.ok -> parent
       [] parent.ok /\ ~chosen.ok -> chosen
       [] parent.ok /\ chosen.ok /\ ~IsPrefixFree(chosen.view, L, p, opt.manual # None)
            -> Fail(chosen)
       [] OTHER -> Put(Put(chosen, ChildKey(L, parent.at.prefix, Last(path)), p),
                       LayerKey(L, p), opt.tag)

\* opt: the layer asked for ("" is none), the prefix given by hand, whether
\* an existing directory may be opened, and what allocators draw.  created:
\* what creating makes of the transaction; nested: what the partition on the
\* way does.
CreateOrOpenFrom(t, created, nested, L, path, opt) ==
  LET v == CheckVersion(t, L, FALSE)
      found == FindNode(v.view, L, path)
      u == Reads(v, found.reads)
  IN CASE opt.manual # None /\ L # <<>> -> Fail(v)
       [] ~(opt.manual # None /\ L # <<>>) /\ found.node = None -> created
       [] ~(opt.manual # None /\ L # <<>>) /\ found.node # None /\ InPartition(found, path)
            -> nested
       [] OTHER -> IF opt.open /\ opt.tag \in {"", found.tag}
                   THEN At(u, L, found.node) ELSE Fail(u)

CreateOrOpenName(t, L, path, opt) ==
  LET v == CheckVersion(t, L, FALSE)
      u == Reads(v, FindNode(v.view, L, path).reads)
      parent == At(CheckVersion(u, L, TRUE), L, RootNode(L))
  IN CreateOrOpenFrom(t, CreateNode(parent, L, path, opt), Fail(u), L, path, opt)

\* getParentNode: opened, or created with the empty layer.
ParentNode(t, L, path, opt) ==
  IF Len(path) = 1 THEN At(t, L, RootNode(L))
  ELSE CreateOrOpenName(t, L, Front(path),
         [opt EXCEPT !.manual = None, !.tag = "", !.open = TRUE])

CreateOrOpen(t, L, path, opt) ==
  LET v == CheckVersion(t, L, FALSE)
      found == FindNode(v.view, L, path)
      u == Reads(v, found.reads)
      parent == ParentNode(CheckVersion(u, L, TRUE), L, path, opt)
  IN CreateOrOpenFrom(t, CreateNode(parent, L, path, opt),
       CreateOrOpenName(u, found.node, Subpath(found, path), opt), L, path, opt)

-----------------------------------------------------------------------------
(* removeInternal and moveInternal.                                         *)

\* Mutant: only the content of the directory itself is cleared.
RemovedContentTop(L, nodes, top) == ContentRange[top]

\* What removeRecursive clears of the content of the nodes it walks.
RemovedContent(L, nodes, top) == UNION {ContentRange[q] : q \in nodes}

ChildrenOf(view, L, p) == {view[k] : k \in ChildRange(L, p) \cap DOMAIN view}

\* S holds the children of its nodes.
Closed(view, L, S) == \A q \in S : ChildrenOf(view, L, q) \subseteq S

\* The nodes removeRecursive walks, from p to children of children.
RemoveRecursive(view, L, p) ==
  {q \in PrefixesOf(L) :
     \A S \in SUBSET PrefixesOf(L) : p \in S /\ Closed(view, L, S) => q \in S}

\* removeFromParent.
RemoveFromParent(t, L, path) ==
  LET parent == FindNode(t.view, L, Front(path))
      u == Reads(t, parent.reads)
  IN IF parent.node = None THEN u ELSE Clear(u, {ChildKey(L, parent.node, Last(path))})

\* removeInternal, as removeIfExists calls it: remove fails where this ends
\* with the missing directory.  nested: what the partition on the way does.
RemoveFrom(t, nested, L, path) ==
  LET v == CheckVersion(t, L, TRUE)
      found == FindNode(v.view, L, path)
      u == Reads(v, found.reads)
      nodes == RemoveRecursive(u.view, L, found.node)
      cleared == Clear(Reads(u, UNION {ChildRange(L, q) : q \in nodes}),
                       (UNION {NodeRange(L, q) : q \in nodes})
                         \cup RemovedContent(L, nodes, found.node))
  IN IF found.node = None THEN u
     ELSE IF InPartition(found, path) THEN nested
     ELSE RemoveFromParent(cleared, L, path)

RemoveName(t, L, path) == RemoveFrom(t, Fail(t), L, path)

RemoveIn(t, L, path) ==
  LET v == CheckVersion(t, L, TRUE)
      found == FindNode(v.view, L, path)
      u == Reads(v, found.reads)
  IN RemoveFrom(t, RemoveName(u, found.node, Subpath(found, path)), L, path)

\* moveInternal.
MoveFrom(t, nested, L, old, new) ==
  LET v == CheckVersion(t, L, TRUE)
      from == FindNode(v.view, L, old)
      to == FindNode(v.view, L, new)
      parent == FindNode(v.view, L, Front(new))
      u == Reads(v, from.reads \cup to.reads \cup parent.reads)
  IN CASE IsPrefix(old, new) \/ from.node = None -> Fail(u)
       [] ~IsPrefix(old, new) /\ from.node # None /\ to.node # None ->
            IF InPartition(from, old) /\ InPartition(to, new) /\ from.node = to.node
            THEN nested ELSE Fail(u)
       [] OTHER ->
            IF InPartition(from, old) \/ parent.node = None THEN Fail(u)
            ELSE RemoveFromParent(
                   Put(u, ChildKey(L, parent.node, Last(new)), from.node), L, old)

MoveName(t, L, old, new) == MoveFrom(t, Fail(t), L, old, new)

MoveIn(t, L, old, new) ==
  LET v == CheckVersion(t, L, TRUE)
      from == FindNode(v.view, L, old)
      to == FindNode(v.view, L, new)
      u == Reads(v, from.reads \cup to.reads \cup FindNode(v.view, L, Front(new)).reads)
  IN MoveFrom(t, MoveName(u, from.node, Subpath(from, old), Subpath(to, new)), L, old, new)

-----------------------------------------------------------------------------
(* The clients.                                                             *)

Init ==
  /\ rows = <<>>
  /\ txn = [c \in Client |-> None]

Open == {c \in Client : txn[c] # None}

\* Rows other transactions are about to write.
Busy == UNION {DOMAIN txn[c].puts : c \in Open}

\* A transaction that wrote nothing ends at once; one that failed rolls back.
Submits(c, t) ==
  /\ txn[c] = None /\ t.ok
  /\ DOMAIN t.puts \cup t.clears \cup DOMAIN t.adds # {}
  /\ txn' = [txn EXCEPT ![c] =
       [reads |-> t.reads, puts |-> t.puts, clears |-> t.clears, adds |-> t.adds,
        auto |-> t.auto, unseen |-> {}, conflicted |-> FALSE]]
  /\ UNCHANGED rows

CreateDirectory(c, path, tag, manual, open, draw) ==
  Submits(c, CreateOrOpen(Begin(rows), <<>>, path,
               [tag |-> tag, manual |-> manual, open |-> open, busy |-> Busy, draw |-> draw]))

RemoveDirectory(c, path) == Submits(c, RemoveIn(Begin(rows), <<>>, path))

MoveDirectory(c, old, new) == Submits(c, MoveIn(Begin(rows), <<>>, old, new))

Written(t) == DOMAIN t.puts \cup t.clears \cup DOMAIN t.adds

\* The rows after the mutations of t.
Apply(t) ==
  LET kept == Without(rows, t.clears)
  IN [k \in DOMAIN kept \cup DOMAIN t.puts \cup DOMAIN t.adds |->
        IF k \in DOMAIN t.puts THEN t.puts[k]
        ELSE IF k \in DOMAIN t.adds
        THEN (IF k \in DOMAIN kept THEN kept[k] ELSE 0) + t.adds[k]
        ELSE kept[k]]

\* Root prefixes a transaction creates by hand.
HandMade(t) == {p \in ManualPrefix : LayerKey(<<>>, p) \in DOMAIN t.puts} \ t.auto

\* A transaction whose commit will be rejected.
Rejected == [reads |-> {}, puts |-> <<>>, clears |-> {}, adds |-> <<>>, auto |-> {},
             unseen |-> {}, conflicted |-> TRUE]

\* The cluster commits the transaction; those open that read what it wrote
\* conflict.  unseen records, for the properties, the prefixes made by hand
\* since a transaction began.
Commit(c) ==
  /\ txn[c] # None /\ ~txn[c].conflicted
  /\ rows' = Apply(txn[c])
  /\ txn' = [d \in Client |->
       CASE d = c \/ txn[d] = None -> None
         [] d \in Open \ {c} /\ txn[d].reads \cap Written(txn[c]) # {} -> Rejected
         [] OTHER -> [txn[d] EXCEPT !.unseen = @ \cup HandMade(txn[c])]]

Abort(c) ==
  /\ txn[c] # None /\ txn[c].conflicted
  /\ txn' = [txn EXCEPT ![c] = None]
  /\ UNCHANGED rows
=============================================================================
