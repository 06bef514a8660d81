------------------------ MODULE KeyValueStoreProofs ------------------------
(***************************************************************************)
(* That directories form one tree in each layer, that rows are kept below  *)
(* live directories only, that the stored size counts the entries, and     *)
(* that new directories get free prefixes, for any clients, names, manual  *)
(* prefixes and keys.                                                      *)
(*                                                                         *)
(* A transaction is evaluated on the rows at its read version and applied  *)
(* to those at its commit.  Sound says what its mutations mean on the rows *)
(* as they are now: it links nodes that it creates or detaches, clears the *)
(* layer row of a node only with its content and its link, writes content  *)
(* only below a node that lives, and counts what it writes.  Hangs says    *)
(* that what it links hangs from the root or from a child of the root, and *)
(* that it removes a node with the nodes below it.  Whatever of this       *)
(* depends on a row, the transaction read with a conflict range, so that   *)
(* the commit of another leaves it true or rejects the transaction.        *)
(*                                                                         *)
(* There is one exception: an allocated prefix is looked up in a snapshot, *)
(* and a directory made meanwhile by hand at that prefix is not seen.  The *)
(* theorems have the premise PrefixesGivenOnce, that no commit gives a     *)
(* prefix to a second directory in this way.                               *)
(***************************************************************************)
EXTENDS KeyValueStore, FiniteSetTheorems, SequenceTheorems, WellFoundedInduction, TLAPS

\* Links of a layer.
LinkKeys(L) == UNION {ChildRange(L, p) : p \in PrefixesOf(L) \cup {RootNode(L)}}

Content == UNION {DirectoryRange(p) : p \in AnyPrefix}

Linked(db) ==
  \A L \in Layers : \A k \in LinkKeys(L) \cap DOMAIN db :
    db[k] \in PrefixesOf(L) /\ LayerKey(L, db[k]) \in DOMAIN db

OneParent(db) ==
  \A L \in Layers : \A j, k \in LinkKeys(L) \cap DOMAIN db : db[j] = db[k] => j = k

LiveIn(db, p) == \E M \in Layers : p \in PrefixesOf(M) /\ LayerKey(M, p) \in DOMAIN db

Owned(db) ==
  \A p \in AnyPrefix : DirectoryRange(p) \cap DOMAIN db # {} => LiveIn(db, p)

Entries(db, p) == {k \in StoreKey : EntryKey(p, k) \in DOMAIN db}
SizeIn(db, p) == IF SizeKey(p) \in DOMAIN db THEN db[SizeKey(p)] ELSE 0
Sized(db) ==
  \A p \in AnyPrefix : IsFiniteSet(Entries(db, p)) /\ Cardinality(Entries(db, p)) = SizeIn(db, p)

\* The rows of a layer and those of a node stay with the node.
Rooted(db) ==
  \A L \in Layers : \A p \in PrefixesOf(L) :
    ChildRange(L, p) \cap DOMAIN db # {} => LayerKey(L, p) \in DOMAIN db

Nested(db) ==
  \A L \in RootPrefix : LayerRange[L] \cap DOMAIN db # {} =>
    LayerKey(<<>>, L) \in DOMAIN db /\ db[LayerKey(<<>>, L)] = "partition"

\* A set of nodes that holds the children of the root and those of its nodes
\* holds all nodes.
Reaching(db) ==
  \A L \in Layers : \A S \in SUBSET PrefixesOf(L) :
    ChildrenOf(db, L, RootNode(L)) \subseteq S /\ Closed(db, L, S) =>
      \A p \in PrefixesOf(L) : LayerKey(L, p) \in DOMAIN db => p \in S

\* A transaction
Creates(t, db) ==
  \A L \in Layers : \A p \in PrefixesOf(L) :
    LayerKey(L, p) \notin DOMAIN t.puts \cap DOMAIN db

Detaches(t, db, L, p) ==
  \E k \in LinkKeys(L) \cap t.reads \cap t.clears \cap DOMAIN db : db[k] = p

Moves(t, db, L, p) ==
  /\ LayerKey(L, p) \in (t.reads \cap DOMAIN db) \ t.clears
  /\ Detaches(t, db, L, p)

Attaches(t, db) ==
  \A L \in Layers :
    /\ \A k \in LinkKeys(L) \cap DOMAIN t.puts :
         /\ t.puts[k] \in PrefixesOf(L)
         /\ LayerKey(L, t.puts[k]) \in DOMAIN t.puts \/ Moves(t, db, L, t.puts[k])
    /\ \A j, k \in LinkKeys(L) \cap DOMAIN t.puts : t.puts[j] = t.puts[k] => j = k

Removes(t, db) ==
  \A L \in Layers : \A p \in PrefixesOf(L) : LayerKey(L, p) \in t.clears =>
    /\ DirectoryRange(p) \subseteq t.clears
    /\ LinkKeys(L) \subseteq t.clears \/ Detaches(t, db, L, p)

Stored(t, db, p) ==
  \E M \in Layers :
    /\ p \in PrefixesOf(M)
    /\ LayerKey(M, p) \in DOMAIN t.puts \cup ((t.reads \cap DOMAIN db) \ t.clears)

Stores(t, db) ==
  \A p \in AnyPrefix :
    DirectoryRange(p) \cap (DOMAIN t.puts \cup DOMAIN t.adds) # {} => Stored(t, db, p)

Entered(t, db, p, k) ==
  /\ EntryKey(p, k) \in DOMAIN t.puts
  /\ IF EntryKey(p, k) \in DOMAIN db THEN SizeKey(p) \notin Written(t)
     ELSE SizeKey(p) \in DOMAIN t.adds \ (DOMAIN t.puts \cup t.clears) /\ t.adds[SizeKey(p)] = 1

Left(t, db, p, k) ==
  /\ EntryKey(p, k) \in t.clears \cap DOMAIN db
  /\ SizeKey(p) \in DOMAIN t.adds \ (DOMAIN t.puts \cup t.clears) /\ t.adds[SizeKey(p)] = -1

Counted(t, db, p) ==
  \/ DirectoryRange(p) \cap Written(t) = {}
  \/ DirectoryRange(p) \subseteq t.clears
  \/ {EntryKey(p, k) : k \in StoreKey} \subseteq t.clears /\ SizeKey(p) \in DOMAIN t.puts
       /\ t.puts[SizeKey(p)] = 0
  \/ \E k \in StoreKey :
       /\ EntryKey(p, k) \in t.reads
       /\ \A j \in StoreKey \ {k} : EntryKey(p, j) \notin Written(t)
       /\ Entered(t, db, p, k) \/ Left(t, db, p, k)

Apart(t) == t.clears \cap (DOMAIN t.puts \cup DOMAIN t.adds) = {}

Sound(t, db) ==
  /\ Apart(t) /\ \A key \in DOMAIN t.adds : key[1] = "size"
  /\ Creates(t, db) /\ Attaches(t, db) /\ Removes(t, db) /\ Stores(t, db)
  /\ \A p \in AnyPrefix : Counted(t, db, p)

Within(t, db, L) ==
  L \in RootPrefix => /\ LayerKey(<<>>, L) \in (t.reads \cap DOMAIN db) \ t.clears
                      /\ db[LayerKey(<<>>, L)] = "partition"

Nests(t, db) == \A L \in Layers : LayerRange[L] \cap DOMAIN t.puts # {} => Within(t, db, L)

\* P is the root, or will be a child of it.
Hung(t, db, L, P) ==
  P = RootNode(L) \/ \E k \in ChildRange(L, RootNode(L)) :
    \/ k \in DOMAIN t.puts /\ t.puts[k] = P
    \/ k \in (t.reads \cap DOMAIN db) \ t.clears /\ db[k] = P

Joins(t, db, L, P, k) ==
  /\ Hung(t, db, L, P)
  /\ k \in t.reads \ DOMAIN db \/ (P \in PrefixesOf(L) /\ LayerKey(L, P) \in DOMAIN t.puts)

Grafts(t, db) ==
  \A L \in Layers :
    /\ \A P \in PrefixesOf(L) \cup {RootNode(L)} : \A k \in ChildRange(L, P) \cap DOMAIN t.puts :
         Joins(t, db, L, P, k)
    /\ \A p \in PrefixesOf(L) : LayerKey(L, p) \in DOMAIN t.puts =>
         \E k \in LinkKeys(L) \cap DOMAIN t.puts : t.puts[k] = p

Released(t, db, L, k) ==
  /\ k \in t.reads
  /\ k \in DOMAIN db => \/ LayerKey(L, db[k]) \in t.clears
                        \/ \E j \in LinkKeys(L) \cap DOMAIN t.puts : t.puts[j] = db[k]

Uproots(t, db) ==
  /\ \A L \in Layers : LayerRange[L] \subseteq t.clears \/
       /\ \A k \in LinkKeys(L) \cap t.clears : Released(t, db, L, k)
       /\ \A p \in PrefixesOf(L) : LayerKey(L, p) \in t.clears =>
            /\ ChildRange(L, p) \subseteq t.reads \cap t.clears
            /\ \A k \in ChildRange(L, p) \cap DOMAIN db : LayerKey(L, db[k]) \in t.clears
  /\ \A L \in RootPrefix : LayerKey(<<>>, L) \in t.clears => LayerRange[L] \subseteq t.clears

Hangs(t, db) == Nests(t, db) /\ Grafts(t, db) /\ Uproots(t, db)

Exclusive(t, u) ==
  \A L \in Layers : \A n \in 1 .. MaxNumber : TakenKey(L, n) \notin DOMAIN t.puts \cap DOMAIN u.puts

Shape(t) == t = [reads |-> t.reads, puts |-> t.puts, clears |-> t.clears, adds |-> t.adds,
        auto |-> t.auto, unseen |-> t.unseen, conflicted |-> t.conflicted]

\* A transaction that would give a prefix to a second directory promises
\* nothing: the premise of the theorems is that it does not commit.
IInv ==
  /\ Linked(rows) /\ OneParent(rows) /\ Owned(rows) /\ Sized(rows)
  /\ Rooted(rows) /\ Nested(rows) /\ Reaching(rows)
  /\ DOMAIN txn = Client
  /\ \A c \in Open : /\ Shape(txn[c])
                     /\ \/ txn[c].conflicted \/ Doubled(txn[c]) # {}
                        \/ Sound(txn[c], rows) /\ Hangs(txn[c], rows)
  /\ \A c, d \in Open : c # d => Exclusive(txn[c], txn[d])

-----------------------------------------------------------------------------
(* Keys                                                                     *)

\* A key tells its kind and its parts.
LEMMA Keys ==
  /\ \A L : VersionKey(L)[1] = "version" /\ VersionKey(L)[2] = L
  /\ \A L, p : LayerKey(L, p)[1] = "layer" /\ LayerKey(L, p)[2] = L /\ LayerKey(L, p)[3] = p
  /\ \A L, p, x : /\ ChildKey(L, p, x)[1] = "child" /\ ChildKey(L, p, x)[2] = L
                 /\ ChildKey(L, p, x)[3] = p /\ ChildKey(L, p, x)[4] = x
  /\ \A L, n : TakenKey(L, n)[1] = "taken" /\ TakenKey(L, n)[2] = L /\ TakenKey(L, n)[3] = n
  /\ \A p, x : EntryKey(p, x)[1] = "entry" /\ EntryKey(p, x)[2] = p /\ EntryKey(p, x)[3] = x
  /\ \A p : SizeKey(p)[1] = "size" /\ SizeKey(p)[2] = p
BY DEF VersionKey, LayerKey, ChildKey, TakenKey, EntryKey, SizeKey

LEMMA Ranges ==
  /\ \A L : \A key \in LinkKeys(L) :
       /\ key[1] = "child" /\ key[2] = L
       /\ \E p \in PrefixesOf(L) \cup {RootNode(L)}, name \in Name : key = ChildKey(L, p, name)
  /\ \A p : \A key \in DirectoryRange(p) : key[1] \in {"entry", "size"} /\ key[2] = p
  /\ \A L : \A p \in PrefixesOf(L) \cup {RootNode(L)} : \A name \in Name :
       ChildKey(L, p, name) \in LinkKeys(L)
<1>1. \A L : \A key \in LinkKeys(L) :
        \E p \in PrefixesOf(L) \cup {RootNode(L)}, name \in Name : key = ChildKey(L, p, name)
  BY DEF LinkKeys, ChildRange
<1>2. \A L : \A p \in PrefixesOf(L) \cup {RootNode(L)} : \A name \in Name :
        ChildKey(L, p, name) \in LinkKeys(L)
  BY DEF LinkKeys, ChildRange
<1>3. \A p : \A key \in DirectoryRange(p) : key[1] \in {"entry", "size"} /\ key[2] = p
  BY Keys DEF DirectoryRange
<1> QED BY <1>1, <1>2, <1>3, Keys

LEMMA PrefixFacts ==
  /\ <<>> \in Layers /\ PrefixesOf(<<>>) = RootPrefix /\ <<>> \notin RootPrefix
  /\ \A L \in Layers : PrefixesOf(L) \subseteq AnyPrefix /\ L \in Seq(Nat)
                       /\ RootNode(L) \notin PrefixesOf(L)
                       /\ None \notin PrefixesOf(L) /\ None # RootNode(L)
  /\ \A L \in RootPrefix : PrefixesOf(L) = Allocatable(L) /\ L \in Layers
  /\ AnyPrefix \subseteq Seq(Nat)
  /\ \A L \in Layers : \A n \in 1 .. MaxNumber :
       Append(L, n) \in PrefixesOf(L)
<1>1. MaxNumber \in Nat
      /\ \A p \in ManualPrefix : p \in Seq(Nat) /\ Len(p) # 0 /\ \A i \in 1 .. Len(p) : p[i] # 0
  <2> DEFINE Element == Nat \ {0}
  <2>1. Element \subseteq Nat /\ 0 \notin Element
    OBVIOUS
  <2>2. \A p \in ManualPrefix : p \in Seq(Element) /\ p # <<>>
    BY DirectoryAssumption
  <2> HIDE DEF Element
  <2>3. ASSUME NEW p \in ManualPrefix
        PROVE  p \in Seq(Nat) /\ Len(p) # 0 /\ \A i \in 1 .. Len(p) : p[i] # 0
    <3>1. p \in Seq(Element) /\ p # <<>>
      BY <2>2
    <3>2. p \in Seq(Nat)
      BY <2>1, <3>1, SeqMonotonic
    <3>3. \A i \in 1 .. Len(p) : p[i] \in Element
      BY <3>1, ElementOfSeq
    <3>4. Len(p) # 0
      BY <3>1, EmptySeq
    <3> QED BY <2>1, <3>2, <3>3, <3>4
  <2> QED BY <2>3, DirectoryAssumption
<1>2. \A n \in 1 .. MaxNumber : n \in Nat /\ n # 0 /\ <<n>> \in Seq(Nat) /\ Len(<<n>>) = 1
  BY <1>1
<1>3. RootPrefix \subseteq Seq(Nat) /\ \A L \in RootPrefix : Len(L) # 0
  <2>1. \A n \in 1 .. MaxNumber : Len(<<n>>) # 0 /\ <<n>> \in Seq(Nat)
    BY <1>2
  <2>2. \A p \in ManualPrefix : Len(p) # 0 /\ p \in Seq(Nat)
    BY <1>1
  <2> QED BY <2>1, <2>2 DEF RootPrefix
<1>4. <<>> \in Seq(Nat) /\ Len(<<>>) = 0
  OBVIOUS
<1>5. /\ <<>> \in Layers /\ PrefixesOf(<<>>) = RootPrefix /\ <<>> \notin RootPrefix
      /\ \A L \in Layers : L \in Seq(Nat) /\ PrefixesOf(L) \subseteq AnyPrefix
      /\ \A L \in RootPrefix : PrefixesOf(L) = Allocatable(L) /\ L \in Layers
  BY <1>3, <1>4 DEF Layers, PrefixesOf, AnyPrefix
<1>6. \A L \in Layers, n \in Nat :
        /\ Append(L, n) \in Seq(Nat) /\ Len(Append(L, n)) = Len(L) + 1
        /\ Append(L, n)[Len(L) + 1] = n /\ Len(L) \in Nat
  BY <1>5, AppendProperties
<1>7. \A n \in Nat : Append(<<>>, n) = <<n>>
  OBVIOUS
<1>8. AnyPrefix \subseteq Seq(Nat)
  <2>1. \A L \in Layers : Allocatable(L) \subseteq Seq(Nat)
    BY <1>2, <1>6 DEF Allocatable
  <2>2. \A L \in Layers : PrefixesOf(L) \subseteq Seq(Nat)
    BY <1>3, <2>1 DEF PrefixesOf
  <2> QED BY <2>2 DEF AnyPrefix
<1>9. ASSUME NEW L \in Layers, NEW n \in 1 .. MaxNumber
      PROVE  /\ Append(L, n) \in PrefixesOf(L)
             /\ Append(L, n) # RootNode(L)
  <2>1. n \in Nat /\ n # 0 /\ 0 \in Nat /\ L \in Seq(Nat) /\ Len(L) \in Nat
    BY <1>2, <1>6
  <2>2. Append(L, n) \in PrefixesOf(L)
    <3>1. L = <<>> => Append(L, n) \in RootPrefix
      BY <1>7, <2>1 DEF RootPrefix
    <3>2. Append(L, n) \in Allocatable(L)
      BY DEF Allocatable
    <3> QED BY <3>1, <3>2 DEF PrefixesOf
  <2>3. Append(L, n) # RootNode(L)
    BY <1>6, <2>1 DEF RootNode
  <2> QED BY <2>2, <2>3
<1>10. ASSUME NEW L \in Layers PROVE RootNode(L) \notin PrefixesOf(L)
  <2>1. /\ Len(RootNode(L)) = Len(L) + 1 /\ RootNode(L)[Len(L) + 1] = 0
        /\ \A n \in 1 .. MaxNumber : Append(L, n)[Len(L) + 1] = n
    BY <1>2, <1>6 DEF RootNode
  <2>2. \A n \in 1 .. MaxNumber : Append(L, n) # RootNode(L)
    BY <1>9
  <2>3. CASE L = <<>>
    <3>1. \A x \in RootPrefix : x \in ManualPrefix \/ \E n \in 1 .. MaxNumber : x = Append(L, n)
      BY <1>2, <1>7, <2>3 DEF RootPrefix
    <3>2. RootNode(L) \notin ManualPrefix
      <4>1. Len(RootNode(L)) = 1 /\ RootNode(L)[1] = 0
        BY <1>4, <2>1, <2>3
      <4> QED BY <1>1, <4>1
    <3> QED BY <2>2, <2>3, <3>1, <3>2 DEF PrefixesOf
  <2>4. CASE L # <<>>
    BY <2>2, <2>4 DEF PrefixesOf, Allocatable
  <2> QED BY <2>3, <2>4
<1>11. \A L \in Layers : None \notin PrefixesOf(L) /\ None # RootNode(L)
  BY <1>5, NoneAssumption
<1> QED BY <1>5, <1>8, <1>9, <1>10, <1>11

LEMMA PrefixOrder ==
  ASSUME NEW p \in Seq(Nat), NEW q \in Seq(Nat), NEW n \in Nat
  PROVE  /\ IsPrefix(p, p)
         /\ IsPrefix(p, q) => IsPrefix(p, Append(q, n))
         /\ ~IsPrefix(Append(q, n), q)
<1>1. Len(p) \in Nat /\ Len(q) \in Nat
  OBVIOUS
<1>2. Append(q, n) \in Seq(Nat) /\ Len(Append(q, n)) = Len(q) + 1
      /\ \A i \in 1 .. Len(q) : Append(q, n)[i] = q[i]
  BY AppendProperties
<1>3. IsPrefix(p, p) /\ ~IsPrefix(Append(q, n), q)
  BY <1>1, <1>2 DEF IsPrefix
<1>4. ASSUME IsPrefix(p, q) PROVE IsPrefix(p, Append(q, n))
  <2>1. Len(p) <= Len(q) /\ SubSeq(p, 1, Len(p)) = SubSeq(q, 1, Len(p))
    BY <1>4 DEF IsPrefix
  <2>2. SubSeq(Append(q, n), 1, Len(p)) = SubSeq(q, 1, Len(p))
    <3>1. \A i \in 1 .. Len(p) : Append(q, n)[i] = q[i]
      BY <1>1, <1>2, <2>1
    <3>2. SubSeq(Append(q, n), 1, Len(p)) = [i \in 1 .. Len(p) |-> Append(q, n)[i]]
      BY <1>1, <1>2, <2>1
    <3>3. SubSeq(q, 1, Len(p)) = [i \in 1 .. Len(p) |-> q[i]]
      BY <1>1, <2>1
    <3> QED BY <3>1, <3>2, <3>3
  <2> QED BY <1>1, <1>2, <2>1, <2>2 DEF IsPrefix
<1> QED BY <1>3, <1>4

\* What prefixes and the order of prefixes say, element by element.
LEMMA PrefixIs ==
  ASSUME NEW p \in Seq(Nat), NEW q \in Seq(Nat)
  PROVE  IsPrefix(p, q) <=> Len(p) <= Len(q) /\ \A i \in 1 .. Len(p) : p[i] = q[i]
<1>1. Len(p) \in Nat /\ Len(q) \in Nat
  OBVIOUS
<1>2. SubSeq(p, 1, Len(p)) = [i \in 1 .. Len(p) |-> p[i]]
  BY <1>1
<1>3. ASSUME Len(p) <= Len(q)
      PROVE  SubSeq(q, 1, Len(p)) = [i \in 1 .. Len(p) |-> q[i]]
  BY <1>1, <1>3
<1>4. [i \in 1 .. Len(p) |-> p[i]] = [i \in 1 .. Len(p) |-> q[i]]
        <=> \A i \in 1 .. Len(p) : p[i] = q[i]
  <2> DEFINE f == [i \in 1 .. Len(p) |-> p[i]]
             g == [i \in 1 .. Len(p) |-> q[i]]
  <2>1. ASSUME f = g, NEW i \in 1 .. Len(p) PROVE p[i] = q[i]
    <3>1. f[i] = g[i]
      BY <2>1
    <3> QED BY <3>1
  <2> QED BY <2>1
<1> QED BY <1>2, <1>3, <1>4 DEF IsPrefix

LEMMA BeforeIs ==
  ASSUME NEW p \in Seq(Nat), NEW q \in Seq(Nat)
  PROVE  /\ Before(p, q) => IsPrefix(p, q) \/
              \E i \in 1 .. Len(p) : /\ i <= Len(q) /\ p[i] < q[i]
                                     /\ \A j \in 1 .. i - 1 : p[j] = q[j]
         /\ \A i \in 1 .. Len(p) :
              i <= Len(q) /\ p[i] < q[i] /\ (\A j \in 1 .. i - 1 : p[j] = q[j]) => Before(p, q)
<1>1. /\ Len(p) \in Nat /\ Len(q) \in Nat
      /\ DOMAIN p = 1 .. Len(p) /\ DOMAIN q = 1 .. Len(q)
  OBVIOUS
<1>2. ASSUME Before(p, q), ~IsPrefix(p, q)
      PROVE  \E i \in 1 .. Len(p) : /\ i <= Len(q) /\ p[i] < q[i]
                                    /\ \A j \in 1 .. i - 1 : p[j] = q[j]
  <2>1. PICK i \in DOMAIN p \cap DOMAIN q : p[i] < q[i] /\ \A j \in 1 .. i - 1 : p[j] = q[j]
    BY <1>2 DEF Before
  <2>2. i \in 1 .. Len(p) /\ i <= Len(q)
    BY <1>1
  <2> QED BY <2>1, <2>2
<1>3. ASSUME NEW i \in 1 .. Len(p), i <= Len(q), p[i] < q[i], \A j \in 1 .. i - 1 : p[j] = q[j]
      PROVE  Before(p, q)
  <2>1. i \in DOMAIN p \cap DOMAIN q
    BY <1>1, <1>3
  <2> QED BY <1>3, <2>1 DEF Before
<1> QED BY <1>2, <1>3

LEMMA BeforeAntisymmetric ==
  ASSUME NEW p \in Seq(Nat), NEW q \in Seq(Nat), Before(p, q), Before(q, p)
  PROVE  p = q
<1>1. /\ Len(p) \in Nat /\ Len(q) \in Nat
      /\ \A i \in 1 .. Len(p) : p[i] \in Nat
      /\ \A i \in 1 .. Len(q) : q[i] \in Nat
  BY ElementOfSeq
<1>2. CASE IsPrefix(p, q) /\ IsPrefix(q, p)
  <2>1. Len(p) = Len(q) /\ \A i \in 1 .. Len(p) : p[i] = q[i]
    BY <1>1, <1>2, PrefixIs
  <2> QED BY <2>1, SeqEqual
<1>3. CASE IsPrefix(p, q) /\ ~IsPrefix(q, p)
  <2>1. PICK i \in 1 .. Len(q) : i <= Len(p) /\ q[i] < p[i]
    BY <1>3, BeforeIs
  <2>2. p[i] = q[i]
    BY <1>1, <1>3, <2>1, PrefixIs
  <2> QED BY <1>1, <2>1, <2>2
<1>4. CASE ~IsPrefix(p, q) /\ IsPrefix(q, p)
  <2>1. PICK i \in 1 .. Len(p) : i <= Len(q) /\ p[i] < q[i]
    BY <1>4, BeforeIs
  <2>2. p[i] = q[i]
    BY <1>1, <1>4, <2>1, PrefixIs
  <2> QED BY <1>1, <2>1, <2>2
<1>5. CASE ~IsPrefix(p, q) /\ ~IsPrefix(q, p)
  <2>1. PICK i \in 1 .. Len(p) : i <= Len(q) /\ p[i] < q[i] /\ \A j \in 1 .. i - 1 : p[j] = q[j]
    BY <1>5, BeforeIs
  <2>2. PICK k \in 1 .. Len(q) : k <= Len(p) /\ q[k] < p[k] /\ \A j \in 1 .. k - 1 : q[j] = p[j]
    BY <1>5, BeforeIs
  <2>3. p[i] \in Nat /\ q[i] \in Nat /\ p[k] \in Nat /\ q[k] \in Nat
    BY <1>1, <2>1, <2>2
  <2>4. CASE i < k
    <3>1. i \in 1 .. k - 1
      BY <1>1, <2>4
    <3>2. q[i] = p[i]
      BY <2>2, <3>1
    <3> QED BY <2>1, <2>3, <3>2
  <2>5. CASE k < i
    <3>1. k \in 1 .. i - 1
      BY <1>1, <2>5
    <3>2. p[k] = q[k]
      BY <2>1, <3>1
    <3> QED BY <2>2, <2>3, <3>2
  <2>6. CASE i = k
    BY <2>1, <2>2, <2>3, <2>6
  <2> QED BY <1>1, <2>4, <2>5, <2>6
<1> QED BY <1>2, <1>3, <1>4, <1>5

\* What lies between a directory and a prefix inside it is inside it.
LEMMA BetweenInside ==
  ASSUME NEW p \in Seq(Nat), NEW q \in Seq(Nat), NEW x \in Seq(Nat),
         IsPrefix(q, p), Before(x, p), ~Before(x, q)
  PROVE  IsPrefix(q, x)
<1>1. Len(p) \in Nat /\ Len(q) \in Nat /\ Len(x) \in Nat
  OBVIOUS
<1>2. Len(q) <= Len(p) /\ \A i \in 1 .. Len(q) : q[i] = p[i]
  BY <1>1, PrefixIs
<1>3. CASE IsPrefix(x, p)
  <2>1. Len(x) <= Len(p) /\ \A i \in 1 .. Len(x) : x[i] = p[i]
    BY <1>3, PrefixIs
  <2>2. ~(Len(x) <= Len(q))
    <3>1. SUFFICES ASSUME Len(x) <= Len(q) PROVE FALSE
      OBVIOUS
    <3>2. \A i \in 1 .. Len(x) : x[i] = q[i]
      BY <1>1, <1>2, <2>1, <3>1
    <3>3. IsPrefix(x, q)
      BY <3>1, <3>2, PrefixIs
    <3> QED BY <3>3 DEF Before
  <2>3. Len(q) <= Len(x) /\ \A i \in 1 .. Len(q) : i \in 1 .. Len(x)
    BY <1>1, <2>2
  <2>4. \A i \in 1 .. Len(q) : q[i] = x[i]
    BY <1>2, <2>1, <2>3
  <2> QED BY <2>3, <2>4, PrefixIs
<1>4. CASE ~IsPrefix(x, p)
  <2>1. PICK i \in 1 .. Len(x) : i <= Len(p) /\ x[i] < p[i] /\ \A j \in 1 .. i - 1 : x[j] = p[j]
    BY <1>4, BeforeIs
  <2>2. ~(i <= Len(q))
    <3>1. SUFFICES ASSUME i <= Len(q) PROVE FALSE
      OBVIOUS
    <3>2. i \in 1 .. Len(q) /\ \A j \in 1 .. i - 1 : j \in 1 .. Len(q)
      BY <1>1, <3>1
    <3>3. x[i] < q[i] /\ \A j \in 1 .. i - 1 : x[j] = q[j]
      BY <1>2, <2>1, <3>2
    <3> QED BY <3>1, <3>3, BeforeIs
  <2>3. Len(q) <= Len(x) /\ \A j \in 1 .. Len(q) : j \in 1 .. i - 1
    BY <1>1, <2>2
  <2>4. \A j \in 1 .. Len(q) : q[j] = x[j]
    BY <1>2, <2>1, <2>3
  <2> QED BY <2>3, <2>4, PrefixIs
<1> QED BY <1>3, <1>4

\* Allocated prefixes of a layer do not overlap, and in the root layer they
\* are the shortest.
LEMMA AllocatedPrefixes ==
  /\ \A L \in Layers : \A p, q \in Allocatable(L) : Overlap(p, q) => p = q
  /\ \A p \in Allocatable(<<>>), q \in RootPrefix : IsPrefix(q, p) => p = q
  /\ \A L \in Layers : Allocatable(L) \subseteq PrefixesOf(L)
  /\ ManualPrefix \subseteq RootPrefix /\ RootPrefix \subseteq ManualPrefix \cup Allocatable(<<>>)
<1>1. \A n \in 1 .. MaxNumber : n \in Nat
  BY DirectoryAssumption
<1>2. ASSUME NEW L \in Layers, NEW p \in Allocatable(L)
      PROVE  p \in Seq(Nat) /\ Len(p) = Len(L) + 1 /\ Len(L) \in Nat
  <2>1. PICK n \in 1 .. MaxNumber : p = Append(L, n)
    BY <1>2 DEF Allocatable
  <2>2. L \in Seq(Nat) /\ n \in Nat
    BY <1>1, PrefixFacts
  <2> QED BY <2>1, <2>2, AppendProperties
<1>3. ASSUME NEW p \in Seq(Nat), NEW q \in Seq(Nat), IsPrefix(p, q), Len(p) = Len(q)
      PROVE  p = q
  BY <1>3, PrefixIs, SeqEqual
<1>4. ASSUME NEW L \in Layers, NEW p \in Allocatable(L), NEW q \in Allocatable(L), Overlap(p, q)
      PROVE  p = q
  BY <1>2, <1>3, <1>4 DEF Overlap
<1>5. \A q \in RootPrefix : q \in Seq(Nat) /\ Len(q) \in Nat /\ Len(q) # 0
  <2>1. ASSUME NEW q \in RootPrefix PROVE q \in Seq(Nat) /\ q # <<>>
    BY PrefixFacts
  <2> QED BY <2>1, EmptySeq
<1>6. ASSUME NEW p \in Allocatable(<<>>), NEW q \in RootPrefix, IsPrefix(q, p)
      PROVE  p = q
  <2>1. p \in Seq(Nat) /\ Len(p) = 1
    <3>1. <<>> \in Layers /\ Len(<<>>) = 0
      BY PrefixFacts
    <3>2. \A M \in Layers : \A r \in Allocatable(M) : r \in Seq(Nat) /\ Len(r) = Len(M) + 1
      BY <1>2
    <3>3. p \in Seq(Nat) /\ Len(p) = Len(<<>>) + 1
      BY <3>1, <3>2
    <3> QED BY <3>1, <3>3
  <2>2. Len(q) <= Len(p)
    BY <1>5, <1>6, <2>1, PrefixIs
  <2> QED BY <1>3, <1>5, <1>6, <2>1, <2>2
<1>7. \A L \in Layers : Allocatable(L) \subseteq PrefixesOf(L)
  BY PrefixFacts DEF Allocatable
<1>8. ManualPrefix \subseteq RootPrefix /\ RootPrefix \subseteq ManualPrefix \cup Allocatable(<<>>)
  <2>1. \A n \in 1 .. MaxNumber : Append(<<>>, n) = <<n>>
    OBVIOUS
  <2>2. Allocatable(<<>>) = {<<n>> : n \in 1 .. MaxNumber}
    BY <2>1 DEF Allocatable
  <2> QED BY <2>2 DEF RootPrefix
<1> QED BY <1>4, <1>6, <1>7, <1>8

-----------------------------------------------------------------------------
(* What removing a node clears                                              *)

LEMMA LayerRangeKeys ==
  ASSUME NEW L \in Layers
  PROVE  /\ \A key \in LayerRange[L] : key[1] \notin {"entry", "size"} /\ key[2] = L
         /\ LinkKeys(L) \subseteq LayerRange[L]
         /\ \A p \in PrefixesOf(L) : LayerKey(L, p) \in LayerRange[L]
<1> DEFINE at == PrefixesOf(L) \cup {RootNode(L)}
           taken == {TakenKey(L, n) : n \in 1 .. MaxNumber}
           nodes == UNION {NodeRange(L, p) : p \in at}
<1>1. LayerRange[L] = {VersionKey(L)} \cup taken \cup nodes
  BY DEF LayerRange
<1>2. \A p \in at : \A key \in NodeRange(L, p) : key = LayerKey(L, p) \/ key \in LinkKeys(L)
  BY DEF NodeRange, LinkKeys
<1>3. LinkKeys(L) \subseteq nodes /\ \A p \in PrefixesOf(L) : LayerKey(L, p) \in nodes
  BY DEF NodeRange, LinkKeys
<1> HIDE DEF at, taken, nodes
<1>4. ASSUME NEW key \in LayerRange[L]
      PROVE  key[1] \notin {"entry", "size"} /\ key[2] = L
  <2>1. CASE key = VersionKey(L)
    BY <2>1, Keys
  <2>2. CASE key \in taken
    BY <2>2, Keys DEF taken
  <2>3. CASE key \in nodes
    <3>1. key \in LinkKeys(L) \/ \E p \in at : key = LayerKey(L, p)
      BY <1>2, <2>3 DEF nodes
    <3> QED BY <3>1, Keys, Ranges
  <2> QED BY <1>1, <2>1, <2>2, <2>3
<1> QED BY <1>1, <1>3, <1>4

LEMMA ContentFacts ==
  ASSUME NEW q \in AnyPrefix
  PROVE  /\ \A p \in AnyPrefix : IsPrefix(q, p) => DirectoryRange(p) \subseteq ContentRange[q]
         /\ \A p \in AnyPrefix : DirectoryRange(p) \cap ContentRange[q] # {} => IsPrefix(q, p)
         /\ \A key \in ContentRange[q] :
              key[1] \notin {"entry", "size"} => key[2] \in RootPrefix /\ IsPrefix(q, key[2])
         /\ \A M \in RootPrefix : IsPrefix(q, M) => LayerRange[M] \subseteq ContentRange[q]
<1>2. \A M \in RootPrefix : M \in Layers
  BY PrefixFacts
<1>0. RootPrefix \subseteq AnyPrefix
  BY PrefixFacts
<1>1. /\ \A key \in ContentRange[q] :
           \/ \E p \in Below(q) : key \in DirectoryRange(p)
           \/ \E M \in Below(q) \cap RootPrefix : key \in LayerRange[M]
      /\ \A p \in Below(q) : DirectoryRange(p) \subseteq ContentRange[q]
      /\ \A M \in Below(q) \cap RootPrefix : LayerRange[M] \subseteq ContentRange[q]
  <2>1. \A key : key \in ContentRange[q] <=>
           \/ \E p \in Below(q) : key \in DirectoryRange(p)
           \/ \E M \in Below(q) \cap RootPrefix : key \in LayerRange[M]
    <3>1. ContentRange[q] = (UNION {DirectoryRange(x) : x \in Below(q)})
                              \cup UNION {LayerRange[L] : L \in Below(q) \cap RootPrefix}
      BY DEF ContentRange
    <3>2. \A key : key \in UNION {DirectoryRange(x) : x \in Below(q)}
                      <=> \E p \in Below(q) : key \in DirectoryRange(p)
      OBVIOUS
    <3>3. \A key : key \in UNION {LayerRange[L] : L \in Below(q) \cap RootPrefix}
                      <=> \E M \in Below(q) \cap RootPrefix : key \in LayerRange[M]
      OBVIOUS
    <3> QED BY <3>1, <3>2, <3>3
  <2> QED BY <2>1
<1>3. \A key \in ContentRange[q] :
        \/ \E p \in AnyPrefix : IsPrefix(q, p) /\ key \in DirectoryRange(p)
        \/ \E M \in RootPrefix : IsPrefix(q, M) /\ key \in LayerRange[M]
  BY <1>1 DEF Below
<1>4. ASSUME NEW p \in AnyPrefix, NEW key \in DirectoryRange(p), key \in ContentRange[q]
      PROVE  IsPrefix(q, p)
  <2>1. key[1] \in {"entry", "size"} /\ key[2] = p
    BY Ranges
  <2>2. ~\E M \in RootPrefix : key \in LayerRange[M]
    BY <1>2, <2>1, LayerRangeKeys
  <2>3. PICK x \in AnyPrefix : IsPrefix(q, x) /\ key \in DirectoryRange(x)
    BY <1>3, <1>4, <2>2
  <2> QED BY <2>1, <2>3, Ranges
<1>5. ASSUME NEW key \in ContentRange[q], key[1] \notin {"entry", "size"}
      PROVE  key[2] \in RootPrefix /\ IsPrefix(q, key[2])
  <2>1. PICK M \in RootPrefix : IsPrefix(q, M) /\ key \in LayerRange[M]
    BY <1>3, <1>5, Ranges
  <2> QED BY <1>2, <2>1, LayerRangeKeys
<1>6. \A M \in RootPrefix : IsPrefix(q, M) => LayerRange[M] \subseteq ContentRange[q]
  BY <1>0, <1>1 DEF Below
<1>7. \A p \in AnyPrefix : IsPrefix(q, p) => DirectoryRange(p) \subseteq ContentRange[q]
  BY <1>1 DEF Below
<1> QED BY <1>4, <1>5, <1>6, <1>7

\* The nodes that removeRecursive walks hang together.
LEMMA NodesWalked ==
  ASSUME NEW view, NEW L, NEW p \in PrefixesOf(L),
         \A k \in LinkKeys(L) \cap DOMAIN view : view[k] \in PrefixesOf(L)
  PROVE  /\ p \in RemoveRecursive(view, L, p)
         /\ RemoveRecursive(view, L, p) \subseteq PrefixesOf(L)
         /\ \A q \in RemoveRecursive(view, L, p) : q = p \/
              \E r \in RemoveRecursive(view, L, p) :
                \E k \in ChildRange(L, r) \cap DOMAIN view : view[k] = q
         /\ \A q \in RemoveRecursive(view, L, p) : \A k \in ChildRange(L, q) \cap DOMAIN view :
              view[k] \in RemoveRecursive(view, L, p)
<1> DEFINE nodes == RemoveRecursive(view, L, p)
<1>1. /\ nodes \subseteq PrefixesOf(L) /\ p \in nodes
      /\ \A S \in SUBSET PrefixesOf(L) : p \in S /\ Closed(view, L, S) => nodes \subseteq S
  BY DEF RemoveRecursive
<1>2. \A q \in PrefixesOf(L) : ChildrenOf(view, L, q) \subseteq PrefixesOf(L)
  BY DEF ChildrenOf, LinkKeys
<1>3. Closed(view, L, nodes)
  <2>1. SUFFICES ASSUME NEW q \in nodes, NEW x \in ChildrenOf(view, L, q) PROVE x \in nodes
    BY DEF Closed
  <2>2. ASSUME NEW S \in SUBSET PrefixesOf(L), p \in S, Closed(view, L, S) PROVE x \in S
    BY <1>1, <2>2 DEF Closed
  <2>3. x \in PrefixesOf(L)
    BY <1>1, <1>2
  <2> QED BY <2>2, <2>3 DEF RemoveRecursive
<1>4. ASSUME NEW q \in nodes, q # p
      PROVE  \E r \in nodes : \E k \in ChildRange(L, r) \cap DOMAIN view : view[k] = q
  <2>1. SUFFICES ASSUME \A r \in nodes : q \notin ChildrenOf(view, L, r) PROVE FALSE
    BY DEF ChildrenOf
  <2> DEFINE rest == nodes \ {q}
  <2>2. rest \in SUBSET PrefixesOf(L) /\ p \in rest
    BY <1>1, <1>4
  <2>3. Closed(view, L, rest)
    BY <1>3, <2>1 DEF Closed
  <2> QED BY <1>1, <2>2, <2>3
<1>5. \A q \in nodes : \A k \in ChildRange(L, q) \cap DOMAIN view : view[k] \in nodes
  BY <1>3 DEF Closed, ChildrenOf
<1> QED BY <1>1, <1>4, <1>5

-----------------------------------------------------------------------------
(* Walking the tree                                                         *)

\* A path has two names at most: findNode walks none, one or two of them.
LEMMA FindNodeIs ==
  ASSUME NEW view, NEW L, NEW path, Len(path) \in 0 .. 2
  PROVE  LET first == WalkName(view, L, WalkRoot(L), path[1])
         IN /\ Len(path) = 0 => FindNode(view, L, path) = WalkRoot(L)
            /\ Len(path) = 1 => FindNode(view, L, path) = first
            /\ Len(path) = 2 => FindNode(view, L, path) = WalkName(view, L, first, path[2])
<1> DEFINE n == Len(path)
           first == WalkName(view, L, WalkRoot(L), path[1])
           second == WalkName(view, L, first, path[2])
           body(w) == [i \in 0 .. n |-> IF i = 0 THEN WalkRoot(L)
                                        ELSE WalkName(view, L, w[i - 1], path[i])]
           given == [i \in 0 .. n |-> IF i = 0 THEN WalkRoot(L)
                                      ELSE IF i = 1 THEN first ELSE second]
           walk == CHOOSE w : w = body(w)
<1>1. given = body(given)
  <2>1. ASSUME NEW i \in 0 .. n PROVE given[i] = body(given)[i]
    <3>1. CASE i = 0
      BY <3>1
    <3>2. CASE i = 1
      <4>1. 0 \in 0 .. n /\ given[0] = WalkRoot(L) /\ i - 1 = 0
        BY <3>2
      <4> HIDE DEF given
      <4>2. body(given)[i] = WalkName(view, L, given[0], path[1])
        BY <3>2, <4>1
      <4> QED BY <3>2, <4>1, <4>2 DEF given
    <3>3. CASE i = 2
      <4>1. 1 \in 0 .. n /\ given[1] = first /\ i - 1 = 1
        BY <3>3
      <4> HIDE DEF given
      <4>2. body(given)[i] = WalkName(view, L, given[1], path[2])
        BY <3>3, <4>1
      <4> QED BY <3>3, <4>1, <4>2 DEF given
    <3> QED BY <3>1, <3>2, <3>3
  <2> HIDE DEF first, second
  <2> QED BY <2>1
<1>2. walk = body(walk)
  <2> HIDE DEF body, given
  <2> QED BY <1>1
<1>3. FindNode(view, L, path) = walk[n]
  BY DEF FindNode
<1> HIDE DEF walk, given
<1>4. 0 \in 0 .. n /\ walk[0] = WalkRoot(L)
  BY <1>2
<1>5. n >= 1 => walk[1] = first
  BY <1>2, <1>4
<1>6. n = 2 => walk[2] = second
  <2> HIDE DEF first
  <2> QED BY <1>2, <1>5
<1>7. Len(path) = 0 => FindNode(view, L, path) = WalkRoot(L)
  BY <1>3, <1>4
<1>8. Len(path) = 1 => FindNode(view, L, path) = first
  <2> HIDE DEF first
  <2> QED BY <1>3, <1>5
<1>9. Len(path) = 2 => FindNode(view, L, path) = second
  <2> HIDE DEF first, second
  <2> QED BY <1>3, <1>6
<1> QED BY <1>7, <1>8, <1>9

LEMMA FrontIs ==
  ASSUME NEW path \in Seq(Name), Len(path) \in 1 .. 2
  PROVE  /\ Front(path) \in Seq(Name) /\ Len(Front(path)) = Len(path) - 1
         /\ Len(path) = 2 => Front(path)[1] = path[1]
         /\ Last(path) = path[Len(path)] /\ Last(path) \in Name /\ path[1] \in Name
<1>1. Len(path) \in Nat /\ Len(path) >= 1 /\ 1 \in 1 .. Len(path)
      /\ Len(path) \in 1 .. Len(path)
  OBVIOUS
<1>2. Front(path) = SubSeq(path, 1, Len(path) - 1) /\ Last(path) = path[Len(path)]
  BY DEF Front, Last
<1>3. \A i \in 1 .. Len(path) : path[i] \in Name
  BY ElementOfSeq
<1> DEFINE n == Len(path) - 1
           front == SubSeq(path, 1, n)
<1>4. n \in Int /\ n \in 0 .. 1 /\ \A i \in 1 .. n : path[i] \in Name
  BY <1>1, <1>3
<1>5. front \in Seq(Name) /\ Len(front) = n /\ \A i \in 1 .. n : front[i] = path[i]
  <2> HIDE DEF n
  <2>1. /\ front \in Seq(Name) /\ Len(front) = (IF 1 <= n THEN n - 1 + 1 ELSE 0)
        /\ \A i \in 1 .. n - 1 + 1 : front[i] = path[1 + i - 1]
    BY <1>4, SubSeqProperties
  <2>2. /\ n - 1 + 1 = n /\ (IF 1 <= n THEN n - 1 + 1 ELSE 0) = n
        /\ \A i \in 1 .. n : 1 + i - 1 = i
    BY <1>4
  <2> HIDE DEF front
  <2> QED BY <1>4, <2>1, <2>2
<1>6. Len(path) = 2 => front[1] = path[1]
  <2> HIDE DEF front
  <2> QED BY <1>5
<1> HIDE DEF front
<1>7. Front(path) = front
  BY <1>2 DEF front
<1> QED BY <1>1, <1>2, <1>3, <1>5, <1>6, <1>7

LEMMA WalkNameIs ==
  ASSUME NEW view, NEW L, NEW w, NEW name,
         w.node # None, w.tag # "partition"
  PROVE  LET child == ChildKey(L, w.node, name)
             next == WalkName(view, L, w, name)
         IN /\ next.depth = w.depth + 1 /\ w.reads \subseteq next.reads /\ child \in next.reads
            /\ child \notin DOMAIN view => next.node = None
            /\ child \in DOMAIN view => /\ next.node = view[child]
                                        /\ next.tag = Tag(view, L, view[child])
                                        /\ LayerKey(L, view[child]) \in next.reads
BY DEF WalkName, WalkReads

\* What a node of a layer is found with: the rows read, the last link, and
\* where in the path a partition was met.
LastLink(view, L, path) == ChildKey(L, FindNode(view, L, Front(path)).node, Last(path))

LEMMA FoundFacts ==
  ASSUME NEW view, Linked(view), NEW L \in Layers, NEW path \in Seq(Name), Len(path) \in 1 .. 2,
         FindNode(view, L, path).node # None
  PROVE  LET found == FindNode(view, L, path)
         IN /\ found.node \in PrefixesOf(L)
            /\ LayerKey(L, found.node) \in found.reads \cap DOMAIN view
            /\ view[LayerKey(L, found.node)] = found.tag
            /\ InPartition(found, path) =>
                 Subpath(found, path) \in Seq(Name) /\ Len(Subpath(found, path)) = 1
            /\ ~InPartition(found, path) =>
                 /\ FindNode(view, L, Front(path)).node # None
                 /\ LastLink(view, L, path) \in LinkKeys(L) \cap DOMAIN view \cap found.reads
                 /\ view[LastLink(view, L, path)] = found.node
<1> DEFINE found == FindNode(view, L, path)
           root == WalkRoot(L)
           first == WalkName(view, L, root, path[1])
           link == ChildKey(L, RootNode(L), path[1])
<1>1. Last(path) = path[Len(path)] /\ Last(path) \in Name /\ path[1] \in Name
  BY FrontIs
<1>2. /\ Front(path) \in Seq(Name) /\ Len(Front(path)) = Len(path) - 1
      /\ Len(path) = 2 => Front(path)[1] = path[1]
  BY FrontIs
<1>3. Len(Front(path)) \in 0 .. 2 /\ Len(path) \in 0 .. 2
  BY <1>2
<1>4. /\ root.node = RootNode(L) /\ root.tag = "" /\ root.depth = 0
      /\ root.node # None
  BY PrefixFacts DEF WalkRoot
<1>5. link \in LinkKeys(L)
  BY <1>1, <1>3, Ranges
<1> HIDE DEF root
<1>6. /\ first.depth = 1 /\ link \in first.reads
      /\ link \notin DOMAIN view => first.node = None
      /\ link \in DOMAIN view => /\ first.node = view[link]
                                 /\ first.tag = Tag(view, L, first.node)
                                 /\ LayerKey(L, first.node) \in first.reads
  <2>1. root.tag # "partition"
    BY <1>4
  <2>2. link = ChildKey(L, root.node, path[1])
    BY <1>4
  <2> HIDE DEF link
  <2>3. /\ first.depth = root.depth + 1
        /\ link \in first.reads
        /\ link \notin DOMAIN view => first.node = None
        /\ link \in DOMAIN view => /\ first.node = view[link]
                                   /\ first.tag = Tag(view, L, view[link])
                                   /\ LayerKey(L, view[link]) \in first.reads
    BY <1>4, <2>1, <2>2 DEF WalkName, WalkReads
  <2> HIDE DEF first
  <2>4. first.depth = 1
    <3>1. root.depth = 0
      BY <1>4
    <3>2. root.depth + 1 = 1
      BY <3>1
    <3> QED BY <2>3, <3>2
  <2>5. link \in DOMAIN view => /\ LayerKey(L, first.node) \in first.reads
                                /\ first.tag = Tag(view, L, first.node)
    BY <2>3
  <2> QED BY <2>3, <2>4, <2>5
<1>7. first.node # None =>
        /\ first.node \in PrefixesOf(L) /\ LayerKey(L, first.node) \in first.reads \cap DOMAIN view
        /\ view[LayerKey(L, first.node)] = first.tag
        /\ link \in DOMAIN view /\ view[link] = first.node
  BY <1>5, <1>6 DEF Linked, Tag
<1> HIDE DEF first
<1>8. CASE Len(path) = 1
  <2>1. found = first
    BY <1>3, <1>8, FindNodeIs DEF first, root
  <2>2. FindNode(view, L, Front(path)).node = RootNode(L)
    <3>1. Len(Front(path)) = 0
      BY <1>2, <1>8
    <3> QED BY <1>3, <1>4, <3>1, FindNodeIs DEF root
  <2>3. LastLink(view, L, path) = link
    BY <1>1, <1>8, <2>2 DEF LastLink
  <2>4. ~InPartition(found, path)
    BY <1>6, <1>8, <2>1 DEF InPartition
  <2> HIDE DEF found, link
  <2>5. first.node # None
    BY <2>1 DEF found
  <2>6. FindNode(view, L, Front(path)).node # None
    BY <1>4, <2>2
  <2> QED BY <1>5, <1>6, <1>7, <2>1, <2>3, <2>4, <2>5, <2>6 DEF found
<1>9. CASE Len(path) = 2
  <2>1. found = WalkName(view, L, first, path[2])
    BY <1>3, <1>9, FindNodeIs DEF first, root
  <2>2. FindNode(view, L, Front(path)) = first
    BY <1>2, <1>3, <1>9, FindNodeIs DEF first, root
  <2>3. first.node # None
    BY <2>1 DEF WalkName
  <2>4. CASE first.tag = "partition"
    <3>1. found = first
      BY <2>1, <2>4 DEF WalkName
    <3>2. InPartition(found, path)
      BY <1>6, <1>9, <2>4, <3>1 DEF InPartition
    <3>3. Subpath(found, path) = SubSeq(path, 2, 2)
      BY <1>6, <1>9, <3>1 DEF Subpath
    <3>4. Subpath(found, path) \in Seq(Name) /\ Len(Subpath(found, path)) = 1
      BY <1>9, <3>3
    <3> HIDE DEF found
    <3> QED BY <1>7, <2>3, <3>1, <3>2, <3>4 DEF found
  <2>5. CASE first.tag # "partition"
    <3> DEFINE child == ChildKey(L, first.node, path[2])
    <3>1. /\ found.depth = 2 /\ child \in found.reads
          /\ child \notin DOMAIN view => found.node = None
          /\ child \in DOMAIN view => /\ found.node = view[child]
                                     /\ found.tag = Tag(view, L, found.node)
                                     /\ LayerKey(L, found.node) \in found.reads
      BY <1>6, <2>1, <2>3, <2>5, WalkNameIs
    <3>2. child \in LinkKeys(L) /\ LastLink(view, L, path) = child
      <4>1. path[2] \in Name /\ Last(path) = path[2]
        BY <1>1, <1>9
      <4> QED BY <1>1, <1>7, <1>9, <2>2, <2>3, <4>1, Ranges DEF LastLink
    <3>3. ~InPartition(found, path)
      BY <1>9, <3>1 DEF InPartition
    <3> HIDE DEF child, found
    <3>4. found.node # None
      BY DEF found
    <3>5. found.node \in PrefixesOf(L) /\ LayerKey(L, found.node) \in DOMAIN view
      BY <3>1, <3>2, <3>4 DEF Linked
    <3>6. FindNode(view, L, Front(path)).node # None
      BY <2>2, <2>3
    <3>7. view[LayerKey(L, found.node)] = found.tag
      BY <3>1, <3>4, <3>5 DEF Tag
    <3> QED BY <3>1, <3>2, <3>3, <3>4, <3>5, <3>6, <3>7 DEF found
  <2> QED BY <2>4, <2>5
<1> QED BY <1>8, <1>9

\* The parent of the last name is found without the rest of the tree.
LEMMA SameParent ==
  ASSUME NEW view, NEW other, NEW L, NEW path \in Seq(Name), Len(path) \in 1 .. 2,
         Len(path) = 2 => LET k == ChildKey(L, RootNode(L), path[1])
                          IN /\ k \in DOMAIN view <=> k \in DOMAIN other
                             /\ k \in DOMAIN view => view[k] = other[k]
  PROVE  FindNode(other, L, Front(path)).node = FindNode(view, L, Front(path)).node
<1> DEFINE root == WalkRoot(L)
           k == ChildKey(L, RootNode(L), path[1])
<1>1. path[1] \in Name
  BY FrontIs
<1>2. /\ Front(path) \in Seq(Name) /\ Len(Front(path)) = Len(path) - 1
      /\ Len(path) = 2 => Front(path)[1] = path[1]
      /\ Len(Front(path)) \in 0 .. 2
  <2>1. /\ Front(path) \in Seq(Name) /\ Len(Front(path)) = Len(path) - 1
        /\ Len(path) = 2 => Front(path)[1] = path[1]
    BY FrontIs
  <2> QED BY <2>1
<1>3. CASE Len(path) = 1
  <2>1. Len(Front(path)) = 0
    BY <1>2, <1>3
  <2> QED BY <2>1, FindNodeIs
<1>4. CASE Len(path) = 2
  <2>1. /\ FindNode(view, L, Front(path)) = WalkName(view, L, root, path[1])
        /\ FindNode(other, L, Front(path)) = WalkName(other, L, root, path[1])
    BY <1>2, <1>4, FindNodeIs
  <2>2. root.node = RootNode(L)
    BY DEF WalkRoot
  <2>3. k \in DOMAIN view <=> k \in DOMAIN other
    BY <1>4
  <2>4. k \in DOMAIN view => view[k] = other[k]
    BY <1>4
  <2>5. root.node # None => /\ ChildKey(L, root.node, path[1]) = k
                            /\ root.tag # "partition"
    BY <2>2 DEF WalkRoot
  <2> HIDE DEF root, k
  <2>6. CASE root.node = None
    BY <2>1, <2>6 DEF WalkName
  <2>7. CASE root.node # None /\ k \in DOMAIN view
    <3>1. WalkName(view, L, root, path[1]).node = view[k]
      BY <2>5, <2>7 DEF WalkName
    <3>2. WalkName(other, L, root, path[1]).node = other[k]
      BY <2>3, <2>5, <2>7 DEF WalkName
    <3> QED BY <2>1, <2>4, <2>7, <3>1, <3>2
  <2>8. CASE root.node # None /\ k \notin DOMAIN view
    <3>1. WalkName(view, L, root, path[1]).node = None
      BY <2>5, <2>8 DEF WalkName
    <3>2. WalkName(other, L, root, path[1]).node = None
      BY <2>3, <2>5, <2>8 DEF WalkName
    <3> QED BY <2>1, <3>1, <3>2
  <2> QED BY <2>6, <2>7, <2>8
<1> QED BY <1>3, <1>4

\* How the node that a path leads to is held: it is the root, or a link of the
\* root that the walk read names it.
Rooting(view, L, path, P, keys) ==
  \/ P = RootNode(L)
  \/ /\ Len(path) = 2 /\ P \in PrefixesOf(L)
     /\ ChildKey(L, RootNode(L), path[1]) \in keys \cap DOMAIN view
     /\ view[ChildKey(L, RootNode(L), path[1])] = P

\* Where a path leads nowhere below a node, that node has no such link.
LEMMA MissingLink ==
  ASSUME NEW view, Linked(view), NEW L \in Layers, NEW path \in Seq(Name), Len(path) \in 1 .. 2,
         FindNode(view, L, path).node = None, FindNode(view, L, Front(path)).node # None
  PROVE  LET P == FindNode(view, L, Front(path)).node
             found == FindNode(view, L, path)
             link == LastLink(view, L, path)
         IN /\ P \in PrefixesOf(L) \cup {RootNode(L)}
            /\ link \in ChildRange(L, P) /\ link \in LinkKeys(L)
            /\ link \in found.reads \ DOMAIN view
            /\ Rooting(view, L, path, P, found.reads)
<1> DEFINE parent == FindNode(view, L, Front(path))
           P == parent.node
           found == FindNode(view, L, path)
           link == ChildKey(L, P, Last(path))
           first == ChildKey(L, RootNode(L), path[1])
           root == WalkRoot(L)
<1>1. /\ Front(path) \in Seq(Name) /\ Len(Front(path)) = Len(path) - 1
      /\ Len(path) = 2 => Front(path)[1] = path[1]
      /\ Last(path) = path[Len(path)] /\ Last(path) \in Name /\ path[1] \in Name
  BY FrontIs
<1>2. Len(Front(path)) \in 0 .. 2 /\ Len(path) \in 0 .. 2
  BY <1>1
<1>3. root.node = RootNode(L) /\ root.tag # "partition" /\ root.node # None
  BY PrefixFacts DEF WalkRoot
<1>4. Len(path) = 1 => parent = root
  <2>1. Len(path) = 1 => Len(Front(path)) = 0
    BY <1>1
  <2> QED BY <1>2, <2>1, FindNodeIs
<1>5. Len(path) = 2 => parent = WalkName(view, L, root, path[1])
  <2>1. Len(path) = 2 => Len(Front(path)) = 1
    BY <1>1
  <2> QED BY <1>1, <1>2, <2>1, FindNodeIs
<1>6. found = WalkName(view, L, parent, Last(path))
  <2> HIDE DEF parent, found
  <2>1. CASE Len(path) = 1
    <3>1. found = WalkName(view, L, root, path[1])
      BY <1>2, <2>1, FindNodeIs DEF found
    <3> QED BY <1>1, <1>4, <2>1, <3>1
  <2>2. CASE Len(path) = 2
    <3>1. found = WalkName(view, L, WalkName(view, L, root, path[1]), path[2])
      BY <1>2, <2>2, FindNodeIs DEF found
    <3> QED BY <1>1, <1>5, <2>2, <3>1
  <2> QED BY <2>1, <2>2
<1> HIDE DEF parent, found, first
<1>7. Len(path) = 2 => /\ first \in DOMAIN view /\ P = view[first] /\ first \in parent.reads
                       /\ P \in PrefixesOf(L)
  <2>1. Len(path) = 2 => first \in DOMAIN view /\ P = view[first] /\ first \in parent.reads
    <3>1. parent.node # None
      BY DEF parent
    <3> HIDE DEF root
    <3> QED BY <1>3, <1>5, <3>1, WalkNameIs DEF first
  <2>2. first \in LinkKeys(L)
    BY <1>1, Ranges DEF first
  <2> QED BY <2>1, <2>2 DEF Linked
<1>8. P \in PrefixesOf(L) \cup {RootNode(L)}
  BY <1>3, <1>4, <1>7
<1>9. link \in ChildRange(L, P) /\ link \in LinkKeys(L)
  BY <1>1, <1>8, Ranges DEF ChildRange
<1>10. parent.tag # "partition" /\ parent.node # None /\ found.node = None
  BY <1>6 DEF WalkName, parent, found
<1>11. link \in found.reads /\ parent.reads \subseteq found.reads
  BY <1>6, <1>10, WalkNameIs
<1>12. link \notin DOMAIN view
  <2>1. link \in DOMAIN view => found.node = view[link]
    BY <1>6, <1>10, WalkNameIs
  <2>2. link \in DOMAIN view => view[link] # None
    BY <1>9, PrefixFacts DEF Linked
  <2> QED BY <1>10, <2>1, <2>2
<1>13. Rooting(view, L, path, P, found.reads)
  <2>1. CASE Len(path) = 1
    BY <1>3, <1>4, <2>1 DEF Rooting
  <2>2. CASE Len(path) = 2
    BY <1>7, <1>11, <2>2 DEF Rooting, first
  <2> QED BY <2>1, <2>2
<1> QED BY <1>8, <1>9, <1>11, <1>12, <1>13 DEF LastLink, parent, found

\* Only a path of one name has the root of the layer as its parent.
LEMMA BelowRoot ==
  ASSUME NEW view, Linked(view), NEW L \in Layers, NEW path \in Seq(Name), Len(path) \in 1 .. 2,
         FindNode(view, L, Front(path)).node = RootNode(L)
  PROVE  Len(path) = 1
<1> DEFINE root == WalkRoot(L)
           child == ChildKey(L, RootNode(L), path[1])
<1>1. SUFFICES ASSUME Len(path) = 2 PROVE FALSE
  OBVIOUS
<1>2. /\ Len(Front(path)) = 1 /\ Len(Front(path)) \in 0 .. 2 /\ Front(path)[1] = path[1]
      /\ path[1] \in Name
  <2>1. /\ Len(Front(path)) = Len(path) - 1
        /\ Len(path) = 2 => Front(path)[1] = path[1]
        /\ path[1] \in Name
    BY FrontIs
  <2> QED BY <1>1, <2>1
<1>3. FindNode(view, L, Front(path)) = WalkName(view, L, root, path[1])
  BY <1>2, FindNodeIs
<1>4. root.node = RootNode(L) /\ root.tag # "partition" /\ root.node # None
  BY PrefixFacts DEF WalkRoot
<1>5. child \in LinkKeys(L)
  BY <1>2, Ranges
<1> HIDE DEF root, child
<1>6. CASE child \in DOMAIN view
  <2>1. FindNode(view, L, Front(path)).node = view[child]
    BY <1>3, <1>4, <1>6, WalkNameIs DEF child
  <2>2. view[child] \in PrefixesOf(L)
    BY <1>5, <1>6 DEF Linked
  <2> QED BY <2>1, <2>2, PrefixFacts
<1>7. CASE child \notin DOMAIN view
  <2>1. FindNode(view, L, Front(path)).node = None
    BY <1>3, <1>4, <1>7, WalkNameIs DEF child
  <2> QED BY <2>1, PrefixFacts
<1> QED BY <1>6, <1>7

-----------------------------------------------------------------------------
(* Transactions in the making                                               *)

Made(t) ==
  t = [view |-> t.view, reads |-> t.reads, puts |-> t.puts, clears |-> t.clears,
       adds |-> t.adds, auto |-> t.auto, at |-> t.at, ok |-> t.ok]

\* t sees db with what it has put.
Overlaid(t, db) ==
  /\ DOMAIN t.view = DOMAIN db \cup DOMAIN t.puts
  /\ \A k \in DOMAIN t.puts : t.view[k] = t.puts[k]
  /\ \A k \in DOMAIN db \ DOMAIN t.puts : t.view[k] = db[k]

LinksNew(t) ==
  \A L \in Layers :
    /\ \A k \in LinkKeys(L) \cap DOMAIN t.puts :
         t.puts[k] \in PrefixesOf(L) /\ LayerKey(L, t.puts[k]) \in DOMAIN t.puts
    /\ \A j, k \in LinkKeys(L) \cap DOMAIN t.puts : t.puts[j] = t.puts[k] => j = k

Unclaimed(t, busy) ==
  \A L \in Layers : \A n \in 1 .. MaxNumber :
    TakenKey(L, n) \in DOMAIN t.puts => TakenKey(L, n) \notin busy

\* What creating directories makes of a transaction.
Building(t, db, busy) ==
  /\ Made(t) /\ t.clears = {} /\ t.adds = <<>> /\ Overlaid(t, db)
  /\ \A key \in DOMAIN t.puts : key[1] \notin {"entry", "size"}
  /\ Creates(t, db) /\ LinksNew(t) /\ Unclaimed(t, busy)
  /\ Nests(t, db) /\ Grafts(t, db)

\* u has read and put what t has, and sees the same links.
Grows(t, u) ==
  /\ t.reads \subseteq u.reads /\ DOMAIN t.puts \subseteq DOMAIN u.puts
  /\ \A k \in DOMAIN t.puts : u.puts[k] = t.puts[k]

SameLinks(t, u) ==
  \A k : k[1] = "child" =>
    /\ k \in DOMAIN u.view <=> k \in DOMAIN t.view
    /\ k \in DOMAIN t.view => u.view[k] = t.view[k]

\* A node in place, or put here, may get the link k.
Vacant(t, db, L, P, k) ==
  /\ P \in PrefixesOf(L) \cup {RootNode(L)} /\ k \in ChildRange(L, P) \ DOMAIN t.view
  /\ Joins(t, db, L, P, k)

LEMMA GrowsTogether ==
  ASSUME NEW t, NEW u, Grows(t, u), \A k \in u.clears \ t.clears : k[1] \in {"entry", "size"},
         NEW db
  PROVE  /\ \A L : Within(t, db, L) => Within(u, db, L)
         /\ \A L, P : Hung(t, db, L, P) => Hung(u, db, L, P)
         /\ \A L, P, k : Joins(t, db, L, P, k) => Joins(u, db, L, P, k)
<1>1. \A L : Within(t, db, L) => Within(u, db, L)
  BY Keys DEF Grows, Within
<1>2. \A L, P : Hung(t, db, L, P) => Hung(u, db, L, P)
  <2>1. SUFFICES ASSUME NEW L, NEW P, Hung(t, db, L, P) PROVE Hung(u, db, L, P)
    OBVIOUS
  <2>2. \A k \in ChildRange(L, RootNode(L)) : k[1] = "child"
    BY Keys DEF ChildRange
  <2> QED BY <2>1, <2>2 DEF Grows, Hung
<1>3. \A L, P, k : Joins(t, db, L, P, k) => Joins(u, db, L, P, k)
  BY <1>2 DEF Grows, Joins
<1> QED BY <1>1, <1>2, <1>3

LEMMA GrowsOn ==
  ASSUME NEW t, NEW u, Grows(t, u), NEW w, Grows(u, w)
  PROVE  /\ Grows(t, w)
         /\ SameLinks(t, u) /\ SameLinks(u, w) => SameLinks(t, w)
<1>1. Grows(t, w)
  BY DEF Grows
<1>2. ASSUME SameLinks(t, u), SameLinks(u, w) PROVE SameLinks(t, w)
  <2>1. SUFFICES ASSUME NEW k, k[1] = "child"
                 PROVE  /\ k \in DOMAIN w.view <=> k \in DOMAIN t.view
                        /\ k \in DOMAIN t.view => w.view[k] = t.view[k]
    BY DEF SameLinks
  <2>2. /\ k \in DOMAIN u.view <=> k \in DOMAIN t.view
        /\ k \in DOMAIN t.view => u.view[k] = t.view[k]
    BY <1>2, <2>1 DEF SameLinks
  <2>3. /\ k \in DOMAIN w.view <=> k \in DOMAIN u.view
        /\ k \in DOMAIN u.view => w.view[k] = u.view[k]
    BY <1>2, <2>1 DEF SameLinks
  <2> QED BY <2>2, <2>3
<1> QED BY <1>1, <1>2

LEMMA PutIs ==
  ASSUME NEW t, Made(t), NEW key, NEW value
  PROVE  LET u == Put(t, key, value)
         IN /\ Made(u) /\ u.reads = t.reads /\ u.adds = t.adds /\ u.auto = t.auto
            /\ u.at = t.at /\ u.ok = t.ok /\ u.clears = t.clears \ {key}
            /\ DOMAIN u.view = DOMAIN t.view \cup {key} /\ u.view[key] = value
            /\ \A k \in DOMAIN t.view : k # key => u.view[k] = t.view[k]
            /\ DOMAIN u.puts = DOMAIN t.puts \cup {key} /\ u.puts[key] = value
            /\ \A k \in DOMAIN t.puts : k # key => u.puts[k] = t.puts[k]
<1> DEFINE view == With(t.view, key, value)
           puts == With(t.puts, key, value)
           clears == t.clears \ {key}
           u == Put(t, key, value)
<1>1. \A f : /\ DOMAIN With(f, key, value) = DOMAIN f \cup {key}
             /\ With(f, key, value)[key] = value
             /\ \A k \in DOMAIN f : k # key => With(f, key, value)[k] = f[k]
  BY DEF With
<1>2. u = [t EXCEPT !.view = view, !.puts = puts, !.clears = clears]
  BY DEF Put
<1>3. clears = t.clears \ {key}
  OBVIOUS
<1>4. /\ DOMAIN view = DOMAIN t.view \cup {key} /\ view[key] = value
      /\ \A k \in DOMAIN t.view : k # key => view[k] = t.view[k]
  BY <1>1
<1>5. /\ DOMAIN puts = DOMAIN t.puts \cup {key} /\ puts[key] = value
      /\ \A k \in DOMAIN t.puts : k # key => puts[k] = t.puts[k]
  BY <1>1
<1> HIDE DEF view, puts, clears, u
<1>6. /\ u.view = view /\ u.reads = t.reads /\ u.puts = puts /\ u.clears = clears
      /\ u.adds = t.adds /\ u.auto = t.auto /\ u.at = t.at /\ u.ok = t.ok
  BY <1>2 DEF Made
<1>7. Made(u)
  BY <1>2, <1>6 DEF Made
<1> QED BY <1>3, <1>4, <1>5, <1>6, <1>7 DEF u

LEMMA ReadsIs ==
  ASSUME NEW t, Made(t), NEW keys
  PROVE  LET u == Reads(t, keys)
         IN /\ Made(u) /\ u.reads = t.reads \cup keys /\ u.view = t.view /\ u.puts = t.puts
            /\ u.clears = t.clears /\ u.adds = t.adds /\ u.auto = t.auto
            /\ u.at = t.at /\ u.ok = t.ok
BY DEF Made, Reads

LEMMA FailIs ==
  ASSUME NEW t, Made(t)
  PROVE  LET u == Fail(t)
         IN /\ Made(u) /\ ~u.ok /\ u.reads = t.reads /\ u.view = t.view /\ u.puts = t.puts
            /\ u.clears = t.clears /\ u.adds = t.adds /\ u.auto = t.auto /\ u.at = t.at
<1> DEFINE no == FALSE
           u == Fail(t)
<1>1. u = [t EXCEPT !.ok = no]
  BY DEF Fail
<1>2. ~no
  OBVIOUS
<1> HIDE DEF no, u
<1>3. /\ u.ok = no /\ u.reads = t.reads /\ u.view = t.view /\ u.puts = t.puts
      /\ u.clears = t.clears /\ u.adds = t.adds /\ u.auto = t.auto /\ u.at = t.at
  BY <1>1 DEF Made
<1>4. Made(u)
  BY <1>1, <1>3 DEF Made
<1>5. ~u.ok
  BY <1>2, <1>3
<1> QED BY <1>3, <1>4, <1>5 DEF u

LEMMA AtIs ==
  ASSUME NEW t, Made(t), NEW L, NEW p
  PROVE  LET u == At(t, L, p)
         IN /\ Made(u) /\ u.reads = t.reads /\ u.view = t.view /\ u.puts = t.puts
            /\ u.clears = t.clears /\ u.adds = t.adds /\ u.auto = t.auto /\ u.ok = t.ok
            /\ u.at.layer = L /\ u.at.prefix = p
BY DEF Made, At

\* Steps that only read, fail or name a directory.
LEMMA BuildingKept ==
  ASSUME NEW t, NEW db, NEW busy, Building(t, db, busy), NEW u, Made(u),
         t.reads \subseteq u.reads, u.view = t.view, u.puts = t.puts,
         u.clears = t.clears, u.adds = t.adds
  PROVE  Building(u, db, busy) /\ Grows(t, u) /\ SameLinks(t, u)
<1>1. Creates(u, db)
  BY DEF Building, Creates
<1>2. Grows(t, u) /\ SameLinks(t, u)
  BY DEF Grows, SameLinks
<1>3. Nests(u, db)
  BY <1>2, GrowsTogether DEF Building, Nests
<1>4. Grafts(u, db)
  <2>1. \A L, P, k : Joins(t, db, L, P, k) => Joins(u, db, L, P, k)
    BY <1>2, GrowsTogether
  <2> QED BY <2>1 DEF Building, Grafts
<1> QED BY <1>1, <1>2, <1>3, <1>4 DEF Building, Overlaid, LinksNew, Unclaimed

LEMMA BuildingView ==
  ASSUME NEW t, NEW db, NEW busy, Building(t, db, busy), Linked(db)
  PROVE  Linked(t.view)
<1>1. SUFFICES ASSUME NEW L \in Layers, NEW k \in LinkKeys(L) \cap DOMAIN t.view
               PROVE  t.view[k] \in PrefixesOf(L) /\ LayerKey(L, t.view[k]) \in DOMAIN t.view
  BY DEF Linked
<1>2. CASE k \in DOMAIN t.puts
  BY <1>2 DEF Building, Overlaid, LinksNew
<1>3. CASE k \notin DOMAIN t.puts
  BY <1>3 DEF Building, Overlaid, Linked
<1> QED BY <1>2, <1>3

\* The version of a layer, and numbers that nobody else was given.
LEMMA BuildingPut ==
  ASSUME NEW t, NEW db, NEW busy, Building(t, db, busy), NEW key, NEW value,
         key[1] \in {"version", "taken"}, key[1] = "taken" => key \notin busy,
         Within(t, db, key[2]), key \notin DOMAIN t.view
  PROVE  LET u == Put(t, key, value)
         IN Building(u, db, busy) /\ Grows(t, u) /\ SameLinks(t, u)
<1> DEFINE u == Put(t, key, value)
<1>1. Made(t)
  BY DEF Building
<1>2. /\ Made(u) /\ u.reads = t.reads /\ u.adds = t.adds /\ u.clears = t.clears \ {key}
      /\ DOMAIN u.view = DOMAIN t.view \cup {key} /\ u.view[key] = value
      /\ \A k \in DOMAIN t.view : k # key => u.view[k] = t.view[k]
      /\ DOMAIN u.puts = DOMAIN t.puts \cup {key} /\ u.puts[key] = value
      /\ \A k \in DOMAIN t.puts : k # key => u.puts[k] = t.puts[k]
  BY <1>1, PutIs
<1> HIDE DEF u
<1>3. Overlaid(u, db)
  BY <1>2 DEF Building, Overlaid
<1>4. Creates(u, db)
  <2>1. \A L, p : LayerKey(L, p) # key
    BY Keys
  <2> QED BY <1>2, <2>1 DEF Building, Creates
<1>5. LinksNew(u)
  <2>1. \A L : key \notin LinkKeys(L)
    BY Ranges
  <2>2. \A L : LinkKeys(L) \cap DOMAIN u.puts = LinkKeys(L) \cap DOMAIN t.puts
    BY <1>2, <2>1
  <2>3. \A L : \A k \in LinkKeys(L) \cap DOMAIN t.puts : u.puts[k] = t.puts[k]
    BY <1>2, <2>1
  <2> QED BY <1>2, <2>2, <2>3 DEF Building, LinksNew
<1>6. Unclaimed(u, busy)
  BY <1>2, Keys DEF Building, Unclaimed
<1>7. \A k \in DOMAIN u.puts : k[1] \notin {"entry", "size"}
  BY <1>2 DEF Building
<1>8. u.clears = {} /\ u.adds = <<>> /\ t.clears = {}
  BY <1>2 DEF Building
<1>9. key \notin DOMAIN t.puts
  BY DEF Building, Overlaid
<1>10. Grows(t, u) /\ SameLinks(t, u)
  BY <1>2, <1>9 DEF Grows, SameLinks
<1>11. Nests(u, db)
  <2>1. SUFFICES ASSUME NEW L \in Layers, NEW k \in LayerRange[L] \cap DOMAIN u.puts
                 PROVE  Within(t, db, L)
    BY <1>8, <1>10, GrowsTogether DEF Nests
  <2>2. CASE k = key
    <3>1. key[2] = L
      BY <2>2, LayerRangeKeys
    <3> QED BY <3>1
  <2>3. CASE k # key
    BY <1>2, <2>3 DEF Building, Nests
  <2> QED BY <2>2, <2>3
<1>12. Grafts(u, db)
  <2>1. \A L \in Layers : LinkKeys(L) \cap DOMAIN u.puts = LinkKeys(L) \cap DOMAIN t.puts
    BY <1>2, Ranges
  <2>2. \A L, p : LayerKey(L, p) # key
    BY Keys
  <2>3. \A L \in Layers : \A p \in PrefixesOf(L) \cup {RootNode(L)} :
          ChildRange(L, p) \subseteq LinkKeys(L)
    BY DEF LinkKeys
  <2>4. ASSUME NEW L \in Layers, NEW P \in PrefixesOf(L) \cup {RootNode(L)},
               NEW k \in ChildRange(L, P) \cap DOMAIN u.puts
        PROVE  Joins(u, db, L, P, k)
    <3>1. Joins(t, db, L, P, k)
      BY <2>1, <2>3 DEF Building, Grafts
    <3> QED BY <1>8, <1>10, <3>1, GrowsTogether
  <2>5. ASSUME NEW L \in Layers, NEW p \in PrefixesOf(L), LayerKey(L, p) \in DOMAIN u.puts
        PROVE  \E k \in LinkKeys(L) \cap DOMAIN u.puts : u.puts[k] = p
    <3>1. LayerKey(L, p) \in DOMAIN t.puts
      BY <1>2, <2>2, <2>5
    <3>2. PICK k \in LinkKeys(L) \cap DOMAIN t.puts : t.puts[k] = p
      BY <3>1 DEF Building, Grafts
    <3> QED BY <1>10, <3>2 DEF Grows
  <2> QED BY <2>4, <2>5 DEF Grafts
<1> QED BY <1>2, <1>3, <1>4, <1>5, <1>6, <1>7, <1>8, <1>10, <1>11, <1>12 DEF Building, u

\* A new node and the link to it.
LEMMA BuildingLink ==
  ASSUME NEW t, NEW db, NEW busy, Building(t, db, busy), NEW L \in Layers, NEW p \in PrefixesOf(L),
         LayerKey(L, p) \notin DOMAIN t.view, NEW q, NEW name, NEW tag,
         Within(t, db, L), Vacant(t, db, L, q, ChildKey(L, q, name))
  PROVE  LET k == ChildKey(L, q, name)
             u == Put(Put(t, k, p), LayerKey(L, p), tag)
         IN /\ Building(u, db, busy) /\ LayerKey(L, p) \in DOMAIN u.puts
            /\ u.at = t.at /\ u.ok = t.ok /\ Grows(t, u)
            /\ k \in DOMAIN u.puts /\ u.puts[k] = p
            /\ DOMAIN u.view = DOMAIN t.view \cup {k, LayerKey(L, p)}
<1> DEFINE link == ChildKey(L, q, name)
           layer == LayerKey(L, p)
           v == Put(t, link, p)
           u == Put(v, layer, tag)
<1>1. /\ link[1] = "child" /\ link[2] = L /\ layer[1] = "layer" /\ layer[2] = L /\ layer[3] = p
      /\ link # layer
  BY Keys
<1>2. Made(t) /\ t.clears = {} /\ t.adds = <<>>
  BY DEF Building
<1> HIDE DEF link, layer
<1>3. /\ Made(v) /\ v.reads = t.reads /\ v.adds = t.adds /\ v.clears = t.clears \ {link}
      /\ DOMAIN v.view = DOMAIN t.view \cup {link} /\ v.view[link] = p
      /\ \A k \in DOMAIN t.view : k # link => v.view[k] = t.view[k]
      /\ DOMAIN v.puts = DOMAIN t.puts \cup {link} /\ v.puts[link] = p
      /\ \A k \in DOMAIN t.puts : k # link => v.puts[k] = t.puts[k]
      /\ v.at = t.at /\ v.ok = t.ok
  BY <1>2, PutIs
<1> HIDE DEF v
<1>4. /\ Made(u) /\ u.reads = v.reads /\ u.adds = v.adds /\ u.clears = v.clears \ {layer}
      /\ DOMAIN u.view = DOMAIN v.view \cup {layer} /\ u.view[layer] = tag
      /\ \A k \in DOMAIN v.view : k # layer => u.view[k] = v.view[k]
      /\ DOMAIN u.puts = DOMAIN v.puts \cup {layer} /\ u.puts[layer] = tag
      /\ \A k \in DOMAIN v.puts : k # layer => u.puts[k] = v.puts[k]
      /\ u.at = v.at /\ u.ok = v.ok
  BY <1>3, PutIs
<1> HIDE DEF u
<1>5. /\ DOMAIN u.puts = DOMAIN t.puts \cup {link, layer} /\ u.puts[link] = p
      /\ \A k \in DOMAIN t.puts : k \notin {link, layer} => u.puts[k] = t.puts[k]
      /\ DOMAIN u.view = DOMAIN t.view \cup {link, layer}
      /\ u.view[link] = p /\ u.view[layer] = u.puts[layer]
      /\ \A k \in DOMAIN t.view : k \notin {link, layer} => u.view[k] = t.view[k]
      /\ u.reads = t.reads /\ u.clears = {} /\ u.adds = <<>>
  BY <1>1, <1>2, <1>3, <1>4
<1>6. Overlaid(u, db)
  BY <1>5 DEF Building, Overlaid
<1>7. Creates(u, db)
  <2>1. ASSUME NEW M \in Layers, NEW x \in PrefixesOf(M), LayerKey(M, x) \in DOMAIN u.puts
        PROVE  LayerKey(M, x) \notin DOMAIN db
    <3>1. CASE LayerKey(M, x) = layer
      <4>1. layer \notin DOMAIN db
        BY DEF Building, Overlaid, layer
      <4> QED BY <3>1, <4>1
    <3>2. CASE LayerKey(M, x) # layer
      <4>1. LayerKey(M, x) # link
        BY <1>1, Keys
      <4> QED BY <1>5, <2>1, <3>2, <4>1 DEF Building, Creates
    <3> QED BY <3>1, <3>2
  <2> QED BY <2>1 DEF Creates
<1>8. LinksNew(u)
  <2>1. \A M : layer \notin LinkKeys(M)
    BY <1>1, Ranges
  <2>2. \A M : \A k \in LinkKeys(M) \cap DOMAIN u.puts :
          \/ k = link /\ M = L /\ u.puts[k] = p
          \/ k \in DOMAIN t.puts /\ u.puts[k] = t.puts[k]
    BY <1>1, <1>5, <2>1, Ranges
  <2>3. \A k \in LinkKeys(L) \cap DOMAIN t.puts : t.puts[k] # p
    BY DEF Building, LinksNew, Overlaid
  <2>4. ASSUME NEW M \in Layers, NEW k \in LinkKeys(M) \cap DOMAIN u.puts
        PROVE  u.puts[k] \in PrefixesOf(M) /\ LayerKey(M, u.puts[k]) \in DOMAIN u.puts
    BY <1>5, <2>2 DEF Building, LinksNew, layer
  <2>5. ASSUME NEW M \in Layers, NEW j \in LinkKeys(M) \cap DOMAIN u.puts,
               NEW k \in LinkKeys(M) \cap DOMAIN u.puts, u.puts[j] = u.puts[k]
        PROVE  j = k
    BY <2>2, <2>3, <2>5 DEF Building, LinksNew
  <2> QED BY <2>4, <2>5 DEF LinksNew
<1>9. Unclaimed(u, busy)
  BY <1>1, <1>5, Keys DEF Building, Unclaimed
<1>10. \A k \in DOMAIN u.puts : k[1] \notin {"entry", "size"}
  BY <1>1, <1>5 DEF Building
<1>11. link \notin DOMAIN t.puts /\ layer \notin DOMAIN t.puts
  BY DEF Building, Overlaid, Vacant, link, layer
<1>12. Grows(t, u)
  BY <1>5, <1>11 DEF Grows
<1>13. Nests(u, db)
  <2>1. SUFFICES ASSUME NEW M \in Layers, NEW k \in LayerRange[M] \cap DOMAIN u.puts
                 PROVE  Within(t, db, M)
    BY <1>2, <1>5, <1>12, GrowsTogether DEF Nests
  <2>2. CASE k \in {link, layer}
    <3>1. M = L
      BY <1>1, <2>2, LayerRangeKeys
    <3> QED BY <3>1
  <2>3. CASE k \notin {link, layer}
    BY <1>5, <2>3 DEF Building, Nests
  <2> QED BY <2>2, <2>3
<1>14. Grafts(u, db)
  <2>1. \A M, P, k : Joins(t, db, M, P, k) => Joins(u, db, M, P, k)
    BY <1>2, <1>5, <1>12, GrowsTogether
  <2>2. ASSUME NEW M \in Layers, NEW P \in PrefixesOf(M) \cup {RootNode(M)},
               NEW k \in ChildRange(M, P) \cap DOMAIN u.puts
        PROVE  Joins(u, db, M, P, k)
    <3>1. k[1] = "child" /\ k[2] = M /\ k[3] = P
      BY Keys DEF ChildRange
    <3>2. CASE k = link
      <4>1. M = L /\ P = q
        BY <3>1, <3>2, Keys DEF link
      <4> QED BY <2>1, <3>2, <4>1 DEF Vacant, link
    <3>3. CASE k # link
      <4>1. k \in DOMAIN t.puts
        BY <1>1, <1>5, <3>1, <3>3
      <4> QED BY <2>1, <4>1 DEF Building, Grafts
    <3> QED BY <3>2, <3>3
  <2>3. ASSUME NEW M \in Layers, NEW x \in PrefixesOf(M), LayerKey(M, x) \in DOMAIN u.puts
        PROVE  \E k \in LinkKeys(M) \cap DOMAIN u.puts : u.puts[k] = x
    <3>1. CASE LayerKey(M, x) = layer
      <4>1. M = L /\ x = p
        BY <1>1, <3>1, Keys
      <4>2. link \in LinkKeys(L)
        BY DEF Vacant, LinkKeys, link
      <4> QED BY <1>5, <4>1, <4>2
    <3>2. CASE LayerKey(M, x) # layer
      <4>1. LayerKey(M, x) \in DOMAIN t.puts
        BY <1>1, <1>5, <2>3, <3>2, Keys
      <4>2. PICK k \in LinkKeys(M) \cap DOMAIN t.puts : t.puts[k] = x
        BY <4>1 DEF Building, Grafts
      <4> QED BY <1>12, <4>2 DEF Grows
    <3> QED BY <3>1, <3>2
  <2> QED BY <2>2, <2>3 DEF Grafts
<1>15. Building(u, db, busy)
  BY <1>4, <1>5, <1>6, <1>7, <1>8, <1>9, <1>10, <1>13, <1>14 DEF Building
<1> QED BY <1>3, <1>4, <1>5, <1>12, <1>15 DEF u, v, link, layer

-----------------------------------------------------------------------------
(* Creating and opening a directory                                         *)

Located(t, db) ==
  /\ t.at.layer \in Layers /\ t.at.prefix \in PrefixesOf(t.at.layer)
  /\ LayerKey(t.at.layer, t.at.prefix) \in DOMAIN t.puts \cup (t.reads \cap DOMAIN db)

\* What opening a directory, or creating it, makes of a transaction.
Opened(t, db, busy) == Building(t, db, busy) /\ (t.ok => Located(t, db))

Asked(opt, busy) ==
  /\ opt = [tag |-> opt.tag, manual |-> opt.manual, open |-> opt.open, busy |-> opt.busy,
            draw |-> opt.draw]
  /\ opt.busy = busy /\ opt.manual \in ManualPrefix \cup {None} /\ opt.draw \in Draws

LEMMA CheckVersionBuilds ==
  ASSUME NEW t, NEW db, NEW busy, Building(t, db, busy), NEW L, NEW write,
         write => Within(t, db, L)
  PROVE  LET u == CheckVersion(t, L, write)
         IN /\ Building(u, db, busy) /\ u.ok = t.ok /\ Grows(t, u) /\ SameLinks(t, u)
            /\ DOMAIN u.puts \subseteq DOMAIN t.puts \cup {VersionKey(L)}
<1> DEFINE key == VersionKey(L)
           u == Reads(t, {key})
           x == Put(u, key, 1)
           w == CheckVersion(t, L, write)
<1>1. /\ Building(u, db, busy) /\ Made(u) /\ Grows(t, u) /\ SameLinks(t, u)
      /\ u.puts = t.puts /\ u.ok = t.ok /\ u.clears = t.clears
  <2>1. Made(t)
    BY DEF Building
  <2>2. /\ Made(u) /\ u.reads = t.reads \cup {key} /\ u.view = t.view /\ u.puts = t.puts
        /\ u.clears = t.clears /\ u.adds = t.adds /\ u.ok = t.ok
    BY <2>1, ReadsIs
  <2> HIDE DEF u
  <2> QED BY <2>2, BuildingKept
<1>2. w = IF write /\ key \notin DOMAIN u.view THEN x ELSE u
  BY DEF CheckVersion
<1>3. key[1] = "version" /\ key[2] = L
  BY Keys
<1> HIDE DEF u, w, key
<1>4. ASSUME write, key \notin DOMAIN u.view
      PROVE  /\ Building(x, db, busy) /\ Grows(t, x) /\ SameLinks(t, x) /\ x.ok = t.ok
             /\ DOMAIN x.puts = DOMAIN t.puts \cup {key}
  <2>1. Within(u, db, key[2])
    BY <1>1, <1>3, <1>4, GrowsTogether
  <2>2. Building(x, db, busy) /\ Grows(u, x) /\ SameLinks(u, x)
    BY <1>1, <1>3, <1>4, <2>1, BuildingPut
  <2>3. x.ok = u.ok /\ DOMAIN x.puts = DOMAIN u.puts \cup {key}
    BY <1>1, PutIs
  <2> HIDE DEF x
  <2> QED BY <1>1, <2>2, <2>3, GrowsOn
<1> HIDE DEF x
<1> QED BY <1>1, <1>2, <1>4 DEF w, key

LEMMA FailBuilds ==
  ASSUME NEW t, NEW db, NEW busy, Building(t, db, busy)
  PROVE  Opened(Fail(t), db, busy) /\ ~Fail(t).ok
<1> DEFINE u == Fail(t)
<1>1. Made(t)
  BY DEF Building
<1>2. /\ Made(u) /\ ~u.ok /\ u.reads = t.reads /\ u.view = t.view /\ u.puts = t.puts
      /\ u.clears = t.clears /\ u.adds = t.adds
  BY <1>1, FailIs
<1> HIDE DEF u
<1>3. Building(u, db, busy)
  BY <1>2, BuildingKept
<1> QED BY <1>2, <1>3 DEF Opened, u

LEMMA ChoosePrefixBuilds ==
  ASSUME NEW t, NEW db, NEW busy, Building(t, db, busy), NEW L \in Layers,
         NEW opt, Asked(opt, busy), opt.manual = None \/ L = <<>>, Within(t, db, L)
  PROVE  LET u == ChoosePrefix(t, L, opt)
         IN /\ Building(u, db, busy) /\ Grows(t, u) /\ SameLinks(t, u)
            /\ u.ok => u.at.layer = L /\ u.at.prefix \in PrefixesOf(L)
<1> DEFINE free == Numbers(t, L, opt.busy)
           n == opt.draw[free]
           p == Append(L, n)
           put == Put(t, TakenKey(L, n), TRUE)
           taken == Reads(put, ContentRange[p])
           marked == [taken EXCEPT !.auto = @ \cup {p}]
           m == opt.manual
           looked == Reads(t, LookupReads(t.view, L, m))
           u == ChoosePrefix(t, L, opt)
<1>1. Made(t)
  BY DEF Building
<1>2. CASE m # None
  <2>1. u = At(looked, L, m)
    BY <1>2 DEF ChoosePrefix
  <2>2. /\ Made(looked) /\ looked.reads = t.reads \cup LookupReads(t.view, L, m)
        /\ looked.view = t.view /\ looked.puts = t.puts
        /\ looked.clears = t.clears /\ looked.adds = t.adds
    BY <1>1, ReadsIs
  <2>3. m \in ManualPrefix /\ L = <<>>
    BY <1>2 DEF Asked
  <2> HIDE DEF looked, m
  <2>5. LET w == At(looked, L, m)
        IN /\ Made(w) /\ w.reads = looked.reads /\ w.view = looked.view /\ w.puts = looked.puts
           /\ w.clears = looked.clears /\ w.adds = looked.adds
           /\ w.at.layer = L /\ w.at.prefix = m
    BY <2>2, AtIs
  <2> HIDE DEF u
  <2>6. Building(u, db, busy) /\ Grows(t, u) /\ SameLinks(t, u)
    BY <2>1, <2>2, <2>5, BuildingKept
  <2>7. m \in PrefixesOf(L)
    BY <2>3, PrefixFacts DEF RootPrefix
  <2> QED BY <2>1, <2>5, <2>6, <2>7 DEF u
<1>3. CASE m = None /\ (free = {} \/ ContentRange[p] \cap DOMAIN t.view # {})
  <2>1. u = Fail(t)
    BY <1>3 DEF ChoosePrefix
  <2>2. /\ Made(u) /\ ~u.ok /\ u.reads = t.reads /\ u.view = t.view /\ u.puts = t.puts
        /\ u.clears = t.clears /\ u.adds = t.adds
    <3> HIDE DEF u
    <3> QED BY <1>1, <2>1, FailIs
  <2> HIDE DEF u
  <2> QED BY <2>2, BuildingKept DEF u
<1>4. CASE m = None /\ ~(free = {} \/ ContentRange[p] \cap DOMAIN t.view # {})
  <2>1. u = At(marked, L, p)
    BY <1>4 DEF ChoosePrefix
  <2>2. free \subseteq 1 .. MaxNumber
        /\ \A x \in free : TakenKey(L, x) \notin busy /\ TakenKey(L, x) \notin DOMAIN t.view
    BY DEF Numbers, Asked
  <2> HIDE DEF free
  <2>3. n \in free
    BY <1>4, <2>2, DirectoryAssumption DEF Asked
  <2> HIDE DEF n
  <2>4. /\ TakenKey(L, n) \notin busy /\ TakenKey(L, n) \notin DOMAIN t.view
        /\ TakenKey(L, n)[1] = "taken" /\ TakenKey(L, n)[2] = L /\ n \in 1 .. MaxNumber
    BY <2>2, <2>3, Keys
  <2>5. /\ Building(put, db, busy) /\ Made(put) /\ TakenKey(L, n) \in DOMAIN put.puts
        /\ Grows(t, put) /\ SameLinks(t, put)
    <3> DEFINE key == TakenKey(L, n)
               yes == TRUE
    <3>0. key[1] = "taken" /\ key \notin busy /\ key \notin DOMAIN t.view /\ Within(t, db, key[2])
      BY <2>4
    <3> HIDE DEF key, yes
    <3>1. LET x == Put(t, key, yes)
          IN Building(x, db, busy) /\ Grows(t, x) /\ SameLinks(t, x)
      BY <3>0, BuildingPut
    <3>2. key \in DOMAIN Put(t, key, yes).puts
      BY <1>1, PutIs
    <3>3. /\ Building(put, db, busy) /\ key \in DOMAIN put.puts
          /\ Grows(t, put) /\ SameLinks(t, put)
      BY <3>1, <3>2 DEF key, yes
    <3> QED BY <3>3 DEF Building, key
  <2> HIDE DEF put
  <2>6. /\ Made(taken) /\ taken.reads = put.reads \cup ContentRange[p]
        /\ taken.view = put.view /\ taken.puts = put.puts
        /\ taken.clears = put.clears /\ taken.adds = put.adds
    BY <2>5, ReadsIs
  <2> HIDE DEF taken
  <2>7. /\ Made(marked) /\ marked.reads = taken.reads
        /\ marked.view = taken.view /\ marked.puts = taken.puts
        /\ marked.clears = taken.clears /\ marked.adds = taken.adds
    <3> DEFINE auto == taken.auto \cup {p}
    <3>1. marked = [taken EXCEPT !.auto = auto]
      OBVIOUS
    <3> HIDE DEF auto, marked
    <3>2. /\ marked.reads = taken.reads /\ marked.auto = auto
          /\ marked.view = taken.view /\ marked.puts = taken.puts
          /\ marked.clears = taken.clears /\ marked.adds = taken.adds
          /\ marked.at = taken.at /\ marked.ok = taken.ok
      BY <2>6, <3>1 DEF Made
    <3> QED BY <2>6, <3>1, <3>2 DEF Made
  <2> HIDE DEF marked, p
  <2>8. LET w == At(marked, L, p)
        IN /\ Made(w) /\ w.reads = marked.reads /\ w.view = marked.view /\ w.puts = marked.puts
           /\ w.clears = marked.clears /\ w.adds = marked.adds
           /\ w.at.layer = L /\ w.at.prefix = p
    BY <2>7, AtIs
  <2> HIDE DEF u
  <2>9. Building(u, db, busy) /\ Grows(put, u) /\ SameLinks(put, u)
    BY <2>1, <2>5, <2>6, <2>7, <2>8, BuildingKept
  <2>11. Grows(t, u) /\ SameLinks(t, u)
    BY <2>5, <2>9, GrowsOn
  <2>10. p \in PrefixesOf(L)
    BY <2>4, PrefixFacts DEF p
  <2> QED BY <2>1, <2>8, <2>9, <2>10, <2>11 DEF u
<1> QED BY <1>2, <1>3, <1>4

\* A directory was created below the root of its layer.
Fresh(t, db, L) ==
  LET p == t.at.prefix
  IN /\ t.at.layer = L /\ p \in PrefixesOf(L) /\ LayerKey(L, p) \in DOMAIN t.puts
     /\ Hung(t, db, L, p) /\ ChildRange(L, p) \cap DOMAIN t.view = {}

LEMMA CreateNodeBuilds ==
  ASSUME NEW t, NEW db, NEW busy, Building(t, db, busy), NEW L \in Layers,
         NEW opt, Asked(opt, busy), opt.manual = None \/ L = <<>>, NEW path,
         Within(t, db, L),
         t.ok => Vacant(t, db, L, t.at.prefix, ChildKey(L, t.at.prefix, Last(path)))
  PROVE  LET u == CreateNode(t, L, path, opt)
         IN /\ Opened(u, db, busy)
            /\ u.ok => Grows(t, u) /\ (t.at.prefix = RootNode(L) => Fresh(u, db, L))
<1> DEFINE chosen == ChoosePrefix(t, L, opt)
           p == chosen.at.prefix
           q == t.at.prefix
           name == Last(path)
           link == ChildKey(L, q, name)
           tag == opt.tag
           free == IsPrefixFree(chosen.view, L, p, opt.manual # None)
           linked == Put(Put(chosen, link, p), LayerKey(L, p), tag)
           u == CreateNode(t, L, path, opt)
           atroot == q = RootNode(L)
<1> SUFFICES Opened(u, db, busy) /\ (u.ok => Grows(t, u) /\ (atroot => Fresh(u, db, L)))
  OBVIOUS
<1>1. CASE ~t.ok
  <2>1. u = t
    BY <1>1 DEF CreateNode
  <2> HIDE DEF u, atroot
  <2> QED BY <1>1, <2>1 DEF Opened
<1>2. Building(chosen, db, busy) /\ Grows(t, chosen) /\ SameLinks(t, chosen)
  BY ChoosePrefixBuilds
<1>3. chosen.ok => chosen.at.layer = L /\ p \in PrefixesOf(L)
  BY ChoosePrefixBuilds
<1>4. CASE t.ok /\ ~chosen.ok
  <2>1. u = chosen
    BY <1>4 DEF CreateNode
  <2> HIDE DEF u, chosen, atroot
  <2> QED BY <1>2, <1>4, <2>1 DEF Opened
<1>5. CASE t.ok /\ chosen.ok /\ ~free
  <2>1. u = Fail(chosen)
    BY <1>5 DEF CreateNode
  <2> HIDE DEF u, chosen, atroot
  <2> QED BY <1>2, <2>1, FailBuilds
<1>6. CASE t.ok /\ chosen.ok /\ free
  <2>1. NodeRange(L, p) \cap DOMAIN chosen.view = {}
    <3>1. p \in Seq(Nat) /\ p \in PrefixesOf(L)
      BY <1>3, <1>6, PrefixFacts
    <3>2. IsPrefix(p, p)
      BY <3>1, PrefixOrder
    <3> HIDE DEF chosen, p
    <3>3. p \notin NodesIn(chosen.view, L)
      BY <1>6, <3>2 DEF IsPrefixFree
    <3> QED BY <3>1, <3>3 DEF NodesIn
  <2>2. u = linked
    BY <1>6 DEF CreateNode
  <2>3. t.clears = {} /\ chosen.clears = {}
    BY <1>2 DEF Building
  <2>4. Vacant(t, db, L, q, link)
    BY <1>6
  <2> HIDE DEF chosen, p, q, name, tag, u, atroot, free
  <2>5. Vacant(chosen, db, L, q, link) /\ Within(chosen, db, L)
    <3>1. link[1] = "child"
      BY Keys
    <3>2. link \in DOMAIN chosen.view <=> link \in DOMAIN t.view
      BY <1>2, <3>1 DEF SameLinks
    <3>3. Joins(chosen, db, L, q, link) /\ Within(chosen, db, L)
      BY <1>2, <2>3, <2>4, GrowsTogether DEF Vacant
    <3> QED BY <2>4, <3>2, <3>3 DEF Vacant
  <2>6. LayerKey(L, p) \notin DOMAIN chosen.view
    BY <2>1 DEF NodeRange
  <2>7. /\ Building(linked, db, busy) /\ LayerKey(L, p) \in DOMAIN linked.puts
        /\ linked.at = chosen.at /\ Grows(chosen, linked)
        /\ link \in DOMAIN linked.puts /\ linked.puts[link] = p
        /\ DOMAIN linked.view = DOMAIN chosen.view \cup {link, LayerKey(L, p)}
    BY <1>2, <1>3, <1>6, <2>5, <2>6, BuildingLink
  <2> HIDE DEF linked
  <2>8. linked.at.layer = L /\ linked.at.prefix = p /\ p \in PrefixesOf(L)
    BY <1>3, <1>6, <2>7 DEF p
  <2>9. Located(linked, db)
    BY <2>7, <2>8 DEF Located
  <2>10. Grows(t, linked)
    BY <1>2, <2>7, GrowsOn
  <2>11. ASSUME atroot PROVE Fresh(linked, db, L)
    <3>1. link \in ChildRange(L, RootNode(L))
      BY <2>5, <2>11 DEF Vacant, atroot
    <3>2. Hung(linked, db, L, p)
      BY <2>7, <3>1 DEF Hung
    <3>3. ASSUME NEW k \in ChildRange(L, p) PROVE k \notin DOMAIN linked.view
      <4>1. k[3] = p /\ k[1] = "child" /\ k \notin DOMAIN chosen.view
        BY <2>1, Keys DEF ChildRange, NodeRange
      <4>2. link[3] = RootNode(L) /\ p # RootNode(L)
        BY <2>8, <2>11, Keys, PrefixFacts DEF atroot
      <4>3. k # LayerKey(L, p)
        BY <4>1, Keys
      <4> QED BY <2>7, <4>1, <4>2, <4>3
    <3> QED BY <2>7, <2>8, <3>2, <3>3 DEF Fresh
  <2> QED BY <2>2, <2>7, <2>9, <2>10, <2>11 DEF Opened
<1> QED BY <1>1, <1>4, <1>5, <1>6

\* Reading the way to a directory.
LEMMA WalkBuilds ==
  ASSUME NEW t, NEW db, NEW busy, Building(t, db, busy), NEW keys
  PROVE  LET u == Reads(t, keys)
         IN /\ Building(u, db, busy) /\ u.view = t.view /\ u.puts = t.puts
            /\ u.reads = t.reads \cup keys /\ u.ok = t.ok
            /\ Grows(t, u) /\ SameLinks(t, u)
<1> DEFINE u == Reads(t, keys)
<1>1. Made(t)
  BY DEF Building
<1>2. /\ Made(u) /\ u.reads = t.reads \cup keys /\ u.view = t.view /\ u.puts = t.puts
      /\ u.clears = t.clears /\ u.adds = t.adds /\ u.ok = t.ok
  BY <1>1, ReadsIs
<1> HIDE DEF u
<1>3. Building(u, db, busy) /\ Grows(t, u) /\ SameLinks(t, u)
  BY <1>1, <1>2, BuildingKept
<1> QED BY <1>1, <1>2, <1>3 DEF u

LEMMA OpenWalkBuilds ==
  ASSUME NEW t, NEW db, NEW busy, Building(t, db, busy), NEW L, NEW path
  PROVE  LET v == CheckVersion(t, L, FALSE)
             u == Reads(v, FindNode(v.view, L, path).reads)
         IN /\ Building(v, db, busy) /\ Building(u, db, busy) /\ u.view = v.view
            /\ u.reads = v.reads \cup FindNode(v.view, L, path).reads
            /\ Grows(t, u) /\ SameLinks(t, u) /\ SameLinks(v, u)
<1> DEFINE no == FALSE
           v == CheckVersion(t, L, no)
           keys == FindNode(v.view, L, path).reads
<1>1. v = CheckVersion(t, L, FALSE) /\ ~no
  OBVIOUS
<1> HIDE DEF no
<1>2. Building(v, db, busy) /\ Grows(t, v) /\ SameLinks(t, v)
  BY <1>1, CheckVersionBuilds
<1> HIDE DEF v
<1>3. LET u == Reads(v, keys)
      IN /\ Building(u, db, busy) /\ u.view = v.view /\ u.reads = v.reads \cup keys
         /\ Grows(t, u) /\ SameLinks(t, u) /\ SameLinks(v, u)
  <2> DEFINE u == Reads(v, keys)
  <2> HIDE DEF keys
  <2>1. /\ Building(u, db, busy) /\ u.view = v.view /\ u.reads = v.reads \cup keys
        /\ Grows(v, u) /\ SameLinks(v, u)
    BY <1>2, WalkBuilds
  <2> HIDE DEF u
  <2>2. Grows(t, u) /\ SameLinks(t, u)
    BY <1>2, <2>1, GrowsOn
  <2> QED BY <2>1, <2>2 DEF u
<1> QED BY <1>1, <1>2, <1>3

\* What createOrOpen ends with, unless it fails.
Outcome(w, t, created, nested, L, path, opt) ==
  LET found == FindNode(CheckVersion(t, L, FALSE).view, L, path)
  IN \/ found.node = None /\ (opt.manual = None \/ L = <<>>) /\ w = created
     \/ found.node # None /\ InPartition(found, path) /\ w = nested
     \/ /\ found.node # None /\ ~InPartition(found, path)
        /\ Grows(t, w) /\ SameLinks(t, w) /\ found.reads \subseteq w.reads
        /\ w.at.layer = L /\ w.at.prefix = found.node

\* created and nested are wanted only in the cases that return them.
LEMMA CreateOrOpenFromBuilds ==
  ASSUME NEW t, NEW db, NEW busy, Building(t, db, busy), Linked(db), NEW L \in Layers,
         NEW opt, NEW path \in Seq(Name), Len(path) \in 1 .. 2, NEW created, NEW nested,
         LET v == CheckVersion(t, L, FALSE)
             found == FindNode(v.view, L, path)
         IN /\ found.node = None /\ (opt.manual = None \/ L = <<>>)
                 => Opened(created, db, busy)
            /\ found.node # None /\ InPartition(found, path) => Opened(nested, db, busy)
  PROVE  LET w == CreateOrOpenFrom(t, created, nested, L, path, opt)
         IN Opened(w, db, busy) /\ (w.ok => Outcome(w, t, created, nested, L, path, opt))
<1> DEFINE v == CheckVersion(t, L, FALSE)
           found == FindNode(v.view, L, path)
           u == Reads(v, found.reads)
           w == CreateOrOpenFrom(t, created, nested, L, path, opt)
           misplaced == opt.manual # None /\ L # <<>>
<1> SUFFICES Opened(w, db, busy) /\ (w.ok => Outcome(w, t, created, nested, L, path, opt))
  OBVIOUS
<1>1. /\ Building(v, db, busy) /\ Building(u, db, busy) /\ u.view = v.view
      /\ u.reads = v.reads \cup found.reads /\ Grows(t, u) /\ SameLinks(t, u)
  BY OpenWalkBuilds
<1>2. Linked(v.view)
  BY <1>1, BuildingView
<1>3. CASE misplaced
  <2>1. w = Fail(v)
    BY <1>3 DEF CreateOrOpenFrom
  <2> HIDE DEF v, w
  <2> QED BY <1>1, <2>1, FailBuilds
<1>4. CASE ~misplaced /\ found.node = None
  <2>1. w = created
    BY <1>4 DEF CreateOrOpenFrom
  <2> QED BY <1>4, <2>1 DEF Outcome
<1>5. CASE ~misplaced /\ found.node # None /\ InPartition(found, path)
  <2>1. w = nested
    BY <1>5 DEF CreateOrOpenFrom
  <2> QED BY <1>5, <2>1 DEF Outcome
<1>6. CASE ~misplaced /\ found.node # None /\ ~InPartition(found, path)
  <2> DEFINE opens == opt.open /\ opt.tag \in {"", found.tag}
             node == found.node
  <2>1. w = IF opens THEN At(u, L, node) ELSE Fail(u)
    BY <1>6 DEF CreateOrOpenFrom
  <2>2. node \in PrefixesOf(L) /\ LayerKey(L, node) \in found.reads \cap DOMAIN v.view
    <3> HIDE DEF v
    <3> QED BY <1>2, <1>6, FoundFacts
  <2>3. CASE opens
    <3> DEFINE x == At(u, L, node)
    <3> HIDE DEF opens, node, found, u, v, w
    <3>1. /\ Made(x) /\ x.reads = u.reads /\ x.view = u.view /\ x.puts = u.puts
          /\ x.clears = u.clears /\ x.adds = u.adds
          /\ x.at.layer = L /\ x.at.prefix = node
      BY <1>1, AtIs DEF Building
    <3> HIDE DEF x
    <3>2. Building(x, db, busy) /\ Grows(u, x) /\ SameLinks(u, x)
      BY <1>1, <3>1, BuildingKept
    <3>3. LayerKey(L, node) \in x.reads /\ found.reads \subseteq x.reads
      BY <1>1, <2>2, <3>1
    <3>4. LayerKey(L, node) \in DOMAIN x.view
      BY <1>1, <2>2, <3>1
    <3>5. LayerKey(L, node) \in DOMAIN x.puts \cup DOMAIN db
      BY <3>2, <3>4 DEF Building, Overlaid
    <3>6. Located(x, db)
      BY <2>2, <3>1, <3>3, <3>5 DEF Located
    <3>7. w = x
      BY <2>1, <2>3 DEF x
    <3>8. Grows(t, x) /\ SameLinks(t, x)
      BY <1>1, <3>2, GrowsOn
    <3>9. Outcome(x, t, created, nested, L, path, opt)
      BY <1>6, <3>1, <3>3, <3>8 DEF Outcome, found, node, v
    <3> QED BY <3>2, <3>6, <3>7, <3>9 DEF Opened
  <2>4. CASE ~opens
    <3> HIDE DEF opens, node, found, u, v, w
    <3> QED BY <1>1, <2>1, <2>4, FailBuilds
  <2> QED BY <2>3, <2>4
<1> QED BY <1>3, <1>4, <1>5, <1>6

\* A directory to create in: a new one, or the child of the root with the name.
Entrance(u, t, db, L, name) ==
  LET k == ChildKey(L, RootNode(L), name)
      p == u.at.prefix
  IN \/ Fresh(u, db, L)
     \/ /\ SameLinks(t, u) /\ Hung(u, db, L, p) /\ p \in PrefixesOf(L)
        /\ k \in DOMAIN t.view /\ t.view[k] = p

LEMMA CreateOrOpenNameBuilds ==
  ASSUME NEW t, NEW db, NEW busy, Building(t, db, busy), Linked(db), NEW L \in Layers,
         NEW opt, Asked(opt, busy), NEW path \in Seq(Name), Len(path) = 1, Within(t, db, L)
  PROVE  LET w == CreateOrOpenName(t, L, path, opt)
         IN /\ Opened(w, db, busy)
            /\ w.ok => Grows(t, w) /\ Entrance(w, t, db, L, path[1])
<1> DEFINE v == CheckVersion(t, L, FALSE)
           found == FindNode(v.view, L, path)
           u == Reads(v, found.reads)
           x == CheckVersion(u, L, TRUE)
           root == RootNode(L)
           parent == At(x, L, root)
           created == CreateNode(parent, L, path, opt)
           nested == Fail(u)
           yes == TRUE
           w == CreateOrOpenFrom(t, created, nested, L, path, opt)
           link == ChildKey(L, root, path[1])
<1>1. CreateOrOpenName(t, L, path, opt) = w
  BY DEF CreateOrOpenName
<1>2. /\ Building(u, db, busy) /\ Building(v, db, busy) /\ u.view = v.view
      /\ u.reads = v.reads \cup found.reads
      /\ Grows(t, u) /\ SameLinks(t, u) /\ SameLinks(v, u)
  BY OpenWalkBuilds
<1>3. Linked(v.view)
  BY <1>2, BuildingView
<1>4. /\ Len(path) \in 1 .. 2 /\ Last(path) = path[1] /\ path[1] \in Name
      /\ Front(path) \in Seq(Name) /\ Len(Front(path)) = 0
      /\ link[1] = "child" /\ link \in ChildRange(L, root)
  <2>1. Len(path) \in 1 .. 2
    OBVIOUS
  <2>2. /\ Last(path) = path[1] /\ path[1] \in Name
        /\ Front(path) \in Seq(Name) /\ Len(Front(path)) = 0
    BY <2>1, FrontIs
  <2> QED BY <2>1, <2>2, Keys DEF ChildRange
<1>5. FindNode(v.view, L, Front(path)).node = root /\ root # None
  <2>1. Len(Front(path)) \in 0 .. 2
    BY <1>4
  <2>2. FindNode(v.view, L, Front(path)) = WalkRoot(L)
    BY <1>4, <2>1, FindNodeIs
  <2>3. WalkRoot(L).node = root
    BY DEF WalkRoot
  <2> QED BY <2>2, <2>3, PrefixFacts
<1>6. LastLink(v.view, L, path) = link
  BY <1>4, <1>5 DEF LastLink
<1>7. /\ Building(parent, db, busy) /\ parent.at.layer = L /\ parent.at.prefix = root
      /\ Grows(u, parent) /\ SameLinks(u, parent) /\ Within(parent, db, L)
  <2> HIDE DEF u
  <2>0. x = CheckVersion(u, L, yes)
    OBVIOUS
  <2>4. t.clears = {} /\ u.clears = {}
    BY <1>2 DEF Building
  <2>5. Within(u, db, L)
    BY <1>2, <2>4, GrowsTogether
  <2> HIDE DEF yes, x
  <2>1. Building(x, db, busy) /\ Made(x) /\ Grows(u, x) /\ SameLinks(u, x)
    BY <1>2, <2>0, <2>5, CheckVersionBuilds DEF Building
  <2> HIDE DEF root
  <2>3. /\ Made(parent) /\ parent.reads = x.reads /\ parent.view = x.view
        /\ parent.puts = x.puts /\ parent.clears = x.clears /\ parent.adds = x.adds
        /\ parent.at.layer = L /\ parent.at.prefix = root
    BY <2>1, AtIs
  <2> HIDE DEF parent
  <2>6. Building(parent, db, busy) /\ Grows(x, parent) /\ SameLinks(x, parent)
    BY <2>1, <2>3, BuildingKept
  <2>7. Grows(u, parent) /\ SameLinks(u, parent)
    BY <2>1, <2>6, GrowsOn
  <2>8. Within(parent, db, L)
    BY <2>4, <2>5, <2>6, <2>7, GrowsTogether DEF Building
  <2> QED BY <2>3, <2>6, <2>7, <2>8
<1> HIDE DEF x, parent
<1>8. Grows(t, parent)
  BY <1>2, <1>7, GrowsOn
<1>9. ASSUME found.node = None PROVE Vacant(parent, db, L, root, link)
  <2>1. link \in found.reads \ DOMAIN v.view
    <3> HIDE DEF v, link, root
    <3> QED BY <1>3, <1>4, <1>5, <1>6, <1>9, MissingLink
  <2> HIDE DEF v, u, found, link, root
  <2>2. link \notin DOMAIN parent.view
    BY <1>2, <1>4, <1>7, <2>1 DEF SameLinks
  <2>3. link \in parent.reads
    BY <1>2, <1>7, <2>1 DEF Grows
  <2>4. link \notin DOMAIN db
    BY <1>7, <2>2 DEF Building, Overlaid
  <2>5. Hung(parent, db, L, root)
    BY DEF Hung, root
  <2> QED BY <1>4, <2>2, <2>3, <2>4, <2>5 DEF Vacant, Joins, root
<1>10. ASSUME found.node = None, opt.manual = None \/ L = <<>>
       PROVE  /\ Opened(created, db, busy)
              /\ created.ok => Grows(parent, created) /\ Fresh(created, db, L)
  <2>1. Vacant(parent, db, L, root, ChildKey(L, root, Last(path)))
    BY <1>4, <1>9, <1>10
  <2> HIDE DEF root, found, v, u, link
  <2> QED BY <1>7, <1>10, <2>1, CreateNodeBuilds DEF root
<1>11. Opened(nested, db, busy) /\ ~nested.ok
  <2> HIDE DEF u
  <2> QED BY <1>2, FailBuilds
<1> HIDE DEF created, nested
<1>12. Opened(w, db, busy) /\ (w.ok => Outcome(w, t, created, nested, L, path, opt))
  BY <1>4, <1>10, <1>11, CreateOrOpenFromBuilds
<1> HIDE DEF w
<1>13. ASSUME w.ok PROVE Grows(t, w) /\ Entrance(w, t, db, L, path[1])
  <2>1. CASE found.node = None /\ (opt.manual = None \/ L = <<>>) /\ w = created
    <3>1. Grows(t, w) /\ Fresh(w, db, L)
      <4> HIDE DEF found
      <4> QED BY <1>8, <1>10, <1>13, <2>1, GrowsOn
    <3> QED BY <3>1 DEF Entrance
  <2>2. CASE /\ found.node # None /\ ~InPartition(found, path)
             /\ Grows(t, w) /\ SameLinks(t, w) /\ found.reads \subseteq w.reads
             /\ w.at.layer = L /\ w.at.prefix = found.node
    <3>1. /\ link \in LinkKeys(L) \cap DOMAIN v.view \cap found.reads
          /\ v.view[link] = found.node /\ found.node \in PrefixesOf(L)
      <4> HIDE DEF v, link
      <4> QED BY <1>3, <1>4, <1>6, <2>2, FoundFacts
    <3> HIDE DEF v, u, link, root, found
    <3>2. link \in DOMAIN t.view /\ t.view[link] = found.node
      BY <1>2, <1>4, <3>1 DEF SameLinks
    <3>3. Hung(w, db, L, found.node)
      <4>1. Building(w, db, busy)
        BY <1>12 DEF Opened
      <4>2. link \in DOMAIN w.view /\ w.view[link] = found.node
        BY <1>4, <2>2, <3>2 DEF SameLinks
      <4>3. link \in DOMAIN w.puts => w.puts[link] = found.node
        BY <4>1, <4>2 DEF Building, Overlaid
      <4>4. link \notin DOMAIN w.puts => link \in DOMAIN db /\ db[link] = found.node
        BY <4>1, <4>2 DEF Building, Overlaid
      <4>5. link \in w.reads /\ w.clears = {}
        BY <2>2, <3>1, <4>1 DEF Building
      <4> QED BY <1>4, <4>3, <4>4, <4>5 DEF Hung, root
    <3> QED BY <2>2, <3>1, <3>2, <3>3 DEF Entrance, link, root
  <2>3. CASE w = nested
    BY <1>11, <1>13, <2>3
  <2> QED BY <1>12, <1>13, <2>1, <2>2, <2>3 DEF Outcome, found, v
<1> QED BY <1>1, <1>12, <1>13 DEF w

LEMMA CreateOrOpenBuilds ==
  ASSUME NEW t, NEW db, NEW busy, Building(t, db, busy), Linked(db), DOMAIN t.puts = {},
         NEW opt, Asked(opt, busy), NEW path \in Seq(Name), Len(path) \in 1 .. 2
  PROVE  Opened(CreateOrOpen(t, <<>>, path, opt), db, busy)
<1> DEFINE L == <<>>
           v == CheckVersion(t, L, FALSE)
           found == FindNode(v.view, L, path)
           u == Reads(v, found.reads)
           x == CheckVersion(u, L, TRUE)
           root == RootNode(L)
           above == [opt EXCEPT !.manual = None, !.tag = "", !.open = TRUE]
           parent == IF Len(path) = 1 THEN At(x, L, root)
                     ELSE CreateOrOpenName(x, L, Front(path), above)
           created == CreateNode(parent, L, path, opt)
           nested == CreateOrOpenName(u, found.node, Subpath(found, path), opt)
           link == LastLink(v.view, L, path)
           yes == TRUE
<1>0. L \in Layers /\ \A s : Within(s, db, L)
  BY PrefixFacts DEF Within
<1>1. CreateOrOpen(t, L, path, opt) = CreateOrOpenFrom(t, created, nested, L, path, opt)
  BY DEF CreateOrOpen, ParentNode
<1>2. /\ Building(v, db, busy) /\ Building(u, db, busy) /\ u.view = v.view
      /\ u.reads = v.reads \cup found.reads /\ SameLinks(v, u)
  <2> HIDE DEF L
  <2> QED BY OpenWalkBuilds
<1>3. DOMAIN u.puts = {}
  <2>1. v = Reads(t, {VersionKey(L)}) /\ Made(t)
    BY DEF CheckVersion, Building
  <2> HIDE DEF L, v
  <2>2. Made(v) /\ v.puts = t.puts
    BY <2>1, ReadsIs
  <2> HIDE DEF found
  <2> QED BY <2>2, ReadsIs
<1> HIDE DEF L
<1>4. Linked(v.view)
  BY <1>2, BuildingView
<1>5. Asked(above, busy)
  <2> DEFINE any == ""
  <2>1. above = [opt EXCEPT !.manual = None, !.tag = any, !.open = yes]
    OBVIOUS
  <2> HIDE DEF any, yes, above
  <2>2. above.manual = None /\ above.busy = opt.busy /\ above.tag = any /\ above.open = yes
        /\ above.draw = opt.draw
    BY <2>1 DEF Asked
  <2>3. above = [tag |-> any, manual |-> None, open |-> yes, busy |-> opt.busy, draw |-> opt.draw]
    BY <2>1 DEF Asked
  <2> QED BY <2>2, <2>3 DEF Asked
<1>6. /\ Front(path) \in Seq(Name) /\ Len(Front(path)) = Len(path) - 1
      /\ Len(path) = 2 => Front(path)[1] = path[1]
      /\ Last(path) \in Name /\ Len(path) \in 1 .. 2
  BY FrontIs
<1>7. Building(x, db, busy) /\ Made(x) /\ Grows(u, x) /\ SameLinks(u, x)
  <2> HIDE DEF u
  <2>1. x = CheckVersion(u, L, yes)
    OBVIOUS
  <2> HIDE DEF yes, x
  <2> QED BY <1>0, <1>2, <2>1, CheckVersionBuilds DEF Building
<1> DEFINE P == FindNode(v.view, L, Front(path)).node
<1>8. ASSUME Len(path) = 1
      PROVE  /\ Building(parent, db, busy) /\ Grows(x, parent) /\ SameLinks(x, parent)
             /\ parent.at.prefix = P /\ P = root /\ root # None
  <2> HIDE DEF root
  <2>1. parent = At(x, L, root)
    BY <1>8
  <2> HIDE DEF x, parent
  <2>2. /\ Made(parent) /\ parent.reads = x.reads /\ parent.view = x.view
        /\ parent.puts = x.puts /\ parent.clears = x.clears /\ parent.adds = x.adds
        /\ parent.at.prefix = root
    BY <1>7, <2>1, AtIs
  <2>3. P = root /\ root # None
    <3>1. Len(Front(path)) = 0 /\ Len(Front(path)) \in 0 .. 2
      BY <1>6, <1>8
    <3>2. FindNode(v.view, L, Front(path)) = WalkRoot(L)
      BY <3>1, FindNodeIs
    <3>3. WalkRoot(L).node = root
      BY DEF WalkRoot, root
    <3> QED BY <1>0, <3>2, <3>3, PrefixFacts DEF root
  <2> QED BY <1>7, <2>2, <2>3, BuildingKept
<1>9. ASSUME Len(path) = 2
      PROVE  /\ Building(parent, db, busy)
             /\ parent.ok => Grows(x, parent) /\ Entrance(parent, x, db, L, path[1])
  <2> HIDE DEF above
  <2>1. parent = CreateOrOpenName(x, L, Front(path), above)
    BY <1>9
  <2>2. Front(path) \in Seq(Name) /\ Len(Front(path)) = 1 /\ Front(path)[1] = path[1]
    BY <1>6, <1>9
  <2> HIDE DEF x, parent
  <2> QED BY <1>0, <1>5, <1>7, <2>1, <2>2, CreateOrOpenNameBuilds DEF Opened
<1>10. ASSUME found.node = None, parent.ok
       PROVE  Vacant(parent, db, L, parent.at.prefix, ChildKey(L, parent.at.prefix, Last(path)))
  <2> HIDE DEF x, parent, u
  <2>1. ASSUME P # None, parent.at.prefix = P, SameLinks(x, parent), Grows(x, parent),
               Hung(parent, db, L, P), Building(parent, db, busy)
        PROVE  Vacant(parent, db, L, P, ChildKey(L, P, Last(path)))
    <3>1. /\ P \in PrefixesOf(L) \cup {RootNode(L)}
          /\ link \in ChildRange(L, P) /\ link \in found.reads \ DOMAIN v.view
      <4> HIDE DEF v
      <4> QED BY <1>0, <1>4, <1>10, <2>1, MissingLink
    <3>2. link = ChildKey(L, P, Last(path)) /\ link[1] = "child"
      <4> HIDE DEF v
      <4> QED BY Keys DEF LastLink
    <3> HIDE DEF P, v, link, found
    <3>3. link \notin DOMAIN parent.view
      BY <1>2, <1>7, <2>1, <3>1, <3>2 DEF SameLinks
    <3>4. link \in parent.reads
      BY <1>2, <1>7, <2>1, <3>1 DEF Grows
    <3>5. link \notin DOMAIN db
      BY <2>1, <3>3 DEF Building, Overlaid
    <3> QED BY <2>1, <3>1, <3>2, <3>3, <3>4, <3>5 DEF Vacant, Joins
  <2>2. CASE Len(path) = 1
    <3>1. Hung(parent, db, L, root)
      BY DEF Hung
    <3> HIDE DEF P, root
    <3> QED BY <1>8, <2>1, <2>2, <3>1
  <2>3. CASE Len(path) = 2
    <3> DEFINE p == parent.at.prefix
               k == ChildKey(L, RootNode(L), path[1])
    <3>1. CASE Fresh(parent, db, L)
      <4>1. ChildKey(L, p, Last(path)) \in ChildRange(L, p)
        BY <1>6 DEF ChildRange
      <4>2. Hung(parent, db, L, p) /\ LayerKey(L, p) \in DOMAIN parent.puts /\ p \in PrefixesOf(L)
            /\ ChildRange(L, p) \cap DOMAIN parent.view = {}
        BY <3>1 DEF Fresh
      <4> HIDE DEF p
      <4> QED BY <4>1, <4>2 DEF Vacant, Joins, p
    <3>2. CASE /\ SameLinks(x, parent) /\ Hung(parent, db, L, p) /\ p \in PrefixesOf(L)
               /\ k \in DOMAIN x.view /\ x.view[k] = p
      <4>1. k[1] = "child"
        BY Keys
      <4> HIDE DEF k
      <4>2. k \in DOMAIN v.view /\ v.view[k] = p
        BY <1>2, <1>7, <3>2, <4>1 DEF SameLinks
      <4>3. P = p
        <5>1. Len(Front(path)) = 1 /\ Len(Front(path)) \in 0 .. 2
          BY <1>6, <2>3
        <5>2. FindNode(v.view, L, Front(path)) = WalkName(v.view, L, WalkRoot(L), path[1])
          <6> HIDE DEF v
          <6> QED BY <1>6, <2>3, <5>1, FindNodeIs
        <5>3. /\ WalkRoot(L).node = RootNode(L) /\ WalkRoot(L).tag # "partition"
              /\ RootNode(L) # None
          BY <1>0, PrefixFacts DEF WalkRoot
        <5> DEFINE w == WalkRoot(L)
        <5> HIDE DEF w, v, p
        <5>4. WalkName(v.view, L, w, path[1]).node = v.view[k]
          BY <4>2, <5>3, WalkNameIs DEF k, w
        <5> QED BY <4>2, <5>2, <5>4 DEF w
      <4>4. p # None
        BY <1>0, <3>2, PrefixFacts
      <4> HIDE DEF P, p
      <4> QED BY <1>9, <1>10, <2>1, <2>3, <3>2, <4>3, <4>4 DEF p
    <3> QED BY <1>9, <1>10, <2>3, <3>1, <3>2 DEF Entrance
  <2> QED BY <1>6, <2>2, <2>3
<1> HIDE DEF x, parent, P, root
<1>11. Building(parent, db, busy)
  BY <1>6, <1>8, <1>9
<1>12. found.node = None /\ (opt.manual = None \/ L = <<>>) => Opened(created, db, busy)
  <2> HIDE DEF found
  <2> QED BY <1>0, <1>10, <1>11, CreateNodeBuilds
<1>13. found.node # None /\ InPartition(found, path) => Opened(nested, db, busy)
  <2>1. SUFFICES ASSUME found.node # None, InPartition(found, path)
                 PROVE  Opened(nested, db, busy)
    OBVIOUS
  <2> HIDE DEF v, u
  <2>2. /\ found.node \in PrefixesOf(L) /\ Subpath(found, path) \in Seq(Name)
        /\ Len(Subpath(found, path)) = 1
        /\ LayerKey(L, found.node) \in found.reads \cap DOMAIN v.view
        /\ v.view[LayerKey(L, found.node)] = found.tag
    BY <1>0, <1>4, <2>1, FoundFacts
  <2>3. found.node \in RootPrefix /\ found.node \in Layers
    BY <2>2, PrefixFacts DEF L
  <2>4. found.tag = "partition"
    BY <2>1 DEF InPartition
  <2> DEFINE node == found.node
             rest == Subpath(found, path)
             key == LayerKey(L, node)
  <2>5. key \in u.reads \cap DOMAIN u.view /\ u.view[key] = "partition"
    <3> HIDE DEF found
    <3> QED BY <1>2, <2>2, <2>4
  <2>6. key \in DOMAIN db /\ db[key] = "partition" /\ u.clears = {}
    <3> HIDE DEF key
    <3> QED BY <1>2, <1>3, <2>5 DEF Building, Overlaid
  <2> HIDE DEF node, rest, found
  <2>7. Within(u, db, node)
    BY <2>3, <2>5, <2>6 DEF Within, key, L, node
  <2>8. Opened(CreateOrOpenName(u, node, rest, opt), db, busy)
    BY <1>2, <2>2, <2>3, <2>7, CreateOrOpenNameBuilds DEF node, rest
  <2> QED BY <2>8 DEF node, rest
<1> HIDE DEF created, nested
<1>14. Opened(CreateOrOpenFrom(t, created, nested, L, path, opt), db, busy)
  BY <1>0, <1>12, <1>13, CreateOrOpenFromBuilds
<1> QED BY <1>1, <1>14 DEF L

-----------------------------------------------------------------------------
(* Choosing a prefix                                                        *)

\* The last row of a node is one it has.
LEMMA LastRow ==
  ASSUME NEW view, NEW L, NEW q \in NodesIn(view, L)
  PROVE  NodeRange(L, q) \cap LastRows(view, L, q) \cap DOMAIN view # {}
<1> DEFINE names == {name \in Name : ChildKey(L, q, name) \in DOMAIN view}
           latest == {x \in Name : \A y \in names : y <= x}
<1>1. LastRows(view, L, q) = {ChildKey(L, q, name) : name \in latest}
        \cup IF names = {} THEN {LayerKey(L, q)} ELSE {}
  BY DEF LastRows
<1>2. CASE names = {}
  <2>1. LayerKey(L, q) \in DOMAIN view
    BY <1>2 DEF NodesIn, NodeRange, ChildRange
  <2> QED BY <1>1, <1>2, <2>1 DEF NodeRange
<1>3. CASE names # {}
  <2>1. PICK last \in Name : \A name \in Name : name <= last
    BY DirectoryAssumption
  <2>2. /\ Name \subseteq Nat /\ last \in Nat /\ names \subseteq Name
        /\ \A name \in names : ChildKey(L, q, name) \in DOMAIN view
    BY <2>1, DirectoryAssumption
  <2> DEFINE gaps == {last - name : name \in names}
  <2> HIDE DEF names
  <2>3. gaps \subseteq Nat /\ gaps # {}
    <3>1. \A name \in names : name \in Nat /\ name <= last
      BY <2>1, <2>2
    <3> QED BY <1>3, <2>2, <3>1
  <2>4. PICK gap \in gaps : \A other \in gaps : ~(<<other, gap>> \in OpToRel(<, Nat))
    <3> HIDE DEF gaps
    <3> QED BY <2>3, NatLessThanWellFounded, WFMin
  <2>5. PICK name \in names : gap = last - name
    OBVIOUS
  <2>6. ASSUME NEW y \in names PROVE y <= name
    <3>1. last - y \in gaps /\ last - y \in Nat /\ last - name \in Nat
      BY <2>3, <2>5
    <3>2. ~(last - y < last - name)
      BY <2>4, <2>5, <3>1 DEF OpToRel
    <3>3. y \in Nat /\ name \in Nat
      BY <2>2
    <3> QED BY <2>2, <3>2, <3>3
  <2>7. name \in latest
    BY <2>2, <2>6
  <2> HIDE DEF latest
  <2> QED BY <1>1, <2>2, <2>7 DEF NodeRange, ChildRange
<1> QED BY <1>2, <1>3

\* A free prefix that overlaps a node lies inside a directory with the same
\* part of that node below it; whichever it is, it was looked up.
LEMMA LookedUp ==
  ASSUME NEW view, NEW p \in RootPrefix, NEW manual, IsPrefixFree(view, <<>>, p, manual),
         NEW q \in RootPrefix \ {p}, Overlap(p, q)
  PROVE  \/ /\ q \notin NodesIn(view, <<>>)
            /\ LayerKey(<<>>, q) \in LookupReads(view, <<>>, p)
         \/ \E x \in NodesIn(view, <<>>) \ {q} :
              /\ IsPrefix(q, x) /\ Before(x, p)
              /\ NodeRange(<<>>, x) \cap LookupReads(view, <<>>, p) \cap DOMAIN view # {}
<1> DEFINE nodes == NodesIn(view, <<>>)
           last == Previous(view, <<>>, p)
           looked == LookupReads(view, <<>>, p)
           Seen(x) == NodeRange(<<>>, x) \cap looked \cap DOMAIN view # {}
           Past(x) == IsPrefix(p, x) \/ (Before(x, p) /\ \A y \in last : Before(y, x))
<1>1. /\ PrefixesOf(<<>>) = RootPrefix /\ nodes \subseteq RootPrefix
      /\ \A x \in RootPrefix : x \in Seq(Nat)
  BY PrefixFacts DEF NodesIn
<1>2. /\ last \subseteq {x \in nodes : Before(x, p)}
      /\ \A x \in last, y \in nodes : Before(y, p) => Before(y, x)
      /\ \A x \in nodes : Before(x, p) =>
           x \in last \/ \E y \in nodes : Before(y, p) /\ ~Before(y, x)
  BY DEF Previous
<1>3. (\A x \in last : ~IsPrefix(x, p)) /\ \A x \in nodes : ~IsPrefix(p, x)
  BY DEF IsPrefixFree
<1>4. /\ \A x \in RootPrefix \ last : Past(x) => NodeRange(<<>>, x) \subseteq looked
      /\ \A x \in last : LastRows(view, <<>>, x) \subseteq looked
  BY <1>1 DEF LookupReads
<1>5. \A x \in RootPrefix \ nodes : Past(x) => LayerKey(<<>>, x) \in looked
  BY <1>2, <1>4 DEF NodeRange
<1>6. \A x \in nodes : x \in last \/ Past(x) => Seen(x)
  <2>1. \A x \in nodes : NodeRange(<<>>, x) \cap DOMAIN view # {}
    BY DEF NodesIn
  <2>2. \A x \in nodes : NodeRange(<<>>, x) \cap LastRows(view, <<>>, x) \cap DOMAIN view # {}
    BY LastRow
  <2> HIDE DEF nodes, last, looked, Past
  <2> QED BY <1>1, <1>4, <2>1, <2>2
<1> HIDE DEF nodes, last, looked, Seen
<1>7. CASE IsPrefix(p, q)
  BY <1>3, <1>5, <1>7 DEF nodes, looked
<1>8. CASE IsPrefix(q, p)
  <2>1. Before(q, p)
    BY <1>8 DEF Before
  \* A node after q and before p is inside q.
  <2>2. ASSUME NEW x \in nodes, Before(x, p), ~Before(x, q), Seen(x)
        PROVE  \E y \in nodes \ {q} : IsPrefix(q, y) /\ Before(y, p) /\ Seen(y)
    <3>1. IsPrefix(q, x)
      BY <1>1, <1>8, <2>2, BetweenInside
    <3>2. x # q
      <4>1. IsPrefix(q, q)
        BY <1>1, PrefixOrder
      <4> QED BY <2>2, <4>1 DEF Before
    <3> QED BY <2>2, <3>1, <3>2
  <2>3. CASE last = {}
    <3>1. CASE q \notin nodes
      BY <1>5, <2>1, <2>3, <3>1 DEF nodes, looked
    <3>2. CASE q \in nodes
      <4>1. PICK x \in nodes : Before(x, p) /\ ~Before(x, q)
        BY <1>2, <2>1, <2>3, <3>2
      <4>2. Seen(x)
        BY <1>6, <2>3, <4>1
      <4> QED BY <2>2, <4>1, <4>2 DEF nodes, looked, Seen
    <3> QED BY <3>1, <3>2
  <2>4. CASE last # {}
    <3>1. PICK x \in last : TRUE
      BY <2>4
    <3>2. x \in nodes /\ Before(x, p) /\ x \in Seq(Nat) /\ x \in RootPrefix
      BY <1>1, <1>2, <3>1
    <3>3. Seen(x)
      BY <1>6, <3>1, <3>2
    <3>4. CASE Before(x, q)
      <4>1. q \notin nodes
        <5>1. SUFFICES ASSUME q \in nodes PROVE FALSE
          OBVIOUS
        <5>2. Before(q, x)
          BY <1>2, <2>1, <3>1, <5>1
        <5>3. q = x
          BY <1>1, <3>2, <3>4, <5>2, BeforeAntisymmetric
        <5> QED BY <1>3, <1>8, <3>1, <5>3
      <4>2. LayerKey(<<>>, q) \in looked
        <5>1. \A y \in last : Before(y, q)
          <6>1. \A y \in last : y = x
            BY <1>1, <1>2, <3>1, <3>2, BeforeAntisymmetric
          <6> QED BY <3>4, <6>1
        <5> QED BY <1>5, <2>1, <4>1, <5>1
      <4> QED BY <4>1, <4>2 DEF nodes, looked
    <3>5. CASE ~Before(x, q)
      BY <2>2, <3>2, <3>3, <3>5 DEF nodes, looked, Seen
    <3> QED BY <3>4, <3>5
  <2> QED BY <2>3, <2>4
<1> QED BY <1>7, <1>8 DEF Overlap

\* A new prefix comes from the allocator, which gave its number to nobody
\* else, or is one given by hand, where no node was found.
Drawn(t) ==
  \A L \in Layers : \A p \in PrefixesOf(L) : LayerKey(L, p) \in DOMAIN t.puts =>
    IF p \in t.auto THEN \E n \in 1 .. MaxNumber : p = Append(L, n) /\ TakenKey(L, n) \in DOMAIN t.puts
    ELSE L = <<>> /\ p \in ManualPrefix /\ LayerKey(L, p) \in t.reads

Absent(t, db, q) == LayerKey(<<>>, q) \in t.reads \ (DOMAIN db \cup DOMAIN t.puts)

\* q overlaps p unnoticed: a node inside q, and before p, was looked up.
Hidden(t, db, q, p) ==
  \E x \in RootPrefix \ {q} :
    IsPrefix(q, x) /\ Before(x, p) /\ NodeRange(<<>>, x) \cap t.reads \cap DOMAIN db # {}

\* Nodes that a transaction creates overlap no others, but for those unseen.
Free(t, db, unseen) ==
  \A L \in Layers : \A p \in PrefixesOf(L) : LayerKey(L, p) \in DOMAIN t.puts =>
    \A q \in PrefixesOf(L) \ {p} : Overlap(p, q) =>
      \/ /\ p \in t.auto
         /\ LayerKey(L, q) \in DOMAIN db \cup DOMAIN t.puts => q \in unseen
      \/ p \notin t.auto /\ (Absent(t, db, q) \/ Hidden(t, db, q, p))

Chosen(t, db, unseen) == Drawn(t) /\ Free(t, db, unseen)

\* It created nodes of one layer below its root, with prefixes from the
\* allocator of the layer.
Allotted(t, L) ==
  /\ \A p \in t.auto : p \in PrefixesOf(L) /\ LayerKey(L, p) \in DOMAIN t.puts
  /\ \A M \in Layers : \A p \in PrefixesOf(M) :
       LayerKey(M, p) \in DOMAIN t.puts => M = L /\ p \in t.auto
  /\ \A p \in PrefixesOf(L) : ChildRange(L, p) \cap DOMAIN t.puts = {}

SameNodes(t, u) ==
  /\ u.auto = t.auto /\ t.reads \subseteq u.reads
  /\ \A k : k[1] \in {"layer", "child", "taken"} => (k \in DOMAIN u.puts <=> k \in DOMAIN t.puts)

LEMMA ChosenKept ==
  ASSUME NEW t, NEW u, SameNodes(t, u)
  PROVE  /\ \A db, unseen : Chosen(t, db, unseen) => Chosen(u, db, unseen)
         /\ \A L : Allotted(t, L) => Allotted(u, L)
         /\ \A w : SameNodes(u, w) => SameNodes(t, w)
<1>1. /\ \A L, p : LayerKey(L, p) \in DOMAIN u.puts <=> LayerKey(L, p) \in DOMAIN t.puts
      /\ \A L, n : TakenKey(L, n) \in DOMAIN u.puts <=> TakenKey(L, n) \in DOMAIN t.puts
      /\ \A L, p : ChildRange(L, p) \cap DOMAIN u.puts = ChildRange(L, p) \cap DOMAIN t.puts
  BY Keys DEF SameNodes, ChildRange
<1>2. \A db, q : Absent(t, db, q) => Absent(u, db, q)
  BY <1>1 DEF SameNodes, Absent
<1>3. \A db, q, p : Hidden(t, db, q, p) => Hidden(u, db, q, p)
  BY DEF SameNodes, Hidden
<1>4. ASSUME NEW db, NEW unseen, Chosen(t, db, unseen) PROVE Chosen(u, db, unseen)
  <2>1. Drawn(u)
    BY <1>1, <1>4 DEF SameNodes, Chosen, Drawn
  <2>2. Free(u, db, unseen)
    BY <1>1, <1>2, <1>3, <1>4 DEF SameNodes, Chosen, Free
  <2> QED BY <2>1, <2>2 DEF Chosen
<1>5. \A L : Allotted(t, L) => Allotted(u, L)
  BY <1>1 DEF SameNodes, Allotted
<1>6. \A w : SameNodes(u, w) => SameNodes(t, w)
  BY DEF SameNodes
<1> QED BY <1>4, <1>5, <1>6

\* Reading, checking the version and naming a directory create no node.
LEMMA ReadsSame ==
  ASSUME NEW t, Made(t), NEW keys
  PROVE  SameNodes(t, Reads(t, keys)) /\ Made(Reads(t, keys))
<1> DEFINE u == Reads(t, keys)
<1>1. Made(u) /\ u.reads = t.reads \cup keys /\ u.puts = t.puts /\ u.auto = t.auto
  BY ReadsIs
<1> HIDE DEF u
<1>2. SameNodes(t, u)
  BY <1>1 DEF SameNodes
<1> QED BY <1>1, <1>2 DEF u

LEMMA AtSame ==
  ASSUME NEW t, Made(t), NEW L, NEW p
  PROVE  SameNodes(t, At(t, L, p)) /\ Made(At(t, L, p))
<1> DEFINE u == At(t, L, p)
<1>1. Made(u) /\ u.reads = t.reads /\ u.puts = t.puts /\ u.auto = t.auto
  BY AtIs
<1> HIDE DEF u
<1>2. SameNodes(t, u)
  BY <1>1 DEF SameNodes
<1> QED BY <1>1, <1>2 DEF u

LEMMA VersionSame ==
  ASSUME NEW t, Made(t), NEW L, NEW write
  PROVE  SameNodes(t, CheckVersion(t, L, write)) /\ Made(CheckVersion(t, L, write))
<1> DEFINE key == VersionKey(L)
           u == Reads(t, {key})
           x == Put(u, key, 1)
           w == CheckVersion(t, L, write)
<1>1. SameNodes(t, u) /\ Made(u)
  BY ReadsSame
<1>2. w = IF write /\ key \notin DOMAIN u.view THEN x ELSE u
  BY DEF CheckVersion
<1>3. key[1] = "version"
  BY Keys
<1> HIDE DEF u, w, key
<1>4. Made(x) /\ x.reads = u.reads /\ x.auto = u.auto /\ DOMAIN x.puts = DOMAIN u.puts \cup {key}
  BY <1>1, PutIs
<1> HIDE DEF x
<1>5. SameNodes(u, x)
  BY <1>3, <1>4 DEF SameNodes
<1>6. SameNodes(t, x)
  BY <1>1, <1>5, ChosenKept
<1> QED BY <1>1, <1>2, <1>4, <1>6 DEF w

\* The prefix comes from the allocator, or was looked up.
LEMMA ChoosePrefixDraws ==
  ASSUME NEW t, Made(t), NEW L \in Layers, NEW opt, opt.draw \in Draws
  PROVE  LET u == ChoosePrefix(t, L, opt)
             p == u.at.prefix
         IN u.ok =>
              /\ t.reads \subseteq u.reads /\ DOMAIN t.puts \subseteq DOMAIN u.puts
              /\ \A k \in DOMAIN u.puts \ DOMAIN t.puts : k[1] = "taken"
              /\ NodesIn(u.view, L) = NodesIn(t.view, L)
              /\ opt.manual # None => /\ p = opt.manual /\ u.auto = t.auto /\ u.view = t.view
                                      /\ LookupReads(t.view, L, p) \subseteq u.reads
              /\ opt.manual = None =>
                   /\ u.auto = t.auto \cup {p}
                   /\ \E n \in 1 .. MaxNumber :
                        p = Append(L, n) /\ TakenKey(L, n) \in DOMAIN u.puts
<1> DEFINE free == Numbers(t, L, opt.busy)
           n == opt.draw[free]
           p == Append(L, n)
           key == TakenKey(L, n)
           yes == TRUE
           put == Put(t, key, yes)
           taken == Reads(put, ContentRange[p])
           marked == [taken EXCEPT !.auto = @ \cup {p}]
           m == opt.manual
           keys == LookupReads(t.view, L, m)
           looked == Reads(t, keys)
           u == ChoosePrefix(t, L, opt)
<1>1. CASE m # None
  <2>1. u = At(looked, L, m)
    BY <1>1 DEF ChoosePrefix
  <2> HIDE DEF keys, u, m
  <2>2. /\ Made(looked) /\ looked.reads = t.reads \cup keys
        /\ looked.view = t.view /\ looked.puts = t.puts /\ looked.auto = t.auto
    BY ReadsIs
  <2> HIDE DEF looked
  <2>3. LET w == At(looked, L, m)
        IN /\ w.reads = looked.reads /\ w.view = looked.view /\ w.puts = looked.puts
           /\ w.auto = looked.auto /\ w.at.prefix = m
    BY <2>2, AtIs
  <2>4. /\ u.reads = t.reads \cup keys /\ u.view = t.view /\ u.puts = t.puts /\ u.auto = t.auto
        /\ u.at.prefix = m
    BY <2>1, <2>2, <2>3
  <2>5. keys = LookupReads(t.view, L, m)
    BY DEF keys
  <2> QED BY <1>1, <2>4, <2>5 DEF u, m
<1>2. CASE m = None /\ (free = {} \/ ContentRange[p] \cap DOMAIN t.view # {})
  <2>1. u = Fail(t)
    BY <1>2 DEF ChoosePrefix
  <2> HIDE DEF u
  <2>2. ~u.ok
    BY <2>1, FailIs
  <2> QED BY <2>2 DEF u
<1>3. CASE m = None /\ ~(free = {} \/ ContentRange[p] \cap DOMAIN t.view # {})
  <2>1. u = At(marked, L, p)
    BY <1>3 DEF ChoosePrefix
  <2>2. free \subseteq 1 .. MaxNumber
    BY DEF Numbers
  <2> HIDE DEF free
  <2>3. n \in free
    BY <1>3, <2>2, DirectoryAssumption
  <2> HIDE DEF n
  <2>4. p = Append(L, n) /\ key = TakenKey(L, n) /\ n \in 1 .. MaxNumber
    BY <2>2, <2>3
  <2>5. key[1] = "taken"
    BY Keys
  <2> HIDE DEF p, key, yes, u
  <2>6. /\ Made(put) /\ put.reads = t.reads /\ put.auto = t.auto
        /\ DOMAIN put.puts = DOMAIN t.puts \cup {key}
        /\ DOMAIN put.view = DOMAIN t.view \cup {key}
    BY PutIs
  <2> HIDE DEF put
  <2>7. /\ Made(taken) /\ taken.reads = put.reads \cup ContentRange[p]
        /\ taken.view = put.view /\ taken.puts = put.puts /\ taken.auto = put.auto
    BY <2>6, ReadsIs
  <2> HIDE DEF taken
  <2>8. /\ Made(marked) /\ marked.reads = taken.reads /\ marked.view = taken.view
        /\ marked.puts = taken.puts /\ marked.auto = taken.auto \cup {p}
    <3> DEFINE auto == taken.auto \cup {p}
    <3>1. marked = [taken EXCEPT !.auto = auto]
      OBVIOUS
    <3> HIDE DEF auto, marked
    <3>2. /\ marked.reads = taken.reads /\ marked.auto = auto
          /\ marked.view = taken.view /\ marked.puts = taken.puts
          /\ marked.clears = taken.clears /\ marked.adds = taken.adds
          /\ marked.at = taken.at /\ marked.ok = taken.ok
      BY <2>7, <3>1 DEF Made
    <3>3. Made(marked)
      BY <2>7, <3>1, <3>2 DEF Made
    <3> QED BY <3>2, <3>3 DEF auto
  <2> HIDE DEF marked
  <2>9. LET w == At(marked, L, p)
        IN /\ w.reads = marked.reads /\ w.view = marked.view /\ w.puts = marked.puts
           /\ w.auto = marked.auto /\ w.at.prefix = p
    BY <2>8, AtIs
  <2>10. /\ t.reads \subseteq u.reads /\ u.auto = t.auto \cup {p} /\ u.at.prefix = p
         /\ DOMAIN u.puts = DOMAIN t.puts \cup {key} /\ DOMAIN u.view = DOMAIN t.view \cup {key}
    BY <2>1, <2>6, <2>7, <2>8, <2>9
  <2>11. NodesIn(u.view, L) = NodesIn(t.view, L)
    <3>1. \A q : \A k \in NodeRange(L, q) : k # key
      BY <2>5, Keys DEF NodeRange, ChildRange
    <3> QED BY <2>10, <3>1 DEF NodesIn
  <2> QED BY <1>3, <2>4, <2>5, <2>10, <2>11 DEF u, m
<1> QED BY <1>1, <1>2, <1>3

\* A node of the rows that a transaction sees has its layer row there.
LEMMA SeenNodes ==
  ASSUME NEW t, NEW db, NEW busy, Building(t, db, busy), Linked(db), Rooted(db),
         NEW L \in Layers, NEW p \in PrefixesOf(L)
  PROVE  p \in NodesIn(t.view, L) <=> LayerKey(L, p) \in DOMAIN db \cup DOMAIN t.puts
<1>1. DOMAIN t.view = DOMAIN db \cup DOMAIN t.puts
  BY DEF Building, Overlaid
<1>2. ASSUME LayerKey(L, p) \in DOMAIN db \cup DOMAIN t.puts PROVE p \in NodesIn(t.view, L)
  BY <1>1, <1>2 DEF NodesIn, NodeRange
<1>3. ASSUME NEW k \in ChildRange(L, p) \cap DOMAIN t.view
      PROVE  LayerKey(L, p) \in DOMAIN db \cup DOMAIN t.puts
  <2>1. CASE k \in DOMAIN db
    BY <1>3, <2>1 DEF Rooted
  <2>2. CASE k \in DOMAIN t.puts
    <3>1. Hung(t, db, L, p)
      BY <1>3, <2>2 DEF Building, Grafts, Joins
    <3>2. PICK j \in ChildRange(L, RootNode(L)) :
            \/ j \in DOMAIN t.puts /\ t.puts[j] = p
            \/ j \in DOMAIN db /\ db[j] = p
      BY <3>1, PrefixFacts DEF Hung
    <3>3. j \in LinkKeys(L)
      BY DEF LinkKeys
    <3> QED BY <3>2, <3>3 DEF Building, LinksNew, Linked
  <2> QED BY <1>1, <1>3, <2>1, <2>2
<1>4. ASSUME p \in NodesIn(t.view, L) PROVE LayerKey(L, p) \in DOMAIN db \cup DOMAIN t.puts
  <2>1. PICK k \in NodeRange(L, p) : k \in DOMAIN t.view
    BY <1>4 DEF NodesIn
  <2> QED BY <1>1, <1>3, <2>1 DEF NodeRange
<1> QED BY <1>2, <1>4

LEMMA CreateNodeChooses ==
  ASSUME NEW t, NEW db, NEW busy, Building(t, db, busy), Linked(db), Rooted(db),
         NEW L \in Layers, NEW opt, Asked(opt, busy), opt.manual = None \/ L = <<>>, NEW path,
         Within(t, db, L), Allotted(t, L), Chosen(t, db, {}), CreateNode(t, L, path, opt).ok
  PROVE  LET u == CreateNode(t, L, path, opt)
         IN /\ Chosen(u, db, {})
            /\ opt.manual = None /\ t.at.prefix = RootNode(L) => Allotted(u, L)
<1> DEFINE chosen == ChoosePrefix(t, L, opt)
           p == chosen.at.prefix
           manual == opt.manual # None
           free == IsPrefixFree(chosen.view, L, p, manual)
           link == ChildKey(L, t.at.prefix, Last(path))
           layer == LayerKey(L, p)
           tag == opt.tag
           linked == Put(chosen, link, p)
           u == Put(linked, layer, tag)
           Nodes(f) == {x \in PrefixesOf(L) : LayerKey(L, x) \in DOMAIN f}
<1>1. /\ CreateNode(t, L, path, opt) = u
      /\ chosen.ok /\ free
  <2>1. ~Fail(chosen).ok
    BY ChoosePrefixBuilds, FailBuilds
  <2>2. CASE ~t.ok
    <3>1. CreateNode(t, L, path, opt) = t
      BY <2>2 DEF CreateNode
    <3> QED BY <2>2, <3>1
  <2>3. CASE t.ok /\ ~chosen.ok
    <3>1. CreateNode(t, L, path, opt) = chosen
      BY <2>3 DEF CreateNode
    <3> QED BY <2>3, <3>1
  <2>4. CASE t.ok /\ chosen.ok /\ ~free
    <3>1. CreateNode(t, L, path, opt) = Fail(chosen)
      BY <2>4 DEF CreateNode
    <3> QED BY <2>1, <3>1
  <2>5. CASE t.ok /\ chosen.ok /\ free
    BY <2>5 DEF CreateNode
  <2> QED BY <2>2, <2>3, <2>4, <2>5
<1>2. Made(t) /\ Building(chosen, db, busy) /\ p \in PrefixesOf(L)
  <2>1. Building(chosen, db, busy) /\ p \in PrefixesOf(L)
    BY <1>1, ChoosePrefixBuilds
  <2> QED BY <2>1 DEF Building
<1>3. /\ t.reads \subseteq chosen.reads /\ DOMAIN t.puts \subseteq DOMAIN chosen.puts
      /\ \A k \in DOMAIN chosen.puts \ DOMAIN t.puts : k[1] = "taken"
      /\ NodesIn(chosen.view, L) = NodesIn(t.view, L)
      /\ manual => /\ p = opt.manual /\ chosen.auto = t.auto /\ chosen.view = t.view
                   /\ LookupReads(t.view, L, p) \subseteq chosen.reads
      /\ ~manual => /\ chosen.auto = t.auto \cup {p}
                    /\ \E n \in 1 .. MaxNumber :
                         p = Append(L, n) /\ TakenKey(L, n) \in DOMAIN chosen.puts
  <2>1. opt.draw \in Draws
    BY DEF Asked
  <2> QED BY <1>1, <1>2, <2>1, ChoosePrefixDraws
<1>4. \A x \in PrefixesOf(L) :
        x \in NodesIn(t.view, L) <=> LayerKey(L, x) \in DOMAIN db \cup DOMAIN t.puts
  BY SeenNodes
<1>5. NodesIn(t.view, L) \subseteq PrefixesOf(L)
  BY DEF NodesIn
<1>6. Made(chosen)
  BY <1>2 DEF Building
<1>7. manual => L = <<>> /\ p \in ManualPrefix
  BY <1>3 DEF Asked
<1>8. free = IsPrefixFree(chosen.view, L, p, manual)
  OBVIOUS
<1> HIDE DEF chosen, p, manual, free, tag
<1>9. /\ Made(linked) /\ linked.reads = chosen.reads /\ linked.auto = chosen.auto
      /\ DOMAIN linked.puts = DOMAIN chosen.puts \cup {link}
  BY <1>6, PutIs
<1> HIDE DEF linked
<1>10. u.reads = linked.reads /\ u.auto = linked.auto
       /\ DOMAIN u.puts = DOMAIN linked.puts \cup {layer}
  BY <1>9, PutIs
<1> HIDE DEF u
<1>11. /\ u.auto = chosen.auto /\ t.reads \subseteq u.reads
       /\ DOMAIN t.puts \subseteq DOMAIN u.puts /\ DOMAIN chosen.puts \subseteq DOMAIN u.puts
       /\ \A k \in DOMAIN u.puts \ DOMAIN t.puts : k[1] = "taken" \/ k = link \/ k = layer
       /\ \A M, q : LayerKey(M, q) \in DOMAIN u.puts
                      <=> LayerKey(M, q) \in DOMAIN t.puts \/ (M = L /\ q = p)
  <2>1. /\ u.auto = chosen.auto /\ t.reads \subseteq u.reads
        /\ DOMAIN t.puts \subseteq DOMAIN u.puts /\ DOMAIN chosen.puts \subseteq DOMAIN u.puts
        /\ \A k \in DOMAIN u.puts \ DOMAIN t.puts : k[1] = "taken" \/ k = link \/ k = layer
        /\ layer \in DOMAIN u.puts
    BY <1>3, <1>9, <1>10
  <2> QED BY <2>1, Keys
\* An allocated prefix overlaps only what is inside it, and nothing is.
<1>12. ASSUME ~manual, NEW q \in PrefixesOf(L) \ {p}, Overlap(p, q)
       PROVE  q \notin NodesIn(t.view, L)
  <2>1. p \in Allocatable(L)
    BY <1>3, <1>12 DEF Allocatable
  <2>2. IsPrefix(p, q)
    <3>1. CASE L = <<>>
      BY <1>2, <1>12, <2>1, <3>1, AllocatedPrefixes, PrefixFacts DEF Overlap
    <3>2. CASE L # <<>>
      <4>1. q \in Allocatable(L)
        BY <3>2 DEF PrefixesOf
      <4> QED BY <1>12, <2>1, <4>1, AllocatedPrefixes
    <3> QED BY <3>1, <3>2
  <2> QED BY <1>1, <1>3, <1>8, <2>2 DEF IsPrefixFree
\* So does the node created before.
<1>13. ASSUME NEW q \in PrefixesOf(L), LayerKey(L, q) \in DOMAIN t.puts
       PROVE  /\ q # p /\ ~Overlap(q, p) /\ q \in Allocatable(L) /\ q \in t.auto
              /\ \A x \in NodesIn(t.view, L) : IsPrefix(q, x) => x = q
  <2>1. q \in Allocatable(L) /\ q \in t.auto
    BY <1>13 DEF Allotted, Chosen, Drawn, Allocatable
  <2>2. q \in NodesIn(t.view, L)
    BY <1>4, <1>13
  <2>3. \A x \in NodesIn(t.view, L) : IsPrefix(q, x) => x = q
    BY <1>4, <1>5, <1>13, <2>1 DEF Chosen, Free, Overlap
  <2>4. q # p
    <3>1. p \in Seq(Nat)
      BY <1>2, PrefixFacts
    <3>2. IsPrefix(p, p)
      BY <3>1, PrefixOrder
    <3> QED BY <1>1, <1>3, <1>8, <2>2, <3>2 DEF IsPrefixFree
  <2>5. ~Overlap(q, p)
    <3>1. CASE ~manual
      BY <1>3, <2>1, <2>4, <3>1, AllocatedPrefixes DEF Allocatable
    <3>2. CASE manual
      <4>1. SUFFICES ASSUME Overlap(q, p) PROVE FALSE
        OBVIOUS
      <4>2. L = <<>> /\ p \in RootPrefix /\ q \in RootPrefix \ {p}
        BY <1>2, <1>7, <2>4, <3>2, PrefixFacts
      <4>3. Overlap(p, q)
        BY <4>1 DEF Overlap
      <4>4. \/ q \notin NodesIn(chosen.view, L)
            \/ \E x \in NodesIn(chosen.view, L) \ {q} : IsPrefix(q, x)
        BY <1>1, <1>8, <4>2, <4>3, LookedUp
      <4> QED BY <1>3, <2>2, <2>3, <4>4
    <3> QED BY <3>1, <3>2
  <2> QED BY <2>1, <2>3, <2>4, <2>5
\* A prefix given by hand is none that this transaction allocated.
<1>14. manual => p \notin u.auto
  <2>1. \A q \in t.auto : q \in PrefixesOf(L) /\ LayerKey(L, q) \in DOMAIN t.puts
    BY DEF Allotted
  <2> QED BY <1>3, <1>11, <1>13, <2>1
<1>15. manual => LayerKey(L, p) \in u.reads
  <2>1. SUFFICES ASSUME manual PROVE LayerKey(L, p) \in LookupReads(t.view, L, p)
    BY <1>3, <1>9, <1>10
  <2>2. p \in Seq(Nat)
    BY <1>2, PrefixFacts
  <2>3. IsPrefix(p, p)
    BY <2>2, PrefixOrder
  <2>4. p \notin NodesIn(t.view, L)
    BY <1>1, <1>3, <1>8, <2>3 DEF IsPrefixFree
  <2>5. p \notin Previous(t.view, L, p)
    BY <2>4 DEF Previous
  <2>6. LayerKey(L, p) \in NodeRange(L, p)
    BY DEF NodeRange
  <2> QED BY <1>2, <2>3, <2>5, <2>6 DEF LookupReads
<1>16. Drawn(u)
  <2>1. SUFFICES ASSUME NEW M \in Layers, NEW q \in PrefixesOf(M), LayerKey(M, q) \in DOMAIN u.puts
                 PROVE  IF q \in u.auto
                        THEN \E n \in 1 .. MaxNumber : q = Append(M, n) /\ TakenKey(M, n) \in DOMAIN u.puts
                        ELSE M = <<>> /\ q \in ManualPrefix /\ LayerKey(M, q) \in u.reads
    BY DEF Drawn
  <2>2. CASE LayerKey(M, q) \in DOMAIN t.puts
    <3>1. q \in t.auto
      BY <2>2 DEF Allotted
    <3>2. PICK n \in 1 .. MaxNumber : q = Append(M, n) /\ TakenKey(M, n) \in DOMAIN t.puts
      BY <2>2, <3>1 DEF Chosen, Drawn
    <3>3. q \in u.auto
      BY <1>3, <1>11, <3>1
    <3> QED BY <1>11, <3>2, <3>3
  <2>3. CASE M = L /\ q = p
    <3>1. CASE ~manual
      BY <1>3, <1>11, <2>3, <3>1
    <3>2. CASE manual
      BY <1>7, <1>14, <1>15, <2>3, <3>2
    <3> QED BY <3>1, <3>2
  <2> QED BY <1>11, <2>1, <2>2, <2>3
<1>17. Free(u, db, {})
  <2>1. SUFFICES ASSUME NEW M \in Layers, NEW x \in PrefixesOf(M), LayerKey(M, x) \in DOMAIN u.puts,
                        NEW q \in PrefixesOf(M) \ {x}, Overlap(x, q)
                 PROVE  \/ x \in u.auto /\ LayerKey(M, q) \notin DOMAIN db \cup DOMAIN u.puts
                        \/ x \notin u.auto /\ (Absent(u, db, q) \/ Hidden(u, db, q, x))
    BY DEF Free
  <2>2. M = L
    BY <1>11, <2>1 DEF Allotted
  <2>3. CASE LayerKey(M, x) \in DOMAIN t.puts
    <3>1. x \in t.auto /\ q # p
      BY <1>13, <2>1, <2>2, <2>3
    <3>2. LayerKey(L, q) \notin DOMAIN db \cup DOMAIN t.puts
      BY <2>1, <2>2, <2>3, <3>1 DEF Chosen, Free
    <3>3. x \in u.auto
      BY <1>3, <1>11, <3>1
    <3> QED BY <1>11, <2>2, <3>1, <3>2, <3>3
  <2>4. CASE x = p /\ ~manual
    BY <1>3, <1>4, <1>11, <1>12, <2>1, <2>2, <2>4
  <2>5. CASE x = p /\ manual
    <3>1. L = <<>> /\ p \notin u.auto /\ p \in RootPrefix /\ q \in RootPrefix \ {p}
      BY <1>2, <1>7, <1>14, <2>1, <2>2, <2>5, PrefixFacts
    <3>2. chosen.view = t.view /\ LookupReads(t.view, L, p) \subseteq u.reads
      BY <1>3, <1>9, <1>10, <2>5
    <3>3. \/ q \notin NodesIn(t.view, L) /\ LayerKey(L, q) \in u.reads
          \/ \E y \in NodesIn(t.view, L) \ {q} :
               /\ IsPrefix(q, y) /\ Before(y, p)
               /\ NodeRange(L, y) \cap u.reads \cap DOMAIN t.view # {}
      <4> DEFINE view == t.view
      <4>1. IsPrefixFree(view, <<>>, p, manual) /\ Overlap(p, q)
        BY <1>1, <1>8, <2>1, <2>5, <3>1, <3>2
      <4>2. LookupReads(view, <<>>, p) \subseteq u.reads
        BY <3>1, <3>2
      <4> HIDE DEF view
      <4>3. \/ q \notin NodesIn(view, <<>>) /\ LayerKey(<<>>, q) \in u.reads
            \/ \E y \in NodesIn(view, <<>>) \ {q} :
                 /\ IsPrefix(q, y) /\ Before(y, p)
                 /\ NodeRange(<<>>, y) \cap u.reads \cap DOMAIN view # {}
        <5>1. \/ /\ q \notin NodesIn(view, <<>>)
                 /\ LayerKey(<<>>, q) \in LookupReads(view, <<>>, p)
              \/ \E y \in NodesIn(view, <<>>) \ {q} :
                   /\ IsPrefix(q, y) /\ Before(y, p)
                   /\ NodeRange(<<>>, y) \cap LookupReads(view, <<>>, p) \cap DOMAIN view # {}
          BY <3>1, <4>1, LookedUp
        <5> QED BY <4>2, <5>1
      <4> QED BY <3>1, <4>3 DEF view
    <3>4. CASE q \notin NodesIn(t.view, L) /\ LayerKey(L, q) \in u.reads
      BY <1>4, <1>11, <2>1, <2>2, <2>5, <3>1, <3>4 DEF Absent
    <3>5. ASSUME NEW y \in NodesIn(t.view, L) \ {q}, IsPrefix(q, y), Before(y, p),
                 NodeRange(L, y) \cap u.reads \cap DOMAIN t.view # {}
          PROVE  Hidden(u, db, q, p)
      <4>1. y \in RootPrefix /\ y \in PrefixesOf(L)
        BY <1>5, <3>1, PrefixFacts
      \* What this transaction created has nothing above.
      <4>2. LayerKey(L, y) \notin DOMAIN t.puts
        <5>1. y \notin Allocatable(L)
          BY <3>1, <3>5, <4>1, AllocatedPrefixes
        <5> QED BY <1>13, <4>1, <5>1
      <4>3. NodeRange(L, y) \cap DOMAIN t.puts = {}
        BY <4>1, <4>2 DEF Allotted, NodeRange
      <4>4. DOMAIN t.view = DOMAIN db \cup DOMAIN t.puts
        BY DEF Building, Overlaid
      <4> QED BY <3>1, <3>5, <4>1, <4>3, <4>4 DEF Hidden
    <3> QED BY <2>2, <2>5, <3>1, <3>3, <3>4, <3>5
  <2> QED BY <1>11, <2>1, <2>2, <2>3, <2>4, <2>5
<1>18. ASSUME ~manual, t.at.prefix = RootNode(L) PROVE Allotted(u, L)
  <2>1. \A q \in u.auto : q \in PrefixesOf(L) /\ LayerKey(L, q) \in DOMAIN u.puts
    BY <1>2, <1>3, <1>11, <1>18 DEF Allotted
  <2>2. \A M \in Layers : \A q \in PrefixesOf(M) :
          LayerKey(M, q) \in DOMAIN u.puts => M = L /\ q \in u.auto
    BY <1>3, <1>11, <1>18 DEF Allotted
  <2>3. ASSUME NEW q \in PrefixesOf(L), NEW k \in ChildRange(L, q) PROVE k \notin DOMAIN u.puts
    <3>1. k[1] = "child" /\ k[3] = q
      BY Keys DEF ChildRange
    <3>2. link[3] = RootNode(L) /\ layer[1] = "layer"
      BY <1>18, Keys
    <3>3. q # RootNode(L)
      BY PrefixFacts
    <3>4. k \notin DOMAIN t.puts
      BY DEF Allotted
    <3> HIDE DEF link, layer
    <3> QED BY <1>11, <3>1, <3>2, <3>3, <3>4
  <2> QED BY <2>1, <2>2, <2>3 DEF Allotted
<1> QED BY <1>1, <1>17, <1>18, <1>16 DEF Chosen, manual

\* Unless it creates a node, or works in a partition, it only reads.
LEMMA CreateOrOpenFromSame ==
  ASSUME NEW t, Made(t), NEW L, NEW path, NEW opt, NEW created, NEW nested,
         CreateOrOpenFrom(t, created, nested, L, path, opt).ok
  PROVE  LET w == CreateOrOpenFrom(t, created, nested, L, path, opt)
             found == FindNode(CheckVersion(t, L, FALSE).view, L, path)
         IN \/ found.node = None /\ (opt.manual = None \/ L = <<>>) /\ w = created
            \/ found.node # None /\ InPartition(found, path) /\ w = nested
            \/ SameNodes(t, w)
<1> DEFINE no == FALSE
           v == CheckVersion(t, L, no)
           found == FindNode(v.view, L, path)
           u == Reads(v, found.reads)
           w == CreateOrOpenFrom(t, created, nested, L, path, opt)
           misplaced == opt.manual # None /\ L # <<>>
           node == found.node
           opens == opt.open /\ opt.tag \in {"", found.tag}
<1>1. w = CASE misplaced -> Fail(v)
            [] ~misplaced /\ node = None -> created
            [] ~misplaced /\ node # None /\ InPartition(found, path) -> nested
            [] OTHER -> IF opens THEN At(u, L, node) ELSE Fail(u)
  BY DEF CreateOrOpenFrom
<1>2. v = CheckVersion(t, L, FALSE)
  OBVIOUS
<1> HIDE DEF no
<1>3. SameNodes(t, v) /\ Made(v)
  BY VersionSame
<1> HIDE DEF v, w
<1>4. SameNodes(v, u) /\ Made(u)
  BY <1>3, ReadsSame
<1> HIDE DEF u, opens, node
<1>5. SameNodes(u, At(u, L, node))
  BY <1>4, AtSame
<1>6. SameNodes(t, At(u, L, node))
  BY <1>3, <1>4, <1>5, ChosenKept
<1>7. ~Fail(v).ok /\ ~Fail(u).ok
  BY <1>3, <1>4, FailIs
<1>8. w.ok
  BY DEF w
<1>9. \/ node = None /\ ~misplaced /\ w = created
      \/ node # None /\ InPartition(found, path) /\ w = nested
      \/ SameNodes(t, w)
  <2> HIDE DEF found
  <2> QED BY <1>1, <1>6, <1>7, <1>8
<1> QED BY <1>2, <1>9 DEF w, node

\* The start of a creation at the root of a layer.
LEMMA RootBuilds ==
  ASSUME NEW t, NEW db, NEW busy, Building(t, db, busy), NEW L, NEW path, Within(t, db, L)
  PROVE  LET v == CheckVersion(t, L, FALSE)
             u == Reads(v, FindNode(v.view, L, path).reads)
             x == CheckVersion(u, L, TRUE)
             parent == At(x, L, RootNode(L))
         IN /\ Building(v, db, busy) /\ u.view = v.view
            /\ u.reads = v.reads \cup FindNode(v.view, L, path).reads
            /\ Building(u, db, busy) /\ Building(x, db, busy) /\ Building(parent, db, busy)
            /\ Within(u, db, L) /\ Within(x, db, L) /\ Within(parent, db, L)
            /\ SameNodes(t, u) /\ SameNodes(t, x) /\ SameNodes(t, parent)
            /\ parent.at.prefix = RootNode(L)
<1> DEFINE no == FALSE
           yes == TRUE
           v == CheckVersion(t, L, no)
           keys == FindNode(v.view, L, path).reads
           u == Reads(v, keys)
           x == CheckVersion(u, L, yes)
           root == RootNode(L)
           parent == At(x, L, root)
<1>1. /\ Building(v, db, busy) /\ u.view = v.view /\ u.reads = v.reads \cup keys
      /\ Building(u, db, busy) /\ Grows(t, u)
  BY OpenWalkBuilds
<1>2. /\ v = CheckVersion(t, L, FALSE) /\ x = CheckVersion(u, L, TRUE)
      /\ \A s : Building(s, db, busy) => Made(s) /\ s.clears = {}
  BY DEF Building
<1> HIDE DEF no, yes
<1>3. SameNodes(t, v) /\ Made(v)
  BY <1>2, VersionSame
<1> HIDE DEF v, keys, root
<1>4. SameNodes(v, u) /\ Made(u)
  BY <1>3, ReadsSame
<1>5. SameNodes(t, u)
  BY <1>3, <1>4, ChosenKept
<1>6. Within(u, db, L)
  BY <1>1, <1>2, GrowsTogether
<1> HIDE DEF u
<1>7. Building(x, db, busy) /\ Grows(u, x) /\ SameNodes(u, x) /\ Made(x)
  BY <1>1, <1>2, <1>4, <1>6, CheckVersionBuilds, VersionSame
<1>8. Within(x, db, L) /\ SameNodes(t, x)
  BY <1>1, <1>2, <1>5, <1>6, <1>7, GrowsTogether, ChosenKept
<1> HIDE DEF x
<1>9. /\ Made(parent) /\ parent.reads = x.reads /\ parent.view = x.view
      /\ parent.puts = x.puts /\ parent.clears = x.clears /\ parent.adds = x.adds
      /\ SameNodes(x, parent) /\ parent.at.prefix = root
  BY <1>7, AtIs, AtSame
<1> HIDE DEF parent
<1>10. Building(parent, db, busy) /\ Grows(x, parent)
  BY <1>7, <1>9, BuildingKept
<1>11. Within(parent, db, L) /\ SameNodes(t, parent)
  BY <1>2, <1>7, <1>8, <1>9, <1>10, GrowsTogether, ChosenKept
<1> QED BY <1>1, <1>2, <1>5, <1>6, <1>7, <1>8, <1>9, <1>10, <1>11 DEF v, keys, u, x, root, parent

LEMMA CreateOrOpenNameChooses ==
  ASSUME NEW t, NEW db, NEW busy, Building(t, db, busy), Linked(db), Rooted(db),
         NEW L \in Layers, NEW opt, Asked(opt, busy), NEW path, Within(t, db, L),
         Allotted(t, L), Chosen(t, db, {}), CreateOrOpenName(t, L, path, opt).ok
  PROVE  LET w == CreateOrOpenName(t, L, path, opt)
         IN Chosen(w, db, {}) /\ (opt.manual = None => Allotted(w, L))
<1> DEFINE v == CheckVersion(t, L, FALSE)
           u == Reads(v, FindNode(v.view, L, path).reads)
           parent == At(CheckVersion(u, L, TRUE), L, RootNode(L))
           created == CreateNode(parent, L, path, opt)
           nested == Fail(u)
           w == CreateOrOpenFrom(t, created, nested, L, path, opt)
<1>1. CreateOrOpenName(t, L, path, opt) = w
  BY DEF CreateOrOpenName
<1>2. /\ Building(u, db, busy) /\ Building(parent, db, busy) /\ Within(parent, db, L)
      /\ SameNodes(t, parent) /\ parent.at.prefix = RootNode(L)
  <2> HIDE DEF created, nested, w
  <2>1. /\ Building(u, db, busy) /\ Building(parent, db, busy)
        /\ SameNodes(t, parent)
    BY RootBuilds
  <2>2. Within(parent, db, L)
    BY RootBuilds
  <2>3. parent.at.prefix = RootNode(L)
    BY DEF At
  <2> QED BY <2>1, <2>2, <2>3
<1>3. Made(t) /\ w.ok
  BY <1>1 DEF Building
<1>4. ~nested.ok
  <2> HIDE DEF u
  <2> QED BY <1>2, FailBuilds
<1> HIDE DEF parent, u, nested
<1>5. Allotted(parent, L) /\ Chosen(parent, db, {})
  BY <1>2, ChosenKept
<1>6. ASSUME opt.manual = None \/ L = <<>>, created.ok
      PROVE  Chosen(created, db, {}) /\ (opt.manual = None => Allotted(created, L))
  BY <1>2, <1>5, <1>6, CreateNodeChooses
<1> HIDE DEF created
<1>7. \/ (opt.manual = None \/ L = <<>>) /\ w = created
      \/ w = nested
      \/ SameNodes(t, w)
  BY <1>3, CreateOrOpenFromSame
<1> HIDE DEF w
<1> QED BY <1>1, <1>3, <1>4, <1>6, <1>7, ChosenKept

\* Creating or opening a directory, from a transaction that has done nothing.
LEMMA CreateOrOpenChooses ==
  ASSUME NEW t, NEW db, NEW busy, Building(t, db, busy), Linked(db), Rooted(db),
         DOMAIN t.puts = {}, t.auto = {},
         NEW opt, Asked(opt, busy), NEW path \in Seq(Name), Len(path) \in 1 .. 2,
         CreateOrOpen(t, <<>>, path, opt).ok
  PROVE  Chosen(CreateOrOpen(t, <<>>, path, opt), db, {})
<1> DEFINE L == <<>>
           v == CheckVersion(t, L, FALSE)
           found == FindNode(v.view, L, path)
           u == Reads(v, found.reads)
           x == CheckVersion(u, L, TRUE)
           above == [opt EXCEPT !.manual = None, !.tag = "", !.open = TRUE]
           root == At(x, L, RootNode(L))
           parent == IF Len(path) = 1 THEN root ELSE CreateOrOpenName(x, L, Front(path), above)
           created == CreateNode(parent, L, path, opt)
           nested == CreateOrOpenName(u, found.node, Subpath(found, path), opt)
           w == CreateOrOpenFrom(t, created, nested, L, path, opt)
<1>1. CreateOrOpen(t, <<>>, path, opt) = w
  BY DEF CreateOrOpen, ParentNode
<1>2. L \in Layers /\ \A s : Within(s, db, L)
  BY PrefixFacts DEF Within
<1>3. Made(t) /\ \A M : Allotted(t, M) /\ Chosen(t, db, {})
  BY DEF Building, Allotted, Chosen, Drawn, Free
<1> HIDE DEF L
<1>4. /\ Building(u, db, busy) /\ Building(x, db, busy) /\ Building(root, db, busy)
      /\ SameNodes(t, u) /\ SameNodes(t, x) /\ SameNodes(t, root)
      /\ Building(v, db, busy) /\ u.view = v.view /\ u.reads = v.reads \cup found.reads
  <2> HIDE DEF above, parent, created, nested, w
  <2>1. Within(t, db, L)
    BY <1>2
  <2>2. /\ Building(u, db, busy) /\ Building(x, db, busy) /\ Building(root, db, busy)
        /\ SameNodes(t, u) /\ SameNodes(t, x) /\ SameNodes(t, root)
    BY <2>1, RootBuilds
  <2>3. Building(v, db, busy) /\ u.view = v.view /\ u.reads = v.reads \cup found.reads
    <3> HIDE DEF x, root
    <3> QED BY OpenWalkBuilds
  <2> QED BY <2>2, <2>3
<1>5. /\ \A M : Allotted(u, M) /\ Allotted(x, M) /\ Allotted(root, M)
      /\ Chosen(u, db, {}) /\ Chosen(x, db, {}) /\ Chosen(root, db, {})
  <2> HIDE DEF u, x, root
  <2> QED BY <1>3, <1>4, ChosenKept
<1>6. Asked(above, busy) /\ above.manual = None
  <2> DEFINE any == ""
             yes == TRUE
  <2>1. above = [opt EXCEPT !.manual = None, !.tag = any, !.open = yes]
    OBVIOUS
  <2> HIDE DEF any, yes, above
  <2>2. above.manual = None /\ above.busy = opt.busy /\ above.tag = any /\ above.open = yes
        /\ above.draw = opt.draw
    BY <2>1 DEF Asked
  <2>3. above = [tag |-> any, manual |-> None, open |-> yes, busy |-> opt.busy, draw |-> opt.draw]
    BY <2>1 DEF Asked
  <2> QED BY <2>2, <2>3 DEF Asked
<1>7. w.ok
  BY <1>1
<1> HIDE DEF above, root
<1>8. /\ Building(parent, db, busy)
      /\ parent.ok => Allotted(parent, L) /\ Chosen(parent, db, {})
  <2> HIDE DEF x
  <2>1. CASE Len(path) = 1
    BY <1>4, <1>5, <2>1
  <2>2. CASE Len(path) = 2
    <3> DEFINE y == CreateOrOpenName(x, L, Front(path), above)
    <3>1. Front(path) \in Seq(Name) /\ Len(Front(path)) = 1
      <4>1. Front(path) \in Seq(Name) /\ Len(Front(path)) = Len(path) - 1
        BY FrontIs
      <4> QED BY <2>2, <4>1
    <3>2. Building(y, db, busy)
      BY <1>2, <1>4, <1>6, <3>1, CreateOrOpenNameBuilds DEF Opened
    <3>3. y.ok => Allotted(y, L) /\ Chosen(y, db, {})
      BY <1>2, <1>4, <1>5, <1>6, <3>1, CreateOrOpenNameChooses
    <3>4. parent = y
      BY <2>2
    <3> QED BY <3>2, <3>3, <3>4
  <2> QED BY <2>1, <2>2
<1> HIDE DEF parent
<1>9. ASSUME created.ok PROVE Chosen(created, db, {})
  <2>1. parent.ok
    <3>1. CASE ~parent.ok
      <4>1. created = parent
        BY <3>1 DEF CreateNode
      <4> QED BY <1>9, <3>1, <4>1
    <3> QED BY <3>1
  <2> QED BY <1>2, <1>8, <1>9, <2>1, CreateNodeChooses DEF L
<1>10. ASSUME found.node # None, InPartition(found, path), nested.ok
       PROVE  Chosen(nested, db, {})
  <2> HIDE DEF v, u
  <2>1. Linked(v.view)
    BY <1>4, BuildingView
  <2>2. /\ found.node \in PrefixesOf(L)
        /\ LayerKey(L, found.node) \in found.reads \cap DOMAIN v.view
        /\ v.view[LayerKey(L, found.node)] = found.tag
    BY <1>2, <1>10, <2>1, FoundFacts
  <2> DEFINE node == found.node
             rest == Subpath(found, path)
             key == LayerKey(L, node)
  <2>3. node \in RootPrefix /\ node \in Layers
    BY <2>2, PrefixFacts DEF L
  <2>4. found.tag = "partition"
    BY <1>10 DEF InPartition
  <2>5. key \in u.reads \cap DOMAIN u.view /\ u.view[key] = "partition"
    <3> HIDE DEF found
    <3> QED BY <1>4, <2>2, <2>4
  <2>6. key \notin DOMAIN u.puts
    BY <1>4, Keys DEF SameNodes
  <2>7. key \in DOMAIN db /\ db[key] = "partition" /\ u.clears = {}
    <3> HIDE DEF key
    <3> QED BY <1>4, <2>5, <2>6 DEF Building, Overlaid
  <2> HIDE DEF node, rest, found
  <2>8. Within(u, db, node)
    BY <2>3, <2>5, <2>7 DEF Within, key, L, node
  <2>9. nested = CreateOrOpenName(u, node, rest, opt)
    BY DEF node, rest
  <2> HIDE DEF nested
  <2> QED BY <1>4, <1>5, <1>10, <2>3, <2>8, <2>9, CreateOrOpenNameChooses
<1> HIDE DEF created, nested
<1>11. \/ w = created
       \/ found.node # None /\ InPartition(found, path) /\ w = nested
       \/ SameNodes(t, w)
  BY <1>3, <1>7, CreateOrOpenFromSame
<1> HIDE DEF w, found, v
<1>12. SameNodes(t, w) => Chosen(w, db, {})
  BY <1>3, ChosenKept
<1> QED BY <1>1, <1>7, <1>9, <1>10, <1>11, <1>12

-----------------------------------------------------------------------------
(* What is submitted is sound                                               *)

LEMMA BeginBuilds ==
  ASSUME NEW db, NEW busy
  PROVE  Building(Begin(db), db, busy)
<1> DEFINE t == Begin(db)
           yes == TRUE
           none == <<>>
<1>1. t = [view |-> db, reads |-> {}, puts |-> none, clears |-> {}, adds |-> none,
           auto |-> {}, at |-> None, ok |-> yes]
  BY DEF Begin
<1>2. DOMAIN none = {} /\ none = <<>>
  OBVIOUS
<1> HIDE DEF t, yes, none
<1>3. /\ t.view = db /\ t.puts = none /\ t.clears = {} /\ t.adds = none
      /\ Made(t)
  BY <1>1 DEF Made
<1>4. t.adds = <<>> /\ DOMAIN t.puts = {}
  BY <1>2, <1>3
<1>5. Nests(t, db) /\ Grafts(t, db)
  BY <1>4 DEF Nests, Grafts
<1> QED BY <1>3, <1>4, <1>5 DEF Building, Overlaid, Creates, LinksNew, Unclaimed, t

LEMMA BuildingSound ==
  ASSUME NEW t, NEW db, NEW busy, Building(t, db, busy)
  PROVE  Sound(t, db) /\ Hangs(t, db)
<1>1. DOMAIN t.adds = {} /\ t.clears = {}
  BY DEF Building
<1>2. \A p \in AnyPrefix : DirectoryRange(p) \cap (DOMAIN t.puts \cup DOMAIN t.adds) = {}
  BY <1>1, Ranges DEF Building
<1>3. Apart(t) /\ \A key \in DOMAIN t.adds : key[1] = "size"
  BY <1>1 DEF Apart
<1>4. Creates(t, db) /\ Attaches(t, db)
  BY DEF Building, LinksNew, Attaches
<1>5. Removes(t, db)
  BY <1>1 DEF Removes
<1>6. Stores(t, db)
  BY <1>2 DEF Stores
<1>7. \A p \in AnyPrefix : Counted(t, db, p)
  <2>1. \A p \in AnyPrefix : DirectoryRange(p) \cap Written(t) = {}
    BY <1>1, <1>2 DEF Written
  <2> QED BY <2>1 DEF Counted
<1>8. Hangs(t, db)
  BY <1>1 DEF Building, Hangs, Uproots
<1> QED BY <1>3, <1>4, <1>5, <1>6, <1>7, <1>8 DEF Sound

\* What an operation of the store adds to a transaction that located the
\* directory with prefix p.
Storing(u, t, db, p) ==
  /\ t.reads \subseteq u.reads /\ DOMAIN t.puts \subseteq DOMAIN u.puts
  /\ \A k \in DOMAIN t.puts : u.puts[k] = t.puts[k]
  /\ DOMAIN u.puts \ DOMAIN t.puts \subseteq DirectoryRange(p)
  /\ DOMAIN u.adds \subseteq {SizeKey(p)} /\ u.clears \subseteq DirectoryRange(p)
  /\ Apart(u) /\ Counted(u, db, p)

LEMMA StoringSound ==
  ASSUME NEW t, NEW db, NEW busy, Opened(t, db, busy), t.ok,
         NEW u, Storing(u, t, db, t.at.prefix)
  PROVE  Sound(u, db) /\ Hangs(u, db) /\ Unclaimed(u, busy)
<1> DEFINE p == t.at.prefix
           M == t.at.layer
<1>1. /\ Building(t, db, busy) /\ M \in Layers /\ p \in PrefixesOf(M)
      /\ LayerKey(M, p) \in DOMAIN t.puts \cup (t.reads \cap DOMAIN db)
  BY DEF Opened, Located
<1>2. Storing(u, t, db, p)
  OBVIOUS
<1> HIDE DEF p, M
<1>3. \A k \in DirectoryRange(p) : k[1] \in {"entry", "size"} /\ k[2] = p
  BY Ranges
<1>4. \A k : k[1] \notin {"entry", "size"} => (k \in DOMAIN u.puts <=> k \in DOMAIN t.puts)
                                              /\ k \notin u.clears
  BY <1>2, <1>3 DEF Storing
<1>5. \A k \in DOMAIN t.puts : u.puts[k] = t.puts[k]
  BY <1>2 DEF Storing
<1>6. /\ \A N, q : LayerKey(N, q)[1] \notin {"entry", "size"}
      /\ \A N, n : TakenKey(N, n)[1] \notin {"entry", "size"}
      /\ \A N : \A k \in LinkKeys(N) : k[1] \notin {"entry", "size"}
  BY Keys, Ranges
<1>7. Apart(u) /\ \A key \in DOMAIN u.adds : key[1] = "size"
  BY <1>2, Keys DEF Storing
<1>8. Creates(u, db)
  BY <1>1, <1>4, <1>6 DEF Building, Creates
<1>9. Attaches(u, db)
  <2>1. \A N : LinkKeys(N) \cap DOMAIN u.puts = LinkKeys(N) \cap DOMAIN t.puts
    BY <1>4, <1>6
  <2>2. \A N : \A q : LayerKey(N, q) \in DOMAIN u.puts <=> LayerKey(N, q) \in DOMAIN t.puts
    BY <1>4, <1>6
  <2> QED BY <1>1, <1>5, <2>1, <2>2 DEF Building, LinksNew, Attaches
<1>10. Removes(u, db)
  BY <1>4, <1>6 DEF Removes
<1>11. Stored(u, db, p)
  <2>1. LayerKey(M, p) \in DOMAIN u.puts \cup ((u.reads \cap DOMAIN db) \ u.clears)
    BY <1>1, <1>2, <1>4, <1>6 DEF Storing
  <2> QED BY <1>1, <2>1 DEF Stored
<1>12. \A q \in AnyPrefix : q # p => DirectoryRange(q) \cap Written(u) = {}
  <2>1. \A q : \A k \in DirectoryRange(q) : k[1] \in {"entry", "size"} /\ k[2] = q
    BY Ranges
  <2>2. \A k \in DOMAIN t.puts : k[1] \notin {"entry", "size"}
    BY <1>1 DEF Building
  <2>3. SizeKey(p) \in DirectoryRange(p)
    BY DEF DirectoryRange
  <2>4. \A k \in Written(u) : k[1] \in {"entry", "size"} => k[2] = p
    BY <1>2, <1>3, <2>2, <2>3 DEF Storing, Written
  <2> QED BY <2>1, <2>4
<1>13. Stores(u, db)
  BY <1>11, <1>12 DEF Stores, Written
<1>14. \A q \in AnyPrefix : Counted(u, db, q)
  <2>1. Counted(u, db, p)
    BY <1>2 DEF Storing
  <2>2. \A q \in AnyPrefix : q # p => Counted(u, db, q)
    BY <1>12 DEF Counted
  <2> QED BY <2>1, <2>2
<1>15. Unclaimed(u, busy)
  BY <1>1, <1>4, <1>6 DEF Building, Unclaimed
<1>16. /\ \A N \in Layers : Within(t, db, N) => Within(u, db, N)
       /\ \A N, P, k : Joins(t, db, N, P, k) => Joins(u, db, N, P, k)
  <2>1. Grows(t, u) /\ \A k \in u.clears \ t.clears : k[1] \in {"entry", "size"}
    BY <1>2, <1>3 DEF Storing, Grows
  <2> QED BY <2>1, GrowsTogether
<1>17. Nests(u, db)
  <2>1. \A N \in Layers : LayerRange[N] \cap DOMAIN u.puts = LayerRange[N] \cap DOMAIN t.puts
    BY <1>4, LayerRangeKeys
  <2> QED BY <1>1, <1>16, <2>1 DEF Building, Nests
<1>18. Grafts(u, db)
  <2>1. ASSUME NEW N \in Layers, NEW P \in PrefixesOf(N) \cup {RootNode(N)},
               NEW k \in ChildRange(N, P) \cap DOMAIN u.puts
        PROVE  Joins(u, db, N, P, k)
    <3>1. k \in DOMAIN t.puts
      BY <1>4, Keys DEF ChildRange
    <3> QED BY <1>1, <1>16, <3>1 DEF Building, Grafts
  <2>2. ASSUME NEW N \in Layers, NEW q \in PrefixesOf(N), LayerKey(N, q) \in DOMAIN u.puts
        PROVE  \E k \in LinkKeys(N) \cap DOMAIN u.puts : u.puts[k] = q
    <3>1. LayerKey(N, q) \in DOMAIN t.puts
      BY <1>4, <1>6, <2>2
    <3>2. PICK k \in LinkKeys(N) \cap DOMAIN t.puts : t.puts[k] = q
      BY <1>1, <3>1 DEF Building, Grafts
    <3> QED BY <1>4, <1>5, <1>6, <3>2
  <2> QED BY <2>1, <2>2 DEF Grafts
<1>19. Uproots(u, db)
  BY <1>4, <1>6 DEF Uproots
<1> QED BY <1>7, <1>8, <1>9, <1>10, <1>13, <1>14, <1>15, <1>17, <1>18, <1>19 DEF Sound, Hangs

LEMMA ClearIs ==
  ASSUME NEW t, Made(t), NEW keys
  PROVE  LET u == Clear(t, keys)
         IN /\ Made(u) /\ u.reads = t.reads /\ u.auto = t.auto
            /\ u.at = t.at /\ u.ok = t.ok /\ u.clears = t.clears \cup keys
            /\ DOMAIN u.view = DOMAIN t.view \ keys
            /\ \A k \in DOMAIN t.view \ keys : u.view[k] = t.view[k]
            /\ DOMAIN u.puts = DOMAIN t.puts \ keys
            /\ \A k \in DOMAIN t.puts \ keys : u.puts[k] = t.puts[k]
            /\ DOMAIN u.adds = DOMAIN t.adds \ keys
            /\ \A k \in DOMAIN t.adds \ keys : u.adds[k] = t.adds[k]
<1> DEFINE view == Without(t.view, keys)
           puts == Without(t.puts, keys)
           adds == Without(t.adds, keys)
           clears == t.clears \cup keys
           u == Clear(t, keys)
<1>1. \A f : /\ DOMAIN Without(f, keys) = DOMAIN f \ keys
             /\ \A k \in DOMAIN f \ keys : Without(f, keys)[k] = f[k]
  BY DEF Without
<1>2. u = [t EXCEPT !.view = view, !.puts = puts, !.clears = clears, !.adds = adds]
  BY DEF Clear
<1>3. clears = t.clears \cup keys
  OBVIOUS
<1>4. DOMAIN view = DOMAIN t.view \ keys /\ \A k \in DOMAIN t.view \ keys : view[k] = t.view[k]
  BY <1>1
<1>5. DOMAIN puts = DOMAIN t.puts \ keys /\ \A k \in DOMAIN t.puts \ keys : puts[k] = t.puts[k]
  BY <1>1
<1>6. DOMAIN adds = DOMAIN t.adds \ keys /\ \A k \in DOMAIN t.adds \ keys : adds[k] = t.adds[k]
  BY <1>1
<1> HIDE DEF view, puts, clears, adds, u
<1>7. /\ u.view = view /\ u.reads = t.reads /\ u.puts = puts /\ u.clears = clears
      /\ u.adds = adds /\ u.auto = t.auto /\ u.at = t.at /\ u.ok = t.ok
  BY <1>2 DEF Made
<1>8. Made(u)
  BY <1>2, <1>7 DEF Made
<1> QED BY <1>3, <1>4, <1>5, <1>6, <1>7, <1>8 DEF u

LEMMA AddIs ==
  ASSUME NEW t, Made(t), NEW key, NEW delta
  PROVE  LET u == Add(t, key, delta)
         IN /\ Made(u) /\ u.reads = t.reads /\ u.view = t.view /\ u.puts = t.puts
            /\ u.clears = t.clears /\ u.auto = t.auto /\ u.at = t.at /\ u.ok = t.ok
            /\ DOMAIN u.adds = DOMAIN t.adds \cup {key} /\ u.adds[key] = delta
<1> DEFINE adds == With(t.adds, key, delta)
           u == Add(t, key, delta)
<1>1. DOMAIN adds = DOMAIN t.adds \cup {key} /\ adds[key] = delta
  BY DEF With
<1>2. u = [t EXCEPT !.adds = adds]
  BY DEF Add
<1> HIDE DEF adds, u
<1>3. /\ u.view = t.view /\ u.reads = t.reads /\ u.puts = t.puts /\ u.clears = t.clears
      /\ u.adds = adds /\ u.auto = t.auto /\ u.at = t.at /\ u.ok = t.ok
  BY <1>2 DEF Made
<1>4. Made(u)
  BY <1>2, <1>3 DEF Made
<1> QED BY <1>1, <1>3, <1>4 DEF u

\* Before an operation of the store adds to it.
LEMMA OpenedFacts ==
  ASSUME NEW t, NEW db, NEW busy, Opened(t, db, busy), NEW p
  PROVE  /\ Made(t) /\ t.clears = {} /\ DOMAIN t.adds = {}
         /\ DirectoryRange(p) \cap DOMAIN t.puts = {}
         /\ \A key \in DirectoryRange(p) : key \in DOMAIN t.view <=> key \in DOMAIN db
         /\ SizeKey(p) \in DirectoryRange(p)
         /\ \A k \in StoreKey : EntryKey(p, k) \in DirectoryRange(p) \ {SizeKey(p)}
         /\ \A j, k : EntryKey(p, j) = EntryKey(p, k) => j = k
<1>1. Building(t, db, busy)
  BY DEF Opened
<1>2. DirectoryRange(p) \cap DOMAIN t.puts = {}
  BY <1>1, Ranges DEF Building
<1>3. \A key \in DirectoryRange(p) : key \in DOMAIN t.view <=> key \in DOMAIN db
  BY <1>1, <1>2 DEF Building, Overlaid
<1>4. Made(t) /\ t.clears = {} /\ DOMAIN t.adds = {}
  BY <1>1 DEF Building
<1>5. SizeKey(p) \in DirectoryRange(p)
      /\ \A k \in StoreKey : EntryKey(p, k) \in DirectoryRange(p) \ {SizeKey(p)}
  BY Keys DEF DirectoryRange
<1>6. \A j, k : EntryKey(p, j) = EntryKey(p, k) => j = k
  BY Keys
<1> QED BY <1>2, <1>3, <1>4, <1>5, <1>6

LEMMA SetStores ==
  ASSUME NEW t, NEW db, NEW busy, Opened(t, db, busy), NEW p, NEW k \in StoreKey
  PROVE  LET u == Put(Reads(t, PresenceReads(p, k)), EntryKey(p, k), TRUE)
         IN Storing(IF EntryKey(p, k) \in DOMAIN t.view THEN u ELSE Add(u, SizeKey(p), 1),
                    t, db, p)
<1> DEFINE entry == EntryKey(p, k)
           yes == TRUE
           v == Reads(t, PresenceReads(p, k))
           u == Put(v, entry, yes)
           w == Add(u, SizeKey(p), 1)
<1>1. /\ Made(t) /\ t.clears = {} /\ DOMAIN t.adds = {}
      /\ DirectoryRange(p) \cap DOMAIN t.puts = {}
      /\ entry \in DOMAIN t.view <=> entry \in DOMAIN db
      /\ SizeKey(p) \in DirectoryRange(p)
      /\ entry \in DirectoryRange(p) \ {SizeKey(p)}
      /\ \A j \in StoreKey \ {k} : EntryKey(p, j) \in DirectoryRange(p) \ {entry, SizeKey(p)}
  BY OpenedFacts
<1>2. Made(v) /\ v.reads = t.reads \cup {entry} /\ v.puts = t.puts /\ v.clears = t.clears
      /\ v.adds = t.adds
  BY <1>1, ReadsIs DEF PresenceReads
<1> HIDE DEF yes, v, entry
<1>3. /\ Made(u) /\ u.reads = v.reads /\ u.adds = v.adds /\ u.clears = v.clears \ {entry}
      /\ DOMAIN u.puts = DOMAIN v.puts \cup {entry}
      /\ \A x \in DOMAIN v.puts : x # entry => u.puts[x] = v.puts[x]
  BY <1>2, PutIs
<1> HIDE DEF u
<1>4. /\ Made(w) /\ w.reads = u.reads /\ w.puts = u.puts /\ w.clears = u.clears
      /\ DOMAIN w.adds = DOMAIN u.adds \cup {SizeKey(p)} /\ w.adds[SizeKey(p)] = 1
  BY <1>3, AddIs
<1> HIDE DEF w
<1>5. CASE entry \in DOMAIN db
  <2>1. Counted(u, db, p)
    <3>1. \A j \in StoreKey \ {k} : EntryKey(p, j) \notin Written(u)
      BY <1>1, <1>2, <1>3 DEF Written
    <3>2. Entered(u, db, p, k) /\ entry \in u.reads
      BY <1>1, <1>2, <1>3, <1>5 DEF Written, Entered, entry
    <3> QED BY <3>1, <3>2 DEF Counted, entry
  <2>2. Storing(u, t, db, p)
    BY <1>1, <1>2, <1>3, <2>1 DEF Storing, Apart
  <2> QED BY <1>1, <1>5, <2>2 DEF u, v, w, entry, yes
<1>6. CASE entry \notin DOMAIN db
  <2>1. Counted(w, db, p)
    <3>1. \A j \in StoreKey \ {k} : EntryKey(p, j) \notin Written(w)
      BY <1>1, <1>2, <1>3, <1>4 DEF Written
    <3>2. Entered(w, db, p, k) /\ entry \in w.reads
      BY <1>1, <1>2, <1>3, <1>4, <1>6 DEF Written, Entered, entry
    <3> QED BY <3>1, <3>2 DEF Counted, entry
  <2>2. Storing(w, t, db, p)
    BY <1>1, <1>2, <1>3, <1>4, <2>1 DEF Storing, Apart
  <2> QED BY <1>1, <1>6, <2>2 DEF u, v, w, entry, yes
<1> QED BY <1>5, <1>6

LEMMA RemoveStores ==
  ASSUME NEW t, NEW db, NEW busy, Opened(t, db, busy), NEW p, NEW k \in StoreKey
  PROVE  LET u == Reads(t, PresenceReads(p, k))
         IN Storing(IF EntryKey(p, k) \in DOMAIN t.view
                    THEN Add(Clear(u, {EntryKey(p, k)}), SizeKey(p), -1) ELSE u,
                    t, db, p)
<1> DEFINE entry == EntryKey(p, k)
           one == {entry}
           delta == -1
           u == Reads(t, PresenceReads(p, k))
           v == Clear(u, one)
           w == Add(v, SizeKey(p), delta)
<1>1. /\ Made(t) /\ t.clears = {} /\ DOMAIN t.adds = {}
      /\ DirectoryRange(p) \cap DOMAIN t.puts = {}
      /\ entry \in DOMAIN t.view <=> entry \in DOMAIN db
      /\ SizeKey(p) \in DirectoryRange(p)
      /\ entry \in DirectoryRange(p) \ {SizeKey(p)}
      /\ \A j \in StoreKey \ {k} : EntryKey(p, j) \in DirectoryRange(p) \ {entry, SizeKey(p)}
  BY OpenedFacts
<1>2. Made(u) /\ u.reads = t.reads \cup {entry} /\ u.puts = t.puts /\ u.clears = t.clears
      /\ u.adds = t.adds
  BY <1>1, ReadsIs DEF PresenceReads
<1>0. one = {entry} /\ delta = -1
  OBVIOUS
<1> HIDE DEF u, entry, one, delta
<1>3. /\ Made(v) /\ v.reads = u.reads /\ v.clears = u.clears \cup one
      /\ DOMAIN v.puts = DOMAIN u.puts \ one
      /\ \A x \in DOMAIN u.puts \ one : v.puts[x] = u.puts[x]
      /\ DOMAIN v.adds = DOMAIN u.adds \ one
  BY <1>2, ClearIs
<1> HIDE DEF v
<1>4. /\ Made(w) /\ w.reads = v.reads /\ w.puts = v.puts /\ w.clears = v.clears
      /\ DOMAIN w.adds = DOMAIN v.adds \cup {SizeKey(p)} /\ w.adds[SizeKey(p)] = delta
  BY <1>3, AddIs
<1> HIDE DEF w
<1>5. CASE entry \in DOMAIN db
  <2>1. Counted(w, db, p)
    <3>1. \A j \in StoreKey \ {k} : EntryKey(p, j) \notin Written(w)
      BY <1>0, <1>1, <1>2, <1>3, <1>4 DEF Written
    <3>2. Left(w, db, p, k) /\ entry \in w.reads
      BY <1>0, <1>1, <1>2, <1>3, <1>4, <1>5 DEF Written, Left, entry
    <3> QED BY <3>1, <3>2 DEF Counted, entry
  <2>2. Storing(w, t, db, p)
    <3>1. t.puts = u.puts /\ DOMAIN w.puts = DOMAIN t.puts
          /\ \A x \in DOMAIN t.puts : w.puts[x] = t.puts[x]
      <4>1. t.puts = u.puts /\ w.puts = v.puts
        BY <1>2, <1>4
      <4>2. DOMAIN t.puts \ one = DOMAIN t.puts
        BY <1>0, <1>1
      <4>3. DOMAIN u.puts \ one = DOMAIN u.puts
        BY <4>1, <4>2
      <4> QED BY <1>3, <4>1, <4>3
    <3> QED BY <1>0, <1>1, <1>2, <1>3, <1>4, <2>1, <3>1 DEF Storing, Apart
  <2> QED BY <1>0, <1>1, <1>5, <2>2 DEF u, v, w, entry, one, delta
<1>6. CASE entry \notin DOMAIN db
  <2>1. Counted(u, db, p)
    BY <1>1, <1>2 DEF Counted, Written
  <2>2. Storing(u, t, db, p)
    BY <1>1, <1>2, <2>1 DEF Storing, Apart
  <2> QED BY <1>1, <1>6, <2>2 DEF u, v, w, entry
<1> QED BY <1>5, <1>6

LEMMA ClearStores ==
  ASSUME NEW t, NEW db, NEW busy, Opened(t, db, busy), NEW p
  PROVE  Storing(Put(Clear(t, {EntryKey(p, k) : k \in StoreKey}), SizeKey(p), 0), t, db, p)
<1> DEFINE entries == {EntryKey(p, k) : k \in StoreKey}
           v == Clear(t, entries)
           u == Put(v, SizeKey(p), 0)
<1>1. /\ Made(t) /\ t.clears = {} /\ DOMAIN t.adds = {}
      /\ DirectoryRange(p) \cap DOMAIN t.puts = {}
      /\ SizeKey(p) \in DirectoryRange(p)
      /\ entries \subseteq DirectoryRange(p) \ {SizeKey(p)}
  BY OpenedFacts
<1>2. \A k \in StoreKey : EntryKey(p, k) \in entries
  OBVIOUS
<1> HIDE DEF entries
<1>3. /\ Made(v) /\ v.reads = t.reads /\ v.clears = t.clears \cup entries
      /\ DOMAIN v.puts = DOMAIN t.puts \ entries
      /\ \A x \in DOMAIN t.puts \ entries : v.puts[x] = t.puts[x]
      /\ DOMAIN v.adds = DOMAIN t.adds \ entries
  <2>1. Made(t)
    BY <1>1
  <2> QED BY <2>1, ClearIs
<1> HIDE DEF v
<1>4. /\ u.reads = v.reads /\ u.adds = v.adds /\ u.clears = v.clears \ {SizeKey(p)}
      /\ DOMAIN u.puts = DOMAIN v.puts \cup {SizeKey(p)} /\ u.puts[SizeKey(p)] = 0
      /\ \A x \in DOMAIN v.puts : x # SizeKey(p) => u.puts[x] = v.puts[x]
  BY <1>3, PutIs
<1> HIDE DEF u
<1>5. /\ u.reads = t.reads /\ DOMAIN u.adds = {} /\ u.clears = entries
      /\ DOMAIN u.puts = DOMAIN t.puts \cup {SizeKey(p)} /\ u.puts[SizeKey(p)] = 0
      /\ \A x \in DOMAIN t.puts : u.puts[x] = t.puts[x]
  BY <1>1, <1>3, <1>4
<1>6. Counted(u, db, p)
  BY <1>2, <1>5 DEF Counted, entries
<1>7. Storing(u, t, db, p)
  BY <1>1, <1>5, <1>6 DEF Storing, Apart
<1> QED BY <1>7 DEF u, v, entries

-----------------------------------------------------------------------------
(* Removing a directory                                                     *)

\* Before an operation removes or moves: it has put versions of layers only.
Prepared(t, db) ==
  Building(t, db, {}) /\ \A key \in DOMAIN t.puts : key[1] = "version"

\* What an operation that did not fail makes of a transaction.
Ended(t, db) ==
  t.ok => Sound(t, db) /\ Hangs(t, db) /\ \A key \in DOMAIN t.puts : key[1] \notin {"taken", "layer"}

LEMMA PreparedEnds ==
  ASSUME NEW t, NEW db, Prepared(t, db)
  PROVE  Ended(t, db)
BY BuildingSound DEF Prepared, Ended

LEMMA FailEnds ==
  ASSUME NEW t, NEW db, Prepared(t, db)
  PROVE  Ended(Fail(t), db)
BY FailBuilds DEF Prepared, Ended

\* Such a transaction sees the rows of the database.
LEMMA PreparedView ==
  ASSUME NEW t, NEW db, Prepared(t, db), Linked(db)
  PROVE  /\ Made(t) /\ t.clears = {} /\ DOMAIN t.adds = {} /\ Linked(t.view)
         /\ \A key : key[1] # "version" => (key \in DOMAIN t.view <=> key \in DOMAIN db)
         /\ \A key \in DOMAIN db : key[1] # "version" => t.view[key] = db[key]
<1>1. Building(t, db, {}) /\ \A key \in DOMAIN t.puts : key[1] = "version"
  BY DEF Prepared
<1>2. Linked(t.view)
  BY <1>1, BuildingView
<1>3. Made(t) /\ t.clears = {} /\ t.adds = <<>> /\ Overlaid(t, db)
  BY <1>1 DEF Building
<1> QED BY <1>1, <1>2, <1>3 DEF Overlaid

Rereads(v, db) ==
  \A keys : LET u == Reads(v, keys)
            IN /\ Prepared(u, db) /\ u.view = v.view /\ u.reads = v.reads \cup keys
               /\ \A M : Within(v, db, M) => Within(u, db, M)

LEMMA PreparedWalk ==
  ASSUME NEW t, NEW db, Prepared(t, db), NEW L, Within(t, db, L)
  PROVE  LET v == CheckVersion(t, L, TRUE)
         IN Prepared(v, db) /\ Within(v, db, L) /\ Rereads(v, db)
<1> DEFINE yes == TRUE
           v == CheckVersion(t, L, yes)
<1>0. v = CheckVersion(t, L, TRUE)
  OBVIOUS
<1> HIDE DEF yes
<1>1. /\ Building(v, db, {}) /\ DOMAIN v.puts \subseteq DOMAIN t.puts \cup {VersionKey(L)}
      /\ Grows(t, v)
  BY CheckVersionBuilds DEF Prepared
<1> HIDE DEF v
<1>5. Within(v, db, L)
  <2>1. t.clears = {} /\ v.clears = {}
    BY <1>1 DEF Prepared, Building
  <2> QED BY <1>1, <2>1, GrowsTogether
<1>2. Prepared(v, db)
  BY <1>1, Keys DEF Prepared
<1>3. ASSUME NEW keys
      PROVE  LET u == Reads(v, keys)
             IN /\ Prepared(u, db) /\ u.view = v.view /\ u.reads = v.reads \cup keys
                /\ \A M : Within(v, db, M) => Within(u, db, M)
  <2> DEFINE u == Reads(v, keys)
  <2>1. /\ Building(u, db, {}) /\ u.view = v.view /\ u.puts = v.puts
        /\ u.reads = v.reads \cup keys /\ Grows(v, u)
    BY <1>1, WalkBuilds
  <2> HIDE DEF u
  <2>2. Prepared(u, db)
    BY <1>2, <2>1 DEF Prepared
  <2>3. \A M : Within(v, db, M) => Within(u, db, M)
    <3>1. u.clears = {} /\ v.clears = {}
      BY <1>1, <2>1 DEF Building
    <3> QED BY <2>1, <3>1, GrowsTogether
  <2> QED BY <2>1, <2>2, <2>3 DEF u
<1>4. Rereads(v, db)
  BY <1>3 DEF Rereads
<1> QED BY <1>0, <1>2, <1>4, <1>5

\* What an operation finds in a partition, it does in the nested layer.
LEMMA PartitionWithin ==
  ASSUME NEW u, NEW db, Prepared(u, db), Linked(db), NEW L, L = <<>>,
         NEW path \in Seq(Name), Len(path) \in 1 .. 2,
         FindNode(u.view, L, path).node # None,
         InPartition(FindNode(u.view, L, path), path),
         FindNode(u.view, L, path).reads \subseteq u.reads
  PROVE  Within(u, db, FindNode(u.view, L, path).node)
<1> DEFINE found == FindNode(u.view, L, path)
           key == LayerKey(L, found.node)
<1>1. L \in Layers
  BY PrefixFacts
<1>2. /\ u.clears = {} /\ Linked(u.view)
      /\ \A k : k[1] # "version" => (k \in DOMAIN u.view <=> k \in DOMAIN db)
      /\ \A k \in DOMAIN db : k[1] # "version" => u.view[k] = db[k]
  BY PreparedView
<1>3. key \in found.reads \cap DOMAIN u.view /\ u.view[key] = found.tag
  BY <1>1, <1>2, FoundFacts
<1>4. found.tag = "partition" /\ key[1] = "layer"
  BY Keys DEF InPartition
<1> HIDE DEF key
<1>5. key \in DOMAIN db /\ db[key] = "partition"
  BY <1>2, <1>3, <1>4
<1>6. key = LayerKey(<<>>, found.node)
  BY DEF key
<1> HIDE DEF found
<1>7. Within(u, db, found.node)
  BY <1>2, <1>3, <1>5, <1>6 DEF Within, found
<1> QED BY <1>7 DEF found

\* Unlinking a node from its parent.
LEMMA RemoveFromParentIs ==
  ASSUME NEW t, Made(t), NEW L, NEW path,
         FindNode(t.view, L, Front(path)).node # None
  PROVE  LET w == RemoveFromParent(t, L, path)
             link == LastLink(t.view, L, path)
         IN /\ t.reads \subseteq w.reads /\ w.ok = t.ok /\ w.clears = t.clears \cup {link}
            /\ DOMAIN w.puts = DOMAIN t.puts \ {link}
            /\ \A k \in DOMAIN t.puts \ {link} : w.puts[k] = t.puts[k]
            /\ DOMAIN w.adds = DOMAIN t.adds \ {link}
<1> DEFINE parent == FindNode(t.view, L, Front(path))
           keys == parent.reads
           link == LastLink(t.view, L, path)
           one == {link}
           u == Reads(t, keys)
           w == RemoveFromParent(t, L, path)
<1>1. w = Clear(u, one)
  BY DEF RemoveFromParent, LastLink
<1> HIDE DEF keys, one, w
<1>2. /\ Made(u) /\ u.reads = t.reads \cup keys /\ u.puts = t.puts
      /\ u.clears = t.clears /\ u.adds = t.adds /\ u.ok = t.ok
  BY ReadsIs
<1> HIDE DEF u
<1>3. /\ w.reads = u.reads /\ w.ok = u.ok /\ w.clears = u.clears \cup one
      /\ DOMAIN w.puts = DOMAIN u.puts \ one
      /\ \A k \in DOMAIN u.puts \ one : w.puts[k] = u.puts[k]
      /\ DOMAIN w.adds = DOMAIN u.adds \ one
  BY <1>1, <1>2, ClearIs
<1>4. /\ t.reads \subseteq w.reads /\ w.ok = t.ok /\ w.clears = t.clears \cup one
      /\ DOMAIN w.puts = DOMAIN t.puts \ one
      /\ \A k \in DOMAIN t.puts \ one : w.puts[k] = t.puts[k]
      /\ DOMAIN w.adds = DOMAIN t.adds \ one
  BY <1>2, <1>3
<1> QED BY <1>4 DEF w, one

\* The rows of the nodes removed, and their content.
LEMMA RemovedKeys ==
  ASSUME NEW L \in Layers, NEW nodes \in SUBSET PrefixesOf(L), NEW top
  PROVE  LET keys == (UNION {NodeRange(L, q) : q \in nodes}) \cup RemovedContent(L, nodes, top)
         IN /\ \A q \in nodes : NodeRange(L, q) \cup ContentRange[q] \subseteq keys
            /\ \A name : ChildKey(L, RootNode(L), name) \notin keys
            /\ \A p \in AnyPrefix : DirectoryRange(p) \cap keys # {} => DirectoryRange(p) \subseteq keys
            /\ \A M \in Layers : \A p \in PrefixesOf(M) : LayerKey(M, p) \in keys =>
                 /\ DirectoryRange(p) \subseteq keys
                 /\ ((M = L /\ p \in nodes) \/ LayerRange[M] \subseteq keys)
            /\ \A M \in Layers : \A k \in LinkKeys(M) \cap keys :
                 (M = L /\ \E q \in nodes : k \in ChildRange(L, q)) \/ LayerRange[M] \subseteq keys
            /\ \A M \in RootPrefix : LayerKey(<<>>, M) \in keys => LayerRange[M] \subseteq keys
<1> DEFINE keys == (UNION {NodeRange(L, q) : q \in nodes}) \cup RemovedContent(L, nodes, top)
<1>1. \A key : key \in keys <=> \E q \in nodes : key \in NodeRange(L, q) \cup ContentRange[q]
  BY DEF RemovedContent
<1> HIDE DEF keys
<1>2. \A q \in nodes : q \in AnyPrefix /\ q \in PrefixesOf(L) /\ q # RootNode(L)
  BY PrefixFacts
<1>3. \A q \in nodes : ~(L \in RootPrefix /\ IsPrefix(q, L))
  <2>1. SUFFICES ASSUME NEW q \in nodes, L \in RootPrefix PROVE ~IsPrefix(q, L)
    OBVIOUS
  <2>2. PICK n \in 1 .. MaxNumber : q = Append(L, n)
    BY <1>2, <2>1, PrefixFacts DEF Allocatable
  <2>3. L \in Seq(Nat) /\ n \in Nat
    BY PrefixFacts, DirectoryAssumption
  <2> QED BY <2>2, <2>3, PrefixOrder
<1>4. \A name : ChildKey(L, RootNode(L), name) \notin keys
  <2>1. SUFFICES ASSUME NEW name, NEW q \in nodes,
                        ChildKey(L, RootNode(L), name) \in NodeRange(L, q) \cup ContentRange[q]
                 PROVE  FALSE
    BY <1>1
  <2> DEFINE key == ChildKey(L, RootNode(L), name)
  <2>2. key[1] = "child" /\ key[2] = L /\ key[3] = RootNode(L)
    BY Keys
  <2>3. key \notin NodeRange(L, q)
    BY <1>2, <2>2, Keys DEF NodeRange, ChildRange
  <2>4. key \notin ContentRange[q]
    BY <1>2, <1>3, <2>2, ContentFacts
  <2> QED BY <2>1, <2>3, <2>4
<1>5. ASSUME NEW p \in AnyPrefix, DirectoryRange(p) \cap keys # {}
      PROVE  DirectoryRange(p) \subseteq keys
  <2>1. PICK key \in DirectoryRange(p), q \in nodes : key \in NodeRange(L, q) \cup ContentRange[q]
    BY <1>1, <1>5
  <2>2. key[1] \in {"entry", "size"}
    BY Ranges
  <2>3. key \notin NodeRange(L, q)
    BY <2>2, Keys DEF NodeRange, ChildRange
  <2>4. IsPrefix(q, p)
    BY <1>2, <2>1, <2>3, ContentFacts
  <2> QED BY <1>1, <1>2, <2>4, ContentFacts
<1>6. ASSUME NEW M \in Layers, NEW p \in PrefixesOf(M), LayerKey(M, p) \in keys
      PROVE  /\ DirectoryRange(p) \subseteq keys
             /\ ((M = L /\ p \in nodes) \/ LayerRange[M] \subseteq keys)
  <2>1. PICK q \in nodes : LayerKey(M, p) \in NodeRange(L, q) \cup ContentRange[q]
    BY <1>1, <1>6
  <2>2. p \in AnyPrefix /\ p \in Seq(Nat) /\ q \in Seq(Nat)
    BY <1>2, PrefixFacts
  <2>3. CASE LayerKey(M, p) \in NodeRange(L, q)
    <3>1. M = L /\ p = q
      BY <2>3, Keys DEF NodeRange, ChildRange
    <3>2. DirectoryRange(p) \subseteq ContentRange[q]
      BY <1>2, <2>2, <3>1, PrefixOrder, ContentFacts
    <3> QED BY <1>1, <3>1, <3>2
  <2>4. CASE LayerKey(M, p) \in ContentRange[q]
    <3>1. M \in RootPrefix /\ IsPrefix(q, M)
      BY <1>2, <2>4, Keys, ContentFacts
    <3>2. LayerRange[M] \subseteq ContentRange[q]
      BY <1>2, <3>1, ContentFacts
    <3>3. PICK n \in 1 .. MaxNumber : p = Append(M, n)
      BY <3>1, PrefixFacts DEF Allocatable
    <3>4. M \in Seq(Nat) /\ n \in Nat
      BY PrefixFacts, DirectoryAssumption
    <3>5. IsPrefix(q, p)
      BY <2>2, <3>1, <3>3, <3>4, PrefixOrder
    <3>6. DirectoryRange(p) \subseteq ContentRange[q]
      BY <1>2, <2>2, <3>5, ContentFacts
    <3> QED BY <1>1, <3>2, <3>6
  <2> QED BY <2>1, <2>3, <2>4
<1>7. \A q \in nodes : NodeRange(L, q) \cup ContentRange[q] \subseteq keys
  BY <1>1
<1>8. ASSUME NEW M \in Layers, NEW k \in LinkKeys(M) \cap keys
      PROVE  (M = L /\ \E q \in nodes : k \in ChildRange(L, q)) \/ LayerRange[M] \subseteq keys
  <2>1. PICK q \in nodes : k \in NodeRange(L, q) \cup ContentRange[q]
    BY <1>1
  <2>2. k[1] = "child" /\ k[2] = M
    BY Ranges
  <2>3. CASE k \in NodeRange(L, q)
    <3>1. k \in ChildRange(L, q)
      BY <2>2, <2>3, Keys DEF NodeRange
    <3>2. k[2] = L
      BY <3>1, Keys DEF ChildRange
    <3> QED BY <2>2, <3>1, <3>2
  <2>4. CASE k \in ContentRange[q]
    <3>1. M \in RootPrefix /\ IsPrefix(q, M)
      BY <1>2, <2>2, <2>4, ContentFacts
    <3>2. LayerRange[M] \subseteq ContentRange[q]
      BY <1>2, <3>1, ContentFacts
    <3> QED BY <1>1, <3>2
  <2> QED BY <2>1, <2>3, <2>4
<1>9. ASSUME NEW M \in RootPrefix, LayerKey(<<>>, M) \in keys PROVE LayerRange[M] \subseteq keys
  <2>1. PICK q \in nodes : LayerKey(<<>>, M) \in NodeRange(L, q) \cup ContentRange[q]
    BY <1>1, <1>9
  <2>2. LayerKey(<<>>, M) \notin ContentRange[q]
    <3> DEFINE key == LayerKey(<<>>, M)
    <3>1. key[1] = "layer" /\ key[2] = <<>>
      BY Keys
    <3> HIDE DEF key
    <3>2. key[2] \notin RootPrefix
      BY <3>1, PrefixFacts
    <3>3. key \notin ContentRange[q]
      BY <1>2, <3>1, <3>2, ContentFacts
    <3> QED BY <3>3 DEF key
  <2>3. M = q
    BY <2>1, <2>2, Keys DEF NodeRange, ChildRange
  <2>4. M \in Seq(Nat)
    BY PrefixFacts
  <2>5. LayerRange[M] \subseteq ContentRange[q]
    BY <1>2, <2>3, <2>4, PrefixOrder, ContentFacts
  <2> QED BY <1>1, <2>5
<1> QED BY <1>4, <1>5, <1>6, <1>7, <1>8, <1>9 DEF keys

\* Removing a node with its children, and unlinking it.
RemovedNode(u, L, path) ==
  LET top == FindNode(u.view, L, path).node
      nodes == RemoveRecursive(u.view, L, top)
  IN RemoveFromParent(
       Clear(Reads(u, UNION {ChildRange(L, q) : q \in nodes}),
             (UNION {NodeRange(L, q) : q \in nodes}) \cup RemovedContent(L, nodes, top)),
       L, path)

LEMMA RemovedNodeEnds ==
  ASSUME NEW u, NEW db, Prepared(u, db), Linked(db), NEW L \in Layers,
         NEW path \in Seq(Name), Len(path) \in 1 .. 2,
         FindNode(u.view, L, path).node # None,
         ~InPartition(FindNode(u.view, L, path), path),
         FindNode(u.view, L, path).reads \subseteq u.reads
  PROVE  Ended(RemovedNode(u, L, path), db)
<1> DEFINE found == FindNode(u.view, L, path)
           top == found.node
           nodes == RemoveRecursive(u.view, L, top)
           children == UNION {ChildRange(L, q) : q \in nodes}
           keys == (UNION {NodeRange(L, q) : q \in nodes}) \cup RemovedContent(L, nodes, top)
           link == LastLink(u.view, L, path)
           v == Reads(u, children)
           cleared == Clear(v, keys)
           w == RemoveFromParent(cleared, L, path)
<1>1. w = RemovedNode(u, L, path)
  BY DEF RemovedNode
<1>2. /\ Made(u) /\ u.clears = {} /\ DOMAIN u.adds = {} /\ Linked(u.view)
      /\ \A key : key[1] # "version" => (key \in DOMAIN u.view <=> key \in DOMAIN db)
      /\ \A key \in DOMAIN db : key[1] # "version" => u.view[key] = db[key]
  BY PreparedView
<1>3. /\ top \in PrefixesOf(L) /\ FindNode(u.view, L, Front(path)).node # None
      /\ link \in LinkKeys(L) \cap DOMAIN u.view \cap found.reads /\ u.view[link] = top
  BY <1>2, FoundFacts
<1>4. /\ top \in nodes /\ nodes \subseteq PrefixesOf(L)
      /\ \A q \in nodes : q = top \/
           \E r \in nodes : \E k \in ChildRange(L, r) \cap DOMAIN u.view : u.view[k] = q
      /\ \A q \in nodes : \A k \in ChildRange(L, q) \cap DOMAIN u.view : u.view[k] \in nodes
  <2> HIDE DEF found, top, nodes
  <2>1. \A k \in LinkKeys(L) \cap DOMAIN u.view : u.view[k] \in PrefixesOf(L)
    BY <1>2 DEF Linked
  <2> QED BY <1>3, <2>1, NodesWalked DEF nodes
<1>5. \A r \in nodes : ChildRange(L, r) \subseteq children
  OBVIOUS
<1> HIDE DEF nodes, children
<1>6. /\ \A q \in nodes : NodeRange(L, q) \cup ContentRange[q] \subseteq keys
      /\ \A name : ChildKey(L, RootNode(L), name) \notin keys
      /\ \A p \in AnyPrefix : DirectoryRange(p) \cap keys # {} => DirectoryRange(p) \subseteq keys
      /\ \A M \in Layers : \A p \in PrefixesOf(M) : LayerKey(M, p) \in keys =>
           /\ DirectoryRange(p) \subseteq keys
           /\ ((M = L /\ p \in nodes) \/ LayerRange[M] \subseteq keys)
      /\ \A M \in Layers : \A k \in LinkKeys(M) \cap keys :
           (M = L /\ \E q \in nodes : k \in ChildRange(L, q)) \/ LayerRange[M] \subseteq keys
      /\ \A M \in RootPrefix : LayerKey(<<>>, M) \in keys => LayerRange[M] \subseteq keys
  <2> HIDE DEF top
  <2> QED BY <1>4, RemovedKeys
<1> HIDE DEF keys
<1>7. /\ Made(v) /\ v.reads = u.reads \cup children /\ v.view = u.view /\ v.puts = u.puts
      /\ v.clears = u.clears /\ v.adds = u.adds /\ v.ok = u.ok
  BY <1>2, ReadsIs
<1> HIDE DEF v
<1>8. /\ Made(cleared) /\ cleared.reads = v.reads /\ cleared.ok = v.ok
      /\ cleared.clears = v.clears \cup keys
      /\ DOMAIN cleared.view = DOMAIN v.view \ keys
      /\ \A k \in DOMAIN v.view \ keys : cleared.view[k] = v.view[k]
      /\ DOMAIN cleared.puts = DOMAIN v.puts \ keys
      /\ DOMAIN cleared.adds = DOMAIN v.adds \ keys
  BY <1>7, ClearIs
<1> HIDE DEF cleared
<1>9. LastLink(cleared.view, L, path) = link
      /\ FindNode(cleared.view, L, Front(path)).node # None
  <2> DEFINE k == ChildKey(L, RootNode(L), path[1])
  <2>1. k \notin keys
    BY <1>6
  <2> HIDE DEF k
  <2>2. (k \in DOMAIN u.view <=> k \in DOMAIN cleared.view)
        /\ (k \in DOMAIN u.view => u.view[k] = cleared.view[k])
    BY <1>7, <1>8, <2>1
  <2>3. FindNode(cleared.view, L, Front(path)).node = FindNode(u.view, L, Front(path)).node
    BY <2>2, SameParent DEF k
  <2> QED BY <1>3, <2>3 DEF LastLink
<1> HIDE DEF link
<1>10. /\ cleared.reads \subseteq w.reads /\ w.ok = cleared.ok /\ w.clears = cleared.clears \cup {link}
       /\ DOMAIN w.puts = DOMAIN cleared.puts \ {link}
       /\ DOMAIN w.adds = DOMAIN cleared.adds \ {link}
  BY <1>8, <1>9, RemoveFromParentIs
<1> HIDE DEF w, found, top
<1>11. /\ u.reads \cup children \subseteq w.reads /\ w.clears = keys \cup {link}
       /\ DOMAIN w.puts = DOMAIN u.puts \ (keys \cup {link}) /\ DOMAIN w.adds = {}
  BY <1>2, <1>7, <1>8, <1>10
<1>12. /\ link[1] = "child" /\ link \in LinkKeys(L) \cap u.reads \cap DOMAIN db /\ db[link] = top
  BY <1>2, <1>3, Ranges DEF found
<1>13. \A k \in DOMAIN w.puts : k[1] = "version"
  BY <1>11 DEF Prepared
<1>14. Apart(w) /\ \A key \in DOMAIN w.adds : key[1] = "size"
  BY <1>11 DEF Apart
<1>15. Creates(w, db) /\ Attaches(w, db)
  <2>1. \A N, q : LayerKey(N, q) \notin DOMAIN w.puts
    BY <1>13, Keys
  <2>2. \A N : LinkKeys(N) \cap DOMAIN w.puts = {}
    BY <1>13, Ranges
  <2> QED BY <2>1, <2>2 DEF Creates, Attaches
<1>16. ASSUME NEW q \in nodes PROVE Detaches(w, db, L, q)
  <2>1. CASE q = top
    BY <1>11, <1>12, <2>1 DEF Detaches
  <2>2. CASE q # top
    <3>1. PICK r \in nodes : \E k \in ChildRange(L, r) \cap DOMAIN u.view : u.view[k] = q
      BY <1>4, <2>2
    <3>2. PICK k \in ChildRange(L, r) \cap DOMAIN u.view : u.view[k] = q
      BY <3>1
    <3>3. r \in PrefixesOf(L)
      BY <1>4
    <3>4. k \in LinkKeys(L) /\ k[1] = "child"
      <4>1. k \in LinkKeys(L)
        BY <3>3 DEF LinkKeys
      <4> QED BY <4>1, Ranges
    <3>5. k \in children /\ k \in keys
      BY <1>5, <1>6 DEF NodeRange
    <3>6. k \in DOMAIN db /\ db[k] = q
      BY <1>2, <3>2, <3>4
    <3> QED BY <1>11, <3>4, <3>5, <3>6 DEF Detaches
  <2> QED BY <2>1, <2>2
<1>17. Removes(w, db)
  <2>1. SUFFICES ASSUME NEW M \in Layers, NEW p \in PrefixesOf(M), LayerKey(M, p) \in w.clears
                 PROVE  /\ DirectoryRange(p) \subseteq w.clears
                        /\ LinkKeys(M) \subseteq w.clears \/ Detaches(w, db, M, p)
    BY DEF Removes
  <2>2. LayerKey(M, p) \in keys
    BY <1>11, <1>12, <2>1, Keys
  <2>3. LinkKeys(M) \subseteq LayerRange[M]
    BY LayerRangeKeys
  <2> QED BY <1>6, <1>11, <1>16, <2>2, <2>3
<1>18. \A p \in AnyPrefix : DirectoryRange(p) \cap (DOMAIN w.puts \cup DOMAIN w.adds) = {}
  BY <1>11, <1>13, Ranges
<1>19. Stores(w, db)
  BY <1>18 DEF Stores
<1>20. \A p \in AnyPrefix : Counted(w, db, p)
  <2>1. SUFFICES ASSUME NEW p \in AnyPrefix, DirectoryRange(p) \cap Written(w) # {}
                 PROVE  DirectoryRange(p) \subseteq w.clears
    BY DEF Counted
  <2>2. link \notin DirectoryRange(p)
    BY <1>12, Ranges
  <2>3. DirectoryRange(p) \cap keys # {}
    BY <1>11, <1>18, <2>1, <2>2 DEF Written
  <2> QED BY <1>6, <1>11, <2>3
<1>21. Sound(w, db)
  BY <1>14, <1>15, <1>17, <1>19, <1>20 DEF Sound
<1>22. Nests(w, db)
  <2>1. SUFFICES ASSUME NEW M \in RootPrefix, NEW k \in LayerRange[M] \cap DOMAIN w.puts
                 PROVE  Within(w, db, M)
    BY DEF Nests, Within
  <2>2. Within(u, db, M)
    BY <1>11, PrefixFacts DEF Prepared, Building, Nests
  <2>3. LayerKey(<<>>, M) \notin keys
    BY <1>6, <1>11
  <2>4. LayerKey(<<>>, M) # link
    BY <1>12, Keys
  <2> QED BY <1>11, <2>2, <2>3, <2>4 DEF Within
<1>23. Grafts(w, db)
  BY <1>13, Keys DEF Grafts, ChildRange
<1>24. ASSUME NEW q \in nodes
       PROVE  /\ ChildRange(L, q) \subseteq w.reads \cap w.clears
              /\ \A k \in ChildRange(L, q) \cap DOMAIN db : LayerKey(L, db[k]) \in w.clears
  <2>1. ChildRange(L, q) \subseteq w.reads \cap w.clears
    BY <1>5, <1>6, <1>11 DEF NodeRange
  <2>2. ASSUME NEW k \in ChildRange(L, q) \cap DOMAIN db PROVE LayerKey(L, db[k]) \in w.clears
    <3>1. k[1] = "child"
      BY Keys DEF ChildRange
    <3>2. db[k] \in nodes
      BY <1>2, <1>4, <3>1
    <3>3. LayerKey(L, db[k]) \in NodeRange(L, db[k])
      BY DEF NodeRange
    <3> QED BY <1>6, <1>11, <3>2, <3>3
  <2> QED BY <2>1, <2>2
<1>25. ASSUME NEW k \in LinkKeys(L), k = link \/ \E q \in nodes : k \in ChildRange(L, q)
       PROVE  Released(w, db, L, k)
  <2>1. CASE k = link
    <3>1. LayerKey(L, top) \in NodeRange(L, top)
      BY DEF NodeRange
    <3> QED BY <1>4, <1>6, <1>11, <1>12, <2>1, <3>1 DEF Released
  <2>2. CASE \E q \in nodes : k \in ChildRange(L, q)
    BY <1>24, <2>2 DEF Released
  <2> QED BY <1>25, <2>1, <2>2
<1>26. Uproots(w, db)
  <2>1. ASSUME NEW M \in Layers, ~(LayerRange[M] \subseteq w.clears)
        PROVE  /\ \A k \in LinkKeys(M) \cap w.clears : Released(w, db, M, k)
               /\ \A p \in PrefixesOf(M) : LayerKey(M, p) \in w.clears =>
                    /\ ChildRange(M, p) \subseteq w.reads \cap w.clears
                    /\ \A k \in ChildRange(M, p) \cap DOMAIN db :
                         LayerKey(M, db[k]) \in w.clears
    <3>1. ~(LayerRange[M] \subseteq keys)
      BY <1>11, <2>1
    <3>2. ASSUME NEW k \in LinkKeys(M) \cap w.clears PROVE Released(w, db, M, k)
      <4>1. M = L /\ (k = link \/ \E q \in nodes : k \in ChildRange(L, q))
        <5>1. k[2] = M /\ link[2] = L
          BY <1>12, Ranges
        <5> QED BY <1>6, <1>11, <3>1, <5>1
      <4> QED BY <1>25, <4>1
    <3>3. ASSUME NEW p \in PrefixesOf(M), LayerKey(M, p) \in w.clears
          PROVE  M = L /\ p \in nodes
      <4>1. LayerKey(M, p) \in keys
        BY <1>11, <1>12, <3>3, Keys
      <4> QED BY <1>6, <3>1, <4>1
    <3> QED BY <1>24, <3>2, <3>3
  <2>2. ASSUME NEW M \in RootPrefix, LayerKey(<<>>, M) \in w.clears
        PROVE  LayerRange[M] \subseteq w.clears
    BY <1>6, <1>11, <1>12, <2>2, Keys
  <2> QED BY <2>1, <2>2 DEF Uproots
<1>27. Ended(w, db)
  BY <1>13, <1>21, <1>22, <1>23, <1>26 DEF Ended, Hangs
<1> QED BY <1>1, <1>27

-----------------------------------------------------------------------------
(* Moving a directory                                                       *)

MovedNode(u, L, old, new) ==
  LET link == ChildKey(L, FindNode(u.view, L, Front(new)).node, Last(new))
  IN RemoveFromParent(Put(u, link, FindNode(u.view, L, old).node), L, old)

LEMMA MovedNodeEnds ==
  ASSUME NEW u, NEW db, Prepared(u, db), Linked(db), NEW L \in Layers,
         NEW old \in Seq(Name), Len(old) \in 1 .. 2, NEW new \in Seq(Name), Len(new) \in 1 .. 2,
         FindNode(u.view, L, old).node # None,
         ~InPartition(FindNode(u.view, L, old), old),
         FindNode(u.view, L, old).reads \subseteq u.reads,
         FindNode(u.view, L, new).node = None,
         FindNode(u.view, L, Front(new)).node # None,
         FindNode(u.view, L, new).reads \subseteq u.reads,
         ~IsPrefix(old, new), Within(u, db, L)
  PROVE  Ended(MovedNode(u, L, old, new), db)
<1> DEFINE from == FindNode(u.view, L, old)
           p == from.node
           link == LastLink(u.view, L, new)
           gone == LastLink(u.view, L, old)
           P == FindNode(u.view, L, Front(new)).node
           v == Put(u, link, p)
           w == RemoveFromParent(v, L, old)
<1>1. w = MovedNode(u, L, old, new)
  BY DEF MovedNode, LastLink
<1>2. /\ Made(u) /\ u.clears = {} /\ DOMAIN u.adds = {} /\ Linked(u.view)
      /\ \A key : key[1] # "version" => (key \in DOMAIN u.view <=> key \in DOMAIN db)
      /\ \A key \in DOMAIN db : key[1] # "version" => u.view[key] = db[key]
  BY PreparedView
<1>3. /\ p \in PrefixesOf(L) /\ FindNode(u.view, L, Front(old)).node # None
      /\ LayerKey(L, p) \in from.reads \cap DOMAIN u.view
      /\ gone \in LinkKeys(L) \cap DOMAIN u.view \cap from.reads /\ u.view[gone] = p
  BY <1>2, FoundFacts
<1>4. /\ link \in LinkKeys(L) \ DOMAIN u.view
      /\ P \in PrefixesOf(L) \cup {RootNode(L)} /\ link \in ChildRange(L, P) /\ link \in u.reads
      /\ Rooting(u.view, L, new, P, u.reads)
  <2> DEFINE to == FindNode(u.view, L, new)
  <2>1. /\ link \in LinkKeys(L) /\ link \in to.reads \ DOMAIN u.view
        /\ P \in PrefixesOf(L) \cup {RootNode(L)} /\ link \in ChildRange(L, P)
        /\ Rooting(u.view, L, new, P, to.reads)
    BY <1>2, MissingLink
  <2> HIDE DEF link, P
  <2>2. Rooting(u.view, L, new, P, u.reads)
    BY <2>1 DEF Rooting
  <2> QED BY <2>1, <2>2
<1>22. ASSUME new[1] \in Name, ChildKey(L, RootNode(L), new[1]) = gone PROVE FALSE
  <2>1. FindNode(u.view, L, Front(old)).node = RootNode(L) /\ Last(old) = new[1]
    BY <1>22, Keys DEF LastLink
  <2>2. Len(old) = 1
    BY <1>2, <2>1, BelowRoot
  <2>3. old[1] = new[1]
    BY <2>1, <2>2, FrontIs
  <2>4. SubSeq(old, 1, Len(old)) = SubSeq(new, 1, Len(old)) /\ Len(old) <= Len(new)
    BY <2>2, <2>3
  <2> QED BY <2>4 DEF IsPrefix
<1> HIDE DEF link, from, p, P
<1>5. /\ Made(v) /\ v.reads = u.reads /\ v.adds = u.adds /\ v.clears = u.clears \ {link}
      /\ DOMAIN v.view = DOMAIN u.view \cup {link}
      /\ \A k \in DOMAIN u.view : k # link => v.view[k] = u.view[k]
      /\ DOMAIN v.puts = DOMAIN u.puts \cup {link} /\ v.puts[link] = p
      /\ \A k \in DOMAIN u.puts : k # link => v.puts[k] = u.puts[k]
      /\ v.ok = u.ok
  BY <1>2, PutIs
<1> HIDE DEF v
<1>6. LastLink(v.view, L, old) = gone /\ FindNode(v.view, L, Front(old)).node # None
  <2> DEFINE k == ChildKey(L, RootNode(L), old[1])
  <2>1. Len(old) = 2 => k \in DOMAIN u.view
    <3>1. SUFFICES ASSUME Len(old) = 2 PROVE k \in DOMAIN u.view
      OBVIOUS
    <3>2. /\ Len(Front(old)) = Len(old) - 1
          /\ Len(old) = 2 => Front(old)[1] = old[1]
      BY FrontIs
    <3>3. Len(Front(old)) = 1 /\ Front(old)[1] = old[1] /\ Len(Front(old)) \in 0 .. 2
      BY <3>1, <3>2
    <3>4. FindNode(u.view, L, Front(old)) = WalkName(u.view, L, WalkRoot(L), old[1])
      BY <3>3, FindNodeIs
    <3>5. WalkName(u.view, L, WalkRoot(L), old[1]).node # None
      BY <1>3, <3>4
    <3>6. WalkRoot(L).node = RootNode(L) /\ WalkRoot(L).tag # "partition"
          /\ WalkRoot(L).node # None
      BY PrefixFacts DEF WalkRoot
    <3> QED BY <3>5, <3>6, WalkNameIs
  <2> HIDE DEF k
  <2>2. Len(old) = 2 => /\ k \in DOMAIN u.view <=> k \in DOMAIN v.view
                        /\ k \in DOMAIN u.view => u.view[k] = v.view[k]
    BY <1>4, <1>5, <2>1
  <2>3. FindNode(v.view, L, Front(old)).node = FindNode(u.view, L, Front(old)).node
    BY <2>2, SameParent DEF k
  <2> QED BY <1>3, <2>3 DEF LastLink
<1> HIDE DEF gone
<1>7. /\ v.reads \subseteq w.reads /\ w.ok = v.ok /\ w.clears = v.clears \cup {gone}
      /\ DOMAIN w.puts = DOMAIN v.puts \ {gone}
      /\ \A k \in DOMAIN v.puts \ {gone} : w.puts[k] = v.puts[k]
      /\ DOMAIN w.adds = DOMAIN v.adds \ {gone}
  BY <1>5, <1>6, RemoveFromParentIs
<1> HIDE DEF w
<1>8. /\ u.reads \subseteq w.reads /\ w.clears = {gone} /\ DOMAIN w.adds = {}
      /\ DOMAIN w.puts = (DOMAIN u.puts \cup {link}) \ {gone}
      /\ link # gone /\ w.puts[link] = p
  BY <1>2, <1>3, <1>4, <1>5, <1>7
<1>9. /\ gone[1] = "child" /\ gone \in LinkKeys(L) \cap w.reads \cap DOMAIN db /\ db[gone] = p
      /\ link[1] = "child" /\ link[2] = L
  BY <1>2, <1>3, <1>4, <1>8, Ranges DEF from
<1>10. LayerKey(L, p) \in w.reads \cap DOMAIN db
  BY <1>2, <1>3, <1>8, Keys DEF from
<1>11. \A k \in DOMAIN w.puts : k[1] = "version" \/ k = link
  BY <1>8 DEF Prepared
<1>12. \A k : LayerKey(L, k) # gone
  BY <1>9, Keys
<1>13. Apart(w) /\ \A key \in DOMAIN w.adds : key[1] = "size"
  BY <1>8 DEF Apart
<1>14. Creates(w, db)
  <2>1. \A N, q : LayerKey(N, q) \notin DOMAIN w.puts
    BY <1>9, <1>11, Keys
  <2> QED BY <2>1 DEF Creates
<1>15. Moves(w, db, L, p)
  BY <1>8, <1>9, <1>10, <1>12 DEF Moves, Detaches
<1>16. Attaches(w, db)
  <2>1. \A N : \A k \in LinkKeys(N) \cap DOMAIN w.puts : k = link /\ N = L
    BY <1>9, <1>11, Ranges
  <2> QED BY <1>3, <1>8, <1>15, <2>1 DEF Attaches
<1>17. Removes(w, db)
  <2>1. \A N, q : LayerKey(N, q) \notin w.clears
    BY <1>8, <1>9, Keys
  <2> QED BY <2>1 DEF Removes
<1>18. \A q \in AnyPrefix : DirectoryRange(q) \cap Written(w) = {}
  BY <1>8, <1>9, <1>11, Ranges DEF Written
<1>19. Stores(w, db) /\ \A q \in AnyPrefix : Counted(w, db, q)
  BY <1>18 DEF Stores, Counted, Written
<1>20. \A k \in DOMAIN w.puts : k[1] \notin {"taken", "layer"}
  BY <1>9, <1>11
<1>21. Sound(w, db)
  BY <1>13, <1>14, <1>16, <1>17, <1>19 DEF Sound
<1>23. Nests(w, db)
  <2>1. SUFFICES ASSUME NEW M \in Layers, NEW k \in LayerRange[M] \cap DOMAIN w.puts
                 PROVE  Within(w, db, M)
    BY DEF Nests
  <2>2. Within(u, db, M)
    <3>1. CASE k = link
      <4>1. M = L
        BY <1>9, <3>1, LayerRangeKeys
      <4> QED BY <4>1
    <3>2. CASE k # link
      BY <1>8, <3>2 DEF Prepared, Building, Nests
    <3> QED BY <3>1, <3>2
  <2>3. LayerKey(<<>>, M) # gone
    BY <1>9, Keys
  <2> QED BY <1>8, <2>2, <2>3 DEF Within
<1>24. Hung(w, db, L, P)
  <2> DEFINE k == ChildKey(L, RootNode(L), new[1])
  <2>1. CASE P = RootNode(L)
    BY <2>1 DEF Hung
  <2>2. CASE k \in u.reads \cap DOMAIN u.view /\ u.view[k] = P
    <3>1. new[1] \in Name
      BY FrontIs
    <3>2. k \in ChildRange(L, RootNode(L)) /\ k[1] = "child"
      BY <3>1, Keys DEF ChildRange
    <3>3. k # gone
      BY <1>22, <3>1
    <3> HIDE DEF k
    <3>4. k \in (w.reads \cap DOMAIN db) \ w.clears /\ db[k] = P
      BY <1>2, <1>8, <2>2, <3>2, <3>3
    <3> QED BY <3>2, <3>4 DEF Hung
  <2> QED BY <1>4, <2>1, <2>2 DEF Rooting
<1>25. Grafts(w, db)
  <2>1. ASSUME NEW M \in Layers, NEW Q \in PrefixesOf(M) \cup {RootNode(M)},
               NEW k \in ChildRange(M, Q) \cap DOMAIN w.puts
        PROVE  Joins(w, db, M, Q, k)
    <3>1. k[1] = "child" /\ k[2] = M /\ k[3] = Q
      BY Keys DEF ChildRange
    <3>2. k = link
      BY <1>11, <3>1
    <3>3. link[3] = P
      BY <1>4, Keys DEF ChildRange
    <3>4. M = L /\ Q = P
      BY <1>9, <3>1, <3>2, <3>3
    <3>5. k \in w.reads \ DOMAIN db
      BY <1>2, <1>4, <1>8, <3>1, <3>2
    <3> QED BY <1>24, <3>4, <3>5 DEF Joins
  <2>2. \A M, q : LayerKey(M, q) \notin DOMAIN w.puts
    BY <1>9, <1>11, Keys
  <2> QED BY <2>1, <2>2 DEF Grafts
<1>26. Uproots(w, db)
  <2>1. \A M, q : LayerKey(M, q) \notin w.clears
    BY <1>8, <1>12, <1>9, Keys
  <2>2. ASSUME NEW M \in Layers, NEW k \in LinkKeys(M) \cap w.clears
        PROVE  Released(w, db, M, k)
    <3>1. k = gone /\ M = L
      BY <1>8, <1>9, Ranges
    <3>2. link \in LinkKeys(L) \cap DOMAIN w.puts /\ w.puts[link] = db[gone]
      BY <1>4, <1>8, <1>9
    <3> QED BY <1>9, <3>1, <3>2 DEF Released
  <2> QED BY <2>1, <2>2 DEF Uproots
<1>27. Ended(w, db)
  BY <1>20, <1>21, <1>23, <1>25, <1>26 DEF Ended, Hangs
<1> QED BY <1>1, <1>27

-----------------------------------------------------------------------------
(* RemoveIn and MoveIn                                                      *)

LEMMA RemoveFromEnds ==
  ASSUME NEW t, NEW db, Prepared(t, db), Linked(db), NEW L \in Layers, Within(t, db, L),
         NEW path \in Seq(Name), Len(path) \in 1 .. 2, NEW nested,
         LET v == CheckVersion(t, L, TRUE)
             found == FindNode(v.view, L, path)
         IN found.node # None /\ InPartition(found, path) => Ended(nested, db)
  PROVE  Ended(RemoveFrom(t, nested, L, path), db)
<1> DEFINE v == CheckVersion(t, L, TRUE)
           found == FindNode(v.view, L, path)
           keys == found.reads
           u == Reads(v, keys)
           w == RemoveFrom(t, nested, L, path)
<1> SUFFICES Ended(w, db)
  OBVIOUS
<1>1. Prepared(u, db) /\ u.view = v.view /\ u.reads = v.reads \cup keys
  <2>1. Rereads(v, db)
    BY PreparedWalk
  <2> HIDE DEF v, keys
  <2> QED BY <2>1 DEF Rereads
<1>2. CASE found.node = None
  <2>1. w = u
    BY <1>2 DEF RemoveFrom
  <2> HIDE DEF u, w
  <2> QED BY <1>1, <2>1, PreparedEnds
<1>3. CASE found.node # None /\ InPartition(found, path)
  <2>1. w = nested
    BY <1>3 DEF RemoveFrom
  <2> QED BY <1>3, <2>1
<1>4. CASE found.node # None /\ ~InPartition(found, path)
  <2> DEFINE top == found.node
             nodes == RemoveRecursive(u.view, L, top)
             cleared == Clear(Reads(u, UNION {ChildRange(L, q) : q \in nodes}),
                              (UNION {NodeRange(L, q) : q \in nodes})
                                \cup RemovedContent(L, nodes, top))
  <2>1. w = RemoveFromParent(cleared, L, path)
    BY <1>4 DEF RemoveFrom
  <2>2. FindNode(u.view, L, path) = found
    BY <1>1
  <2> HIDE DEF u, v, found, w
  <2>3. RemovedNode(u, L, path) = RemoveFromParent(cleared, L, path)
    BY <2>2 DEF RemovedNode
  <2>4. Ended(RemovedNode(u, L, path), db)
    BY <1>1, <1>4, <2>2, RemovedNodeEnds
  <2> HIDE DEF cleared
  <2> QED BY <2>1, <2>3, <2>4
<1> QED BY <1>2, <1>3, <1>4

LEMMA MoveFromEnds ==
  ASSUME NEW t, NEW db, Prepared(t, db), Linked(db), NEW L \in Layers, Within(t, db, L),
         NEW old \in Seq(Name), Len(old) \in 1 .. 2, NEW new \in Seq(Name), Len(new) \in 1 .. 2,
         NEW nested,
         LET v == CheckVersion(t, L, TRUE)
             from == FindNode(v.view, L, old)
             to == FindNode(v.view, L, new)
         IN from.node # None /\ InPartition(from, old) /\ InPartition(to, new)
              /\ from.node = to.node => Ended(nested, db)
  PROVE  Ended(MoveFrom(t, nested, L, old, new), db)
<1> DEFINE v == CheckVersion(t, L, TRUE)
           from == FindNode(v.view, L, old)
           to == FindNode(v.view, L, new)
           parent == FindNode(v.view, L, Front(new))
           keys == from.reads \cup to.reads \cup parent.reads
           u == Reads(v, keys)
           w == MoveFrom(t, nested, L, old, new)
           within == InPartition(from, old) /\ InPartition(to, new) /\ from.node = to.node
           moved == RemoveFromParent(
                      Put(u, ChildKey(L, parent.node, Last(new)), from.node), L, old)
<1> SUFFICES Ended(w, db)
  OBVIOUS
<1>1. Prepared(u, db) /\ u.view = v.view /\ u.reads = v.reads \cup keys /\ Within(u, db, L)
  <2>1. Rereads(v, db) /\ Within(v, db, L)
    BY PreparedWalk
  <2> HIDE DEF v, keys
  <2> QED BY <2>1 DEF Rereads
<1>2. CASE w = Fail(u)
  <2> HIDE DEF u, w
  <2> QED BY <1>1, <1>2, FailEnds
<1>3. CASE ~IsPrefix(old, new) /\ from.node # None /\ to.node # None /\ within
  <2>1. w = nested
    BY <1>3 DEF MoveFrom
  <2> QED BY <1>3, <2>1
<1>4. CASE /\ ~IsPrefix(old, new) /\ from.node # None /\ to.node = None
           /\ ~InPartition(from, old) /\ parent.node # None
  <2>1. w = moved
    BY <1>4 DEF MoveFrom
  <2>2. /\ FindNode(u.view, L, old) = from /\ FindNode(u.view, L, new) = to
        /\ FindNode(u.view, L, Front(new)) = parent
    BY <1>1
  <2>3. from.reads \subseteq u.reads /\ to.reads \subseteq u.reads
    BY <1>1
  <2> HIDE DEF u, v, from, to, parent, w, keys, within
  <2>4. moved = MovedNode(u, L, old, new)
    BY <2>2 DEF MovedNode
  <2>5. Ended(MovedNode(u, L, old, new), db)
    BY <1>1, <1>4, <2>2, <2>3, MovedNodeEnds
  <2> HIDE DEF moved
  <2> QED BY <2>1, <2>4, <2>5
<1>5. CASE IsPrefix(old, new) \/ from.node = None
  <2>1. w = Fail(u)
    BY <1>5 DEF MoveFrom
  <2> QED BY <1>2, <2>1
<1>6. CASE ~IsPrefix(old, new) /\ from.node # None /\ to.node # None /\ ~within
  <2>1. w = Fail(u)
    BY <1>6 DEF MoveFrom
  <2> QED BY <1>2, <2>1
<1>7. CASE /\ ~IsPrefix(old, new) /\ from.node # None /\ to.node = None
           /\ InPartition(from, old) \/ parent.node = None
  <2>1. w = Fail(u)
    BY <1>7 DEF MoveFrom
  <2> QED BY <1>2, <2>1
<1> HIDE DEF w, u, from, to, parent, within
<1> QED BY <1>3, <1>4, <1>5, <1>6, <1>7

LEMMA RemoveNameEnds ==
  ASSUME NEW t, NEW db, Prepared(t, db), Linked(db), NEW L \in Layers, Within(t, db, L),
         NEW path \in Seq(Name), Len(path) \in 1 .. 2
  PROVE  Ended(RemoveName(t, L, path), db)
<1> DEFINE nested == Fail(t)
<1>1. RemoveName(t, L, path) = RemoveFrom(t, nested, L, path)
  BY DEF RemoveName
<1>2. Ended(nested, db)
  BY FailEnds
<1> HIDE DEF nested
<1> QED BY <1>1, <1>2, RemoveFromEnds

LEMMA RemoveInEnds ==
  ASSUME NEW t, NEW db, Prepared(t, db), Linked(db),
         NEW path \in Seq(Name), Len(path) \in 1 .. 2
  PROVE  Ended(RemoveIn(t, <<>>, path), db)
<1> DEFINE L == <<>>
           v == CheckVersion(t, L, TRUE)
           found == FindNode(v.view, L, path)
           keys == found.reads
           u == Reads(v, keys)
           nested == RemoveName(u, found.node, Subpath(found, path))
<1>0. L \in Layers /\ L = <<>> /\ Within(t, db, L)
  BY PrefixFacts DEF Within
<1>1. RemoveIn(t, L, path) = RemoveFrom(t, nested, L, path)
  BY DEF RemoveIn
<1> HIDE DEF L
<1>2. Prepared(v, db) /\ Prepared(u, db) /\ u.view = v.view /\ u.reads = v.reads \cup keys
  <2>1. Prepared(v, db) /\ Rereads(v, db)
    BY <1>0, PreparedWalk
  <2> HIDE DEF v, keys
  <2> QED BY <2>1 DEF Rereads
<1>3. found.node # None /\ InPartition(found, path) => Ended(nested, db)
  <2>1. SUFFICES ASSUME found.node # None, InPartition(found, path)
                 PROVE  Ended(nested, db)
    OBVIOUS
  <2>2. Linked(v.view)
    BY <1>2, PreparedView
  <2> HIDE DEF v, u
  <2>3. found.node \in PrefixesOf(L) /\ Subpath(found, path) \in Seq(Name)
        /\ Len(Subpath(found, path)) = 1
    BY <1>0, <2>1, <2>2, FoundFacts
  <2>4. found.node \in Layers
    BY <2>3, PrefixFacts DEF L
  <2>7. Within(u, db, found.node)
    <3>1. FindNode(u.view, L, path) = found /\ found.reads \subseteq u.reads
      BY <1>2
    <3> HIDE DEF found
    <3> QED BY <1>0, <1>2, <2>1, <3>1, PartitionWithin
  <2> DEFINE node == found.node
             rest == Subpath(found, path)
  <2>5. nested = RemoveName(u, node, rest) /\ Len(rest) \in 1 .. 2
    BY <2>3
  <2> HIDE DEF nested, node, rest, found
  <2>6. Ended(RemoveName(u, node, rest), db)
    BY <1>2, <2>3, <2>4, <2>5, <2>7, RemoveNameEnds DEF node, rest
  <2> QED BY <2>5, <2>6
<1> HIDE DEF nested
<1>4. Ended(RemoveFrom(t, nested, L, path), db)
  BY <1>0, <1>3, RemoveFromEnds
<1> QED BY <1>1, <1>4 DEF L

LEMMA MoveNameEnds ==
  ASSUME NEW t, NEW db, Prepared(t, db), Linked(db), NEW L \in Layers, Within(t, db, L),
         NEW old \in Seq(Name), Len(old) \in 1 .. 2, NEW new \in Seq(Name), Len(new) \in 1 .. 2
  PROVE  Ended(MoveName(t, L, old, new), db)
<1> DEFINE nested == Fail(t)
<1>1. MoveName(t, L, old, new) = MoveFrom(t, nested, L, old, new)
  BY DEF MoveName
<1>2. Ended(nested, db)
  BY FailEnds
<1> HIDE DEF nested
<1> QED BY <1>1, <1>2, MoveFromEnds

LEMMA MoveInEnds ==
  ASSUME NEW t, NEW db, Prepared(t, db), Linked(db),
         NEW old \in Seq(Name), Len(old) \in 1 .. 2, NEW new \in Seq(Name), Len(new) \in 1 .. 2
  PROVE  Ended(MoveIn(t, <<>>, old, new), db)
<1> DEFINE L == <<>>
           v == CheckVersion(t, L, TRUE)
           from == FindNode(v.view, L, old)
           to == FindNode(v.view, L, new)
           keys == from.reads \cup to.reads \cup FindNode(v.view, L, Front(new)).reads
           u == Reads(v, keys)
           nested == MoveName(u, from.node, Subpath(from, old), Subpath(to, new))
<1>0. L \in Layers /\ L = <<>> /\ Within(t, db, L)
  BY PrefixFacts DEF Within
<1>1. MoveIn(t, L, old, new) = MoveFrom(t, nested, L, old, new)
  BY DEF MoveIn
<1> HIDE DEF L
<1>2. Prepared(v, db) /\ Prepared(u, db) /\ u.view = v.view /\ u.reads = v.reads \cup keys
  <2>1. Prepared(v, db) /\ Rereads(v, db)
    BY <1>0, PreparedWalk
  <2> HIDE DEF v, keys
  <2> QED BY <2>1 DEF Rereads
<1>3. from.node # None /\ InPartition(from, old) /\ InPartition(to, new) /\ from.node = to.node
        => Ended(nested, db)
  <2>1. SUFFICES ASSUME from.node # None, InPartition(from, old), InPartition(to, new),
                        from.node = to.node
                 PROVE  Ended(nested, db)
    OBVIOUS
  <2>2. Linked(v.view)
    BY <1>2, PreparedView
  <2> HIDE DEF v, u, keys
  <2>3. from.node \in PrefixesOf(L) /\ Subpath(from, old) \in Seq(Name)
        /\ Len(Subpath(from, old)) = 1
    BY <1>0, <2>1, <2>2, FoundFacts
  <2>4. Subpath(to, new) \in Seq(Name) /\ Len(Subpath(to, new)) = 1
    BY <1>0, <2>1, <2>2, FoundFacts
  <2>5. from.node \in Layers
    BY <2>3, PrefixFacts DEF L
  <2>8. Within(u, db, from.node)
    <3>1. FindNode(u.view, L, old) = from /\ from.reads \subseteq u.reads
      BY <1>2 DEF keys
    <3> HIDE DEF from
    <3> QED BY <1>0, <1>2, <2>1, <3>1, PartitionWithin
  <2> DEFINE node == from.node
             o == Subpath(from, old)
             n == Subpath(to, new)
  <2>6. nested = MoveName(u, node, o, n) /\ Len(o) \in 1 .. 2 /\ Len(n) \in 1 .. 2
    BY <2>3, <2>4
  <2> HIDE DEF nested, node, o, n, from, to
  <2>7. Ended(MoveName(u, node, o, n), db)
    BY <1>2, <2>3, <2>4, <2>5, <2>6, <2>8, MoveNameEnds DEF node, o, n
  <2> QED BY <2>6, <2>7
<1> HIDE DEF nested
<1>4. Ended(MoveFrom(t, nested, L, old, new), db)
  BY <1>0, <1>3, MoveFromEnds
<1> QED BY <1>1, <1>4 DEF L

-----------------------------------------------------------------------------
(* Committing a sound transaction                                           *)

Applied(t, db, new) ==
  /\ DOMAIN new = (DOMAIN db \ t.clears) \cup DOMAIN t.puts \cup DOMAIN t.adds
  /\ \A k \in DOMAIN t.puts : new[k] = t.puts[k]
  /\ \A k \in DOMAIN t.adds \ DOMAIN t.puts :
       new[k] = (IF k \in DOMAIN db \ t.clears THEN db[k] ELSE 0) + t.adds[k]
  /\ \A k \in DOMAIN db \ Written(t) : new[k] = db[k]

LEMMA ApplyIs ==
  ASSUME NEW t
  PROVE  Applied(t, rows, Apply(t))
<1> DEFINE kept == Without(rows, t.clears)
           new == Apply(t)
<1>1. DOMAIN kept = DOMAIN rows \ t.clears /\ \A k \in DOMAIN rows \ t.clears : kept[k] = rows[k]
  BY DEF Without
<1>2. new = [k \in DOMAIN kept \cup DOMAIN t.puts \cup DOMAIN t.adds |->
               IF k \in DOMAIN t.puts THEN t.puts[k]
               ELSE IF k \in DOMAIN t.adds
               THEN (IF k \in DOMAIN kept THEN kept[k] ELSE 0) + t.adds[k]
               ELSE kept[k]]
  BY DEF Apply
<1> HIDE DEF kept, new
<1>3. DOMAIN new = (DOMAIN rows \ t.clears) \cup DOMAIN t.puts \cup DOMAIN t.adds
  BY <1>1, <1>2
<1>4. \A k \in DOMAIN t.puts : new[k] = t.puts[k]
  BY <1>2
<1>5. \A k \in DOMAIN t.adds \ DOMAIN t.puts :
        new[k] = (IF k \in DOMAIN rows \ t.clears THEN rows[k] ELSE 0) + t.adds[k]
  BY <1>1, <1>2
<1>6. \A k \in DOMAIN rows \ Written(t) : new[k] = rows[k]
  BY <1>1, <1>2 DEF Written
<1> QED BY <1>3, <1>4, <1>5, <1>6 DEF Applied, new

LEMMA AppliedLinks ==
  ASSUME NEW t, NEW db, NEW new, Applied(t, db, new), Sound(t, db), Linked(db), OneParent(db)
  PROVE  Linked(new) /\ OneParent(new)
<1>1. \A L : \A k \in LinkKeys(L) : k \notin DOMAIN t.adds
  BY Ranges DEF Sound
<1>2. \A L, p : LayerKey(L, p) \notin DOMAIN t.adds
  BY Keys DEF Sound
<1>3. \A L : \A k \in LinkKeys(L) \cap DOMAIN new :
        \/ k \in DOMAIN t.puts /\ new[k] = t.puts[k]
        \/ k \in DOMAIN db \ t.clears /\ k \notin DOMAIN t.puts /\ new[k] = db[k]
  BY <1>1 DEF Applied, Written
<1>4. \A L, p : LayerKey(L, p) \in DOMAIN t.puts \cup (DOMAIN db \ t.clears)
                  => LayerKey(L, p) \in DOMAIN new
  BY DEF Applied
\* A link that is kept is the only one of its node.
<1>5. ASSUME NEW L \in Layers, NEW k \in LinkKeys(L) \cap (DOMAIN db \ t.clears)
      PROVE  ~Detaches(t, db, L, db[k])
  BY <1>5 DEF Detaches, OneParent
<1>6. ASSUME NEW L \in Layers, NEW k \in LinkKeys(L) \cap DOMAIN new
      PROVE  new[k] \in PrefixesOf(L) /\ LayerKey(L, new[k]) \in DOMAIN new
  <2>1. CASE k \in DOMAIN t.puts /\ new[k] = t.puts[k]
    <3>1. t.puts[k] \in PrefixesOf(L)
          /\ (LayerKey(L, t.puts[k]) \in DOMAIN t.puts \/ Moves(t, db, L, t.puts[k]))
      BY <2>1 DEF Sound, Attaches
    <3>2. LayerKey(L, t.puts[k]) \in DOMAIN t.puts \cup (DOMAIN db \ t.clears)
      BY <3>1 DEF Moves
    <3> QED BY <1>4, <2>1, <3>1, <3>2
  <2>2. CASE k \in DOMAIN db \ t.clears /\ k \notin DOMAIN t.puts /\ new[k] = db[k]
    <3>1. db[k] \in PrefixesOf(L) /\ LayerKey(L, db[k]) \in DOMAIN db
      BY <2>2 DEF Linked
    <3>2. ~Detaches(t, db, L, db[k])
      BY <1>5, <2>2
    <3>3. LayerKey(L, db[k]) \notin t.clears
      BY <2>2, <3>1, <3>2 DEF Sound, Removes
    <3> QED BY <1>4, <2>2, <3>1, <3>3
  <2> QED BY <1>3, <2>1, <2>2
<1>7. ASSUME NEW L \in Layers, NEW j \in LinkKeys(L) \cap DOMAIN t.puts,
             NEW k \in LinkKeys(L) \cap (DOMAIN db \ t.clears)
      PROVE  t.puts[j] # db[k]
  <2>1. LayerKey(L, t.puts[j]) \in DOMAIN t.puts \/ Moves(t, db, L, t.puts[j])
    BY DEF Sound, Attaches
  <2>2. db[k] \in PrefixesOf(L) /\ LayerKey(L, db[k]) \in DOMAIN db
    BY DEF Linked
  <2>3. LayerKey(L, db[k]) \notin DOMAIN t.puts
    BY <2>2 DEF Sound, Creates
  <2>4. ~Moves(t, db, L, db[k])
    BY <1>5 DEF Moves
  <2> QED BY <2>1, <2>3, <2>4
<1>8. ASSUME NEW L \in Layers, NEW j \in LinkKeys(L) \cap DOMAIN new,
             NEW k \in LinkKeys(L) \cap DOMAIN new, new[j] = new[k]
      PROVE  j = k
  <2>1. CASE j \in DOMAIN t.puts /\ k \in DOMAIN t.puts
    <3>1. new[j] = t.puts[j] /\ new[k] = t.puts[k]
      BY <2>1 DEF Applied
    <3> QED BY <1>8, <2>1, <3>1 DEF Sound, Attaches
  <2>2. CASE j \notin DOMAIN t.puts /\ k \notin DOMAIN t.puts
    <3>1. j \in DOMAIN db /\ k \in DOMAIN db /\ new[j] = db[j] /\ new[k] = db[k]
      BY <1>3, <2>2
    <3> QED BY <1>8, <3>1 DEF OneParent
  <2>3. CASE j \in DOMAIN t.puts /\ k \notin DOMAIN t.puts
    BY <1>3, <1>7, <1>8, <2>3 DEF Applied
  <2>4. CASE j \notin DOMAIN t.puts /\ k \in DOMAIN t.puts
    BY <1>3, <1>7, <1>8, <2>4 DEF Applied
  <2> QED BY <2>1, <2>2, <2>3, <2>4
<1> QED BY <1>6, <1>8 DEF Linked, OneParent

LEMMA AppliedOwned ==
  ASSUME NEW t, NEW db, NEW new, Applied(t, db, new), Sound(t, db), Owned(db)
  PROVE  Owned(new)
<1>1. SUFFICES ASSUME NEW p \in AnyPrefix, NEW key \in DirectoryRange(p) \cap DOMAIN new
               PROVE  LiveIn(new, p)
  BY DEF Owned
<1>2. CASE key \in DOMAIN t.puts \cup DOMAIN t.adds
  <2>1. Stored(t, db, p)
    BY <1>1, <1>2 DEF Sound, Stores
  <2>2. PICK M \in Layers : p \in PrefixesOf(M) /\
          LayerKey(M, p) \in DOMAIN t.puts \cup ((t.reads \cap DOMAIN db) \ t.clears)
    BY <2>1 DEF Stored
  <2>3. LayerKey(M, p) \in DOMAIN new
    BY <2>2 DEF Applied
  <2> QED BY <2>2, <2>3 DEF LiveIn
<1>3. CASE key \in DOMAIN db \ t.clears
  <2>1. PICK M \in Layers : p \in PrefixesOf(M) /\ LayerKey(M, p) \in DOMAIN db
    BY <1>1, <1>3 DEF Owned, LiveIn
  <2>2. LayerKey(M, p) \notin t.clears
    BY <1>1, <1>3, <2>1 DEF Sound, Removes
  <2>3. LayerKey(M, p) \in DOMAIN new
    BY <2>1, <2>2 DEF Applied
  <2> QED BY <2>1, <2>3 DEF LiveIn
<1> QED BY <1>1, <1>2, <1>3 DEF Applied

LEMMA AppliedSized ==
  ASSUME NEW t, NEW db, NEW new, Applied(t, db, new), Sound(t, db), Sized(db)
  PROVE  Sized(new)
<1>1. SUFFICES ASSUME NEW p \in AnyPrefix
               PROVE  /\ IsFiniteSet(Entries(new, p))
                      /\ Cardinality(Entries(new, p)) = SizeIn(new, p)
  BY DEF Sized
<1> DEFINE size == SizeKey(p)
           old == Entries(db, p)
<1>2. /\ IsFiniteSet(old) /\ Cardinality(old) \in Nat
      /\ Cardinality(old) = IF size \in DOMAIN db THEN db[size] ELSE 0
  BY FS_CardinalityType DEF Sized, SizeIn
<1>3. SizeIn(new, p) = IF size \in DOMAIN new THEN new[size] ELSE 0
  BY DEF SizeIn
<1>4. /\ size \in DirectoryRange(p) /\ size[1] = "size"
      /\ \A k \in StoreKey : EntryKey(p, k) \in DirectoryRange(p) /\ EntryKey(p, k)[1] = "entry"
  BY Keys DEF DirectoryRange
<1>5. \A k \in StoreKey : EntryKey(p, k) \notin DOMAIN t.adds
  BY <1>4 DEF Sound
<1>6. \A k : k \notin Written(t) => /\ k \in DOMAIN new <=> k \in DOMAIN db
                                    /\ k \in DOMAIN db => new[k] = db[k]
  BY DEF Applied, Written
<1>7. t.clears \cap (DOMAIN t.puts \cup DOMAIN t.adds) = {}
  BY DEF Sound, Apart
<1> HIDE DEF size
<1>8. \A k \in StoreKey : EntryKey(p, k) \in t.clears => k \notin Entries(new, p)
  BY <1>5, <1>7 DEF Entries, Applied
<1>9. CASE DirectoryRange(p) \cap Written(t) = {}
  <2>1. Entries(new, p) = old
    BY <1>4, <1>6, <1>9 DEF Entries
  <2>2. size \notin Written(t)
    BY <1>4, <1>9
  <2> QED BY <1>2, <1>3, <1>6, <2>1, <2>2
<1>10. CASE {EntryKey(p, k) : k \in StoreKey} \subseteq t.clears
           /\ (size \in DOMAIN new => new[size] = 0)
  <2>1. Entries(new, p) = {}
    <3>1. \A k \in StoreKey : k \notin Entries(new, p)
      BY <1>8, <1>10
    <3> QED BY <3>1 DEF Entries
  <2> QED BY <1>3, <1>10, <2>1, FS_EmptySet
<1>11. CASE DirectoryRange(p) \subseteq t.clears
  <2>1. size \notin DOMAIN new
    BY <1>4, <1>7, <1>11 DEF Applied
  <2>2. {EntryKey(p, k) : k \in StoreKey} \subseteq t.clears
    BY <1>4, <1>11
  <2> QED BY <1>10, <2>1, <2>2
<1>12. CASE /\ {EntryKey(p, k) : k \in StoreKey} \subseteq t.clears
            /\ size \in DOMAIN t.puts /\ t.puts[size] = 0
  <2>1. new[size] = 0
    BY <1>12 DEF Applied
  <2> QED BY <1>10, <1>12, <2>1
<1>13. CASE \E k \in StoreKey : /\ \A j \in StoreKey \ {k} : EntryKey(p, j) \notin Written(t)
                                /\ Entered(t, db, p, k) \/ Left(t, db, p, k)
  <2>1. PICK k \in StoreKey : /\ \A j \in StoreKey \ {k} : EntryKey(p, j) \notin Written(t)
                              /\ Entered(t, db, p, k) \/ Left(t, db, p, k)
    BY <1>13
  <2> DEFINE entry == EntryKey(p, k)
  <2>2. \A j \in StoreKey \ {k} : j \in Entries(new, p) <=> j \in old
    BY <1>6, <2>1 DEF Entries
  <2>3. Entries(new, p) \subseteq StoreKey /\ old \subseteq StoreKey
        /\ (k \in Entries(new, p) <=> entry \in DOMAIN new)
        /\ (k \in old <=> entry \in DOMAIN db)
    BY DEF Entries
  <2> HIDE DEF old, entry
  <2>4. CASE entry \in DOMAIN t.puts /\ entry \in DOMAIN db /\ size \notin Written(t)
    <3>1. entry \in DOMAIN new
      BY <2>4 DEF Applied
    <3>2. Entries(new, p) = old
      BY <2>2, <2>3, <2>4, <3>1
    <3>3. SizeIn(new, p) = IF size \in DOMAIN db THEN db[size] ELSE 0
      BY <1>3, <1>6, <2>4
    <3> QED BY <1>2, <3>2, <3>3
  <2>5. CASE /\ entry \in DOMAIN t.puts /\ entry \notin DOMAIN db
             /\ size \in DOMAIN t.adds \ (DOMAIN t.puts \cup t.clears) /\ t.adds[size] = 1
    <3>1. entry \in DOMAIN new
      BY <2>5 DEF Applied
    <3>2. Entries(new, p) = old \cup {k} /\ k \notin old
      BY <2>2, <2>3, <2>5, <3>1
    <3>3. size \in DOMAIN new /\ new[size] = (IF size \in DOMAIN db THEN db[size] ELSE 0) + 1
      BY <2>5 DEF Applied
    <3>4. IsFiniteSet(old \cup {k}) /\ Cardinality(old \cup {k}) = Cardinality(old) + 1
      BY <1>2, <3>2, FS_AddElement
    <3> QED BY <1>2, <1>3, <3>2, <3>3, <3>4
  <2>6. CASE /\ entry \in t.clears \cap DOMAIN db
             /\ size \in DOMAIN t.adds \ (DOMAIN t.puts \cup t.clears) /\ t.adds[size] = -1
    <3>1. k \notin Entries(new, p)
      BY <1>8, <2>6 DEF entry
    <3>2. Entries(new, p) = old \ {k} /\ k \in old
      BY <2>2, <2>3, <2>6, <3>1
    <3>3. size \in DOMAIN new /\ new[size] = (IF size \in DOMAIN db THEN db[size] ELSE 0) + (-1)
      BY <2>6 DEF Applied
    <3>4. IsFiniteSet(old \ {k}) /\ Cardinality(old \ {k}) = Cardinality(old) - 1
      BY <1>2, <3>2, FS_RemoveElement
    <3> QED BY <1>2, <1>3, <3>2, <3>3, <3>4
  <2> QED BY <2>1, <2>4, <2>5, <2>6 DEF Entered, Left, entry, size
<1>14. Counted(t, db, p)
  BY DEF Sound
<1> QED BY <1>9, <1>11, <1>12, <1>13, <1>14 DEF Counted, size

\* A transaction stays sound when another commits that wrote nothing it read.
\* What is committed keeps rows below live nodes and partitions.
LEMMA AppliedRooted ==
  ASSUME NEW t, NEW db, NEW new, Applied(t, db, new), Sound(t, db), Hangs(t, db),
         Linked(db), OneParent(db), Rooted(db)
  PROVE  Rooted(new)
<1>1. SUFFICES ASSUME NEW L \in Layers, NEW p \in PrefixesOf(L),
                      NEW k \in ChildRange(L, p), k \in DOMAIN new
               PROVE  LayerKey(L, p) \in DOMAIN new
  BY DEF Rooted
<1>2. k \in LinkKeys(L) /\ k \notin DOMAIN t.adds
  BY <1>1, Ranges, Keys DEF LinkKeys, ChildRange, Sound
<1>3. CASE k \in DOMAIN t.puts
  <2>1. Hung(t, db, L, p) /\ p # RootNode(L)
    BY <1>1, <1>3, PrefixFacts DEF Hangs, Grafts, Joins
  <2>2. PICK j \in ChildRange(L, RootNode(L)) :
          \/ j \in DOMAIN t.puts /\ t.puts[j] = p
          \/ j \in (t.reads \cap DOMAIN db) \ t.clears /\ db[j] = p
    BY <2>1 DEF Hung
  <2>3. j \in LinkKeys(L)
    BY DEF LinkKeys
  <2>4. CASE j \in DOMAIN t.puts /\ t.puts[j] = p
    <3>1. LayerKey(L, p) \in DOMAIN t.puts \/ Moves(t, db, L, p)
      BY <2>3, <2>4 DEF Sound, Attaches
    <3> QED BY <3>1 DEF Moves, Applied
  <2>5. CASE j \in (t.reads \cap DOMAIN db) \ t.clears /\ db[j] = p
    <3>1. LayerKey(L, p) \in DOMAIN db
      BY <2>3, <2>5 DEF Linked
    <3>2. ~Detaches(t, db, L, p)
      BY <2>3, <2>5 DEF Detaches, OneParent
    <3>3. ~(LinkKeys(L) \subseteq t.clears)
      BY <2>3, <2>5
    <3>4. LayerKey(L, p) \notin t.clears
      BY <3>2, <3>3 DEF Sound, Removes
    <3> QED BY <3>1, <3>4 DEF Applied
  <2> QED BY <2>2, <2>4, <2>5
<1>4. CASE k \notin DOMAIN t.puts
  <2>1. k \in DOMAIN db \ t.clears
    BY <1>1, <1>2, <1>4 DEF Applied
  <2>2. LayerKey(L, p) \in DOMAIN db
    BY <2>1 DEF Rooted
  <2>3. k \in LayerRange[L]
    BY <1>2, LayerRangeKeys
  <2>4. LayerKey(L, p) \notin t.clears
    BY <2>1, <2>3 DEF Hangs, Uproots
  <2> QED BY <2>2, <2>4 DEF Applied
<1> QED BY <1>3, <1>4

LEMMA AppliedNested ==
  ASSUME NEW t, NEW db, NEW new, Applied(t, db, new), Sound(t, db), Hangs(t, db), Nested(db)
  PROVE  Nested(new)
<1>1. SUFFICES ASSUME NEW L \in RootPrefix, NEW k \in LayerRange[L] \cap DOMAIN new
               PROVE  LayerKey(<<>>, L) \in DOMAIN new /\ new[LayerKey(<<>>, L)] = "partition"
  BY DEF Nested
<1> DEFINE own == LayerKey(<<>>, L)
<1>2. L \in Layers /\ <<>> \in Layers /\ L \in PrefixesOf(<<>>)
  BY PrefixFacts
<1>3. k \notin DOMAIN t.adds /\ own \notin DOMAIN t.adds
  BY <1>2, LayerRangeKeys, Keys DEF Sound
<1>4. own \in DOMAIN db \ t.clears /\ db[own] = "partition"
  <2>1. CASE k \in DOMAIN t.puts
    BY <1>2, <2>1 DEF Hangs, Nests, Within
  <2>2. CASE k \notin DOMAIN t.puts
    <3>1. k \in DOMAIN db \ t.clears
      BY <1>3, <2>2 DEF Applied
    <3> QED BY <3>1 DEF Nested, Hangs, Uproots
  <2> QED BY <2>1, <2>2
<1>5. own \notin DOMAIN t.puts
  BY <1>2, <1>4 DEF Sound, Creates
<1> HIDE DEF own
<1>6. own \in DOMAIN new /\ new[own] = db[own]
  BY <1>3, <1>4, <1>5 DEF Applied, Written
<1> QED BY <1>4, <1>6 DEF own

\* Nodes that hold the new links out of the root and out of them hold, with
\* those removed, the old ones too.
LEMMA AppliedReaching ==
  ASSUME NEW t, NEW db, NEW new, Applied(t, db, new), Sound(t, db), Hangs(t, db),
         Linked(db), Rooted(db), Reaching(db)
  PROVE  Reaching(new)
<1>1. SUFFICES ASSUME NEW L \in Layers, NEW S \in SUBSET PrefixesOf(L),
                      ChildrenOf(new, L, RootNode(L)) \subseteq S, Closed(new, L, S),
                      NEW p \in PrefixesOf(L), LayerKey(L, p) \in DOMAIN new
               PROVE  p \in S
  BY DEF Reaching
<1> DEFINE gone == {q \in PrefixesOf(L) : LayerKey(L, q) \in t.clears}
           T == S \cup gone
<1>2. \A k \in LinkKeys(L) : k \notin DOMAIN t.adds
  BY Ranges DEF Sound
<1>3. \A q \in PrefixesOf(L) : LayerKey(L, q) \notin DOMAIN t.adds
  BY Keys DEF Sound
<1>4. \A q \in S \cup {RootNode(L)} : \A k \in ChildRange(L, q) : k \in LinkKeys(L)
  BY DEF LinkKeys
<1>5. ASSUME NEW q \in S \cup {RootNode(L)}, NEW k \in ChildRange(L, q) \cap DOMAIN new
      PROVE  new[k] \in S
  BY <1>1 DEF ChildrenOf, Closed
\* A link put replaces none.
<1>6. ASSUME NEW k \in LinkKeys(L) \cap DOMAIN t.puts PROVE k \notin DOMAIN db
  <2>1. PICK q \in PrefixesOf(L) \cup {RootNode(L)} : k \in ChildRange(L, q)
    BY DEF LinkKeys
  <2>2. Joins(t, db, L, q, k)
    BY <2>1 DEF Hangs, Grafts
  <2>3. CASE LayerKey(L, q) \in DOMAIN t.puts /\ q \in PrefixesOf(L)
    <3>1. LayerKey(L, q) \notin DOMAIN db
      BY <2>3 DEF Sound, Creates
    <3> QED BY <2>1, <2>3, <3>1 DEF Rooted
  <2>4. CASE k \in t.reads \ DOMAIN db
    BY <2>4
  <2> QED BY <2>2, <2>3, <2>4 DEF Joins
<1>7. ASSUME NEW k \in LinkKeys(L) \cap (DOMAIN db \ t.clears)
      PROVE  k \in DOMAIN new /\ new[k] = db[k]
  BY <1>2, <1>6 DEF Applied, Written
\* Whoever is linked from a node that will hang from the root is reached.
<1>8. ASSUME NEW k \in LinkKeys(L) \cap DOMAIN t.puts PROVE t.puts[k] \in S
  <2>1. PICK q \in PrefixesOf(L) \cup {RootNode(L)} : k \in ChildRange(L, q)
    BY DEF LinkKeys
  <2>2. Hung(t, db, L, q)
    BY <2>1 DEF Hangs, Grafts, Joins
  <2>3. q \in S \cup {RootNode(L)}
    <3>1. SUFFICES ASSUME NEW j \in ChildRange(L, RootNode(L)),
                          \/ j \in DOMAIN t.puts /\ t.puts[j] = q
                          \/ j \in (t.reads \cap DOMAIN db) \ t.clears /\ db[j] = q
                   PROVE  q \in S
      BY <2>2 DEF Hung
    <3>2. j \in DOMAIN new /\ new[j] = q
      <4>1. CASE j \in DOMAIN t.puts /\ t.puts[j] = q
        BY <4>1 DEF Applied
      <4>2. CASE j \in (t.reads \cap DOMAIN db) \ t.clears /\ db[j] = q
        BY <1>4, <1>7, <4>2
      <4> QED BY <3>1, <4>1, <4>2
    <3> QED BY <1>5, <3>2
  <2>4. k \in DOMAIN new /\ new[k] = t.puts[k]
    BY DEF Applied
  <2> QED BY <1>5, <2>1, <2>3, <2>4
<1>9. CASE LayerRange[L] \subseteq t.clears
  <2>1. LayerKey(L, p) \in LayerRange[L]
    BY LayerRangeKeys
  <2>2. LayerKey(L, p) \notin DOMAIN t.puts
    BY <1>9, <2>1 DEF Sound, Apart
  <2> QED BY <1>1, <1>3, <1>9, <2>1, <2>2 DEF Applied
<1>10. CASE ~(LayerRange[L] \subseteq t.clears)
  <2>1. /\ \A k \in LinkKeys(L) \cap t.clears : Released(t, db, L, k)
        /\ \A q \in gone : \A k \in ChildRange(L, q) \cap DOMAIN db : LayerKey(L, db[k]) \in t.clears
    BY <1>10 DEF Hangs, Uproots
  <2>2. ASSUME NEW q \in gone, NEW k \in ChildRange(L, q) \cap DOMAIN db PROVE db[k] \in T
    <3>1. db[k] \in PrefixesOf(L)
      BY DEF Linked, LinkKeys
    <3> QED BY <2>1, <3>1
  <2>3. ASSUME NEW q \in S \cup {RootNode(L)}, NEW k \in ChildRange(L, q) \cap DOMAIN db
        PROVE  db[k] \in T
    <3>1. k \in LinkKeys(L) /\ db[k] \in PrefixesOf(L)
      BY <1>4 DEF Linked
    <3>2. CASE k \notin t.clears
      BY <1>5, <1>7, <3>1, <3>2
    <3>3. CASE k \in t.clears
      <4>1. LayerKey(L, db[k]) \in t.clears
            \/ \E j \in LinkKeys(L) \cap DOMAIN t.puts : t.puts[j] = db[k]
        BY <2>1, <3>1, <3>3 DEF Released
      <4> QED BY <1>8, <3>1, <4>1
    <3> QED BY <3>2, <3>3
  <2>4. ChildrenOf(db, L, RootNode(L)) \subseteq T /\ Closed(db, L, T)
    BY <2>2, <2>3 DEF ChildrenOf, Closed
  <2>5. CASE LayerKey(L, p) \in DOMAIN t.puts
    BY <1>8, <2>5 DEF Hangs, Grafts
  <2>6. CASE LayerKey(L, p) \notin DOMAIN t.puts
    <3>1. LayerKey(L, p) \in DOMAIN db \ t.clears
      BY <1>1, <1>3, <2>6 DEF Applied
    <3>2. T \in SUBSET PrefixesOf(L)
      OBVIOUS
    <3> HIDE DEF T
    <3>3. p \in T
      BY <2>4, <3>1, <3>2 DEF Reaching
    <3> QED BY <3>1, <3>3 DEF T
  <2> QED BY <2>5, <2>6
<1> QED BY <1>9, <1>10

\* A prefix is given twice only if one of them was allocated and the other made
\* by hand meanwhile.
LEMMA SoundKept ==
  ASSUME NEW t, NEW u, NEW db, NEW new, Applied(t, db, new), Sound(t, db), Sound(u, db),
         u.reads \cap Written(t) = {}, Exclusive(t, u), Drawn(t), Drawn(u),
         Given(u, <<>>) \cap u.auto \cap HandMade(t) = {}
  PROVE  Sound(u, new)
<1>1. \A k \in u.reads : /\ k \in DOMAIN new <=> k \in DOMAIN db
                         /\ k \in DOMAIN db => new[k] = db[k]
  BY DEF Applied, Written
<1>2. Creates(u, new)
  <2>1. SUFFICES ASSUME NEW L \in Layers, NEW p \in PrefixesOf(L), LayerKey(L, p) \in DOMAIN u.puts,
                        LayerKey(L, p) \in DOMAIN new
                 PROVE  FALSE
    BY DEF Sound, Creates
  <2>2. LayerKey(L, p) \notin DOMAIN db
    BY <2>1 DEF Sound, Creates
  <2>3. LayerKey(L, p) \notin DOMAIN t.adds
    BY Keys DEF Sound
  <2>4. LayerKey(L, p) \in DOMAIN t.puts
    BY <2>1, <2>2, <2>3 DEF Applied
  <2>5. LayerKey(L, p) \notin u.reads
    BY <2>4 DEF Written
  <2>6. p \in u.auto /\ \E n \in 1 .. MaxNumber : p = Append(L, n) /\ TakenKey(L, n) \in DOMAIN u.puts
    BY <2>1, <2>5 DEF Drawn
  <2>7. CASE p \in t.auto
    <3>1. PICK m \in 1 .. MaxNumber : p = Append(L, m) /\ TakenKey(L, m) \in DOMAIN t.puts
      BY <2>4, <2>7 DEF Drawn
    <3>2. PICK n \in 1 .. MaxNumber : p = Append(L, n) /\ TakenKey(L, n) \in DOMAIN u.puts
      BY <2>6
    <3>3. L \in Seq(Nat) /\ m \in Nat /\ n \in Nat
      BY PrefixFacts, DirectoryAssumption
    <3>4. Append(L, m)[Len(L) + 1] = m /\ Append(L, n)[Len(L) + 1] = n
      BY <3>3, AppendProperties
    <3>5. m = n
      BY <3>1, <3>2, <3>4
    <3> QED BY <3>1, <3>2, <3>5 DEF Exclusive
  <2>8. CASE p \notin t.auto
    <3>1. L = <<>> /\ p \in ManualPrefix
      BY <2>4, <2>8 DEF Drawn
    <3>2. p \in HandMade(t)
      BY <2>4, <2>8, <3>1 DEF HandMade
    <3>3. p \in Given(u, <<>>)
      BY <2>1, <3>1 DEF Given
    <3> QED BY <2>6, <3>2, <3>3
  <2> QED BY <2>7, <2>8
<1>3. \A L, p : Detaches(u, db, L, p) => Detaches(u, new, L, p)
  <2>1. SUFFICES ASSUME NEW L, NEW p, Detaches(u, db, L, p) PROVE Detaches(u, new, L, p)
    OBVIOUS
  <2>2. PICK k \in LinkKeys(L) \cap u.reads \cap u.clears \cap DOMAIN db : db[k] = p
    BY <2>1 DEF Detaches
  <2>3. k \in DOMAIN new /\ new[k] = p
    BY <1>1, <2>2
  <2> QED BY <2>2, <2>3 DEF Detaches
<1>4. \A L, p : Moves(u, db, L, p) => Moves(u, new, L, p)
  BY <1>1, <1>3 DEF Moves
<1>5. Attaches(u, new)
  BY <1>4 DEF Sound, Attaches
<1>6. Removes(u, new)
  BY <1>3 DEF Sound, Removes
<1>7. Stores(u, new)
  <2>1. \A p : Stored(u, db, p) => Stored(u, new, p)
    BY <1>1 DEF Stored
  <2> QED BY <2>1 DEF Sound, Stores
<1>8. ASSUME NEW p \in AnyPrefix PROVE Counted(u, new, p)
  <2>1. \A k \in StoreKey : EntryKey(p, k) \in u.reads =>
          /\ Entered(u, db, p, k) => Entered(u, new, p, k)
          /\ Left(u, db, p, k) => Left(u, new, p, k)
    BY <1>1 DEF Entered, Left
  <2>2. Counted(u, db, p)
    BY DEF Sound
  <2> QED BY <2>1, <2>2 DEF Counted
<1> QED BY <1>2, <1>5, <1>6, <1>7, <1>8 DEF Sound

\* Sound tells the mutations of a transaction and its reads only.
LEMMA SoundSame ==
  ASSUME NEW t, NEW u, NEW db, Sound(t, db),
         u.reads = t.reads, u.puts = t.puts, u.clears = t.clears, u.adds = t.adds
  PROVE  Sound(u, db)
<1>1. Apart(u) /\ \A key \in DOMAIN u.adds : key[1] = "size"
  BY DEF Sound, Apart
<1>2. Creates(u, db)
  BY DEF Sound, Creates
<1>3. Attaches(u, db) /\ Removes(u, db)
  <2>1. \A L, p : Detaches(t, db, L, p) => Detaches(u, db, L, p)
    BY DEF Detaches
  <2>2. \A L, p : Moves(t, db, L, p) => Moves(u, db, L, p)
    BY <2>1 DEF Moves
  <2> QED BY <2>1, <2>2 DEF Sound, Attaches, Removes
<1>4. Stores(u, db)
  BY DEF Sound, Stores, Stored
<1>5. ASSUME NEW p \in AnyPrefix PROVE Counted(u, db, p)
  <2>1. Written(u) = Written(t)
    BY DEF Written
  <2>2. \A k : /\ Entered(t, db, p, k) => Entered(u, db, p, k)
               /\ Left(t, db, p, k) => Left(u, db, p, k)
    BY <2>1 DEF Entered, Left
  <2>3. Counted(t, db, p)
    BY DEF Sound
  <2> QED BY <2>1, <2>2, <2>3 DEF Counted
<1> QED BY <1>1, <1>2, <1>3, <1>4, <1>5 DEF Sound

\* What a transaction read stands until a commit that rejects it.
LEMMA HangsKept ==
  ASSUME NEW t, NEW u, NEW db, NEW new, Applied(t, db, new), Hangs(u, db),
         u.reads \cap Written(t) = {}
  PROVE  Hangs(u, new)
<1>1. \A k \in u.reads : /\ k \in DOMAIN new <=> k \in DOMAIN db
                         /\ k \in DOMAIN db => new[k] = db[k]
  BY DEF Applied, Written
<1>2. Nests(u, new)
  BY <1>1 DEF Hangs, Nests, Within
<1>3. \A L, P : Hung(u, db, L, P) => Hung(u, new, L, P)
  BY <1>1 DEF Hung
<1>4. \A L, P, k : Joins(u, db, L, P, k) => Joins(u, new, L, P, k)
  BY <1>1, <1>3 DEF Joins
<1>5. Grafts(u, new)
  BY <1>4 DEF Hangs, Grafts
<1>6. \A L, k : Released(u, db, L, k) => Released(u, new, L, k)
  BY <1>1 DEF Released
<1>7. Uproots(u, new)
  BY <1>1, <1>6 DEF Hangs, Uproots
<1> QED BY <1>2, <1>5, <1>7 DEF Hangs

LEMMA HangsSame ==
  ASSUME NEW t, NEW u, NEW db, Hangs(t, db),
         u.reads = t.reads, u.puts = t.puts, u.clears = t.clears
  PROVE  Hangs(u, db)
<1>1. Nests(u, db)
  BY DEF Hangs, Nests, Within
<1>2. \A L, P, k : Joins(t, db, L, P, k) => Joins(u, db, L, P, k)
  BY DEF Joins, Hung
<1>3. \A L, k : Released(t, db, L, k) => Released(u, db, L, k)
  BY DEF Released
<1> QED BY <1>1, <1>2, <1>3 DEF Hangs, Grafts, Uproots

-----------------------------------------------------------------------------
(* The invariant                                                            *)

\* Every open transaction that no commit has rejected chose prefixes apart
\* from all nodes but those that its commit may overlap.
CInv == \A c \in Open : txn[c].conflicted \/ Chosen(txn[c], rows, txn[c].unseen)

LEMMA Initially ==
  ASSUME Init
  PROVE  IInv
<1>1. DOMAIN rows = {} /\ Open = {} /\ DOMAIN txn = Client
  BY DEF Init, Open
<1>2. Linked(rows) /\ OneParent(rows) /\ Owned(rows)
  BY <1>1 DEF Linked, OneParent, Owned
<1>3. Sized(rows)
  <2>1. \A p : Entries(rows, p) = {} /\ SizeIn(rows, p) = 0
    BY <1>1 DEF Entries, SizeIn
  <2> QED BY <2>1, FS_EmptySet DEF Sized
<1>4. Rooted(rows) /\ Nested(rows)
  BY <1>1 DEF Rooted, Nested
<1>5. Reaching(rows)
  BY <1>1 DEF Reaching
<1> QED BY <1>1, <1>2, <1>3, <1>4, <1>5 DEF IInv

LEMMA Submitted ==
  ASSUME IInv, NEW c \in Client, NEW t, Submits(c, t), Sound(t, rows), Hangs(t, rows),
         Unclaimed(t, Busy)
  PROVE  IInv'
<1> DEFINE no == FALSE
           new == [reads |-> t.reads, puts |-> t.puts, clears |-> t.clears, adds |-> t.adds,
                   auto |-> t.auto, unseen |-> {}, conflicted |-> no]
<1>1. txn' = [txn EXCEPT ![c] = new] /\ rows' = rows /\ DOMAIN txn = Client
  BY DEF Submits, IInv
<1>2. /\ new.reads = t.reads /\ new.puts = t.puts /\ new.clears = t.clears /\ new.adds = t.adds
      /\ Shape(new)
  <2> HIDE DEF no
  <2> QED BY DEF Shape
<1> HIDE DEF new
<1>3. Sound(new, rows) /\ Hangs(new, rows)
  BY <1>2, SoundSame, HangsSame
<1>4. DOMAIN txn' = Client /\ txn'[c] = new
      /\ \A d \in Client \ {c} : txn'[d] = txn[d]
  BY <1>1
<1>5. \A d \in Open' : d = c \/ d \in Open
  BY <1>4 DEF Open
<1>6. /\ Linked(rows') /\ OneParent(rows') /\ Owned(rows') /\ Sized(rows')
      /\ Rooted(rows') /\ Nested(rows') /\ Reaching(rows')
  BY <1>1 DEF IInv
<1>7. ASSUME NEW d \in Open'
      PROVE  /\ Shape(txn'[d])
             /\ \/ txn'[d].conflicted \/ Doubled(txn'[d]) # {}
                \/ Sound(txn'[d], rows') /\ Hangs(txn'[d], rows')
  <2>1. CASE d = c
    BY <1>1, <1>2, <1>3, <1>4, <2>1
  <2>2. CASE d # c
    <3>1. d \in Open /\ d \in Client /\ txn'[d] = txn[d]
      BY <1>4, <1>5, <2>2 DEF Open
    <3> QED BY <1>1, <3>1 DEF IInv
  <2> QED BY <2>1, <2>2
<1>8. \A d \in Open : Exclusive(new, txn[d]) /\ Exclusive(txn[d], new)
  <2>1. \A d \in Open : DOMAIN txn[d].puts \subseteq Busy
    BY DEF Busy
  <2> QED BY <1>2, <2>1 DEF Unclaimed, Exclusive
<1>9. ASSUME NEW d \in Open', NEW e \in Open', d # e PROVE Exclusive(txn'[d], txn'[e])
  <2>1. CASE d = c
    BY <1>4, <1>5, <1>8, <1>9, <2>1 DEF Open
  <2>2. CASE e = c
    BY <1>4, <1>5, <1>8, <1>9, <2>2 DEF Open
  <2>3. CASE d # c /\ e # c
    <3>1. d \in Open /\ e \in Open /\ txn'[d] = txn[d] /\ txn'[e] = txn[e]
      BY <1>4, <1>5, <2>3 DEF Open
    <3> QED BY <1>9, <3>1 DEF IInv
  <2> QED BY <2>1, <2>2, <2>3
<1> QED BY <1>4, <1>6, <1>7, <1>9 DEF IInv

LEMMA Committed ==
  ASSUME IInv, CInv, NoneTwice, NEW c \in Client, Commit(c)
  PROVE  IInv'
<1> DEFINE t == txn[c]
<1>1. /\ t # None /\ ~t.conflicted /\ rows' = Apply(t)
      /\ txn' = [d \in Client |->
           CASE d = c \/ txn[d] = None -> None
             [] d \in Open \ {c} /\ txn[d].reads \cap Written(t) # {} -> Rejected
             [] OTHER -> [txn[d] EXCEPT !.unseen = @ \cup HandMade(t)]]
  BY DEF Commit
<1>2. /\ c \in Open /\ Sound(t, rows) /\ Hangs(t, rows) /\ Drawn(t)
      /\ Linked(rows) /\ OneParent(rows) /\ Owned(rows) /\ Sized(rows)
      /\ Rooted(rows) /\ Nested(rows) /\ Reaching(rows)
  <2>1. c \in Open /\ Doubled(t) = {}
    BY <1>1 DEF NoneTwice, Open
  <2> QED BY <1>1, <2>1 DEF IInv, CInv, Chosen
<1>3. Applied(t, rows, rows')
  <2>1. Applied(t, rows, Apply(t))
    BY ApplyIs
  <2> HIDE DEF t
  <2> QED BY <1>1, <2>1
<1>4. DOMAIN txn' = Client /\ txn'[c] = None
  BY <1>1
<1>5. ASSUME NEW d \in Client \ {c}, txn[d] = None PROVE txn'[d] = None
  <2>1. d \notin Open
    BY <1>5 DEF Open
  <2> QED BY <1>1, <1>5, <2>1
<1>6. ASSUME NEW d \in Open \ {c}
      PROVE  \/ txn[d].reads \cap Written(t) # {} /\ txn'[d] = Rejected
             \/ /\ txn[d].reads \cap Written(t) = {}
                /\ txn'[d] = [txn[d] EXCEPT !.unseen = @ \cup HandMade(t)]
  <2>1. d \in Client /\ ~(d = c \/ txn[d] = None)
    BY DEF Open
  <2> QED BY <1>1, <1>6, <2>1
<1>7. \A d \in Open' : d \in Open \ {c}
  BY <1>4, <1>5 DEF Open
<1>8. DOMAIN Rejected.puts = {} /\ Rejected.conflicted /\ Shape(Rejected)
  <2> DEFINE yes == TRUE
             none == <<>>
             r == [reads |-> {}, puts |-> none, clears |-> {}, adds |-> none, auto |-> {},
                   unseen |-> {}, conflicted |-> yes]
  <2>1. r = Rejected /\ yes /\ DOMAIN none = {}
    BY DEF Rejected
  <2> HIDE DEF yes, none
  <2>2. r.puts = none /\ r.conflicted = yes /\ Shape(r)
    BY DEF Shape
  <2> QED BY <2>1, <2>2
<1> HIDE DEF t
<1>9. ASSUME NEW d \in Open \ {c}, txn[d].reads \cap Written(t) = {}
      PROVE  /\ Shape(txn'[d]) /\ txn'[d].conflicted = txn[d].conflicted
             /\ txn'[d].reads = txn[d].reads /\ txn'[d].puts = txn[d].puts
             /\ txn'[d].clears = txn[d].clears /\ txn'[d].adds = txn[d].adds
             /\ txn'[d].auto = txn[d].auto /\ txn'[d].unseen = txn[d].unseen \cup HandMade(t)
  <2> DEFINE u == txn[d]
             w == txn'[d]
             unseen == u.unseen \cup HandMade(t)
  <2>1. w = [u EXCEPT !.unseen = unseen] /\ Shape(u)
    BY <1>6, <1>9 DEF IInv
  <2> HIDE DEF u, w, unseen
  <2>2. /\ w.reads = u.reads /\ w.puts = u.puts /\ w.clears = u.clears /\ w.adds = u.adds
        /\ w.auto = u.auto /\ w.unseen = unseen /\ w.conflicted = u.conflicted
    BY <2>1 DEF Shape
  <2>3. Shape(w)
    BY <2>1, <2>2 DEF Shape
  <2> QED BY <2>2, <2>3 DEF u, w, unseen
<1>10. /\ Linked(rows') /\ OneParent(rows') /\ Owned(rows') /\ Sized(rows')
       /\ Rooted(rows') /\ Nested(rows') /\ Reaching(rows')
  <2>1. Linked(rows') /\ OneParent(rows') /\ Owned(rows') /\ Sized(rows')
    BY <1>2, <1>3, AppliedLinks, AppliedOwned, AppliedSized
  <2>2. Rooted(rows') /\ Nested(rows') /\ Reaching(rows')
    BY <1>2, <1>3, AppliedRooted, AppliedNested, AppliedReaching
  <2> QED BY <2>1, <2>2
<1>11. ASSUME NEW d \in Open'
       PROVE  /\ Shape(txn'[d])
              /\ \/ txn'[d].conflicted \/ Doubled(txn'[d]) # {}
                 \/ Sound(txn'[d], rows') /\ Hangs(txn'[d], rows')
  <2>1. d \in Open \ {c}
    BY <1>7
  <2>2. CASE txn[d].reads \cap Written(t) # {}
    BY <1>6, <1>8, <2>1, <2>2
  <2>3. CASE txn[d].reads \cap Written(t) = {}
    <3>1. CASE txn[d].conflicted
      BY <1>9, <2>1, <2>3, <3>1
    <3>2. CASE Doubled(txn'[d]) # {}
      BY <1>9, <2>1, <2>3, <3>2
    <3>3. CASE ~txn[d].conflicted /\ Doubled(txn'[d]) = {}
      <4>1. /\ Given(txn[d], <<>>) \cap txn[d].auto \cap HandMade(t) = {}
            /\ Doubled(txn[d]) = {}
        BY <1>9, <2>1, <2>3, <3>3 DEF Doubled, Given
      <4>2. /\ Sound(txn[d], rows) /\ Hangs(txn[d], rows) /\ Exclusive(t, txn[d])
            /\ Drawn(txn[d])
        BY <1>2, <2>1, <3>3, <4>1 DEF IInv, CInv, Chosen, t
      <4>3. Sound(txn[d], rows') /\ Hangs(txn[d], rows')
        BY <1>2, <1>3, <2>3, <4>1, <4>2, SoundKept, HangsKept
      <4>4. Sound(txn'[d], rows') /\ Hangs(txn'[d], rows')
        BY <1>9, <2>1, <2>3, <4>3, SoundSame, HangsSame
      <4> QED BY <1>9, <2>1, <2>3, <4>4
    <3> QED BY <3>1, <3>2, <3>3
  <2> QED BY <2>2, <2>3
<1>12. ASSUME NEW d \in Open' PROVE DOMAIN txn'[d].puts \subseteq DOMAIN txn[d].puts
  BY <1>6, <1>7, <1>8, <1>9
<1>13. ASSUME NEW d \in Open', NEW e \in Open', d # e PROVE Exclusive(txn'[d], txn'[e])
  <2>1. Exclusive(txn[d], txn[e])
    BY <1>7, <1>13 DEF IInv
  <2> QED BY <1>12, <2>1 DEF Exclusive
<1> QED BY <1>4, <1>10, <1>11, <1>13 DEF IInv

LEMMA Aborted ==
  ASSUME IInv, NEW c \in Client, Abort(c)
  PROVE  IInv'
<1>1. rows' = rows /\ txn' = [txn EXCEPT ![c] = None] /\ DOMAIN txn = Client
  BY DEF Abort, IInv
<1>2. \A d \in Open' : d \in Open /\ d # c /\ txn'[d] = txn[d]
  BY <1>1 DEF Open
<1> QED BY <1>1, <1>2 DEF IInv

LEMMA Unchanged ==
  ASSUME IInv, UNCHANGED vars
  PROVE  IInv'
<1>1. rows' = rows /\ txn' = txn
  BY DEF vars
<1>2. Open' = Open
  BY <1>1 DEF Open
<1> QED BY <1>1, <1>2 DEF IInv

\* What another commits, a transaction has read, or was made by hand.
LEMMA ChosenStands ==
  ASSUME NEW t, NEW u, NEW db, NEW new, Applied(t, db, new), Sound(t, db), Drawn(t),
         u.reads \cap Written(t) = {}, NEW unseen, Chosen(u, db, unseen)
  PROVE  Chosen(u, new, unseen \cup HandMade(t))
<1>1. \A k \in u.reads : k \in DOMAIN new <=> k \in DOMAIN db
  BY DEF Applied, Written
<1>2. \A q : Absent(u, db, q) => Absent(u, new, q)
  BY <1>1 DEF Absent
<1>3. \A q, p : Hidden(u, db, q, p) => Hidden(u, new, q, p)
  BY <1>1 DEF Hidden
<1>4. ASSUME NEW L \in Layers, NEW p \in PrefixesOf(L), LayerKey(L, p) \in DOMAIN u.puts,
             p \in u.auto, NEW q \in PrefixesOf(L) \ {p}, Overlap(p, q),
             LayerKey(L, q) \in DOMAIN new \ DOMAIN db
      PROVE  q \in HandMade(t)
  <2>1. LayerKey(L, q) \in DOMAIN t.puts
    BY <1>4, Keys DEF Applied, Sound
  <2>2. \A x \in PrefixesOf(L) : LayerKey(L, x) \in DOMAIN u.puts /\ x \in u.auto
          => x \in Allocatable(L)
    BY <1>4 DEF Chosen, Drawn, Allocatable
  <2>3. p \in Allocatable(L)
    BY <1>4, <2>2
  <2>4. q \notin Allocatable(L)
    BY <1>4, <2>3, AllocatedPrefixes
  <2>5. q \notin t.auto
    BY <1>4, <2>1, <2>4 DEF Drawn, Allocatable
  <2>6. L = <<>> /\ q \in ManualPrefix
    BY <1>4, <2>1, <2>5 DEF Drawn
  <2> QED BY <2>1, <2>5, <2>6 DEF HandMade
<1>5. Free(u, new, unseen \cup HandMade(t))
  <2>1. SUFFICES ASSUME NEW L \in Layers, NEW p \in PrefixesOf(L), LayerKey(L, p) \in DOMAIN u.puts,
                        NEW q \in PrefixesOf(L) \ {p}, Overlap(p, q)
                 PROVE  \/ /\ p \in u.auto
                           /\ LayerKey(L, q) \in DOMAIN new \cup DOMAIN u.puts
                                => q \in unseen \cup HandMade(t)
                        \/ /\ p \notin u.auto
                           /\ Absent(u, new, q) \/ Hidden(u, new, q, p)
    BY DEF Free
  <2>2. \/ /\ p \in u.auto
           /\ LayerKey(L, q) \in DOMAIN db \cup DOMAIN u.puts => q \in unseen
        \/ p \notin u.auto /\ (Absent(u, db, q) \/ Hidden(u, db, q, p))
    BY <2>1 DEF Chosen, Free
  <2> QED BY <1>2, <1>3, <1>4, <2>1, <2>2
<1> QED BY <1>5 DEF Chosen

\* Whoever creates no directory chose none.
LEMMA EndedChooses ==
  ASSUME NEW t, NEW db, Ended(t, db), t.ok
  PROVE  Chosen(t, db, {})
<1>1. \A L, p : LayerKey(L, p) \notin DOMAIN t.puts
  BY Keys DEF Ended
<1> QED BY <1>1 DEF Chosen, Drawn, Free

\* Nor does an operation of the store, once its directory is open.
LEMMA StoringChooses ==
  ASSUME NEW t, NEW db, Chosen(t, db, {}), NEW u, NEW p, Storing(u, t, db, p), u.auto = t.auto
  PROVE  Chosen(u, db, {})
<1>1. \A k \in DirectoryRange(p) : k[1] \in {"entry", "size"}
  BY Ranges
<1>2. SameNodes(t, u)
  BY <1>1, Keys DEF SameNodes, Storing
<1> QED BY <1>2, ChosenKept

LEMMA SubmittedChooses ==
  ASSUME IInv, CInv, NEW c \in Client, NEW t, Submits(c, t), Chosen(t, rows, {})
  PROVE  CInv'
<1> DEFINE no == FALSE
           new == [reads |-> t.reads, puts |-> t.puts, clears |-> t.clears, adds |-> t.adds,
                   auto |-> t.auto, unseen |-> {}, conflicted |-> no]
<1>1. txn' = [txn EXCEPT ![c] = new] /\ rows' = rows /\ DOMAIN txn = Client
  BY DEF Submits, IInv
<1>2. new.reads = t.reads /\ new.puts = t.puts /\ new.auto = t.auto /\ new.unseen = {}
  BY DEF new
<1> HIDE DEF new
<1>3. Chosen(new, rows, new.unseen)
  <2>1. SameNodes(t, new)
    BY <1>2 DEF SameNodes
  <2> QED BY <1>2, <2>1, ChosenKept
<1>4. txn'[c] = new /\ \A d \in Client \ {c} : txn'[d] = txn[d]
  BY <1>1
<1>5. ASSUME NEW d \in Open' PROVE txn'[d].conflicted \/ Chosen(txn'[d], rows', txn'[d].unseen)
  <2>1. CASE d = c
    BY <1>1, <1>3, <1>4, <2>1
  <2>2. CASE d # c
    <3>1. d \in Open /\ txn'[d] = txn[d]
      BY <1>4, <1>5, <2>2 DEF Open
    <3> QED BY <1>1, <3>1 DEF CInv
  <2> QED BY <2>1, <2>2
<1> QED BY <1>5 DEF CInv

LEMMA CommittedChooses ==
  ASSUME IInv, CInv, NoneTwice, NEW c \in Client, Commit(c)
  PROVE  CInv'
<1> DEFINE t == txn[c]
<1>1. /\ t # None /\ ~t.conflicted /\ rows' = Apply(t)
      /\ txn' = [d \in Client |->
           CASE d = c \/ txn[d] = None -> None
             [] d \in Open \ {c} /\ txn[d].reads \cap Written(t) # {} -> Rejected
             [] OTHER -> [txn[d] EXCEPT !.unseen = @ \cup HandMade(t)]]
  BY DEF Commit
<1>2. Sound(t, rows) /\ Drawn(t)
  <2>1. c \in Open /\ Doubled(t) = {}
    BY <1>1 DEF NoneTwice, Open
  <2> QED BY <1>1, <2>1 DEF IInv, CInv, Chosen
<1>3. Applied(t, rows, rows')
  <2>1. Applied(t, rows, Apply(t))
    BY ApplyIs
  <2> HIDE DEF t
  <2> QED BY <1>1, <2>1
<1>4. ASSUME NEW d \in Open'
      PROVE  /\ d \in Open
             /\ \/ txn'[d] = Rejected
                \/ /\ txn[d].reads \cap Written(t) = {}
                   /\ txn'[d] = [txn[d] EXCEPT !.unseen = @ \cup HandMade(t)]
  <2>1. d \in Client /\ txn'[d] # None
    BY <1>4 DEF Open
  <2>2. d # c
    <3>1. txn'[c] = None
      BY <1>1
    <3> QED BY <2>1, <3>1
  <2>3. txn[d] # None
    <3>1. CASE txn[d] = None
      <4>1. d \notin Open
        BY <3>1 DEF Open
      <4> QED BY <1>1, <2>1, <3>1, <4>1
    <3> QED BY <3>1
  <2>4. d \in Open
    BY <2>1, <2>3 DEF Open
  <2> QED BY <1>1, <2>1, <2>2, <2>3, <2>4
<1>5. Rejected.conflicted
  BY DEF Rejected
<1> HIDE DEF t
<1>6. ASSUME NEW d \in Open', txn[d].reads \cap Written(t) = {},
             txn'[d] = [txn[d] EXCEPT !.unseen = @ \cup HandMade(t)]
      PROVE  txn'[d].conflicted \/ Chosen(txn'[d], rows', txn'[d].unseen)
  <2> DEFINE u == txn[d]
             w == txn'[d]
             unseen == u.unseen \cup HandMade(t)
  <2>1. w = [u EXCEPT !.unseen = unseen] /\ Shape(u) /\ d \in Open
    BY <1>4, <1>6 DEF IInv
  <2>2. u.reads \cap Written(t) = {} /\ (u.conflicted \/ Chosen(u, rows, u.unseen))
    BY <1>6, <2>1 DEF CInv
  <2>3. u.conflicted \/ Chosen(u, rows', unseen)
    <3> HIDE DEF u
    <3> QED BY <1>2, <1>3, <2>2, ChosenStands
  <2> HIDE DEF u, w, unseen
  <2>4. /\ w.reads = u.reads /\ w.puts = u.puts /\ w.auto = u.auto
        /\ w.unseen = unseen /\ w.conflicted = u.conflicted
    BY <2>1 DEF Shape
  <2>5. SameNodes(u, w)
    BY <2>4 DEF SameNodes
  <2>6. w.conflicted \/ Chosen(w, rows', w.unseen)
    BY <2>3, <2>4, <2>5, ChosenKept
  <2> QED BY <2>6 DEF w
<1> QED BY <1>4, <1>5, <1>6 DEF CInv

\* The directory of the store is opened as others are.
LEMMA StoreOpened ==
  ASSUME IInv, NEW draw \in Draws
  PROVE  Opened(StoreRoot(draw), rows, Busy)
<1> DEFINE yes == TRUE
           tag == "store"
           opt == [tag |-> tag, manual |-> None, open |-> yes, busy |-> Busy, draw |-> draw]
<1>1. StoreRoot(draw) = CreateOrOpen(Begin(rows), <<>>, StorePath, opt)
  BY DEF StoreRoot
<1> HIDE DEF yes, tag
<1>2. Asked(opt, Busy)
  BY DEF Asked
<1> HIDE DEF opt
<1>3. StorePath \in Seq(Name) /\ Len(StorePath) \in 1 .. 2
  BY StoreAssumption, DirectoryAssumption
<1>4. Building(Begin(rows), rows, Busy) /\ Linked(rows) /\ DOMAIN Begin(rows).puts = {}
  BY BeginBuilds DEF IInv, Begin
<1> QED BY <1>1, <1>2, <1>3, <1>4, CreateOrOpenBuilds

LEMMA StoreChooses ==
  ASSUME IInv, NEW draw \in Draws, StoreRoot(draw).ok
  PROVE  Chosen(StoreRoot(draw), rows, {})
<1> DEFINE yes == TRUE
           tag == "store"
           begun == Begin(rows)
           opt == [tag |-> tag, manual |-> None, open |-> yes, busy |-> Busy, draw |-> draw]
<1>1. StoreRoot(draw) = CreateOrOpen(begun, <<>>, StorePath, opt)
  BY DEF StoreRoot
<1> HIDE DEF yes, tag
<1>2. Asked(opt, Busy)
  BY DEF Asked
<1> HIDE DEF opt
<1>3. StorePath \in Seq(Name) /\ Len(StorePath) \in 1 .. 2
  BY StoreAssumption, DirectoryAssumption
<1>4. /\ Building(begun, rows, Busy) /\ Linked(rows) /\ Rooted(rows)
      /\ DOMAIN begun.puts = {} /\ begun.auto = {}
  BY BeginBuilds DEF IInv, Begin
<1> HIDE DEF begun
<1> QED BY <1>1, <1>2, <1>3, <1>4, CreateOrOpenChooses

LEMMA EndedSubmits ==
  ASSUME IInv, CInv, NEW c \in Client, NEW t, Submits(c, t), Ended(t, rows)
  PROVE  IInv' /\ CInv'
<1>1. /\ t.ok /\ Sound(t, rows) /\ Hangs(t, rows)
      /\ \A key \in DOMAIN t.puts : key[1] \notin {"taken", "layer"}
  BY DEF Ended, Submits
<1>2. Unclaimed(t, Busy)
  BY <1>1, Keys DEF Unclaimed
<1>3. Chosen(t, rows, {})
  BY <1>1, EndedChooses
<1> QED BY <1>1, <1>2, <1>3, Submitted, SubmittedChooses

LEMMA CreationSubmits ==
  ASSUME IInv, CInv, NEW c \in Client, NEW path \in Path, NEW opt \in Options,
         NEW draw \in Draws, CreateDirectory(c, path, opt.tag, opt.manual, opt.open, draw)
  PROVE  IInv' /\ CInv'
<1> DEFINE tag == opt.tag
           open == opt.open
           manual == opt.manual
           asked == [tag |-> tag, manual |-> manual, open |-> open, busy |-> Busy, draw |-> draw]
           begun == Begin(rows)
           t == CreateOrOpen(begun, <<>>, path, asked)
<1>1. Submits(c, t) /\ t.ok
  BY DEF CreateDirectory, Submits
<1>2. manual \in ManualPrefix \cup {None}
  BY StoreAssumption
<1> HIDE DEF tag, open, manual
<1>3. Asked(asked, Busy)
  BY <1>2 DEF Asked
<1> HIDE DEF asked
<1>4. path \in Seq(Name) /\ Len(path) \in 1 .. 2
  BY DirectoryAssumption
<1>5. /\ Building(begun, rows, Busy) /\ Linked(rows) /\ Rooted(rows)
      /\ DOMAIN begun.puts = {} /\ begun.auto = {}
  BY BeginBuilds DEF IInv, Begin
<1> HIDE DEF begun
<1>6. Opened(t, rows, Busy) /\ Chosen(t, rows, {})
  BY <1>1, <1>3, <1>4, <1>5, CreateOrOpenBuilds, CreateOrOpenChooses
<1> HIDE DEF t
<1>7. Sound(t, rows) /\ Hangs(t, rows) /\ Unclaimed(t, Busy)
  BY <1>6, BuildingSound DEF Opened, Building
<1> QED BY <1>1, <1>6, <1>7, Submitted, SubmittedChooses

LEMMA RemovalSubmits ==
  ASSUME IInv, CInv, NEW c \in Client, NEW path \in Path, RemoveDirectory(c, path)
  PROVE  IInv' /\ CInv'
<1> DEFINE begun == Begin(rows)
           t == RemoveIn(begun, <<>>, path)
<1>1. Submits(c, t)
  BY DEF RemoveDirectory
<1>2. Prepared(begun, rows) /\ Linked(rows)
  BY BeginBuilds DEF IInv, Prepared, Begin
<1>3. path \in Seq(Name) /\ Len(path) \in 1 .. 2
  BY DirectoryAssumption
<1> HIDE DEF begun
<1>4. Ended(t, rows)
  BY <1>2, <1>3, RemoveInEnds
<1> HIDE DEF t
<1> QED BY <1>1, <1>4, EndedSubmits

LEMMA MoveSubmits ==
  ASSUME IInv, CInv, NEW c \in Client, NEW old \in Path, NEW new \in Path, MoveDirectory(c, old, new)
  PROVE  IInv' /\ CInv'
<1> DEFINE begun == Begin(rows)
           t == MoveIn(begun, <<>>, old, new)
<1>1. Submits(c, t)
  BY DEF MoveDirectory
<1>2. Prepared(begun, rows) /\ Linked(rows)
  BY BeginBuilds DEF IInv, Prepared, Begin
<1>3. old \in Seq(Name) /\ Len(old) \in 1 .. 2 /\ new \in Seq(Name) /\ Len(new) \in 1 .. 2
  BY DirectoryAssumption
<1> HIDE DEF begun
<1>4. Ended(t, rows)
  BY <1>2, <1>3, MoveInEnds
<1> HIDE DEF t
<1> QED BY <1>1, <1>4, EndedSubmits

LEMMA StoreSubmits ==
  ASSUME IInv, CInv, NEW c \in Client,
         \/ \E k \in StoreKey, draw \in Draws :
              SetEntry(c, StoreRoot(draw), k) \/ RemoveEntry(c, StoreRoot(draw), k)
         \/ \E draw \in Draws : ClearStore(c, StoreRoot(draw))
  PROVE  IInv' /\ CInv'
<1>1. PICK draw \in Draws :
        \/ \E k \in StoreKey :
             SetEntry(c, StoreRoot(draw), k) \/ RemoveEntry(c, StoreRoot(draw), k)
        \/ ClearStore(c, StoreRoot(draw))
  OBVIOUS
<1> DEFINE t == StoreRoot(draw)
           p == t.at.prefix
<1>2. Opened(t, rows, Busy) /\ Made(t)
  BY StoreOpened DEF Opened, Building
<1>3. t.ok => Chosen(t, rows, {})
  BY StoreChooses
<1> HIDE DEF t
<1>4. ASSUME NEW u, Submits(c, u), t.ok, Storing(u, t, rows, p), u.auto = t.auto PROVE IInv' /\ CInv'
  <2>1. Sound(u, rows) /\ Hangs(u, rows) /\ Unclaimed(u, Busy)
    BY <1>2, <1>4, StoringSound
  <2>2. Chosen(u, rows, {})
    BY <1>3, <1>4, StoringChooses
  <2> QED BY <1>4, <2>1, <2>2, Submitted, SubmittedChooses
<1>5. ASSUME NEW k \in StoreKey, SetEntry(c, StoreRoot(draw), k) PROVE IInv' /\ CInv'
  <2> DEFINE r == Reads(t, PresenceReads(p, k))
             yes == TRUE
             u == Put(r, EntryKey(p, k), yes)
             v == Add(u, SizeKey(p), 1)
             w == IF EntryKey(p, k) \in DOMAIN t.view THEN u ELSE v
  <2>1. t.ok /\ Submits(c, w)
    BY <1>5 DEF SetEntry, t
  <2>2. Storing(w, t, rows, p)
    <3> HIDE DEF p
    <3> QED BY <1>2, SetStores
  <2> HIDE DEF p
  <2>3. Made(r) /\ r.auto = t.auto
    BY <1>2, ReadsIs
  <2> HIDE DEF r, yes
  <2>4. Made(u) /\ u.auto = r.auto
    BY <2>3, PutIs
  <2> HIDE DEF u
  <2>5. v.auto = u.auto
    BY <2>4 DEF Add, Made
  <2> QED BY <1>4, <2>1, <2>2, <2>3, <2>4, <2>5 DEF p
<1>6. ASSUME NEW k \in StoreKey, RemoveEntry(c, StoreRoot(draw), k) PROVE IInv' /\ CInv'
  <2> DEFINE u == Reads(t, PresenceReads(p, k))
             x == Clear(u, {EntryKey(p, k)})
             v == Add(x, SizeKey(p), -1)
             w == IF EntryKey(p, k) \in DOMAIN t.view THEN v ELSE u
  <2>1. t.ok /\ Submits(c, w)
    BY <1>6 DEF RemoveEntry, t
  <2>2. Storing(w, t, rows, p)
    <3> HIDE DEF p
    <3> QED BY <1>2, RemoveStores
  <2> HIDE DEF p
  <2>3. Made(u) /\ u.auto = t.auto
    BY <1>2, ReadsIs
  <2> HIDE DEF u
  <2>4. x.auto = u.auto /\ v.auto = x.auto
    BY <2>3 DEF Clear, Add, Made
  <2> QED BY <1>4, <2>1, <2>2, <2>3, <2>4 DEF p
<1>7. ASSUME ClearStore(c, StoreRoot(draw)) PROVE IInv' /\ CInv'
  <2> DEFINE v == Clear(t, {EntryKey(p, k) : k \in StoreKey})
             w == Put(v, SizeKey(p), 0)
  <2>1. t.ok /\ Submits(c, w)
    BY <1>7 DEF ClearStore, t
  <2>2. Storing(w, t, rows, p)
    <3> HIDE DEF p
    <3> QED BY <1>2, ClearStores
  <2> HIDE DEF p
  <2>3. w.auto = t.auto
    BY <1>2 DEF Clear, Put, Made
  <2> QED BY <1>4, <2>1, <2>2, <2>3 DEF p
<1> QED BY <1>1, <1>5, <1>6, <1>7

-----------------------------------------------------------------------------
(* Theorems                                                                 *)

\* The database keeps its tree, its owners and its sizes, the mutations of every
\* open transaction keep their meaning, and the prefixes it chose stay apart
\* from those of all nodes but the ones it may overlap, through any step of any
\* client, as long as no commit gives a prefix to a second directory: one that
\* was allocated, and given by hand to another since.
THEOREM StaysSound == Spec /\ PrefixesGivenOnce => [](IInv /\ CInv)
<1>1. Init => IInv /\ CInv
  BY Initially DEF Init, CInv, Open
<1>2. IInv /\ CInv /\ [Next]_vars /\ [NoneTwice]_vars => IInv' /\ CInv'
  <2> SUFFICES ASSUME IInv, CInv, [Next]_vars, [NoneTwice]_vars PROVE IInv' /\ CInv'
    OBVIOUS
  <2>1. ASSUME NEW c \in Client, NEW path \in Path, NEW opt \in Options, NEW draw \in Draws,
               CreateDirectory(c, path, opt.tag, opt.manual, opt.open, draw)
        PROVE  IInv' /\ CInv'
    BY <2>1, CreationSubmits
  <2>2. ASSUME NEW c \in Client, NEW path \in Path, RemoveDirectory(c, path)
        PROVE  IInv' /\ CInv'
    BY <2>2, RemovalSubmits
  <2>3. ASSUME NEW c \in Client, NEW old \in Path, NEW new \in Path, MoveDirectory(c, old, new)
        PROVE  IInv' /\ CInv'
    BY <2>3, MoveSubmits
  <2>4. ASSUME NEW c \in Client,
               \/ \E k \in StoreKey, draw \in Draws :
                    SetEntry(c, StoreRoot(draw), k) \/ RemoveEntry(c, StoreRoot(draw), k)
               \/ \E draw \in Draws : ClearStore(c, StoreRoot(draw))
        PROVE  IInv' /\ CInv'
    BY <2>4, StoreSubmits
  <2>5. CASE UNCHANGED vars
    BY <2>5, Unchanged DEF vars, CInv, Open
  <2>6. ASSUME NEW c \in Client, Commit(c) PROVE IInv' /\ CInv'
    <3>1. CASE NoneTwice
      BY <2>6, <3>1, Committed, CommittedChooses
    <3> QED BY <2>5, <3>1
  <2>7. ASSUME NEW c \in Client, Abort(c) PROVE IInv' /\ CInv'
    <3>1. rows' = rows /\ txn' = [txn EXCEPT ![c] = None] /\ DOMAIN txn = Client
      BY <2>7 DEF Abort, IInv
    <3>2. \A d \in Open' : d \in Open /\ txn'[d] = txn[d]
      BY <3>1 DEF Open
    <3>3. CInv'
      BY <3>1, <3>2 DEF CInv
    <3> QED BY <2>7, <3>3, Aborted
  <2> QED BY <2>1, <2>2, <2>3, <2>4, <2>5, <2>6, <2>7 DEF Next, Operation
<1> QED BY <1>1, <1>2, PTL DEF Spec, PrefixesGivenOnce

\* No link names a node that is gone and no two name the same, however
\* creations, moves and removals of its relatives race, as long as no commit
\* gives a prefix to a second directory.
THEOREM NoDanglingLink == Spec /\ PrefixesGivenOnce => [](Linked(rows) /\ OneParent(rows))
<1>1. IInv => Linked(rows) /\ OneParent(rows)
  BY DEF IInv
<1> QED BY <1>1, StaysSound, PTL

\* However creations, moves and removals of directories race, those of a layer
\* form one tree, and nested layers exist below live partitions only, as long
\* as no commit gives a prefix to a second directory.
THEOREM TreeStaysOK == Spec /\ PrefixesGivenOnce => []TreeOK
<1>1. IInv => TreeOK
  <2> SUFFICES ASSUME IInv PROVE TreeOK
    OBVIOUS
  <2>1. ASSUME NEW L \in Layers, NEW p \in Live(L) PROVE p \in Reached(L)
    BY DEF IInv, Reaching, Live, Reached
  <2>2. ASSUME NEW L \in Layers, NEW p \in Reached(L) PROVE p \in Live(L)
    <3>1. Live(L) \in SUBSET PrefixesOf(L)
      BY DEF Live
    <3>2. \A q \in PrefixesOf(L) \cup {RootNode(L)} : ChildrenOf(rows, L, q) \subseteq Live(L)
      BY DEF IInv, Linked, LinkKeys, ChildrenOf, Live
    <3>3. ChildrenOf(rows, L, RootNode(L)) \subseteq Live(L) /\ Closed(rows, L, Live(L))
      BY <3>1, <3>2 DEF Closed
    <3> QED BY <3>1, <3>3 DEF Reached
  <2>3. ASSUME NEW L \in Layers, NEW j \in Links(L), NEW k \in Links(L), rows[j] = rows[k]
        PROVE  j = k
    <3>1. Links(L) \subseteq LinkKeys(L) \cap DOMAIN rows
      BY DEF Links, Live, LinkKeys
    <3> QED BY <2>3, <3>1 DEF IInv, OneParent
  <2>4. ASSUME NEW L \in Layers, NEW p \in PrefixesOf(L) \ Live(L)
        PROVE  ChildRange(L, p) \cap DOMAIN rows = {}
    BY DEF IInv, Rooted, Live
  <2>5. ASSUME NEW L \in RootPrefix \ Partitions PROVE LayerRange[L] \cap DOMAIN rows = {}
    BY PrefixFacts DEF IInv, Nested, Partitions, Live
  <2>6. \A L \in Layers : Live(L) = Reached(L)
    BY <2>1, <2>2
  <2> QED BY <2>3, <2>4, <2>5, <2>6 DEF TreeOK
<1> QED BY <1>1, StaysSound, PTL

\* Removing a directory takes its whole content along, and nobody writes
\* below one that is gone: rows are kept below live directories only, as long
\* as no commit gives a prefix to a second directory.
THEOREM RowsKeptByOwners == Spec /\ PrefixesGivenOnce => []RowsOwned
<1>1. IInv => RowsOwned
  <2> SUFFICES ASSUME IInv, NEW L \in Layers, NEW p \in PrefixesOf(L),
                      DirectoryRange(p) \cap DOMAIN rows # {}
               PROVE  \E M \in Layers : p \in Live(M)
    BY DEF RowsOwned
  <2>1. p \in AnyPrefix
    BY PrefixFacts
  <2>2. LiveIn(rows, p)
    BY <2>1 DEF IInv, Owned
  <2> QED BY <2>2 DEF LiveIn, Live
<1> QED BY <1>1, StaysSound, PTL

\* The stored size is the number of entries, whatever sets, removals, clears
\* and changes of directories race, as long as no commit gives a prefix to a
\* second directory.
THEOREM SizeStaysExact == Spec /\ PrefixesGivenOnce => []SizeExact
<1>1. IInv => SizeExact
  <2> SUFFICES ASSUME IInv, NEW L \in Layers, NEW p \in PrefixesOf(L)
               PROVE  Cardinality({k \in StoreKey : EntryKey(p, k) \in DOMAIN rows})
                        = IF SizeKey(p) \in DOMAIN rows THEN rows[SizeKey(p)] ELSE 0
    BY DEF SizeExact
  <2>1. p \in AnyPrefix
    BY PrefixFacts
  <2>2. Cardinality(Entries(rows, p)) = SizeIn(rows, p)
    BY <2>1 DEF IInv, Sized
  <2> QED BY <2>2 DEF Entries, SizeIn
<1> QED BY <1>1, StaysSound, PTL

\* A directory that a commit adds overlaps no other of its layer, but for the
\* cases in which the code does not look: one made by hand since, and a node
\* behind another inside it.  Again no commit gives a prefix to a second
\* directory.
THEOREM NewPrefixesStayFree == Spec /\ PrefixesGivenOnce => NewPrefixesFree
<1> DEFINE A == \A c \in Client : Commit(c) =>
                  \A L \in Layers : \A p \in Given(txn[c], L) :
                    \A q \in Live(L) \cup (Given(txn[c], L) \ {p}) :
                      Overlap(p, q) =>
                        \/ p \in txn[c].auto /\ q \in txn[c].unseen
                        \/ p \notin txn[c].auto
                             /\ \E x \in Live(L) \ {q} : IsPrefix(q, x) /\ Before(x, p)
<1>1. IInv /\ CInv /\ NoneTwice => A
  <2> SUFFICES ASSUME IInv, CInv, NoneTwice, NEW c \in Client, Commit(c), NEW L \in Layers,
                      NEW p \in Given(txn[c], L),
                      NEW q \in Live(L) \cup (Given(txn[c], L) \ {p}), Overlap(p, q)
               PROVE  \/ p \in txn[c].auto /\ q \in txn[c].unseen
                      \/ p \notin txn[c].auto
                           /\ \E x \in Live(L) \ {q} : IsPrefix(q, x) /\ Before(x, p)
    OBVIOUS
  <2> DEFINE t == txn[c]
  <2>1. t # None /\ ~t.conflicted /\ Doubled(t) = {}
    BY DEF Commit, NoneTwice
  <2>2. Sound(t, rows) /\ Chosen(t, rows, t.unseen)
    BY <2>1 DEF IInv, CInv, Open
  <2> HIDE DEF t
  <2>3. /\ p \in PrefixesOf(L) /\ LayerKey(L, p) \in DOMAIN t.puts /\ q \in PrefixesOf(L)
        /\ LayerKey(L, q) \in DOMAIN rows \cup DOMAIN t.puts
    BY DEF Given, Live, t
  <2>4. q # p
    BY <2>2, <2>3 DEF Sound, Creates, Live
  <2>5. \/ p \in t.auto /\ q \in t.unseen
        \/ p \notin t.auto /\ (Absent(t, rows, q) \/ Hidden(t, rows, q, p))
    BY <2>2, <2>3, <2>4 DEF Chosen, Free
  <2>6. CASE p \notin t.auto /\ (Absent(t, rows, q) \/ Hidden(t, rows, q, p))
    <3>1. L = <<>>
      BY <2>2, <2>3, <2>6 DEF Chosen, Drawn
    <3>2. Hidden(t, rows, q, p)
      BY <2>3, <2>6, <3>1 DEF Absent
    <3>3. PICK x \in RootPrefix \ {q} :
            /\ IsPrefix(q, x) /\ Before(x, p)
            /\ NodeRange(<<>>, x) \cap t.reads \cap DOMAIN rows # {}
      BY <3>2 DEF Hidden
    <3>4. x \in Live(L)
      BY <3>1, <3>3, PrefixFacts DEF IInv, Rooted, NodeRange, Live
    <3> QED BY <2>6, <3>3, <3>4 DEF t
  <2> QED BY <2>5, <2>6 DEF t
<1>2. NewPrefixesFree <=> [][A]_vars
  BY DEF NewPrefixesFree
<1> HIDE DEF A
<1> QED BY <1>1, <1>2, StaysSound, PTL DEF PrefixesGivenOnce
=============================================================================
