------------------------ MODULE MessageStorageProofs ------------------------
(***************************************************************************)
(* Theorems about MessageStorage for any messages, requests, replies,      *)
(* addresses and claims: the indexes hold exactly the rows the metadata    *)
(* names, and a poll answers exactly the oldest messages that wait.        *)
(***************************************************************************)
EXTENDS MessageStorage, FiniteSetTheorems, TLAPS

-----------------------------------------------------------------------------
(* The inductive invariant                                                 *)

\* A view of the mailbox and its types.
MailType ==
  [meta : [Message -> Meta \cup {None}], ready : SUBSET Message,
   scheduled : SUBSET (Nat \X Message)]

In(w, m) == w.meta[m] # None

\* The rows of the indexes, message by message.
RowsMatch(w) ==
  /\ \A m \in Message : m \in w.ready <=> In(w, m) /\ w.meta[m].polling = Ready
  /\ \A m \in Message, t \in Nat :
       <<t, m>> \in w.scheduled <=> In(w, m) /\ w.meta[m].polling = t

OrderTotal ==
  /\ \A m, n \in Stored : m # n => (<<m, n>> \in before) # (<<n, m>> \in before)
  /\ \A p \in before : p[1] \in Stored /\ p[2] \in Stored

KeysOwned ==
  /\ \A m \in Stored : KeyOf[m] # None => primary[KeyOf[m]] = m
  /\ \A key \in Key :
       primary[key] # None => primary[key] \in Stored /\ KeyOf[primary[key]] = key

-----------------------------------------------------------------------------
(* What the state of a request says of its messages and replies            *)

Exits(q) == {r \in Reply \ Chunk : ReplyTo[r] = q /\ replied[r] # None}

\* The chunks of a request that wait for an acknowledgement.
Unacked(q) == {r \in Chunk : ReplyTo[r] = q /\ replied[r] = "unacked"}

\* The state names the exit, and counts the chunks that are not acknowledged.
RepliesMatch ==
  \A q \in Request :
    /\ Exits(q) = IF state[q].exitId = None THEN {} ELSE {state[q].exitId}
    /\ IsFiniteSet(Unacked(q)) /\ state[q].unacked = Cardinality(Unacked(q))

\* A message is processed exactly if its request has an exit.
ProcessedMatch ==
  \A m \in Stored : meta[m].processed <=> state[RequestOf[m]].exitId # None

\* While acknowledgements of a request are stored, the state names the last one.
LatestMatch ==
  \A a \in Ack \cap Stored :
    LET latest == state[RequestOf[a]].latestAckId
    IN  /\ latest \in Ack \cap OfRequest(RequestOf[a])
        /\ a = latest \/ <<a, latest>> \in before

\* The polling state is the one the metadata and the state of the request give,
\* or the message was promoted and is looked at with every poll.
PollingMatch ==
  \A m \in Stored :
    meta[m].polling \in {Ready, PollingState(m, meta[m], state[RequestOf[m]])}

IInv ==
  /\ TypeOK /\ RowsMatch(Mail) /\ OrderTotal /\ KeysOwned
  /\ RepliesMatch /\ ProcessedMatch /\ LatestMatch /\ PollingMatch

-----------------------------------------------------------------------------
(* Types                                                                   *)

Polling == Nat \cup {Ready, Blocked}

LEMMA ConstantFacts ==
  /\ None \notin Nat /\ None \notin Message /\ None \notin Reply /\ None \notin Ack
  /\ None \notin Meta /\ None # "unacked" /\ None # "acked"
  /\ Ready \notin Nat /\ Blocked \notin Nat
  /\ None # Ready /\ None # Blocked /\ Ready # Blocked
  /\ Request \subseteq Message /\ Ack \subseteq Message /\ Chunk \subseteq Reply
  /\ \A m \in Message : RequestOf[m] \in Request /\ DeliverAt[m] \in Nat \cup {None}
  /\ \A q \in Request : RequestOf[q] = q
  /\ \A r \in Reply : ReplyTo[r] \in Request
  /\ \A a \in Ack : a \notin Request /\ AckOf[a] \in Reply /\ ReplyTo[AckOf[a]] = RequestOf[a]
  /\ ClaimExpiration \in Nat /\ MaxTime \in Nat
BY MessageAssumption, NoneAssumption

LEMMA MetaFields ==
  ASSUME NEW e \in Meta
  PROVE  /\ e # None /\ e.claimedAt \in Nat \cup {None} /\ e.processed \in BOOLEAN
         /\ e.polling \in Polling
BY NoneAssumption DEF Meta, Polling

LEMMA MetaWith ==
  ASSUME NEW e \in Meta, NEW to \in Polling
  PROVE  LET v == [e EXCEPT !.polling = to]
         IN  /\ v \in Meta /\ v # None
             /\ v.claimedAt = e.claimedAt /\ v.processed = e.processed /\ v.polling = to
BY NoneAssumption DEF Meta, Polling

LEMMA TimerType ==
  ASSUME NEW m \in Message, NEW e \in Meta
  PROVE  Timer(m, e) \in Nat \cup {Ready}
BY ConstantFacts, MetaFields DEF Timer

LEMMA PollingStateType ==
  ASSUME NEW m \in Message, NEW e \in Meta, NEW st
  PROVE  PollingState(m, e, st) \in Polling
BY TimerType DEF PollingState, Polling

\* The polling state depends on the claim and on what blocks, not on itself.
LEMMA PollingStateOf ==
  ASSUME NEW m, NEW e, NEW v, NEW st, v.claimedAt = e.claimedAt, v.processed = e.processed
  PROVE  PollingState(m, v, st) = PollingState(m, e, st)
BY DEF PollingState, BlockedBy, Timer

-----------------------------------------------------------------------------
(* Writes to the polling view                                              *)

\* What a write makes of the view w, message by message.
MovedTo(v, w, ms, e, to) ==
  /\ v \in MailType /\ RowsMatch(v)
  /\ \A m \in ms : /\ v.meta[m] \in Meta /\ v.meta[m] # None
                   /\ v.meta[m].claimedAt = e[m].claimedAt
                   /\ v.meta[m].processed = e[m].processed
                   /\ v.meta[m].polling = to[m]
  /\ \A m \in Message \ ms : v.meta[m] = w.meta[m]

RewrittenTo(v, w, ms, e, st) ==
  /\ v \in MailType /\ RowsMatch(v)
  /\ \A m \in ms : /\ v.meta[m] \in Meta /\ v.meta[m] # None
                   /\ v.meta[m].claimedAt = e[m].claimedAt
                   /\ v.meta[m].processed = e[m].processed
                   /\ v.meta[m].polling = PollingState(m, v.meta[m], st[RequestOf[m]])
  /\ \A m \in Message \ ms : v.meta[m] = w.meta[m]

RemovedTo(v, w, gone) ==
  /\ v \in MailType /\ RowsMatch(v)
  /\ \A m \in Message : v.meta[m] = IF m \in gone THEN None ELSE w.meta[m]

\* setMessagePolling leaves each message in the one index its new polling state
\* names, provided that the metadata it is given has the polling state of the
\* row that exists, or belongs to no message and has none.
LEMMA MovedFacts ==
  ASSUME NEW w \in MailType, RowsMatch(w), NEW ms \in SUBSET Message, NEW e, NEW to,
         \A m \in ms : /\ e[m] \in Meta /\ to[m] \in Polling
                       /\ e[m].polling = IF In(w, m) THEN w.meta[m].polling ELSE Blocked
  PROVE  MovedTo(Moved(w, ms, e, to), w, ms, e, to)
<1> DEFINE v == Moved(w, ms, e, to)
           moved == {m \in ms : e[m].polling # to[m]}
<1>1. /\ v.meta = [m \in Message |-> IF m \in ms THEN [e[m] EXCEPT !.polling = to[m]]
                                     ELSE w.meta[m]]
      /\ v.ready = (w.ready \ moved) \cup {m \in moved : to[m] = Ready}
      /\ v.scheduled = (w.scheduled \ {<<e[m].polling, m>> : m \in moved})
                         \cup {<<to[m], m>> : m \in {n \in moved : to[n] \in Nat}}
      /\ v = [meta |-> v.meta, ready |-> v.ready, scheduled |-> v.scheduled]
  BY DEF Moved, Untimed, MailType
<1> HIDE DEF v
<1>2. \A m \in ms : /\ v.meta[m] \in Meta /\ v.meta[m] # None
                    /\ v.meta[m].claimedAt = e[m].claimedAt
                    /\ v.meta[m].processed = e[m].processed
                    /\ v.meta[m].polling = to[m]
  BY <1>1, MetaWith
<1>3. \A m \in Message \ ms : v.meta[m] = w.meta[m]
  BY <1>1
<1>4. v \in MailType
  <2>1. v.meta \in [Message -> Meta \cup {None}]
    <3>1. w.meta \in [Message -> Meta \cup {None}]
      BY DEF MailType
    <3>2. \A m \in Message : v.meta[m] \in Meta \cup {None}
      BY <1>2, <1>3, <3>1
    <3>3. v.meta = [m \in Message |-> v.meta[m]]
      BY <1>1
    <3> QED BY <3>2, <3>3
  <2>2. v.ready \subseteq Message
    BY <1>1 DEF MailType
  <2>3. w.scheduled \subseteq Nat \X Message
    BY DEF MailType
  <2>4. {<<to[m], m>> : m \in {n \in moved : to[n] \in Nat}} \subseteq Nat \X Message
    OBVIOUS
  <2>5. v.scheduled \subseteq Nat \X Message
    BY <1>1, <2>3, <2>4
  <2> QED BY <1>1, <2>1, <2>2, <2>5 DEF MailType
<1>5. ASSUME NEW m \in Message
      PROVE  m \in v.ready <=> In(v, m) /\ v.meta[m].polling = Ready
  <2>1. CASE m \in moved
    BY <1>1, <1>2, <2>1 DEF In
  <2>2. CASE m \notin moved
    <3>1. m \in v.ready <=> m \in w.ready
      BY <1>1, <2>2
    <3>2. m \in w.ready <=> In(w, m) /\ w.meta[m].polling = Ready
      BY DEF RowsMatch
    <3>3. CASE m \in ms
      BY <1>2, <2>2, <3>1, <3>2, <3>3, ConstantFacts DEF In
    <3>4. CASE m \notin ms
      BY <1>3, <3>1, <3>2, <3>4 DEF In
    <3> QED BY <3>3, <3>4
  <2> QED BY <2>1, <2>2
<1>6. ASSUME NEW m \in Message, NEW t \in Nat
      PROVE  <<t, m>> \in v.scheduled <=> In(v, m) /\ v.meta[m].polling = t
  <2>0. <<t, m>> \in w.scheduled <=> In(w, m) /\ w.meta[m].polling = t
    BY DEF RowsMatch
  <2>1. CASE m \in moved
    <3>1. <<t, m>> \in v.scheduled <=>
            \/ <<t, m>> \in w.scheduled /\ e[m].polling # t
            \/ to[m] = t
      BY <1>1, <2>1
    <3>2. ~(<<t, m>> \in w.scheduled /\ e[m].polling # t)
      BY <2>0, <2>1
    <3> QED BY <1>2, <2>1, <3>1, <3>2 DEF In
  <2>2. CASE m \notin moved
    <3>1. <<t, m>> \in v.scheduled <=> <<t, m>> \in w.scheduled
      BY <1>1, <2>2
    <3>3. CASE m \in ms
      <4>1. to[m] = IF In(w, m) THEN w.meta[m].polling ELSE Blocked
        BY <2>2, <3>3
      <4> QED BY <1>2, <2>0, <3>1, <3>3, <4>1, ConstantFacts DEF In
    <3>4. CASE m \notin ms
      BY <1>3, <2>0, <3>1, <3>4 DEF In
    <3> QED BY <3>3, <3>4
  <2> QED BY <2>1, <2>2
<1>7. RowsMatch(v)
  BY <1>5, <1>6 DEF RowsMatch
<1> QED BY <1>2, <1>3, <1>4, <1>7 DEF v, MovedTo

LEMMA RewrittenFacts ==
  ASSUME NEW w \in MailType, RowsMatch(w), NEW ms \in SUBSET Message, NEW e, NEW st,
         \A m \in ms : /\ e[m] \in Meta
                       /\ e[m].polling = IF In(w, m) THEN w.meta[m].polling ELSE Blocked
  PROVE  RewrittenTo(Rewritten(w, ms, e, st), w, ms, e, st)
<1> DEFINE v == Rewritten(w, ms, e, st)
<1>1. PICK to : to = [m \in ms |-> PollingState(m, e[m], st[RequestOf[m]])]
  OBVIOUS
<1>2. \A m \in ms : to[m] = PollingState(m, e[m], st[RequestOf[m]]) /\ to[m] \in Polling
  BY <1>1, PollingStateType
<1>3. v = Moved(w, ms, e, to)
  BY <1>1 DEF Rewritten
<1> HIDE DEF v
<1>4. \A m \in ms : /\ e[m] \in Meta /\ to[m] \in Polling
                    /\ e[m].polling = IF In(w, m) THEN w.meta[m].polling ELSE Blocked
  BY <1>2
<1>5. MovedTo(v, w, ms, e, to)
  BY <1>3, <1>4, MovedFacts
<1>6. \A m \in ms : v.meta[m].polling = PollingState(m, v.meta[m], st[RequestOf[m]])
  BY <1>2, <1>4, <1>5, PollingStateOf DEF MovedTo
<1> QED BY <1>5, <1>6 DEF v, MovedTo, RewrittenTo

LEMMA RemovedFacts ==
  ASSUME NEW w \in MailType, RowsMatch(w), NEW gone \in SUBSET Message
  PROVE  RemovedTo(Removed(w, gone), w, gone)
<1> DEFINE v == Removed(w, gone)
<1>1. /\ v.meta = [m \in Message |-> IF m \in gone THEN None ELSE w.meta[m]]
      /\ v.ready = w.ready \ gone
      /\ v.scheduled = w.scheduled \ {<<w.meta[m].polling, m>> : m \in gone}
      /\ v = [meta |-> v.meta, ready |-> v.ready, scheduled |-> v.scheduled]
  BY DEF Removed, Untimed
<1> HIDE DEF v
<1>2. v \in MailType
  BY <1>1 DEF MailType
<1>3. \A m \in Message : m \in v.ready <=> In(v, m) /\ v.meta[m].polling = Ready
  BY <1>1 DEF RowsMatch, In
<1>4. ASSUME NEW m \in Message, NEW t \in Nat
      PROVE  <<t, m>> \in v.scheduled <=> In(v, m) /\ v.meta[m].polling = t
  <2>1. <<t, m>> \in w.scheduled <=> In(w, m) /\ w.meta[m].polling = t
    BY DEF RowsMatch
  <2>2. <<t, m>> \in v.scheduled <=>
          <<t, m>> \in w.scheduled /\ ~(m \in gone /\ w.meta[m].polling = t)
    BY <1>1
  <2> QED BY <1>1, <2>1, <2>2 DEF In
<1>5. \A m \in Message : v.meta[m] = IF m \in gone THEN None ELSE w.meta[m]
  BY <1>1
<1> QED BY <1>2, <1>3, <1>4, <1>5 DEF RowsMatch, v, RemovedTo

-----------------------------------------------------------------------------
(* Steps                                                                   *)

LEMMA MailFacts ==
  ASSUME IInv
  PROVE  /\ Mail \in MailType /\ RowsMatch(Mail) /\ Mail.meta = meta /\ Mail.ready = ready
         /\ \A m \in Message : m \in Stored <=> In(Mail, m)
         /\ \A m \in Stored : m \in Message /\ meta[m] \in Meta
BY DEF IInv, TypeOK, Mail, MailType, Stored, In

\* The view a step writes becomes the mailbox.
LEMMA Becomes ==
  ASSUME NEW v \in MailType, RowsMatch(v), MailBecomes(v)
  PROVE  /\ meta' = v.meta /\ meta' \in [Message -> Meta \cup {None}]
         /\ ready' \subseteq Message /\ scheduled' \subseteq Nat \X Message
         /\ RowsMatch(Mail)'
         /\ \A m \in Message : m \in Stored' <=> v.meta[m] # None
<1>1. meta' = v.meta /\ ready' = v.ready /\ scheduled' = v.scheduled
  BY DEF MailBecomes
<1>2. /\ v.meta \in [Message -> Meta \cup {None}] /\ v.ready \subseteq Message
      /\ v.scheduled \subseteq Nat \X Message
  BY DEF MailType
<1>3. RowsMatch(Mail)'
  BY <1>1 DEF RowsMatch, In, Mail
<1> QED BY <1>1, <1>2, <1>3 DEF Stored

\* A step that changes the claims and the polling states alone.
LEMMA QuietFacts ==
  ASSUME IInv, NEW v \in MailType, RowsMatch(v), MailBecomes(v),
         UNCHANGED <<before, primary, state, replied>>, clock' \in 0..MaxTime,
         \A m \in Message :
           \/ v.meta[m] = meta[m]
           \/ /\ meta[m] # None /\ v.meta[m] # None
              /\ v.meta[m].processed = meta[m].processed
              /\ v.meta[m].polling
                   \in {Ready, PollingState(m, v.meta[m], state[RequestOf[m]])}
  PROVE  IInv'
<1>1. /\ meta' = v.meta /\ meta' \in [Message -> Meta \cup {None}]
      /\ ready' \subseteq Message /\ scheduled' \subseteq Nat \X Message /\ RowsMatch(Mail)'
  BY Becomes
<1>2. \A m \in Message : m \in Stored' <=> m \in Stored
  BY <1>1 DEF Stored
<1>3. Stored' = Stored
  BY <1>2 DEF Stored
<1>4. TypeOK'
  BY <1>1 DEF IInv, TypeOK
<1>5. OrderTotal' /\ KeysOwned'
  BY <1>3 DEF IInv, OrderTotal, KeysOwned
<1>6. RepliesMatch'
  BY DEF IInv, RepliesMatch, Exits, Unacked
<1>7. ProcessedMatch'
  BY <1>1, <1>3 DEF IInv, ProcessedMatch, Stored
<1>8. LatestMatch'
  BY <1>3 DEF IInv, LatestMatch, OfRequest
<1>9. PollingMatch'
  BY <1>1, <1>3 DEF IInv, PollingMatch, Stored
<1> QED BY <1>1, <1>4, <1>5, <1>6, <1>7, <1>8, <1>9 DEF IInv

\* Removing messages, with their places in the order and their keys.
LEMMA WithoutFacts ==
  ASSUME IInv, NEW gone \in SUBSET Stored, Stored' = Stored \ gone,
         before' = OrderWithout(gone), primary' = PrimaryWithout(gone)
  PROVE  /\ OrderTotal' /\ KeysOwned'
         /\ before' \subseteq Message \X Message /\ primary' \in [Key -> Message \cup {None}]
<1>1. OrderTotal' /\ before' \subseteq Message \X Message
  BY DEF IInv, TypeOK, OrderTotal, OrderWithout
<1>2. primary' \in [Key -> Message \cup {None}]
  BY DEF IInv, TypeOK, PrimaryWithout
<1>3. ASSUME NEW m \in Stored', KeyOf[m] # None
      PROVE  primary'[KeyOf[m]] = m
  <2>1. m \in Stored /\ m \notin gone /\ KeyOf[m] \in Key
    BY <1>3 DEF Stored, Key
  <2>2. \A n \in gone : KeyOf[n] # KeyOf[m]
    BY <1>3, <2>1 DEF IInv, KeysOwned
  <2> QED BY <1>3, <2>1, <2>2 DEF IInv, KeysOwned, PrimaryWithout
<1>4. ASSUME NEW key \in Key, primary'[key] # None
      PROVE  primary'[key] \in Stored' /\ KeyOf[primary'[key]] = key
  <2>1. primary'[key] = primary[key] /\ \A m \in gone : KeyOf[m] # key
    BY <1>4 DEF PrimaryWithout
  <2>2. primary[key] \in Stored /\ KeyOf[primary[key]] = key
    BY <1>4, <2>1 DEF IInv, KeysOwned
  <2> QED BY <2>1, <2>2
<1> QED BY <1>1, <1>2, <1>3, <1>4 DEF KeysOwned

LEMMA StateFacts ==
  ASSUME IInv, NEW q \in Request
  PROVE  /\ state[q].lastReplyId \in Reply \cup {None}
         /\ state[q].exitId \in Reply \cup {None}
         /\ state[q].latestAckId \in Ack \cup {None}
         /\ state[q].unacked \in Nat
BY DEF IInv, TypeOK, RequestState

\* A message is saved under an id and a key that nothing is stored under.
LEMMA NotDuplicate ==
  ASSUME IInv, NEW m \in Message, ~Duplicate(m)
  PROVE  meta[m] = None /\ (KeyOf[m] # None => primary[KeyOf[m]] = None)
<1>1. CASE KeyOf[m] = None
  BY <1>1 DEF Duplicate
<1>2. CASE KeyOf[m] # None
  <2>1. KeyOf[m] \in Key
    BY <1>2 DEF Key
  <2>2. primary[KeyOf[m]] # None => meta[primary[KeyOf[m]]] # None
    BY <2>1 DEF IInv, KeysOwned, Stored
  <2> QED BY <1>2, <2>2 DEF Duplicate
<1> QED BY <1>1, <1>2

LEMMA AcknowledgedFacts ==
  ASSUME IInv, NEW m \in Message, Acknowledges(m),
         replied' = [replied EXCEPT ![AckOf[m]] = "acked"]
  PROVE  /\ \A q \in Request : Exits(q)' = Exits(q)
         /\ \A q \in Request \ {RequestOf[m]} : Unacked(q)' = Unacked(q)
         /\ state[RequestOf[m]].unacked > 0
         /\ IsFiniteSet(Unacked(RequestOf[m])')
         /\ Cardinality(Unacked(RequestOf[m])') = state[RequestOf[m]].unacked - 1
<1> DEFINE q0 == RequestOf[m]
           r == AckOf[m]
<1>1. /\ r \in Chunk /\ r \in Reply /\ ReplyTo[r] = q0 /\ q0 \in Request
      /\ replied[r] = "unacked" /\ "acked" # "unacked"
  BY ConstantFacts DEF Acknowledges
<1>2. \A s \in Reply : replied'[s] = IF s = r THEN "acked" ELSE replied[s]
  BY DEF IInv, TypeOK
<1> HIDE DEF r, q0
<1>3. \A q \in Request : Exits(q)' = Exits(q)
  BY <1>1, <1>2 DEF Exits
<1>4. \A q \in Request \ {q0} : Unacked(q)' = Unacked(q)
  BY <1>1, <1>2, ConstantFacts DEF Unacked
<1>5. Unacked(q0)' = Unacked(q0) \ {r} /\ r \in Unacked(q0)
  BY <1>1, <1>2, ConstantFacts DEF Unacked
<1>6. IsFiniteSet(Unacked(q0)) /\ state[q0].unacked = Cardinality(Unacked(q0))
  BY <1>1 DEF IInv, RepliesMatch
<1>7. /\ IsFiniteSet(Unacked(q0) \ {r})
      /\ Cardinality(Unacked(q0) \ {r}) = Cardinality(Unacked(q0)) - 1
  BY <1>5, <1>6, FS_RemoveElement
<1>8. Cardinality(Unacked(q0) \ {r}) \in Nat /\ Cardinality(Unacked(q0)) \in Nat
  BY <1>6, <1>7, FS_CardinalityType
<1>9. /\ state[q0].unacked > 0 /\ IsFiniteSet(Unacked(q0)')
      /\ Cardinality(Unacked(q0)') = state[q0].unacked - 1
  BY <1>5, <1>6, <1>7, <1>8
<1> QED BY <1>3, <1>4, <1>9 DEF q0

\* The states after a save: only that of an acknowledged request changes.
LEMMA StateSavedFacts ==
  ASSUME IInv, NEW m \in Message
  PROVE  /\ StateSaved(m) \in [Request -> RequestState]
         /\ \A q \in Request :
              /\ StateSaved(m)[q].exitId = state[q].exitId
              /\ (m \notin Ack \/ q # RequestOf[m]) => StateSaved(m)[q] = state[q]
         /\ m \in Ack => /\ StateSaved(m)[RequestOf[m]].latestAckId = m
                         /\ StateSaved(m)[RequestOf[m]].unacked =
                              IF Acknowledges(m) THEN state[RequestOf[m]].unacked - 1
                              ELSE state[RequestOf[m]].unacked
<1> DEFINE q0 == RequestOf[m]
           st == StateSaved(m)
<1>0. q0 \in Request /\ state \in [Request -> RequestState]
  BY ConstantFacts DEF IInv, TypeOK
<1>1. CASE m \notin Ack
  BY <1>0, <1>1 DEF StateSaved
<1>2. CASE m \in Ack
  <2>1. PICK u : u = state[q0].unacked - (IF Acknowledges(m) THEN 1 ELSE 0)
    OBVIOUS
  <2>2. state[q0].unacked \in Nat /\ (Acknowledges(m) => state[q0].unacked > 0)
    <3>1. ASSUME Acknowledges(m)
          PROVE  AckOf[m] \in Unacked(q0)
      BY <1>0, <3>1, ConstantFacts DEF Acknowledges, Unacked
    <3>2. IsFiniteSet(Unacked(q0)) /\ state[q0].unacked = Cardinality(Unacked(q0))
      BY <1>0 DEF IInv, RepliesMatch
    <3>3. Cardinality(Unacked(q0)) \in Nat
      BY <3>2, FS_CardinalityType
    <3>4. ASSUME Acknowledges(m)
          PROVE  Cardinality(Unacked(q0)) # 0
      BY <3>1, <3>2, <3>4, FS_EmptySet
    <3> QED BY <3>2, <3>3, <3>4
  <2>3. u \in Nat
    BY <2>1, <2>2
  <2>4. st = [state EXCEPT ![q0] = [@ EXCEPT !.latestAckId = m, !.unacked = u]]
    BY <1>0, <1>2, <2>1 DEF StateSaved, RequestState
  <2>5. \A q \in Request :
          st[q] = IF q = q0 THEN [state[q0] EXCEPT !.latestAckId = m, !.unacked = u]
                  ELSE state[q]
    BY <1>0, <2>4
  <2>6. st \in [Request -> RequestState]
    <3>1. state \in [Request -> RequestState] /\ m \in Ack
      BY <1>0, <1>2
    <3>2. [state[q0] EXCEPT !.latestAckId = m, !.unacked = u] \in RequestState
      BY <1>0, <2>3, <3>1 DEF RequestState
    <3> QED BY <1>0, <2>4, <3>1, <3>2
  <2>7. /\ st[q0].latestAckId = m /\ st[q0].unacked = u
        /\ st[q0].exitId = state[q0].exitId
    BY <1>0, <2>5 DEF RequestState
  <2>8. u = IF Acknowledges(m) THEN state[q0].unacked - 1 ELSE state[q0].unacked
    BY <2>1, <2>2
  <2> HIDE DEF st, q0
  <2>9. /\ st \in [Request -> RequestState]
        /\ \A q \in Request : /\ st[q].exitId = state[q].exitId
                              /\ (m \notin Ack \/ q # q0) => st[q] = state[q]
        /\ st[q0].latestAckId = m
        /\ st[q0].unacked =
             IF Acknowledges(m) THEN state[q0].unacked - 1 ELSE state[q0].unacked
    BY <1>2, <2>5, <2>6, <2>7, <2>8
  <2> QED BY <2>9 DEF st, q0
<1> QED BY <1>1, <1>2

LEMMA SaveEnvelopeStep ==
  ASSUME IInv, NEW m \in Message, SaveEnvelope(m)
  PROVE  IInv'
<1> DEFINE st == StateSaved(m)
           e  == [meta EXCEPT ![m] = NewMeta(m)]
           v  == Rewritten(Mail, Touched(m), e, st)
<1>1. meta[m] = None /\ m \notin Stored /\ (KeyOf[m] # None => primary[KeyOf[m]] = None)
  BY NotDuplicate DEF SaveEnvelope, Stored
<1>2. /\ RequestOf[m] \in Request /\ meta \in [Message -> Meta \cup {None}]
      /\ state[RequestOf[m]].exitId \in Reply \cup {None}
  BY ConstantFacts, StateFacts DEF IInv, TypeOK
<1>3. NewMeta(m) \in Meta /\ NewMeta(m).polling = Blocked
      /\ (NewMeta(m).processed <=> state[RequestOf[m]].exitId # None)
  BY DEF NewMeta, Meta
<1>4. /\ Touched(m) \subseteq Message
      /\ \A x \in Touched(m) : x = m \/ (x \in Stored /\ m \in Ack /\ RequestOf[x] = RequestOf[m])
      /\ m \in Touched(m) /\ (m \in Ack => OfRequest(RequestOf[m]) \subseteq Touched(m))
  BY DEF Touched, OfRequest, Stored
<1>5. \A x \in Message : e[x] = IF x = m THEN NewMeta(m) ELSE meta[x]
  BY <1>2
<1> HIDE DEF e, st
<1>6. /\ Mail \in MailType /\ RowsMatch(Mail) /\ Mail.meta = meta
      /\ \A x \in Message : x \in Stored <=> In(Mail, x)
      /\ \A x \in Stored : x \in Message /\ meta[x] \in Meta
  BY MailFacts
<1>7. \A x \in Touched(m) :
        /\ e[x] \in Meta
        /\ e[x].polling = IF In(Mail, x) THEN Mail.meta[x].polling ELSE Blocked
  BY <1>1, <1>3, <1>4, <1>5, <1>6
<1>8. RewrittenTo(v, Mail, Touched(m), e, st)
  BY <1>4, <1>6, <1>7, RewrittenFacts
<1>9. MailBecomes(v)
  BY DEF SaveEnvelope, e, st
<1> HIDE DEF v
<1>10. /\ v \in MailType /\ RowsMatch(v)
       /\ \A x \in Touched(m) : /\ v.meta[x] \in Meta /\ v.meta[x] # None
                                /\ v.meta[x].processed = e[x].processed
                                /\ v.meta[x].polling = PollingState(x, v.meta[x], st[RequestOf[x]])
       /\ \A x \in Message \ Touched(m) : v.meta[x] = meta[x]
  BY <1>6, <1>8 DEF RewrittenTo
<1>11. /\ meta' = v.meta /\ meta' \in [Message -> Meta \cup {None}]
       /\ ready' \subseteq Message /\ scheduled' \subseteq Nat \X Message /\ RowsMatch(Mail)'
       /\ \A x \in Message : x \in Stored' <=> v.meta[x] # None
  BY <1>9, <1>10, Becomes
<1>12. Stored' = Stored \cup {m}
  <2>1. ASSUME NEW x \in Message
        PROVE  x \in Stored' <=> x \in Stored \/ x = m
    BY <1>4, <1>10, <1>11 DEF Stored
  <2> QED BY <1>6, <2>1 DEF Stored
<1>13. /\ state' = st /\ before' = before \cup {<<n, m>> : n \in Stored}
       /\ primary' = [k \in Key |-> IF k = KeyOf[m] THEN m ELSE primary[k]]
       /\ UNCHANGED clock
       /\ replied' = IF Acknowledges(m) THEN [replied EXCEPT ![AckOf[m]] = "acked"] ELSE replied
  BY DEF SaveEnvelope, st
<1>14. /\ st \in [Request -> RequestState]
       /\ \A q \in Request :
            /\ st[q].exitId = state[q].exitId
            /\ (m \notin Ack \/ q # RequestOf[m]) => st[q] = state[q]
       /\ m \in Ack => /\ st[RequestOf[m]].latestAckId = m
                       /\ st[RequestOf[m]].unacked =
                            IF Acknowledges(m) THEN state[RequestOf[m]].unacked - 1
                            ELSE state[RequestOf[m]].unacked
  BY StateSavedFacts DEF st
<1>15. TypeOK'
  <2>1. replied' \in [Reply -> {None, "unacked", "acked"}]
    BY <1>13 DEF IInv, TypeOK
  <2>2. before' \subseteq Message \X Message /\ primary' \in [Key -> Message \cup {None}]
    BY <1>6, <1>13 DEF IInv, TypeOK
  <2> QED BY <1>11, <1>13, <1>14, <2>1, <2>2 DEF IInv, TypeOK
<1>16. OrderTotal'
  BY <1>1, <1>12, <1>13 DEF IInv, OrderTotal
<1>17. KeysOwned'
  <2>1. ASSUME NEW x \in Stored', KeyOf[x] # None
        PROVE  primary'[KeyOf[x]] = x
    <3>1. x \in Message /\ KeyOf[x] \in Key
      BY <1>12, <1>6, <2>1 DEF Key
    <3>2. CASE x = m
      BY <1>13, <3>1, <3>2
    <3>3. CASE x # m
      <4>1. x \in Stored /\ primary[KeyOf[x]] = x /\ x # None
        BY <1>12, <2>1, <3>1, <3>3, ConstantFacts DEF IInv, KeysOwned
      <4>2. KeyOf[x] # KeyOf[m]
        BY <1>1, <2>1, <4>1
      <4> QED BY <1>13, <3>1, <4>1, <4>2
    <3> QED BY <3>2, <3>3
  <2>2. ASSUME NEW key \in Key, primary'[key] # None
        PROVE  primary'[key] \in Stored' /\ KeyOf[primary'[key]] = key
    BY <1>12, <1>13, <2>2 DEF IInv, KeysOwned
  <2> QED BY <2>1, <2>2 DEF KeysOwned
<1>18. RepliesMatch'
  <2>1. CASE Acknowledges(m)
    <3>0. replied' = [replied EXCEPT ![AckOf[m]] = "acked"] /\ m \in Ack
      BY <1>13, <2>1 DEF Acknowledges
    <3>1. /\ \A q \in Request : Exits(q)' = Exits(q)
          /\ \A q \in Request \ {RequestOf[m]} : Unacked(q)' = Unacked(q)
          /\ IsFiniteSet(Unacked(RequestOf[m])')
          /\ Cardinality(Unacked(RequestOf[m])') = state[RequestOf[m]].unacked - 1
      BY <2>1, <3>0, AcknowledgedFacts
    <3>2. ASSUME NEW q \in Request
          PROVE  /\ Exits(q)' = IF state'[q].exitId = None THEN {} ELSE {state'[q].exitId}
                 /\ IsFiniteSet(Unacked(q)') /\ state'[q].unacked = Cardinality(Unacked(q)')
      <4>1. CASE q = RequestOf[m]
        BY <1>13, <1>14, <2>1, <3>0, <3>1, <4>1 DEF IInv, RepliesMatch
      <4>2. CASE q # RequestOf[m]
        BY <1>13, <1>14, <3>1, <4>2 DEF IInv, RepliesMatch
      <4> QED BY <4>1, <4>2
    <3> QED BY <3>2 DEF RepliesMatch
  <2>2. CASE ~Acknowledges(m)
    <3>1. \A q \in Request : Exits(q)' = Exits(q) /\ Unacked(q)' = Unacked(q)
      BY <1>13, <2>2 DEF Exits, Unacked
    <3>2. \A q \in Request :
            state'[q].exitId = state[q].exitId /\ state'[q].unacked = state[q].unacked
      BY <1>13, <1>14, <2>2
    <3> QED BY <3>1, <3>2 DEF IInv, RepliesMatch
  <2> QED BY <2>1, <2>2
<1>19. ProcessedMatch'
  <2>1. ASSUME NEW x \in Stored'
        PROVE  meta'[x].processed <=> state'[RequestOf[x]].exitId # None
    <3>1. x \in Message /\ RequestOf[x] \in Request
      BY <1>6, <1>12, ConstantFacts
    <3>2. meta'[x].processed = e[x].processed
      BY <1>4, <1>5, <1>10, <1>11, <3>1
    <3> QED BY <1>3, <1>5, <1>12, <1>13, <1>14, <3>1, <3>2 DEF IInv, ProcessedMatch
  <2> QED BY <2>1 DEF ProcessedMatch
<1>20. LatestMatch'
  <2>1. ASSUME NEW a \in Ack \cap Stored'
        PROVE  LET latest == state'[RequestOf[a]].latestAckId
               IN  /\ latest \in Ack \cap OfRequest(RequestOf[a])'
                   /\ a = latest \/ <<a, latest>> \in before'
    <3>1. a \in Message /\ RequestOf[a] \in Request
      BY <1>6, <1>12, ConstantFacts
    <3>2. CASE m \in Ack /\ RequestOf[a] = RequestOf[m]
      <4>1. state'[RequestOf[a]].latestAckId = m
        BY <1>13, <1>14, <3>2
      <4>2. m \in OfRequest(RequestOf[a])'
        BY <1>12, <3>2 DEF OfRequest
      <4> QED BY <1>12, <1>13, <3>2, <4>1, <4>2
    <3>3. CASE ~(m \in Ack /\ RequestOf[a] = RequestOf[m])
      <4>1. state'[RequestOf[a]] = state[RequestOf[a]] /\ a \in Ack \cap Stored
        BY <1>12, <1>13, <1>14, <3>1, <3>3
      <4>2. OfRequest(RequestOf[a]) \subseteq OfRequest(RequestOf[a])' /\ before \subseteq before'
        BY <1>12, <1>13 DEF OfRequest
      <4>3. /\ state[RequestOf[a]].latestAckId \in Ack \cap OfRequest(RequestOf[a])
            /\ \/ a = state[RequestOf[a]].latestAckId
               \/ <<a, state[RequestOf[a]].latestAckId>> \in before
        BY <4>1 DEF IInv, LatestMatch
      <4> QED BY <4>1, <4>2, <4>3
    <3> QED BY <3>2, <3>3
  <2> QED BY <2>1 DEF LatestMatch
<1>21. PollingMatch'
  <2>1. ASSUME NEW x \in Stored'
        PROVE  meta'[x].polling \in {Ready, PollingState(x, meta'[x], state'[RequestOf[x]])}
    <3>1. x \in Message /\ RequestOf[x] \in Request
      BY <1>6, <1>12, ConstantFacts
    <3>2. CASE x \in Touched(m)
      BY <1>10, <1>11, <1>13, <3>2
    <3>3. CASE x \notin Touched(m)
      <4>1. meta'[x] = meta[x] /\ x \in Stored
        BY <1>4, <1>10, <1>11, <1>12, <3>1, <3>3
      <4>2. state'[RequestOf[x]] = state[RequestOf[x]]
        BY <1>4, <1>13, <1>14, <3>1, <3>3, <4>1 DEF OfRequest
      <4> QED BY <4>1, <4>2 DEF IInv, PollingMatch
    <3> QED BY <3>2, <3>3
  <2> QED BY <2>1 DEF PollingMatch
<1> QED BY <1>11, <1>15, <1>16, <1>17, <1>18, <1>19, <1>20, <1>21 DEF IInv

LEMMA StateRepliedFacts ==
  ASSUME IInv, NEW r \in Reply
  PROVE  /\ StateReplied(r) \in [Request -> RequestState]
         /\ \A q \in Request \ {ReplyTo[r]} : StateReplied(r)[q] = state[q]
         /\ StateReplied(r)[ReplyTo[r]].latestAckId = state[ReplyTo[r]].latestAckId
         /\ StateReplied(r)[ReplyTo[r]].exitId =
              IF r \in Chunk THEN state[ReplyTo[r]].exitId ELSE r
         /\ StateReplied(r)[ReplyTo[r]].unacked =
              IF r \in Chunk THEN state[ReplyTo[r]].unacked + 1 ELSE state[ReplyTo[r]].unacked
<1>1. ReplyTo[r] \in Request /\ state \in [Request -> RequestState]
  BY ConstantFacts DEF IInv, TypeOK
<1>2. state[ReplyTo[r]] \in RequestState
  BY <1>1
<1>3. CASE r \in Chunk
  BY <1>1, <1>2, <1>3 DEF StateReplied, RequestState
<1>4. CASE r \notin Chunk
  BY <1>1, <1>2, <1>4 DEF StateReplied, RequestState
<1> QED BY <1>3, <1>4

\* The state counts one chunk more, or names the only exit there ever was.
LEMMA SaveReplyReplies ==
  ASSUME IInv, NEW r \in Reply, SaveReply(r)
  PROVE  RepliesMatch'
<1> DEFINE q0 == ReplyTo[r]
           st == StateReplied(r)
<1>1. /\ q0 \in Request /\ replied[r] = None /\ state' = st
      /\ \A s \in Reply : replied'[s] = IF s = r THEN "unacked" ELSE replied[s]
  BY ConstantFacts DEF SaveReply, IInv, TypeOK
<1>2. /\ st \in [Request -> RequestState]
      /\ \A q \in Request \ {q0} : st[q] = state[q]
      /\ st[q0].exitId = IF r \in Chunk THEN state[q0].exitId ELSE r
      /\ st[q0].unacked = IF r \in Chunk THEN state[q0].unacked + 1 ELSE state[q0].unacked
  BY StateRepliedFacts
<1>3. \A q \in Request \ {q0} : Exits(q)' = Exits(q) /\ Unacked(q)' = Unacked(q)
  BY <1>1, ConstantFacts DEF Exits, Unacked
<1>4. /\ Exits(q0) = IF state[q0].exitId = None THEN {} ELSE {state[q0].exitId}
      /\ IsFiniteSet(Unacked(q0)) /\ state[q0].unacked = Cardinality(Unacked(q0))
  BY <1>1 DEF IInv, RepliesMatch
<1>5. CASE r \in Chunk
  <2>1. Exits(q0)' = Exits(q0)
    BY <1>1, <1>5 DEF Exits
  <2>2. Unacked(q0)' = Unacked(q0) \cup {r} /\ r \notin Unacked(q0)
    BY <1>1, <1>5, ConstantFacts DEF Unacked
  <2>3. /\ IsFiniteSet(Unacked(q0) \cup {r})
        /\ Cardinality(Unacked(q0) \cup {r}) = Cardinality(Unacked(q0)) + 1
    BY <1>4, <2>2, FS_AddElement
  <2>4. ASSUME NEW q \in Request
        PROVE  /\ Exits(q)' = IF state'[q].exitId = None THEN {} ELSE {state'[q].exitId}
               /\ IsFiniteSet(Unacked(q)') /\ state'[q].unacked = Cardinality(Unacked(q)')
    <3>1. CASE q = q0
      <4>1. Exits(q0)' = IF state'[q0].exitId = None THEN {} ELSE {state'[q0].exitId}
        BY <1>1, <1>2, <1>4, <1>5, <2>1
      <4>2. IsFiniteSet(Unacked(q0)') /\ state'[q0].unacked = Cardinality(Unacked(q0)')
        BY <1>1, <1>2, <1>4, <1>5, <2>2, <2>3
      <4> QED BY <3>1, <4>1, <4>2
    <3>2. CASE q # q0
      BY <1>1, <1>2, <1>3, <3>2 DEF IInv, RepliesMatch
    <3> QED BY <3>1, <3>2
  <2> QED BY <2>4 DEF RepliesMatch
<1>6. CASE r \notin Chunk
  <2>1. Exits(q0) = {}
    <3>1. \A s \in Reply : replied[s] # None /\ ReplyTo[s] = q0 => Slot(s) # {}
      BY <1>6 DEF SaveReply, Unique, Slot
    <3> QED BY <3>1 DEF Exits, Slot
  <2>2. Exits(q0)' = {r}
    BY <1>1, <1>6, <2>1, ConstantFacts DEF Exits
  <2>3. Unacked(q0)' = Unacked(q0)
    BY <1>1, <1>6, ConstantFacts DEF Unacked
  <2>4. ASSUME NEW q \in Request
        PROVE  /\ Exits(q)' = IF state'[q].exitId = None THEN {} ELSE {state'[q].exitId}
               /\ IsFiniteSet(Unacked(q)') /\ state'[q].unacked = Cardinality(Unacked(q)')
    <3>1. CASE q = q0
      <4>1. r # None
        BY ConstantFacts
      <4>2. state'[q0].exitId = r /\ state'[q0].unacked = state[q0].unacked
        BY <1>1, <1>2, <1>6
      <4>3. Exits(q0)' = IF state'[q0].exitId = None THEN {} ELSE {state'[q0].exitId}
        BY <2>2, <4>1, <4>2
      <4>4. IsFiniteSet(Unacked(q0)') /\ state'[q0].unacked = Cardinality(Unacked(q0)')
        BY <1>4, <2>3, <4>2
      <4> QED BY <3>1, <4>3, <4>4
    <3>2. CASE q # q0
      BY <1>1, <1>2, <1>3, <3>2 DEF IInv, RepliesMatch
    <3> QED BY <3>1, <3>2
  <2> QED BY <2>4 DEF RepliesMatch
<1> QED BY <1>5, <1>6

\* The messages of the request are rewritten, unless they were blocked already.
LEMMA SaveReplyStep ==
  ASSUME IInv, NEW r \in Reply, SaveReply(r)
  PROVE  IInv'
<1> DEFINE q0   == ReplyTo[r]
           st   == StateReplied(r)
           ms   == OfRequest(q0)
           e    == MetaReplied(r)
           v    == Rewritten(Mail, ms, e, st)
           same == r \in Chunk /\ state[q0].unacked > 0
<1>1. /\ q0 \in Request /\ state' = st /\ state[q0].unacked \in Nat
      /\ UNCHANGED <<before, primary, clock>>
      /\ replied' = [replied EXCEPT ![r] = "unacked"]
  BY ConstantFacts, StateFacts DEF SaveReply
<1>2. /\ st \in [Request -> RequestState]
      /\ \A q \in Request \ {q0} : st[q] = state[q]
      /\ st[q0].latestAckId = state[q0].latestAckId
      /\ st[q0].exitId = IF r \in Chunk THEN state[q0].exitId ELSE r
      /\ st[q0].unacked = IF r \in Chunk THEN state[q0].unacked + 1 ELSE state[q0].unacked
  BY StateRepliedFacts
<1>3. /\ Mail \in MailType /\ RowsMatch(Mail) /\ Mail.meta = meta
      /\ \A x \in Message : x \in Stored <=> In(Mail, x)
      /\ \A x \in Stored : x \in Message /\ meta[x] \in Meta
      /\ meta \in [Message -> Meta \cup {None}]
  BY MailFacts DEF IInv, TypeOK
<1>4. /\ ms \subseteq Message /\ \A x \in Message : x \in ms <=> x \in Stored /\ RequestOf[x] = q0
  BY DEF OfRequest, Stored
<1>5. \A x \in ms : /\ e[x] \in Meta /\ e[x].polling = meta[x].polling
                    /\ e[x].processed <=> r \notin Chunk \/ meta[x].processed
  <2>1. \A x \in ms : e[x] = IF r \notin Chunk THEN [meta[x] EXCEPT !.processed = TRUE] ELSE meta[x]
    BY <1>4 DEF MetaReplied
  <2>2. \A x \in ms : meta[x] \in Meta
    BY <1>3, <1>4
  <2> QED BY <2>1, <2>2 DEF Meta
<1>6. IF same THEN UNCHANGED <<meta, ready, scheduled>> ELSE MailBecomes(v)
  BY <1>1 DEF SaveReply
<1>7. \A x \in ms : /\ e[x] \in Meta
                    /\ e[x].polling = IF In(Mail, x) THEN Mail.meta[x].polling ELSE Blocked
  BY <1>3, <1>4, <1>5
<1> HIDE DEF ms, e, st
<1>8. RewrittenTo(v, Mail, ms, e, st)
  BY <1>3, <1>4, <1>7, RewrittenFacts
<1> HIDE DEF v
<1>9. /\ v \in MailType /\ RowsMatch(v)
      /\ \A x \in ms : /\ v.meta[x] \in Meta /\ v.meta[x] # None
                       /\ v.meta[x].processed = e[x].processed
                       /\ v.meta[x].polling = PollingState(x, v.meta[x], st[RequestOf[x]])
      /\ \A x \in Message \ ms : v.meta[x] = meta[x]
  BY <1>3, <1>8 DEF RewrittenTo
<1>10. ~same => meta' = v.meta
  BY <1>6, <1>9, Becomes
<1>11. /\ meta' \in [Message -> Meta \cup {None}]
       /\ ready' \subseteq Message /\ scheduled' \subseteq Nat \X Message
  BY <1>6, <1>9, Becomes DEF IInv, TypeOK
<1>12. RowsMatch(Mail)'
  <2>1. CASE same
    BY <1>6, <2>1 DEF IInv, RowsMatch, In, Mail
  <2>2. CASE ~same
    BY <1>6, <1>9, <2>2, Becomes
  <2> QED BY <2>1, <2>2
<1>13. \A x \in Message :
         /\ x \notin ms => meta'[x] = meta[x]
         /\ x \in ms => meta'[x] # None /\ (meta'[x].processed <=> r \notin Chunk \/ meta[x].processed)
  BY <1>3, <1>4, <1>5, <1>6, <1>9, <1>10 DEF Stored
<1>14. Stored' = Stored
  BY <1>3, <1>4, <1>13 DEF Stored
<1>15. TypeOK'
  <2>1. replied' \in [Reply -> {None, "unacked", "acked"}]
    BY <1>1 DEF IInv, TypeOK
  <2> QED BY <1>1, <1>2, <1>11, <2>1 DEF IInv, TypeOK
<1>16. OrderTotal' /\ KeysOwned'
  BY <1>1, <1>14 DEF IInv, OrderTotal, KeysOwned
<1>17. RepliesMatch'
  BY SaveReplyReplies
<1>18. ProcessedMatch'
  <2>1. ASSUME NEW x \in Stored'
        PROVE  meta'[x].processed <=> state'[RequestOf[x]].exitId # None
    <3>1. x \in Message /\ x \in Stored /\ RequestOf[x] \in Request
      BY <1>3, <1>14, ConstantFacts
    <3>2. CASE x \in ms
      BY <1>1, <1>2, <1>4, <1>13, <3>1, <3>2, ConstantFacts DEF IInv, ProcessedMatch
    <3>3. CASE x \notin ms
      BY <1>1, <1>2, <1>4, <1>13, <3>1, <3>3 DEF IInv, ProcessedMatch
    <3> QED BY <3>2, <3>3
  <2> QED BY <2>1 DEF ProcessedMatch
<1>19. LatestMatch'
  <2>1. \A q \in Request : state'[q].latestAckId = state[q].latestAckId
    BY <1>1, <1>2
  <2>2. \A a \in Ack \cap Stored : RequestOf[a] \in Request
    BY ConstantFacts
  <2> QED BY <1>1, <1>14, <2>1, <2>2 DEF IInv, LatestMatch, OfRequest
<1>20. PollingMatch'
  <2>1. ASSUME NEW x \in Stored'
        PROVE  meta'[x].polling \in {Ready, PollingState(x, meta'[x], state'[RequestOf[x]])}
    <3>1. x \in Message /\ x \in Stored /\ RequestOf[x] \in Request
      BY <1>3, <1>14, ConstantFacts
    <3>2. meta[x].polling \in {Ready, PollingState(x, meta[x], state[RequestOf[x]])}
      BY <3>1 DEF IInv, PollingMatch
    <3>3. CASE x \notin ms
      BY <1>1, <1>2, <1>4, <1>13, <3>1, <3>2, <3>3
    <3>4. CASE x \in ms /\ ~same
      BY <1>1, <1>9, <1>10, <3>4
    <3>5. CASE x \in ms /\ same
      <4>1. meta'[x] = meta[x] /\ state[q0].unacked > 0 /\ state'[q0].unacked > 0
        BY <1>1, <1>2, <1>6, <3>5
      <4>2. RequestOf[x] = q0
        BY <1>4, <3>1, <3>5
      <4> QED BY <3>2, <4>1, <4>2 DEF PollingState, BlockedBy
    <3> QED BY <3>3, <3>4, <3>5
  <2> QED BY <2>1 DEF PollingMatch
<1> QED BY <1>12, <1>15, <1>16, <1>17, <1>18, <1>19, <1>20 DEF IInv

LEMMA StateClearedFacts ==
  ASSUME IInv, NEW q \in Request
  PROVE  /\ StateCleared(q) \in [Request -> RequestState]
         /\ \A p \in Request \ {q} : StateCleared(q)[p] = state[p]
         /\ StateCleared(q)[q].latestAckId = state[q].latestAckId
         /\ StateCleared(q)[q].exitId = None
         /\ StateCleared(q)[q].unacked = state[q].unacked
<1>1. state \in [Request -> RequestState] /\ state[q] \in RequestState
  BY DEF IInv, TypeOK
<1> QED BY <1>1 DEF StateCleared, RequestState

LEMMA ClearRepliesReplies ==
  ASSUME IInv, NEW q \in Request, NEW expected, ClearReplies(q, expected)
  PROVE  RepliesMatch'
<1> DEFINE st == StateCleared(q)
<1>1. /\ state' = st
      /\ \A r \in Reply : replied'[r] = IF r = state[q].exitId THEN None ELSE replied[r]
  BY DEF ClearReplies, IInv, TypeOK
<1>2. /\ \A p \in Request \ {q} : st[p] = state[p]
      /\ st[q].exitId = None /\ st[q].unacked = state[q].unacked
  BY StateClearedFacts
<1>3. Exits(q) = IF state[q].exitId = None THEN {} ELSE {state[q].exitId}
  BY DEF IInv, RepliesMatch
<1>4. \A r \in Reply : r = state[q].exitId => r \in Exits(q)
  BY <1>3, ConstantFacts
<1>5. \A r \in Reply : r = state[q].exitId => r \notin Chunk /\ ReplyTo[r] = q
  BY <1>4 DEF Exits
<1>6. \A p \in Request : Unacked(p)' = Unacked(p)
  BY <1>1, <1>5, ConstantFacts DEF Unacked
<1>7. \A p \in Request \ {q} : Exits(p)' = Exits(p)
  BY <1>1, <1>5, ConstantFacts DEF Exits
<1>8. Exits(q)' = {}
  <2>1. \A r \in Exits(q) : r = state[q].exitId
    BY <1>3
  <2> QED BY <1>1, <2>1, ConstantFacts DEF Exits
<1>9. ASSUME NEW p \in Request
      PROVE  /\ Exits(p)' = IF state'[p].exitId = None THEN {} ELSE {state'[p].exitId}
             /\ IsFiniteSet(Unacked(p)') /\ state'[p].unacked = Cardinality(Unacked(p)')
  <2>1. CASE p = q
    BY <1>1, <1>2, <1>6, <1>8, <2>1 DEF IInv, RepliesMatch
  <2>2. CASE p # q
    BY <1>1, <1>2, <1>6, <1>7, <2>2 DEF IInv, RepliesMatch
  <2> QED BY <2>1, <2>2
<1> QED BY <1>9 DEF RepliesMatch

\* The messages that stay are open again; those that go are interrupts.
LEMMA ClearRepliesStep ==
  ASSUME IInv, NEW q \in Request, NEW expected, ClearReplies(q, expected)
  PROVE  IInv'
<1> DEFINE gone == IF expected = None THEN OfRequest(q) \ (Request \cup Ack) ELSE {}
           kept == OfRequest(q) \ gone
           st   == StateCleared(q)
           e    == Reopened(q)
           u    == Rewritten(Mail, kept, e, st)
           v    == Removed(u, gone)
<1>1. /\ state' = st /\ MailBecomes(v) /\ before' = OrderWithout(gone)
      /\ primary' = PrimaryWithout(gone) /\ UNCHANGED clock
      /\ replied' = [r \in Reply |-> IF r = state[q].exitId THEN None ELSE replied[r]]
  BY DEF ClearReplies
<1>2. /\ st \in [Request -> RequestState]
      /\ \A p \in Request \ {q} : st[p] = state[p]
      /\ st[q].latestAckId = state[q].latestAckId /\ st[q].exitId = None
  BY StateClearedFacts
<1>3. /\ Mail \in MailType /\ RowsMatch(Mail) /\ Mail.meta = meta
      /\ \A x \in Message : x \in Stored <=> In(Mail, x)
      /\ \A x \in Stored : x \in Message /\ meta[x] \in Meta
      /\ meta \in [Message -> Meta \cup {None}]
  BY MailFacts DEF IInv, TypeOK
<1>4. /\ gone \subseteq OfRequest(q) /\ gone \cap Ack = {} /\ kept = OfRequest(q) \ gone
      /\ OfRequest(q) \subseteq Stored
      /\ \A x \in Stored : x \in OfRequest(q) <=> RequestOf[x] = q
  BY DEF OfRequest
<1>5. \A x \in OfRequest(q) : e[x] \in Meta /\ e[x].polling = meta[x].polling /\ ~e[x].processed
  <2>1. \A x \in OfRequest(q) : e[x] = [meta[x] EXCEPT !.processed = FALSE, !.claimedAt = None]
    BY <1>3, <1>4 DEF Reopened
  <2>2. \A x \in OfRequest(q) : meta[x] \in Meta
    BY <1>3, <1>4
  <2> QED BY <2>1, <2>2 DEF Meta
<1> HIDE DEF gone, st, e
<1>6. \A x \in kept : /\ e[x] \in Meta
                      /\ e[x].polling = IF In(Mail, x) THEN Mail.meta[x].polling ELSE Blocked
  BY <1>3, <1>4, <1>5
<1>7. kept \subseteq Message /\ gone \subseteq Message
  BY <1>3, <1>4
<1> HIDE DEF kept
<1>8. RewrittenTo(u, Mail, kept, e, st)
  BY <1>3, <1>6, <1>7, RewrittenFacts
<1> HIDE DEF u
<1>9. /\ u \in MailType /\ RowsMatch(u)
      /\ \A x \in kept : /\ u.meta[x] # None /\ u.meta[x].processed = e[x].processed
                         /\ u.meta[x].polling = PollingState(x, u.meta[x], st[RequestOf[x]])
      /\ \A x \in Message \ kept : u.meta[x] = meta[x]
  BY <1>3, <1>8 DEF RewrittenTo
<1>10. RemovedTo(v, u, gone)
  BY <1>7, <1>9, RemovedFacts
<1> HIDE DEF v
<1>11. /\ v \in MailType /\ RowsMatch(v)
       /\ \A x \in Message : v.meta[x] = IF x \in gone THEN None ELSE u.meta[x]
  BY <1>10 DEF RemovedTo
<1>12. /\ meta' = v.meta /\ meta' \in [Message -> Meta \cup {None}]
       /\ ready' \subseteq Message /\ scheduled' \subseteq Nat \X Message /\ RowsMatch(Mail)'
       /\ \A x \in Message : x \in Stored' <=> v.meta[x] # None
  BY <1>1, <1>11, Becomes
<1>13. Stored' = Stored \ gone
  <2>1. ASSUME NEW x \in Message
        PROVE  x \in Stored' <=> x \in Stored /\ x \notin gone
    <3>1. CASE x \in kept
      BY <1>4, <1>9, <1>11, <1>12, <3>1
    <3>2. CASE x \notin kept
      BY <1>9, <1>11, <1>12, <3>2 DEF Stored
    <3> QED BY <3>1, <3>2
  <2> QED BY <1>3, <2>1 DEF Stored
<1>14. /\ OrderTotal' /\ KeysOwned'
       /\ before' \subseteq Message \X Message /\ primary' \in [Key -> Message \cup {None}]
  <2>1. gone \subseteq Stored
    BY <1>4
  <2> QED BY <1>1, <1>13, <2>1, WithoutFacts
<1>15. TypeOK'
  <2>1. replied' \in [Reply -> {None, "unacked", "acked"}]
    BY <1>1 DEF IInv, TypeOK
  <2> QED BY <1>1, <1>2, <1>12, <1>14, <2>1 DEF IInv, TypeOK
<1>16. RepliesMatch'
  BY ClearRepliesReplies
<1>17. ProcessedMatch'
  <2>1. ASSUME NEW x \in Stored'
        PROVE  meta'[x].processed <=> state'[RequestOf[x]].exitId # None
    <3>1. x \in Message /\ x \in Stored /\ x \notin gone /\ RequestOf[x] \in Request
      BY <1>3, <1>13, ConstantFacts
    <3>2. CASE x \in kept
      BY <1>1, <1>2, <1>4, <1>5, <1>9, <1>11, <1>12, <3>1, <3>2
    <3>3. CASE x \notin kept
      <4>1. meta'[x] = meta[x] /\ RequestOf[x] # q
        BY <1>4, <1>9, <1>11, <1>12, <3>1, <3>3
      <4> QED BY <1>1, <1>2, <3>1, <4>1 DEF IInv, ProcessedMatch
    <3> QED BY <3>2, <3>3
  <2> QED BY <2>1 DEF ProcessedMatch
<1>18. LatestMatch'
  <2>1. \A p \in Request : state'[p].latestAckId = state[p].latestAckId
    BY <1>1, <1>2
  <2>2. ASSUME NEW a \in Ack \cap Stored'
        PROVE  LET latest == state'[RequestOf[a]].latestAckId
               IN  /\ latest \in Ack \cap OfRequest(RequestOf[a])'
                   /\ a = latest \/ <<a, latest>> \in before'
    <3> DEFINE latest == state[RequestOf[a]].latestAckId
    <3>1. a \in Ack \cap Stored /\ state'[RequestOf[a]].latestAckId = latest
      BY <1>13, <2>1, ConstantFacts
    <3>2. latest \in Ack \cap OfRequest(RequestOf[a]) /\ (a = latest \/ <<a, latest>> \in before)
      BY <3>1 DEF IInv, LatestMatch
    <3> HIDE DEF latest
    <3>3. latest \in Stored' /\ RequestOf[latest] = RequestOf[a]
      BY <1>4, <1>13, <3>2 DEF OfRequest
    <3>4. a = latest \/ <<a, latest>> \in before'
      BY <1>1, <1>4, <3>1, <3>2 DEF OrderWithout
    <3> QED BY <3>1, <3>2, <3>3, <3>4 DEF OfRequest
  <2> QED BY <2>2 DEF LatestMatch
<1>19. PollingMatch'
  <2>1. ASSUME NEW x \in Stored'
        PROVE  meta'[x].polling \in {Ready, PollingState(x, meta'[x], state'[RequestOf[x]])}
    <3>1. x \in Message /\ x \in Stored /\ x \notin gone /\ RequestOf[x] \in Request
      BY <1>3, <1>13, ConstantFacts
    <3>2. CASE x \in kept
      BY <1>1, <1>9, <1>11, <1>12, <3>1, <3>2
    <3>3. CASE x \notin kept
      <4>1. meta'[x] = meta[x] /\ RequestOf[x] # q
        BY <1>4, <1>9, <1>11, <1>12, <3>1, <3>3
      <4>2. state'[RequestOf[x]] = state[RequestOf[x]]
        BY <1>1, <1>2, <3>1, <4>1
      <4> QED BY <3>1, <4>1, <4>2 DEF IInv, PollingMatch
    <3> QED BY <3>2, <3>3
  <2> QED BY <2>1 DEF PollingMatch
<1> QED BY <1>12, <1>14, <1>15, <1>16, <1>17, <1>18, <1>19 DEF IInv

\* The mailbox of an entity goes with the requests its messages are about.
LEMMA ClearAddressStep ==
  ASSUME IInv, NEW a \in Address, ClearAddress(a)
  PROVE  IInv'
<1> DEFINE gone == {m \in Stored : EntityOf[AddressOf[m]] = EntityOf[a]}
           v    == Removed(Mail, gone)
<1>1. /\ MailBecomes(v) /\ before' = OrderWithout(gone) /\ primary' = PrimaryWithout(gone)
      /\ state' = [q \in Request |-> IF q \in gone THEN InitialState ELSE state[q]]
      /\ replied' = [r \in Reply |-> IF ReplyTo[r] \in gone THEN None ELSE replied[r]]
      /\ UNCHANGED clock
  BY DEF ClearAddress
<1>2. /\ Mail \in MailType /\ RowsMatch(Mail) /\ Mail.meta = meta
      /\ \A x \in Stored : x \in Message /\ meta[x] \in Meta
      /\ meta \in [Message -> Meta \cup {None}] /\ gone \subseteq Stored
  BY MailFacts DEF IInv, TypeOK
<1>3. \A x \in Stored : x \notin gone => RequestOf[x] \in Request /\ RequestOf[x] \notin gone
  BY <1>2, ConstantFacts, EntityAssumption
<1> HIDE DEF gone
<1>4. gone \subseteq Message
  BY <1>2
<1>5. RemovedTo(v, Mail, gone)
  BY <1>2, <1>4, RemovedFacts
<1> HIDE DEF v
<1>6. /\ v \in MailType /\ RowsMatch(v)
      /\ \A x \in Message : v.meta[x] = IF x \in gone THEN None ELSE meta[x]
  BY <1>2, <1>5 DEF RemovedTo
<1>7. /\ meta' = v.meta /\ meta' \in [Message -> Meta \cup {None}]
      /\ ready' \subseteq Message /\ scheduled' \subseteq Nat \X Message /\ RowsMatch(Mail)'
      /\ \A x \in Message : x \in Stored' <=> v.meta[x] # None
  BY <1>1, <1>6, Becomes
<1>8. Stored' = Stored \ gone
  <2>1. \A x \in Message : x \in Stored' <=> x \in Stored /\ x \notin gone
    BY <1>6, <1>7 DEF Stored
  <2> QED BY <1>2, <2>1 DEF Stored
<1>9. /\ OrderTotal' /\ KeysOwned'
      /\ before' \subseteq Message \X Message /\ primary' \in [Key -> Message \cup {None}]
  BY <1>1, <1>2, <1>8, WithoutFacts
<1>10. \A x \in Stored' : /\ x \in Stored /\ meta'[x] = meta[x]
                          /\ RequestOf[x] \in Request
                          /\ state'[RequestOf[x]] = state[RequestOf[x]]
  BY <1>1, <1>2, <1>3, <1>6, <1>7, <1>8
<1>11. TypeOK'
  <2>1. InitialState \in RequestState
    BY DEF InitialState, RequestState
  <2>2. state' \in [Request -> RequestState]
    BY <1>1, <2>1 DEF IInv, TypeOK
  <2>3. replied' \in [Reply -> {None, "unacked", "acked"}]
    BY <1>1 DEF IInv, TypeOK
  <2> QED BY <1>1, <1>7, <1>9, <2>2, <2>3 DEF IInv, TypeOK
<1>12. RepliesMatch'
  <2>1. ASSUME NEW q \in Request
        PROVE  /\ Exits(q)' = IF state'[q].exitId = None THEN {} ELSE {state'[q].exitId}
               /\ IsFiniteSet(Unacked(q)') /\ state'[q].unacked = Cardinality(Unacked(q)')
    <3>1. CASE q \in gone
      <4>1. state'[q].exitId = None /\ state'[q].unacked = 0
        BY <1>1, <3>1 DEF InitialState
      <4>2. Exits(q)' = {} /\ Unacked(q)' = {}
        BY <1>1, <3>1, ConstantFacts DEF Exits, Unacked
      <4> QED BY <4>1, <4>2, FS_EmptySet
    <3>2. CASE q \notin gone
      <4>1. state'[q] = state[q]
        BY <1>1, <3>2
      <4>2. Exits(q)' = Exits(q) /\ Unacked(q)' = Unacked(q)
        BY <1>1, <3>2, ConstantFacts DEF Exits, Unacked
      <4> QED BY <4>1, <4>2 DEF IInv, RepliesMatch
    <3> QED BY <3>1, <3>2
  <2> QED BY <2>1 DEF RepliesMatch
<1>13. ProcessedMatch'
  BY <1>10 DEF IInv, ProcessedMatch
<1>14. LatestMatch'
  <2>1. ASSUME NEW x \in Ack \cap Stored'
        PROVE  LET latest == state'[RequestOf[x]].latestAckId
               IN  /\ latest \in Ack \cap OfRequest(RequestOf[x])'
                   /\ x = latest \/ <<x, latest>> \in before'
    <3> DEFINE latest == state[RequestOf[x]].latestAckId
    <3>1. x \in Ack \cap Stored /\ state'[RequestOf[x]].latestAckId = latest /\ x \notin gone
      BY <1>8, <1>10
    <3>2. latest \in Ack \cap OfRequest(RequestOf[x]) /\ (x = latest \/ <<x, latest>> \in before)
      BY <3>1 DEF IInv, LatestMatch
    <3> HIDE DEF latest
    <3>3. latest \in Stored /\ RequestOf[latest] = RequestOf[x]
      BY <3>2 DEF OfRequest
    <3>4. latest \notin gone
      <4>1. EntityOf[AddressOf[latest]] = EntityOf[AddressOf[x]]
        BY <1>2, <3>1, <3>3, EntityAssumption
      <4> QED BY <3>1, <3>3, <4>1 DEF gone
    <3>5. x = latest \/ <<x, latest>> \in before'
      BY <1>1, <3>1, <3>2, <3>4 DEF OrderWithout
    <3> QED BY <1>8, <3>1, <3>2, <3>3, <3>4, <3>5 DEF OfRequest
  <2> QED BY <2>1 DEF LatestMatch
<1>15. PollingMatch'
  BY <1>10 DEF IInv, PollingMatch
<1> QED BY <1>7, <1>9, <1>11, <1>12, <1>13, <1>14, <1>15 DEF IInv

-----------------------------------------------------------------------------
(* Polling and resets                                                      *)

\* What promoteDue leaves: the due messages are ready, all others untouched.
LEMMA PromotedFacts ==
  ASSUME IInv, NEW scope, NEW now, NEW limit
  PROVE  LET w   == Promoted(scope, now, limit)
             due == Due(scope, now, limit)
         IN  /\ w \in MailType /\ RowsMatch(w) /\ due \subseteq Stored
             /\ \A m \in due : /\ w.meta[m] \in Meta /\ w.meta[m].polling = Ready
                               /\ w.meta[m].claimedAt = meta[m].claimedAt
                               /\ w.meta[m].processed = meta[m].processed
             /\ \A m \in Message \ due : w.meta[m] = meta[m]
<1> DEFINE w   == Promoted(scope, now, limit)
           due == Due(scope, now, limit)
<1>1. PICK to : to = [m \in due |-> Ready]
  OBVIOUS
<1>2. w = Moved(Mail, due, meta, to)
  BY <1>1 DEF Promoted
<1>3. due \subseteq Stored /\ due \subseteq Message
  BY DEF Due, Stored
<1>4. /\ Mail \in MailType /\ RowsMatch(Mail) /\ Mail.meta = meta
      /\ \A x \in Message : x \in Stored <=> In(Mail, x)
      /\ \A x \in Stored : x \in Message /\ meta[x] \in Meta
  BY MailFacts
<1> HIDE DEF w, due
<1>5. \A m \in due : to[m] = Ready
  BY <1>1
<1>6. \A m \in due : /\ meta[m] \in Meta /\ to[m] \in Polling
                     /\ meta[m].polling = IF In(Mail, m) THEN Mail.meta[m].polling ELSE Blocked
  BY <1>3, <1>4, <1>5 DEF Polling
<1>7. MovedTo(w, Mail, due, meta, to)
  BY <1>2, <1>3, <1>4, <1>6, MovedFacts
<1>8. /\ w \in MailType /\ RowsMatch(w) /\ due \subseteq Stored
      /\ \A m \in due : /\ w.meta[m] \in Meta /\ w.meta[m].polling = Ready
                        /\ w.meta[m].claimedAt = meta[m].claimedAt
                        /\ w.meta[m].processed = meta[m].processed
      /\ \A m \in Message \ due : w.meta[m] = meta[m]
  BY <1>3, <1>4, <1>5, <1>7 DEF MovedTo
<1> QED BY <1>8 DEF w, due

\* A message that was promoted and not selected stays ready; one that was
\* selected gets the timer of its claim.
LEMMA PollStep ==
  ASSUME IInv, NEW scope, NEW now \in Nat, NEW limit, Poll(scope, now, limit)
  PROVE  IInv'
<1> DEFINE w   == Promoted(scope, now, limit)
           due == Due(scope, now, limit)
           ms  == Selected(scope, now, limit)
           e   == [m \in Message |-> IF m \in ms THEN [w.meta[m] EXCEPT !.claimedAt = now]
                                     ELSE w.meta[m]]
           v   == Rewritten(w, ms, e, state)
<1>1. MailBecomes(v) /\ UNCHANGED <<before, primary, state, replied, clock>>
  BY DEF Poll
<1>2. /\ w \in MailType /\ RowsMatch(w) /\ due \subseteq Stored
      /\ \A m \in due : /\ w.meta[m] \in Meta /\ w.meta[m].polling = Ready
                        /\ w.meta[m].claimedAt = meta[m].claimedAt
                        /\ w.meta[m].processed = meta[m].processed
      /\ \A m \in Message \ due : w.meta[m] = meta[m]
  BY PromotedFacts
<1>3. ms \subseteq w.ready
  BY DEF Selected, Oldest
<1> HIDE DEF w, due, ms
<1>4. ms \subseteq Message /\ \A m \in ms : In(w, m) /\ w.meta[m] \in Meta
  BY <1>2, <1>3 DEF MailType, RowsMatch, In
<1>5. \A m \in ms : /\ e[m] \in Meta /\ e[m].polling = w.meta[m].polling
                    /\ e[m].processed = w.meta[m].processed
  <2>1. \A m \in ms : e[m] = [w.meta[m] EXCEPT !.claimedAt = now]
    BY <1>4
  <2> QED BY <1>4, <2>1 DEF Meta
<1> HIDE DEF e
<1>6. \A m \in ms : /\ e[m] \in Meta
                    /\ e[m].polling = IF In(w, m) THEN w.meta[m].polling ELSE Blocked
  BY <1>4, <1>5
<1>7. RewrittenTo(v, w, ms, e, state)
  BY <1>2, <1>4, <1>6, RewrittenFacts
<1> HIDE DEF v
<1>8. /\ v \in MailType /\ RowsMatch(v)
      /\ \A m \in ms : /\ v.meta[m] # None /\ v.meta[m].processed = e[m].processed
                       /\ v.meta[m].polling = PollingState(m, v.meta[m], state[RequestOf[m]])
      /\ \A m \in Message \ ms : v.meta[m] = w.meta[m]
  BY <1>7 DEF RewrittenTo
<1>9. ASSUME NEW m \in Message
      PROVE  \/ v.meta[m] = meta[m]
             \/ /\ meta[m] # None /\ v.meta[m] # None
                /\ v.meta[m].processed = meta[m].processed
                /\ v.meta[m].polling
                     \in {Ready, PollingState(m, v.meta[m], state[RequestOf[m]])}
  <2>1. /\ m \in due => meta[m] # None
        /\ m \in ms => m \in due \/ meta[m] # None
    BY <1>2, <1>4 DEF Stored, In
  <2>2. CASE m \in ms
    <3>1. w.meta[m].processed = meta[m].processed
      BY <1>2
    <3> QED BY <1>5, <1>8, <2>1, <2>2, <3>1
  <2>3. CASE m \notin ms /\ m \in due
    BY <1>2, <1>8, <2>1, <2>3, MetaFields
  <2>4. CASE m \notin ms /\ m \notin due
    BY <1>2, <1>8, <2>4
  <2> QED BY <2>2, <2>3, <2>4
<1>10. clock' \in 0..MaxTime /\ UNCHANGED <<before, primary, state, replied>>
  BY <1>1 DEF IInv, TypeOK
<1> QED BY <1>1, <1>8, <1>9, <1>10, QuietFacts

LEMMA ResetStep ==
  ASSUME IInv, NEW ms \in SUBSET Stored, Reset(ms)
  PROVE  IInv'
<1> DEFINE e == [m \in Message |-> IF m \in ms THEN [meta[m] EXCEPT !.claimedAt = None]
                                   ELSE meta[m]]
           v == Rewritten(Mail, ms, e, state)
<1>1. MailBecomes(v) /\ UNCHANGED <<before, primary, state, replied, clock>>
  BY DEF Reset
<1>2. /\ Mail \in MailType /\ RowsMatch(Mail) /\ Mail.meta = meta
      /\ \A x \in Message : x \in Stored <=> In(Mail, x)
      /\ \A x \in Stored : x \in Message /\ meta[x] \in Meta /\ meta[x] # None
      /\ ms \subseteq Message
  BY MailFacts DEF Stored
<1>3. \A m \in ms : /\ e[m] \in Meta /\ e[m].polling = meta[m].polling
                    /\ e[m].processed = meta[m].processed
  <2>1. \A m \in ms : e[m] = [meta[m] EXCEPT !.claimedAt = None] /\ meta[m] \in Meta
    BY <1>2
  <2> QED BY <2>1 DEF Meta
<1> HIDE DEF e
<1>4. \A m \in ms : /\ e[m] \in Meta
                    /\ e[m].polling = IF In(Mail, m) THEN Mail.meta[m].polling ELSE Blocked
  BY <1>2, <1>3
<1>5. RewrittenTo(v, Mail, ms, e, state)
  BY <1>2, <1>4, RewrittenFacts
<1> HIDE DEF v
<1>6. /\ v \in MailType /\ RowsMatch(v)
      /\ \A m \in Message :
           \/ v.meta[m] = meta[m]
           \/ /\ meta[m] # None /\ v.meta[m] # None
              /\ v.meta[m].processed = meta[m].processed
              /\ v.meta[m].polling
                   \in {Ready, PollingState(m, v.meta[m], state[RequestOf[m]])}
  BY <1>2, <1>3, <1>5 DEF RewrittenTo
<1>7. clock' \in 0..MaxTime /\ UNCHANGED <<before, primary, state, replied>>
  BY <1>1 DEF IInv, TypeOK
<1> QED BY <1>1, <1>6, <1>7, QuietFacts

LEMMA UnchangedMail ==
  ASSUME IInv, UNCHANGED <<meta, ready, scheduled, before, primary, state, replied>>,
         clock' \in 0..MaxTime
  PROVE  IInv'
<1>1. /\ Mail \in MailType /\ RowsMatch(Mail) /\ Mail.meta = meta
  BY MailFacts
<1>2. MailBecomes(Mail)
  BY DEF MailBecomes, Mail
<1> QED BY <1>1, <1>2, QuietFacts

-----------------------------------------------------------------------------
(* The invariant                                                           *)

LEMMA InitInv == Init => IInv
<1> SUFFICES ASSUME Init PROVE IInv
  OBVIOUS
<1>1. Stored = {}
  BY DEF Init, Stored
<1>2. TypeOK
  <2>1. InitialState \in RequestState
    BY DEF InitialState, RequestState
  <2> QED BY <2>1, MessageAssumption DEF Init, TypeOK
<1>3. RowsMatch(Mail)
  BY DEF Init, RowsMatch, Mail, In
<1>4. OrderTotal /\ KeysOwned /\ ProcessedMatch /\ LatestMatch /\ PollingMatch
  BY <1>1 DEF Init, OrderTotal, KeysOwned, ProcessedMatch, LatestMatch, PollingMatch
<1>5. RepliesMatch
  <2>1. \A q \in Request : Exits(q) = {} /\ Unacked(q) = {}
    BY ConstantFacts DEF Init, Exits, Unacked
  <2> QED BY <2>1, FS_EmptySet DEF Init, InitialState, RepliesMatch
<1> QED BY <1>2, <1>3, <1>4, <1>5 DEF IInv

LEMMA NextInv == IInv /\ [Next]_vars => IInv'
<1> SUFFICES ASSUME IInv, [Next]_vars PROVE IInv'
  OBVIOUS
<1>0. clock \in 0..MaxTime /\ MaxTime \in Nat
  BY ConstantFacts DEF IInv, TypeOK
<1>1. ASSUME NEW m \in Message, SaveEnvelope(m) PROVE IInv'
  BY <1>1, SaveEnvelopeStep
<1>2. ASSUME NEW r \in Reply, SaveReply(r) PROVE IInv'
  BY <1>2, SaveReplyStep
<1>3. ASSUME NEW q \in Request, NEW expected \in Reply \cup {None}, ClearReplies(q, expected)
      PROVE  IInv'
  BY <1>3, ClearRepliesStep
<1>4. ASSUME NEW scope \in Scope, NEW now \in 0..clock, NEW limit \in Limits,
             Poll(scope, now, limit)
      PROVE  IInv'
  <2>1. now \in Nat
    BY <1>0
  <2> QED BY <1>4, <2>1, PollStep
<1>5. ASSUME NEW q \in Request, ResetRequest(q) PROVE IInv'
  <2>1. {q} \in SUBSET Stored /\ Reset({q})
    BY <1>5, ConstantFacts DEF ResetRequest, Stored
  <2> QED BY <2>1, ResetStep
<1>6. ASSUME NEW scope \in Scope, ResetAddresses(scope) PROVE IInv'
  <2> DEFINE ms == {m \in Stored : /\ AddressOf[m] \in scope
                                   /\ ~meta[m].processed
                                   /\ meta[m].claimedAt # None}
  <2>1. ms \in SUBSET Stored /\ Reset(ms)
    BY <1>6 DEF ResetAddresses
  <2> HIDE DEF ms
  <2> QED BY <2>1, ResetStep
<1>7. ASSUME NEW a \in Address, ClearAddress(a) PROVE IInv'
  BY <1>7, ClearAddressStep
<1>8. ASSUME Tick PROVE IInv'
  <2>1. clock' \in 0..MaxTime
    BY <1>0, <1>8 DEF Tick
  <2>2. UNCHANGED <<meta, ready, scheduled, before, primary, state, replied>>
    BY <1>8 DEF Tick
  <2> QED BY <2>1, <2>2, UnchangedMail
<1>9. ASSUME UNCHANGED vars PROVE IInv'
  <2>1. /\ clock' \in 0..MaxTime
        /\ UNCHANGED <<meta, ready, scheduled, before, primary, state, replied>>
    BY <1>0, <1>9 DEF vars
  <2> QED BY <2>1, UnchangedMail
<1> QED BY <1>1, <1>2, <1>3, <1>4, <1>5, <1>6, <1>7, <1>8, <1>9 DEF Next

LEMMA InvHolds == Spec => []IInv
<1> QED BY InitInv, NextInv, PTL DEF Spec

-----------------------------------------------------------------------------
(* What the invariant says                                                 *)

LEMMA ProvideIndexes == IInv => IndexesMatchMeta
<1> SUFFICES ASSUME IInv PROVE IndexesMatchMeta
  OBVIOUS
<1>1. /\ \A m \in Message : m \in ready <=> m \in Stored /\ meta[m].polling = Ready
      /\ \A m \in Message, t \in Nat :
           <<t, m>> \in scheduled <=> m \in Stored /\ meta[m].polling = t
  BY MailFacts DEF IInv, RowsMatch, Mail, In, Stored
<1>2. ready \subseteq Message /\ scheduled \subseteq Nat \X Message /\ Stored \subseteq Message
  BY DEF IInv, TypeOK, Stored
<1>3. ready = {m \in Stored : meta[m].polling = Ready}
  BY <1>1, <1>2
<1>4. scheduled = {<<meta[m].polling, m>> : m \in {n \in Stored : meta[n].polling \in Nat}}
  <2> DEFINE rows == {<<meta[m].polling, m>> : m \in {n \in Stored : meta[n].polling \in Nat}}
  <2>1. ASSUME NEW p \in scheduled PROVE p \in rows
    <3>1. PICK t \in Nat, m \in Message : p = <<t, m>>
      BY <1>2
    <3> QED BY <1>1, <2>1, <3>1
  <2>2. ASSUME NEW p \in rows PROVE p \in scheduled
    <3>1. PICK m \in Stored : meta[m].polling \in Nat /\ p = <<meta[m].polling, m>>
      BY <2>2
    <3> QED BY <1>1, <1>2, <3>1
  <2> QED BY <2>1, <2>2
<1> QED BY <1>3, <1>4 DEF IInv, OrderTotal, KeysOwned, IndexesMatchMeta

\* The state of its request tells of a message what its replies and the order
\* of the acknowledgements do.
LEMMA BlockedIsNotWaiting ==
  ASSUME IInv, NEW m \in Stored
  PROVE  ~BlockedBy(m, meta[m], state[RequestOf[m]]) <=>
           /\ \A r \in Reply : ReplyTo[r] = RequestOf[m] /\ replied[r] # None =>
                r \in Chunk /\ replied[r] = "acked"
           /\ m \in Ack =>
                \A a \in Ack \cap OfRequest(RequestOf[m]) : a = m \/ <<a, m>> \in before
<1> DEFINE q  == RequestOf[m]
           st == state[q]
<1>1. m \in Message /\ q \in Request /\ Chunk \subseteq Reply
  BY MailFacts, ConstantFacts
<1>2. meta[m].processed <=> st.exitId # None
  BY DEF IInv, ProcessedMatch
<1>3. /\ Exits(q) = IF st.exitId = None THEN {} ELSE {st.exitId}
      /\ IsFiniteSet(Unacked(q)) /\ st.unacked = Cardinality(Unacked(q))
  BY <1>1 DEF IInv, RepliesMatch
<1>4. st.unacked \in Nat /\ (st.unacked = 0 <=> Unacked(q) = {})
  BY <1>3, FS_CardinalityType, FS_EmptySet
<1>5. ~(st.unacked > 0) <=> Unacked(q) = {}
  BY <1>4
<1>6. st.exitId = None <=> Exits(q) = {}
  BY <1>3
<1>7. \A r \in Reply : replied[r] \in {None, "unacked", "acked"}
  BY DEF IInv, TypeOK
<1>8. Exits(q) = {} /\ Unacked(q) = {} <=>
        \A r \in Reply : ReplyTo[r] = q /\ replied[r] # None =>
          r \in Chunk /\ replied[r] = "acked"
  BY <1>1, <1>7, ConstantFacts DEF Exits, Unacked
<1>9. ASSUME m \in Ack
      PROVE  st.latestAckId = m <=>
               \A a \in Ack \cap OfRequest(q) : a = m \/ <<a, m>> \in before
  <2>1. /\ st.latestAckId \in Ack \cap OfRequest(q)
        /\ m = st.latestAckId \/ <<m, st.latestAckId>> \in before
    BY <1>9 DEF IInv, LatestMatch
  <2>2. \A a \in Ack \cap OfRequest(q) : a = st.latestAckId \/ <<a, st.latestAckId>> \in before
    BY DEF IInv, LatestMatch, OfRequest
  <2>3. st.latestAckId # m => ~(<<st.latestAckId, m>> \in before /\ <<m, st.latestAckId>> \in before)
    BY <2>1 DEF IInv, OrderTotal, OfRequest
  <2> QED BY <2>1, <2>2, <2>3
<1> QED BY <1>2, <1>5, <1>6, <1>8, <1>9 DEF BlockedBy

LEMMA EligibleIsWaiting ==
  ASSUME IInv, NEW m \in Stored, NEW now \in Nat
  PROVE  Eligible(m, meta[m], now) <=> Waits(m, now)
<1>1. ~BlockedBy(m, meta[m], state[RequestOf[m]]) <=>
        /\ \A r \in Reply : ReplyTo[r] = RequestOf[m] /\ replied[r] # None =>
             r \in Chunk /\ replied[r] = "acked"
        /\ m \in Ack =>
             \A a \in Ack \cap OfRequest(RequestOf[m]) : a = m \/ <<a, m>> \in before
  BY BlockedIsNotWaiting
<1>2. meta[m].claimedAt \in Nat \cup {None} /\ ClaimExpiration \in Nat
  BY MailFacts, MetaFields, ConstantFacts
<1>3. (meta[m].claimedAt = None \/ meta[m].claimedAt <= now - ClaimExpiration) <=>
        (meta[m].claimedAt # None => meta[m].claimedAt + ClaimExpiration <= now)
  BY <1>2
<1> QED BY <1>1, <1>3 DEF Eligible, Waits

\* A message that waits is ready, or its timer ran out.
LEMMA WaitingIsDue ==
  ASSUME IInv, NEW m \in Stored, NEW now \in Nat, Waits(m, now), meta[m].polling # Ready
  PROVE  \E t \in 0..now : <<t, m>> \in scheduled
<1> DEFINE t == Timer(m, meta[m])
<1>1. m \in Message /\ meta[m] \in Meta /\ In(Mail, m) /\ Mail.meta = meta
  BY MailFacts
<1>2. ~BlockedBy(m, meta[m], state[RequestOf[m]])
  BY EligibleIsWaiting DEF Eligible
<1>3. meta[m].polling = t
  BY <1>2 DEF IInv, PollingMatch, PollingState
<1>4. t \in Nat
  <2>1. t \in Nat \cup {Ready}
    BY <1>1, TimerType
  <2> QED BY <1>3, <2>1
<1>5. t <= now
  <2>1. meta[m].claimedAt \in Nat \cup {None} /\ DeliverAt[m] \in Nat \cup {None}
        /\ ClaimExpiration \in Nat
    BY <1>1, MetaFields, ConstantFacts
  <2>2. /\ DeliverAt[m] # None => DeliverAt[m] <= now
        /\ meta[m].claimedAt # None => meta[m].claimedAt + ClaimExpiration <= now
    BY DEF Waits
  <2>3. t # Ready
    BY <1>3
  <2> QED BY <2>1, <2>2, <2>3 DEF Timer
<1>6. <<t, m>> \in scheduled
  BY <1>1, <1>3, <1>4 DEF IInv, RowsMatch, Mail
<1> QED BY <1>4, <1>5, <1>6

LEMMA ProvidePolls == IInv => PollsHandOutWaiting
<1> SUFFICES ASSUME IInv, NEW scope \in Scope, NEW now \in 0..clock, NEW limit \in Limits
             PROVE  Selected(scope, now, limit)
                      = Oldest({m \in Stored : AddressOf[m] \in scope /\ Waits(m, now)}, limit)
  BY DEF PollsHandOutWaiting
<1> DEFINE w      == Promoted(scope, now, limit)
           due    == Due(scope, now, limit)
           picked == {m \in w.ready : AddressOf[m] \in scope /\ Eligible(m, w.meta[m], now)}
           wait   == {m \in Stored : AddressOf[m] \in scope /\ Waits(m, now)}
<1>1. now \in Nat
  BY ConstantFacts DEF IInv, TypeOK
<1>2. /\ w \in MailType /\ RowsMatch(w) /\ due \subseteq Stored
      /\ \A m \in due : /\ w.meta[m] \in Meta /\ w.meta[m].polling = Ready
                        /\ w.meta[m].claimedAt = meta[m].claimedAt
                        /\ w.meta[m].processed = meta[m].processed
      /\ \A m \in Message \ due : w.meta[m] = meta[m]
  BY PromotedFacts
<1>3. \A m \in Stored : m \in Message /\ meta[m] \in Meta /\ meta[m] # None
  BY MailFacts, MetaFields
<1>4. \A m \in Stored : AddressOf[m] \in scope /\ (\E t \in 0..now : <<t, m>> \in scheduled)
                          => m \in due
  BY DEF Due
<1> HIDE DEF w, due
<1>5. ASSUME NEW m \in Stored
      PROVE  Eligible(m, w.meta[m], now) <=> Waits(m, now)
  <2>1. w.meta[m].claimedAt = meta[m].claimedAt /\ w.meta[m].processed = meta[m].processed
    BY <1>2, <1>3
  <2>2. Eligible(m, w.meta[m], now) <=> Eligible(m, meta[m], now)
    BY <2>1 DEF Eligible, BlockedBy
  <2> QED BY <1>1, <2>2, EligibleIsWaiting
<1>6. \A m \in w.ready : m \in Stored
  BY <1>2, <1>3 DEF MailType, RowsMatch, In, Stored
<1>7. ASSUME NEW m \in Stored, AddressOf[m] \in scope, Waits(m, now)
      PROVE  m \in w.ready
  <2>1. m \in due \/ meta[m].polling = Ready
    BY <1>1, <1>4, <1>7, WaitingIsDue
  <2>2. w.meta[m].polling = Ready /\ w.meta[m] # None
    BY <1>2, <1>3, <2>1, MetaFields
  <2> QED BY <1>2, <1>3, <2>2 DEF RowsMatch, In
<1>8. picked = wait
  BY <1>5, <1>6, <1>7
<1> QED BY <1>8 DEF Selected, w

\* The counter of unacknowledged chunks never goes below zero, whatever is
\* saved, replied, acknowledged again and cleared.
THEOREM TypeCorrect == Spec => []TypeOK
<1>1. IInv => TypeOK
  BY DEF IInv
<1> QED BY <1>1, InvHolds, PTL

\* setMessagePolling, removeMessage and their callers leave each message in
\* exactly the index its polling state names, under that very time, ordered
\* with all others, and the owner of its primary key.
THEOREM IndexesMatch == Spec => []IndexesMatchMeta
BY ProvideIndexes, InvHolds, PTL

\* unprocessedMessages answers exactly the oldest messages that wait at the
\* polled addresses, at whatever time its caller holds: the indexes hide no
\* message, and none overtakes another.
THEOREM PollsAnswerWaiting == Spec => []PollsHandOutWaiting
BY ProvidePolls, InvHolds, PTL
=============================================================================
