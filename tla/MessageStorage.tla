--------------------------- MODULE MessageStorage ---------------------------
(***************************************************************************)
(* The mailbox of Effect Cluster: src/cluster/message-storage.ts, with the *)
(* polling indexes of src/cluster/message-readiness.ts.                    *)
(*                                                                         *)
(* Requests, acknowledgements and interrupts are saved under their id,     *)
(* replies under their request.  A poll hands out the messages that are    *)
(* eligible and claims them; which ones it looks at is decided beforehand, *)
(* by every other operation, through the ready and scheduled indexes.      *)
(* Each operation is one strictly serializable transaction, applied at     *)
(* most once (retryOnMaybeCommitted: false).  The time a poll is given may *)
(* be old when its transaction commits.                                    *)
(***************************************************************************)
EXTENDS Integers, FiniteSets

CONSTANTS
  Message,          \* envelope ids
  Request, Ack,     \* those of kind Request and AckChunk; the rest interrupt
  RequestOf,        \* the request of a message, itself if it is one
  AddressOf,        \* the address of a message: entity and shard
  EntityOf,         \* the entity of an address
  KeyOf,            \* primaryKey of a message, or None
  DeliverAt,        \* deliverAt of a message, or None
  Reply,            \* reply ids
  ReplyTo,          \* the request of a reply
  Chunk,            \* replies of kind Chunk; the rest are of kind WithExit
  SequenceOf,       \* sequence of a chunk
  AckOf,            \* the reply an AckChunk acknowledges
  Limits,           \* limits of the polls
  None, Ready, Blocked,
  ClaimExpiration,  \* claimExpirationMillis, ten minutes in the code
  MaxTime           \* bound: last value of the clock

Address == {AddressOf[m] : m \in Message}
Key == {KeyOf[m] : m \in Message} \ {None}

ASSUME MessageAssumption ==
  /\ Request \subseteq Message /\ Ack \subseteq Message \ Request
  /\ RequestOf \in [Message -> Request] /\ \A q \in Request : RequestOf[q] = q
  /\ DeliverAt \in [Message -> Nat \cup {None}]
  /\ ReplyTo \in [Reply -> Request] /\ Chunk \subseteq Reply
  /\ AckOf \in [Ack -> Reply] /\ \A a \in Ack : ReplyTo[AckOf[a]] = RequestOf[a]
  /\ Limits \subseteq Nat \ {0}
  /\ ClaimExpiration \in Nat \ {0} /\ MaxTime \in Nat
  /\ None # Ready /\ None # Blocked /\ Ready # Blocked
  /\ {None, Ready, Blocked} \cap (Nat \cup Message \cup Reply) = {}

\* Messages about a request are sent to its entity, whichever its shard.
ASSUME EntityAssumption ==
  \A m \in Message : EntityOf[AddressOf[m]] = EntityOf[AddressOf[RequestOf[m]]]

VARIABLES
  meta,       \* MessageMeta by id; what it shares with the envelope is constant
  ready,      \* rows of readyByShard and readyByAddress
  scheduled,  \* rows of scheduledByShard and scheduledByAddress
  before,     \* orders: pairs of messages, the earlier versionstamp first
  primary,    \* primaryKeys
  state,      \* requestStates
  replied,    \* replyMetadata: None, or whether the reply was acknowledged
  clock       \* the latest time a caller passes

vars == <<meta, ready, scheduled, before, primary, state, replied, clock>>

Meta == [claimedAt : Nat \cup {None}, processed : BOOLEAN,
         polling : Nat \cup {Ready, Blocked}]

\* undefined is none of the values it stands beside.
ASSUME NoneAssumption == None \notin Meta \cup {"unacked", "acked"}

RequestState == [lastReplyId : Reply \cup {None}, exitId : Reply \cup {None},
                 latestAckId : Ack \cup {None}, unacked : Nat]

InitialState == [lastReplyId |-> None, exitId |-> None, latestAckId |-> None, unacked |-> 0]

\* The polling view of the mailbox, which every operation rewrites.
Mail == [meta |-> meta, ready |-> ready, scheduled |-> scheduled]
MailBecomes(w) == meta' = w.meta /\ ready' = w.ready /\ scheduled' = w.scheduled

Stored == {m \in Message : meta[m] # None}
OfRequest(q) == {m \in Stored : RequestOf[m] = q}
OlderThan(m) == {n \in Stored : <<n, m>> \in before}

-----------------------------------------------------------------------------
(* Eligibility and polling state                                           *)

BlockedBy(m, e, st) ==
  \/ e.processed
  \/ st.exitId # None
  \/ st.unacked > 0
  \/ m \in Ack /\ st.latestAckId # m

\* When message m, not blocked, may be handed out: the later of its delivery
\* and the end of its claim.
Timer(m, e) ==
  LET delivery == IF DeliverAt[m] = None THEN 0 ELSE DeliverAt[m]
      release  == e.claimedAt + ClaimExpiration
  IN  IF e.claimedAt = None
      THEN IF DeliverAt[m] = None THEN Ready ELSE DeliverAt[m]
      ELSE IF release > delivery THEN release ELSE delivery

\* pollingState: the index message m belongs to, with metadata e and st the
\* state of its request.
PollingState(m, e, st) == IF BlockedBy(m, e, st) THEN Blocked ELSE Timer(m, e)

\* The tests of readMessages, with claim = true.
Eligible(m, e, now) ==
  /\ ~BlockedBy(m, e, state[RequestOf[m]])
  /\ DeliverAt[m] = None \/ DeliverAt[m] <= now
  /\ e.claimedAt = None \/ e.claimedAt <= now - ClaimExpiration

-----------------------------------------------------------------------------
(* Writes to the polling view                                              *)

\* Mutant: the row of the old timer stays.
UntimedKept(w, ms) == w.scheduled

\* clearMessageTimer for the messages of ms.
Untimed(w, ms) == w.scheduled \ {<<w.meta[m].polling, m>> : m \in ms}

\* setMessagePolling for the messages of ms, with new metadata e and polling
\* state `to`.
Moved(w, ms, e, to) ==
  LET moved == {m \in ms : e[m].polling # to[m]}
      v     == [w EXCEPT !.meta = [m \in Message |-> IF m \in ms THEN e[m] ELSE w.meta[m]]]
  IN  [meta      |-> [m \in Message |-> IF m \in ms THEN [e[m] EXCEPT !.polling = to[m]]
                                        ELSE w.meta[m]],
       ready     |-> (w.ready \ moved) \cup {m \in moved : to[m] = Ready},
       scheduled |-> Untimed(v, moved) \cup {<<to[m], m>> : m \in {n \in moved : to[n] \in Nat}}]

\* writeMessage for the messages of ms, with new metadata e, st the states of
\* the requests.
Rewritten(w, ms, e, st) ==
  Moved(w, ms, e, [m \in ms |-> PollingState(m, e[m], st[RequestOf[m]])])

\* removeMessage for the messages of `gone`.
Removed(w, gone) ==
  [meta      |-> [m \in Message |-> IF m \in gone THEN None ELSE w.meta[m]],
   ready     |-> w.ready \ gone,
   scheduled |-> Untimed(w, gone)]

OrderWithout(gone) == {p \in before : p[1] \notin gone /\ p[2] \notin gone}

PrimaryWithout(gone) ==
  [k \in Key |-> IF \E m \in gone : KeyOf[m] = k THEN None ELSE primary[k]]

-----------------------------------------------------------------------------
(* Operations                                                              *)

Init ==
  /\ meta = [m \in Message |-> None]
  /\ ready = {} /\ scheduled = {} /\ before = {}
  /\ primary = [k \in Key |-> None]
  /\ state = [q \in Request |-> InitialState]
  /\ replied = [r \in Reply |-> None]
  /\ clock = 0

\* saveEnvelope answers Duplicate.
Duplicate(m) ==
  LET original == IF KeyOf[m] = None \/ primary[KeyOf[m]] = None THEN m ELSE primary[KeyOf[m]]
  IN  meta[original] # None

\* Mutant: a second acknowledgement of a chunk counts again.
AcknowledgesAgain(m) == m \in Ack /\ AckOf[m] \in Chunk /\ replied[AckOf[m]] # None

\* An acknowledgement counts once, for a chunk.
Acknowledges(m) == m \in Ack /\ AckOf[m] \in Chunk /\ replied[AckOf[m]] = "unacked"

StateSaved(m) ==
  IF m \in Ack
  THEN [state EXCEPT ![RequestOf[m]].latestAckId = m,
                     ![RequestOf[m]].unacked = @ - (IF Acknowledges(m) THEN 1 ELSE 0)]
  ELSE state

\* The messages saving m writes: an acknowledgement may unblock its siblings
\* and supersedes the acknowledgement before it.
Touched(m) == {m} \cup (IF m \in Ack THEN OfRequest(RequestOf[m]) ELSE {})

NewMeta(m) ==
  [claimedAt |-> None, processed |-> state[RequestOf[m]].exitId # None, polling |-> Blocked]

SaveEnvelope(m) ==
  /\ ~Duplicate(m)
  /\ state' = StateSaved(m)
  /\ replied' = IF Acknowledges(m) THEN [replied EXCEPT ![AckOf[m]] = "acked"] ELSE replied
  /\ MailBecomes(Rewritten(Mail, Touched(m), [meta EXCEPT ![m] = NewMeta(m)], StateSaved(m)))
  /\ before' = before \cup {<<n, m>> : n \in Stored}
  /\ primary' = [k \in Key |-> IF k = KeyOf[m] THEN m ELSE primary[k]]
  /\ UNCHANGED clock

\* The key of a reply in uniqueReplies: its sequence, or that of the exit.
Slot(r) == IF r \in Chunk THEN {SequenceOf[r]} ELSE {}

Unique(r) ==
  \A s \in Reply : replied[s] # None /\ ReplyTo[s] = ReplyTo[r] => Slot(s) # Slot(r)

StateReplied(r) ==
  IF r \in Chunk
  THEN [state EXCEPT ![ReplyTo[r]].lastReplyId = r, ![ReplyTo[r]].unacked = @ + 1]
  ELSE [state EXCEPT ![ReplyTo[r]].lastReplyId = r, ![ReplyTo[r]].exitId = r]

MetaReplied(r) ==
  [m \in Message |-> IF m \in OfRequest(ReplyTo[r]) /\ r \notin Chunk
                     THEN [meta[m] EXCEPT !.processed = TRUE] ELSE meta[m]]

\* saveReply.  A reply that is stored already is left as it is; another one
\* for the same sequence is a DuplicateReplyError.
SaveReply(r) ==
  /\ replied[r] = None
  /\ Unique(r)
  /\ replied' = [replied EXCEPT ![r] = "unacked"]
  /\ state' = StateReplied(r)
  /\ IF r \notin Chunk \/ state[ReplyTo[r]].unacked = 0
     THEN MailBecomes(Rewritten(Mail, OfRequest(ReplyTo[r]), MetaReplied(r), StateReplied(r)))
     ELSE UNCHANGED <<meta, ready, scheduled>>
  /\ UNCHANGED <<before, primary, clock>>

StateCleared(q) == [state EXCEPT ![q].lastReplyId = None, ![q].exitId = None]

Reopened(q) ==
  [m \in Message |-> IF m \in OfRequest(q)
                     THEN [meta[m] EXCEPT !.processed = FALSE, !.claimedAt = None]
                     ELSE meta[m]]

\* clearReplies, with expectedReplyId or without (None).  The exit goes, chunks
\* stay; without an expected reply the interrupts are removed.
ClearReplies(q, expected) ==
  LET gone == IF expected = None THEN OfRequest(q) \ (Request \cup Ack) ELSE {}
      kept == OfRequest(q) \ gone
  IN  /\ expected # None => state[q].lastReplyId = expected
      /\ replied' = [r \in Reply |-> IF r = state[q].exitId THEN None ELSE replied[r]]
      /\ state' = StateCleared(q)
      /\ MailBecomes(Removed(Rewritten(Mail, kept, Reopened(q), StateCleared(q)), gone))
      /\ before' = OrderWithout(gone)
      /\ primary' = PrimaryWithout(gone)
      /\ UNCHANGED clock

-----------------------------------------------------------------------------
(* Polling                                                                 *)

\* Mutant: promotion stops when there are messages enough.
DueEnough(scope, now, limit) ==
  IF Cardinality({m \in ready : AddressOf[m] \in scope}) >= limit THEN {}
  ELSE {m \in Stored : AddressOf[m] \in scope /\ \E t \in 0..now : <<t, m>> \in scheduled}

\* promoteDue: the messages of the polled shards or addresses whose timer ran out.
Due(scope, now, limit) ==
  {m \in Stored : AddressOf[m] \in scope /\ \E t \in 0..now : <<t, m>> \in scheduled}

Promoted(scope, now, limit) ==
  LET due == Due(scope, now, limit) IN Moved(Mail, due, meta, [m \in due |-> Ready])

\* The first `limit` messages of ms.
Oldest(ms, limit) == {m \in ms : Cardinality(OlderThan(m) \cap ms) < limit}

\* visitMessageOrder and readMessages: what unprocessedMessages answers.
Selected(scope, now, limit) ==
  LET w == Promoted(scope, now, limit)
  IN  Oldest({m \in w.ready : AddressOf[m] \in scope /\ Eligible(m, w.meta[m], now)}, limit)

\* unprocessedMessages for the shards or addresses of `scope`.
Poll(scope, now, limit) ==
  LET w        == Promoted(scope, now, limit)
      selected == Selected(scope, now, limit)
      claimed  == [m \in Message |-> IF m \in selected THEN [w.meta[m] EXCEPT !.claimedAt = now]
                                     ELSE w.meta[m]]
  IN  /\ MailBecomes(Rewritten(w, selected, claimed, state))
      /\ UNCHANGED <<before, primary, state, replied, clock>>

-----------------------------------------------------------------------------
(* Resets and clearing                                                     *)

Reset(ms) ==
  /\ MailBecomes(Rewritten(Mail, ms,
       [m \in Message |-> IF m \in ms THEN [meta[m] EXCEPT !.claimedAt = None] ELSE meta[m]],
       state))
  /\ UNCHANGED <<before, primary, state, replied, clock>>

ResetRequest(q) == meta[q] # None /\ ~meta[q].processed /\ Reset({q})

\* resetAddresses and resetShards.
ResetAddresses(scope) ==
  Reset({m \in Stored : /\ AddressOf[m] \in scope
                        /\ ~meta[m].processed
                        /\ meta[m].claimedAt # None})

\* clearAddress: the mailbox of the entity at address a, on any shard.
ClearAddress(a) ==
  LET gone == {m \in Stored : EntityOf[AddressOf[m]] = EntityOf[a]}
  IN  /\ MailBecomes(Removed(Mail, gone))
      /\ before' = OrderWithout(gone)
      /\ primary' = PrimaryWithout(gone)
      /\ state' = [q \in Request |-> IF q \in gone THEN InitialState ELSE state[q]]
      /\ replied' = [r \in Reply |-> IF ReplyTo[r] \in gone THEN None ELSE replied[r]]
      /\ UNCHANGED clock

Tick ==
  /\ clock < MaxTime
  /\ clock' = clock + 1
  /\ UNCHANGED <<meta, ready, scheduled, before, primary, state, replied>>

Scope == (SUBSET Address) \ {{}}

Next ==
  \/ \E m \in Message : SaveEnvelope(m)
  \/ \E r \in Reply : SaveReply(r)
  \/ \E q \in Request, expected \in Reply \cup {None} : ClearReplies(q, expected)
  \/ \E scope \in Scope, now \in 0..clock, limit \in Limits : Poll(scope, now, limit)
  \/ \E q \in Request : ResetRequest(q)
  \/ \E scope \in Scope : ResetAddresses(scope)
  \/ \E a \in Address : ClearAddress(a)
  \/ Tick

Spec == Init /\ [][Next]_vars

-----------------------------------------------------------------------------
(* Properties                                                              *)

\* The types, with the counter of unacknowledged chunks never below zero
\* however often a chunk is acknowledged.
TypeOK ==
  /\ meta \in [Message -> Meta \cup {None}]
  /\ ready \subseteq Message
  /\ scheduled \subseteq Nat \X Message
  /\ before \subseteq Message \X Message
  /\ primary \in [Key -> Message \cup {None}]
  /\ state \in [Request -> RequestState]
  /\ replied \in [Reply -> {None, "unacked", "acked"}]
  /\ clock \in 0..MaxTime

\* Each stored message is in exactly the index its polling state names, under
\* that very time, is ordered with all others, and owns its primary key:
\* setMessagePolling, removeMessage and their callers never leave a row behind.
IndexesMatchMeta ==
  /\ ready = {m \in Stored : meta[m].polling = Ready}
  /\ scheduled = {<<meta[m].polling, m>> : m \in {n \in Stored : meta[n].polling \in Nat}}
  /\ \A m, n \in Stored : m # n => (<<m, n>> \in before) # (<<n, m>> \in before)
  /\ \A p \in before : p[1] \in Stored /\ p[2] \in Stored
  /\ \A m \in Stored : KeyOf[m] # None => primary[KeyOf[m]] = m
  /\ \A k \in Key : primary[k] # None => primary[k] \in Stored

\* What the mailbox promises a caller at time `now`: a message waits to be
\* handed out when its request has neither an exit nor a chunk without
\* acknowledgement, no later acknowledgement supersedes it, it is due, and
\* nobody's claim on it lasts.
Waits(m, now) ==
  /\ \A r \in Reply : ReplyTo[r] = RequestOf[m] /\ replied[r] # None =>
       r \in Chunk /\ replied[r] = "acked"
  /\ m \in Ack => \A a \in Ack \cap OfRequest(RequestOf[m]) : a = m \/ <<a, m>> \in before
  /\ DeliverAt[m] # None => DeliverAt[m] <= now
  /\ meta[m].claimedAt # None => meta[m].claimedAt + ClaimExpiration <= now

\* Whatever happened before, a poll of any shards at any time a caller may
\* still hold answers exactly the oldest messages that wait there: the indexes
\* that saves, replies, acknowledgements, resets and earlier polls maintain
\* neither hide a message nor let one overtake another.
PollsHandOutWaiting ==
  \A scope \in Scope, now \in 0..clock, limit \in Limits :
    Selected(scope, now, limit)
      = Oldest({m \in Stored : AddressOf[m] \in scope /\ Waits(m, now)}, limit)
=============================================================================
