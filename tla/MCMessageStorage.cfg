SPECIFICATION Spec
CONSTANTS
  q1 = q1  q2 = q2  a1 = a1  a2 = a2  i1 = i1  c1 = c1  x1 = x1
  home = home  away = away  e = e  k = k
  Message = {q1, q2, a1, a2, i1}
  Request = {q1, q2}
  Ack = {a1, a2}
  RequestOf <- MCRequestOf
  AddressOf <- MCAddressOf
  EntityOf <- MCEntityOf
  KeyOf <- MCKeyOf
  DeliverAt <- MCDeliverAt
  Reply = {c1, x1}
  ReplyTo <- MCReplyTo
  Chunk = {c1}
  SequenceOf <- MCSequenceOf
  AckOf <- MCAckOf
  Limits = {2}
  None = None  Ready = Ready  Blocked = Blocked
  ClaimExpiration = 1
  MaxTime = 2
INVARIANTS
  TypeOK
  IndexesMatchMeta
  PollsHandOutWaiting
SYMMETRY Acks
