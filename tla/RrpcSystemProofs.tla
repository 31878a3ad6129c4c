--------------------------- MODULE RrpcSystemProofs ---------------------------
(***************************************************************************)
(* The inductive invariant of RrpcSystem and the theorems that follow from *)
(* it, for any clients, channels, servers, ids and losses.                 *)
(***************************************************************************)
EXTENDS RrpcSystem, FiniteSetTheorems, FunctionTheorems, TLAPS

Statuses == {"idle", "calling", "registering", "open", "late", "ok", "failed"}
Fates    == {"new", "sent", "delivered", "dropped", "lost"}

USE DEF Statuses, Fates

\* The sequence ids below a channel's counter have their calls.
CallInv ==
  \A ch \in Channels : \A s \in SeqIds :
    IF s < sequence_id[ch]
      THEN /\ callOf[ch][s] \in Calls
           /\ Via[callOf[ch][s]] = ch
           /\ status[callOf[ch][s]] # "idle"
      ELSE callOf[ch][s] = Null

\* What is registered was sent.
RegisterInv ==
  /\ \A ch \in Channels : \A s \in requests[ch] : s < sequence_id[ch]
  /\ \A c \in Calls : status[c] # "idle" => sequence_id[Via[c]] > 0

\* Where the messages come from, and where they go.
MessageInv ==
  /\ \A q \in Requests : fate[q] # "new" => q.n < sequence_id[q.via]
  /\ \A r \in Replies :
       fate[r] # "new" => \E m \in executed[r.via] : r = Reply(r.via, m)
  /\ \A m \in Messages :
       fate[m] = "delivered" =>
         receiver[m] \in Conns /\ Announces[receiver[m]] = m.dst

\* Header and body of what is executed were delivered here, and nothing of one
\* request is in two messages.
Joined(m) == m.from = m.of \/ {m.from, m.of} \subseteq missed

ServerInv ==
  \A s \in Servers : \A m \in executed[s] :
    /\ fate[m.from] = "delivered" /\ receiver[m.from] = s
    /\ fate[m.of] = "delivered" /\ receiver[m.of] = s
    /\ Joined(m)
    /\ \A e \in executed[s] : m.of = e.of => m = e

\* A message that was taken for an answer has been taken.
TakenInv == \A c \in Calls : answer[c] # Null => answer[c] \in taken

\* The sequence ids that a call has been given, one for each attempt.
SeqsOf(c) == {s \in SeqIds : callOf[Via[c]][s] = c}

Limit(c) == IF c \in SyncCalls THEN RetryTimes ELSE 1

AttemptInv ==
  \A c \in Calls :
    /\ status[c] = "idle" => attempts[c] = 0
    /\ status[c] = "late" => c \in SyncCalls
    /\ attempts[c] <= Limit(c)
    /\ Cardinality(SeqsOf(c)) <= attempts[c]

SystemInv ==
  /\ TypeOK
  /\ CallInv
  /\ RegisterInv
  /\ AttemptInv
  /\ MessageInv
  /\ ServerInv
  /\ TakenInv
  /\ AnswerHasCause

-----------------------------------------------------------------------------
(***************************************************************************)
(* The messages.                                                           *)
(***************************************************************************)
\* A request is made of its channel and its sequence id.
LEMMA RequestFields ==
  ASSUME NEW q \in Requests
  PROVE  /\ q.via \in Channels
         /\ q.n \in SeqIds
         /\ q.dst = Target[q.via]
         /\ q = Request(q.via, q.n)
  BY DEF Requests, Request

LEMMA RequestIsMessage ==
  ASSUME NEW ch \in Channels, NEW s \in SeqIds
  PROVE  /\ Request(ch, s) \in Requests
         /\ Request(ch, s) \in Messages
         /\ Request(ch, s).via = ch
         /\ Request(ch, s).n = s
  BY DEF Requests, Request, Messages

\* A reply is made of its server and of what that has parsed.
LEMMA ReplyFields ==
  ASSUME NEW r \in Replies
  PROVE  /\ r.via \in Servers
         /\ r.n \in Requests
  <1>1. PICK s \in Servers : r \in {Reply(s, m) : m \in ParsedBy(s)}
    BY DEF Replies
  <1>2. PICK m \in ParsedBy(s) : r = Reply(s, m)
    BY <1>1
  <1>. QED
    BY <1>2 DEF Reply, ParsedBy, Parsed

LEMMA ReplyIsMessage ==
  ASSUME NEW s \in Servers, NEW m \in ParsedBy(s)
  PROVE  /\ Reply(s, m) \in Replies
         /\ Reply(s, m) \in Messages
         /\ Reply(s, m).via = s
         /\ Reply(s, m).n = m.of
         /\ Reply(s, m).dst = Announces[m.from.via]
  BY DEF Replies, Reply, Messages

\* No request is a reply.
LEMMA RequestNotReply ==
  ASSUME NEW q \in Requests, NEW r \in Replies
  PROVE  q # r
  BY RequestFields, ReplyFields, SystemAssumption

\* One more element adds one at the most.
LEMMA CardinalityOfOneMore ==
  ASSUME NEW S, IsFiniteSet(S), NEW x
  PROVE  /\ Cardinality(S) \in Nat
         /\ Cardinality(S \union {x}) \in Nat
         /\ Cardinality(S \union {x}) <= Cardinality(S) + 1
  <1>1. Cardinality(S) \in Nat
    BY FS_CardinalityType
  <1>2. Cardinality(S \union {x}) =
          IF x \in S THEN Cardinality(S) ELSE Cardinality(S) + 1
    BY FS_AddElement
  <1>. QED
    BY <1>1, <1>2

\* There are finitely many sequence ids.
LEMMA FiniteSeqs ==
  ASSUME NEW c
  PROVE  IsFiniteSet(SeqsOf(c))
  <1>1. MaxSeq - 1 \in Int
    BY SystemAssumption
  <1>2. IsFiniteSet(SeqIds)
    BY <1>1, FS_Interval DEF SeqIds
  <1>3. SeqsOf(c) \subseteq SeqIds
    BY DEF SeqsOf
  <1>. QED
    BY <1>2, <1>3, FS_Subset

-----------------------------------------------------------------------------
(***************************************************************************)
(* The invariant holds at the start.                                       *)
(***************************************************************************)
LEMMA InitInvariant == Init => SystemInv
  <1>. SUFFICES ASSUME Init
       PROVE SystemInv
    OBVIOUS
  <1>. USE DEF Init, Router!Init
  <1>1. TypeOK
    BY SystemAssumption DEF TypeOK, Conns
  <1>2. CallInv
    BY DEF CallInv, SeqIds
  <1>6. RegisterInv
    BY DEF RegisterInv
  <1>7. AttemptInv
    <2>1. \A c \in Calls : Via[c] \in Channels /\ c # Null
      BY SystemAssumption DEF Calls
    <2>2. \A c \in Calls : SeqsOf(c) = {}
      BY <2>1 DEF SeqsOf
    <2>3. \A c \in Calls : Cardinality(SeqsOf(c)) = 0
      BY <2>2, FS_EmptySet
    <2>. QED
      BY <2>3, SystemAssumption DEF AttemptInv, Limit
  <1>3. MessageInv
    BY DEF MessageInv, Messages
  <1>4. ServerInv
    BY DEF ServerInv
  <1>5. TakenInv /\ AnswerHasCause
    BY DEF TakenInv, AnswerHasCause
  <1>. QED
    BY <1>1, <1>2, <1>3, <1>4, <1>5, <1>6, <1>7 DEF SystemInv

-----------------------------------------------------------------------------
(***************************************************************************)
(* Every step preserves the invariant.                                     *)
(***************************************************************************)
\* An attempt takes the next sequence id and sends the request with it.
LEMMA SendStep ==
  ASSUME SystemInv, NEW c \in Calls, Send(c),
         UNCHANGED <<answer, executed, missed>>,
         status' \in [Calls -> Statuses],
         status'[c] # "idle",
         \A d \in Calls : status[d] # "idle" => status'[d] # "idle"
  PROVE  /\ sequence_id' \in [Channels -> 0 .. MaxSeq]
         /\ callOf' \in [Channels -> [SeqIds -> Calls \union {Null}]]
         /\ fate' \in [Messages -> Fates]
         /\ receiver' = receiver
         /\ \A m \in Messages : fate[m] = "delivered" => fate'[m] = "delivered"
         /\ CallInv'
         /\ MessageInv'
         /\ AnswerHasCause'
  <1>. USE DEF SystemInv
  <1>. DEFINE ch == Via[c]
              s  == sequence_id[ch]
  <1>1. /\ ch \in Channels
        /\ s \in SeqIds
        /\ sequence_id' = [sequence_id EXCEPT ![ch] = s + 1]
        /\ callOf' = [callOf EXCEPT ![ch][s] = c]
        /\ s + 1 \in 0 .. MaxSeq
    <2>1. ch \in Channels
      BY SystemAssumption DEF Calls
    <2>2. s \in 0 .. MaxSeq /\ s < MaxSeq
      BY <2>1 DEF Send, TypeOK
    <2>. QED
      BY <2>1, <2>2, SystemAssumption DEF Send, SeqIds
  <1>2. /\ fate' \in [Messages -> Fates]
        /\ receiver' = receiver
        /\ \A m \in Messages :
             \/ fate'[m] = fate[m]
             \/ m = Request(ch, s) /\ fate'[m] = "sent" /\ fate[m] = "new"
    BY <1>1 DEF Send, Router!Send, TypeOK
  <1>3. CallInv'
    <2>. SUFFICES ASSUME NEW d \in Channels, NEW t \in SeqIds
                  PROVE IF t < sequence_id'[d]
                          THEN /\ callOf'[d][t] \in Calls
                               /\ Via[callOf'[d][t]] = d
                               /\ status'[callOf'[d][t]] # "idle"
                          ELSE callOf'[d][t] = Null
      BY DEF CallInv
    <2>1. CASE d = ch /\ t = s
      <3>1. callOf'[d][t] = c /\ sequence_id'[d] = s + 1
        BY <1>1, <2>1 DEF TypeOK
      <3>2. t < s + 1
        BY <1>1, <2>1 DEF SeqIds
      <3>. QED
        BY <3>1, <3>2, <2>1
    <2>2. CASE d # ch \/ t # s
      <3>1. /\ callOf'[d][t] = callOf[d][t]
            /\ t < sequence_id'[d] <=> t < sequence_id[d]
        BY <1>1, <2>2 DEF TypeOK, SeqIds
      <3>. QED
        BY <3>1 DEF CallInv
    <2>. QED
      BY <2>1, <2>2
  <1>4. MessageInv'
    <2>1. ASSUME NEW q \in Requests, fate'[q] # "new"
          PROVE q.n < sequence_id'[q.via]
      <3>1. q.via \in Channels /\ q.n \in SeqIds /\ q \in Messages
        BY RequestFields DEF Messages
      <3>2. CASE q = Request(ch, s)
        BY <1>1, <3>1, <3>2, RequestIsMessage DEF TypeOK, SeqIds
      <3>3. CASE q # Request(ch, s)
        <4>1. q.n < sequence_id[q.via]
          BY <1>2, <3>1, <3>3, <2>1 DEF MessageInv
        <4>. QED
          BY <4>1, <1>1, <3>1 DEF TypeOK, SeqIds
      <3>. QED
        BY <3>2, <3>3
    <2>2. ASSUME NEW r \in Replies, fate'[r] # "new"
          PROVE \E m \in executed'[r.via] : r = Reply(r.via, m)
      <3>1. r # Request(ch, s) /\ r \in Messages
        BY <1>1, RequestIsMessage, RequestNotReply DEF Messages
      <3>. QED
        BY <1>2, <2>2, <3>1 DEF MessageInv
    <2>3. ASSUME NEW m \in Messages, fate'[m] = "delivered"
          PROVE receiver'[m] \in Conns /\ Announces[receiver'[m]] = m.dst
      BY <1>2, <2>3 DEF MessageInv
    <2>. QED
      BY <2>1, <2>2, <2>3 DEF MessageInv
  <1>5. ASSUME NEW d \in Channels, NEW t \in SeqIds, callOf[d][t] # Null
        PROVE  callOf'[d][t] = callOf[d][t]
    <2>1. d # ch \/ t # s
      BY <1>1, <1>5 DEF CallInv, TypeOK
    <2>. QED
      BY <1>1, <2>1 DEF TypeOK
  <1>6. AnswerHasCause'
    <2>. SUFFICES ASSUME NEW d \in Calls, answer[d] # Null
                  PROVE  HasCause(d, answer[d])'
      BY DEF AnswerHasCause
    <2>1. Via[d] \in Channels /\ d # Null /\ 0 \in SeqIds
      BY SystemAssumption DEF Calls, SeqIds
    <2>2. HasCause(d, answer[d])
      BY DEF AnswerHasCause
    <2>3. ASSUME NEW r \in Replies
          PROVE  r.n.n \in SeqIds
      BY ReplyFields, RequestFields
    <2>. QED
      BY <1>5, <2>1, <2>2, <2>3 DEF HasCause
  <1>. QED
    BY <1>1, <1>2, <1>3, <1>4, <1>6 DEF TypeOK

\* What happens to messages outside the calls: one that has been sent stays
\* sent, is delivered to who announced its destination, and may be missed.
LEMMA MessageStep ==
  ASSUME SystemInv,
         UNCHANGED <<callVars, channelVars, executed, taken>>,
         link' \in [Conns -> {"none", "up", "down"}],
         fate' \in [Messages -> Fates],
         receiver' \in [Messages -> Conns \union {Null}],
         dead' \subseteq Conns,
         missed' \subseteq Messages,
         missed \subseteq missed',
         processed' \in [Servers -> SUBSET Parsed],
         \A q \in Requests : fate'[q] # "new" => fate[q] # "new",
         \A r \in Replies :
           fate'[r] # "new" =>
             fate[r] # "new" \/ \E m \in executed[r.via] : r = Reply(r.via, m),
         \A m \in Messages :
           /\ fate[m] = "delivered" =>
                fate'[m] = "delivered" /\ receiver'[m] = receiver[m]
           /\ fate[m] # "delivered" /\ fate'[m] = "delivered" =>
                receiver'[m] \in Conns /\ Announces[receiver'[m]] = m.dst
  PROVE  SystemInv'
  <1>. USE DEF SystemInv, callVars, channelVars
  <1>1. TypeOK'
    BY DEF TypeOK
  <1>2. CallInv' /\ RegisterInv' /\ AttemptInv'
    BY DEF CallInv, RegisterInv, AttemptInv, SeqsOf
  <1>3. MessageInv'
    BY DEF MessageInv
  <1>4. ServerInv'
    <2>1. \A s \in Servers : \A m \in executed[s] :
            m.from \in Messages /\ m.of \in Messages
      BY DEF TypeOK, Parsed, Messages
    <2>. QED
      BY <2>1 DEF ServerInv, Joined
  <1>5. TakenInv'
    BY DEF TakenInv
  <1>6. AnswerHasCause'
    BY DEF AnswerHasCause, HasCause
  <1>. QED
    BY <1>1, <1>2, <1>3, <1>4, <1>5, <1>6

\* A call goes on: it was begun, and its requests have nothing new.
LEMMA CallStep ==
  ASSUME SystemInv,
         UNCHANGED <<attempts, answer, sequence_id, callOf, proxyVars,
                     serverVars, dead, missed, taken>>,
         requests' \in [Channels -> SUBSET SeqIds],
         \A ch \in Channels : \A s \in requests'[ch] : s < sequence_id[ch],
         status' \in [Calls -> Statuses],
         \A d \in Calls : /\ status[d] # "idle" <=> status'[d] # "idle"
                          /\ status'[d] = "late" => d \in SyncCalls
  PROVE  SystemInv'
  <1>. USE DEF SystemInv, proxyVars, serverVars
  <1>1. TypeOK'
    BY DEF TypeOK
  <1>2. CallInv' /\ RegisterInv' /\ AttemptInv'
    BY DEF CallInv, RegisterInv, AttemptInv, SeqsOf
  <1>3. MessageInv'
    BY DEF MessageInv
  <1>4. ServerInv' /\ TakenInv'
    BY DEF ServerInv, Joined, TakenInv
  <1>5. AnswerHasCause'
    BY DEF AnswerHasCause, HasCause
  <1>. QED
    BY <1>1, <1>2, <1>3, <1>4, <1>5

\* A call is begun, or attempted again.
LEMMA AttemptStep ==
  ASSUME SystemInv, NEW c \in Calls, Call(c) \/ Retry(c),
         attempts[c] < Limit(c)
  PROVE  SystemInv'
  <1>. USE DEF SystemInv, serverVars
  <1>1. /\ Send(c)
        /\ UNCHANGED <<answer, link, serverVars, dead, missed, taken>>
        /\ status' \in [Calls -> Statuses]
        /\ status'[c] # "idle"
        /\ \A d \in Calls : status[d] # "idle" => status'[d] # "idle"
    BY DEF Call, Retry, TypeOK
  <1>2. requests' \in [Channels -> SUBSET SeqIds] /\ RegisterInv'
    <2>1. /\ Via[c] \in Channels /\ sequence_id[Via[c]] \in SeqIds
          /\ \A d \in Calls : Via[d] \in Channels
          /\ sequence_id' = [sequence_id EXCEPT ![Via[c]] = @ + 1]
      BY <1>1, SystemAssumption DEF Calls, Send, TypeOK, SeqIds
    <2>2. requests' \in [Channels -> SUBSET SeqIds]
      BY <2>1 DEF Call, Retry, TypeOK
    <2>3. ASSUME NEW ch \in Channels, NEW s \in requests'[ch]
          PROVE  s < sequence_id'[ch]
      <3>1. \/ s \in requests[ch]
            \/ ch = Via[c] /\ s = sequence_id[ch]
        BY <2>1, <2>3 DEF Call, Retry, TypeOK
      <3>2. /\ sequence_id[ch] \in Nat /\ sequence_id'[ch] \in Nat
            /\ sequence_id'[ch] >= sequence_id[ch]
        BY <2>1 DEF TypeOK
      <3>3. s \in requests[ch] => s \in Nat /\ s < sequence_id[ch]
        BY DEF TypeOK, RegisterInv, SeqIds
      <3>4. ch = Via[c] => sequence_id'[ch] = sequence_id[ch] + 1
        BY <2>1 DEF TypeOK
      <3>. QED
        BY <3>1, <3>2, <3>3, <3>4
    <2>4. ASSUME NEW d \in Calls, status'[d] # "idle"
          PROVE  sequence_id'[Via[d]] > 0
      <3>1. Via[d] \in Channels
        BY <2>1
      <3>2. CASE Via[d] = Via[c]
        BY <2>1, <3>2 DEF TypeOK
      <3>3. CASE Via[d] # Via[c]
        <4>1. status[d] # "idle" /\ sequence_id'[Via[d]] = sequence_id[Via[d]]
          BY <2>1, <2>4, <3>1, <3>3 DEF Call, Retry, TypeOK
        <4>. QED
          BY <4>1 DEF RegisterInv
      <3>. QED
        BY <3>2, <3>3
    <2>. QED
      BY <2>2, <2>3, <2>4 DEF RegisterInv
  <1>3. attempts' \in [Calls -> 0 .. RetryTimes]
    BY <1>1, SystemAssumption DEF Send, TypeOK, Limit
  <1>4. TypeOK'
    BY <1>1, <1>2, <1>3, SendStep DEF TypeOK
  <1>5. ServerInv'
    <2>1. /\ receiver' = receiver /\ UNCHANGED executed
          /\ \A m \in Messages : fate[m] = "delivered" => fate'[m] = "delivered"
      BY <1>1, SendStep
    <2>2. \A s \in Servers : \A m \in executed[s] :
            m.from \in Messages /\ m.of \in Messages
      BY DEF TypeOK, Parsed, Messages
    <2>. QED
      BY <1>1, <2>1, <2>2 DEF ServerInv, Joined
  <1>6. AttemptInv'
    <2>. SUFFICES ASSUME NEW d \in Calls
         PROVE /\ status'[d] = "idle" => attempts'[d] = 0
               /\ status'[d] = "late" => d \in SyncCalls
               /\ attempts'[d] <= Limit(d)
               /\ Cardinality(SeqsOf(d)') <= attempts'[d]
      BY DEF AttemptInv, SeqsOf, Limit
    <2>. DEFINE ch == Via[c]
                s  == sequence_id[ch]
    <2>1. /\ ch \in Channels /\ s \in SeqIds /\ Via[d] \in Channels
          /\ callOf' = [callOf EXCEPT ![ch][s] = c]
          /\ callOf[ch][s] = Null /\ Null \notin Calls
      BY <1>1, SystemAssumption DEF Calls, Send, TypeOK, SeqIds, CallInv
    <2>2. CASE d = c
      <3>1. SeqsOf(c)' = SeqsOf(c) \union {s}
        BY <2>1 DEF SeqsOf, TypeOK
      <3>2. IsFiniteSet(SeqsOf(c))
        BY FiniteSeqs
      <3>3. /\ Cardinality(SeqsOf(c)) \in Nat
            /\ Cardinality(SeqsOf(c)') \in Nat
            /\ Cardinality(SeqsOf(c)') <= Cardinality(SeqsOf(c)) + 1
        BY <3>1, <3>2, CardinalityOfOneMore
      <3>4. attempts'[c] = attempts[c] + 1 /\ attempts[c] \in Nat
        BY <1>1 DEF Send, TypeOK
      <3>5. Cardinality(SeqsOf(c)) <= attempts[c] /\ Limit(c) \in Nat
        BY SystemAssumption DEF AttemptInv, Limit
      <3>6. status'[c] = "late" => c \in SyncCalls
        BY DEF Call, Retry, AttemptInv, TypeOK
      <3>. QED
        BY <1>1, <2>2, <3>3, <3>4, <3>5, <3>6
    <2>3. CASE d # c
      <3>1. SeqsOf(d)' = SeqsOf(d)
        BY <2>1, <2>3 DEF SeqsOf, TypeOK
      <3>2. status'[d] = status[d] /\ attempts'[d] = attempts[d]
        BY <1>1, <2>3 DEF Call, Retry, Send, TypeOK
      <3>. QED
        BY <3>1, <3>2 DEF AttemptInv
    <2>. QED
      BY <2>2, <2>3
  <1>7. TakenInv'
    BY <1>1 DEF TakenInv
  <1>. QED
    BY <1>1, <1>2, <1>4, <1>5, <1>6, <1>7, SendStep

\* What is executed has arrived here, and nothing of it was executed before.
LEMMA RunServiceStep ==
  ASSUME SystemInv, NEW s \in Servers, NEW m \in Parsed, RunService(s, m)
  PROVE  SystemInv'
  <1>. USE DEF SystemInv, RunService, callVars, channelVars, proxyVars
  <1>1. /\ executed' = [executed EXCEPT ![s] = @ \union {m}]
        /\ fate[m.from] = "delivered" /\ receiver[m.from] = s
        /\ fate[m.of] = "delivered" /\ receiver[m.of] = s
        /\ Joined(m)
        /\ \A e \in executed[s] : m.of # e.of
    BY DEF Parseable, Arrived, Joined, Used
  <1>2. TypeOK'
    BY <1>1 DEF TypeOK
  <1>3. CallInv' /\ RegisterInv' /\ AttemptInv'
    BY DEF CallInv, RegisterInv, AttemptInv, SeqsOf
  <1>4. \A t \in Servers : executed[t] \subseteq executed'[t]
    BY <1>1 DEF TypeOK
  <1>5. MessageInv'
    BY <1>4, ReplyFields DEF MessageInv
  <1>6. ServerInv'
    <2>. SUFFICES ASSUME NEW t \in Servers, NEW e \in executed'[t]
                  PROVE  /\ fate[e.from] = "delivered" /\ receiver[e.from] = t
                         /\ fate[e.of] = "delivered" /\ receiver[e.of] = t
                         /\ Joined(e)
                         /\ \A x \in executed'[t] : e.of = x.of => e = x
      BY DEF ServerInv, Joined
    <2>1. executed'[t] = IF t = s THEN executed[t] \union {m} ELSE executed[t]
      BY <1>1 DEF TypeOK
    <2>2. CASE e \in executed[t]
      BY <1>1, <2>1, <2>2 DEF ServerInv
    <2>3. CASE e \notin executed[t]
      BY <1>1, <2>1, <2>3 DEF ServerInv
    <2>. QED
      BY <2>2, <2>3
  <1>7. TakenInv'
    BY DEF TakenInv
  <1>8. AnswerHasCause'
    <2>. SUFFICES ASSUME NEW c \in Calls, answer[c] # Null
                  PROVE  HasCause(c, answer[c])'
      BY DEF AnswerHasCause
    <2>1. HasCause(c, answer[c])
      BY DEF AnswerHasCause
    <2>. QED
      BY <1>4, <2>1, ReplyFields DEF HasCause
  <1>. QED
    BY <1>2, <1>3, <1>5, <1>6, <1>7, <1>8

\* What is executed can be replied to.
LEMMA ExecutedParsed ==
  ASSUME SystemInv, NEW s \in Servers, NEW m \in executed[s]
  PROVE  /\ m \in ParsedBy(s)
         /\ m.of \in Requests /\ m.from \in Requests
         /\ m.of.via \in Channels /\ m.of.n \in SeqIds
         /\ callOf[m.of.via][m.of.n] \in Calls
         /\ Via[callOf[m.of.via][m.of.n]] = m.of.via
         /\ status[callOf[m.of.via][m.of.n]] # "idle"
  <1>. USE DEF SystemInv
  <1>1. /\ m \in Parsed /\ m.of \in Requests /\ m.from \in Requests
        /\ m.of \in Messages /\ m.from \in Messages
    BY DEF TypeOK, Parsed, Messages
  <1>2. /\ fate[m.from] = "delivered" /\ receiver[m.from] = s
        /\ fate[m.of] = "delivered" /\ receiver[m.of] = s
    BY DEF ServerInv
  <1>3. m \in ParsedBy(s)
    BY <1>1, <1>2 DEF MessageInv, ParsedBy
  <1>4. m.of.via \in Channels /\ m.of.n \in SeqIds
    BY <1>1, RequestFields
  <1>5. m.of.n < sequence_id[m.of.via]
    BY <1>1, <1>2 DEF MessageInv
  <1>. QED
    BY <1>1, <1>3, <1>4, <1>5 DEF CallInv

\* A response is sent for what was executed.
LEMMA SendResponseStep ==
  ASSUME SystemInv, NEW s \in Servers, NEW m \in executed[s], SendResponse(s, m)
  PROVE  SystemInv'
  <1>. USE DEF SystemInv, SendResponse
  <1>1. /\ Reply(s, m) \in Replies /\ Reply(s, m) \in Messages
        /\ Reply(s, m).via = s
    BY ExecutedParsed, ReplyIsMessage
  <1>2. /\ fate' \in [Messages -> Fates]
        /\ receiver' = receiver
        /\ \A x \in Messages :
             \/ fate'[x] = fate[x]
             \/ x = Reply(s, m) /\ fate'[x] = "sent" /\ fate[x] = "new"
    BY <1>1 DEF Router!Send, TypeOK
  <1>3. \A q \in Requests : fate'[q] # "new" => fate[q] # "new"
    BY <1>1, <1>2, RequestNotReply DEF Messages
  <1>4. ASSUME NEW r \in Replies, fate'[r] # "new"
        PROVE  fate[r] # "new" \/ \E x \in executed[r.via] : r = Reply(r.via, x)
    BY <1>1, <1>2, <1>4 DEF Messages
  <1>5. processed' \in [Servers -> SUBSET Parsed]
    BY DEF TypeOK
  <1>6. /\ link' \in [Conns -> {"none", "up", "down"}]
        /\ receiver' \in [Messages -> Conns \union {Null}]
        /\ dead' \subseteq Conns
        /\ missed' \subseteq Messages /\ missed \subseteq missed'
    BY <1>2 DEF TypeOK
  <1>7. \A x \in Messages :
          /\ fate[x] = "delivered" =>
               fate'[x] = "delivered" /\ receiver'[x] = receiver[x]
          /\ fate[x] # "delivered" /\ fate'[x] = "delivered" =>
               receiver'[x] \in Conns /\ Announces[receiver'[x]] = x.dst
    BY <1>2
  <1>. QED
    BY <1>2, <1>3, <1>4, <1>5, <1>6, <1>7, MessageStep

\* A reply that has arrived at a channel is one to what a server has executed,
\* and was sent to this channel's id.
LEMMA ArrivedReply ==
  ASSUME SystemInv, NEW ch \in Channels, NEW r \in Replies, Arrived(r, ch)
  PROVE  /\ r.n.n \in SeqIds
         /\ r.dst = Announces[ch]
         /\ \E m \in executed[r.via] :
              /\ m.of = r.n
              /\ Announces[m.from.via] = Announces[ch]
              /\ Joined(m)
  <1>. USE DEF SystemInv
  <1>1. r.via \in Servers /\ r.n \in Requests /\ r \in Messages
    BY ReplyFields DEF Messages
  <1>2. r.n.n \in SeqIds
    BY <1>1, RequestFields
  <1>3. PICK m \in executed[r.via] : r = Reply(r.via, m)
    BY DEF Arrived, MessageInv
  <1>4. m.of = r.n /\ r.dst = Announces[m.from.via]
    BY <1>3 DEF Reply
  <1>5. Announces[ch] = r.dst
    BY <1>1 DEF Arrived, MessageInv
  <1>6. Joined(m)
    BY <1>1 DEF ServerInv
  <1>. QED
    BY <1>2, <1>4, <1>5, <1>6

\* The call that a message is taken for is one of this channel and has its
\* sequence id.
LEMMA AnswerStep ==
  ASSUME SystemInv, NEW ch \in Channels, NEW s \in SeqIds,
         NEW r \in Replies \union MadeUps, Answer(ch, s, r),
         Via[callOf[ch][s]] = ch => HasCause(callOf[ch][s], r)
  PROVE  SystemInv'
  <1>. USE DEF SystemInv, Answer, proxyVars, serverVars
  <1>. DEFINE c == callOf[ch][s]
  <1>2. /\ s \in requests[ch] => c \in Calls /\ Via[c] = ch
        /\ Null \notin Calls
    BY SystemAssumption DEF RegisterInv, CallInv
  <1>3. /\ \A e \in Calls : /\ status[e] # "idle" <=> status'[e] # "idle"
                            /\ status'[e] \in {status[e], "ok", "failed"}
                            /\ \/ answer'[e] = answer[e]
                               \/ e = c /\ Via[c] = ch /\ answer'[e] = r
        /\ status' \in [Calls -> Statuses]
        /\ answer' \in [Calls -> Replies \union MadeUps \union {Null}]
    <2>1. CASE s \in requests[ch] /\ status[c] = "open"
      <3>1. PICK told \in {"ok", "failed"} : status' = [status EXCEPT ![c] = told]
        BY <2>1
      <3>2. answer' = [answer EXCEPT ![c] = r]
        BY <2>1
      <3>. QED
        BY <1>2, <2>1, <3>1, <3>2 DEF TypeOK
    <2>2. CASE ~(s \in requests[ch] /\ status[c] = "open")
      BY <2>2 DEF TypeOK
    <2>. QED
      BY <2>1, <2>2
  <1>4. TypeOK'
    <2>1. dead' \subseteq Conns
      <3>1. dead' \in {dead, dead \union {d \in Channels :
                                          Announces[d] = Announces[ch]}}
        OBVIOUS
      <3>. QED
        BY <3>1 DEF TypeOK, Conns
    <2>. QED
      BY <1>3, <2>1 DEF TypeOK
  <1>5. CallInv'
    BY <1>3 DEF CallInv
  <1>6. RegisterInv' /\ AttemptInv'
    BY <1>3 DEF RegisterInv, AttemptInv, SeqsOf, TypeOK
  <1>7. MessageInv' /\ ServerInv'
    BY DEF MessageInv, ServerInv, Joined
  <1>8. TakenInv'
    BY <1>3 DEF TakenInv
  <1>9. AnswerHasCause'
    <2>. SUFFICES ASSUME NEW e \in Calls, answer'[e] # Null
                  PROVE  HasCause(e, answer'[e])
      BY DEF AnswerHasCause, HasCause
    <2>. QED
      BY <1>3 DEF AnswerHasCause
  <1>. QED
    BY <1>4, <1>5, <1>6, <1>7, <1>8, <1>9

\* The cause of an answer is the reply that is processed, or the message that
\* was made up.
LEMMA ReplyCause ==
  ASSUME SystemInv, NEW ch \in Channels, NEW r \in Replies, Arrived(r, ch),
         NEW c, c = callOf[ch][r.n.n], Via[c] = ch
  PROVE  HasCause(c, r)
  BY ArrivedReply DEF HasCause, Joined

LEMMA ProcessStep ==
  ASSUME SystemInv,
         ProcessMessage \/ \E ch \in MakingUp : ProcessMadeUp(ch)
  PROVE  SystemInv'
  <1>1. ASSUME NEW ch \in Channels, NEW r \in Replies, ProcessReply(ch, r)
        PROVE  SystemInv'
    <2>1. Arrived(r, ch) /\ Answer(ch, r.n.n, r) /\ r.n.n \in SeqIds
      BY <1>1, ArrivedReply DEF ProcessReply
    <2>2. Via[callOf[ch][r.n.n]] = ch => HasCause(callOf[ch][r.n.n], r)
      BY <2>1, ReplyCause
    <2>. QED
      BY <2>1, <2>2, AnswerStep
  <1>2. ASSUME NEW ch \in MakingUp, ProcessMadeUp(ch)
        PROVE  SystemInv'
    <2>1. /\ Answer(ch, 0, MadeUp(ch)) /\ ch \in Channels /\ 0 \in SeqIds
          /\ MadeUp(ch) \in MadeUps
      BY <1>2, SystemAssumption DEF ProcessMadeUp, SeqIds, MadeUps
    <2>2. Via[callOf[ch][0]] = ch => HasCause(callOf[ch][0], MadeUp(ch))
      BY DEF HasCause
    <2>. QED
      BY <2>1, <2>2, AnswerStep
  <1>. QED
    BY <1>1, <1>2 DEF ProcessMessage

\* Every step preserves the invariant.
LEMMA InvariantStep == SystemInv /\ [Next]_vars => SystemInv'
  <1>. SUFFICES ASSUME SystemInv, [Next]_vars
                PROVE SystemInv'
    OBVIOUS
  <1>. USE DEF SystemInv
  <1>1. ASSUME NEW c \in Conns, LoseConnection(c)
        PROVE  SystemInv'
    <2>1. PICK M \in SUBSET {m \in Messages : m.via = c /\ fate[m] = "sent"} :
            fate' = [m \in Messages |-> IF m \in M THEN "lost" ELSE fate[m]]
      BY <1>1 DEF LoseConnection, Router!Lose
    <2>. QED
      BY <1>1, <2>1, MessageStep
         DEF LoseConnection, Router!Lose, serverVars, TypeOK, Messages
  <1>2. ASSUME NEW s \in Servers, Connect(s)
        PROVE  SystemInv'
    BY <1>2, MessageStep DEF Connect, serverVars, TypeOK, Conns
  <1>3. ASSUME NEW s \in Servers, Crash(s)
        PROVE  SystemInv'
    BY <1>3, MessageStep DEF Crash, proxyVars, serverVars, TypeOK, Conns
  <1>4. ASSUME NEW s \in Servers, NEW m \in Parsed, IgnoreMessage(s, m)
        PROVE  SystemInv'
    BY <1>4, MessageStep DEF IgnoreMessage, proxyVars, TypeOK
  <1>13. ASSUME Serve \/ ServeJoined
         PROVE  SystemInv'
    <2>1. ASSUME NEW p \in Requests, NEW q \in Requests
          PROVE  [from |-> p, of |-> q] \in Parsed
      BY DEF Parsed
    <2>2. CASE Serve
      <3>1. PICK s \in Servers :
              \/ \E q \in Pending(s) :
                   RunService(s, Whole(q)) \/ IgnoreMessage(s, Whole(q))
              \/ \E m \in executed[s] \ processed[s] : SendResponse(s, m)
        BY <2>2 DEF Serve
      <3>2. CASE \E q \in Pending(s) :
                   RunService(s, Whole(q)) \/ IgnoreMessage(s, Whole(q))
        BY <1>4, <2>1, <3>2, RunServiceStep DEF Pending, Whole
      <3>3. CASE \E m \in executed[s] \ processed[s] : SendResponse(s, m)
        BY <3>3, SendResponseStep
      <3>. QED
        BY <3>1, <3>2, <3>3
    <2>3. CASE ServeJoined
      BY <1>4, <2>1, <2>3, RunServiceStep DEF ServeJoined, Pending
    <2>. QED
      BY <1>13, <2>2, <2>3
  <1>14. ASSUME NEW m \in Messages, Miss(m)
         PROVE  SystemInv'
    BY <1>14, MessageStep DEF Miss, proxyVars, serverVars, TypeOK
  <1>5. ASSUME NEW c \in Calls, Call(c)
        PROVE  SystemInv'
    <2>1. attempts[c] = 0 /\ 0 < Limit(c)
      BY <1>5, SystemAssumption DEF Call, AttemptInv, Limit
    <2>. QED
      BY <1>5, <2>1, AttemptStep
  <1>6. ASSUME NEW c \in Calls, Register(c)
        PROVE  SystemInv'
    <2>1. /\ Via[c] \in Channels
          /\ sequence_id[Via[c]] \in 0 .. MaxSeq /\ sequence_id[Via[c]] > 0
      BY <1>6, SystemAssumption DEF Calls, Register, RegisterInv, TypeOK
    <2>2. /\ sequence_id[Via[c]] - 1 \in SeqIds
          /\ sequence_id[Via[c]] - 1 < sequence_id[Via[c]]
      BY <2>1, SystemAssumption DEF SeqIds
    <2>3. /\ requests' \in [Channels -> SUBSET SeqIds]
          /\ \A ch \in Channels : \A s \in requests'[ch] : s < sequence_id[ch]
      BY <1>6, <2>1, <2>2 DEF Register, TypeOK, RegisterInv
    <2>4. /\ status' \in [Calls -> Statuses]
          /\ \A d \in Calls : /\ status[d] # "idle" <=> status'[d] # "idle"
                              /\ status'[d] = "late" => d \in SyncCalls
      BY <1>6 DEF Register, TypeOK, AttemptInv
    <2>. QED
      BY <1>6, <2>3, <2>4, CallStep DEF Register
  <1>15. ASSUME NEW c \in Calls, StoreClosure(c)
         PROVE  SystemInv'
    BY <1>15, CallStep DEF StoreClosure, channelVars, TypeOK, RegisterInv,
                           AttemptInv
  <1>7. ASSUME NEW c \in Calls, Timeout(c)
        PROVE  SystemInv'
    BY <1>7, CallStep DEF Timeout, channelVars, TypeOK, RegisterInv, AttemptInv
  <1>8. ASSUME NEW c \in Calls, Retry(c)
        PROVE  SystemInv'
    BY <1>8, AttemptStep DEF Retry, AttemptLeft, AttemptInv, Limit
  <1>9. ASSUME NEW c \in Calls, GiveUp(c)
        PROVE  SystemInv'
    BY <1>9, CallStep DEF GiveUp, Return, channelVars, TypeOK, RegisterInv,
                          AttemptInv
  <1>10. ASSUME Proxy
         PROVE  SystemInv'
    <2>1. PICK m \in Messages : fate[m] = "sent" /\ (Drop(m) \/ Forward(m))
      BY <1>10 DEF Proxy
    <2>2. CASE Drop(m)
      BY <2>1, <2>2, MessageStep DEF Drop, Router!Drop, serverVars, TypeOK, Messages
    <2>3. CASE Forward(m)
      <3>1. PICK c \in Get(m.dst) : receiver' = [receiver EXCEPT ![m] = c]
        BY <2>3 DEF Forward
      <3>2. c \in Conns /\ Announces[c] = m.dst
        BY <3>1 DEF Get
      <3>. QED
        BY <2>1, <2>3, <3>1, <3>2, MessageStep
           DEF Forward, serverVars, TypeOK, Messages
    <2>. QED
      BY <2>1, <2>2, <2>3
  <1>11. ASSUME ProcessMessage \/ \E ch \in MakingUp : ProcessMadeUp(ch)
         PROVE  SystemInv'
    BY <1>11, ProcessStep
  <1>12. ASSUME UNCHANGED vars
         PROVE  SystemInv'
    BY <1>12, MessageStep DEF vars, proxyVars, serverVars, TypeOK
  <1>. QED
    BY <1>1, <1>2, <1>3, <1>5, <1>6, <1>7, <1>8, <1>9, <1>10, <1>11, <1>12,
       <1>13, <1>14, <1>15
       DEF Next

-----------------------------------------------------------------------------
(***************************************************************************)
(* The invariants.                                                         *)
(***************************************************************************)
\* The invariant holds in every state, whatever fails and in whatever order.
THEOREM SystemInvariant == Spec => []SystemInv
  <1>. QED
    BY InitInvariant, InvariantStep, PTL DEF Spec

\* Every variable has its type; in particular SendRequest never makes more than
\* retry_times attempts.
THEOREM SystemTypeCorrect == Spec => []TypeOK
  <1>1. SystemInv => TypeOK
    BY DEF SystemInv
  <1>. QED
    BY <1>1, SystemInvariant, PTL

\* Though RpcChannel::ProcessMessage looks up the sequence id alone and servers
\* may join one request to another, only a message of the same sequence id gets
\* to a call, from another call of the same client, or through a server that
\* had missed both requests, or made up.
THEOREM AnswerHasCauseAlways == Spec => []AnswerHasCause
  <1>1. SystemInv => AnswerHasCause
    BY DEF SystemInv
  <1>. QED
    BY <1>1, SystemInvariant, PTL

\* Each execution of a call is of another of its attempts: the request of an
\* attempt is executed where it was delivered.
LEMMA ExecutionsPerAttempt == SystemInv => ExecutedPerAttempt
  <1>. SUFFICES ASSUME SystemInv, NEW c \in Calls
                PROVE  Cardinality(Executions(c)) <= Limit(c)
    BY DEF ExecutedPerAttempt, Limit
  <1>. USE DEF SystemInv
  <1>1. ASSUME NEW e \in Executions(c)
        PROVE  /\ e = <<e[1], e[2]>> /\ e[1] \in Servers
               /\ e[2] \in executed[e[1]]
               /\ e[2].of.n \in SeqsOf(c)
               /\ e[1] = receiver[e[2].of]
               /\ e[2].of = Request(Via[c], e[2].of.n)
    <2>1. /\ e \in Servers \X Parsed
          /\ e[2] \in executed[e[1]]
          /\ callOf[e[2].of.via][e[2].of.n] = c
      BY <1>1 DEF Executions
    <2>2. /\ e = <<e[1], e[2]>> /\ e[1] \in Servers
      BY <2>1
    <2>3. /\ e[2].of \in Requests
          /\ e[2].of.via = Via[c] /\ e[2].of.n \in SeqIds
      BY <2>1, <2>2, ExecutedParsed
    <2>4. e[2].of = Request(Via[c], e[2].of.n)
      BY <2>3, RequestFields
    <2>5. receiver[e[2].of] = e[1]
      BY <2>1, <2>2 DEF ServerInv
    <2>. QED
      BY <2>1, <2>2, <2>3, <2>4, <2>5 DEF SeqsOf
  <1>. DEFINE f == [e \in Executions(c) |-> e[2].of.n]
  <1>2. f \in Injection(Executions(c), SeqsOf(c))
    <2>1. f \in [Executions(c) -> SeqsOf(c)]
      BY <1>1
    <2>2. ASSUME NEW d \in Executions(c), NEW e \in Executions(c), f[d] = f[e]
          PROVE  d = e
      <3>1. d[2].of = e[2].of
        BY <1>1, <2>2
      <3>2. d[1] = e[1]
        BY <1>1, <3>1
      <3>3. /\ e[1] \in Servers
            /\ d[2] \in executed[e[1]] /\ e[2] \in executed[e[1]]
        BY <1>1, <3>2
      <3>4. d[2] = e[2]
        BY <3>1, <3>3 DEF ServerInv
      <3>. QED
        BY <1>1, <3>2, <3>4
    <2>. QED
      BY <2>1, <2>2, Fun_IsInj
  <1>3. Cardinality(Executions(c)) <= Cardinality(SeqsOf(c))
    BY <1>2, FiniteSeqs, FS_Injection
  <1>4. Cardinality(SeqsOf(c)) \in Nat /\ Cardinality(Executions(c)) \in Nat
    BY <1>2, FiniteSeqs, FS_Injection, FS_CardinalityType
  <1>5. /\ Cardinality(SeqsOf(c)) <= attempts[c] /\ attempts[c] <= Limit(c)
        /\ attempts[c] \in Nat /\ Limit(c) \in Nat
    BY SystemAssumption DEF AttemptInv, TypeOK, Limit
  <1>. QED
    BY <1>3, <1>4, <1>5

\* SendRequest has a call executed at most retry_times times, AsyncRequest
\* once, on all the servers together, those started again included.
THEOREM ExecutedPerAttemptAlways == Spec => []ExecutedPerAttempt
  <1>. QED
    BY ExecutionsPerAttempt, SystemInvariant, PTL

-----------------------------------------------------------------------------
(***************************************************************************)
(* The system implements RpcCalls for the calls on the only channel with   *)
(* its id.                                                                 *)
(***************************************************************************)
Known(st) == IF st \in {"calling", "registering", "late"} THEN "open" ELSE st

\* What is known of the calls when the status of one of them changes.
LEMMA StatusStep ==
  ASSUME TypeOK, NEW c \in Calls, NEW st, status' = [status EXCEPT ![c] = st]
  PROVE  Status' = IF c \in LonelyCalls THEN [Status EXCEPT ![c] = Known(st)]
                                        ELSE Status
  BY DEF TypeOK, Status, LonelyCalls, Known

\* No message is spent, or taken back, unless a call on such a channel succeeds.
LEMMA SpentStep ==
  ASSUME UNCHANGED answer,
         \A d \in LonelyCalls : status'[d] = "ok" <=> status[d] = "ok"
  PROVE  Spent' = Spent
  <1>1. {d \in LonelyCalls : status'[d] = "ok"} =
          {d \in LonelyCalls : status[d] = "ok"}
    OBVIOUS
  <1>2. Spent' = {answer'[c] : c \in {d \in LonelyCalls : status'[d] = "ok"}}
                   \intersect Misaddressed
    BY DEF Spent
  <1>. QED
    BY <1>1, <1>2 DEF Spent

\* A request that is executed keeps its call.
LEMMA ExecutedKeepTheirCalls ==
  ASSUME SystemInv, NEW c \in Calls, Send(c), UNCHANGED executed
  PROVE  ExecutedCalls' = ExecutedCalls
  <1>. USE DEF SystemInv
  <1>1. ASSUME NEW s \in Servers, NEW m \in executed[s]
        PROVE  callOf'[m.of.via][m.of.n] = callOf[m.of.via][m.of.n]
    <2>1. /\ m.of \in Requests /\ m.of.via \in Channels /\ m.of.n \in SeqIds
          /\ callOf[m.of.via][m.of.n] \in Calls
      BY ExecutedParsed
    <2>2. /\ Via[c] \in Channels /\ sequence_id[Via[c]] \in SeqIds
          /\ callOf[Via[c]][sequence_id[Via[c]]] = Null
          /\ Null \notin Calls
      BY SystemAssumption DEF Calls, Send, TypeOK, SeqIds, CallInv
    <2>3. m.of.via # Via[c] \/ m.of.n # sequence_id[Via[c]]
      BY <2>1, <2>2
    <2>. QED
      BY <2>1, <2>2, <2>3 DEF Send, TypeOK
  <1>2. \A m \in UNION {executed[s] : s \in Servers} :
          callOf'[m.of.via][m.of.n] = callOf[m.of.via][m.of.n]
    BY <1>1
  <1>. QED
    BY <1>2 DEF ExecutedCalls

\* The application sees nothing of a step that changes no status and executes
\* nothing.
LEMMA UnseenStep ==
  ASSUME Status' = Status, ExecutedCalls' = ExecutedCalls, Spent' = Spent
  PROVE  [Abstract!Next]_(Abstract!vars)
  BY DEF Abstract!vars

\* A server executes the call whose body it has parsed.
LEMMA ExecuteStep ==
  ASSUME SystemInv, NEW s \in Servers, NEW m \in Parsed, RunService(s, m)
  PROVE  [Abstract!Next]_(Abstract!vars)
  <1>. USE DEF SystemInv
  <1>. DEFINE d == callOf[m.of.via][m.of.n]
  <1>1. d \in Calls /\ status[d] # "idle"
    <2>1. m.of \in Requests /\ m.of.via \in Channels /\ m.of.n \in SeqIds
      BY RequestFields DEF Parsed
    <2>2. m.of.n < sequence_id[m.of.via]
      BY <2>1 DEF RunService, Parseable, Arrived, MessageInv
    <2>. QED
      BY <2>1, <2>2 DEF CallInv
  <1>2. /\ Status' = Status
        /\ Spent' = Spent
        /\ callOf' = callOf
        /\ executed' = [executed EXCEPT ![s] = @ \union {m}]
    BY SpentStep DEF RunService, callVars, channelVars, Status
  <1>3. UNION {executed'[t] : t \in Servers} =
          (UNION {executed[t] : t \in Servers}) \union {m}
    <2>1. \A t \in Servers : executed'[t] =
            IF t = s THEN executed[t] \union {m} ELSE executed[t]
      BY <1>2 DEF TypeOK
    <2>. QED
      BY <2>1
  <1>4. ExecutedCalls' = ExecutedCalls \union {d}
    <2>1. ExecutedCalls' =
            {callOf[e.of.via][e.of.n] :
               e \in UNION {executed'[t] : t \in Servers}}
      BY <1>2 DEF ExecutedCalls
    <2>2. ExecutedCalls' =
            {callOf[e.of.via][e.of.n] :
               e \in (UNION {executed[t] : t \in Servers}) \union {m}}
      BY <1>3, <2>1
    <2>. QED
      BY <2>2 DEF ExecutedCalls
  <1>5. CASE d \in LonelyCalls
    <2>1. Status[d] # "idle"
      BY <1>1, <1>5 DEF Status
    <2>2. Abstract!Execute(d)
      BY <1>2, <1>4, <1>5, <2>1 DEF Abstract!Execute
    <2>. QED
      BY <1>5, <2>2 DEF Abstract!Next
  <1>6. CASE d \notin LonelyCalls
    BY <1>2, <1>4, <1>6 DEF Abstract!vars
  <1>. QED
    BY <1>5, <1>6

\* What ends a call on the only channel with its id is a reply to a request of
\* the call itself, or a message not meant for it that is spent on it.
LEMMA AnswerRefinement ==
  ASSUME SystemInv, NEW ch \in Channels, NEW s \in SeqIds,
         NEW r \in Replies \union MadeUps, Answer(ch, s, r),
         callOf[ch][s] \in LonelyCalls /\ Via[callOf[ch][s]] = ch
           => r \in Misaddressed \/ callOf[ch][s] \in ExecutedCalls
  PROVE  [Abstract!Next]_(Abstract!vars)
  <1>. USE DEF SystemInv
  <1>. DEFINE c == callOf[ch][s]
  <1>1. ExecutedCalls' = ExecutedCalls
    BY DEF Answer, serverVars, ExecutedCalls
  <1>2. CASE s \in requests[ch] /\ status[c] = "open"
    <2>1. c \in Calls /\ Via[c] = ch
      BY <1>2 DEF RegisterInv, CallInv
    <2>2. PICK told \in {"ok", "failed"} : status' = [status EXCEPT ![c] = told]
      BY <1>2 DEF Answer
    <2>3. answer' = [answer EXCEPT ![c] = r] /\ r \notin taken
      BY <1>2 DEF Answer
    <2>4. Status' = IF c \in LonelyCalls THEN [Status EXCEPT ![c] = told]
                                         ELSE Status
      BY <2>1, <2>2, StatusStep DEF Known
    <2>5. CASE c \notin LonelyCalls
      <3>1. \A d \in LonelyCalls : /\ status'[d] = status[d]
                                  /\ answer'[d] = answer[d]
        BY <2>1, <2>2, <2>3, <2>5 DEF TypeOK, LonelyCalls
      <3>2. Spent' = Spent
        BY <3>1 DEF Spent
      <3>. QED
        BY <1>1, <2>4, <2>5, <3>2, UnseenStep
    <2>6. CASE c \in LonelyCalls
      <3>1. Status[c] = "open"
        BY <1>2, <2>6 DEF Status
      <3>2. ASSUME NEW d \in LonelyCalls
            PROVE  /\ d # c => status'[d] = status[d] /\ answer'[d] = answer[d]
                   /\ d = c => status'[d] = told /\ answer'[d] = r
        BY <2>1, <2>2, <2>3 DEF TypeOK, LonelyCalls
      <3>3. CASE told = "failed"
        <4>1. ASSUME NEW d \in LonelyCalls
              PROVE  /\ status'[d] = "ok" <=> status[d] = "ok"
                     /\ status'[d] = "ok" => answer'[d] = answer[d]
          BY <1>2, <3>2, <3>3
        <4>2. {d \in LonelyCalls : status'[d] = "ok"} =
                {d \in LonelyCalls : status[d] = "ok"}
          BY <4>1
        <4>3. Spent' = Spent
          <5>1. {answer'[d] : d \in {e \in LonelyCalls : status'[e] = "ok"}} =
                  {answer[d] : d \in {e \in LonelyCalls : status[e] = "ok"}}
            BY <4>1, <4>2
          <5>. QED
            BY <5>1 DEF Spent
        <4>4. Abstract!Fail(c)
          BY <1>1, <2>4, <2>6, <3>1, <3>3, <4>3 DEF Abstract!Fail
        <4>. QED
          BY <2>6, <4>4 DEF Abstract!Next
      <3>4. CASE told = "ok"
        <4>1. Spent' = Spent \union ({r} \intersect Misaddressed)
          <5>1. {answer'[d] : d \in {e \in LonelyCalls : status'[e] = "ok"}} =
                  {answer[d] : d \in {e \in LonelyCalls : status[e] = "ok"}}
                    \union {r}
            BY <1>2, <2>6, <3>2, <3>4
          <5>2. Spent' = {answer'[d] : d \in {e \in LonelyCalls : status'[e] = "ok"}}
                           \intersect Misaddressed
            BY DEF Spent
          <5>. QED
            BY <5>1, <5>2 DEF Spent
        <4>2. CASE r \in Misaddressed
          <5>1. r \notin Spent
            <6>1. ASSUME NEW d \in LonelyCalls
                  PROVE  answer[d] # r
              <7>1. d \in Calls
                BY DEF LonelyCalls
              <7>2. r # Null
                BY SystemAssumption
              <7>. QED
                BY <2>3, <7>1, <7>2 DEF TakenInv
            <6>. QED
              BY <6>1 DEF Spent
          <5>2. Spent' = Spent \union {r}
            BY <4>1, <4>2
          <5>3. Abstract!SucceedAstray(c, r)
            BY <1>1, <2>4, <2>6, <3>1, <3>4, <5>1, <5>2
               DEF Abstract!SucceedAstray
          <5>. QED
            BY <2>6, <4>2, <5>3 DEF Abstract!Next
        <4>3. CASE r \notin Misaddressed
          <5>1. Spent' = Spent
            BY <4>1, <4>3
          <5>2. c \in ExecutedCalls
            BY <2>1, <2>6, <4>3
          <5>3. Abstract!Succeed(c)
            BY <1>1, <2>4, <2>6, <3>1, <3>4, <5>1, <5>2 DEF Abstract!Succeed
          <5>. QED
            BY <2>6, <5>3 DEF Abstract!Next
        <4>. QED
          BY <4>2, <4>3
      <3>. QED
        BY <2>2, <3>3, <3>4
    <2>. QED
      BY <2>5, <2>6
  <1>3. CASE ~(s \in requests[ch] /\ status[c] = "open")
    <2>1. UNCHANGED <<status, answer>>
      BY <1>3 DEF Answer
    <2>2. Status' = Status /\ Spent' = Spent
      BY <2>1, SpentStep DEF Status
    <2>. QED
      BY <1>1, <2>2, UnseenStep
  <1>. QED
    BY <1>2, <1>3

\* A reply that was sent to this client as the one that made the request is to
\* a request of the call it is taken for.
LEMMA EndStep ==
  ASSUME SystemInv, NEW ch \in Channels, NEW r \in Replies, ProcessReply(ch, r)
  PROVE  [Abstract!Next]_(Abstract!vars)
  <1>. DEFINE c == callOf[ch][r.n.n]
  <1>1. /\ Arrived(r, ch) /\ Answer(ch, r.n.n, r) /\ r.n.n \in SeqIds
        /\ r.dst = Announces[ch]
    BY ArrivedReply DEF ProcessReply
  <1>2. ASSUME c \in LonelyCalls, Via[c] = ch, r \notin Misaddressed
        PROVE  c \in ExecutedCalls
    <2>1. r.dst = Announces[r.n.via]
      BY <1>2 DEF Misaddressed
    <2>2. r.via \in Servers /\ r.n \in Requests
      BY ReplyFields
    <2>3. r.n.via = ch
      BY <1>1, <1>2, <2>1, <2>2, RequestFields DEF LonelyCalls, Siblings
    <2>4. PICK m \in executed[r.via] : m.of = r.n
      BY <1>1, ArrivedReply
    <2>. QED
      BY <2>2, <2>3, <2>4 DEF ExecutedCalls
  <1>. QED
    BY <1>1, <1>2, AnswerRefinement

\* A step of a call.
LEMMA CallRefinement ==
  ASSUME SystemInv, NEW c \in Calls,
         \/ Call(c) \/ Register(c) \/ StoreClosure(c)
         \/ Timeout(c) \/ Retry(c) \/ GiveUp(c)
  PROVE  [Abstract!Next]_(Abstract!vars)
  <1>. USE DEF SystemInv
  <1>1. ExecutedCalls' = ExecutedCalls
    <2>1. CASE Call(c) \/ Retry(c)
      BY <2>1, ExecutedKeepTheirCalls DEF Call, Retry, serverVars
    <2>2. CASE Register(c) \/ StoreClosure(c) \/ Timeout(c) \/ GiveUp(c)
      BY <2>2 DEF Register, StoreClosure, Timeout, GiveUp, Return, channelVars,
                  serverVars, ExecutedCalls
    <2>. QED
      BY <2>1, <2>2
  <1>2. Spent' = Spent
    <2>1. UNCHANGED answer
      BY DEF Call, Register, StoreClosure, Timeout, Retry, GiveUp, Return
    <2>2. \A d \in Calls : status'[d] = "ok" <=> status[d] = "ok"
      BY DEF Call, Register, StoreClosure, Timeout, Retry, GiveUp, Return, TypeOK
    <2>. QED
      BY <2>1, <2>2, SpentStep DEF LonelyCalls
  <1>3. CASE Call(c)
    <2>1. Status' = IF c \in LonelyCalls THEN [Status EXCEPT ![c] = "open"]
                                         ELSE Status
      BY <1>3, StatusStep DEF Call, Known
    <2>2. CASE c \in LonelyCalls
      <3>1. Status[c] = "idle"
        BY <1>3, <2>2 DEF Call, Status
      <3>2. Abstract!Invoke(c)
        BY <1>1, <1>2, <2>1, <2>2, <3>1 DEF Abstract!Invoke
      <3>. QED
        BY <2>2, <3>2 DEF Abstract!Next
    <2>. QED
      BY <1>1, <1>2, <2>1, <2>2, UnseenStep
  <1>4. CASE Register(c) \/ StoreClosure(c) \/ Timeout(c)
    <2>1. Status' = IF c \in LonelyCalls THEN [Status EXCEPT ![c] = "open"]
                                         ELSE Status
      <3>1. CASE Register(c)
        BY <3>1, StatusStep DEF Register, Known
      <3>2. CASE StoreClosure(c)
        BY <3>2, StatusStep DEF StoreClosure, Known
      <3>3. CASE Timeout(c)
        BY <3>3, StatusStep DEF Timeout, Known
      <3>. QED
        BY <1>4, <3>1, <3>2, <3>3
    <2>2. c \in LonelyCalls => Status[c] = "open"
      BY <1>4 DEF Register, StoreClosure, Timeout, Status
    <2>3. Status' = Status
      BY <2>1, <2>2 DEF Status
    <2>. QED
      BY <1>1, <1>2, <2>3, UnseenStep
  <1>5. CASE Retry(c)
    <2>1. Status' = Status
      BY <1>5 DEF Retry, Status
    <2>. QED
      BY <1>1, <1>2, <2>1, UnseenStep
  <1>6. CASE GiveUp(c)
    <2>1. Status' = IF c \in LonelyCalls THEN [Status EXCEPT ![c] = "failed"]
                                         ELSE Status
      BY <1>6, StatusStep DEF GiveUp, Return, Known
    <2>2. CASE c \in LonelyCalls
      <3>1. Status[c] = "open"
        BY <1>6, <2>2 DEF GiveUp, Return, Status
      <3>2. Abstract!Fail(c)
        BY <1>1, <1>2, <2>1, <2>2, <3>1 DEF Abstract!Fail
      <3>. QED
        BY <2>2, <3>2 DEF Abstract!Next
    <2>. QED
      BY <1>1, <1>2, <2>1, <2>2, UnseenStep
  <1>. QED
    BY <1>3, <1>4, <1>5, <1>6

\* Every step is one of RpcCalls or unseen.
LEMMA RefinementStep ==
  SystemInv /\ [Next]_vars => [Abstract!Next]_(Abstract!vars)
  <1>. SUFFICES ASSUME SystemInv, [Next]_vars
                PROVE  [Abstract!Next]_(Abstract!vars)
    OBVIOUS
  <1>1. ASSUME UNCHANGED <<callVars, callOf, executed>>
        PROVE  [Abstract!Next]_(Abstract!vars)
    <2>1. /\ Status' = Status
          /\ ExecutedCalls' = ExecutedCalls
          /\ Spent' = Spent
      BY <1>1, SpentStep DEF callVars, Status, ExecutedCalls
    <2>. QED
      BY <2>1, UnseenStep
  <1>2. CASE \E c \in Conns : LoseConnection(c)
    BY <1>1, <1>2 DEF LoseConnection, channelVars, serverVars
  <1>3. CASE \E s \in Servers : Connect(s) \/ Crash(s)
    BY <1>1, <1>3 DEF Connect, Crash, channelVars, serverVars
  <1>4. CASE Serve \/ ServeJoined
    <2>1. ASSUME NEW s \in Servers, NEW m \in Parsed,
                 RunService(s, m) \/ IgnoreMessage(s, m)
          PROVE  [Abstract!Next]_(Abstract!vars)
      <3>1. CASE RunService(s, m)
        BY <3>1, ExecuteStep
      <3>2. CASE IgnoreMessage(s, m)
        BY <1>1, <3>2 DEF IgnoreMessage, channelVars
      <3>. QED
        BY <2>1, <3>1, <3>2
    <2>2. ASSUME NEW p \in Requests, NEW q \in Requests
          PROVE  [from |-> p, of |-> q] \in Parsed
      BY DEF Parsed
    <2>3. CASE Serve
      <3>1. PICK s \in Servers :
              \/ \E q \in Pending(s) :
                   RunService(s, Whole(q)) \/ IgnoreMessage(s, Whole(q))
              \/ \E m \in executed[s] \ processed[s] : SendResponse(s, m)
        BY <2>3 DEF Serve
      <3>2. CASE \E q \in Pending(s) :
                   RunService(s, Whole(q)) \/ IgnoreMessage(s, Whole(q))
        BY <2>1, <2>2, <3>2 DEF Pending, Whole
      <3>3. CASE \E m \in executed[s] \ processed[s] : SendResponse(s, m)
        BY <1>1, <3>3 DEF SendResponse, channelVars
      <3>. QED
        BY <3>1, <3>2, <3>3
    <2>4. CASE ServeJoined
      BY <2>1, <2>2, <2>4 DEF ServeJoined, Pending
    <2>. QED
      BY <1>4, <2>3, <2>4
  <1>5. CASE \E c \in Calls : \/ Call(c) \/ Register(c) \/ StoreClosure(c)
                             \/ Timeout(c) \/ Retry(c) \/ GiveUp(c)
    BY <1>5, CallRefinement
  <1>6. CASE Proxy
    BY <1>1, <1>6 DEF Proxy, Drop, Forward, channelVars, serverVars
  <1>7. CASE \E m \in {n \in Messages : fate[n] = "delivered"} : Miss(m)
    BY <1>1, <1>7 DEF Miss, channelVars, serverVars
  <1>8. CASE ProcessMessage
    BY <1>8, EndStep DEF ProcessMessage
  <1>9. CASE \E ch \in MakingUp : ProcessMadeUp(ch)
    <2>1. PICK ch \in MakingUp : Answer(ch, 0, MadeUp(ch))
      BY <1>9 DEF ProcessMadeUp
    <2>2. /\ ch \in Channels /\ 0 \in SeqIds
          /\ MadeUp(ch) \in MadeUps /\ MadeUp(ch) \in Misaddressed
      BY SystemAssumption DEF SeqIds, MadeUps, Misaddressed
    <2>. QED
      BY <2>1, <2>2, AnswerRefinement
  <1>10. CASE UNCHANGED vars
    BY <1>1, <1>10 DEF vars, channelVars, serverVars
  <1>. QED
    BY <1>2, <1>3, <1>4, <1>5, <1>6, <1>7, <1>8, <1>9, <1>10 DEF Next

\* A call on the only channel with its id is answered once, and succeeds only if
\* a server executed it or with a message that was made up or sent to the wrong
\* client, which serves one call: whatever is lost, retried or started again,
\* and whatever the other clients do.
THEOREM SystemImplementsCalls == Spec => ImplementsCalls
  <1>1. Init => Abstract!Init
    <2>1. ASSUME Init
          PROVE  /\ Status = [c \in LonelyCalls |-> "idle"]
                 /\ ExecutedCalls = {}
                 /\ Spent = {}
      BY <2>1 DEF Init, Status, ExecutedCalls, LonelyCalls, Spent
    <2>. QED
      BY <2>1 DEF Abstract!Init
  <1>. QED
    BY <1>1, RefinementStep, SystemInvariant, PTL
       DEF Spec, ImplementsCalls, Abstract!Spec
=============================================================================
