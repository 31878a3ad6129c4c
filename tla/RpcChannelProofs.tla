--------------------------- MODULE RpcChannelProofs ---------------------------
(***************************************************************************)
(* The inductive invariant of RpcChannel and the theorems that follow from *)
(* it, for every set of calls, every bound and every number of retries.    *)
(***************************************************************************)
EXTENDS RpcChannel, TLAPS

\* The thread of c is inside SendRequest or AsyncRequest.
Active(c) ==
  pc[c] \in {"loop", "call", "send", "register", "poll", "find", "closure",
             "response"}

\* The sequence id of c stands for c: it was sent and may be answered, or
\* was.
Assigned(c) ==
  \/ pc[c] \in {"register", "poll", "find", "closure", "response"}
  \/ pc[c] = "returned" /\ (c \in AsyncCalls \/ outcome[c] = "ok")

\* The client's mutex_ and what each kind of call can be doing.
ControlInv ==
  /\ stub = "waiting" => clientMutex = "GetStub"
  /\ \A c \in Calls :
       /\ Active(c) => clientMutex = c
       /\ pc[c] \in {"loop", "poll", "find"} => c \in SyncCalls
       /\ pc[c] \in {"closure", "response"} => c \in AsyncCalls
       /\ c \in SyncCalls /\ pc[c] \in {"call", "send", "register", "poll", "find"}
            => retry[c] < RetryTimes

\* Sequence ids are below the counter, and no two calls have the same one.
SeqInv ==
  \A c \in Calls :
    /\ pc[c] = "send" => seqOf[c] = sequence_id
    /\ Assigned(c) => seqOf[c] < sequence_id
    /\ \A d \in Calls :
         Assigned(c) /\ Assigned(d) /\ seqOf[c] = seqOf[d] => c = d

\* The lifetime of the controllers and what the application has been told.
ControllerInv ==
  \A c \in Calls :
    /\ pc[c] = "idle" => outcome[c] = "none"
    /\ Active(c) /\ pc[c] # "response" => controller[c] \in {"live", "failed"}
    /\ controller[c] # "deleted" => outcome[c] = "none"
    /\ controller[c] = "failed" => expired[c]
    /\ pc[c] = "find" => controller[c] # "failed"

\* A closure belongs to the call whose id it is stored under.
ClosureInv ==
  \A s \in SeqIds :
    closures[s] # Null =>
      /\ closures[s] \in AsyncCalls
      /\ seqOf[closures[s]] = s
      /\ pc[closures[s]] \in {"response", "returned"}
      /\ pc[closures[s]] = "returned" => responses[s] # Null

\* The reply to an id is accepted once.
Pending(s) ==
  \/ s \in requests
  \/ processing # Null /\ processing.msg.seq = s

OnceInv ==
  /\ \A s \in SeqIds :
       Pending(s) =>
         /\ s < sequence_id
         /\ closures[s] # Null => controller[closures[s]] # "deleted"
         /\ \A i \in 1 .. Len(callbacks) : callbacks[i] # s
         /\ \A c \in Calls : pc[c] = "register" => seqOf[c] # s
  /\ processing # Null =>
       /\ processing.msg.seq \notin requests
       /\ processing.async => closures[processing.msg.seq] # Null
  /\ CallbackOnce

\* Every id in transit belongs to the call whose data it comes with.
Owns(s, c) ==
  /\ c \in Calls
  /\ pc[c] # "idle"
  /\ s < sequence_id
  /\ \A d \in Calls : Assigned(d) /\ seqOf[d] = s => d = c

\* The replies the client has received and not yet stored or dropped.
Answers == replies \union (IF processing = Null THEN {} ELSE {processing.msg})

\* What is in transit belongs to the call that has its id, and a reply comes
\* from a server that executed the call; the rest are foreign messages.
Received == Foreign \ strays

TransitInv ==
  /\ \A m \in wire : Owns(m.seq, m.data)
  /\ \A m \in Answers :
       IF m.data \in Calls
         THEN Owns(m.seq, m.data) /\ m.data \in served
         ELSE m \in Received

\* An entry of responses_ belongs to the call that has its id, or holds a
\* foreign message.  A reply is only stored under an id nobody waits for.
SlotInv ==
  \A s \in SeqIds : \A o \in Data :
    responses[s] # Null /\ responses[s].of = o =>
      /\ o \in Calls => Owns(s, o)
      /\ o \in Calls /\ responses[s].object = "reply" => o \in served
      /\ responses[s].object = "user" => o \in AsyncCalls /\ pc[o] = "returned"
      /\ o \notin Calls => [seq |-> s, data |-> o] \in Received

FreshInv ==
  \A s \in SeqIds :
    responses[s] # Null =>
      /\ s < sequence_id
      /\ \A c \in Calls : pc[c] = "register" => seqOf[c] # s
      /\ Pending(s) => responses[s].object = "user"

\* A queued callback will report the answer to its own call, or a foreign
\* message that has its id.
Answered(c) ==
  \/ response[c] = c /\ c \in served
  \/ Misled(c)

AnswerInv ==
  /\ \A i \in 1 .. Len(callbacks) : Answered(closures[callbacks[i]])
  /\ \A c \in Calls : response[c] # Null => pc[c] = "returned"
  /\ OwnReply

\* The inductive invariant, without and with the owners of the ids.
BaseInv     == TypeOK /\ ControlInv
CallbackInv == BaseInv /\ SeqInv /\ ControllerInv /\ ClosureInv /\ OnceInv
OwnerInv    == TransitInv /\ SlotInv /\ FreshInv /\ AnswerInv

\* Every step keeps the variables in their types.
LEMMA TypeNext ==
  BaseInv /\ [Next]_vars => TypeOK'
<1> SUFFICES ASSUME BaseInv, [Next]_vars
             PROVE  TypeOK'
  OBVIOUS
<1> USE DEF vars, clientVars, channelVars, mapVars, networkVars
<1>1. CASE GetStub
  BY <1>1 DEF GetStub, BaseInv, TypeOK
<1>2. CASE GetStubReturn
  BY <1>2 DEF GetStubReturn, BaseInv, TypeOK
<1>3. CASE Connected
  BY <1>3 DEF Connected, BaseInv, TypeOK
<1>4. CASE MetaEchoed
  BY <1>4 DEF MetaEchoed, BaseInv, TypeOK
<1>5. CASE Disconnected
  BY <1>5 DEF Disconnected, BaseInv, TypeOK
<1>6. ASSUME NEW c \in SyncCalls, SendRequest(c)
      PROVE  TypeOK'
  BY <1>6 DEF SendRequest, BaseInv, TypeOK, Calls
<1>7. ASSUME NEW c \in AsyncCalls, AsyncRequest(c)
      PROVE  TypeOK'
  BY <1>7 DEF AsyncRequest, BaseInv, TypeOK, Calls
<1>8. ASSUME NEW c \in Calls, NextAttempt(c)
      PROVE  TypeOK'
  BY <1>8 DEF NextAttempt, BaseInv, TypeOK
<1>9. ASSUME NEW c \in Calls, NoMoreAttempts(c)
      PROVE  TypeOK'
  BY <1>9 DEF NoMoreAttempts, Return, BaseInv, TypeOK
<1>10. ASSUME NEW c \in Calls, GetSequenceId(c)
      PROVE  TypeOK'
  BY <1>10, ChannelAssumption DEF GetSequenceId, BaseInv, TypeOK, SeqIds
<1>11. ASSUME NEW c \in Calls, Send(c)
      PROVE  TypeOK'
  BY <1>11, ChannelAssumption DEF Send, BaseInv, TypeOK, SeqIds, Request, Calls
<1>12. ASSUME NEW c \in Calls, Register(c)
      PROVE  TypeOK'
  BY <1>12 DEF Register, Race, BaseInv, TypeOK
<1>13. ASSUME NEW c \in Calls, PollDeadline(c)
      PROVE  TypeOK'
  BY <1>13 DEF PollDeadline, BaseInv, TypeOK
<1>14. ASSUME NEW c \in Calls, FindNothing(c)
      PROVE  TypeOK'
  BY <1>14 DEF FindNothing, BaseInv, TypeOK
<1>15. ASSUME NEW c \in Calls, FindResponse(c)
      PROVE  TypeOK'
  <2>1. responses[seqOf[c]] \in Slot
    BY <1>15 DEF FindResponse, BaseInv, TypeOK
  <2>2. /\ response' \in [Calls -> Data \union {Null}]
        /\ responses' \in [SeqIds -> Slot \union {Null}]
    BY <1>15, <2>1 DEF FindResponse, BaseInv, TypeOK, Slot
  <2>3. retry' \in [Calls -> 0 .. RetryTimes]
    <3>1. c \in SyncCalls /\ retry[c] \in 0 .. RetryTimes /\ retry[c] < RetryTimes
      BY <1>15 DEF FindResponse, BaseInv, TypeOK, ControlInv
    <3>2. retry[c] + 1 \in 0 .. RetryTimes
      BY <3>1, ChannelAssumption
    <3> QED
      BY <1>15, <3>2 DEF FindResponse, Return, BaseInv, TypeOK
  <2> QED
    BY <1>15, <2>2, <2>3 DEF FindResponse, Return, BaseInv, TypeOK
<1>16. ASSUME NEW c \in Calls, AttemptTimeout(c)
      PROVE  TypeOK'
  BY <1>16, ChannelAssumption DEF AttemptTimeout, BaseInv, TypeOK, ControlInv
<1>17. ASSUME NEW c \in Calls, StoreClosure(c)
      PROVE  TypeOK'
  BY <1>17 DEF StoreClosure, Race, BaseInv, TypeOK, Calls, ControlInv
<1>18. ASSUME NEW c \in Calls, StoreResponse(c)
      PROVE  TypeOK'
  BY <1>18, ChannelAssumption DEF StoreResponse, Race, BaseInv, TypeOK, Calls,
     ControlInv, Slot, Data
<1>19. ASSUME NEW c \in Calls, Expire(c)
      PROVE  TypeOK'
  BY <1>19 DEF Expire, BaseInv, TypeOK
<1>20. ASSUME NEW m \in replies, DropReply(m)
      PROVE  TypeOK'
  BY <1>20 DEF DropReply, BaseInv, TypeOK
<1>21. ASSUME NEW m \in replies, LookupRequest(m)
      PROVE  TypeOK'
  BY <1>21 DEF LookupRequest, BaseInv, TypeOK, Message, Calls
<1>22. CASE StoreReply
  BY <1>22 DEF StoreReply, BaseInv, TypeOK, Message, Slot
<1>23. CASE CopyReply
  <2> DEFINE q == processing.msg.seq
  <2>1. processing \in [msg : Message, async : BOOLEAN] /\ q \in SeqIds
        /\ processing.msg.data \in Data
    BY <1>23 DEF CopyReply, BaseInv, TypeOK, Message
  <2>2. callbacks' \in Seq(SeqIds)
    <3>1. CASE responses[q] = Null
      BY <1>23, <3>1 DEF CopyReply, BaseInv, TypeOK
    <3>2. CASE responses[q] # Null
      <4>1. callbacks' = Append(callbacks, q)
        BY <1>23, <3>2 DEF CopyReply
      <4> QED
        BY <2>1, <4>1 DEF BaseInv, TypeOK
    <3> QED
      BY <3>1, <3>2
  <2>3. response' \in [Calls -> Data \union {Null}]
    BY <1>23, <2>1 DEF CopyReply, BaseInv, TypeOK
  <2> QED
    BY <1>23, <2>2, <2>3 DEF CopyReply, BaseInv, TypeOK
<1>24. CASE ProcessCallback
  <2>1. Head(callbacks) \in SeqIds /\ callbacks' \in Seq(SeqIds)
    BY <1>24 DEF ProcessCallback, BaseInv, TypeOK
  <2>2. /\ controller' \in [Calls -> {"none", "live", "failed", "deleted"}]
        /\ outcome' \in [Calls -> {"none", "ok", "failed"}]
    BY <1>24 DEF ProcessCallback, BaseInv, TypeOK
  <2> QED
    BY <1>24, <2>1, <2>2 DEF ProcessCallback, BaseInv, TypeOK
<1>25. ASSUME NEW m \in wire, Serve(m)
      PROVE  TypeOK'
  BY <1>25 DEF Serve, BaseInv, TypeOK, Message, Request, Data
<1>26. ASSUME NEW m \in wire, Ignore(m)
      PROVE  TypeOK'
  BY <1>26 DEF Ignore, BaseInv, TypeOK
<1>27. ASSUME NEW m \in strays, StrayReply(m)
      PROVE  TypeOK'
  <2>1. 0 \in SeqIds
    BY ChannelAssumption DEF SeqIds
  <2>2. Foreign \subseteq Message
    BY <2>1, ChannelAssumption DEF Foreign, Message, Data
  <2> QED
    BY <1>27, <2>2 DEF StrayReply, BaseInv, TypeOK
<1>28. CASE UNCHANGED vars
  BY <1>28 DEF BaseInv, TypeOK
<1> QED
  BY <1>1, <1>2, <1>3, <1>4, <1>5, <1>6, <1>7, <1>8, <1>9, <1>10, <1>11, <1>12,
     <1>13, <1>14, <1>15, <1>16, <1>17, <1>18, <1>19, <1>20, <1>21, <1>22,
     <1>23, <1>24, <1>25, <1>26, <1>27, <1>28 DEF Next, Caller, CallMethod,
     ProcessMessage, Connection, Peer, Calls

\* Every step keeps the client's mutex_ with the call that runs.
LEMMA ControlNext ==
  BaseInv /\ [Next]_vars => ControlInv'
<1> SUFFICES ASSUME BaseInv, [Next]_vars
             PROVE  ControlInv'
  OBVIOUS
<1> USE DEF vars, clientVars, channelVars, mapVars, networkVars
<1>1. CASE GetStub
  BY <1>1, ChannelAssumption DEF GetStub, BaseInv, TypeOK, ControlInv, Active
<1>2. CASE GetStubReturn
  BY <1>2, ChannelAssumption DEF GetStubReturn, BaseInv, TypeOK, ControlInv,
     Active
<1>3. CASE Connected
  BY <1>3 DEF Connected, BaseInv, TypeOK, ControlInv, Active
<1>4. CASE MetaEchoed
  BY <1>4 DEF MetaEchoed, BaseInv, TypeOK, ControlInv, Active
<1>5. CASE Disconnected
  BY <1>5 DEF Disconnected, BaseInv, TypeOK, ControlInv, Active
<1>6. ASSUME NEW c \in SyncCalls, SendRequest(c)
      PROVE  ControlInv'
  BY <1>6, ChannelAssumption DEF SendRequest, BaseInv, TypeOK, ControlInv,
     Active, Calls
<1>7. ASSUME NEW c \in AsyncCalls, AsyncRequest(c)
      PROVE  ControlInv'
  BY <1>7, ChannelAssumption DEF AsyncRequest, BaseInv, TypeOK, ControlInv,
     Active, Calls
<1>8. ASSUME NEW c \in Calls, NextAttempt(c)
      PROVE  ControlInv'
  BY <1>8, ChannelAssumption DEF NextAttempt, BaseInv, TypeOK, ControlInv,
     Active, Calls
<1>9. ASSUME NEW c \in Calls, NoMoreAttempts(c)
      PROVE  ControlInv'
  BY <1>9, ChannelAssumption DEF NoMoreAttempts, Return, BaseInv, TypeOK,
     ControlInv, Active, Calls
<1>10. ASSUME NEW c \in Calls, GetSequenceId(c)
      PROVE  ControlInv'
  BY <1>10 DEF GetSequenceId, BaseInv, TypeOK, ControlInv, Active
<1>11. ASSUME NEW c \in Calls, Send(c)
      PROVE  ControlInv'
  BY <1>11, ChannelAssumption DEF Send, BaseInv, TypeOK, ControlInv, Active
<1>12. ASSUME NEW c \in Calls, Register(c)
      PROVE  ControlInv'
  BY <1>12, ChannelAssumption DEF Register, Race, BaseInv, TypeOK, ControlInv,
     Active, Calls
<1>13. ASSUME NEW c \in Calls, PollDeadline(c)
      PROVE  ControlInv'
  BY <1>13 DEF PollDeadline, BaseInv, TypeOK, ControlInv, Active
<1>14. ASSUME NEW c \in Calls, FindNothing(c)
      PROVE  ControlInv'
  BY <1>14 DEF FindNothing, BaseInv, TypeOK, ControlInv, Active
<1>15. ASSUME NEW c \in Calls, FindResponse(c)
      PROVE  ControlInv'
  BY <1>15, ChannelAssumption DEF FindResponse, Return, BaseInv, TypeOK,
     ControlInv, Active, Calls
<1>16. ASSUME NEW c \in Calls, AttemptTimeout(c)
      PROVE  ControlInv'
  BY <1>16, ChannelAssumption DEF AttemptTimeout, BaseInv, TypeOK, ControlInv,
     Active, Calls
<1>17. ASSUME NEW c \in Calls, StoreClosure(c)
      PROVE  ControlInv'
  BY <1>17, ChannelAssumption DEF StoreClosure, Race, BaseInv, TypeOK,
     ControlInv, Active, Calls
<1>18. ASSUME NEW c \in Calls, StoreResponse(c)
      PROVE  ControlInv'
  BY <1>18, ChannelAssumption DEF StoreResponse, Race, BaseInv, TypeOK,
     ControlInv, Active, Calls
<1>19. ASSUME NEW c \in Calls, Expire(c)
      PROVE  ControlInv'
  BY <1>19 DEF Expire, BaseInv, TypeOK, ControlInv, Active
<1>20. ASSUME NEW m \in replies, DropReply(m)
      PROVE  ControlInv'
  BY <1>20 DEF DropReply, BaseInv, TypeOK, ControlInv, Active
<1>21. ASSUME NEW m \in replies, LookupRequest(m)
      PROVE  ControlInv'
  BY <1>21 DEF LookupRequest, BaseInv, TypeOK, ControlInv, Active
<1>22. CASE StoreReply
  BY <1>22 DEF StoreReply, BaseInv, TypeOK, ControlInv, Active
<1>23. CASE CopyReply
  BY <1>23 DEF CopyReply, BaseInv, TypeOK, ControlInv, Active
<1>24. CASE ProcessCallback
  BY <1>24 DEF ProcessCallback, BaseInv, TypeOK, ControlInv, Active
<1>25. ASSUME NEW m \in wire, Serve(m)
      PROVE  ControlInv'
  BY <1>25 DEF Serve, BaseInv, TypeOK, ControlInv, Active
<1>26. ASSUME NEW m \in wire, Ignore(m)
      PROVE  ControlInv'
  BY <1>26 DEF Ignore, BaseInv, TypeOK, ControlInv, Active
<1>27. ASSUME NEW m \in strays, StrayReply(m)
      PROVE  ControlInv'
  BY <1>27 DEF StrayReply, BaseInv, TypeOK, ControlInv, Active
<1>28. CASE UNCHANGED vars
  BY <1>28 DEF BaseInv, TypeOK, ControlInv, Active
<1> QED
  BY <1>1, <1>2, <1>3, <1>4, <1>5, <1>6, <1>7, <1>8, <1>9, <1>10, <1>11, <1>12,
     <1>13, <1>14, <1>15, <1>16, <1>17, <1>18, <1>19, <1>20, <1>21, <1>22,
     <1>23, <1>24, <1>25, <1>26, <1>27, <1>28 DEF Next, Caller, CallMethod,
     ProcessMessage, Connection, Peer, Calls

\* The callback at the head of the queue is that of a call not yet reported.
LEMMA HeadCallback ==
  ASSUME BaseInv, ClosureInv, OnceInv, callbacks # <<>>
  PROVE  /\ Head(callbacks) \in SeqIds
         /\ closures[Head(callbacks)] \in AsyncCalls
         /\ closures[Head(callbacks)] \in Calls
         /\ closures[Head(callbacks)] # Null
         /\ controller[closures[Head(callbacks)]] # "deleted"
         /\ pc[closures[Head(callbacks)]] \in {"response", "returned"}
<1>1. /\ Head(callbacks) = callbacks[1] /\ 1 \in 1 .. Len(callbacks)
      /\ Head(callbacks) \in SeqIds
  BY DEF BaseInv, TypeOK
<1>2. /\ closures[Head(callbacks)] # Null
      /\ controller[closures[Head(callbacks)]] # "deleted"
  BY <1>1 DEF OnceInv, CallbackOnce
<1> QED
  BY <1>1, <1>2 DEF ClosureInv, Calls

\* Every step keeps the ids of the calls distinct: sequence_id_ only grows,
\* and only the holder of the client's mutex_ reads and writes it.
LEMMA SeqNext ==
  BaseInv /\ SeqInv /\ ClosureInv /\ OnceInv /\ [Next]_vars => SeqInv'
<1> SUFFICES ASSUME BaseInv /\ SeqInv /\ ClosureInv /\ OnceInv, [Next]_vars
             PROVE  SeqInv'
  OBVIOUS
<1> USE DEF vars, clientVars, channelVars, mapVars, networkVars
<1>1. CASE GetStub
  BY <1>1 DEF GetStub, BaseInv, TypeOK, ControlInv, Active, SeqInv, Assigned
<1>2. CASE GetStubReturn
  BY <1>2 DEF GetStubReturn, BaseInv, TypeOK, ControlInv, Active, SeqInv,
     Assigned
<1>3. CASE Connected
  BY <1>3 DEF Connected, BaseInv, TypeOK, ControlInv, Active, SeqInv, Assigned
<1>4. CASE MetaEchoed
  BY <1>4 DEF MetaEchoed, BaseInv, TypeOK, ControlInv, Active, SeqInv, Assigned
<1>5. CASE Disconnected
  BY <1>5 DEF Disconnected, BaseInv, TypeOK, ControlInv, Active, SeqInv,
     Assigned
<1>6. ASSUME NEW c \in SyncCalls, SendRequest(c)
      PROVE  SeqInv'
  BY <1>6, ChannelAssumption DEF SendRequest, BaseInv, TypeOK, ControlInv,
     Active, SeqInv, Assigned, Calls
<1>7. ASSUME NEW c \in AsyncCalls, AsyncRequest(c)
      PROVE  SeqInv'
  BY <1>7, ChannelAssumption DEF AsyncRequest, BaseInv, TypeOK, ControlInv,
     Active, SeqInv, Assigned, Calls
<1>8. ASSUME NEW c \in Calls, NextAttempt(c)
      PROVE  SeqInv'
  BY <1>8, ChannelAssumption DEF NextAttempt, BaseInv, TypeOK, ControlInv,
     Active, SeqInv, Assigned, Calls, SeqIds
<1>9. ASSUME NEW c \in Calls, NoMoreAttempts(c)
      PROVE  SeqInv'
  BY <1>9, ChannelAssumption DEF NoMoreAttempts, Return, BaseInv, TypeOK,
     ControlInv, Active, SeqInv, Assigned, Calls, SeqIds
<1>10. ASSUME NEW c \in Calls, GetSequenceId(c)
      PROVE  SeqInv'
  BY <1>10, ChannelAssumption DEF GetSequenceId, BaseInv, TypeOK, ControlInv,
     Active, SeqInv, Assigned, Calls, SeqIds
<1>11. ASSUME NEW c \in Calls, Send(c)
      PROVE  SeqInv'
  BY <1>11, ChannelAssumption DEF Send, BaseInv, TypeOK, ControlInv, Active,
     SeqInv, Assigned, Calls, SeqIds
<1>12. ASSUME NEW c \in Calls, Register(c)
      PROVE  SeqInv'
  BY <1>12 DEF Register, Race, BaseInv, TypeOK, ControlInv, Active, SeqInv,
     Assigned
<1>13. ASSUME NEW c \in Calls, PollDeadline(c)
      PROVE  SeqInv'
  BY <1>13 DEF PollDeadline, BaseInv, TypeOK, ControlInv, Active, SeqInv,
     Assigned
<1>14. ASSUME NEW c \in Calls, FindNothing(c)
      PROVE  SeqInv'
  BY <1>14 DEF FindNothing, BaseInv, TypeOK, ControlInv, Active, SeqInv,
     Assigned
<1>15. ASSUME NEW c \in Calls, FindResponse(c)
      PROVE  SeqInv'
  BY <1>15, ChannelAssumption DEF FindResponse, Return, BaseInv, TypeOK,
     ControlInv, Active, SeqInv, Assigned, Calls, SeqIds
<1>16. ASSUME NEW c \in Calls, AttemptTimeout(c)
      PROVE  SeqInv'
  BY <1>16, ChannelAssumption DEF AttemptTimeout, BaseInv, TypeOK, ControlInv,
     Active, SeqInv, Assigned, Calls, SeqIds
<1>17. ASSUME NEW c \in Calls, StoreClosure(c)
      PROVE  SeqInv'
  BY <1>17 DEF StoreClosure, Race, BaseInv, TypeOK, ControlInv, Active, SeqInv,
     Assigned
<1>18. ASSUME NEW c \in Calls, StoreResponse(c)
      PROVE  SeqInv'
  BY <1>18, ChannelAssumption DEF StoreResponse, Race, BaseInv, TypeOK,
     ControlInv, Active, SeqInv, Assigned, Calls, SeqIds
<1>19. ASSUME NEW c \in Calls, Expire(c)
      PROVE  SeqInv'
  BY <1>19 DEF Expire, BaseInv, TypeOK, ControlInv, Active, SeqInv, Assigned
<1>20. ASSUME NEW m \in replies, DropReply(m)
      PROVE  SeqInv'
  BY <1>20 DEF DropReply, BaseInv, TypeOK, ControlInv, Active, SeqInv, Assigned
<1>21. ASSUME NEW m \in replies, LookupRequest(m)
      PROVE  SeqInv'
  BY <1>21 DEF LookupRequest, BaseInv, TypeOK, ControlInv, Active, SeqInv,
     Assigned
<1>22. CASE StoreReply
  BY <1>22 DEF StoreReply, BaseInv, TypeOK, ControlInv, Active, SeqInv, Assigned
<1>23. CASE CopyReply
  BY <1>23 DEF CopyReply, BaseInv, TypeOK, ControlInv, Active, SeqInv, Assigned
<1>24. CASE ProcessCallback
  <2>1. callbacks # <<>>
    BY <1>24 DEF ProcessCallback
  <2>2. \A c \in Calls : Assigned(c)' => Assigned(c)
    BY <1>24, <2>1, HeadCallback DEF ProcessCallback, BaseInv, TypeOK, Assigned
  <2> QED
    BY <1>24, <2>2 DEF ProcessCallback, SeqInv
<1>25. ASSUME NEW m \in wire, Serve(m)
      PROVE  SeqInv'
  BY <1>25 DEF Serve, BaseInv, TypeOK, ControlInv, Active, SeqInv, Assigned
<1>26. ASSUME NEW m \in wire, Ignore(m)
      PROVE  SeqInv'
  BY <1>26 DEF Ignore, BaseInv, TypeOK, ControlInv, Active, SeqInv, Assigned
<1>27. ASSUME NEW m \in strays, StrayReply(m)
      PROVE  SeqInv'
  BY <1>27 DEF StrayReply, BaseInv, TypeOK, ControlInv, Active, SeqInv, Assigned
<1>28. CASE UNCHANGED vars
  BY <1>28 DEF BaseInv, TypeOK, ControlInv, Active, SeqInv, Assigned
<1> QED
  BY <1>1, <1>2, <1>3, <1>4, <1>5, <1>6, <1>7, <1>8, <1>9, <1>10, <1>11, <1>12,
     <1>13, <1>14, <1>15, <1>16, <1>17, <1>18, <1>19, <1>20, <1>21, <1>22,
     <1>23, <1>24, <1>25, <1>26, <1>27, <1>28 DEF Next, Caller, CallMethod,
     ProcessMessage, Connection, Peer, Calls

\* Every step keeps a controller alive until its call has been reported.
LEMMA ControllerNext ==
  BaseInv /\ ClosureInv /\ OnceInv /\ ControllerInv /\ [Next]_vars => ControllerInv'
<1> SUFFICES ASSUME BaseInv /\ ClosureInv /\ OnceInv /\ ControllerInv, [Next]_vars
             PROVE  ControllerInv'
  OBVIOUS
<1> USE DEF vars, clientVars, channelVars, mapVars, networkVars
<1>1. CASE GetStub
  BY <1>1 DEF GetStub, BaseInv, TypeOK, ControlInv, Active, ControllerInv
<1>2. CASE GetStubReturn
  BY <1>2 DEF GetStubReturn, BaseInv, TypeOK, ControlInv, Active, ControllerInv
<1>3. CASE Connected
  BY <1>3 DEF Connected, BaseInv, TypeOK, ControlInv, Active, ControllerInv
<1>4. CASE MetaEchoed
  BY <1>4 DEF MetaEchoed, BaseInv, TypeOK, ControlInv, Active, ControllerInv
<1>5. CASE Disconnected
  BY <1>5 DEF Disconnected, BaseInv, TypeOK, ControlInv, Active, ControllerInv
<1>6. ASSUME NEW c \in SyncCalls, SendRequest(c)
      PROVE  ControllerInv'
  BY <1>6, ChannelAssumption DEF SendRequest, BaseInv, TypeOK, ControlInv,
     Active, ControllerInv, Calls
<1>7. ASSUME NEW c \in AsyncCalls, AsyncRequest(c)
      PROVE  ControllerInv'
  BY <1>7, ChannelAssumption DEF AsyncRequest, BaseInv, TypeOK, ControlInv,
     Active, ControllerInv, Calls
<1>8. ASSUME NEW c \in Calls, NextAttempt(c)
      PROVE  ControllerInv'
  BY <1>8 DEF NextAttempt, BaseInv, TypeOK, ControlInv, Active, ControllerInv
<1>9. ASSUME NEW c \in Calls, NoMoreAttempts(c)
      PROVE  ControllerInv'
  BY <1>9 DEF NoMoreAttempts, Return, BaseInv, TypeOK, ControlInv, Active,
     ControllerInv
<1>10. ASSUME NEW c \in Calls, GetSequenceId(c)
      PROVE  ControllerInv'
  BY <1>10 DEF GetSequenceId, BaseInv, TypeOK, ControlInv, Active, ControllerInv
<1>11. ASSUME NEW c \in Calls, Send(c)
      PROVE  ControllerInv'
  BY <1>11 DEF Send, BaseInv, TypeOK, ControlInv, Active, ControllerInv
<1>12. ASSUME NEW c \in Calls, Register(c)
      PROVE  ControllerInv'
  BY <1>12 DEF Register, Race, BaseInv, TypeOK, ControlInv, Active,
     ControllerInv
<1>13. ASSUME NEW c \in Calls, PollDeadline(c)
      PROVE  ControllerInv'
  BY <1>13 DEF PollDeadline, BaseInv, TypeOK, ControlInv, Active, ControllerInv
<1>14. ASSUME NEW c \in Calls, FindNothing(c)
      PROVE  ControllerInv'
  BY <1>14 DEF FindNothing, BaseInv, TypeOK, ControlInv, Active, ControllerInv
<1>15. ASSUME NEW c \in Calls, FindResponse(c)
      PROVE  ControllerInv'
  BY <1>15 DEF FindResponse, Return, BaseInv, TypeOK, ControlInv, Active,
     ControllerInv
<1>16. ASSUME NEW c \in Calls, AttemptTimeout(c)
      PROVE  ControllerInv'
  BY <1>16 DEF AttemptTimeout, BaseInv, TypeOK, ControlInv, Active,
     ControllerInv
<1>17. ASSUME NEW c \in Calls, StoreClosure(c)
      PROVE  ControllerInv'
  BY <1>17 DEF StoreClosure, Race, BaseInv, TypeOK, ControlInv, Active,
     ControllerInv
<1>18. ASSUME NEW c \in Calls, StoreResponse(c)
      PROVE  ControllerInv'
  BY <1>18 DEF StoreResponse, Race, BaseInv, TypeOK, ControlInv, Active,
     ControllerInv
<1>19. ASSUME NEW c \in Calls, Expire(c)
      PROVE  ControllerInv'
  BY <1>19 DEF Expire, BaseInv, TypeOK, ControlInv, Active, ControllerInv
<1>20. ASSUME NEW m \in replies, DropReply(m)
      PROVE  ControllerInv'
  BY <1>20 DEF DropReply, BaseInv, TypeOK, ControlInv, Active, ControllerInv
<1>21. ASSUME NEW m \in replies, LookupRequest(m)
      PROVE  ControllerInv'
  BY <1>21 DEF LookupRequest, BaseInv, TypeOK, ControlInv, Active, ControllerInv
<1>22. CASE StoreReply
  BY <1>22 DEF StoreReply, BaseInv, TypeOK, ControlInv, Active, ControllerInv
<1>23. CASE CopyReply
  BY <1>23 DEF CopyReply, BaseInv, TypeOK, ControlInv, Active, ControllerInv
<1>24. CASE ProcessCallback
  <2>1. callbacks # <<>>
    BY <1>24 DEF ProcessCallback
  <2> QED
    BY <1>24, <2>1, HeadCallback
    DEF ProcessCallback, BaseInv, TypeOK, ControllerInv, Active
<1>25. ASSUME NEW m \in wire, Serve(m)
      PROVE  ControllerInv'
  BY <1>25 DEF Serve, BaseInv, TypeOK, ControlInv, Active, ControllerInv
<1>26. ASSUME NEW m \in wire, Ignore(m)
      PROVE  ControllerInv'
  BY <1>26 DEF Ignore, BaseInv, TypeOK, ControlInv, Active, ControllerInv
<1>27. ASSUME NEW m \in strays, StrayReply(m)
      PROVE  ControllerInv'
  BY <1>27 DEF StrayReply, BaseInv, TypeOK, ControlInv, Active, ControllerInv
<1>28. CASE UNCHANGED vars
  BY <1>28 DEF BaseInv, TypeOK, ControlInv, Active, ControllerInv
<1> QED
  BY <1>1, <1>2, <1>3, <1>4, <1>5, <1>6, <1>7, <1>8, <1>9, <1>10, <1>11, <1>12,
     <1>13, <1>14, <1>15, <1>16, <1>17, <1>18, <1>19, <1>20, <1>21, <1>22,
     <1>23, <1>24, <1>25, <1>26, <1>27, <1>28 DEF Next, Caller, CallMethod,
     ProcessMessage, Connection, Peer, Calls

\* Every step keeps closures_ pointing to the call that has the id, and its
\* response in responses_ once AsyncRequest has returned.
LEMMA ClosureNext ==
  BaseInv /\ SeqInv /\ ClosureInv /\ [Next]_vars => ClosureInv'
<1> SUFFICES ASSUME BaseInv /\ SeqInv /\ ClosureInv, [Next]_vars
             PROVE  ClosureInv'
  OBVIOUS
<1> USE DEF vars, clientVars, channelVars, mapVars, networkVars
<1>1. CASE GetStub
  BY <1>1 DEF GetStub, BaseInv, TypeOK, ClosureInv
<1>2. CASE GetStubReturn
  BY <1>2 DEF GetStubReturn, BaseInv, TypeOK, ClosureInv
<1>3. CASE Connected
  BY <1>3 DEF Connected, BaseInv, TypeOK, ClosureInv
<1>4. CASE MetaEchoed
  BY <1>4 DEF MetaEchoed, BaseInv, TypeOK, ClosureInv
<1>5. CASE Disconnected
  BY <1>5 DEF Disconnected, BaseInv, TypeOK, ClosureInv
<1>6. ASSUME NEW c \in SyncCalls, SendRequest(c)
      PROVE  ClosureInv'
  BY <1>6, ChannelAssumption DEF SendRequest, BaseInv, TypeOK, ClosureInv, Calls
<1>7. ASSUME NEW c \in AsyncCalls, AsyncRequest(c)
      PROVE  ClosureInv'
  BY <1>7, ChannelAssumption DEF AsyncRequest, BaseInv, TypeOK, ClosureInv,
     Calls
<1>8. ASSUME NEW c \in Calls, NextAttempt(c)
      PROVE  ClosureInv'
  BY <1>8 DEF NextAttempt, BaseInv, TypeOK, ClosureInv
<1>9. ASSUME NEW c \in Calls, NoMoreAttempts(c)
      PROVE  ClosureInv'
  BY <1>9 DEF NoMoreAttempts, Return, BaseInv, TypeOK, ClosureInv
<1>10. ASSUME NEW c \in Calls, GetSequenceId(c)
      PROVE  ClosureInv'
  BY <1>10 DEF GetSequenceId, BaseInv, TypeOK, ClosureInv
<1>11. ASSUME NEW c \in Calls, Send(c)
      PROVE  ClosureInv'
  BY <1>11 DEF Send, BaseInv, TypeOK, ClosureInv
<1>12. ASSUME NEW c \in Calls, Register(c)
      PROVE  ClosureInv'
  BY <1>12 DEF Register, Race, BaseInv, TypeOK, ClosureInv
<1>13. ASSUME NEW c \in Calls, PollDeadline(c)
      PROVE  ClosureInv'
  BY <1>13 DEF PollDeadline, BaseInv, TypeOK, ClosureInv
<1>14. ASSUME NEW c \in Calls, FindNothing(c)
      PROVE  ClosureInv'
  BY <1>14 DEF FindNothing, BaseInv, TypeOK, ClosureInv
<1>15. ASSUME NEW c \in Calls, FindResponse(c)
      PROVE  ClosureInv'
  BY <1>15, ChannelAssumption DEF FindResponse, Return, BaseInv, TypeOK,
     ClosureInv, Calls, SeqInv, Assigned, ControlInv
<1>16. ASSUME NEW c \in Calls, AttemptTimeout(c)
      PROVE  ClosureInv'
  BY <1>16 DEF AttemptTimeout, BaseInv, TypeOK, ClosureInv
<1>17. ASSUME NEW c \in Calls, StoreClosure(c)
      PROVE  ClosureInv'
  BY <1>17, ChannelAssumption DEF StoreClosure, Race, BaseInv, TypeOK,
     ClosureInv, ControlInv, Calls
<1>18. ASSUME NEW c \in Calls, StoreResponse(c)
      PROVE  ClosureInv'
  <2>1. c \in AsyncCalls /\ seqOf[c] \in SeqIds /\ Assigned(c)
    BY <1>18 DEF StoreResponse, BaseInv, ControlInv, TypeOK, Assigned
  <2>2. [object |-> "user", of |-> c] # Null
    BY <2>1, ChannelAssumption DEF Slot, Data
  <2>3. responses'[seqOf[c]] # Null
    BY <1>18, <2>1, <2>2 DEF StoreResponse, BaseInv, TypeOK
  <2> QED
    BY <1>18, <2>1, <2>3 DEF StoreResponse, BaseInv, TypeOK, ClosureInv, Calls
<1>19. ASSUME NEW c \in Calls, Expire(c)
      PROVE  ClosureInv'
  BY <1>19 DEF Expire, BaseInv, TypeOK, ClosureInv
<1>20. ASSUME NEW m \in replies, DropReply(m)
      PROVE  ClosureInv'
  BY <1>20 DEF DropReply, BaseInv, TypeOK, ClosureInv
<1>21. ASSUME NEW m \in replies, LookupRequest(m)
      PROVE  ClosureInv'
  BY <1>21 DEF LookupRequest, BaseInv, TypeOK, ClosureInv
<1>22. CASE StoreReply
  <2> DEFINE q == processing.msg.seq
  <2>1. processing.msg \in Message /\ q \in SeqIds
    BY <1>22 DEF StoreReply, BaseInv, TypeOK, Message
  <2>2. [object |-> "reply", of |-> processing.msg.data] # Null
    BY <2>1, ChannelAssumption DEF Slot, Message
  <2>3. responses'[q] # Null
    BY <1>22, <2>1, <2>2 DEF StoreReply, BaseInv, TypeOK
  <2> QED
    BY <1>22, <2>1, <2>3 DEF StoreReply, BaseInv, TypeOK, ClosureInv
<1>23. CASE CopyReply
  BY <1>23 DEF CopyReply, BaseInv, TypeOK, ClosureInv
<1>24. CASE ProcessCallback
  BY <1>24 DEF ProcessCallback, BaseInv, TypeOK, ClosureInv
<1>25. ASSUME NEW m \in wire, Serve(m)
      PROVE  ClosureInv'
  BY <1>25 DEF Serve, BaseInv, TypeOK, ClosureInv
<1>26. ASSUME NEW m \in wire, Ignore(m)
      PROVE  ClosureInv'
  BY <1>26 DEF Ignore, BaseInv, TypeOK, ClosureInv
<1>27. ASSUME NEW m \in strays, StrayReply(m)
      PROVE  ClosureInv'
  BY <1>27 DEF StrayReply, BaseInv, TypeOK, ClosureInv
<1>28. CASE UNCHANGED vars
  BY <1>28 DEF BaseInv, TypeOK, ClosureInv
<1> QED
  BY <1>1, <1>2, <1>3, <1>4, <1>5, <1>6, <1>7, <1>8, <1>9, <1>10, <1>11, <1>12,
     <1>13, <1>14, <1>15, <1>16, <1>17, <1>18, <1>19, <1>20, <1>21, <1>22,
     <1>23, <1>24, <1>25, <1>26, <1>27, <1>28 DEF Next, Caller, CallMethod,
     ProcessMessage, Connection, Peer, Calls

\* Every step accepts the reply to an id at most once.
LEMMA OnceNext ==
  CallbackInv /\ [Next]_vars => OnceInv'
<1> SUFFICES ASSUME CallbackInv, [Next]_vars
             PROVE  OnceInv'
  OBVIOUS
<1> USE DEF vars, clientVars, channelVars, mapVars, networkVars
<1>1. CASE GetStub
  BY <1>1 DEF GetStub, CallbackInv, BaseInv, TypeOK, OnceInv, Pending,
     CallbackOnce
<1>2. CASE GetStubReturn
  BY <1>2 DEF GetStubReturn, CallbackInv, BaseInv, TypeOK, OnceInv, Pending,
     CallbackOnce
<1>3. CASE Connected
  BY <1>3 DEF Connected, CallbackInv, BaseInv, TypeOK, OnceInv, Pending,
     CallbackOnce
<1>4. CASE MetaEchoed
  BY <1>4 DEF MetaEchoed, CallbackInv, BaseInv, TypeOK, OnceInv, Pending,
     CallbackOnce
<1>5. CASE Disconnected
  BY <1>5 DEF Disconnected, CallbackInv, BaseInv, TypeOK, OnceInv, Pending,
     CallbackOnce
<1>6. ASSUME NEW c \in SyncCalls, SendRequest(c)
      PROVE  OnceInv'
  BY <1>6 DEF SendRequest, CallbackInv, BaseInv, TypeOK, OnceInv, Pending,
     CallbackOnce, Calls
<1>7. ASSUME NEW c \in AsyncCalls, AsyncRequest(c)
      PROVE  OnceInv'
  BY <1>7 DEF AsyncRequest, CallbackInv, BaseInv, TypeOK, OnceInv, Pending,
     CallbackOnce, Calls
<1>8. ASSUME NEW c \in Calls, NextAttempt(c)
      PROVE  OnceInv'
  BY <1>8 DEF NextAttempt, CallbackInv, BaseInv, TypeOK, OnceInv, Pending,
     CallbackOnce
<1>9. ASSUME NEW c \in Calls, NoMoreAttempts(c)
      PROVE  OnceInv'
  <2>1. c \in SyncCalls
    BY <1>9 DEF NoMoreAttempts, CallbackInv, BaseInv, ControlInv
  <2>2. \A s \in SeqIds : closures[s] # Null => closures[s] # c
    BY <2>1, ChannelAssumption DEF CallbackInv, ClosureInv
  <2> QED
    BY <1>9, <2>2
    DEF NoMoreAttempts, Return, CallbackInv, BaseInv, TypeOK, OnceInv,
        Pending, CallbackOnce
<1>10. ASSUME NEW c \in Calls, GetSequenceId(c)
      PROVE  OnceInv'
  BY <1>10 DEF GetSequenceId, CallbackInv, BaseInv, TypeOK, OnceInv, Pending,
     CallbackOnce
<1>11. ASSUME NEW c \in Calls, Send(c)
      PROVE  OnceInv'
  <2>1. seqOf[c] = sequence_id /\ sequence_id \in SeqIds
    BY <1>11 DEF Send, CallbackInv, SeqInv, BaseInv, TypeOK
  <2>2. \A s \in SeqIds : s < sequence_id => s < sequence_id'
    BY <1>11, <2>1, ChannelAssumption DEF Send, SeqIds
  <2>3. \A s \in SeqIds : s < sequence_id => seqOf[c] # s
    BY <2>1 DEF SeqIds
  <2> QED
    BY <1>11, <2>2, <2>3
    DEF Send, CallbackInv, BaseInv, TypeOK, OnceInv, Pending, CallbackOnce
<1>12. ASSUME NEW c \in Calls, Register(c)
      PROVE  OnceInv'
  <2> DEFINE s == seqOf[c]
  <2>1. s \in SeqIds /\ s < sequence_id /\ Assigned(c)
    BY <1>12 DEF Register, CallbackInv, SeqInv, Assigned, BaseInv, TypeOK
  <2>2. closures[s] = Null
    BY <1>12, <2>1
    DEF Register, CallbackInv, ClosureInv, SeqInv, Assigned, Calls
  <2>3. \A i \in 1 .. Len(callbacks) : callbacks[i] # s
    BY <2>2 DEF CallbackInv, OnceInv, CallbackOnce
  <2>4. processing # Null => processing.msg.seq # s
    BY <1>12, <2>1 DEF Register, CallbackInv, OnceInv, Pending
  <2>5. \A d \in Calls : pc[d] = "register" /\ seqOf[d] = s => d = c
    BY <1>12, <2>1 DEF Register, CallbackInv, SeqInv, Assigned
  <2> QED
    BY <1>12, <2>1, <2>2, <2>3, <2>4, <2>5
    DEF Register, CallbackInv, BaseInv, TypeOK, OnceInv, Pending,
        CallbackOnce
<1>13. ASSUME NEW c \in Calls, PollDeadline(c)
      PROVE  OnceInv'
  BY <1>13 DEF PollDeadline, CallbackInv, BaseInv, TypeOK, OnceInv, Pending,
     CallbackOnce
<1>14. ASSUME NEW c \in Calls, FindNothing(c)
      PROVE  OnceInv'
  BY <1>14 DEF FindNothing, CallbackInv, BaseInv, TypeOK, OnceInv, Pending,
     CallbackOnce
<1>15. ASSUME NEW c \in Calls, FindResponse(c)
      PROVE  OnceInv'
  <2>1. c \in SyncCalls
    BY <1>15 DEF FindResponse, CallbackInv, BaseInv, ControlInv
  <2>2. \A s \in SeqIds : closures[s] # Null => closures[s] # c
    BY <2>1, ChannelAssumption DEF CallbackInv, ClosureInv
  <2>3. \A d \in Calls :
          /\ d # c => controller'[d] = controller[d]
          /\ pc'[d] = "register" => pc[d] = "register"
    BY <1>15 DEF FindResponse, Return, CallbackInv, BaseInv, TypeOK
  <2>4. \A s \in SeqIds : closures[s] # Null => closures[s] \in Calls
    BY DEF CallbackInv, BaseInv, TypeOK
  <2>5. \A s \in SeqIds : closures[s] # Null => controller'[closures[s]] = controller[closures[s]]
    BY <2>2, <2>3, <2>4
  <2>6. callbacks \in Seq(SeqIds)
    BY DEF CallbackInv, BaseInv, TypeOK
  <2>7. CallbackOnce'
    BY <1>15, <2>5, <2>6
    DEF FindResponse, CallbackInv, OnceInv, CallbackOnce
  <2> QED
    BY <1>15, <2>3, <2>5, <2>7
    DEF FindResponse, CallbackInv, OnceInv, Pending
<1>16. ASSUME NEW c \in Calls, AttemptTimeout(c)
      PROVE  OnceInv'
  <2>1. \A d \in Calls :
          /\ controller[d] # "deleted" => controller'[d] # "deleted"
          /\ pc'[d] = "register" => pc[d] = "register"
    BY <1>16 DEF AttemptTimeout, CallbackInv, BaseInv, TypeOK
  <2>2. \A s \in SeqIds : closures[s] # Null => closures[s] \in Calls
    BY DEF CallbackInv, BaseInv, TypeOK
  <2>3. callbacks \in Seq(SeqIds)
    BY DEF CallbackInv, BaseInv, TypeOK
  <2>4. CallbackOnce'
    BY <1>16, <2>1, <2>2, <2>3
    DEF AttemptTimeout, CallbackInv, OnceInv, CallbackOnce
  <2> QED
    BY <1>16, <2>1, <2>2, <2>4 DEF AttemptTimeout, CallbackInv, OnceInv, Pending
<1>17. ASSUME NEW c \in Calls, StoreClosure(c)
      PROVE  OnceInv'
  <2> DEFINE s == seqOf[c]
  <2>1. s \in SeqIds /\ Assigned(c) /\ c \in AsyncCalls /\ c # Null
    BY <1>17, ChannelAssumption
    DEF StoreClosure, CallbackInv, BaseInv, TypeOK, ControlInv, Assigned, Calls
  <2>2. closures[s] = Null
    BY <1>17, <2>1
    DEF StoreClosure, CallbackInv, ClosureInv, SeqInv, Assigned, Calls
  <2>3. controller[c] # "deleted"
    BY <1>17 DEF StoreClosure, CallbackInv, ControllerInv, Active
  <2> QED
    BY <1>17, <2>1, <2>2, <2>3
    DEF StoreClosure, CallbackInv, BaseInv, TypeOK, OnceInv, Pending,
        CallbackOnce
<1>18. ASSUME NEW c \in Calls, StoreResponse(c)
      PROVE  OnceInv'
  BY <1>18 DEF StoreResponse, Race, CallbackInv, BaseInv, TypeOK, OnceInv,
     Pending, CallbackOnce
<1>19. ASSUME NEW c \in Calls, Expire(c)
      PROVE  OnceInv'
  BY <1>19 DEF Expire, CallbackInv, BaseInv, TypeOK, OnceInv, Pending,
     CallbackOnce
<1>20. ASSUME NEW m \in replies, DropReply(m)
      PROVE  OnceInv'
  BY <1>20 DEF DropReply, CallbackInv, BaseInv, TypeOK, OnceInv, Pending,
     CallbackOnce
<1>21. ASSUME NEW m \in replies, LookupRequest(m)
      PROVE  OnceInv'
  BY <1>21 DEF LookupRequest, CallbackInv, BaseInv, TypeOK, OnceInv, Pending,
     CallbackOnce
<1>22. CASE StoreReply
  BY <1>22 DEF StoreReply, CallbackInv, BaseInv, TypeOK, OnceInv, Pending,
     CallbackOnce
<1>23. CASE CopyReply
  <2> DEFINE q == processing.msg.seq
  <2>1. q \in SeqIds /\ processing.async
    BY <1>23 DEF CopyReply, CallbackInv, BaseInv, TypeOK, Message
  <2>2. /\ closures[q] # Null
        /\ controller[closures[q]] # "deleted"
        /\ q \notin requests
        /\ \A i \in 1 .. Len(callbacks) : callbacks[i] # q
    BY <1>23, <2>1 DEF CopyReply, CallbackInv, OnceInv, Pending
  <2>3. CASE callbacks' = callbacks
    BY <1>23, <2>3
    DEF CopyReply, CallbackInv, BaseInv, TypeOK, OnceInv, Pending,
        CallbackOnce
  <2>4. CASE callbacks' = Append(callbacks, q)
    <3>1. /\ callbacks \in Seq(SeqIds)
          /\ Len(callbacks') = Len(callbacks) + 1
          /\ \A i \in 1 .. Len(callbacks) : callbacks'[i] = callbacks[i]
          /\ callbacks'[Len(callbacks) + 1] = q
      BY <2>1, <2>4 DEF CallbackInv, BaseInv, TypeOK
    <3>2. CallbackOnce'
      BY <1>23, <2>2, <3>1 DEF CopyReply, CallbackInv, OnceInv, CallbackOnce
    <3>3. \A i \in 1 .. Len(callbacks') : callbacks'[i] # q => i \in 1 .. Len(callbacks)
      BY <3>1
    <3>4. \A t \in SeqIds : Pending(t)' => Pending(t) /\ t # q
      BY <1>23, <2>2 DEF CopyReply, Pending
    <3>5. \A t \in SeqIds :
            Pending(t)' => \A i \in 1 .. Len(callbacks') : callbacks'[i] # t
      BY <3>1, <3>3, <3>4 DEF CallbackInv, OnceInv
    <3> QED
      BY <1>23, <3>2, <3>4, <3>5 DEF CopyReply, CallbackInv, OnceInv
  <2> QED
    BY <1>23, <2>3, <2>4 DEF CopyReply
<1>24. CASE ProcessCallback
  <2> DEFINE s == Head(callbacks)
  <2>1. /\ callbacks \in Seq(SeqIds) /\ callbacks # <<>>
        /\ s = callbacks[1] /\ s \in SeqIds
        /\ Len(callbacks') = Len(callbacks) - 1
        /\ \A i \in 1 .. Len(callbacks') : callbacks'[i] = callbacks[i + 1]
    BY <1>24 DEF ProcessCallback, CallbackInv, BaseInv, TypeOK
  <2>2. /\ \A i \in 1 .. Len(callbacks') :
             i + 1 \in 1 .. Len(callbacks) /\ i + 1 # 1
        /\ 1 \in 1 .. Len(callbacks)
    BY <2>1
  <2>3. closures[s] # Null /\ controller[closures[s]] # "deleted"
    BY <2>1, <2>2 DEF CallbackInv, OnceInv, CallbackOnce
  <2>4. \A t \in SeqIds : closures[t] # Null /\ t # s => closures[t] # closures[s]
    BY <2>1, <2>3 DEF CallbackInv, ClosureInv
  <2>5. \A t \in SeqIds :
          closures[t] # Null /\ t # s /\ controller[closures[t]] # "deleted"
            => controller'[closures[t]] # "deleted"
    BY <1>24, <2>1, <2>3, <2>4 DEF ProcessCallback, CallbackInv, BaseInv, TypeOK
  <2>6. \A t \in SeqIds : Pending(t) => t # s
    BY <2>1, <2>2 DEF CallbackInv, OnceInv
  <2>7. CallbackOnce'
    <3>1. \A i \in 1 .. Len(callbacks') : callbacks'[i] # s /\ callbacks'[i] \in SeqIds
      BY <2>1, <2>2 DEF CallbackInv, OnceInv, CallbackOnce
    <3>2. \A i, j \in 1 .. Len(callbacks') : callbacks'[i] = callbacks'[j] => i = j
      BY <2>1, <2>2 DEF CallbackInv, OnceInv, CallbackOnce
    <3>3. \A i \in 1 .. Len(callbacks') :
            /\ closures[callbacks'[i]] # Null
            /\ controller[closures[callbacks'[i]]] # "deleted"
      BY <2>1, <2>2 DEF CallbackInv, OnceInv, CallbackOnce
    <3> QED
      BY <1>24, <2>5, <3>1, <3>2, <3>3 DEF ProcessCallback, CallbackOnce
  <2>8. \A t \in SeqIds : Pending(t) => \A i \in 1 .. Len(callbacks') : callbacks'[i] # t
    BY <2>1, <2>2 DEF CallbackInv, OnceInv
  <2>9. \A t \in SeqIds :
          Pending(t) /\ closures[t] # Null => controller'[closures[t]] # "deleted"
    BY <2>5, <2>6 DEF CallbackInv, OnceInv
  <2> QED
    BY <1>24, <2>7, <2>8, <2>9
    DEF ProcessCallback, CallbackInv, OnceInv, Pending
<1>25. ASSUME NEW m \in wire, Serve(m)
      PROVE  OnceInv'
  BY <1>25 DEF Serve, CallbackInv, BaseInv, TypeOK, OnceInv, Pending,
     CallbackOnce
<1>26. ASSUME NEW m \in wire, Ignore(m)
      PROVE  OnceInv'
  BY <1>26 DEF Ignore, CallbackInv, BaseInv, TypeOK, OnceInv, Pending,
     CallbackOnce
<1>27. ASSUME NEW m \in strays, StrayReply(m)
      PROVE  OnceInv'
  BY <1>27 DEF StrayReply, CallbackInv, BaseInv, TypeOK, OnceInv, Pending,
     CallbackOnce
<1>28. CASE UNCHANGED vars
  BY <1>28 DEF CallbackInv, BaseInv, TypeOK, OnceInv, Pending, CallbackOnce
<1> QED
  BY <1>1, <1>2, <1>3, <1>4, <1>5, <1>6, <1>7, <1>8, <1>9, <1>10, <1>11, <1>12,
     <1>13, <1>14, <1>15, <1>16, <1>17, <1>18, <1>19, <1>20, <1>21, <1>22,
     <1>23, <1>24, <1>25, <1>26, <1>27, <1>28 DEF Next, Caller, CallMethod,
     ProcessMessage, Connection, Peer, Calls

\* An id, once taken by a call, is never assigned to another one.
LEMMA OwnsNext ==
  ASSUME CallbackInv, [Next]_vars, NEW t \in SeqIds, NEW o, Owns(t, o)
  PROVE  Owns(t, o)'
<1> USE DEF vars, clientVars, channelVars, mapVars, networkVars
<1>1. CASE GetStub
  BY <1>1 DEF GetStub, CallbackInv, BaseInv, TypeOK, Owns, Assigned
<1>2. CASE GetStubReturn
  BY <1>2 DEF GetStubReturn, CallbackInv, BaseInv, TypeOK, Owns, Assigned
<1>3. CASE Connected
  BY <1>3 DEF Connected, CallbackInv, BaseInv, TypeOK, Owns, Assigned
<1>4. CASE MetaEchoed
  BY <1>4 DEF MetaEchoed, CallbackInv, BaseInv, TypeOK, Owns, Assigned
<1>5. CASE Disconnected
  BY <1>5 DEF Disconnected, CallbackInv, BaseInv, TypeOK, Owns, Assigned
<1>6. ASSUME NEW c \in SyncCalls, SendRequest(c)
      PROVE  Owns(t, o)'
  BY <1>6, ChannelAssumption DEF SendRequest, CallbackInv, BaseInv, TypeOK,
     Owns, Assigned, Calls
<1>7. ASSUME NEW c \in AsyncCalls, AsyncRequest(c)
      PROVE  Owns(t, o)'
  BY <1>7, ChannelAssumption DEF AsyncRequest, CallbackInv, BaseInv, TypeOK,
     Owns, Assigned, Calls
<1>8. ASSUME NEW c \in Calls, NextAttempt(c)
      PROVE  Owns(t, o)'
  BY <1>8 DEF NextAttempt, CallbackInv, BaseInv, TypeOK, Owns, Assigned
<1>9. ASSUME NEW c \in Calls, NoMoreAttempts(c)
      PROVE  Owns(t, o)'
  BY <1>9, ChannelAssumption DEF NoMoreAttempts, Return, CallbackInv, BaseInv,
     TypeOK, Owns, Assigned, ControlInv
<1>10. ASSUME NEW c \in Calls, GetSequenceId(c)
      PROVE  Owns(t, o)'
  BY <1>10 DEF GetSequenceId, CallbackInv, BaseInv, TypeOK, Owns, Assigned
<1>11. ASSUME NEW c \in Calls, Send(c)
      PROVE  Owns(t, o)'
  <2>1. seqOf[c] = sequence_id /\ sequence_id \in SeqIds
    BY <1>11 DEF Send, CallbackInv, SeqInv, BaseInv, TypeOK
  <2>2. t < sequence_id' /\ seqOf[c] # t
    BY <1>11, <2>1, ChannelAssumption DEF Send, SeqIds, Owns
  <2> QED
    BY <1>11, <2>2 DEF Send, CallbackInv, BaseInv, TypeOK, Owns, Assigned
<1>12. ASSUME NEW c \in Calls, Register(c)
      PROVE  Owns(t, o)'
  BY <1>12 DEF Register, Race, CallbackInv, BaseInv, TypeOK, Owns, Assigned,
     Calls
<1>13. ASSUME NEW c \in Calls, PollDeadline(c)
      PROVE  Owns(t, o)'
  BY <1>13 DEF PollDeadline, CallbackInv, BaseInv, TypeOK, Owns, Assigned
<1>14. ASSUME NEW c \in Calls, FindNothing(c)
      PROVE  Owns(t, o)'
  BY <1>14 DEF FindNothing, CallbackInv, BaseInv, TypeOK, Owns, Assigned
<1>15. ASSUME NEW c \in Calls, FindResponse(c)
      PROVE  Owns(t, o)'
  BY <1>15, ChannelAssumption DEF FindResponse, Return, CallbackInv, BaseInv,
     TypeOK, Owns, Assigned, ControlInv
<1>16. ASSUME NEW c \in Calls, AttemptTimeout(c)
      PROVE  Owns(t, o)'
  BY <1>16 DEF AttemptTimeout, CallbackInv, BaseInv, TypeOK, Owns, Assigned
<1>17. ASSUME NEW c \in Calls, StoreClosure(c)
      PROVE  Owns(t, o)'
  BY <1>17 DEF StoreClosure, Race, CallbackInv, BaseInv, TypeOK, Owns, Assigned
<1>18. ASSUME NEW c \in Calls, StoreResponse(c)
      PROVE  Owns(t, o)'
  BY <1>18, ChannelAssumption DEF StoreResponse, Race, CallbackInv, BaseInv,
     TypeOK, Owns, Assigned, Calls, ControlInv
<1>19. ASSUME NEW c \in Calls, Expire(c)
      PROVE  Owns(t, o)'
  BY <1>19 DEF Expire, CallbackInv, BaseInv, TypeOK, Owns, Assigned
<1>20. ASSUME NEW m \in replies, DropReply(m)
      PROVE  Owns(t, o)'
  BY <1>20 DEF DropReply, CallbackInv, BaseInv, TypeOK, Owns, Assigned
<1>21. ASSUME NEW m \in replies, LookupRequest(m)
      PROVE  Owns(t, o)'
  BY <1>21 DEF LookupRequest, CallbackInv, BaseInv, TypeOK, Owns, Assigned
<1>22. CASE StoreReply
  BY <1>22 DEF StoreReply, CallbackInv, BaseInv, TypeOK, Owns, Assigned
<1>23. CASE CopyReply
  BY <1>23 DEF CopyReply, CallbackInv, BaseInv, TypeOK, Owns, Assigned
<1>24. CASE ProcessCallback
  <2>1. callbacks # <<>>
    BY <1>24 DEF ProcessCallback
  <2>2. \A c \in Calls : Assigned(c)' => Assigned(c)
    BY <1>24, <2>1, HeadCallback
    DEF ProcessCallback, CallbackInv, BaseInv, TypeOK, Assigned
  <2> QED
    BY <1>24, <2>2 DEF ProcessCallback, Owns
<1>25. ASSUME NEW m \in wire, Serve(m)
      PROVE  Owns(t, o)'
  BY <1>25 DEF Serve, CallbackInv, BaseInv, TypeOK, Owns, Assigned
<1>26. ASSUME NEW m \in wire, Ignore(m)
      PROVE  Owns(t, o)'
  BY <1>26 DEF Ignore, CallbackInv, BaseInv, TypeOK, Owns, Assigned
<1>27. ASSUME NEW m \in strays, StrayReply(m)
      PROVE  Owns(t, o)'
  BY <1>27 DEF StrayReply, CallbackInv, BaseInv, TypeOK, Owns, Assigned
<1>28. CASE UNCHANGED vars
  BY <1>28 DEF CallbackInv, BaseInv, TypeOK, Owns, Assigned
<1> QED
  BY <1>1, <1>2, <1>3, <1>4, <1>5, <1>6, <1>7, <1>8, <1>9, <1>10, <1>11, <1>12,
     <1>13, <1>14, <1>15, <1>16, <1>17, <1>18, <1>19, <1>20, <1>21, <1>22,
     <1>23, <1>24, <1>25, <1>26, <1>27, <1>28 DEF Next, Caller, CallMethod,
     ProcessMessage, Connection, Peer, Calls

\* What one step can do to the messages in transit.
TransitStep ==
  /\ strays' \subseteq strays
  /\ served \subseteq served'
  /\ \A m \in wire' : m \in wire \/ Owns(m.seq, m.data)'
  /\ \A m \in Answers' :
       m \in Answers \/ (m \in wire /\ m.data \in served') \/ m \in strays \ strays'

\* A message in transit is one that was there, or the request just sent; a
\* reply is one that was there, the answer to a request just executed, or a
\* foreign message that has just arrived.
LEMMA TransitStepNext ==
  CallbackInv /\ [Next]_vars => TransitStep
<1> SUFFICES ASSUME CallbackInv, [Next]_vars
             PROVE  TransitStep
  OBVIOUS
<1> USE DEF vars, clientVars, channelVars, mapVars, networkVars
<1>1. CASE GetStub
  BY <1>1 DEF GetStub, TransitStep, Answers
<1>2. CASE GetStubReturn
  BY <1>2 DEF GetStubReturn, TransitStep, Answers
<1>3. CASE Connected
  BY <1>3 DEF Connected, TransitStep, Answers
<1>4. CASE MetaEchoed
  BY <1>4 DEF MetaEchoed, TransitStep, Answers
<1>5. CASE Disconnected
  BY <1>5 DEF Disconnected, TransitStep, Answers
<1>6. ASSUME NEW c \in SyncCalls, SendRequest(c)
      PROVE  TransitStep
  BY <1>6 DEF SendRequest, TransitStep, Answers
<1>7. ASSUME NEW c \in AsyncCalls, AsyncRequest(c)
      PROVE  TransitStep
  BY <1>7 DEF AsyncRequest, TransitStep, Answers
<1>8. ASSUME NEW c \in Calls, NextAttempt(c)
      PROVE  TransitStep
  BY <1>8 DEF NextAttempt, TransitStep, Answers
<1>9. ASSUME NEW c \in Calls, NoMoreAttempts(c)
      PROVE  TransitStep
  BY <1>9 DEF NoMoreAttempts, Return, TransitStep, Answers
<1>10. ASSUME NEW c \in Calls, GetSequenceId(c)
      PROVE  TransitStep
  BY <1>10 DEF GetSequenceId, TransitStep, Answers
<1>11. ASSUME NEW c \in Calls, Send(c)
      PROVE  TransitStep
  <2> DEFINE m == [seq |-> seqOf[c], data |-> c]
  <2>1. seqOf[c] = sequence_id /\ seqOf[c] \in SeqIds
    BY <1>11 DEF Send, CallbackInv, SeqInv, BaseInv, TypeOK
  <2>2. \A d \in Calls : Assigned(d)' /\ seqOf'[d] = seqOf[c] => d = c
    BY <1>11, <2>1 DEF Send, CallbackInv, SeqInv, BaseInv, TypeOK, Assigned
  <2>3. Owns(m.seq, m.data)'
    BY <1>11, <2>1, <2>2, ChannelAssumption
    DEF Send, CallbackInv, BaseInv, TypeOK, Owns, SeqIds
  <2>4. \A n \in wire' : n \in wire \/ n = m
    BY <1>11 DEF Send
  <2> QED
    BY <1>11, <2>3, <2>4 DEF Send, TransitStep, Answers
<1>12. ASSUME NEW c \in Calls, Register(c)
      PROVE  TransitStep
  BY <1>12 DEF Register, Race, TransitStep, Answers
<1>13. ASSUME NEW c \in Calls, PollDeadline(c)
      PROVE  TransitStep
  BY <1>13 DEF PollDeadline, TransitStep, Answers
<1>14. ASSUME NEW c \in Calls, FindNothing(c)
      PROVE  TransitStep
  BY <1>14 DEF FindNothing, TransitStep, Answers
<1>15. ASSUME NEW c \in Calls, FindResponse(c)
      PROVE  TransitStep
  BY <1>15 DEF FindResponse, Return, TransitStep, Answers
<1>16. ASSUME NEW c \in Calls, AttemptTimeout(c)
      PROVE  TransitStep
  BY <1>16 DEF AttemptTimeout, TransitStep, Answers
<1>17. ASSUME NEW c \in Calls, StoreClosure(c)
      PROVE  TransitStep
  BY <1>17 DEF StoreClosure, Race, TransitStep, Answers
<1>18. ASSUME NEW c \in Calls, StoreResponse(c)
      PROVE  TransitStep
  BY <1>18 DEF StoreResponse, Race, TransitStep, Answers
<1>19. ASSUME NEW c \in Calls, Expire(c)
      PROVE  TransitStep
  BY <1>19 DEF Expire, TransitStep, Answers
<1>20. ASSUME NEW m \in replies, DropReply(m)
      PROVE  TransitStep
  BY <1>20 DEF DropReply, TransitStep, Answers
<1>21. ASSUME NEW m \in replies, LookupRequest(m)
      PROVE  TransitStep
  BY <1>21 DEF LookupRequest, TransitStep, Answers, CallbackInv, BaseInv, TypeOK
<1>22. CASE StoreReply
  BY <1>22 DEF StoreReply, TransitStep, Answers
<1>23. CASE CopyReply
  BY <1>23 DEF CopyReply, TransitStep, Answers
<1>24. CASE ProcessCallback
  BY <1>24 DEF ProcessCallback, TransitStep, Answers
<1>25. ASSUME NEW m \in wire, Serve(m)
      PROVE  TransitStep
  BY <1>25 DEF Serve, TransitStep, Answers
<1>26. ASSUME NEW m \in wire, Ignore(m)
      PROVE  TransitStep
  BY <1>26 DEF Ignore, TransitStep, Answers
<1>27. ASSUME NEW m \in strays, StrayReply(m)
      PROVE  TransitStep
  BY <1>27 DEF StrayReply, TransitStep, Answers
<1>28. CASE UNCHANGED vars
  BY <1>28 DEF TransitStep, Answers
<1> QED
  BY <1>1, <1>2, <1>3, <1>4, <1>5, <1>6, <1>7, <1>8, <1>9, <1>10, <1>11, <1>12,
     <1>13, <1>14, <1>15, <1>16, <1>17, <1>18, <1>19, <1>20, <1>21, <1>22,
     <1>23, <1>24, <1>25, <1>26, <1>27, <1>28 DEF Next, Caller, CallMethod,
     ProcessMessage, Connection, Peer, Calls

\* No foreign message has the data of a call.
LEMMA ForeignData == \A m \in Foreign : m.data \notin Calls
  BY ChannelAssumption DEF Foreign

\* Every step keeps the messages in transit with the owners of their ids.
LEMMA TransitNext == CallbackInv /\ TransitInv /\ [Next]_vars => TransitInv'
<1> SUFFICES ASSUME CallbackInv, TransitInv, [Next]_vars PROVE TransitInv'
  OBVIOUS
<1>1. TransitStep
  BY TransitStepNext
<1>2. \A m \in wire \union Answers : m.data \in Calls => Owns(m.seq, m.data)'
  <2> SUFFICES ASSUME NEW m \in wire \union Answers, m.data \in Calls
               PROVE  Owns(m.seq, m.data)'
    OBVIOUS
  <2>1. m.seq \in SeqIds
    BY DEF CallbackInv, BaseInv, TypeOK, Answers, Message, Request
  <2>2. Owns(m.seq, m.data)
    BY DEF TransitInv
  <2> QED
    BY <2>1, <2>2, OwnsNext
<1>3. \A m \in wire : m.data \in Calls
  BY DEF CallbackInv, BaseInv, TypeOK, Request
<1>4. /\ strays \subseteq Foreign
      /\ Received \subseteq Received'
      /\ \A m \in strays \ strays' : m \in Received' /\ m.data \notin Calls
  BY <1>1, ForeignData DEF CallbackInv, BaseInv, TypeOK, TransitStep, Received
<1>5. \A m \in wire' : Owns(m.seq, m.data)'
  BY <1>1, <1>2, <1>3 DEF TransitStep
<1>6. \A m \in Answers' :
        IF m.data \in Calls
          THEN Owns(m.seq, m.data)' /\ m.data \in served'
          ELSE m \in Received'
  BY <1>1, <1>2, <1>3, <1>4 DEF TransitStep, TransitInv
<1> QED
  BY <1>5, <1>6 DEF TransitInv

\* A call that has returned makes no other step.
LEMMA ReturnedNext ==
  CallbackInv /\ [Next]_vars => \A c \in Calls : pc[c] = "returned" => pc'[c] = "returned"
<1> SUFFICES ASSUME CallbackInv, [Next]_vars
             PROVE  \A c \in Calls : pc[c] = "returned" => pc'[c] = "returned"
  OBVIOUS
<1> USE DEF vars, clientVars, channelVars, mapVars, networkVars
<1>1. pc \in [Calls -> {"idle", "loop", "call", "send", "register", "poll",
                       "find", "closure", "response", "returned"}]
  BY DEF CallbackInv, BaseInv, TypeOK
<1>2. ASSUME NEW c \in Calls, Caller(c)
      PROVE  \E x : pc[c] # "returned" /\ pc' = [pc EXCEPT ![c] = x]
  <2>1. CASE SendRequest(c) \/ AsyncRequest(c) \/ NextAttempt(c) \/ NoMoreAttempts(c)
    BY <2>1 DEF SendRequest, AsyncRequest, NextAttempt, NoMoreAttempts, Return
  <2>2. CASE GetSequenceId(c) \/ Send(c) \/ Register(c)
    BY <2>2 DEF GetSequenceId, Send, Register
  <2>3. CASE PollDeadline(c) \/ FindNothing(c) \/ AttemptTimeout(c)
    BY <2>3 DEF PollDeadline, FindNothing, AttemptTimeout
  <2>4. CASE FindResponse(c)
    BY <2>4 DEF FindResponse, Return
  <2>5. CASE StoreClosure(c) \/ StoreResponse(c)
    BY <2>5 DEF StoreClosure, StoreResponse
  <2> QED
    BY <1>2, <2>1, <2>2, <2>3, <2>4, <2>5 DEF Caller, CallMethod
<1>3. ASSUME NEW c \in Calls, Expire(c) PROVE pc' = pc
  BY <1>3 DEF Expire
<1>4. CASE ProcessMessage
  BY <1>4 DEF ProcessMessage, DropReply, LookupRequest, StoreReply, CopyReply
<1>5. CASE ProcessCallback
  BY <1>5 DEF ProcessCallback
<1>6. CASE Connection \/ Disconnected
  BY <1>6 DEF Connection, GetStub, GetStubReturn, Connected, MetaEchoed, Disconnected
<1>7. CASE Peer \/ (\E m \in wire : Ignore(m)) \/ (\E m \in strays : StrayReply(m))
  BY <1>7 DEF Peer, Serve, Ignore, StrayReply
<1>8. CASE UNCHANGED vars
  BY <1>8
<1> QED
  BY <1>1, <1>2, <1>3, <1>4, <1>5, <1>6, <1>7, <1>8 DEF Next

\* What one step can do to responses_.
SlotStep ==
  \A s \in SeqIds :
    responses'[s] # Null =>
      \/ responses'[s] = responses[s]
      \/ \E c \in AsyncCalls :
           /\ responses'[s] = [object |-> "user", of |-> c]
           /\ pc'[c] = "returned"
           /\ Owns(s, c)'
      \/ \E c \in Calls :
           /\ responses'[s] = [object |-> "reply", of |-> c]
           /\ c \in served'
           /\ Owns(s, c)'
      \/ \E o \in Data \ Calls :
           /\ responses'[s] = [object |-> "reply", of |-> o]
           /\ [seq |-> s, data |-> o] \in Received'

\* An entry of responses_ is one that was there, or comes from a reply or
\* from the caller that has its id.
LEMMA SlotStepNext ==
  CallbackInv /\ TransitInv /\ [Next]_vars => SlotStep
<1> SUFFICES ASSUME CallbackInv /\ TransitInv, [Next]_vars
             PROVE  SlotStep
  OBVIOUS
<1> USE DEF vars, clientVars, channelVars, mapVars, networkVars
<1>1. CASE GetStub
  BY <1>1 DEF GetStub, SlotStep
<1>2. CASE GetStubReturn
  BY <1>2 DEF GetStubReturn, SlotStep
<1>3. CASE Connected
  BY <1>3 DEF Connected, SlotStep
<1>4. CASE MetaEchoed
  BY <1>4 DEF MetaEchoed, SlotStep
<1>5. CASE Disconnected
  BY <1>5 DEF Disconnected, SlotStep
<1>6. ASSUME NEW c \in SyncCalls, SendRequest(c)
      PROVE  SlotStep
  BY <1>6 DEF SendRequest, SlotStep
<1>7. ASSUME NEW c \in AsyncCalls, AsyncRequest(c)
      PROVE  SlotStep
  BY <1>7 DEF AsyncRequest, SlotStep
<1>8. ASSUME NEW c \in Calls, NextAttempt(c)
      PROVE  SlotStep
  BY <1>8 DEF NextAttempt, SlotStep
<1>9. ASSUME NEW c \in Calls, NoMoreAttempts(c)
      PROVE  SlotStep
  BY <1>9 DEF NoMoreAttempts, Return, SlotStep
<1>10. ASSUME NEW c \in Calls, GetSequenceId(c)
      PROVE  SlotStep
  BY <1>10 DEF GetSequenceId, SlotStep
<1>11. ASSUME NEW c \in Calls, Send(c)
      PROVE  SlotStep
  BY <1>11 DEF Send, SlotStep
<1>12. ASSUME NEW c \in Calls, Register(c)
      PROVE  SlotStep
  BY <1>12 DEF Register, Race, SlotStep
<1>13. ASSUME NEW c \in Calls, PollDeadline(c)
      PROVE  SlotStep
  BY <1>13 DEF PollDeadline, SlotStep
<1>14. ASSUME NEW c \in Calls, FindNothing(c)
      PROVE  SlotStep
  BY <1>14 DEF FindNothing, SlotStep
<1>15. ASSUME NEW c \in Calls, FindResponse(c)
      PROVE  SlotStep
  BY <1>15 DEF FindResponse, SlotStep, CallbackInv, BaseInv, TypeOK
<1>16. ASSUME NEW c \in Calls, AttemptTimeout(c)
      PROVE  SlotStep
  BY <1>16 DEF AttemptTimeout, SlotStep
<1>17. ASSUME NEW c \in Calls, StoreClosure(c)
      PROVE  SlotStep
  BY <1>17 DEF StoreClosure, Race, SlotStep
<1>18. ASSUME NEW c \in Calls, StoreResponse(c)
      PROVE  SlotStep
  <2> DEFINE s == seqOf[c]
  <2>1. s \in SeqIds /\ c \in AsyncCalls /\ Assigned(c) /\ s < sequence_id
    BY <1>18
    DEF StoreResponse, CallbackInv, BaseInv, TypeOK, ControlInv, SeqInv,
        Assigned
  <2>2. Owns(s, c)
    BY <1>18, <2>1 DEF StoreResponse, CallbackInv, SeqInv, Owns
  <2>3. \A t \in SeqIds : t = s => Owns(t, c)'
    BY <2>1, <2>2, OwnsNext
  <2>4. /\ responses'[s] = [object |-> "user", of |-> c]
        /\ \A t \in SeqIds : t # s => responses'[t] = responses[t]
    BY <1>18, <2>1 DEF StoreResponse, CallbackInv, BaseInv, TypeOK
  <2>5. pc'[c] = "returned"
    BY <1>18 DEF StoreResponse, CallbackInv, BaseInv, TypeOK
  <2> QED
    BY <2>1, <2>3, <2>4, <2>5 DEF SlotStep
<1>19. ASSUME NEW c \in Calls, Expire(c)
      PROVE  SlotStep
  BY <1>19 DEF Expire, SlotStep
<1>20. ASSUME NEW m \in replies, DropReply(m)
      PROVE  SlotStep
  BY <1>20 DEF DropReply, SlotStep
<1>21. ASSUME NEW m \in replies, LookupRequest(m)
      PROVE  SlotStep
  BY <1>21 DEF LookupRequest, SlotStep
<1>22. CASE StoreReply
  <2> DEFINE s == processing.msg.seq
             d == processing.msg.data
  <2>1. s \in SeqIds /\ processing.msg \in Answers
    BY <1>22 DEF StoreReply, CallbackInv, BaseInv, TypeOK, Message, Answers
  <2>2. /\ responses'[s] = [object |-> "reply", of |-> d]
        /\ \A t \in SeqIds : t # s => responses'[t] = responses[t]
        /\ served' = served /\ strays' = strays
    BY <1>22, <2>1 DEF StoreReply, CallbackInv, BaseInv, TypeOK
  <2>3. CASE d \in Calls
    <3>1. Owns(s, d) /\ d \in served
      BY <2>1, <2>3 DEF TransitInv
    <3>2. \A t \in SeqIds, o \in Calls : t = s /\ o = d => Owns(t, o)'
      BY <2>1, <3>1, OwnsNext
    <3> QED
      BY <2>1, <2>2, <2>3, <3>1, <3>2 DEF SlotStep
  <2>4. CASE d \notin Calls
    <3>1. processing.msg \in Received /\ processing.msg \in Message
      BY <1>22, <2>1, <2>4 DEF TransitInv, StoreReply, CallbackInv, BaseInv, TypeOK
    <3>2. processing.msg = [seq |-> s, data |-> d] /\ d \in Data
      BY <3>1 DEF Message
    <3>3. [seq |-> s, data |-> d] \in Received'
      BY <2>2, <3>1, <3>2 DEF Received
    <3> QED
      BY <2>1, <2>2, <2>4, <3>2, <3>3 DEF SlotStep
  <2> QED
    BY <2>3, <2>4
<1>23. CASE CopyReply
  BY <1>23 DEF CopyReply, SlotStep
<1>24. CASE ProcessCallback
  BY <1>24 DEF ProcessCallback, SlotStep
<1>25. ASSUME NEW m \in wire, Serve(m)
      PROVE  SlotStep
  BY <1>25 DEF Serve, SlotStep
<1>26. ASSUME NEW m \in wire, Ignore(m)
      PROVE  SlotStep
  BY <1>26 DEF Ignore, SlotStep
<1>27. ASSUME NEW m \in strays, StrayReply(m)
      PROVE  SlotStep
  BY <1>27 DEF StrayReply, SlotStep
<1>28. CASE UNCHANGED vars
  BY <1>28 DEF SlotStep
<1> QED
  BY <1>1, <1>2, <1>3, <1>4, <1>5, <1>6, <1>7, <1>8, <1>9, <1>10, <1>11, <1>12,
     <1>13, <1>14, <1>15, <1>16, <1>17, <1>18, <1>19, <1>20, <1>21, <1>22,
     <1>23, <1>24, <1>25, <1>26, <1>27, <1>28 DEF Next, Caller, CallMethod,
     ProcessMessage, Connection, Peer, Calls

\* Every step keeps the entries of responses_ with the owners of their ids.
LEMMA SlotNext ==
  CallbackInv /\ TransitInv /\ SlotInv /\ [Next]_vars => SlotInv'
<1> SUFFICES ASSUME CallbackInv, TransitInv, SlotInv, [Next]_vars,
                    NEW s \in SeqIds, NEW o \in Data,
                    responses'[s] # Null, responses'[s].of = o
             PROVE  /\ o \in Calls => Owns(s, o)'
                    /\ o \in Calls /\ responses'[s].object = "reply" => o \in served'
                    /\ responses'[s].object = "user"
                         => o \in AsyncCalls /\ pc'[o] = "returned"
                    /\ o \notin Calls => [seq |-> s, data |-> o] \in Received'
  BY DEF SlotInv
<1>1. CASE responses'[s] = responses[s]
  <2>1. o \in Calls => Owns(s, o)'
    BY <1>1, OwnsNext DEF SlotInv
  <2>2. served \subseteq served' /\ Received \subseteq Received'
    BY TransitStepNext DEF TransitStep, Received
  <2>3. \A c \in Calls : pc[c] = "returned" => pc'[c] = "returned"
    BY ReturnedNext
  <2> QED
    BY <1>1, <2>1, <2>2, <2>3 DEF SlotInv, Calls
<1>2. CASE responses'[s] # responses[s]
  <2>1. CASE \E c \in AsyncCalls : /\ responses'[s] = [object |-> "user", of |-> c]
                                  /\ pc'[c] = "returned"
                                  /\ Owns(s, c)'
    BY <2>1 DEF Calls, Owns
  <2>2. CASE \E c \in Calls : /\ responses'[s] = [object |-> "reply", of |-> c]
                             /\ c \in served'
                             /\ Owns(s, c)'
    BY <2>2 DEF Owns
  <2>3. CASE \E d \in Data \ Calls : /\ responses'[s] = [object |-> "reply", of |-> d]
                                    /\ [seq |-> s, data |-> d] \in Received'
    BY <2>3
  <2> QED
    BY <1>2, <2>1, <2>2, <2>3, SlotStepNext DEF SlotStep
<1> QED
  BY <1>1, <1>2

\* Every step stores replies only under ids that are registered once.
LEMMA FreshNext ==
  CallbackInv /\ FreshInv /\ [Next]_vars => FreshInv'
<1> SUFFICES ASSUME CallbackInv, FreshInv, [Next]_vars
             PROVE  FreshInv'
  OBVIOUS
<1> DEFINE Quiet ==
      /\ sequence_id' = sequence_id
      /\ \A s \in SeqIds :
           /\ responses'[s] \in {Null, responses[s]}
           /\ s \in requests' => Pending(s)
           /\ processing' # Null /\ processing'.msg.seq = s => Pending(s)
      /\ \A c \in Calls :
           pc'[c] = "register" => pc[c] = "register" /\ seqOf'[c] = seqOf[c]
<1> USE DEF vars, clientVars, channelVars, mapVars, networkVars
<1>1. ASSUME Quiet PROVE FreshInv'
  <2> SUFFICES ASSUME NEW s \in SeqIds, responses'[s] # Null
               PROVE  /\ s < sequence_id'
                      /\ \A c \in Calls : pc'[c] = "register" => seqOf'[c] # s
                      /\ Pending(s)' => responses'[s].object = "user"
    BY DEF FreshInv
  <2>1. responses'[s] = responses[s] /\ sequence_id' = sequence_id
    BY <1>1
  <2>2. Pending(s)' => Pending(s)
    BY <1>1 DEF Pending
  <2>3. \A c \in Calls : pc'[c] = "register" => pc[c] = "register" /\ seqOf'[c] = seqOf[c]
    BY <1>1
  <2> QED
    BY <2>1, <2>2, <2>3 DEF FreshInv
<1>2. TypeOK
  BY DEF CallbackInv, BaseInv
<1>3. ASSUME NEW c \in Calls, Caller(c) \/ Expire(c)
      PROVE  FreshInv'
  <2>1. CASE SendRequest(c) \/ AsyncRequest(c) \/ NextAttempt(c)
             \/ NoMoreAttempts(c) \/ Expire(c)
    BY <1>1, <1>2, <2>1
    DEF SendRequest, AsyncRequest, NextAttempt, NoMoreAttempts, Return, Expire,
        TypeOK, Pending
  <2>2. CASE GetSequenceId(c)
    BY <1>1, <1>2, <2>2 DEF GetSequenceId, TypeOK, Pending
  <2>3. CASE Send(c)
    <3>1. seqOf[c] = sequence_id /\ sequence_id' = sequence_id + 1
          /\ sequence_id \in 0 .. MaxSeq
      BY <1>2, <2>3 DEF Send, CallbackInv, SeqInv, TypeOK
    <3>2. \A s \in SeqIds : s < sequence_id => s < sequence_id' /\ s # sequence_id
      BY <3>1, ChannelAssumption DEF SeqIds
    <3>3. \A d \in Calls : pc'[d] = "register" => d = c \/ pc[d] = "register"
      BY <1>2, <2>3 DEF Send, TypeOK
    <3> QED
      BY <2>3, <3>1, <3>2, <3>3 DEF Send, FreshInv, Pending
  <2>4. CASE Register(c)
    <3>1. seqOf[c] \in SeqIds /\ responses[seqOf[c]] = Null
      BY <1>2, <2>4 DEF Register, TypeOK, FreshInv
    <3>2. \A s \in SeqIds : Pending(s)' => Pending(s) \/ s = seqOf[c]
      BY <2>4 DEF Register, Pending
    <3>3. \A d \in Calls : pc'[d] = "register" => pc[d] = "register"
      BY <1>2, <2>4 DEF Register, TypeOK
    <3> QED
      BY <2>4, <3>1, <3>2, <3>3 DEF Register, FreshInv
  <2>5. CASE PollDeadline(c) \/ FindNothing(c) \/ AttemptTimeout(c) \/ StoreClosure(c)
    BY <1>1, <1>2, <2>5
    DEF PollDeadline, FindNothing, AttemptTimeout, StoreClosure, TypeOK, Pending
  <2>6. CASE FindResponse(c)
    BY <1>1, <1>2, <2>6 DEF FindResponse, Return, TypeOK, Pending
  <2>7. CASE StoreResponse(c)
    <3>1. seqOf[c] \in SeqIds /\ Assigned(c) /\ seqOf[c] < sequence_id
      BY <1>2, <2>7 DEF StoreResponse, TypeOK, CallbackInv, SeqInv, Assigned
    <3>2. \A d \in Calls : pc[d] = "register" => seqOf[d] # seqOf[c]
      BY <2>7, <3>1 DEF StoreResponse, CallbackInv, SeqInv, Assigned
    <3>3. \A s \in SeqIds :
            responses'[s] = IF s = seqOf[c] THEN [object |-> "user", of |-> c]
                                            ELSE responses[s]
      BY <1>2, <2>7 DEF StoreResponse, TypeOK
    <3>4. \A d \in Calls : pc'[d] = "register" => pc[d] = "register"
      BY <1>2, <2>7 DEF StoreResponse, TypeOK
    <3> QED
      BY <2>7, <3>1, <3>2, <3>3, <3>4 DEF StoreResponse, FreshInv, Pending
  <2> QED
    BY <1>3, <2>1, <2>2, <2>3, <2>4, <2>5, <2>6, <2>7 DEF Caller, CallMethod
<1>4. ASSUME NEW m \in replies, DropReply(m) \/ LookupRequest(m)
      PROVE  FreshInv'
  BY <1>1, <1>2, <1>4 DEF DropReply, LookupRequest, Pending, TypeOK
<1>5. CASE StoreReply
  <2> DEFINE q == processing.msg.seq
  <2>1. q \in SeqIds /\ Pending(q) /\ q \notin requests
    BY <1>2, <1>5 DEF StoreReply, TypeOK, Message, Pending, CallbackInv, OnceInv
  <2>2. q < sequence_id /\ \A c \in Calls : pc[c] = "register" => seqOf[c] # q
    BY <2>1 DEF CallbackInv, OnceInv
  <2>3. \A s \in SeqIds : Pending(s)' => Pending(s) /\ s # q
    BY <1>5, <2>1 DEF StoreReply, Pending
  <2>4. \A s \in SeqIds : s # q => responses'[s] = responses[s]
    BY <1>2, <1>5 DEF StoreReply, TypeOK
  <2> QED
    BY <1>5, <2>2, <2>3, <2>4 DEF StoreReply, FreshInv
<1>6. CASE CopyReply
  BY <1>1, <1>2, <1>6 DEF CopyReply, Pending, TypeOK
<1>7. CASE ProcessCallback
  BY <1>1, <1>2, <1>7 DEF ProcessCallback, Pending, TypeOK
<1>8. CASE Connection \/ Disconnected
  BY <1>1, <1>2, <1>8
  DEF Connection, GetStub, GetStubReturn, Connected, MetaEchoed, Disconnected,
      Pending, TypeOK
<1>9. CASE Peer \/ (\E m \in wire : Ignore(m)) \/ (\E m \in strays : StrayReply(m))
  BY <1>1, <1>2, <1>9 DEF Peer, Serve, Ignore, StrayReply, Pending, TypeOK
<1>10. CASE UNCHANGED vars
  BY <1>1, <1>2, <1>10 DEF Pending, TypeOK
<1> QED
  BY <1>3, <1>4, <1>5, <1>6, <1>7, <1>8, <1>9, <1>10 DEF Next, ProcessMessage

\* What one step can do to the response objects, the queued callbacks and
\* what the application is told.
AnsweredNext(c) ==
  \/ response'[c] = c /\ c \in served'
  \/ \E m \in Foreign \ strays' : m.seq = seqOf'[c] /\ m.data = response'[c]

AnswerStep ==
  /\ \A c \in Calls :
       /\ response[c] # Null => seqOf'[c] = seqOf[c]
       /\ \/ response'[c] = response[c]
          \/ AnsweredNext(c) /\ pc'[c] = "returned"
       /\ outcome'[c] = "ok" => outcome[c] = "ok" \/ AnsweredNext(c)
       /\ outcome[c] = "ok" => outcome'[c] = "ok" /\ response'[c] = response[c]
  /\ \A i \in 1 .. Len(callbacks') :
       /\ closures'[callbacks'[i]] \in Calls
       /\ \/ AnsweredNext(closures'[callbacks'[i]])
          \/ \E j \in 1 .. Len(callbacks) :
               closures'[callbacks'[i]] = closures[callbacks[j]]

\* A response object is written with the answer to its own call, or with a
\* foreign message that has its id, before the call is told of success.
LEMMA AnswerStepNext ==
  CallbackInv /\ OwnerInv /\ [Next]_vars => AnswerStep
<1> SUFFICES ASSUME CallbackInv, OwnerInv, [Next]_vars
             PROVE  AnswerStep
  OBVIOUS
<1> DEFINE Told == /\ response' = response /\ outcome' = outcome
                   /\ closures' = closures /\ callbacks' = callbacks
<1> USE DEF vars, clientVars, channelVars, mapVars, networkVars
<1>1. TypeOK /\ ControlInv
  BY DEF CallbackInv, BaseInv
<1>2. \A i \in 1 .. Len(callbacks) :
        closures[callbacks[i]] \in Calls /\ callbacks[i] \in SeqIds
  BY <1>1 DEF TypeOK, CallbackInv, OnceInv, CallbackOnce
<1>3. ASSUME Told, seqOf' = seqOf PROVE AnswerStep
  BY <1>2, <1>3 DEF AnswerStep
<1>4. ASSUME NEW c \in Calls, Caller(c) \/ Expire(c)
      PROVE  AnswerStep
  <2>1. CASE SendRequest(c) \/ AsyncRequest(c) \/ NextAttempt(c) \/ Expire(c)
    BY <1>3, <2>1 DEF SendRequest, AsyncRequest, NextAttempt, Expire
  <2>2. CASE NoMoreAttempts(c)
    <3>1. \A d \in Calls : outcome'[d] = "ok" <=> outcome[d] = "ok"
      BY <1>1, <2>2
      DEF NoMoreAttempts, Return, TypeOK, CallbackInv, ControllerInv, Active
    <3>2. /\ response' = response /\ seqOf' = seqOf
          /\ closures' = closures /\ callbacks' = callbacks
      BY <2>2 DEF NoMoreAttempts
    <3> QED
      BY <1>2, <3>1, <3>2 DEF AnswerStep
  <2>3. CASE GetSequenceId(c)
    <3>1. response[c] = Null
      BY <2>3 DEF GetSequenceId, OwnerInv, AnswerInv
    <3>2. Told /\ \A d \in Calls : d # c => seqOf'[d] = seqOf[d]
      BY <1>1, <2>3 DEF GetSequenceId, TypeOK
    <3> QED
      BY <1>2, <3>1, <3>2 DEF AnswerStep
  <2>4. CASE Send(c) \/ Register(c) \/ PollDeadline(c) \/ FindNothing(c)
             \/ AttemptTimeout(c) \/ StoreResponse(c)
    BY <1>3, <2>4
    DEF Send, Register, PollDeadline, FindNothing, AttemptTimeout, StoreResponse
  <2>5. CASE FindResponse(c)
    <3> DEFINE s == seqOf[c]
               o == responses[s].of
    <3>1. /\ s \in SeqIds /\ Assigned(c) /\ controller[c] # "failed" /\ pc[c] = "find"
          /\ responses[s] # Null /\ responses[s] \in Slot /\ o \in Data
      BY <1>1, <2>5
      DEF FindResponse, TypeOK, Assigned, Slot, CallbackInv, ControllerInv
    <3>0. outcome[c] = "none"
      BY <3>1 DEF CallbackInv, ControllerInv, Active
    <3>2. /\ response' = [response EXCEPT ![c] = o]
          /\ outcome' = [outcome EXCEPT ![c] = "ok"]
          /\ pc' = [pc EXCEPT ![c] = "returned"]
          /\ seqOf' = seqOf /\ served' = served /\ strays' = strays
          /\ closures' = closures /\ callbacks' = callbacks
      BY <2>5, <3>1 DEF FindResponse, Return
    <3>3. response'[c] = o /\ pc'[c] = "returned"
      BY <1>1, <3>2 DEF TypeOK
    <3>4. \A d \in Calls : d # c => response'[d] = response[d] /\ outcome'[d] = outcome[d]
      BY <1>1, <3>2 DEF TypeOK
    <3>5. AnsweredNext(c)
      <4>1. CASE o \in Calls
        <5>1. Owns(s, o) /\ (responses[s].object = "reply" => o \in served)
          BY <3>1, <4>1 DEF OwnerInv, SlotInv
        <5>2. o = c
          BY <3>1, <5>1 DEF Owns
        <5>3. responses[s].object # "user"
          BY <3>1, <5>2 DEF OwnerInv, SlotInv
        <5>4. o \in served
          BY <3>1, <5>1, <5>3 DEF Slot
        <5> QED
          BY <3>2, <3>3, <5>2, <5>4 DEF AnsweredNext
      <4>2. CASE o \notin Calls
        <5>1. [seq |-> s, data |-> o] \in Foreign \ strays
          BY <3>1, <4>2 DEF OwnerInv, SlotInv, Received
        <5> QED
          BY <3>2, <3>3, <5>1 DEF AnsweredNext
      <4> QED
        BY <4>1, <4>2
    <3> QED
      BY <1>2, <3>0, <3>2, <3>3, <3>4, <3>5 DEF AnswerStep
  <2>6. CASE StoreClosure(c)
    <3>1. c \in AsyncCalls /\ seqOf[c] \in SeqIds /\ Assigned(c)
      BY <1>1, <2>6 DEF StoreClosure, TypeOK, ControlInv, Assigned
    <3>2. closures[seqOf[c]] = Null
      BY <2>6, <3>1
      DEF StoreClosure, CallbackInv, ClosureInv, SeqInv, Assigned, Calls
    <3>3. \A i \in 1 .. Len(callbacks) :
            closures'[callbacks[i]] = closures[callbacks[i]]
      BY <1>1, <1>2, <2>6, <3>2, ChannelAssumption DEF StoreClosure, TypeOK
    <3>4. /\ response' = response /\ outcome' = outcome /\ seqOf' = seqOf
          /\ callbacks' = callbacks
      BY <2>6 DEF StoreClosure
    <3> QED
      BY <1>2, <3>3, <3>4 DEF AnswerStep
  <2> QED
    BY <1>4, <2>1, <2>2, <2>3, <2>4, <2>5, <2>6 DEF Caller, CallMethod
<1>5. ASSUME NEW m \in replies, DropReply(m) \/ LookupRequest(m)
      PROVE  AnswerStep
  BY <1>3, <1>5 DEF DropReply, LookupRequest
<1>6. CASE StoreReply
  BY <1>3, <1>6 DEF StoreReply
<1>7. CASE CopyReply
  <2> DEFINE q == processing.msg.seq
             d == closures[q]
  <2>1. q \in SeqIds /\ processing.msg \in Answers /\ processing.async /\ Pending(q)
    BY <1>1, <1>7 DEF CopyReply, TypeOK, Message, Answers, Pending
  <2>2. /\ d # Null /\ d \in AsyncCalls /\ d \in Calls
        /\ seqOf[d] = q /\ Assigned(d)
    BY <1>7, <2>1
    DEF CopyReply, CallbackInv, OnceInv, ClosureInv, Assigned, Calls
  <2>5. outcome[d] = "none"
    BY <2>1, <2>2 DEF CallbackInv, OnceInv, ControllerInv
  <2>3. CASE responses[q] = Null
    BY <1>3, <1>7, <2>3 DEF CopyReply
  <2>4. CASE responses[q] # Null
    <3>1. responses[q].of \in Data /\ responses[q].object = "user"
      BY <1>1, <2>1, <2>4 DEF TypeOK, Slot, OwnerInv, FreshInv
    <3>2. responses[q].of \in Calls /\ pc[responses[q].of] = "returned"
      BY <2>1, <2>4, <3>1 DEF OwnerInv, SlotInv, Calls
    <3>3. responses[q].of = d
      BY <2>1, <2>2, <2>4, <3>1, <3>2 DEF OwnerInv, SlotInv, Owns
    <3>4. /\ response' = [response EXCEPT ![d] = processing.msg.data]
          /\ callbacks' = Append(callbacks, q)
          /\ pc' = pc /\ seqOf' = seqOf /\ outcome' = outcome
          /\ served' = served /\ strays' = strays /\ closures' = closures
      BY <1>7, <2>4, <3>3 DEF CopyReply
    <3>5. /\ response'[d] = processing.msg.data
          /\ \A e \in Calls : e # d => response'[e] = response[e]
      BY <1>1, <2>2, <3>4 DEF TypeOK
    <3>6. AnsweredNext(d)
      <4>1. CASE processing.msg.data \in Calls
        <5>1. processing.msg.data = d /\ d \in served
          BY <2>1, <2>2, <4>1 DEF OwnerInv, TransitInv, Owns
        <5> QED
          BY <3>4, <3>5, <5>1 DEF AnsweredNext
      <4>2. CASE processing.msg.data \notin Calls
        <5>1. processing.msg \in Foreign \ strays
          BY <2>1, <4>2 DEF OwnerInv, TransitInv, Received
        <5> QED
          BY <2>2, <3>4, <3>5, <5>1 DEF AnsweredNext
      <4> QED
        BY <4>1, <4>2
    <3>7. \A i \in 1 .. Len(callbacks') :
            \/ i \in 1 .. Len(callbacks) /\ callbacks'[i] = callbacks[i]
            \/ callbacks'[i] = q
      BY <1>1, <2>1, <3>4 DEF TypeOK
    <3>8. \A i \in 1 .. Len(callbacks') :
            /\ closures'[callbacks'[i]] \in Calls
            /\ \/ AnsweredNext(closures'[callbacks'[i]])
               \/ \E j \in 1 .. Len(callbacks) :
                    closures'[callbacks'[i]] = closures[callbacks[j]]
      BY <1>2, <2>2, <3>4, <3>6, <3>7
    <3>9. \A e \in Calls :
            /\ response[e] # Null => seqOf'[e] = seqOf[e]
            /\ \/ response'[e] = response[e]
               \/ AnsweredNext(e) /\ pc'[e] = "returned"
            /\ outcome'[e] = "ok" => outcome[e] = "ok" \/ AnsweredNext(e)
            /\ outcome[e] = "ok" => outcome'[e] = "ok" /\ response'[e] = response[e]
      BY <2>5, <3>2, <3>3, <3>4, <3>5, <3>6
    <3> QED
      BY <3>8, <3>9 DEF AnswerStep
  <2> QED
    BY <2>3, <2>4
<1>8. CASE ProcessCallback
  <2> DEFINE d == closures[Head(callbacks)]
  <2>1. /\ callbacks \in Seq(SeqIds) /\ callbacks # <<>>
        /\ Head(callbacks) = callbacks[1] /\ 1 \in 1 .. Len(callbacks)
        /\ Len(callbacks') = Len(callbacks) - 1
        /\ \A i \in 1 .. Len(callbacks') :
             i + 1 \in 1 .. Len(callbacks) /\ callbacks'[i] = callbacks[i + 1]
    BY <1>1, <1>8 DEF ProcessCallback, TypeOK
  <2>2. d \in Calls /\ Answered(d)
    BY <1>2, <2>1 DEF OwnerInv, AnswerInv
  <2>3. /\ response' = response /\ seqOf' = seqOf /\ closures' = closures
        /\ served' = served /\ strays' = strays
    BY <1>8 DEF ProcessCallback
  <2>4. AnsweredNext(d)
    BY <2>2, <2>3 DEF Answered, Misled, AnsweredNext
  <2>5. \A e \in Calls : e # d => outcome'[e] = outcome[e]
    BY <1>1, <1>8 DEF ProcessCallback, TypeOK
  <2>6. outcome[d] = "none"
    BY <2>1, HeadCallback DEF CallbackInv, ControllerInv
  <2> QED
    BY <1>2, <2>1, <2>3, <2>4, <2>5, <2>6 DEF AnswerStep
<1>9. CASE Connection \/ Disconnected
  BY <1>3, <1>9
  DEF Connection, GetStub, GetStubReturn, Connected, MetaEchoed, Disconnected
<1>10. CASE Peer \/ (\E m \in wire : Ignore(m)) \/ (\E m \in strays : StrayReply(m))
  BY <1>3, <1>10 DEF Peer, Serve, Ignore, StrayReply
<1>11. CASE UNCHANGED vars
  BY <1>3, <1>11
<1> QED
  BY <1>4, <1>5, <1>6, <1>7, <1>8, <1>9, <1>10, <1>11 DEF Next, ProcessMessage

\* Every step leaves each response object empty, with the answer to its own
\* call, or with a foreign message that has its id.
LEMMA AnswerNext ==
  CallbackInv /\ OwnerInv /\ [Next]_vars => AnswerInv'
<1> SUFFICES ASSUME CallbackInv, OwnerInv, [Next]_vars
             PROVE  AnswerInv'
  OBVIOUS
<1>1. AnswerStep /\ TransitStep
  BY AnswerStepNext, TransitStepNext
<1>2. \A c \in Calls : pc[c] = "returned" => pc'[c] = "returned"
  BY ReturnedNext
<1>3. ASSUME NEW c \in Calls, Answered(c)
      PROVE  AnsweredNext(c)
  <2>1. response[c] # Null
    BY <1>3, ChannelAssumption DEF Answered, Misled, Foreign
  <2>2. CASE response'[c] = response[c]
    BY <1>1, <1>3, <2>1, <2>2
    DEF AnswerStep, TransitStep, Answered, Misled, AnsweredNext
  <2>3. CASE response'[c] # response[c]
    BY <1>1, <2>3 DEF AnswerStep
  <2> QED
    BY <2>2, <2>3
<1>4. \A i \in 1 .. Len(callbacks') : AnsweredNext(closures'[callbacks'[i]])
  BY <1>1, <1>3 DEF AnswerStep, OwnerInv, AnswerInv
<1>5. \A c \in Calls : response'[c] # Null => pc'[c] = "returned"
  BY <1>1, <1>2 DEF AnswerStep, OwnerInv, AnswerInv
<1>6. \A c \in Calls :
        /\ response'[c] = Null \/ AnsweredNext(c)
             \/ response'[c] = c
        /\ outcome'[c] = "ok" => AnsweredNext(c)
  <2> SUFFICES ASSUME NEW c \in Calls
               PROVE  /\ response'[c] = Null \/ AnsweredNext(c)
                           \/ response'[c] = c
                      /\ outcome'[c] = "ok" => AnsweredNext(c)
    OBVIOUS
  <2>1. outcome[c] = "ok" => Answered(c)
    BY DEF OwnerInv, AnswerInv, OwnReply, Answered
  <2>2. response[c] \in {Null, c} \/ Answered(c)
    BY DEF OwnerInv, AnswerInv, OwnReply, Answered
  <2> QED
    BY <1>1, <1>3, <2>1, <2>2 DEF AnswerStep
<1>7. OwnReply'
  BY <1>6 DEF OwnReply, Misled, AnsweredNext
<1> QED
  BY <1>4, <1>5, <1>7 DEF AnswerInv, Answered, Misled, AnsweredNext

-----------------------------------------------------------------------------
\* The invariant holds of a client just created.
LEMMA InitBase == Init => CallbackInv
<1> SUFFICES ASSUME Init PROVE CallbackInv
  OBVIOUS
<1>1. TypeOK
  <2>1. 0 \in SeqIds /\ 0 \in 0 .. MaxSeq /\ 0 \in 0 .. RetryTimes
        /\ StraySeqs \subseteq SeqIds
    BY ChannelAssumption DEF SeqIds
  <2> QED
    BY <2>1 DEF Init, TypeOK
<1>2. ControlInv
  BY DEF Init, ControlInv, Active
<1>3. SeqInv
  BY DEF Init, SeqInv, Assigned
<1>4. ControllerInv
  BY DEF Init, ControllerInv, Active
<1>5. ClosureInv
  BY DEF Init, ClosureInv
<1>6. OnceInv
  BY DEF Init, OnceInv, Pending, CallbackOnce
<1> QED
  BY <1>1, <1>2, <1>3, <1>4, <1>5, <1>6 DEF CallbackInv, BaseInv

\* The invariant is inductive.
LEMMA CallbackInvNext == CallbackInv /\ [Next]_vars => CallbackInv'
  BY TypeNext, ControlNext, SeqNext, ControllerNext, ClosureNext, OnceNext
  DEF CallbackInv, BaseInv

\* The inductive invariant of the ids, closures, controllers and callbacks.
THEOREM CallbackInvariant == Spec => []CallbackInv
  BY InitBase, CallbackInvNext, PTL DEF Spec

\* Every variable keeps to its type.
THEOREM TypeCorrect == Spec => []TypeOK
<1>1. CallbackInv => TypeOK
  BY DEF CallbackInv, BaseInv
<1> QED
  BY <1>1, CallbackInvariant, PTL

(***************************************************************************)
(* Whatever replies arrive, stray ones included, the callback of a call is *)
(* queued once and finds its controller alive.                             *)
(***************************************************************************)
THEOREM CallbackOnceAlways == Spec => []CallbackOnce
<1>1. CallbackInv => CallbackOnce
  BY DEF CallbackInv, OnceInv
<1> QED
  BY <1>1, CallbackInvariant, PTL

(***************************************************************************)
(* RpcClient::mutex_ is enough to keep the ids of waiting calls apart.     *)
(***************************************************************************)
THEOREM SequenceIdsUniqueAlways == Spec => []SequenceIdsUnique
<1>1. CallbackInv => SequenceIdsUnique
  BY DEF CallbackInv, SeqInv, SequenceIdsUnique, Waiting, Assigned
<1> QED
  BY <1>1, CallbackInvariant, PTL

\* Where a call can be made, and where there is a connection to make it on.
StubInv ==
  /\ \A c \in Calls : Active(c) => HasStub
  /\ checked => conn # "none"
  /\ stub = "ok" => conn # "none"

CrashInv == StubInv /\ CrashOnlyInWindow

\* Calls are only made with a stub, and GetStub returns true only where
\* OnConnection has stored a connection.
LEMMA StubNext ==
  CallbackInv /\ StubInv /\ [Next]_vars => StubInv'
<1> SUFFICES ASSUME CallbackInv, StubInv, [Next]_vars
             PROVE  StubInv'
  OBVIOUS
<1> USE DEF vars, clientVars, channelVars, mapVars, networkVars
<1>1. TypeOK /\ ControlInv
  BY DEF CallbackInv, BaseInv
<1>2. ASSUME stub' = stub, conn' = conn, checked' = checked,
             \A c \in Calls : Active(c)' => HasStub
      PROVE  StubInv'
  BY <1>2 DEF StubInv, HasStub
<1>3. ASSUME pc' = pc, stub' = stub, conn' = conn, checked' = checked
      PROVE  StubInv'
  BY <1>3 DEF StubInv, HasStub, Active
<1>4. ASSUME NEW c \in Calls, Caller(c)
      PROVE  StubInv'
  <2>1. CASE SendRequest(c) \/ AsyncRequest(c)
    <3>1. HasStub /\ stub' = stub /\ conn' = conn /\ checked' = checked
      BY <2>1 DEF SendRequest, AsyncRequest
    <3> QED
      BY <1>2, <3>1
  <2>2. CASE ~ (SendRequest(c) \/ AsyncRequest(c))
    <3>1. Active(c) /\ stub' = stub /\ conn' = conn /\ checked' = checked
      <4>1. CASE NextAttempt(c) \/ NoMoreAttempts(c)
        BY <4>1 DEF NextAttempt, NoMoreAttempts, Active
      <4>2. CASE GetSequenceId(c) \/ Send(c) \/ Register(c)
        BY <4>2 DEF GetSequenceId, Send, Register, Active
      <4>3. CASE PollDeadline(c) \/ FindNothing(c) \/ FindResponse(c) \/ AttemptTimeout(c)
        BY <4>3 DEF PollDeadline, FindNothing, FindResponse, AttemptTimeout, Active
      <4>4. CASE StoreClosure(c) \/ StoreResponse(c)
        BY <4>4 DEF StoreClosure, StoreResponse, Active
      <4> QED
        BY <1>4, <2>2, <4>1, <4>2, <4>3, <4>4 DEF Caller, CallMethod
    <3>2. HasStub
      BY <3>1 DEF StubInv
    <3> QED
      BY <1>2, <3>1, <3>2
  <2> QED
    BY <2>1, <2>2
<1>5. ASSUME NEW c \in Calls, Expire(c) PROVE StubInv'
  BY <1>3, <1>5 DEF Expire
<1>6. CASE ProcessMessage
  BY <1>3, <1>6 DEF ProcessMessage, DropReply, LookupRequest, StoreReply, CopyReply
<1>7. CASE ProcessCallback
  BY <1>3, <1>7 DEF ProcessCallback
<1>8. CASE GetStub
  <2>1. \A c \in Calls : ~ Active(c)
    BY <1>1, <1>8, ChannelAssumption DEF GetStub, ControlInv
  <2> QED
    BY <1>8, <2>1 DEF GetStub, StubInv, Active
<1>9. CASE GetStubReturn
  <2>1. \A c \in Calls : ~ Active(c)
    BY <1>9 DEF GetStubReturn, StubInv, HasStub
  <2> QED
    BY <1>9, <2>1 DEF GetStubReturn, StubInv, Active
<1>10. CASE Connected \/ MetaEchoed \/ Disconnected
  BY <1>10 DEF Connected, MetaEchoed, Disconnected, StubInv, HasStub, Active
<1>11. CASE Peer \/ (\E m \in wire : Ignore(m)) \/ (\E m \in strays : StrayReply(m))
  BY <1>3, <1>11 DEF Peer, Serve, Ignore, StrayReply
<1>12. CASE UNCHANGED vars
  BY <1>3, <1>12
<1> QED
  BY <1>4, <1>5, <1>6, <1>7, <1>8, <1>9, <1>10, <1>11, <1>12 DEF Next, Connection

\* Only ProcessMessage can follow the NULL pointer, and only in the window;
\* only Send can follow the empty one, and only with a stub that is failed.
LEMMA CrashNext ==
  CallbackInv /\ StubInv /\ CrashOnlyInWindow /\ [Next]_vars => CrashOnlyInWindow'
<1> SUFFICES ASSUME CallbackInv, StubInv, CrashOnlyInWindow, [Next]_vars
             PROVE  CrashOnlyInWindow'
  OBVIOUS
<1> USE DEF vars, clientVars, channelVars, mapVars, networkVars
<1>1. ASSUME crash' \notin {"null", "unconnected"} PROVE CrashOnlyInWindow'
  BY <1>1 DEF CrashOnlyInWindow
<1>2. CASE UNCHANGED vars
  BY <1>2 DEF CrashOnlyInWindow
<1>3. ASSUME NEW c \in Calls, Caller(c) \/ Expire(c), crash = "no"
      PROVE  CrashOnlyInWindow'
  <2>1. CASE SendRequest(c) \/ AsyncRequest(c) \/ NextAttempt(c)
             \/ NoMoreAttempts(c) \/ Expire(c)
    BY <1>1, <1>3, <2>1
    DEF SendRequest, AsyncRequest, NextAttempt, NoMoreAttempts, Expire
  <2>2. CASE GetSequenceId(c) \/ Register(c) \/ PollDeadline(c) \/ FindNothing(c)
    BY <1>1, <1>3, <2>2 DEF GetSequenceId, Register, Race, PollDeadline, FindNothing
  <2>3. CASE FindResponse(c) \/ AttemptTimeout(c) \/ StoreClosure(c) \/ StoreResponse(c)
    BY <1>1, <1>3, <2>3
    DEF FindResponse, AttemptTimeout, StoreClosure, StoreResponse, Race
  <2>4. CASE Send(c)
    <3>1. Active(c) /\ stub' = stub
          /\ crash' = IF conn = "none" THEN "unconnected" ELSE crash
      BY <2>4 DEF Send, Active
    <3>2. conn = "none" => stub = "failed"
      BY <3>1 DEF StubInv, HasStub
    <3> QED
      BY <1>3, <3>1, <3>2 DEF CrashOnlyInWindow
  <2> QED
    BY <1>3, <2>1, <2>2, <2>3, <2>4 DEF Caller, CallMethod
<1>4. ASSUME NEW m \in replies, DropReply(m) \/ LookupRequest(m), crash = "no"
      PROVE  CrashOnlyInWindow'
  BY <1>1, <1>4 DEF DropReply, LookupRequest
<1>5. CASE StoreReply /\ crash = "no"
  BY <1>1, <1>5 DEF StoreReply
<1>6. CASE CopyReply /\ crash = "no"
  <2> DEFINE q == processing.msg.seq
  <2>1. CASE responses[q] = Null
    <3>1. q \in SeqIds /\ closures[q] # Null
      BY <1>6 DEF CopyReply, CallbackInv, BaseInv, TypeOK, Message, OnceInv
    <3>2. closures[q] \in AsyncCalls /\ pc[closures[q]] = "response"
      BY <2>1, <3>1 DEF CallbackInv, ClosureInv
    <3> QED
      BY <1>6, <2>1, <3>2 DEF CopyReply, CrashOnlyInWindow
  <2>2. CASE responses[q] # Null
    BY <1>1, <1>6, <2>2 DEF CopyReply
  <2> QED
    BY <2>1, <2>2
<1>7. CASE ProcessCallback /\ crash = "no"
  BY <1>1, <1>7 DEF ProcessCallback
<1>8. CASE (Connection \/ Disconnected) /\ crash = "no"
  BY <1>1, <1>8
  DEF Connection, GetStub, GetStubReturn, Connected, MetaEchoed, Disconnected
<1>9. CASE (Peer \/ (\E m \in wire : Ignore(m)) \/ (\E m \in strays : StrayReply(m)))
           /\ crash = "no"
  BY <1>1, <1>9 DEF Peer, Serve, Ignore, StrayReply
<1> QED
  BY <1>2, <1>3, <1>4, <1>5, <1>6, <1>7, <1>8, <1>9 DEF Next, ProcessMessage

(***************************************************************************)
(* The one way to the invalid pointer is the window between the writes of  *)
(* closures_ and of responses_, and the one way to the empty connection a  *)
(* stub handed out by a GetStub that returned false.                       *)
(***************************************************************************)
THEOREM CrashOnlyInWindowAlways == Spec => []CrashOnlyInWindow
<1>1. Init => CrashInv
  BY DEF Init, CrashInv, StubInv, Active, CrashOnlyInWindow
<1>2. CallbackInv /\ CrashInv /\ [Next]_vars => CrashInv'
  BY StubNext, CrashNext DEF CrashInv
<1>3. CrashInv => CrashOnlyInWindow
  BY DEF CrashInv
<1> QED
  BY <1>1, <1>2, <1>3, CallbackInvariant, PTL DEF Spec

\* The invariant of the owners of ids is inductive, on top of CallbackInv.
LEMMA OwnerInvNext == CallbackInv /\ OwnerInv /\ [Next]_vars => OwnerInv'
  BY TransitNext, SlotNext, FreshNext, AnswerNext DEF OwnerInv

\* Every id, reply and response belongs to one call or is a foreign message.
THEOREM OwnerInvariant == Spec => []OwnerInv
<1>1. Init => OwnerInv
  BY ChannelAssumption
  DEF Init, OwnerInv, TransitInv, Answers, SlotInv, FreshInv, AnswerInv,
      OwnReply, SeqIds
<1> QED
  BY <1>1, CallbackInvariant, OwnerInvNext, PTL DEF Spec

(***************************************************************************)
(* A caller finds its own answer, none, or a foreign message with the id   *)
(* of its call.                                                            *)
(***************************************************************************)
THEOREM OwnReplyAlways == Spec => []OwnReply
<1>1. OwnerInv => OwnReply
  BY DEF OwnerInv, AnswerInv
<1> QED
  BY <1>1, OwnerInvariant, PTL

-----------------------------------------------------------------------------
\* A call that has been told of success keeps its id, as one that waits does.
LEMMA OkAssigned ==
  ASSUME CallbackInv, NEW c \in Calls, outcome[c] = "ok"
  PROVE  Assigned(c)
<1>1. controller[c] = "deleted" /\ pc[c] # "idle"
  BY DEF CallbackInv, ControllerInv
<1>2. ~ Active(c) \/ pc[c] = "response"
  BY <1>1 DEF CallbackInv, ControllerInv
<1> QED
  BY <1>1, <1>2 DEF CallbackInv, BaseInv, TypeOK, Active, Assigned

\* A foreign message that a waiting call may be told of is not yet spent.
LEMMA NotSpent ==
  ASSUME CallbackInv, NEW c \in Calls, Assigned(c), outcome[c] # "ok",
         NEW m \in Foreign, m.seq = seqOf[c]
  PROVE  m \notin Spent
  BY OkAssigned DEF CallbackInv, SeqInv, Spent

\* What one step does to the foreign messages that are spent.
LEMMA SpentNext ==
  ASSUME CallbackInv, OwnerInv, [Next]_vars
  PROVE  /\ Spent \subseteq Foreign /\ Spent' \subseteq Foreign
         /\ \A m \in Foreign :
              m \in Spent' <=>
                \/ m \in Spent
                \/ \E c \in Calls : /\ outcome[c] # "ok" /\ outcome'[c] = "ok"
                                   /\ response'[c] = m.data /\ seqOf'[c] = m.seq
<1>1. AnswerStep
  BY AnswerStepNext
<1>2. ASSUME NEW c \in Calls, outcome[c] = "ok"
      PROVE  outcome'[c] = "ok" /\ response'[c] = response[c] /\ seqOf'[c] = seqOf[c]
  <2>1. response[c] # Null
    BY <1>2, ChannelAssumption DEF OwnerInv, AnswerInv, OwnReply, Misled, Foreign
  <2> QED
    BY <1>1, <1>2, <2>1 DEF AnswerStep
<1> QED
  BY <1>2 DEF Spent

\* A call that is told of success was answered, by its server or astray.
LEMMA SuccessStep ==
  ASSUME CallbackInv, OwnerInv, [Next]_vars,
         NEW c \in Calls, Assigned(c), outcome[c] = "none",
         outcome' = [outcome EXCEPT ![c] = "ok"],
         served' = served, strays' = strays, seqOf' = seqOf,
         \A d \in Calls : d # c => pc'[d] = pc[d],
         pc'[c] # "idle"
  PROVE  Abstract!Next
<1>1. AnswerStep
  BY AnswerStepNext
<1>2. /\ outcome'[c] = "ok"
      /\ \A d \in Calls : d # c => outcome'[d] = outcome[d]
  BY DEF CallbackInv, BaseInv, TypeOK
<1>3. Status[c] = "open"
  BY DEF Status, Assigned
<1>4. Status' = [Status EXCEPT ![c] = "ok"]
  BY <1>2 DEF Status
<1>5. /\ Spent \subseteq Foreign /\ Spent' \subseteq Foreign
      /\ \A m \in Foreign :
           m \in Spent' <=> m \in Spent \/ (response'[c] = m.data /\ seqOf[c] = m.seq)
  BY <1>2, SpentNext
<1>6. AnsweredNext(c)
  BY <1>1, <1>2 DEF AnswerStep
<1>7. CASE response'[c] = c /\ c \in served'
  <2>1. Spent' = Spent
    BY <1>5, <1>7, ForeignData
  <2>2. Abstract!Succeed(c)
    BY <1>3, <1>4, <1>7, <2>1 DEF Abstract!Succeed
  <2> QED
    BY <2>2 DEF Abstract!Next
<1>8. CASE \E m \in Foreign \ strays' : m.seq = seqOf'[c] /\ m.data = response'[c]
  <2>1. PICK m \in Foreign : m.seq = seqOf[c] /\ m.data = response'[c]
    BY <1>8
  <2>2. m \notin Spent
    BY <2>1, NotSpent
  <2>3. \A n \in Foreign : n.seq = m.seq /\ n.data = m.data => n = m
    BY DEF Foreign
  <2>4. Spent' = Spent \union {m}
    BY <1>5, <2>1, <2>3
  <2>5. Abstract!SucceedAstray(c, m)
    BY <1>3, <1>4, <2>2, <2>4 DEF Abstract!SucceedAstray
  <2> QED
    BY <2>5 DEF Abstract!Next
<1> QED
  BY <1>6, <1>7, <1>8 DEF AnsweredNext

\* One step of the client is one abstract step or none.
LEMMA AbstractStep ==
  CallbackInv /\ OwnerInv /\ [Next]_vars => [Abstract!Next]_(Abstract!vars)
<1> SUFFICES ASSUME CallbackInv, OwnerInv, [Next]_vars
             PROVE  [Abstract!Next]_(Abstract!vars)
  OBVIOUS
<1> USE DEF vars, clientVars, channelVars, mapVars, networkVars
<1>1. TypeOK
  BY DEF CallbackInv, BaseInv
<1>2. ASSUME \A c \in Calls : outcome'[c] = "ok" => outcome[c] = "ok"
      PROVE  Spent' = Spent
  BY <1>2, SpentNext
<1>3. ASSUME outcome' = outcome, served' = served,
             \A c \in Calls : pc'[c] = "idle" <=> pc[c] = "idle"
      PROVE  [Abstract!Next]_(Abstract!vars)
  <2>1. Spent' = Spent
    BY <1>2, <1>3
  <2>2. Status' = Status
    BY <1>3 DEF Status
  <2> QED
    BY <1>3, <2>1, <2>2 DEF Abstract!vars
<1>4. ASSUME NEW c \in Calls, Caller(c)
      PROVE  [Abstract!Next]_(Abstract!vars)
  <2>1. CASE SendRequest(c) \/ AsyncRequest(c)
    <3>1. /\ pc[c] = "idle" /\ outcome' = outcome /\ served' = served
          /\ \/ pc' = [pc EXCEPT ![c] = "loop"]
             \/ pc' = [pc EXCEPT ![c] = "call"]
      BY <2>1 DEF SendRequest, AsyncRequest
    <3>2. Spent' = Spent
      BY <1>2, <3>1
    <3>3. Status[c] = "idle" /\ outcome[c] = "none"
      BY <3>1 DEF Status, CallbackInv, ControllerInv
    <3>4. Status' = [Status EXCEPT ![c] = "open"]
      BY <1>1, <3>1, <3>3 DEF TypeOK, Status
    <3>5. Abstract!Invoke(c)
      BY <3>1, <3>2, <3>3, <3>4 DEF Abstract!Invoke
    <3> QED
      BY <3>5 DEF Abstract!Next
  <2>2. CASE NoMoreAttempts(c)
    <3>1. Status[c] = "open" /\ outcome[c] = "none"
      BY <2>2 DEF NoMoreAttempts, CallbackInv, ControllerInv, Active, Status
    <3>2. /\ outcome' = [outcome EXCEPT ![c] = "failed"] /\ served' = served
          /\ pc' = [pc EXCEPT ![c] = "returned"]
      BY <2>2 DEF NoMoreAttempts, Return
    <3>3. \A d \in Calls : outcome'[d] = "ok" => outcome[d] = "ok"
      BY <1>1, <3>2 DEF TypeOK
    <3>4. Spent' = Spent
      BY <1>2, <3>3
    <3>5. Status' = [Status EXCEPT ![c] = "failed"]
      BY <1>1, <3>2 DEF TypeOK, Status
    <3>6. Abstract!Fail(c)
      BY <3>1, <3>2, <3>4, <3>5 DEF Abstract!Fail
    <3> QED
      BY <3>6 DEF Abstract!Next
  <2>3. CASE NextAttempt(c) \/ GetSequenceId(c) \/ Send(c) \/ Register(c)
    BY <1>1, <1>3, <2>3 DEF NextAttempt, GetSequenceId, Send, Register, TypeOK
  <2>4. CASE PollDeadline(c) \/ FindNothing(c) \/ AttemptTimeout(c)
    BY <1>1, <1>3, <2>4 DEF PollDeadline, FindNothing, AttemptTimeout, TypeOK
  <2>5. CASE StoreClosure(c) \/ StoreResponse(c)
    BY <1>1, <1>3, <2>5 DEF StoreClosure, StoreResponse, TypeOK
  <2>6. CASE FindResponse(c)
    <3>1. controller[c] # "failed" /\ Assigned(c) /\ outcome[c] = "none"
      BY <2>6
      DEF FindResponse, CallbackInv, ControllerInv, Active, Assigned
    <3>2. /\ outcome' = [outcome EXCEPT ![c] = "ok"]
          /\ served' = served /\ strays' = strays /\ seqOf' = seqOf
          /\ pc' = [pc EXCEPT ![c] = "returned"]
      BY <2>6, <3>1 DEF FindResponse, Return
    <3>3. (\A d \in Calls : d # c => pc'[d] = pc[d]) /\ pc'[c] # "idle"
      BY <1>1, <3>2 DEF TypeOK
    <3> QED
      BY <3>1, <3>2, <3>3, SuccessStep
  <2> QED
    BY <1>4, <2>1, <2>2, <2>3, <2>4, <2>5, <2>6 DEF Caller, CallMethod
<1>5. ASSUME NEW c \in Calls, Expire(c)
      PROVE  [Abstract!Next]_(Abstract!vars)
  BY <1>3, <1>5 DEF Expire
<1>6. CASE ProcessMessage
  BY <1>3, <1>6 DEF ProcessMessage, DropReply, LookupRequest, StoreReply, CopyReply
<1>7. CASE ProcessCallback
  <2> DEFINE d == closures[Head(callbacks)]
  <2>1. /\ d \in Calls /\ controller[d] # "deleted"
        /\ pc[d] \in {"response", "returned"} /\ d \in AsyncCalls
    BY <1>7, HeadCallback DEF ProcessCallback, CallbackInv
  <2>2. outcome[d] = "none" /\ Assigned(d)
    BY <2>1 DEF CallbackInv, ControllerInv, Assigned
  <2>3. /\ \/ outcome' = [outcome EXCEPT ![d] = "ok"]
           \/ outcome' = [outcome EXCEPT ![d] = "failed"]
        /\ pc' = pc /\ served' = served /\ strays' = strays /\ seqOf' = seqOf
    BY <1>7, <2>1 DEF ProcessCallback
  <2>4. CASE outcome' = [outcome EXCEPT ![d] = "ok"]
    BY <2>1, <2>2, <2>3, <2>4, SuccessStep
  <2>5. CASE outcome' = [outcome EXCEPT ![d] = "failed"]
    <3>1. \A e \in Calls : outcome'[e] = "ok" => outcome[e] = "ok"
      BY <1>1, <2>5 DEF TypeOK
    <3>2. Spent' = Spent
      BY <1>2, <3>1
    <3>3. Status[d] = "open" /\ Status' = [Status EXCEPT ![d] = "failed"]
      BY <1>1, <2>1, <2>2, <2>3, <2>5 DEF TypeOK, Status
    <3>4. Abstract!Fail(d)
      BY <2>3, <3>2, <3>3 DEF Abstract!Fail
    <3> QED
      BY <2>1, <3>4 DEF Abstract!Next
  <2> QED
    BY <2>3, <2>4, <2>5
<1>8. CASE Connection \/ Disconnected
  BY <1>3, <1>8
  DEF Connection, GetStub, GetStubReturn, Connected, MetaEchoed, Disconnected
<1>9. ASSUME NEW m \in wire, Serve(m)
      PROVE  [Abstract!Next]_(Abstract!vars)
  <2>1. m.data \in Calls /\ pc[m.data] # "idle"
    BY DEF OwnerInv, TransitInv, Owns
  <2>2. Status[m.data] # "idle"
    BY <1>1, <2>1 DEF TypeOK, Status
  <2>3. /\ Status' = Status /\ served' = served \union {m.data}
        /\ outcome' = outcome
    BY <1>9 DEF Serve, Status
  <2>4. Spent' = Spent
    BY <1>2, <2>3
  <2> QED
    BY <2>1, <2>2, <2>3, <2>4 DEF Abstract!Next, Abstract!Execute
<1>10. CASE (\E m \in wire : Ignore(m)) \/ (\E m \in strays : StrayReply(m))
  BY <1>3, <1>10 DEF Ignore, StrayReply
<1>11. CASE UNCHANGED vars
  BY <1>3, <1>11
<1> QED
  BY <1>4, <1>5, <1>6, <1>7, <1>8, <1>9, <1>10, <1>11 DEF Next, Peer

(***************************************************************************)
(* The client implements the abstract calls: a call is answered once, with *)
(* success only if a server executed it, or with a foreign message that    *)
(* answers no other call.                                                  *)
(***************************************************************************)
THEOREM ClientImplementsCalls == Spec => ImplementsCalls
<1>1. Init => Abstract!Init
  BY DEF Init, Abstract!Init, Status, Spent
<1>2. CallbackInv /\ OwnerInv /\ [Next]_vars => [Abstract!Next]_(Abstract!vars)
  BY AbstractStep
<1> QED
  BY <1>1, <1>2, CallbackInvariant, OwnerInvariant, PTL
     DEF Spec, ImplementsCalls, Abstract!Spec

=============================================================================
