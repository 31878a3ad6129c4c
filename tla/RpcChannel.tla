------------------------------ MODULE RpcChannel ------------------------------
(***************************************************************************)
(* The client side of rrpc: RpcClient (client.h), its one RpcChannel       *)
(* (channel.h, channel.cc) and the RpcControllers of its calls             *)
(* (controller.h).                                                         *)
(*                                                                         *)
(* Application threads enter SendRequest and AsyncRequest, which hold the  *)
(* client's mutex_ throughout; the threads of process_pool_ run            *)
(* ProcessMessage under the channel's mutex_; the only thread of           *)
(* callback_pool_ runs ProcessCallback under no lock at all.  CallMethod   *)
(* writes sequence_id_, requests_, closures_ and responses_ without the    *)
(* channel's mutex_, so each of these writes is a step of its own.         *)
(*                                                                         *)
(* A call stands for the thread that makes it, its request, its response   *)
(* object and its controller.  The data of a reply is the call whose       *)
(* request the server answered, or that of a foreign message, which        *)
(* answers no request of this channel: Alien for a reply to a request of   *)
(* another channel, for every channel of a client announces the client's   *)
(* own id to the proxy, every channel numbers its requests from 0, and a   *)
(* server may send a reply to the sender of another request; and Empty for *)
(* the message with sequence id 0 and no data that the parser makes up     *)
(* where it finds its stage_ to be PARSING_BODY.                           *)
(***************************************************************************)
EXTENDS Naturals, Sequences, FiniteSets

CONSTANTS
  SyncCalls,    \* calls made with SendRequest
  AsyncCalls,   \* calls made with AsyncRequest
  RetryTimes,   \* the retry_times argument of SendRequest
  MaxSeq,       \* bound: sequence ids 0 .. MaxSeq-1 (2^31 in the code)
  Lossy,        \* whether requests may be lost and the connection may break
  StraySeqs,    \* ids of the replies to other channels that may arrive here
  Alien,        \* the data of such a reply
  Empty,        \* the data of the message the parser makes up
  Null          \* no call, no thread, no map entry

Calls  == SyncCalls \union AsyncCalls
SeqIds == 0 .. (MaxSeq - 1)

(***************************************************************************)
(* What a responses_ entry points to: the object ProcessMessage allocated  *)
(* for a reply, or the response object the caller of AsyncRequest passed.  *)
(***************************************************************************)
Data    == Calls \union {Alien, Empty}
Slot    == [object : {"reply", "user"}, of : Data]
Message == [seq : SeqIds, data : Data]
Request == [seq : SeqIds, data : Calls]

\* What may arrive here and answers no request of this channel.
Foreign ==
  {[seq |-> s, data |-> Alien] : s \in StraySeqs}
    \union {[seq |-> 0, data |-> Empty]}

ASSUME ChannelAssumption ==
  /\ SyncCalls \intersect AsyncCalls = {}
  /\ RetryTimes \in Nat
  /\ MaxSeq \in Nat \ {0}
  /\ Lossy \in BOOLEAN
  /\ StraySeqs \subseteq SeqIds
  /\ Alien \notin Calls \union {Null}
  /\ Empty \notin Calls \union {Alien, Null}
  /\ Null \notin Calls
  /\ "GetStub" \notin Calls \union {Null}
  /\ Null \notin Slot \union [msg : Message, async : BOOLEAN]

VARIABLES
  \* The RpcClient and the application
  clientMutex,  \* holder of RpcClient::mutex_: a call, "GetStub" or Null
  stub,         \* what GetStub has told the application
  pc,           \* where the thread of each call is
  retry,        \* SendRequest's loop counter
  seqOf,        \* CallMethod's local sequence_id
  controller,   \* the RpcController of each call
  expired,      \* the controller's timeout_ has passed
  response,     \* the application's response object of each call
  outcome,      \* what the application was told of each call
  \* The RpcChannel
  conn,         \* rpc_conn_->conn: Null pointer, connected, disconnected
  checked,      \* rpc_conn_->checked
  sequence_id,
  requests,     \* the keys of requests_
  responses,
  closures,     \* the call whose controller and closure are stored
  processing,   \* the message of the thread inside ProcessMessage, if any
  callbacks,    \* the queue of callback_pool_
  crash,        \* what the process died of: a NULL or deleted object, a call
                \* on a connection never made, a data race
  \* The proxy, the servers and the network between
  wire,         \* requests sent and not yet served
  served,       \* calls some request of which a server has executed
  strays,       \* foreign messages that may still arrive
  replies       \* the queue of process_pool_, taken by 10 threads

clientVars  == <<clientMutex, stub, pc, retry, seqOf, controller, expired,
                 response, outcome>>
mapVars     == <<requests, responses, closures>>
channelVars == <<conn, checked, sequence_id, requests, responses, closures,
                 processing, callbacks, crash>>
networkVars == <<wire, served, strays, replies>>
vars        == <<clientVars, channelVars, networkVars>>

Init ==
  /\ clientMutex = Null
  /\ stub = "none"
  /\ pc = [c \in Calls |-> "idle"]
  /\ retry = [c \in Calls |-> 0]
  /\ seqOf = [c \in Calls |-> 0]
  /\ controller = [c \in Calls |-> "none"]
  /\ expired = [c \in Calls |-> FALSE]
  /\ response = [c \in Calls |-> Null]
  /\ outcome = [c \in Calls |-> "none"]
  /\ conn = "none"
  /\ checked = FALSE
  /\ sequence_id = 0
  /\ requests = {}
  /\ responses = [s \in SeqIds |-> Null]
  /\ closures = [s \in SeqIds |-> Null]
  /\ processing = Null
  /\ callbacks = <<>>
  /\ crash = "no"
  /\ wire = {}
  /\ served = {}
  /\ strays = Foreign
  /\ replies = {}

-----------------------------------------------------------------------------
(***************************************************************************)
(* GetStub: creates the channel the first time, then polls IsConnected for *)
(* two seconds with the client's mutex_ held.                              *)
(***************************************************************************)
GetStub ==
  /\ stub \in {"none", "failed"}
  /\ clientMutex = Null
  /\ clientMutex' = "GetStub"
  /\ stub' = "waiting"
  /\ UNCHANGED <<pc, retry, seqOf, controller, expired, response, outcome,
                 channelVars, networkVars>>

GetStubReturn ==
  /\ stub = "waiting"
  /\ stub' = IF checked THEN "ok" ELSE "failed"
  /\ clientMutex' = Null
  /\ UNCHANGED <<pc, retry, seqOf, controller, expired, response, outcome,
                 channelVars, networkVars>>

(***************************************************************************)
(* OnConnection for a new connection, the echo of the connection meta that *)
(* ParseMessage takes for the proxy's consent, and OnConnection for a lost *)
(* connection, which changes nothing: conn and checked keep their values   *)
(* and nobody connects again.  What was on the wire is lost.               *)
(***************************************************************************)
Connected ==
  /\ stub # "none"
  /\ conn = "none"
  /\ processing = Null
  /\ conn' = "up"
  /\ UNCHANGED <<clientVars, checked, sequence_id, mapVars, processing,
                 callbacks, crash, networkVars>>

MetaEchoed ==
  /\ conn = "up"
  /\ ~checked
  /\ checked' = TRUE
  /\ UNCHANGED <<clientVars, conn, sequence_id, mapVars, processing,
                 callbacks, crash, networkVars>>

Disconnected ==
  /\ Lossy
  /\ conn = "up"
  /\ conn' = "down"
  /\ wire' = {}
  /\ UNCHANGED <<clientVars, checked, sequence_id, mapVars, processing,
                 callbacks, crash, served, strays, replies>>

-----------------------------------------------------------------------------
\* GetStub hands the stub out even where it returns false.
HasStub == stub \in {"ok", "failed"}

(***************************************************************************)
(* SendRequest: the loop over the attempts.  The one controller, with the  *)
(* one deadline, serves them all, and Reset does nothing.                  *)
(***************************************************************************)
SendRequest(c) ==
  /\ pc[c] = "idle"
  /\ HasStub
  /\ clientMutex = Null
  /\ clientMutex' = c
  /\ controller' = [controller EXCEPT ![c] = "live"]
  /\ pc' = [pc EXCEPT ![c] = "loop"]
  /\ UNCHANGED <<stub, retry, seqOf, expired, response, outcome,
                 channelVars, networkVars>>

Return(c, result) ==
  /\ pc' = [pc EXCEPT ![c] = "returned"]
  /\ outcome' = [outcome EXCEPT ![c] = result]
  /\ clientMutex' = Null

\* Mutant: retry <= retry_times.
NextAttemptTooMany(c) ==
  /\ pc[c] = "loop"
  /\ retry[c] <= RetryTimes
  /\ pc' = [pc EXCEPT ![c] = "call"]
  /\ UNCHANGED <<clientMutex, stub, retry, seqOf, controller, expired,
                 response, outcome, channelVars, networkVars>>

NextAttempt(c) ==
  /\ pc[c] = "loop"
  /\ retry[c] < RetryTimes
  /\ pc' = [pc EXCEPT ![c] = "call"]
  /\ UNCHANGED <<clientMutex, stub, retry, seqOf, controller, expired,
                 response, outcome, channelVars, networkVars>>

\* Mutant: the loop falls through to return true.
NoMoreAttemptsTrue(c) ==
  /\ pc[c] = "loop"
  /\ retry[c] >= RetryTimes
  /\ Return(c, "ok")
  /\ controller' = [controller EXCEPT ![c] = "deleted"]
  /\ UNCHANGED <<stub, retry, seqOf, expired, response, channelVars,
                 networkVars>>

NoMoreAttempts(c) ==
  /\ pc[c] = "loop"
  /\ retry[c] >= RetryTimes
  /\ Return(c, "failed")
  /\ controller' = [controller EXCEPT ![c] = "deleted"]
  /\ UNCHANGED <<stub, retry, seqOf, expired, response, channelVars,
                 networkVars>>

\* Mutant: AsyncRequest without MutexLock lock(&mutex_).
AsyncRequestUnlocked(c) ==
  /\ pc[c] = "idle"
  /\ HasStub
  /\ controller' = [controller EXCEPT ![c] = "live"]
  /\ pc' = [pc EXCEPT ![c] = "call"]
  /\ UNCHANGED <<clientMutex, stub, retry, seqOf, expired, response, outcome,
                 channelVars, networkVars>>

\* AsyncRequest: allocates the controller and the closure, and calls once.
AsyncRequest(c) ==
  /\ pc[c] = "idle"
  /\ HasStub
  /\ clientMutex = Null
  /\ clientMutex' = c
  /\ controller' = [controller EXCEPT ![c] = "live"]
  /\ pc' = [pc EXCEPT ![c] = "call"]
  /\ UNCHANGED <<stub, retry, seqOf, expired, response, outcome,
                 channelVars, networkVars>>

-----------------------------------------------------------------------------
(***************************************************************************)
(* A write of one of the three std::maps without the channel's mutex_: if  *)
(* another thread may be inside the same map at that moment, the write     *)
(* takes effect before or after it, or corrupts the map.                   *)
(***************************************************************************)
Race(concurrent) == IF concurrent THEN {"no", "race"} ELSE {"no"}

(***************************************************************************)
(* CallMethod, up to the point where the request is registered.  The       *)
(* increment of sequence_id_ is a load and a store; the request is on the  *)
(* wire before requests_ knows of it.  Before OnConnection there is no     *)
(* connection to send it on, but an empty pointer.                         *)
(***************************************************************************)
GetSequenceId(c) ==
  /\ pc[c] = "call"
  /\ sequence_id < MaxSeq
  /\ seqOf' = [seqOf EXCEPT ![c] = sequence_id]
  /\ pc' = [pc EXCEPT ![c] = "send"]
  /\ UNCHANGED <<clientMutex, stub, retry, controller, expired, response,
                 outcome, channelVars, networkVars>>

Send(c) ==
  /\ pc[c] = "send"
  /\ sequence_id' = seqOf[c] + 1
  /\ wire' = IF conn = "up"
               THEN wire \union {[seq |-> seqOf[c], data |-> c]}
               ELSE wire
  /\ crash' = IF conn = "none" THEN "unconnected" ELSE crash
  /\ pc' = [pc EXCEPT ![c] = "register"]
  /\ UNCHANGED <<clientMutex, stub, retry, seqOf, controller, expired,
                 response, outcome, conn, checked, mapVars, processing,
                 callbacks, served, strays, replies>>

Register(c) ==
  /\ pc[c] = "register"
  /\ crash' \in Race(processing = Null /\ replies # {})
  /\ requests' = requests \union {seqOf[c]}
  /\ pc' = [pc EXCEPT ![c] = IF c \in SyncCalls THEN "poll" ELSE "closure"]
  /\ UNCHANGED <<clientMutex, stub, retry, seqOf, controller, expired,
                 response, outcome, conn, checked, sequence_id, responses,
                 closures, processing, callbacks, networkVars>>

(***************************************************************************)
(* CallMethod without a closure: wait for the reply or for the deadline.   *)
(***************************************************************************)
\* Mutant: the loop condition tests Failed where it should test IsTimeout.
PollFailed(c) ==
  /\ pc[c] = "poll"
  /\ controller[c] # "failed"
  /\ pc' = [pc EXCEPT ![c] = "find"]
  /\ UNCHANGED <<clientMutex, stub, retry, seqOf, controller, expired,
                 response, outcome, channelVars, networkVars>>

PollDeadline(c) ==
  /\ pc[c] = "poll"
  /\ ~expired[c]
  /\ pc' = [pc EXCEPT ![c] = "find"]
  /\ UNCHANGED <<clientMutex, stub, retry, seqOf, controller, expired,
                 response, outcome, channelVars, networkVars>>

FindNothing(c) ==
  /\ pc[c] = "find"
  /\ processing = Null
  /\ responses[seqOf[c]] = Null
  /\ pc' = [pc EXCEPT ![c] = "poll"]
  /\ UNCHANGED <<clientMutex, stub, retry, seqOf, controller, expired,
                 response, outcome, channelVars, networkVars>>

FindResponse(c) ==
  LET s == seqOf[c] IN
  /\ pc[c] = "find"
  /\ processing = Null
  /\ responses[s] # Null
  /\ response' = [response EXCEPT ![c] = responses[s].of]
  /\ responses' = [responses EXCEPT ![s] = Null]
  /\ IF controller[c] # "failed"
       THEN /\ Return(c, "ok")
            /\ controller' = [controller EXCEPT ![c] = "deleted"]
            /\ UNCHANGED retry
       ELSE /\ retry' = [retry EXCEPT ![c] = @ + 1]
            /\ pc' = [pc EXCEPT ![c] = "loop"]
            /\ UNCHANGED <<clientMutex, outcome, controller>>
  /\ UNCHANGED <<stub, seqOf, expired, conn, checked, sequence_id, requests,
                 closures, processing, callbacks, crash, networkVars>>

\* Mutant: the deadline passes without SetFailed.
AttemptTimeoutUnmarked(c) ==
  /\ pc[c] = "poll"
  /\ expired[c]
  /\ Return(c, "ok")
  /\ UNCHANGED <<stub, retry, seqOf, controller, expired, response,
                 channelVars, networkVars>>

AttemptTimeout(c) ==
  /\ pc[c] = "poll"
  /\ expired[c]
  /\ controller' = [controller EXCEPT ![c] = "failed"]
  /\ retry' = [retry EXCEPT ![c] = @ + 1]
  /\ pc' = [pc EXCEPT ![c] = "loop"]
  /\ UNCHANGED <<clientMutex, stub, seqOf, expired, response, outcome,
                 channelVars, networkVars>>

\* CallMethod with a closure: store it, then the response object.
StoreClosure(c) ==
  /\ pc[c] = "closure"
  /\ crash' \in Race(\/ processing = Null /\ (\E m \in replies : m.seq \in requests)
                    \/ callbacks # <<>>)
  /\ closures' = [closures EXCEPT ![seqOf[c]] = c]
  /\ pc' = [pc EXCEPT ![c] = "response"]
  /\ UNCHANGED <<clientMutex, stub, retry, seqOf, controller, expired,
                 response, outcome, conn, checked, sequence_id, requests,
                 responses, processing, callbacks, networkVars>>

\* Mutant: responses_[sequence_id] = response is missing.
StoreResponseMissing(c) ==
  /\ pc[c] = "response"
  /\ pc' = [pc EXCEPT ![c] = "returned"]
  /\ clientMutex' = Null
  /\ UNCHANGED <<stub, retry, seqOf, controller, expired, response, outcome,
                 channelVars, networkVars>>

StoreResponse(c) ==
  /\ pc[c] = "response"
  /\ crash' \in Race(processing # Null)
  /\ responses' = [responses EXCEPT ![seqOf[c]] =
                     [object |-> "user", of |-> c]]
  /\ pc' = [pc EXCEPT ![c] = "returned"]
  /\ clientMutex' = Null
  /\ UNCHANGED <<stub, retry, seqOf, controller, expired, response, outcome,
                 conn, checked, sequence_id, requests, closures, processing,
                 callbacks, networkVars>>

\* The clock passes the deadline of a controller that is still in use.
Expire(c) ==
  /\ controller[c] \in {"live", "failed"}
  /\ ~expired[c]
  /\ expired' = [expired EXCEPT ![c] = TRUE]
  /\ UNCHANGED <<clientMutex, stub, pc, retry, seqOf, controller, response,
                 outcome, channelVars, networkVars>>

-----------------------------------------------------------------------------
(***************************************************************************)
(* ProcessMessage on a thread of process_pool_, under the channel's        *)
(* mutex_: the lookup in requests_ and closures_, then the write that      *)
(* depends on it.  The steps of CallMethod take no lock and may come       *)
(* between.                                                                *)
(***************************************************************************)
DropReply(m) ==
  /\ processing = Null
  /\ m.seq \notin requests
  /\ replies' = replies \ {m}
  /\ UNCHANGED <<clientVars, channelVars, wire, served, strays>>

\* Mutant: requests_.erase is missing.
LookupRequestKept(m) ==
  /\ processing = Null
  /\ m.seq \in requests
  /\ replies' = replies \ {m}
  /\ processing' = [msg |-> m, async |-> closures[m.seq] # Null]
  /\ UNCHANGED <<clientVars, conn, checked, sequence_id, requests, responses,
                 closures, callbacks, crash, wire, served, strays>>

LookupRequest(m) ==
  /\ processing = Null
  /\ m.seq \in requests
  /\ replies' = replies \ {m}
  /\ requests' = requests \ {m.seq}
  /\ processing' = [msg |-> m, async |-> closures[m.seq] # Null]
  /\ UNCHANGED <<clientVars, conn, checked, sequence_id, responses, closures,
                 callbacks, crash, wire, served, strays>>

StoreReply ==
  /\ processing # Null
  /\ ~processing.async
  /\ responses' = [responses EXCEPT ![processing.msg.seq] =
                     [object |-> "reply", of |-> processing.msg.data]]
  /\ processing' = Null
  /\ UNCHANGED <<clientVars, conn, checked, sequence_id, requests, closures,
                 callbacks, crash, networkVars>>

CopyReply ==
  /\ processing # Null
  /\ processing.async
  /\ LET s == processing.msg.seq IN
       \* responses_[s] makes a NULL entry where there is none
       IF responses[s] = Null
         THEN /\ crash' = "null"
              /\ UNCHANGED <<response, callbacks>>
         ELSE /\ response' = [response EXCEPT ![responses[s].of] =
                                processing.msg.data]
              /\ callbacks' = Append(callbacks, s)
              /\ UNCHANGED crash
  /\ processing' = Null
  /\ UNCHANGED <<clientMutex, stub, pc, retry, seqOf, controller, expired,
                 outcome, conn, checked, sequence_id, mapVars, networkVars>>

\* Mutant: a callback that has timed out is dropped.
ProcessCallbackDropped ==
  /\ callbacks # <<>>
  /\ callbacks' = Tail(callbacks)
  /\ LET c == closures[Head(callbacks)] IN
       IF expired[c]
         THEN UNCHANGED <<controller, outcome>>
         ELSE /\ controller' = [controller EXCEPT ![c] = "deleted"]
              /\ outcome' = [outcome EXCEPT ![c] = "ok"]
  /\ UNCHANGED <<clientMutex, stub, pc, retry, seqOf, expired, response,
                 conn, checked, sequence_id, mapVars, processing, crash,
                 networkVars>>

(***************************************************************************)
(* ProcessCallback and the RpcCallback it runs, which deletes the          *)
(* controller; the closure deletes itself.  closures_ keeps both pointers. *)
(***************************************************************************)
ProcessCallback ==
  /\ callbacks # <<>>
  /\ callbacks' = Tail(callbacks)
  /\ LET c == closures[Head(callbacks)] IN
       IF controller[c] = "deleted"
         THEN /\ crash' = "deleted"
              /\ UNCHANGED <<controller, outcome>>
         ELSE /\ controller' = [controller EXCEPT ![c] = "deleted"]
              /\ outcome' = [outcome EXCEPT ![c] =
                               IF expired[c] \/ controller[c] = "failed"
                                 THEN "failed" ELSE "ok"]
              /\ UNCHANGED crash
  /\ UNCHANGED <<clientMutex, stub, pc, retry, seqOf, expired, response,
                 conn, checked, sequence_id, mapVars, processing, networkVars>>

-----------------------------------------------------------------------------
(***************************************************************************)
(* The proxy and the servers, as this channel sees them: a request is      *)
(* executed and answered once, or nobody answers it (no such server, no    *)
(* such method), and replies reach the threads of process_pool_ in any     *)
(* order.                                                                  *)
(***************************************************************************)
Serve(m) ==
  /\ wire' = wire \ {m}
  /\ served' = served \union {m.data}
  /\ replies' = replies \union {m}
  /\ UNCHANGED <<clientVars, channelVars, strays>>

Ignore(m) ==
  /\ Lossy
  /\ wire' = wire \ {m}
  /\ UNCHANGED <<clientVars, channelVars, served, strays, replies>>

\* A foreign message reaches process_pool_, if it ever does.
StrayReply(m) ==
  /\ conn = "up"
  /\ strays' = strays \ {m}
  /\ replies' = replies \union {m}
  /\ UNCHANGED <<clientVars, channelVars, wire, served>>

-----------------------------------------------------------------------------
CallMethod(c) ==
  \/ GetSequenceId(c) \/ Send(c) \/ Register(c)
  \/ PollDeadline(c) \/ FindNothing(c) \/ FindResponse(c) \/ AttemptTimeout(c)
  \/ StoreClosure(c) \/ StoreResponse(c)

Caller(c) ==
  \/ c \in SyncCalls /\ SendRequest(c)
  \/ c \in AsyncCalls /\ AsyncRequest(c)
  \/ NextAttempt(c) \/ NoMoreAttempts(c)
  \/ CallMethod(c)

ProcessMessage ==
  \/ \E m \in replies : DropReply(m) \/ LookupRequest(m)
  \/ StoreReply \/ CopyReply

Connection == GetStub \/ GetStubReturn \/ Connected \/ MetaEchoed

Peer == \E m \in wire : Serve(m)

Next ==
  /\ crash = "no"
  /\ \/ \E c \in Calls : Caller(c) \/ Expire(c)
     \/ ProcessMessage
     \/ ProcessCallback
     \/ Connection
     \/ Disconnected
     \/ Peer
     \/ \E m \in wire : Ignore(m)
     \/ \E m \in strays : StrayReply(m)

Spec == Init /\ [][Next]_vars

(***************************************************************************)
(* Every thread is scheduled, the clock advances, and the peer serves what *)
(* it receives.  Nothing obliges the application to make a call.           *)
(***************************************************************************)
Alive(A) == crash = "no" /\ A

FairSpec ==
  /\ Spec
  /\ WF_vars(Alive(Connection))
  /\ \A c \in Calls :
       /\ WF_vars(Alive(NextAttempt(c) \/ NoMoreAttempts(c) \/ CallMethod(c)))
       /\ WF_vars(Alive(Expire(c)))
  /\ WF_vars(Alive(ProcessMessage))
  /\ WF_vars(Alive(ProcessCallback))
  /\ WF_vars(Alive(Peer))

-----------------------------------------------------------------------------
TypeOK ==
  /\ clientMutex \in Calls \union {"GetStub", Null}
  /\ stub \in {"none", "waiting", "ok", "failed"}
  /\ pc \in [Calls -> {"idle", "loop", "call", "send", "register", "poll",
                       "find", "closure", "response", "returned"}]
  /\ retry \in [Calls -> 0 .. RetryTimes]
  /\ seqOf \in [Calls -> SeqIds]
  /\ controller \in [Calls -> {"none", "live", "failed", "deleted"}]
  /\ expired \in [Calls -> BOOLEAN]
  /\ response \in [Calls -> Data \union {Null}]
  /\ outcome \in [Calls -> {"none", "ok", "failed"}]
  /\ conn \in {"none", "up", "down"}
  /\ checked \in BOOLEAN
  /\ sequence_id \in 0 .. MaxSeq
  /\ requests \subseteq SeqIds
  /\ responses \in [SeqIds -> Slot \union {Null}]
  /\ closures \in [SeqIds -> Calls \union {Null}]
  /\ processing \in [msg : Message, async : BOOLEAN] \union {Null}
  /\ callbacks \in Seq(SeqIds)
  /\ crash \in {"no", "null", "deleted", "unconnected", "race"}
  /\ wire \subseteq Request
  /\ served \subseteq Calls
  /\ strays \subseteq Foreign
  /\ replies \subseteq Message

(***************************************************************************)
(* A caller finds in its response object the answer to its own request or  *)
(* nothing, and is told of success only if a server executed the request,  *)
(* unless a foreign message had just the sequence id of its call: nothing  *)
(* ProcessMessage looks at tells that one from a reply.  That no other way *)
(* leads to a wrong answer takes the increments of sequence_id_ staying    *)
(* inside the client's mutex_, the maps being keyed by that id throughout, *)
(* and requests_.erase.                                                    *)
(***************************************************************************)
Misled(c) ==
  \E m \in Foreign \ strays : m.seq = seqOf[c] /\ m.data = response[c]

OwnReply ==
  \A c \in Calls :
    /\ response[c] \in {Null, c} \/ Misled(c)
    /\ outcome[c] = "ok" =>
         (response[c] = c /\ c \in served) \/ Misled(c)

(***************************************************************************)
(* However many replies carry the id of an asynchronous call, ProcessMes-  *)
(* sage queues its callback once: what ProcessCallback dereferences has    *)
(* not been deleted.  requests_.erase before the queueing ensures it.      *)
(***************************************************************************)
CallbackOnce ==
  \A i \in 1 .. Len(callbacks) :
    /\ closures[callbacks[i]] # Null
    /\ controller[closures[callbacks[i]]] # "deleted"
    /\ \A j \in 1 .. Len(callbacks) : callbacks[i] = callbacks[j] => i = j

(***************************************************************************)
(* Two calls that both wait for a reply never wait for the same id, though *)
(* sequence_id_mutex_ is never taken.                                      *)
(***************************************************************************)
Waiting(c) ==
  \/ pc[c] \in {"register", "poll", "find", "closure", "response"}
  \/ c \in AsyncCalls /\ pc[c] = "returned" /\ outcome[c] = "none"

SequenceIdsUnique ==
  \A c, d \in Calls : Waiting(c) /\ Waiting(d) /\ seqOf[c] = seqOf[d] => c = d

(***************************************************************************)
(* The only way to a NULL response is a reply that is processed while      *)
(* CallMethod is between its writes of closures_ and of responses_, and    *)
(* the only way to the empty connection is a stub that GetStub handed out  *)
(* although it returned false.                                             *)
(***************************************************************************)
CrashOnlyInWindow ==
  /\ crash = "null" => \E c \in AsyncCalls : pc[c] = "response"
  /\ crash = "unconnected" => stub = "failed"

(***************************************************************************)
(* SendRequest returns, whatever becomes of its requests and the replies:  *)
(* each attempt ends at the deadline at the latest, and the thread that    *)
(* holds the channel's mutex_ needs nothing the caller has.                *)
(***************************************************************************)
SyncReturns ==
  \A c \in SyncCalls :
    pc[c] # "idle" ~> pc[c] = "returned" \/ crash # "no"

(***************************************************************************)
(* If the reply of an asynchronous call arrives after AsyncRequest has     *)
(* returned, its callback is run, in time or with the failed flag: nothing *)
(* on the way from process_pool_ to callback_pool_ loses it.               *)
(***************************************************************************)
AnsweredIsReported ==
  \A c \in AsyncCalls :
    (pc[c] = "returned" /\ \E m \in replies : m.data = c /\ m.seq \in requests)
      ~> outcome[c] # "none" \/ crash # "no"

(***************************************************************************)
(* What the promise of a callback with a failed flag amounts to: every     *)
(* asynchronous call is reported to its callback sooner or later.          *)
(***************************************************************************)
AsyncReported ==
  \A c \in AsyncCalls :
    pc[c] = "returned" ~> outcome[c] # "none" \/ crash # "no"

(***************************************************************************)
(* What a retry is for: an attempt that is made again can still succeed.   *)
(***************************************************************************)
RetryCanSucceed ==
  \A c \in SyncCalls :
    pc[c] = "loop" /\ retry[c] \in 1 .. (RetryTimes - 1)
      => controller[c] # "failed" /\ ~expired[c]

(***************************************************************************)
(* The client implements the abstract calls of RpcCalls: no outcome is     *)
(* revised, none is executed that was not made, and a call succeeds that   *)
(* no server executed only with a foreign message, which serves one call.  *)
(***************************************************************************)
Status ==
  [c \in Calls |->
     IF pc[c] = "idle" THEN "idle"
     ELSE IF outcome[c] = "none" THEN "open" ELSE outcome[c]]

\* The foreign messages that calls have succeeded with.
Spent ==
  {m \in Foreign : \E c \in Calls : /\ outcome[c] = "ok"
                                   /\ response[c] = m.data
                                   /\ seqOf[c] = m.seq}

Abstract ==
  INSTANCE RpcCalls WITH status <- Status, executed <- served, spent <- Spent

ImplementsCalls == Abstract!Spec
=============================================================================
