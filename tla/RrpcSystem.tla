------------------------------ MODULE RrpcSystem ------------------------------
(***************************************************************************)
(* Clients, the proxy and servers together, at the level of messages.      *)
(*                                                                         *)
(* The proxy is the MessageRouter that RpcProxy implements.  A server runs *)
(* one service at a time, as RpcPbServer does, and a channel handles a     *)
(* reply in a single step, and a call in two or three, for a reply may     *)
(* come between; RpcChannel and ChannelConnection have the threads.        *)
(*                                                                         *)
(* What has arrived may still be missed: the parser of a server or channel *)
(* overwrites what is appended to buff meanwhile, the echo is cleared with *)
(* what follows it, and a parser that finds its stage_ to be neither value *)
(* never returns.  At a server, the header of one missed request may so be *)
(* joined to the body of another.  And a channel's parser may make up an   *)
(* empty message with sequence id 0.                                       *)
(*                                                                         *)
(* A channel is one client's channel to one server id: the client, which   *)
(* its id stands for, announces that id on all its channels, and each      *)
(* channel numbers its requests from 0.  A server that was started again   *)
(* is another connection with the same id; until the proxy finds the first *)
(* one lost, it may forward to either.                                     *)
(***************************************************************************)
EXTENDS Integers, FiniteSets

CONSTANTS
  SyncCalls,   \* calls made with SendRequest
  AsyncCalls,  \* calls made with AsyncRequest
  Via,         \* the channel of each call
  Channels,
  Servers,     \* the servers' connections
  Announces,   \* the id that each channel's client, and each server announces
  Target,      \* the rpc_dst_id_ of each channel
  RetryTimes,  \* the retry_times of SendRequest
  MaxSeq,      \* bound: sequence ids 0 .. MaxSeq-1
  Breaking,    \* bound: the connections that may be lost, or their server's
               \* process end
  Missing,     \* bound: the connections where what arrives may be missed
  Ignoring,    \* bound: the servers where a request may meet no service
  MakingUp,    \* bound: the channels whose parser may make up a message
  Empty,       \* the body of such a message
  Null         \* no connection, no call, no reply

Calls  == SyncCalls \union AsyncCalls
Conns  == Channels \union Servers
SeqIds == 0 .. (MaxSeq - 1)

(***************************************************************************)
(* The messages, as MessageRouter has them: a request is numbered by its   *)
(* channel.  A server takes the sender from a header and the meta from a   *)
(* body, and replies to the one with the other.                            *)
(***************************************************************************)
Request(ch, s) == [via |-> ch, dst |-> Target[ch], n |-> s]
Requests       == {Request(ch, s) : ch \in Channels, s \in SeqIds}

Parsed == [from : Requests, of : Requests]

Whole(q) == [from |-> q, of |-> q]

\* Mutant: src_id and dst_id are not swapped.
ReplyUnswapped(s, m) == [via |-> s, dst |-> Announces[s], n |-> m.of]

Reply(s, m) == [via |-> s, dst |-> Announces[m.from.via], n |-> m.of]

ParsedBy(s) ==
  {m \in Parsed : m.from.dst = Announces[s] /\ m.of.dst = Announces[s]}

Replies  == UNION {{Reply(s, m) : m \in ParsedBy(s)} : s \in Servers}
Messages == Requests \union Replies

\* What a channel's parser makes up.
MadeUp(ch) == [via |-> ch, dst |-> Announces[ch], n |-> Empty]
MadeUps    == {MadeUp(ch) : ch \in MakingUp}

ASSUME SystemAssumption ==
  /\ SyncCalls \intersect AsyncCalls = {}
  /\ Channels \intersect Servers = {}
  /\ Via \in [Calls -> Channels]
  /\ Announces \in [Conns -> Int]
  /\ \A ch \in Channels : Announces[ch] < 0
  /\ \A s \in Servers : Announces[s] > 0
  /\ Target \in [Channels -> Int]
  /\ \A ch \in Channels : Target[ch] > 0
  /\ RetryTimes \in Nat \ {0}
  /\ MaxSeq \in Nat \ {0}
  /\ Breaking \subseteq Conns
  /\ Missing \subseteq Conns
  /\ Ignoring \subseteq Servers
  /\ MakingUp \subseteq Channels
  /\ Null \notin Conns \union Calls
  /\ Null \notin Replies \union MadeUps

VARIABLES
  \* The applications
  status,       \* of each call; "calling" until it is in requests_, then
                \* "registering" until closures_ and responses_ have it;
                \* "late" while SendRequest retries in vain
  attempts,     \* how many requests SendRequest has made of each call
  answer,       \* the message each call was answered with
  \* The channels
  sequence_id, requests,
  callOf,       \* the call that each sequence id was given to
  \* The proxy
  link,         \* each connection, as the proxy knows it
  fate, receiver,
  \* The processes
  dead,         \* the connections whose process is gone
  missed,       \* what has arrived in vain
  executed,     \* what the services of each server have been run with
  processed,    \* what each server's ProcessMessage is done with
  taken         \* what the channels' ProcessMessage is done with

callVars    == <<status, attempts, answer>>
channelVars == <<sequence_id, requests, callOf>>
proxyVars   == <<link, fate, receiver>>
serverVars  == <<executed, processed>>
vars        == <<callVars, channelVars, proxyVars, serverVars, dead, missed,
                 taken>>

Router == INSTANCE MessageRouter

Init ==
  /\ status = [c \in Calls |-> "idle"]
  /\ attempts = [c \in Calls |-> 0]
  /\ answer = [c \in Calls |-> Null]
  /\ sequence_id = [ch \in Channels |-> 0]
  /\ requests = [ch \in Channels |-> {}]
  /\ callOf = [ch \in Channels |-> [s \in SeqIds |-> Null]]
  /\ link = [c \in Conns |-> IF c \in Channels THEN "up" ELSE "none"]
  /\ Router!Init
  /\ dead = {}
  /\ missed = {}
  /\ executed = [s \in Servers |-> {}]
  /\ processed = [s \in Servers |-> {}]
  /\ taken = {}

-----------------------------------------------------------------------------
(***************************************************************************)
(* The connections.  The applications have waited for GetStub; the servers *)
(* start, or are started again, at any time.  A lost connection is not     *)
(* made again.                                                             *)
(***************************************************************************)
Connect(s) ==
  /\ link[s] = "none"
  /\ link' = [link EXCEPT ![s] = "up"]
  /\ UNCHANGED <<callVars, channelVars, fate, receiver, serverVars, dead,
                 missed, taken>>

LoseConnection(c) ==
  /\ c \in Breaking \union dead
  /\ link[c] = "up"
  /\ link' = [link EXCEPT ![c] = "down"]
  /\ Router!Lose(c)
  /\ UNCHANGED <<callVars, channelVars, serverVars, dead, missed, taken>>

Crash(s) ==
  /\ s \in Breaking
  /\ link[s] # "none"
  /\ s \notin dead
  /\ dead' = dead \union {s}
  /\ UNCHANGED <<callVars, channelVars, proxyVars, serverVars, missed, taken>>

-----------------------------------------------------------------------------
(***************************************************************************)
(* The calls, under their client's mutex_, which SendRequest holds until   *)
(* it returns and AsyncRequest until the call is registered.  Every        *)
(* attempt takes a sequence id and sends a request.                        *)
(***************************************************************************)
ClientBusy(ch) ==
  \E d \in Calls :
    /\ Announces[Via[d]] = Announces[ch]
    /\ status[d] \in IF d \in SyncCalls THEN {"calling", "open", "late"}
                                        ELSE {"calling", "registering"}

Send(c) ==
  LET ch == Via[c]
      s  == sequence_id[ch]
  IN /\ ch \notin dead
     /\ s < MaxSeq
     /\ sequence_id' = [sequence_id EXCEPT ![ch] = s + 1]
     /\ callOf' = [callOf EXCEPT ![ch][s] = c]
     /\ IF link[ch] = "up"
          THEN Router!Send(Request(ch, s))
          ELSE UNCHANGED <<fate, receiver>>
     /\ attempts' = [attempts EXCEPT ![c] = @ + 1]

\* SendRequest or AsyncRequest.
Call(c) ==
  /\ status[c] = "idle"
  /\ ~ClientBusy(Via[c])
  /\ status' = [status EXCEPT ![c] = "calling"]
  /\ Send(c)
  /\ UNCHANGED <<answer, requests, link, serverVars, dead, missed, taken>>

\* The call is in requests_.  A reply that has come before answers nothing.
Register(c) ==
  /\ status[c] = "calling"
  /\ Via[c] \notin dead
  /\ status' = [status EXCEPT ![c] = IF c \in SyncCalls THEN "open"
                                                        ELSE "registering"]
  /\ requests' =
       [requests EXCEPT ![Via[c]] = @ \union {sequence_id[Via[c]] - 1}]
  /\ UNCHANGED <<attempts, answer, sequence_id, callOf, proxyVars, serverVars,
                 dead, missed, taken>>

\* An AsyncRequest is in closures_ and responses_.
StoreClosure(c) ==
  /\ status[c] = "registering"
  /\ Via[c] \notin dead
  /\ status' = [status EXCEPT ![c] = "open"]
  /\ UNCHANGED <<attempts, answer, channelVars, proxyVars, serverVars, dead,
                 missed, taken>>

\* The deadline, which is the same for every attempt.
Timeout(c) ==
  /\ c \in SyncCalls
  /\ status[c] = "open"
  /\ status' = [status EXCEPT ![c] = "late"]
  /\ UNCHANGED <<attempts, answer, channelVars, proxyVars, serverVars, dead,
                 missed, taken>>

\* Mutant: retry <= retry_times.
AttemptLeftTooMany(c) == attempts[c] <= RetryTimes

AttemptLeft(c) == attempts[c] < RetryTimes

\* Nothing that is registered now is waited for.
Retry(c) ==
  /\ status[c] = "late"
  /\ AttemptLeft(c)
  /\ Send(c)
  /\ requests' = [requests EXCEPT ![Via[c]] = @ \union {sequence_id[Via[c]]}]
  /\ UNCHANGED <<status, answer, link, serverVars, dead, missed, taken>>

Return(c, result) ==
  /\ status[c] = "late"
  /\ ~AttemptLeft(c)
  /\ Via[c] \notin dead
  /\ status' = [status EXCEPT ![c] = result]
  /\ UNCHANGED <<attempts, answer, channelVars, proxyVars, serverVars, dead,
                 missed, taken>>

\* Mutant: SendRequest returns true.
GiveUpTrue(c) == Return(c, "ok")

GiveUp(c) == Return(c, "failed")

-----------------------------------------------------------------------------
(***************************************************************************)
(* The proxy forwards a message to a connection with its dst_id, or drops  *)
(* it: there may be none, or find may miss it.                             *)
(***************************************************************************)
\* Mutant: find is lower_bound.
GetLowerBound(id) == {c \in Conns : link[c] = "up" /\ Announces[c] >= id}

Get(id) == {c \in Conns : link[c] = "up" /\ Announces[c] = id}

Forward(m) ==
  /\ fate[m] = "sent"
  /\ fate' = [fate EXCEPT ![m] = "delivered"]
  /\ \E c \in Get(m.dst) : receiver' = [receiver EXCEPT ![m] = c]
  /\ UNCHANGED <<callVars, channelVars, link, serverVars, dead, missed, taken>>

Drop(m) ==
  /\ Router!Drop(m)
  /\ UNCHANGED <<callVars, channelVars, link, serverVars, dead, missed, taken>>

-----------------------------------------------------------------------------
\* What has arrived at a connection.
Arrived(m, c) == fate[m] = "delivered" /\ receiver[m] = c

\* The requests that a server has something of.
Used(s) == UNION {{m.from, m.of} : m \in executed[s] \union processed[s]}

\* A message that has arrived is overwritten in buff, cleared with the echo, or
\* never parsed.
Miss(m) ==
  /\ fate[m] = "delivered"
  /\ receiver[m] \in Missing
  /\ m \notin taken
  /\ receiver[m] \in Servers => m \notin Used(receiver[m])
  /\ missed' = missed \union {m}
  /\ UNCHANGED <<callVars, channelVars, proxyVars, serverVars, dead, taken>>

(***************************************************************************)
(* The servers: ProcessMessage runs the service, then sends the response,  *)
(* or finds no service for the method.                                     *)
(***************************************************************************)
\* A message that ProcessMessage may be called with.
Parseable(s, m) ==
  /\ s \notin dead
  /\ Arrived(m.from, s) /\ Arrived(m.of, s)
  /\ {m.from, m.of} \intersect Used(s) = {}
  /\ IF m.from = m.of THEN m.of \notin missed ELSE {m.from, m.of} \subseteq missed
  /\ executed[s] \subseteq processed[s]

RunService(s, m) ==
  /\ Parseable(s, m)
  /\ executed' = [executed EXCEPT ![s] = @ \union {m}]
  /\ UNCHANGED <<callVars, channelVars, proxyVars, processed, dead, missed,
                 taken>>

IgnoreMessage(s, m) ==
  /\ s \in Ignoring
  /\ Parseable(s, m)
  /\ processed' = [processed EXCEPT ![s] = @ \union {m}]
  /\ UNCHANGED <<callVars, channelVars, proxyVars, executed, dead, missed,
                 taken>>

SendResponse(s, m) ==
  /\ s \notin dead
  /\ m \in executed[s] \ processed[s]
  /\ processed' = [processed EXCEPT ![s] = @ \union {m}]
  /\ IF link[s] = "up"
       THEN Router!Send(Reply(s, m))
       ELSE UNCHANGED <<fate, receiver>>
  /\ UNCHANGED <<callVars, channelVars, link, executed, dead, missed, taken>>

(***************************************************************************)
(* The channel: ProcessMessage finds the request by the sequence id alone. *)
(* A reply that SendRequest no longer waits for is kept for nobody; the    *)
(* callback of an AsyncRequest is told if its deadline has passed.  Before *)
(* closures_ has the call, the answer is kept as that of a SendRequest,    *)
(* and the callback never runs; before responses_ has it, the client dies. *)
(***************************************************************************)
Answer(ch, s, r) ==
  LET c       == callOf[ch][s]
      Found   == s \in requests[ch]
      Process == {d \in Channels : Announces[d] = Announces[ch]}
  IN /\ ch \notin dead
     /\ r \notin taken
     /\ taken' = taken \union {r}
     /\ requests' = [requests EXCEPT ![ch] = @ \ {s}]
     /\ IF Found /\ status[c] = "open"
          THEN /\ answer' = [answer EXCEPT ![c] = r]
               /\ \E told \in IF c \in AsyncCalls THEN {"ok", "failed"}
                                                  ELSE {"ok"} :
                    status' = [status EXCEPT ![c] = told]
          ELSE UNCHANGED <<answer, status>>
     /\ IF Found /\ status[c] = "registering"
          THEN dead' \in {dead, dead \union Process}
          ELSE UNCHANGED dead
     /\ UNCHANGED <<attempts, sequence_id, callOf, proxyVars, serverVars,
                    missed>>

ProcessReply(ch, r) ==
  /\ Arrived(r, ch)
  /\ r \notin missed
  /\ Answer(ch, r.n.n, r)

ProcessMadeUp(ch) == Answer(ch, 0, MadeUp(ch))

-----------------------------------------------------------------------------
Proxy ==
  \E m \in {n \in Messages : fate[n] = "sent"} : Drop(m) \/ Forward(m)

\* The requests that are there for ProcessMessage.
Pending(s) == {q \in Requests : Arrived(q, s)}

Serve ==
  \E s \in Servers :
    \/ \E q \in Pending(s) : RunService(s, Whole(q)) \/ IgnoreMessage(s, Whole(q))
    \/ \E m \in executed[s] \ processed[s] : SendResponse(s, m)

ServeJoined ==
  \E s \in Servers : \E p, q \in Pending(s) \intersect missed :
    LET m == [from |-> p, of |-> q]
    IN p # q /\ (RunService(s, m) \/ IgnoreMessage(s, m))

ProcessMessage ==
  \E r \in {m \in Replies : receiver[m] \in Channels} :
    ProcessReply(receiver[r], r)

Next ==
  \/ \E c \in Conns : LoseConnection(c)
  \/ \E s \in Servers : Connect(s) \/ Crash(s)
  \/ \E c \in Calls : \/ Call(c) \/ Register(c) \/ StoreClosure(c)
                       \/ Timeout(c) \/ Retry(c) \/ GiveUp(c)
  \/ Proxy
  \/ \E m \in {n \in Messages : fate[n] = "delivered"} : Miss(m)
  \/ Serve
  \/ ServeJoined
  \/ ProcessMessage
  \/ \E ch \in MakingUp : ProcessMadeUp(ch)

Spec == Init /\ [][Next]_vars

(***************************************************************************)
(* The system does not rest while the proxy has something to forward or    *)
(* drop, a server to serve, a channel to process, or a call is not         *)
(* registered.  No deadline has to pass.                                   *)
(***************************************************************************)
Progress ==
  \/ Proxy \/ Serve \/ ProcessMessage
  \/ \E c \in Calls : Register(c) \/ StoreClosure(c)

FairSpec == Spec /\ WF_vars(Progress)

-----------------------------------------------------------------------------
TypeOK ==
  /\ status \in [Calls -> {"idle", "calling", "registering", "open", "late",
                           "ok", "failed"}]
  /\ attempts \in [Calls -> 0 .. RetryTimes]
  /\ answer \in [Calls -> Replies \union MadeUps \union {Null}]
  /\ sequence_id \in [Channels -> 0 .. MaxSeq]
  /\ requests \in [Channels -> SUBSET SeqIds]
  /\ callOf \in [Channels -> [SeqIds -> Calls \union {Null}]]
  /\ link \in [Conns -> {"none", "up", "down"}]
  /\ fate \in [Messages -> {"new", "sent", "delivered", "dropped", "lost"}]
  /\ receiver \in [Messages -> Conns \union {Null}]
  /\ dead \subseteq Conns
  /\ missed \subseteq Messages
  /\ executed \in [Servers -> SUBSET Parsed]
  /\ processed \in [Servers -> SUBSET Parsed]
  /\ taken \subseteq Replies \union MadeUps

\* The other channels that announce the same id.
Siblings(ch) == {d \in Channels \ {ch} : Announces[d] = Announces[ch]}

LonelyCalls == {c \in Calls : Siblings(Via[c]) = {}}

\* The calls whose requests a server has executed.
ExecutedCalls ==
  {callOf[m.of.via][m.of.n] : m \in UNION {executed[s] : s \in Servers}}

(***************************************************************************)
(* What a call is answered with is the reply to its own request, which a   *)
(* server has executed; or there is a cause: the parser of its channel     *)
(* made the message up, and its sequence id is 0; or a server has executed *)
(* a request with the same sequence id that a channel of the same client   *)
(* made, or that it found behind the header of such a request when it had  *)
(* missed the rest of both.  A retry, a restarted server, a late reply or  *)
(* the loss of one message never brings about another mix-up.              *)
(***************************************************************************)
HasCause(c, r) ==
  \/ r = MadeUp(Via[c]) /\ callOf[Via[c]][0] = c
  \/ /\ r \in Replies
     /\ callOf[Via[c]][r.n.n] = c
     /\ \E m \in executed[r.via] :
          /\ m.of = r.n
          /\ Announces[m.from.via] = Announces[Via[c]]
          /\ m.from = m.of \/ {m.from, m.of} \subseteq missed

AnswerHasCause ==
  \A c \in Calls : answer[c] # Null => HasCause(c, answer[c])

(***************************************************************************)
(* A call is executed as often as SendRequest may attempt it, and no more: *)
(* by the server that was started again or by the one before it, but a     *)
(* request by only one of them, and only once, whatever is joined to it.   *)
(***************************************************************************)
Executions(c) ==
  {e \in Servers \X Parsed :
     e[2] \in executed[e[1]] /\ callOf[e[2].of.via][e[2].of.n] = c}

ExecutedPerAttempt ==
  \A c \in Calls :
    Cardinality(Executions(c)) <= IF c \in SyncCalls THEN RetryTimes ELSE 1

(***************************************************************************)
(* What a channel that is the only one with its client's id has sent comes *)
(* back to it as a reply, unless that very request or reply has failed on  *)
(* its way: the reply finds the way by the ids its request came with, past *)
(* whatever becomes of the others.                                         *)
(***************************************************************************)
Returned(q) == \E r \in taken : r.n = q /\ receiver[r] = q.via

Failed(q) ==
  \/ fate[q] \in {"dropped", "lost"}
  \/ q \in missed
  \/ q.via \in dead
  \/ \E s \in Servers :
       /\ receiver[q] = s
       /\ \/ s \in dead
          \/ Whole(q) \in processed[s] \ executed[s]
          \/ /\ Whole(q) \in processed[s]
             /\ LET r == Reply(s, Whole(q)) IN
                  r \in missed \/ fate[r] \in {"new", "dropped", "lost"}

RepliesReturn ==
  \A q \in {p \in Requests : Siblings(p.via) = {}} :
    fate[q] = "sent" ~> Returned(q) \/ Failed(q)

(***************************************************************************)
(* For the calls on such channels the system implements RpcCalls, whatever *)
(* fails and however many other channels there are: without execution they *)
(* succeed only with a message that was made up, or with a reply that the  *)
(* server sent to another client than the one that made the request.       *)
(***************************************************************************)
Status ==
  [c \in LonelyCalls |->
     IF status[c] \in {"calling", "registering", "late"} THEN "open"
                                                        ELSE status[c]]

Misaddressed == MadeUps \union {r \in Replies : r.dst # Announces[r.n.via]}

Spent == {answer[c] : c \in {d \in LonelyCalls : status[d] = "ok"}}
           \intersect Misaddressed

Abstract == INSTANCE RpcCalls WITH
  Calls <- LonelyCalls,
  Foreign <- Misaddressed,
  status <- Status,
  executed <- ExecutedCalls \intersect LonelyCalls,
  spent <- Spent

ImplementsCalls == Abstract!Spec
=============================================================================
