----------------------------- MODULE RpcPbServer -----------------------------
(***************************************************************************)
(* A server: RpcPbServer (pb_server.h, pb_server.cc) with its RpcServer    *)
(* and ServiceContext (server.h, context.h).  Its connection's parser is   *)
(* that of RpcPbMessageParser, whose Messages are the requests the proxy   *)
(* may send.                                                               *)
(*                                                                         *)
(* OnMessage appends to buff under the server's mutex_, which a thread of  *)
(* process_pool_ holds as long as the service runs.                        *)
(***************************************************************************)
EXTENDS RpcPbMessageParser

CONSTANT Known  \* the requests whose method the registered service has

ASSUME KnownAssumption == Known \subseteq Messages

VARIABLES
  \* The connection to the proxy
  conn,        \* rpc_conn_->conn
  sent,        \* the requests the proxy has sent
  wire,        \* what has been sent and not read
  \* The RpcPbServer
  registered,  \* RegisterService was called
  loop,        \* what OnMessage has read, while it waits for mutex_
  parses,      \* the tasks of parse_pool_
  running,     \* the message whose service runs, under mutex_
  \* What has happened
  executed, ignored,
  replies      \* the messages answered

connVars   == <<conn, sent, wire, registered, loop>>
traceVars  == <<executed, ignored, replies>>
serverVars == <<connVars, parses, running, traceVars>>
vars       == <<streamVars, serverVars>>

Init ==
  /\ ParserInit
  /\ conn = "none" /\ sent = {} /\ wire = <<>>
  /\ registered = FALSE
  /\ loop = <<>>
  /\ parses = 0 /\ running = Null
  /\ executed = {} /\ ignored = {} /\ replies = {}

-----------------------------------------------------------------------------
(***************************************************************************)
(* The proxy, the event loop and the application.  OnConnection clears     *)
(* buff when the connection is made and when it is lost, under no lock.    *)
(***************************************************************************)
ChangeBuff(new) ==
  /\ buff' = new
  /\ Race(FALSE)
  /\ UNCHANGED <<parserVars, parse, taskVars, lost>>

Forward(m) ==
  /\ conn = "up"
  /\ m \notin sent
  /\ sent' = sent \union {m}
  /\ wire' = wire \o <<Header(m), Body(m)>>
  /\ UNCHANGED <<streamVars, conn, registered, loop, parses, running, traceVars>>

OnConnection ==
  /\ conn = "none"
  /\ conn' = "up"
  /\ ChangeBuff(<<>>)
  /\ UNCHANGED <<sent, wire, registered, loop, parses, running, traceVars>>

OnLostConnection ==
  /\ conn = "up"
  /\ loop = <<>>
  /\ conn' = "down"
  /\ wire' = <<>>
  /\ ChangeBuff(<<>>)
  /\ UNCHANGED <<sent, registered, loop, parses, running, traceVars>>

OnMessage ==
  /\ conn = "up"
  /\ loop = <<>>
  /\ \E n \in 1 .. Len(wire) :
       /\ loop' = SubSeq(wire, 1, n)
       /\ wire' = SubSeq(wire, n + 1, Len(wire))
  /\ UNCHANGED <<streamVars, conn, sent, registered, parses, running, traceVars>>

\* OnMessage goes on once it has mutex_.
AppendData ==
  /\ loop # <<>>
  /\ running = Null
  /\ ChangeBuff(buff \o loop)
  /\ loop' = <<>>
  /\ parses' = parses + 1
  /\ UNCHANGED <<conn, sent, wire, registered, running, traceVars>>

RegisterService ==
  /\ ~registered
  /\ registered' = TRUE
  /\ UNCHANGED <<streamVars, conn, sent, wire, loop, parses, running, traceVars>>

-----------------------------------------------------------------------------
(***************************************************************************)
(* ParseMessage, on the threads of parse_pool_.                            *)
(***************************************************************************)
\* Mutant: a spurious wakeup is not a task.
TaskTakenSpurious == parses' = parses - 1

TaskTaken ==
  /\ parses > 0
  /\ parses' = parses - 1

ParseMessage ==
  \/ ParseBegins /\ TaskTaken /\ UNCHANGED <<connVars, running, traceVars>>
  \/ (Parse \/ GetMessages) /\ UNCHANGED serverVars

(***************************************************************************)
(* ProcessMessage, under mutex_: the service and the method are looked up, *)
(* the service runs, and the response is sent.                             *)
(***************************************************************************)
Retrieved(m) == registered /\ m.of \in Known

ProcessTask(m) ==
  /\ BagIn(m, process)
  /\ process' = BagRemove(process, m)
  /\ UNCHANGED <<buff, parserVars, parse, taking, lost, crash, connVars, parses>>

IgnoreMessage(m) ==
  /\ running = Null
  /\ ProcessTask(m)
  /\ ~Retrieved(m)
  /\ ignored' = ignored \union {m.of}
  /\ UNCHANGED <<running, executed, replies>>

\* Mutant: without MutexLock lock(&mutex_).
RunServiceUnlocked(m) ==
  /\ ProcessTask(m)
  /\ Retrieved(m)
  /\ running' = m
  /\ executed' = executed \union {m.of}
  /\ UNCHANGED <<ignored, replies>>

RunService(m) ==
  /\ running = Null
  /\ ProcessTask(m)
  /\ Retrieved(m)
  /\ running' = m
  /\ executed' = executed \union {m.of}
  /\ UNCHANGED <<ignored, replies>>

SendResponse ==
  /\ running # Null
  /\ replies' = replies \union {running}
  /\ running' = Null
  /\ UNCHANGED <<streamVars, connVars, parses, executed, ignored>>

ProcessMessage ==
  \/ \E m \in BagToSet(process) : IgnoreMessage(m) \/ RunService(m)
  \/ SendResponse

-----------------------------------------------------------------------------
Next ==
  /\ crash = "no"
  /\ \/ \E m \in Messages : Forward(m)
     \/ OnConnection \/ OnLostConnection \/ RegisterService
     \/ OnMessage \/ AppendData
     \/ ParseMessage
     \/ ProcessMessage

Spec == Init /\ [][Next]_vars

(***************************************************************************)
(* The loop and the pools are scheduled, and services return.              *)
(***************************************************************************)
Alive(A) == crash = "no" /\ A

FairSpec ==
  /\ Spec
  /\ WF_vars(Alive(OnMessage)) /\ WF_vars(Alive(AppendData))
  /\ WF_vars(Alive(ParseMessage))
  /\ WF_vars(Alive(ProcessMessage))

-----------------------------------------------------------------------------
TypeOK ==
  /\ ParserTypeOK
  /\ conn \in {"none", "up", "down"}
  /\ sent \subseteq Messages
  /\ wire \in Seq(Unit)
  /\ registered \in BOOLEAN
  /\ loop \in Seq(Unit)
  /\ parses \in Nat
  /\ running \in Message \union {Null}
  /\ executed \subseteq Messages
  /\ ignored \subseteq Messages \union {Null}
  /\ replies \subseteq Message

(***************************************************************************)
(* In whatever pieces the requests arrive, and whatever stage_ was at the  *)
(* start, the parser misses none: unless an append was overwritten, every  *)
(* request sent is in one place.                                           *)
(***************************************************************************)
Places(m) ==
  Listed(m)
    + Cardinality({i \in 1 .. 3 : m \in Bodies(<<wire, loop, buff>>[i])})
    + Cardinality({i \in 1 .. 2 : m \in <<ignored, executed>>[i]})

NothingMissed ==
  lost = {} /\ conn = "up" /\ crash = "no" =>
    \A m \in Messages : Places(m) = IF m \in sent THEN 1 ELSE 0

(***************************************************************************)
(* A response goes to the sender of its request, unless an append was      *)
(* overwritten: then a header may meet the body of another request.        *)
(***************************************************************************)
OwnResponse == lost = {} => \A m \in replies : m.from = m.of

(***************************************************************************)
(* The server implements the service as its requests see it: however many  *)
(* threads there are, and even if appends are overwritten, the requests    *)
(* are executed one at a time, each at most once.                          *)
(***************************************************************************)
Service == INSTANCE SerialService WITH Requests <- Messages,
                                   answered <- {m.of : m \in replies}

ImplementsService == Service!Spec

(***************************************************************************)
(* Every request that has reached the server is executed or ignored: each  *)
(* OnMessage has a Parse to follow it, what Parse leaves in its list when  *)
(* it returns 0 goes with what it parses next, and nobody waits for ever   *)
(* for the mutex_ that the services run under.  A stage_ that is neither   *)
(* stops the parser, and a lost connection loses what had not arrived.     *)
(***************************************************************************)
EveryRequestHandled ==
  \A m \in Messages :
    m \in sent ~> \/ m \in executed \union ignored
                  \/ lost # {} \/ crash # "no" \/ conn = "down" \/ stage_ = "other"
=============================================================================
