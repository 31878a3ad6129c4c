--------------------------- MODULE RpcPbServerProofs ---------------------------
(***************************************************************************)
(* What the server keeps: its types, every request in one place, every     *)
(* response to the sender of its request, and the service that its         *)
(* requests see.                                                           *)
(***************************************************************************)
EXTENDS RpcPbServer, RpcPbMessageParserProofs

\* What has been sent and not appended, and what has been handled.
Ahead == loop \o wire
Done  == executed \union ignored

\* Before the connection nothing has happened.
FreshInv ==
  conn = "none" =>
    /\ sent = {} /\ buff = <<>> /\ header_ = Null
    /\ parses = 0 /\ parse = Null /\ ~taking /\ running = Null
    /\ Taken = {} /\ Done = {} /\ replies = {}

\* What has been answered, or is being served, has been executed.
ServiceInv ==
  /\ executed = {m.of : m \in replies}
                  \union (IF running = Null THEN {} ELSE {running.of})
  /\ running # Null => /\ running.of \in Messages
                       /\ running.of \notin {m.of : m \in replies}
  /\ executed \intersect ignored = {}
  /\ lost = {} => /\ \A m \in replies : m.from = m.of
                  /\ running # Null => running.from = running.of

ServerInv ==
  /\ TypeOK
  /\ ParserInv(Ahead, sent, Done, conn = "up")
  /\ conn # "up" => loop = <<>> /\ wire = <<>>
  /\ FreshInv
  /\ ServiceInv

-----------------------------------------------------------------------------
(***************************************************************************)
(* Every step keeps the invariant.                                         *)
(***************************************************************************)
\* What the parser's lemmas ask for.
LEMMA ServerParameters ==
  ASSUME ServerInv
  PROVE  /\ ParserTypeOK /\ ParserInv(Ahead, sent, Done, conn = "up")
         /\ loop \in Seq(Unit) /\ wire \in Seq(Unit) /\ Ahead \in Seq(Unit)
         /\ sent \in SUBSET Messages /\ (conn = "up") \in BOOLEAN
  <1>1. loop \in Seq(Unit) /\ wire \in Seq(Unit)
    BY DEF ServerInv, TypeOK
  <1>2. Ahead \in Seq(Unit)
    BY <1>1, ConcatProperties DEF Ahead
  <1>. QED
    BY <1>1, <1>2 DEF ServerInv, TypeOK

\* At first nothing has happened.
LEMMA ServerStart ==
  ASSUME Init
  PROVE  ServerInv
  <1>1. /\ ParserInit /\ conn = "none" /\ sent = {} /\ wire = <<>>
        /\ registered = FALSE /\ loop = <<>> /\ parses = 0 /\ running = Null
        /\ executed = {} /\ ignored = {} /\ replies = {}
    BY DEF Init
  <1>2. /\ ParserTypeOK /\ ParserInv(<<>>, {}, {}, FALSE)
        /\ Taken = {} /\ Copied = <<>>
    BY <1>1, ParserStart
  <1>3. Ahead = <<>> /\ Done = {} /\ (conn = "up") = FALSE
    BY <1>1, ConcatEmptySeq, EmptySeq DEF Ahead, Done
  <1>4. ParserInv(Ahead, sent, Done, conn = "up")
    BY <1>1, <1>2, <1>3
  <1>5. TypeOK
    BY <1>1, <1>2, EmptySeq DEF TypeOK
  <1>6. FreshInv /\ ServiceInv
    BY <1>1, <1>2, <1>3 DEF FreshInv, ServiceInv, ParserInit
  <1>. QED
    BY <1>1, <1>4, <1>5, <1>6 DEF ServerInv

\* A thread of parse_pool_ in ParseMessage.
LEMMA ServerParseStep ==
  ASSUME ServerInv, ParseMessage
  PROVE  ServerInv'
  <1>1. ParseBegins \/ Parse \/ GetMessages
    BY DEF ParseMessage
  <1>2. /\ UNCHANGED <<conn, sent, wire, registered, loop, running>>
        /\ UNCHANGED <<executed, ignored, replies>>
        /\ parses' = parses \/ (parses > 0 /\ parses' = parses - 1)
    BY DEF ParseMessage, TaskTaken, connVars, traceVars, serverVars
  <1>3. /\ ParserTypeOK /\ ParserInv(Ahead, sent, Done, conn = "up")
        /\ Ahead \in Seq(Unit)
        /\ sent \in SUBSET Messages /\ (conn = "up") \in BOOLEAN
    BY ServerParameters
  <1>4. ParserTypeOK' /\ ParserInv(Ahead, sent, Done, conn = "up")'
    <2>1. Ahead' = Ahead /\ Done' = Done /\ (conn = "up")' = (conn = "up")
      BY <1>2 DEF Ahead, Done
    <2>. QED
      BY <1>1, <1>2, <1>3, <2>1, ParserStep
  <1>5. lost \subseteq lost' /\ (ParseBegins \/ parse # Null \/ taking)
    BY <1>1, <1>3, ParserKeeps DEF ParserInv
  <1>6. conn # "none"
    <2>1. ParseBegins => parses > 0 \/ parse # Null \/ taking
      BY DEF ParseMessage, ParseBegins, Parse, GetMessages, TaskTaken,
             ParseEnds, ResumeBody, ReadHeader, HeaderParsed, HeaderInvalid,
             ReadBody, BodyParsed, ReadNothing, EmptyBodyParsed, BodyMissing,
             BodyInvalid, TakeMessage, NoMessageLeft, At
    <2>. QED
      BY <1>5, <2>1 DEF ServerInv, TypeOK, FreshInv
  <1>7. FreshInv'
    BY <1>2, <1>6 DEF FreshInv
  <1>8. ServiceInv'
    BY <1>2, <1>5 DEF ServerInv, ServiceInv
  <1>9. TypeOK'
    BY <1>2, <1>4 DEF ServerInv, TypeOK
  <1>. QED
    BY <1>2, <1>4, <1>7, <1>8, <1>9 DEF ServerInv

\* The proxy sends a request that it has not sent before.
LEMMA ForwardStep ==
  ASSUME ServerInv, NEW m \in Messages, Forward(m)
  PROVE  ServerInv'
  <1>. DEFINE a == <<Header(m), Body(m)>>
  <1>1. /\ UNCHANGED streamVars
        /\ UNCHANGED <<conn, registered, loop, parses, running>>
        /\ UNCHANGED <<executed, ignored, replies>>
        /\ conn = "up" /\ m \notin sent /\ sent' = sent \union {m}
        /\ wire' = wire \o a
    BY DEF Forward, traceVars
  <1>2. /\ ParserTypeOK /\ ParserInv(Ahead, sent, Done, TRUE)
        /\ loop \in Seq(Unit) /\ wire \in Seq(Unit) /\ Ahead \in Seq(Unit)
        /\ sent \in SUBSET Messages /\ sent' \in SUBSET Messages
    <2>1. (conn = "up") = TRUE
      BY <1>1
    <2>. QED
      BY <1>1, <2>1, ServerParameters
  <1>3. /\ a \in Seq(Unit) /\ IsInjective(a)
        /\ Ordered(Null, a) /\ End(Null, a) = Null
        /\ Range(a) \intersect (Range(buff \o Ahead) \union Range(Copied)) = {}
        /\ \A u \in Range(a) : u # Meta => u.of \in sent' \ sent
        /\ \A k \in sent' \ sent : Body(k) \in Range(a)
    BY <1>1, <1>2, MessageUnits
  <1>. HIDE DEF a
  <1>4. Ahead' = Ahead \o a /\ Done' = Done /\ (conn = "up")' = TRUE
    <2>1. (loop \o wire) \o a = loop \o (wire \o a)
      BY <1>2, <1>3, ConcatAssociative
    <2>. QED
      BY <1>1, <2>1 DEF Ahead, Done
  <1>5. ParserTypeOK' /\ ParserInv(Ahead, sent, Done, conn = "up")'
    <2>1. sent \subseteq sent'
      BY <1>1
    <2>. QED
      BY <1>1, <1>2, <1>3, <1>4, <2>1, SendStep
  <1>6. TypeOK'
    <2>1. wire' \in Seq(Unit)
      BY <1>1, <1>2, <1>3, ConcatProperties
    <2>. QED
      BY <1>1, <1>2, <1>5, <2>1 DEF ServerInv, TypeOK
  <1>7. FreshInv'
    BY <1>1 DEF FreshInv
  <1>8. ServiceInv'
    BY <1>1 DEF ServerInv, ServiceInv, streamVars
  <1>. QED
    BY <1>1, <1>5, <1>6, <1>7, <1>8 DEF ServerInv

\* The connection to the proxy is made.
LEMMA OnConnectionStep ==
  ASSUME ServerInv, OnConnection
  PROVE  ServerInv'
  <1>1. /\ conn = "none" /\ conn' = "up" /\ buff' = <<>>
        /\ UNCHANGED <<parserVars, parse, taskVars, lost>>
        /\ UNCHANGED <<sent, wire, registered, loop, parses, running>>
        /\ UNCHANGED <<executed, ignored, replies>>
        /\ crash' \in {"no", "race"}
    BY DEF OnConnection, ChangeBuff, Race, traceVars
  <1>2. /\ ParserTypeOK /\ ParserInv(<<>>, {}, {}, FALSE)
        /\ Ahead = <<>> /\ sent = {} /\ Done = {}
        /\ buff = <<>> /\ parse = Null /\ header_ = Null /\ Taken = {}
    <2>1. /\ sent = {} /\ Done = {} /\ (conn = "up") = FALSE
          /\ buff = <<>> /\ parse = Null /\ header_ = Null /\ Taken = {}
          /\ loop = <<>> /\ wire = <<>>
      BY <1>1 DEF ServerInv, FreshInv
    <2>2. Ahead = <<>>
      BY <2>1, ConcatEmptySeq, EmptySeq DEF Ahead
    <2>3. ParserTypeOK /\ ParserInv(Ahead, sent, Done, conn = "up")
      BY ServerParameters
    <2>. QED
      BY <2>1, <2>2, <2>3
  <1>3. ParserTypeOK' /\ ParserInv(<<>>, {}, {}, TRUE)'
    BY <1>1, <1>2, ConnectionMade
  <1>4. /\ Ahead' = <<>> /\ sent' = {} /\ Done' = {} /\ (conn = "up")' = TRUE
    BY <1>1, <1>2 DEF Ahead, Done
  <1>5. ParserInv(Ahead, sent, Done, conn = "up")'
    BY <1>3, <1>4
  <1>6. TypeOK'
    BY <1>1, <1>3 DEF ServerInv, TypeOK
  <1>7. FreshInv'
    BY <1>1 DEF FreshInv
  <1>8. ServiceInv'
    BY <1>1 DEF ServerInv, ServiceInv
  <1>. QED
    BY <1>1, <1>5, <1>6, <1>7, <1>8 DEF ServerInv

\* The connection to the proxy is lost.
LEMMA OnLostConnectionStep ==
  ASSUME ServerInv, OnLostConnection
  PROVE  ServerInv'
  <1>1. /\ conn = "up" /\ conn' = "down" /\ buff' = <<>>
        /\ loop = <<>> /\ wire' = <<>>
        /\ UNCHANGED <<parserVars, parse, taskVars, lost>>
        /\ UNCHANGED <<sent, registered, loop, parses, running>>
        /\ UNCHANGED <<executed, ignored, replies>>
        /\ crash' \in {"no", "race"}
    BY DEF OnLostConnection, ChangeBuff, Race, traceVars
  <1>2. /\ ParserTypeOK /\ ParserInv(Ahead, sent, Done, conn = "up")
        /\ Ahead \in Seq(Unit) /\ sent \in SUBSET Messages
        /\ (conn = "up") \in BOOLEAN
    BY ServerParameters
  <1>3. /\ Ahead' = <<>> /\ sent' = sent /\ Done' = Done
        /\ (conn = "up")' = FALSE
    BY <1>1, ConcatEmptySeq, EmptySeq DEF Ahead, Done
  <1>4. ParserTypeOK' /\ ParserInv(Ahead, sent, Done, conn = "up")'
    <2>1. buff' \in {buff, <<>>} /\ crash' \in {crash, "no", "race"}
      BY <1>1
    <2>. QED
      BY <1>1, <1>2, <1>3, <2>1, ConnectionLost
  <1>5. TypeOK'
    BY <1>1, <1>4, EmptySeq DEF ServerInv, TypeOK
  <1>6. FreshInv'
    BY <1>1 DEF FreshInv
  <1>7. ServiceInv'
    BY <1>1 DEF ServerInv, ServiceInv
  <1>. QED
    BY <1>1, <1>4, <1>5, <1>6, <1>7 DEF ServerInv

\* The event loop reads what has arrived.
LEMMA OnMessageStep ==
  ASSUME ServerInv, OnMessage
  PROVE  ServerInv'
  <1>1. /\ conn = "up" /\ loop = <<>>
        /\ UNCHANGED streamVars
        /\ UNCHANGED <<conn, sent, registered, parses, running>>
        /\ UNCHANGED <<executed, ignored, replies>>
    BY DEF OnMessage, traceVars
  <1>2. /\ ParserTypeOK /\ ParserInv(Ahead, sent, Done, conn = "up")
        /\ wire \in Seq(Unit)
    BY ServerParameters
  <1>3. PICK n \in 1 .. Len(wire) : /\ loop' = SubSeq(wire, 1, n)
                                    /\ wire' = SubSeq(wire, n + 1, Len(wire))
    BY DEF OnMessage
  <1>4. loop' \in Seq(Unit) /\ wire' \in Seq(Unit) /\ wire = loop' \o wire'
    <2>1. n \in 0 .. Len(wire)
      OBVIOUS
    <2>. QED
      BY <1>2, <1>3, <2>1, Cut
  <1>5. /\ Ahead' = Ahead /\ sent' = sent /\ Done' = Done
        /\ (conn = "up")' = (conn = "up")
    <2>1. <<>> \o wire = wire
      BY <1>2, ConcatEmptySeq
    <2>. QED
      BY <1>1, <1>4, <2>1 DEF Ahead, Done
  <1>6. ParserTypeOK' /\ ParserInv(Ahead, sent, Done, conn = "up")'
    BY <1>1, <1>2, <1>5, ParserUnchanged DEF streamVars
  <1>7. TypeOK'
    BY <1>1, <1>4, <1>6 DEF ServerInv, TypeOK
  <1>8. FreshInv'
    BY <1>1 DEF FreshInv
  <1>9. ServiceInv'
    BY <1>1 DEF ServerInv, ServiceInv, streamVars
  <1>. QED
    BY <1>1, <1>6, <1>7, <1>8, <1>9 DEF ServerInv

\* OnMessage appends it once no service runs.
LEMMA AppendDataStep ==
  ASSUME ServerInv, AppendData
  PROVE  ServerInv'
  <1>1. /\ loop # <<>> /\ loop' = <<>> /\ buff' = buff \o loop
        /\ parses' = parses + 1
        /\ UNCHANGED <<parserVars, parse, taskVars, lost>>
        /\ UNCHANGED <<conn, sent, wire, registered, running>>
        /\ UNCHANGED <<executed, ignored, replies>>
        /\ crash' \in {"no", "race"}
    BY DEF AppendData, ChangeBuff, Race, traceVars
  <1>2. /\ ParserTypeOK /\ ParserInv(loop \o wire, sent, Done, conn = "up")
        /\ loop \in Seq(Unit) /\ wire \in Seq(Unit)
        /\ sent \in SUBSET Messages /\ (conn = "up") \in BOOLEAN
    BY ServerParameters DEF Ahead
  <1>3. /\ Ahead' = wire /\ sent' = sent /\ Done' = Done
        /\ (conn = "up")' = (conn = "up")
    BY <1>1, <1>2, ConcatEmptySeq DEF Ahead, Done
  <1>4. ParserTypeOK' /\ ParserInv(Ahead, sent, Done, conn = "up")'
    BY <1>1, <1>2, <1>3, AppendStep
  <1>5. conn = "up"
    BY <1>1 DEF ServerInv
  <1>6. TypeOK'
    BY <1>1, <1>4, EmptySeq DEF ServerInv, TypeOK
  <1>7. FreshInv'
    BY <1>1, <1>5 DEF FreshInv
  <1>8. ServiceInv'
    BY <1>1 DEF ServerInv, ServiceInv
  <1>. QED
    BY <1>1, <1>4, <1>5, <1>6, <1>7, <1>8 DEF ServerInv

\* The application registers its service.
LEMMA RegisterServiceStep ==
  ASSUME ServerInv, RegisterService
  PROVE  ServerInv'
  <1>1. /\ registered' = TRUE
        /\ UNCHANGED streamVars
        /\ UNCHANGED <<conn, sent, wire, loop, parses, running>>
        /\ UNCHANGED <<executed, ignored, replies>>
    BY DEF RegisterService, traceVars
  <1>2. /\ Ahead' = Ahead /\ sent' = sent /\ Done' = Done
        /\ (conn = "up")' = (conn = "up")
    BY <1>1 DEF Ahead, Done
  <1>3. ParserTypeOK' /\ ParserInv(Ahead, sent, Done, conn = "up")'
    BY <1>1, <1>2, ServerParameters, ParserUnchanged DEF streamVars
  <1>4. TypeOK'
    BY <1>1, <1>3 DEF ServerInv, TypeOK
  <1>5. FreshInv'
    BY <1>1, <1>2 DEF ServerInv, FreshInv, streamVars, parserVars, taskVars, Taken
  <1>6. ServiceInv'
    BY <1>1 DEF ServerInv, ServiceInv, streamVars
  <1>. QED
    BY <1>1, <1>3, <1>4, <1>5, <1>6 DEF ServerInv

\* A thread of process_pool_ takes a message.
LEMMA ProcessTaskStep ==
  ASSUME ServerInv, NEW m \in BagToSet(process), ProcessTask(m),
         ignored \subseteq ignored', executed \subseteq executed',
         executed' \union ignored' = executed \union ignored \union {m.of}
  PROVE  /\ ParserTypeOK' /\ ParserInv(Ahead, sent, Done, conn = "up")'
         /\ conn # "none" /\ lost' = lost
         /\ m \in Message /\ m.of \notin Done
         /\ lost = {} => m.from = m.of
  <1>1. /\ process' = BagRemove(process, m) /\ m \in DOMAIN process
        /\ UNCHANGED <<buff, parserVars, parse, taking, lost, crash>>
        /\ UNCHANGED <<conn, sent, wire, loop>>
    BY DEF ProcessTask, connVars, BagToSet
  <1>2. /\ ParserTypeOK /\ ParserInv(Ahead, sent, Done, conn = "up")
        /\ Ahead \in Seq(Unit) /\ sent \in SUBSET Messages
        /\ (conn = "up") \in BOOLEAN
    BY ServerParameters
  <1>3. /\ Ahead' = Ahead /\ sent' = sent /\ Done' = Done \union {m.of}
        /\ (conn = "up")' = (conn = "up")
    BY <1>1 DEF Ahead, Done
  <1>4. /\ m \in Message /\ m.of \in Taken /\ m.of \notin Done
        /\ lost = {} => m.from = m.of
    <2>1. /\ m \in DOMAIN process /\ ParserTypeOK
          /\ ParserInv(Ahead, sent, Done, conn = "up")
      BY <1>1, <1>2
    <2>. HIDE DEF ServerInv
    <2>. QED
      BY <2>1, TaskFacts
  <1>5. ParserTypeOK' /\ ParserInv(Ahead, sent, Done, conn = "up")'
    <2>1. PICK done : done = Done \union {m.of}
      OBVIOUS
    <2>2. ParserTypeOK' /\ ParserInv(Ahead, sent, done, conn = "up")'
      BY <1>1, <1>2, <1>3, <2>1, TaskDone
    <2>3. Done' = done
      BY <1>3, <2>1
    <2>. QED
      BY <2>2, <2>3
  <1>6. conn # "none"
    BY <1>4 DEF ServerInv, FreshInv
  <1>. QED
    BY <1>1, <1>4, <1>5, <1>6

\* A request without its service or method is ignored.
LEMMA IgnoreMessageStep ==
  ASSUME ServerInv, NEW m \in BagToSet(process), IgnoreMessage(m)
  PROVE  ServerInv'
  <1>1. /\ ProcessTask(m) /\ ignored' = ignored \union {m.of}
        /\ UNCHANGED <<conn, sent, wire, registered, loop, parses>>
        /\ UNCHANGED <<running, executed, replies>>
    BY DEF IgnoreMessage, ProcessTask, connVars
  <1>2. /\ ParserTypeOK' /\ ParserInv(Ahead, sent, Done, conn = "up")'
        /\ conn # "none" /\ lost' = lost
        /\ m \in Message /\ m.of \notin Done
    BY <1>1, ProcessTaskStep
  <1>3. TypeOK'
    BY <1>1, <1>2 DEF ServerInv, TypeOK, Message
  <1>4. FreshInv'
    BY <1>1, <1>2 DEF FreshInv
  <1>5. ServiceInv'
    BY <1>1, <1>2 DEF ServerInv, ServiceInv, Done
  <1>. QED
    BY <1>1, <1>2, <1>3, <1>4, <1>5 DEF ServerInv

\* The others are executed, one at a time.
LEMMA RunServiceStep ==
  ASSUME ServerInv, NEW m \in BagToSet(process), RunService(m)
  PROVE  ServerInv'
  <1>1. /\ ProcessTask(m) /\ running = Null /\ running' = m
        /\ executed' = executed \union {m.of} /\ m.of \in Messages
        /\ UNCHANGED <<conn, sent, wire, registered, loop, parses>>
        /\ UNCHANGED <<ignored, replies>>
    BY KnownAssumption DEF RunService, ProcessTask, Retrieved, connVars
  <1>2. /\ ParserTypeOK' /\ ParserInv(Ahead, sent, Done, conn = "up")'
        /\ conn # "none" /\ lost' = lost
        /\ m \in Message /\ m.of \notin Done
        /\ lost = {} => m.from = m.of
    BY <1>1, ProcessTaskStep
  <1>3. m # Null
    BY <1>2, NullAssumption
  <1>4. TypeOK'
    BY <1>1, <1>2 DEF ServerInv, TypeOK
  <1>5. FreshInv'
    BY <1>1, <1>2 DEF FreshInv
  <1>6. ServiceInv'
    BY <1>1, <1>2, <1>3 DEF ServerInv, ServiceInv, Done
  <1>. QED
    BY <1>1, <1>2, <1>4, <1>5, <1>6 DEF ServerInv

\* A service returns, and its response is sent.
LEMMA SendResponseStep ==
  ASSUME ServerInv, SendResponse
  PROVE  ServerInv'
  <1>1. /\ running # Null /\ replies' = replies \union {running}
        /\ running' = Null
        /\ UNCHANGED streamVars
        /\ UNCHANGED <<conn, sent, wire, registered, loop, parses>>
        /\ UNCHANGED <<executed, ignored>>
    BY DEF SendResponse, connVars
  <1>2. /\ Ahead' = Ahead /\ sent' = sent /\ Done' = Done
        /\ (conn = "up")' = (conn = "up")
    BY <1>1 DEF Ahead, Done
  <1>3. ParserTypeOK' /\ ParserInv(Ahead, sent, Done, conn = "up")'
    BY <1>1, <1>2, ServerParameters, ParserUnchanged DEF streamVars
  <1>4. TypeOK'
    BY <1>1, <1>3 DEF ServerInv, TypeOK
  <1>5. FreshInv'
    BY <1>1 DEF ServerInv, FreshInv
  <1>6. ServiceInv'
    <2>1. {m.of : m \in replies'} = {m.of : m \in replies} \union {running.of}
      BY <1>1
    <2>. QED
      BY <1>1, <2>1 DEF ServerInv, ServiceInv, streamVars
  <1>. QED
    BY <1>1, <1>3, <1>4, <1>5, <1>6 DEF ServerInv

\* The invariant is inductive.
THEOREM ServerInvariant == Spec => []ServerInv
  <1>1. ServerInv /\ [Next]_vars => ServerInv'
    <2>. SUFFICES ASSUME ServerInv, [Next]_vars
                  PROVE  ServerInv'
      OBVIOUS
    <2>1. CASE UNCHANGED vars
      <3>1. /\ UNCHANGED streamVars
            /\ UNCHANGED <<conn, sent, wire, registered, loop, parses, running>>
            /\ UNCHANGED <<executed, ignored, replies>>
        BY <2>1 DEF vars, serverVars, connVars, traceVars
      <3>2. /\ Ahead' = Ahead /\ sent' = sent /\ Done' = Done
            /\ (conn = "up")' = (conn = "up")
        BY <3>1 DEF Ahead, Done
      <3>3. ParserTypeOK' /\ ParserInv(Ahead, sent, Done, conn = "up")'
        BY <3>1, <3>2, ServerParameters, ParserUnchanged DEF streamVars
      <3>4. TypeOK'
        BY <3>1, <3>3 DEF ServerInv, TypeOK
      <3>5. FreshInv' /\ ServiceInv'
        BY <3>1, <3>2 DEF ServerInv, FreshInv, ServiceInv, streamVars,
                          parserVars, taskVars, Taken
      <3>. QED
        BY <3>1, <3>3, <3>4, <3>5 DEF ServerInv
    <2>2. CASE \E m \in Messages : Forward(m)
      BY <2>2, ForwardStep
    <2>3. CASE OnConnection
      BY <2>3, OnConnectionStep
    <2>4. CASE OnLostConnection
      BY <2>4, OnLostConnectionStep
    <2>5. CASE RegisterService
      BY <2>5, RegisterServiceStep
    <2>6. CASE OnMessage
      BY <2>6, OnMessageStep
    <2>7. CASE AppendData
      BY <2>7, AppendDataStep
    <2>8. CASE ParseMessage
      BY <2>8, ServerParseStep
    <2>9. CASE ProcessMessage
      BY <2>9, IgnoreMessageStep, RunServiceStep, SendResponseStep
         DEF ProcessMessage
    <2>. QED
      BY <2>1, <2>2, <2>3, <2>4, <2>5, <2>6, <2>7, <2>8, <2>9 DEF Next
  <1>. QED
    BY <1>1, ServerStart, PTL DEF Spec

\* Every variable keeps to its type.
THEOREM ServerTypeCorrect == Spec => []TypeOK
  <1>1. ServerInv => TypeOK
    BY DEF ServerInv
  <1>. QED
    BY <1>1, ServerInvariant, PTL

(***************************************************************************)
(* A response goes to the sender of its request unless an append was       *)
(* overwritten: nothing else puts a header before the body of another.     *)
(***************************************************************************)
THEOREM OwnResponseAlways == Spec => []OwnResponse
  <1>1. ServerInv => OwnResponse
    BY DEF ServerInv, ServiceInv, OwnResponse
  <1>. QED
    BY <1>1, ServerInvariant, PTL

(***************************************************************************)
(* Unless an append was overwritten, every request sent is in one place:   *)
(* on the wire, with the event loop, in buff, listed or handed on, or      *)
(* handled, whatever the pieces it arrives in and whatever stage_ was.     *)
(***************************************************************************)
THEOREM RequestsNotMissed == Spec => []NothingMissed
  <1>1. ASSUME ServerInv, lost = {}, conn = "up", NEW m \in Messages
        PROVE  Places(m) = IF m \in sent THEN 1 ELSE 0
    <2>. DEFINE inWire == Body(m) \in Range(wire)
                inLoop == Body(m) \in Range(loop)
                inBuff == Body(m) \in Range(buff)
                In3 == {i \in 1 .. 3 : m \in Bodies(<<wire, loop, buff>>[i])}
                In2 == {i \in 1 .. 2 : m \in <<ignored, executed>>[i]}
    <2>1. /\ ParserTypeOK /\ ParserInv(Ahead, sent, Done, TRUE)
          /\ loop \in Seq(Unit) /\ wire \in Seq(Unit) /\ Ahead \in Seq(Unit)
          /\ sent \in SUBSET Messages /\ buff \in Seq(Unit)
      <3>1. (conn = "up") = TRUE
        BY <1>1
      <3>. QED
        BY <1>1, <3>1, ServerParameters DEF ParserTypeOK
    <2>2. /\ Range(Ahead) = Range(loop) \union Range(wire)
          /\ Range(buff \o Ahead) = Range(buff) \union Range(Ahead)
          /\ Range(loop) \intersect Range(wire) = {}
          /\ Range(buff) \intersect Range(Ahead) = {}
      <3>1. IsInjective(buff \o Ahead)
        BY <2>1 DEF ParserInv, UniqueInv
      <3>2. /\ IsInjective(Ahead) /\ Range(buff) \intersect Range(Ahead) = {}
            /\ Range(buff \o Ahead) = Range(buff) \union Range(Ahead)
        BY <2>1, <3>1, InjectiveConcat
      <3>3. /\ Range(loop) \intersect Range(wire) = {}
            /\ Range(Ahead) = Range(loop) \union Range(wire)
        BY <2>1, <3>2, InjectiveConcat DEF Ahead
      <3>. QED
        BY <3>2, <3>3
    <2>3. /\ m # Null /\ Body(m) # Meta /\ Body(m).of = m
      BY UnitFacts, NullAssumption
    <2>4. /\ inWire \/ inLoop \/ inBuff <=> Body(m) \in Range(buff \o Ahead)
          /\ ~(inWire /\ inLoop) /\ ~(inWire /\ inBuff) /\ ~(inLoop /\ inBuff)
      BY <2>2
    <2>5. /\ Body(m) \in Range(buff \o Ahead) => m \in sent
          /\ m \in Taken \union Done => m \in sent
          /\ m \in Taken \union Done => Body(m) \notin Range(buff \o Ahead)
      BY <2>1, <2>3 DEF ParserInv, OriginInv
    <2>6. m \in sent => Body(m) \in Range(buff \o Ahead) \/ m \in Taken \union Done
      BY <1>1, <2>1 DEF ParserInv, WholeInv
    <2>7. /\ ~(m \in Taken /\ m \in Done)
          /\ ~(m \in ignored /\ m \in executed)
          /\ m \in Done <=> m \in ignored \/ m \in executed
      BY <1>1, <2>1 DEF ParserInv, TakenInv, ServerInv, ServiceInv, Done
    <2>8. Listed(m) = IF m \in Taken THEN 1 ELSE 0
      BY <2>1, ListedOnce DEF ParserInv
    <2>9. In3 = (IF inWire THEN {1} ELSE {}) \union (IF inLoop THEN {2} ELSE {})
                  \union (IF inBuff THEN {3} ELSE {})
      <3>1. /\ m \in Bodies(wire) <=> inWire
            /\ m \in Bodies(loop) <=> inLoop
            /\ m \in Bodies(buff) <=> inBuff
        BY DEF Bodies
      <3>2. /\ <<wire, loop, buff>>[1] = wire
            /\ <<wire, loop, buff>>[2] = loop
            /\ <<wire, loop, buff>>[3] = buff
        OBVIOUS
      <3>3. 1 .. 3 = {1, 2, 3}
        OBVIOUS
      <3>. HIDE DEF inWire, inLoop, inBuff
      <3>. QED
        BY <3>1, <3>2, <3>3
    <2>10. In2 = (IF m \in ignored THEN {1} ELSE {})
                   \union (IF m \in executed THEN {2} ELSE {})
      <3>1. /\ <<ignored, executed>>[1] = ignored
            /\ <<ignored, executed>>[2] = executed
            /\ 1 .. 2 = {1, 2}
        OBVIOUS
      <3>. QED
        BY <3>1
    <2>11. Places(m) = Listed(m) + Cardinality(In3) + Cardinality(In2)
      BY DEF Places
    <2>. HIDE DEF In2, In3
    <2>12. Cardinality(In3) = IF inWire \/ inLoop \/ inBuff THEN 1 ELSE 0
      <3>1. inWire \in BOOLEAN /\ inLoop \in BOOLEAN /\ inBuff \in BOOLEAN
        OBVIOUS
      <3>2. ~(inWire /\ inLoop) /\ ~(inWire /\ inBuff) /\ ~(inLoop /\ inBuff)
        BY <2>4
      <3>. HIDE DEF inWire, inLoop, inBuff
      <3>. QED
        BY <2>9, <3>1, <3>2, CountOfThree
    <2>13. Cardinality(In2) = IF m \in Done THEN 1 ELSE 0
      <3>1. (m \in ignored) \in BOOLEAN /\ (m \in executed) \in BOOLEAN
        OBVIOUS
      <3>. QED
        BY <2>7, <2>10, <3>1, CountOfTwo
    <2>. HIDE DEF inWire, inLoop, inBuff
    <2>. QED
      BY <2>4, <2>5, <2>6, <2>7, <2>8, <2>11, <2>12, <2>13
  <1>2. ServerInv => NothingMissed
    BY <1>1 DEF NothingMissed
  <1>. QED
    BY <1>2, ServerInvariant, PTL

(***************************************************************************)
(* However many threads there are, and even if appends are overwritten,    *)
(* requests are executed one at a time, each at most once, and answered    *)
(* before the next.                                                        *)
(***************************************************************************)
THEOREM ServerImplementsService == Spec => ImplementsService
  <1>. DEFINE answered == {m.of : m \in replies}
  <1>1. Init => Service!Init
    BY DEF Init, Service!Init
  <1>2. ServerInv /\ [Next]_vars => [Service!Next]_<<executed, answered>>
    <2>. SUFFICES ASSUME ServerInv, [Next]_vars
                  PROVE  Service!Next \/ UNCHANGED <<executed, answered>>
      OBVIOUS
    <2>1. ASSUME NEW m \in BagToSet(process), RunService(m)
          PROVE  Service!Execute(m.of) /\ m.of \in Messages
      <3>1. /\ ProcessTask(m) /\ running = Null
            /\ executed' = executed \union {m.of} /\ m.of \in Messages
            /\ UNCHANGED <<ignored, replies>>
        BY <2>1, KnownAssumption DEF RunService, Retrieved
      <3>2. m.of \notin executed
        BY <3>1, ProcessTaskStep DEF Done
      <3>3. executed = answered
        BY <3>1 DEF ServerInv, ServiceInv
      <3>. QED
        BY <3>1, <3>2, <3>3 DEF Service!Execute
    <2>2. CASE SendResponse
      <3>1. /\ running # Null /\ replies' = replies \union {running}
            /\ UNCHANGED executed
        BY <2>2 DEF SendResponse
      <3>2. answered' = answered \union {running.of}
        BY <3>1
      <3>3. running.of \in Messages /\ running.of \in executed \ answered
        BY <3>1 DEF ServerInv, ServiceInv
      <3>. QED
        BY <3>1, <3>2, <3>3 DEF Service!Answer, Service!Next
    <2>3. ASSUME NEW m, IgnoreMessage(m)
          PROVE  UNCHANGED <<executed, replies>>
      BY <2>3 DEF IgnoreMessage
    <2>4. CASE \/ \E m \in Messages : Forward(m)
               \/ OnConnection \/ OnLostConnection \/ RegisterService
               \/ OnMessage \/ AppendData \/ ParseMessage \/ UNCHANGED vars
      BY <2>4 DEF Forward, OnConnection, OnLostConnection, RegisterService,
                  OnMessage, AppendData, ParseMessage, vars, serverVars,
                  traceVars
    <2>. QED
      BY <2>1, <2>2, <2>3, <2>4 DEF Next, ProcessMessage, Service!Next
  <1>. QED
    BY <1>1, <1>2, ServerInvariant, PTL
       DEF Spec, ImplementsService, Service!Spec
=============================================================================
