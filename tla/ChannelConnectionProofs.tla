------------------------ MODULE ChannelConnectionProofs ------------------------
(***************************************************************************)
(* What a channel's connection keeps: its types, no call of a patient      *)
(* application before the connection is made, and every reply in one       *)
(* place.                                                                  *)
(***************************************************************************)
EXTENDS ChannelConnection, RpcPbMessageParserProofs

\* Before the connection nothing has happened.
FreshInv ==
  conn = "none" =>
    /\ sent = {} /\ ~echoed /\ ~checked /\ parses = 0 /\ meta = EmptyBag
    /\ buff = <<>> /\ header_ = Null /\ parse = Null /\ ~taking /\ Taken = {}
    /\ crash \in {"no", "null"}

\* The Meta is nowhere before the proxy sends it.
EchoInv == ~echoed => Meta \notin Range(buff \o wire) \union Range(Copied)

ConnectionInv ==
  /\ TypeOK
  /\ ParserInv(wire, sent, {}, conn = "up")
  /\ conn # "up" => wire = <<>>
  /\ FreshInv
  /\ EchoInv
  /\ PatientIsSafe

-----------------------------------------------------------------------------
(***************************************************************************)
(* Every step keeps the invariant.                                         *)
(***************************************************************************)
\* What the parser's lemmas ask for.
LEMMA ConnectionParameters ==
  ASSUME ConnectionInv
  PROVE  /\ ParserTypeOK /\ ParserInv(wire, sent, {}, conn = "up")
         /\ buff \in Seq(Unit) /\ wire \in Seq(Unit)
         /\ sent \in SUBSET Messages /\ (conn = "up") \in BOOLEAN
         /\ Range(buff \o wire) = Range(buff) \union Range(wire)
  <1>1. /\ ParserTypeOK /\ ParserInv(wire, sent, {}, conn = "up")
        /\ buff \in Seq(Unit) /\ wire \in Seq(Unit)
        /\ sent \in SUBSET Messages
    BY DEF ConnectionInv, TypeOK, ParserTypeOK
  <1>. QED
    BY <1>1, InjectiveConcat

\* A thread is where it was not, or no longer where it was.
LEMMA ThreadMoves ==
  ASSUME NEW S, NEW B, IsABag(B), BagToSet(B) \subseteq S, NEW x \in S
  PROVE  /\ IsABag(BagAdd(B, x)) /\ BagToSet(BagAdd(B, x)) \subseteq S
         /\ IsABag(BagRemove(B, x)) /\ BagToSet(BagRemove(B, x)) \subseteq S
  <1>. DEFINE P == {n \in Nat : n > 0}
  <1>1. B \in [DOMAIN B -> P] /\ DOMAIN B \subseteq S
    BY DEF IsABag, BagToSet
  <1>2. 1 \in P /\ \A n \in P : n + 1 \in P /\ (n # 1 => n - 1 \in P)
    OBVIOUS
  <1>. HIDE DEF P
  <1>3. /\ DOMAIN BagAdd(B, x) \subseteq S
        /\ BagAdd(B, x) \in [DOMAIN BagAdd(B, x) -> P]
    <2>1. CASE x \in DOMAIN B
      BY <1>1, <1>2, <2>1 DEF BagAdd
    <2>2. CASE x \notin DOMAIN B
      BY <1>1, <1>2, <2>2 DEF BagAdd
    <2>. QED
      BY <2>1, <2>2
  <1>4. /\ DOMAIN BagRemove(B, x) \subseteq S
        /\ BagRemove(B, x) \in [DOMAIN BagRemove(B, x) -> P]
    <2>1. CASE x \notin DOMAIN B
      BY <1>1, <2>1 DEF BagRemove
    <2>2. CASE x \in DOMAIN B /\ B[x] = 1
      BY <1>1, <2>2 DEF BagRemove
    <2>3. CASE x \in DOMAIN B /\ B[x] # 1
      BY <1>1, <1>2, <2>3 DEF BagRemove
    <2>. QED
      BY <2>1, <2>2, <2>3
  <1>. QED
    BY <1>3, <1>4 DEF IsABag, BagToSet, P

\* At first nothing has happened.
LEMMA ConnectionStart ==
  ASSUME Init
  PROVE  ConnectionInv
  <1>1. /\ ParserInit /\ conn = "none" /\ checked = FALSE
        /\ called = {} /\ hasty = FALSE /\ echoed = FALSE /\ sent = {}
        /\ wire = <<>> /\ splits = 0 /\ parses = 0 /\ meta = EmptyBag
    BY DEF Init, InitialCheck
  <1>2. /\ ParserTypeOK /\ ParserInv(<<>>, {}, {}, FALSE)
        /\ Taken = {} /\ Copied = <<>> /\ buff = <<>> /\ crash = "no"
    BY <1>1, ParserStart DEF ParserInit
  <1>3. ParserInv(wire, sent, {}, conn = "up")
    <2>1. (conn = "up") = FALSE
      BY <1>1
    <2>. QED
      BY <1>1, <1>2, <2>1
  <1>4. IsABag(meta) /\ BagToSet(meta) = {}
    BY <1>1 DEF EmptyBag, SetToBag, IsABag, BagToSet
  <1>5. TypeOK
    <2>1. splits \in 0 .. MaxSplits
      BY <1>1, ConnectionAssumption
    <2>2. wire \in Seq(Unit) /\ parses \in Nat
      BY <1>1, EmptySeq
    <2>3. called \subseteq Messages /\ sent \subseteq Messages
      BY <1>1
    <2>4. /\ conn \in {"none", "up", "down"} /\ checked \in BOOLEAN
          /\ hasty \in BOOLEAN /\ echoed \in BOOLEAN
      BY <1>1
    <2>. QED
      BY <1>2, <1>4, <2>1, <2>2, <2>3, <2>4 DEF TypeOK
  <1>6. FreshInv
    BY <1>1, <1>2 DEF FreshInv, ParserInit
  <1>7. EchoInv
    <2>1. buff \o wire = <<>>
      BY <1>1, <1>2, ConcatEmptySeq, EmptySeq
    <2>. QED
      BY <1>2, <2>1, OneUnit DEF EchoInv
  <1>. QED
    BY <1>1, <1>2, <1>3, <1>5, <1>6, <1>7 DEF ConnectionInv, PatientIsSafe

\* Who leaves the parser, its connection and what is on the wire alone.
LEMMA ConnectionSpared ==
  ASSUME ConnectionInv, UNCHANGED <<buff, parserVars, parse, taskVars, lost>>,
         UNCHANGED <<conn, echoed, sent, wire>>, crash' \in {crash, "no", "null"}
  PROVE  /\ ParserTypeOK' /\ ParserInv(wire, sent, {}, conn = "up")'
         /\ EchoInv'
  <1>1. ParserTypeOK' /\ ParserInv(wire, sent, {}, conn = "up")'
    <2>1. (conn = "up")' = (conn = "up") /\ sent' = sent /\ wire' = wire
      OBVIOUS
    <2>2. ParserTypeOK /\ ParserInv(wire, sent, {}, conn = "up")
      BY ConnectionParameters
    <2>. QED
      BY <2>1, <2>2, ParserUnchanged
  <1>2. EchoInv'
    BY DEF ConnectionInv, EchoInv, Range, Copied, Read, Reading
  <1>. QED
    BY <1>1, <1>2

\* The application calls, in haste or not.
LEMMA CallMethodStep ==
  ASSUME ConnectionInv, crash = "no", NEW m \in Messages, CallMethod(m)
  PROVE  ConnectionInv'
  <1>1. /\ called' = called \union {m} /\ hasty' = (hasty \/ ~checked)
        /\ crash' = IF conn = "none" THEN "null" ELSE "no"
        /\ UNCHANGED <<buff, parserVars, parse, taskVars, lost>>
        /\ UNCHANGED <<conn, echoed, sent, wire, checked, splits, parses, meta>>
    BY DEF CallMethod, channelVars
  <1>2. crash' \in {"no", "null"}
    BY <1>1
  <1>3. /\ ParserTypeOK' /\ ParserInv(wire, sent, {}, conn = "up")'
        /\ EchoInv'
    BY <1>1, <1>2, ConnectionSpared
  <1>4. hasty' \in BOOLEAN
    BY <1>1
  <1>5. TypeOK'
    BY <1>1, <1>3, <1>4 DEF ConnectionInv, TypeOK
  <1>6. FreshInv'
    BY <1>1, <1>2 DEF ConnectionInv, FreshInv, parserVars, taskVars, Taken
  <1>7. PatientIsSafe'
    <2>1. crash' = "null" => ~checked
      BY <1>1 DEF ConnectionInv, FreshInv
    <2>. QED
      BY <1>1, <2>1 DEF PatientIsSafe
  <1>. QED
    BY <1>1, <1>3, <1>5, <1>6, <1>7 DEF ConnectionInv

\* The proxy echoes the announcement, once.
LEMMA EchoStep ==
  ASSUME ConnectionInv, crash = "no", Echo
  PROVE  ConnectionInv'
  <1>. DEFINE a == <<Meta>>
  <1>1. /\ conn = "up" /\ ~echoed /\ echoed' = TRUE /\ wire' = Append(wire, Meta)
        /\ UNCHANGED streamVars
        /\ UNCHANGED <<called, hasty, sent, conn, checked, splits, parses, meta>>
    BY DEF Echo
  <1>2. /\ ParserTypeOK /\ ParserInv(wire, sent, {}, TRUE)
        /\ wire \in Seq(Unit) /\ sent \in SUBSET Messages
        /\ Meta \notin Range(buff \o wire) \union Range(Copied)
    <2>1. (conn = "up") = TRUE
      BY <1>1
    <2>. QED
      BY <1>1, <2>1, ConnectionParameters DEF ConnectionInv, EchoInv
  <1>3. /\ a \in Seq(Unit) /\ Range(a) = {Meta} /\ IsInjective(a)
        /\ Ordered(Null, a) /\ End(Null, a) = Null
    <2>1. Expected(Null, Meta) /\ After(Meta) = Null
      BY UnitFacts DEF Expected, After
    <2>2. a \in Seq(Unit)
      BY UnitFacts
    <2>. QED
      BY <2>1, <2>2, OneUnit, OrderedOne
  <1>4. wire' = wire \o a
    BY <1>1, <1>2, AppendIsConcat, UnitFacts
  <1>. HIDE DEF a
  <1>5. ParserTypeOK' /\ ParserInv(wire, sent, {}, conn = "up")'
    <2>1. Range(a) \intersect (Range(buff \o wire) \union Range(Copied)) = {}
      BY <1>2, <1>3
    <2>2. /\ (conn = "up")' = TRUE /\ sent' = sent
          /\ sent' \in SUBSET Messages /\ sent \subseteq sent'
      BY <1>1, <1>2
    <2>3. /\ \A u \in Range(a) : u # Meta => u.of \in sent' \ sent
          /\ \A m \in sent' \ sent : Body(m) \in Range(a)
      BY <1>3, <2>2
    <2>4. UNCHANGED streamVars
      BY <1>1
    <2>. QED
      BY <1>2, <1>3, <1>4, <2>1, <2>2, <2>3, <2>4, SendStep
  <1>6. TypeOK'
    <2>1. wire' \in Seq(Unit)
      BY <1>2, <1>3, <1>4, ConcatProperties
    <2>. QED
      BY <1>1, <1>5, <2>1 DEF ConnectionInv, TypeOK
  <1>7. FreshInv' /\ EchoInv'
    BY <1>1 DEF FreshInv, EchoInv
  <1>8. PatientIsSafe'
    BY <1>1 DEF ConnectionInv, PatientIsSafe, streamVars
  <1>. QED
    BY <1>1, <1>5, <1>6, <1>7, <1>8 DEF ConnectionInv

\* The proxy forwards a reply that it has not forwarded before.
LEMMA ReplyStep ==
  ASSUME ConnectionInv, crash = "no", NEW m \in Messages, Reply(m)
  PROVE  ConnectionInv'
  <1>. DEFINE a == <<Header(m), Body(m)>>
  <1>1. /\ conn = "up" /\ echoed /\ m \notin sent /\ sent' = sent \union {m}
        /\ wire' = wire \o a
        /\ UNCHANGED streamVars
        /\ UNCHANGED <<called, hasty, echoed, conn, checked, splits, parses, meta>>
    BY DEF Reply
  <1>2. /\ ParserTypeOK /\ ParserInv(wire, sent, {}, TRUE)
        /\ wire \in Seq(Unit)
        /\ sent \in SUBSET Messages /\ sent' \in SUBSET Messages
    <2>1. (conn = "up") = TRUE
      BY <1>1
    <2>. QED
      BY <1>1, <2>1, ConnectionParameters
  <1>3. /\ a \in Seq(Unit) /\ IsInjective(a)
        /\ Ordered(Null, a) /\ End(Null, a) = Null
        /\ Range(a) \intersect (Range(buff \o wire) \union Range(Copied)) = {}
        /\ \A u \in Range(a) : u # Meta => u.of \in sent' \ sent
        /\ \A k \in sent' \ sent : Body(k) \in Range(a)
    BY <1>1, <1>2, MessageUnits
  <1>. HIDE DEF a
  <1>4. ParserTypeOK' /\ ParserInv(wire, sent, {}, conn = "up")'
    <2>1. sent \subseteq sent' /\ (conn = "up")' = TRUE
      BY <1>1
    <2>. QED
      BY <1>1, <1>2, <1>3, <2>1, SendStep
  <1>5. TypeOK'
    <2>1. wire' \in Seq(Unit)
      BY <1>1, <1>2, <1>3, ConcatProperties
    <2>. QED
      BY <1>1, <1>2, <1>4, <2>1 DEF ConnectionInv, TypeOK
  <1>6. FreshInv' /\ EchoInv'
    BY <1>1 DEF FreshInv, EchoInv
  <1>7. PatientIsSafe'
    BY <1>1 DEF ConnectionInv, PatientIsSafe, streamVars
  <1>. QED
    BY <1>1, <1>4, <1>5, <1>6, <1>7 DEF ConnectionInv

\* The connection to the proxy is made.
LEMMA OnConnectionStep ==
  ASSUME ConnectionInv, crash = "no", OnConnection
  PROVE  ConnectionInv'
  <1>1. /\ conn = "none" /\ conn' = "up"
        /\ UNCHANGED streamVars
        /\ UNCHANGED <<called, hasty, echoed, sent>>
        /\ UNCHANGED <<checked, wire, splits, parses, meta>>
    BY DEF OnConnection, peerVars
  <1>2. /\ ParserTypeOK /\ ParserInv(<<>>, {}, {}, FALSE)
        /\ wire = <<>> /\ sent = {} /\ ~echoed
        /\ buff = <<>> /\ parse = Null /\ header_ = Null /\ Taken = {}
    <2>1. /\ wire = <<>> /\ sent = {} /\ (conn = "up") = FALSE /\ ~echoed
          /\ buff = <<>> /\ parse = Null /\ header_ = Null /\ Taken = {}
      BY <1>1 DEF ConnectionInv, FreshInv
    <2>. QED
      BY <2>1, ConnectionParameters
  <1>3. ParserTypeOK' /\ ParserInv(wire, sent, {}, conn = "up")'
    <2>1. buff' = <<>> /\ crash' \in {"no", "race"}
      BY <1>1, <1>2 DEF streamVars
    <2>2. ParserTypeOK' /\ ParserInv(<<>>, {}, {}, TRUE)'
      BY <1>1, <1>2, <2>1, ConnectionMade DEF streamVars
    <2>3. wire' = <<>> /\ sent' = {} /\ (conn = "up")' = TRUE
      BY <1>1, <1>2
    <2>. QED
      BY <2>2, <2>3
  <1>4. TypeOK'
    BY <1>1, <1>3 DEF ConnectionInv, TypeOK
  <1>5. FreshInv' /\ EchoInv'
    BY <1>1 DEF ConnectionInv, FreshInv, EchoInv, streamVars, Range, Copied, Read,
                Reading
  <1>6. PatientIsSafe'
    BY <1>1 DEF ConnectionInv, PatientIsSafe, streamVars
  <1>. QED
    BY <1>1, <1>3, <1>4, <1>5, <1>6 DEF ConnectionInv

\* The connection to the proxy is lost, with what was on the wire.
LEMMA OnLostConnectionStep ==
  ASSUME ConnectionInv, crash = "no", OnLostConnection
  PROVE  ConnectionInv'
  <1>1. /\ conn = "up" /\ conn' = "down" /\ wire' = <<>>
        /\ UNCHANGED streamVars
        /\ UNCHANGED <<called, hasty, echoed, sent>>
        /\ UNCHANGED <<checked, splits, parses, meta>>
    BY DEF OnLostConnection, peerVars
  <1>2. /\ ParserTypeOK /\ ParserInv(wire, sent, {}, conn = "up")
        /\ buff \in Seq(Unit) /\ wire \in Seq(Unit)
        /\ sent \in SUBSET Messages /\ (conn = "up") \in BOOLEAN
        /\ Range(buff \o wire) = Range(buff) \union Range(wire)
    BY ConnectionParameters
  <1>3. ParserTypeOK' /\ ParserInv(wire, sent, {}, conn = "up")'
    <2>1. buff' \in {buff, <<>>} /\ crash' \in {crash, "no", "race"}
      BY <1>1 DEF streamVars
    <2>2. wire' = <<>> /\ sent' = sent /\ (conn = "up")' = FALSE
      BY <1>1
    <2>. QED
      BY <1>1, <1>2, <2>1, <2>2, ConnectionLost DEF streamVars
  <1>4. TypeOK'
    BY <1>1, <1>3, EmptySeq DEF ConnectionInv, TypeOK
  <1>5. EchoInv'
    <2>1. (buff \o wire)' = buff
      BY <1>1, <1>2, ConcatEmptySeq DEF streamVars
    <2>2. ~echoed => Meta \notin Range(buff) \union Range(Copied)
      BY <1>2 DEF ConnectionInv, EchoInv
    <2>. QED
      BY <1>1, <2>1, <2>2 DEF EchoInv, streamVars, Range, Copied, Read, Reading
  <1>6. FreshInv'
    BY <1>1 DEF FreshInv
  <1>7. PatientIsSafe'
    BY <1>1 DEF ConnectionInv, PatientIsSafe, streamVars
  <1>. QED
    BY <1>1, <1>3, <1>4, <1>5, <1>6, <1>7 DEF ConnectionInv

\* The first units on the wire, or part of one, are appended to buff.
LEMMA OnMessageStep ==
  ASSUME ConnectionInv, crash = "no", OnMessage
  PROVE  ConnectionInv'
  <1>1. /\ conn = "up" /\ parses' = parses + 1
        /\ UNCHANGED <<parserVars, parse, taskVars, lost>>
        /\ UNCHANGED <<called, hasty, echoed, sent, conn, checked, meta>>
        /\ crash' \in {"no", "race"}
    BY DEF OnMessage, peerVars, Race
  <1>2. /\ ParserTypeOK /\ ParserInv(wire, sent, {}, TRUE)
        /\ buff \in Seq(Unit) /\ wire \in Seq(Unit)
        /\ sent \in SUBSET Messages
        /\ Range(buff \o wire) = Range(buff) \union Range(wire)
    <2>1. (conn = "up") = TRUE
      BY <1>1
    <2>. QED
      BY <1>1, <2>1, ConnectionParameters
  <1>3. PICK n \in 0 .. Len(wire) :
          /\ n > 0 \/ splits < MaxSplits
          /\ splits' = IF n = 0 THEN splits + 1 ELSE splits
          /\ buff' = buff \o SubSeq(wire, 1, n)
          /\ wire' = SubSeq(wire, n + 1, Len(wire))
    BY DEF OnMessage, AppendData
  <1>. DEFINE a == SubSeq(wire, 1, n)
  <1>4. a \in Seq(Unit) /\ wire' \in Seq(Unit) /\ wire = a \o wire'
    BY <1>2, <1>3, Cut
  <1>5. buff' = buff \o a
    BY <1>3
  <1>. HIDE DEF a
  <1>6. ParserTypeOK' /\ ParserInv(wire, sent, {}, conn = "up")'
    <2>1. PICK b \in Seq(Unit) : b = wire' /\ wire = a \o b
      BY <1>4
    <2>2. ParserInv(a \o b, sent, {}, TRUE)
      BY <1>2, <2>1
    <2>3. ParserTypeOK' /\ ParserInv(b, sent, {}, TRUE)'
      BY <1>1, <1>2, <1>4, <1>5, <2>2, AppendStep
    <2>4. (conn = "up")' = TRUE /\ sent' = sent
      BY <1>1
    <2>. QED
      BY <2>1, <2>3, <2>4
  <1>7. splits' \in 0 .. MaxSplits
    BY <1>3, ConnectionAssumption DEF ConnectionInv, TypeOK
  <1>8. TypeOK'
    BY <1>1, <1>4, <1>6, <1>7 DEF ConnectionInv, TypeOK
  <1>9. FreshInv'
    BY <1>1 DEF FreshInv
  <1>10. EchoInv'
    <2>1. /\ Range(wire) = Range(a) \union Range(wire')
          /\ Range(buff') = Range(buff) \union Range(a)
          /\ buff' \in Seq(Unit)
      BY <1>2, <1>4, <1>5, InjectiveConcat, ConcatProperties
    <2>2. Range(buff' \o wire') = Range(buff') \union Range(wire')
      BY <1>4, <2>1, InjectiveConcat
    <2>3. Range((buff \o wire)') = Range(buff \o wire)
      BY <1>2, <2>1, <2>2
    <2>4. Range(Copied)' = Range(Copied) /\ echoed' = echoed
      BY <1>1 DEF Range, Copied, Read, Reading
    <2>. QED
      BY <2>3, <2>4 DEF ConnectionInv, EchoInv, Range
  <1>11. PatientIsSafe'
    BY <1>1 DEF PatientIsSafe
  <1>. QED
    BY <1>1, <1>6, <1>8, <1>9, <1>10, <1>11 DEF ConnectionInv

\* A thread looks for the Meta, or goes on from where it looked.
LEMMA MetaStep ==
  ASSUME ConnectionInv, crash = "no",
         MetaBegins \/ MetaFound \/ MetaNotFound \/ SetChecked
  PROVE  ConnectionInv'
  <1>. DEFINE Where == {"parse", "checked", "clear"}
  <1>1. /\ UNCHANGED <<buff, parserVars, parse, taskVars, lost, crash>>
        /\ UNCHANGED <<called, hasty, echoed, sent, conn, wire, splits>>
        /\ checked' \in {checked, TRUE}
    BY DEF MetaBegins, MetaFound, MetaNotFound, SetChecked, streamVars, peerVars
  <1>2. /\ ParserTypeOK' /\ ParserInv(wire, sent, {}, conn = "up")'
        /\ EchoInv'
    BY <1>1, ConnectionSpared
  <1>3. IsABag(meta) /\ BagToSet(meta) \subseteq Where /\ parses \in Nat
    BY DEF ConnectionInv, TypeOK
  <1>4. conn # "none"
    <2>1. parses > 0 \/ meta # EmptyBag
      BY DEF MetaBegins, TaskTaken, MetaFound, MetaNotFound, SetChecked, Moves,
             BagIn, EmptyBag, SetToBag, BagToSet
    <2>. QED
      BY <1>3, <2>1 DEF ConnectionInv, FreshInv
  <1>5. parses' \in Nat
    BY <1>3 DEF MetaBegins, TaskTaken, MetaFound, MetaNotFound, SetChecked
  <1>6. IsABag(meta') /\ BagToSet(meta') \subseteq Where
    <2>1. /\ "parse" \in Where /\ "checked" \in Where /\ "clear" \in Where
      OBVIOUS
    <2>. HIDE DEF Where
    <2>2. CASE MetaBegins
      BY <1>3, <2>1, <2>2, ThreadMoves DEF MetaBegins
    <2>3. CASE MetaNotFound
      BY <1>3, <2>1, <2>3, ThreadMoves DEF MetaNotFound
    <2>4. ASSUME NEW from \in Where, NEW to \in Where, Moves(from, to)
          PROVE  IsABag(meta') /\ BagToSet(meta') \subseteq Where
      <3>1. /\ IsABag(BagRemove(meta, from))
            /\ BagToSet(BagRemove(meta, from)) \subseteq Where
        BY <1>3, ThreadMoves
      <3>. QED
        BY <2>4, <3>1, ThreadMoves DEF Moves
    <2>5. CASE MetaFound
      BY <2>1, <2>4, <2>5 DEF MetaFound
    <2>6. CASE SetChecked
      BY <2>1, <2>4, <2>6 DEF SetChecked
    <2>. QED
      BY <2>2, <2>3, <2>5, <2>6
  <1>7. TypeOK'
    <2>1. checked' \in BOOLEAN
      BY <1>1 DEF ConnectionInv, TypeOK
    <2>. QED
      BY <1>1, <1>2, <1>5, <1>6, <2>1 DEF ConnectionInv, TypeOK
  <1>8. FreshInv'
    BY <1>1, <1>4 DEF FreshInv
  <1>9. PatientIsSafe'
    BY <1>1 DEF PatientIsSafe
  <1>. QED
    BY <1>1, <1>2, <1>7, <1>8, <1>9 DEF ConnectionInv

\* It clears buff.
LEMMA ClearBuffStep ==
  ASSUME ConnectionInv, crash = "no", ClearBuff
  PROVE  ConnectionInv'
  <1>1. /\ BagIn("clear", meta) /\ meta' = BagRemove(meta, "clear")
        /\ buff' = <<>> /\ lost' = lost \union (Range(buff) \ {Meta})
        /\ UNCHANGED <<parserVars, parse, taskVars>>
        /\ UNCHANGED <<called, hasty, echoed, sent>>
        /\ UNCHANGED <<conn, checked, wire, splits, parses>>
        /\ crash' \in {"no", "race"}
    BY DEF ClearBuff, peerVars, Race
  <1>2. /\ ParserTypeOK /\ ParserInv(wire, sent, {}, conn = "up")
        /\ buff \in Seq(Unit) /\ wire \in Seq(Unit)
        /\ sent \in SUBSET Messages /\ (conn = "up") \in BOOLEAN
        /\ Range(buff \o wire) = Range(buff) \union Range(wire)
    BY ConnectionParameters
  <1>3. ParserTypeOK' /\ ParserInv(wire, sent, {}, conn = "up")'
    <2>1. wire' = wire /\ sent' = sent /\ (conn = "up")' = (conn = "up")
      BY <1>1
    <2>. QED
      BY <1>1, <1>2, <2>1, ClearStep
  <1>4. conn # "none"
    BY <1>1 DEF ConnectionInv, FreshInv, BagIn, EmptyBag, SetToBag, BagToSet
  <1>5. /\ IsABag(meta')
        /\ BagToSet(meta') \subseteq {"parse", "checked", "clear"}
    <2>1. /\ IsABag(meta)
          /\ BagToSet(meta) \subseteq {"parse", "checked", "clear"}
      BY DEF ConnectionInv, TypeOK
    <2>. QED
      BY <1>1, <2>1, ThreadMoves
  <1>6. TypeOK'
    BY <1>1, <1>3, <1>5 DEF ConnectionInv, TypeOK
  <1>7. FreshInv'
    BY <1>1, <1>4 DEF FreshInv
  <1>8. EchoInv'
    <2>1. Range((buff \o wire)') = Range(wire)
      BY <1>1, <1>2, ConcatEmptySeq
    <2>2. Range(Copied)' = Range(Copied) /\ echoed' = echoed
      BY <1>1 DEF Range, Copied, Read, Reading
    <2>. QED
      BY <1>2, <2>1, <2>2 DEF ConnectionInv, EchoInv, Range
  <1>9. PatientIsSafe'
    BY <1>1 DEF PatientIsSafe
  <1>. QED
    BY <1>1, <1>3, <1>6, <1>7, <1>8, <1>9 DEF ConnectionInv

\* A thread parses the replies, or takes them.
LEMMA ParseRepliesStep ==
  ASSUME ConnectionInv, crash = "no",
         \/ ParseReplies
         \/ (Parse \/ GetMessages) /\ UNCHANGED <<peerVars, channelVars>>
  PROVE  ConnectionInv'
  <1>1. /\ ParseBegins \/ Parse \/ GetMessages
        /\ parses > 0 \/ parse # Null \/ taking
        /\ UNCHANGED <<called, hasty, echoed, sent>>
        /\ UNCHANGED <<conn, checked, wire, splits, meta>>
        /\ parses' \in Nat
    <2>1. parses \in Nat
      BY DEF ConnectionInv, TypeOK
    <2>2. CASE ParseReplies
      BY <2>1, <2>2 DEF ParseReplies, TaskTaken, peerVars
    <2>3. CASE (Parse \/ GetMessages) /\ UNCHANGED <<peerVars, channelVars>>
      <3>1. parse # Null \/ taking
        BY <2>3 DEF Parse, GetMessages, ParseEnds, ResumeBody, ReadHeader,
                    HeaderParsed, HeaderInvalid, ReadBody, BodyParsed,
                    ReadNothing, EmptyBodyParsed, BodyMissing, BodyInvalid,
                    At, TakeMessage, NoMessageLeft
      <3>. QED
        BY <2>1, <2>3, <3>1 DEF peerVars, channelVars
    <2>. QED
      BY <2>2, <2>3
  <1>2. /\ ParserTypeOK /\ ParserInv(wire, sent, {}, conn = "up")
        /\ buff \in Seq(Unit) /\ wire \in Seq(Unit)
        /\ sent \in SUBSET Messages /\ (conn = "up") \in BOOLEAN
        /\ Range(buff \o wire) = Range(buff) \union Range(wire)
    BY ConnectionParameters
  <1>3. ParserTypeOK' /\ ParserInv(wire, sent, {}, conn = "up")'
    <2>1. wire' = wire /\ sent' = sent /\ (conn = "up")' = (conn = "up")
      BY <1>1
    <2>. QED
      BY <1>1, <1>2, <2>1, ParserStep
  <1>4. /\ lost \subseteq lost' /\ crash' = crash
        /\ Range(buff') \union Range(Copied')
             \subseteq Range(buff) \union Range(Copied)
    BY <1>1, <1>2, ParserKeeps DEF ParserInv
  <1>5. conn # "none"
    BY <1>1 DEF ConnectionInv, FreshInv
  <1>6. TypeOK'
    BY <1>1, <1>3 DEF ConnectionInv, TypeOK
  <1>7. FreshInv'
    BY <1>1, <1>5 DEF FreshInv
  <1>8. EchoInv'
    <2>1. Range((buff \o wire)') = Range(buff') \union Range(wire)
      <3>1. buff' \in Seq(Unit)
        BY <1>3 DEF ParserTypeOK
      <3>. QED
        BY <1>1, <1>2, <3>1, InjectiveConcat
    <2>2. Range(Copied)' = Range(Copied')
      BY DEF Range
    <2>. QED
      BY <1>1, <1>2, <1>4, <2>1, <2>2 DEF ConnectionInv, EchoInv, Range
  <1>9. PatientIsSafe'
    BY <1>4 DEF PatientIsSafe
  <1>. QED
    BY <1>1, <1>3, <1>6, <1>7, <1>8, <1>9 DEF ConnectionInv

-----------------------------------------------------------------------------
(***************************************************************************)
(* What holds in every state.                                              *)
(***************************************************************************)
\* The invariant is inductive.
THEOREM ConnectionInvariant == Spec => []ConnectionInv
  <1>1. ConnectionInv /\ [Next]_vars => ConnectionInv'
    <2>. SUFFICES ASSUME ConnectionInv, [Next]_vars
                  PROVE  ConnectionInv'
      OBVIOUS
    <2>1. CASE UNCHANGED vars
      <3>1. /\ UNCHANGED <<buff, parserVars, parse, taskVars, lost, crash>>
            /\ UNCHANGED <<conn, echoed, sent, wire>>
            /\ UNCHANGED <<called, hasty, checked, splits, parses, meta>>
        BY <2>1 DEF vars, streamVars, peerVars, channelVars
      <3>2. /\ ParserTypeOK' /\ ParserInv(wire, sent, {}, conn = "up")'
            /\ EchoInv'
        BY <3>1, ConnectionSpared
      <3>3. TypeOK'
        BY <3>1, <3>2 DEF ConnectionInv, TypeOK
      <3>4. FreshInv' /\ PatientIsSafe'
        BY <3>1 DEF ConnectionInv, FreshInv, PatientIsSafe, parserVars,
                    taskVars, Taken
      <3>. QED
        BY <3>1, <3>2, <3>3, <3>4 DEF ConnectionInv
    <2>2. CASE Next
      <3>1. crash = "no"
        BY <2>2 DEF Next
      <3>2. CASE \E m \in Messages : CallMethod(m) \/ Reply(m)
        BY <3>1, <3>2, CallMethodStep, ReplyStep
      <3>3. CASE Echo
        BY <3>1, <3>3, EchoStep
      <3>4. CASE OnConnection
        BY <3>1, <3>4, OnConnectionStep
      <3>5. CASE OnLostConnection
        BY <3>1, <3>5, OnLostConnectionStep
      <3>6. CASE OnMessage
        BY <3>1, <3>6, OnMessageStep
      <3>7. CASE ParseMessage
        BY <3>1, <3>7, MetaStep, ClearBuffStep, ParseRepliesStep
           DEF ParseMessage
      <3>. QED
        BY <2>2, <3>2, <3>3, <3>4, <3>5, <3>6, <3>7 DEF Next
    <2>. QED
      BY <2>1, <2>2
  <1>. QED
    BY <1>1, ConnectionStart, PTL DEF Spec

\* Every variable keeps to its type.
THEOREM ConnectionTypeCorrect == Spec => []TypeOK
  <1>1. ConnectionInv => TypeOK
    BY DEF ConnectionInv
  <1>. QED
    BY <1>1, ConnectionInvariant, PTL

(***************************************************************************)
(* Only a call of an application that did not wait for GetStub meets an    *)
(* rpc_conn_->conn that was not made: checked is set behind the echo.      *)
(***************************************************************************)
THEOREM PatientIsSafeAlways == Spec => []PatientIsSafe
  <1>1. ConnectionInv => PatientIsSafe
    BY DEF ConnectionInv
  <1>. QED
    BY <1>1, ConnectionInvariant, PTL

(***************************************************************************)
(* However many threads are in Parse or behind it, and even if appends are *)
(* overwritten or replies wiped, no reply is handed to process_pool_       *)
(* twice.                                                                  *)
(***************************************************************************)
THEOREM TakenOnceAlways == Spec => []TakenOnce
  <1>1. ConnectionInv => TakenOnce
    BY ListedOnce DEF ConnectionInv, ParserInv, TakenOnce
  <1>. QED
    BY <1>1, ConnectionInvariant, PTL

\* The message that a stage_ found as PARSING_BODY makes up comes once.
THEOREM MadeUpOnceAlways == Spec => []MadeUpOnce
  <1>1. ConnectionInv => MadeUpOnce
    BY ListedOnce DEF ConnectionInv, ParserInv, MadeUpOnce
  <1>. QED
    BY <1>1, ConnectionInvariant, PTL

(***************************************************************************)
(* Unless an append was overwritten, or wiped with the echo, every reply   *)
(* that was forwarded is in one place: on the wire, in buff, or listed or  *)
(* handed on.                                                              *)
(***************************************************************************)
THEOREM RepliesNotMissed == Spec => []NothingMissed
  <1>1. ASSUME ConnectionInv, lost = {}, conn = "up", NEW m \in Messages
        PROVE  Places(m) = IF m \in sent THEN 1 ELSE 0
    <2>. DEFINE inWire == Body(m) \in Range(wire)
                inBuff == Body(m) \in Range(buff)
                In2 == {i \in 1 .. 2 : m \in Bodies(<<wire, buff>>[i])}
    <2>1. /\ ParserTypeOK /\ ParserInv(wire, sent, {}, TRUE)
          /\ wire \in Seq(Unit) /\ buff \in Seq(Unit)
          /\ Range(buff \o wire) = Range(buff) \union Range(wire)
      <3>1. (conn = "up") = TRUE
        BY <1>1
      <3>. QED
        BY <1>1, <3>1, ConnectionParameters
    <2>2. Range(buff) \intersect Range(wire) = {}
      <3>1. IsInjective(buff \o wire)
        BY <2>1 DEF ParserInv, UniqueInv
      <3>. QED
        BY <2>1, <3>1, InjectiveConcat
    <2>3. m # Null /\ Body(m) # Meta /\ Body(m).of = m
      BY UnitFacts, NullAssumption
    <2>4. /\ inWire \/ inBuff <=> Body(m) \in Range(buff \o wire)
          /\ ~(inWire /\ inBuff)
      BY <2>1, <2>2
    <2>5. /\ Body(m) \in Range(buff \o wire) => m \in sent
          /\ m \in Taken => m \in sent
          /\ m \in Taken => Body(m) \notin Range(buff \o wire)
      BY <2>1, <2>3 DEF ParserInv, OriginInv
    <2>6. m \in sent => Body(m) \in Range(buff \o wire) \/ m \in Taken
      BY <1>1, <2>1 DEF ParserInv, WholeInv
    <2>7. Listed(m) = IF m \in Taken THEN 1 ELSE 0
      BY <2>1, ListedOnce DEF ParserInv
    <2>8. In2 = (IF inWire THEN {1} ELSE {}) \union (IF inBuff THEN {2} ELSE {})
      <3>1. (m \in Bodies(wire) <=> inWire) /\ (m \in Bodies(buff) <=> inBuff)
        BY DEF Bodies
      <3>2. /\ <<wire, buff>>[1] = wire
            /\ <<wire, buff>>[2] = buff
            /\ 1 .. 2 = {1, 2}
        OBVIOUS
      <3>. HIDE DEF inWire, inBuff
      <3>. QED
        BY <3>1, <3>2
    <2>9. Places(m) = Listed(m) + Cardinality(In2)
      BY DEF Places
    <2>. HIDE DEF In2
    <2>10. Cardinality(In2) = IF inWire \/ inBuff THEN 1 ELSE 0
      <3>1. inWire \in BOOLEAN /\ inBuff \in BOOLEAN /\ ~(inWire /\ inBuff)
        BY <2>4
      <3>. HIDE DEF inWire, inBuff
      <3>. QED
        BY <2>8, <3>1, CountOfTwo
    <2>. HIDE DEF inWire, inBuff
    <2>. QED
      BY <2>4, <2>5, <2>6, <2>7, <2>9, <2>10
  <1>2. ConnectionInv => NothingMissed
    BY <1>1 DEF NothingMissed
  <1>. QED
    BY <1>2, ConnectionInvariant, PTL
=============================================================================
