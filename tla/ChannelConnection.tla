-------------------------- MODULE ChannelConnection ---------------------------
(***************************************************************************)
(* A channel's connection to the proxy: OnConnection, OnMessage and        *)
(* ParseMessage of RpcChannel (channel.h, channel.cc), its                 *)
(* RpcConnectionMetaParser (connection_meta_parser.cc) and its             *)
(* RpcPbMessageParser, whose Messages are the replies the proxy may        *)
(* forward.  RpcChannel has what becomes of the replies from process_pool_ *)
(* on.                                                                     *)
(*                                                                         *)
(* The channel announces its id, the proxy echoes the announcement, and    *)
(* the thread of parse_pool_ that finds the echo alone in buff sets        *)
(* checked, which IsConnected and so GetStub tell the application, and     *)
(* then clears buff.  ParseMessage takes no lock: several threads may be   *)
(* on that way at once, for TCP may deliver the echo in two pieces.        *)
(*                                                                         *)
(* A reply is called for, or strays here from another channel of the same  *)
(* client: all announce the client's id.                                   *)
(***************************************************************************)
EXTENDS RpcPbMessageParser

CONSTANTS
  Strays,    \* the replies that come without a call on this channel
  MaxSplits  \* bound: how often part of a unit arrives alone

ASSUME ConnectionAssumption ==
  /\ Strays \subseteq Messages
  /\ MaxSplits \in Nat

VARIABLES
  conn,     \* rpc_conn_->conn
  checked,
  called,   \* the replies that CallMethod has asked for
  hasty,    \* the application used the stub although GetStub returned false
  echoed,   \* the proxy has sent the echo
  sent,     \* the replies the proxy has sent
  wire,     \* what the proxy has sent and OnMessage has not read
  splits,   \* how often part of a unit has arrived alone
  parses,   \* the tasks of parse_pool_
  meta      \* the threads that found checked = false, by where they are

peerVars    == <<called, hasty, echoed, sent>>
channelVars == <<conn, checked, wire, splits, parses, meta>>
vars        == <<streamVars, peerVars, channelVars>>

\* Mutant: the constructor of RpcConnection leaves checked as it finds it.
InitialCheckAny == checked \in BOOLEAN

InitialCheck == checked = FALSE

Init ==
  /\ ParserInit
  /\ conn = "none" /\ InitialCheck
  /\ called = {} /\ hasty = FALSE
  /\ echoed = FALSE /\ sent = {}
  /\ wire = <<>> /\ splits = 0
  /\ parses = 0
  /\ meta = EmptyBag

-----------------------------------------------------------------------------
(***************************************************************************)
(* The application and the proxy.                                          *)
(***************************************************************************)

\* CallMethod sends on rpc_conn_->conn, which is empty before OnConnection.
CallMethod(m) ==
  /\ m \in Messages \ (called \union Strays)
  /\ called' = called \union {m}
  /\ hasty' = (hasty \/ ~checked)
  /\ crash' = IF conn = "none" THEN "null" ELSE "no"
  /\ UNCHANGED <<buff, parserVars, parse, taskVars, lost, echoed, sent,
                 channelVars>>

Echo ==
  /\ conn = "up"
  /\ ~echoed
  /\ echoed' = TRUE
  /\ wire' = Append(wire, Meta)
  /\ UNCHANGED <<streamVars, called, hasty, sent, conn, checked, splits, parses,
                 meta>>

\* The proxy forwards to a connection only what comes after its echo.
Reply(m) ==
  /\ conn = "up"
  /\ echoed
  /\ m \in (called \union Strays) \ sent
  /\ sent' = sent \union {m}
  /\ wire' = wire \o <<Header(m), Body(m)>>
  /\ UNCHANGED <<streamVars, called, hasty, echoed, conn, checked, splits,
                 parses, meta>>

-----------------------------------------------------------------------------
(***************************************************************************)
(* The event loop.  A lost connection changes nothing in the channel.      *)
(***************************************************************************)
OnConnection ==
  /\ conn = "none"
  /\ conn' = "up"
  /\ UNCHANGED <<streamVars, peerVars, checked, wire, splits, parses, meta>>

OnLostConnection ==
  /\ conn = "up"
  /\ conn' = "down"
  /\ wire' = <<>>
  /\ UNCHANGED <<streamVars, peerVars, checked, splits, parses, meta>>

\* The threads that are about to read buff, or to clear it.
Touching(threads) == BagIn("parse", threads) \/ BagIn("clear", threads)

\* Mutant: rpc_conn_->buff = data.
AppendDataAlone(data) == data

AppendData(data) == buff \o data

\* The n first units have arrived, or part of the first for n = 0.
OnMessage ==
  /\ conn = "up"
  /\ wire # <<>>
  /\ \E n \in 0 .. Len(wire) :
       /\ n > 0 \/ splits < MaxSplits
       /\ splits' = IF n = 0 THEN splits + 1 ELSE splits
       /\ buff' = AppendData(SubSeq(wire, 1, n))
       /\ wire' = SubSeq(wire, n + 1, Len(wire))
  /\ Race(Touching(meta))
  /\ parses' = parses + 1
  /\ UNCHANGED <<parserVars, parse, taskVars, lost, peerVars, conn, checked,
                 meta>>

-----------------------------------------------------------------------------
(***************************************************************************)
(* ParseMessage.  The branch that waits for the echo: meta_parser->Parse   *)
(* returns 1, 0 for less or -1 for more, and only 1 changes anything.      *)
(***************************************************************************)
\* Mutant: a spurious wakeup is not a task.
TaskTakenSpurious == parses' = parses - 1

TaskTaken ==
  /\ parses > 0
  /\ parses' = parses - 1

MetaBegins ==
  /\ TaskTaken
  /\ ~checked
  /\ meta' = BagAdd(meta, "parse")
  /\ UNCHANGED <<streamVars, peerVars, conn, checked, wire, splits>>

Moves(from, to) ==
  /\ BagIn(from, meta)
  /\ meta' = BagAdd(BagRemove(meta, from), to)

\* Mutant: size <= RPC_CONNECTION_META_SIZE is too little.
MetaParsedLonger == Len(buff) > 1 /\ Head(buff) = Meta

MetaParsed == buff = <<Meta>>

MetaFound ==
  /\ MetaParsed
  /\ Moves("parse", "checked")
  /\ UNCHANGED <<streamVars, peerVars, conn, checked, wire, splits, parses>>

MetaNotFound ==
  /\ ~MetaParsed
  /\ BagIn("parse", meta)
  /\ meta' = BagRemove(meta, "parse")
  /\ UNCHANGED <<streamVars, peerVars, conn, checked, wire, splits, parses>>

SetChecked ==
  /\ Moves("checked", "clear")
  /\ checked' = TRUE
  /\ UNCHANGED <<streamVars, peerVars, conn, wire, splits, parses>>

\* What has arrived since the echo was found goes with it.
ClearBuff ==
  /\ BagIn("clear", meta)
  /\ meta' = BagRemove(meta, "clear")
  /\ buff' = <<>>
  /\ lost' = lost \union (Range(buff) \ {Meta})
  /\ Race(Touching(meta'))
  /\ UNCHANGED <<parserVars, parse, taskVars, peerVars, conn, checked, wire,
                 splits, parses>>

\* The branch for the replies.
ParseReplies ==
  /\ TaskTaken
  /\ checked
  /\ ParseBegins
  /\ UNCHANGED <<peerVars, conn, checked, wire, splits, meta>>

ParseMessage ==
  \/ MetaBegins \/ MetaFound \/ MetaNotFound \/ SetChecked \/ ClearBuff
  \/ ParseReplies
  \/ (Parse \/ GetMessages) /\ UNCHANGED <<peerVars, channelVars>>

-----------------------------------------------------------------------------
Next ==
  /\ crash = "no"
  /\ \/ \E m \in Messages : CallMethod(m) \/ Reply(m)
     \/ Echo
     \/ OnConnection \/ OnLostConnection \/ OnMessage
     \/ ParseMessage

Spec == Init /\ [][Next]_vars

(***************************************************************************)
(* The loop and the threads of parse_pool_ are scheduled, and the proxy    *)
(* echoes the announcement.                                                *)
(***************************************************************************)
Alive(A) == crash = "no" /\ A

FairSpec ==
  /\ Spec
  /\ WF_vars(Alive(Echo))
  /\ WF_vars(Alive(OnMessage))
  /\ WF_vars(Alive(ParseMessage))

-----------------------------------------------------------------------------
TypeOK ==
  /\ ParserTypeOK
  /\ conn \in {"none", "up", "down"}
  /\ checked \in BOOLEAN
  /\ called \subseteq Messages
  /\ hasty \in BOOLEAN
  /\ echoed \in BOOLEAN
  /\ sent \subseteq Messages
  /\ wire \in Seq(Unit)
  /\ splits \in 0 .. MaxSplits
  /\ parses \in Nat
  /\ IsABag(meta) /\ BagToSet(meta) \subseteq {"parse", "checked", "clear"}

(***************************************************************************)
(* An application that waits for GetStub never calls on a connection that  *)
(* was not made: checked, set by whichever thread, comes after the echo.   *)
(***************************************************************************)
PatientIsSafe == crash = "null" => hasty

(***************************************************************************)
(* No reply is handed to process_pool_ twice, whatever is overwritten or   *)
(* wiped: what two threads of parse_pool_ parse, one of them takes.        *)
(***************************************************************************)
TakenOnce == \A m \in Messages : Listed(m) <= 1

(***************************************************************************)
(* A reply that was forwarded is in one place, unless an append was        *)
(* overwritten, or came between checked = true and the clearing of buff by *)
(* the last thread that found the echo: then it was wiped with it.         *)
(***************************************************************************)
Places(m) ==
  Listed(m) + Cardinality({i \in 1 .. 2 : m \in Bodies(<<wire, buff>>[i])})

NothingMissed ==
  lost = {} /\ conn = "up" /\ crash = "no" =>
    \A m \in Messages : Places(m) = IF m \in sent THEN 1 ELSE 0

(***************************************************************************)
(* The parser makes up at most one message, the empty one of a stage_ that *)
(* was found as PARSING_BODY: its sequence id is 0, that of the first      *)
(* call.                                                                   *)
(***************************************************************************)
MadeUpOnce == Listed(Null) <= 1

(***************************************************************************)
(* A connection that was made is checked at last if no reply is sent       *)
(* before: one that arrives with the echo, called for in haste or strayed, *)
(* stays in buff with it for ever.                                         *)
(***************************************************************************)
CheckedAtLast ==
  conn = "up" ~> \/ checked
                 \/ hasty \/ sent \intersect Strays # {}
                 \/ conn = "down" \/ crash # "no"

(***************************************************************************)
(* Once the connection is checked, every reply that was forwarded is       *)
(* handed to process_pool_ or has been lost to one of the races: what      *)
(* Parse leaves in its list when it returns 0 goes with what comes next.   *)
(***************************************************************************)
EveryReplyProcessed ==
  \A m \in Messages :
    m \in sent /\ checked ~> \/ \E p \in BagToSet(process) : p.of = m
                             \/ lost # {} \/ conn = "down" \/ crash # "no"
                             \/ stage_ = "other"
=============================================================================
