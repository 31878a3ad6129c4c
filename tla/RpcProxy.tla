------------------------------- MODULE RpcProxy -------------------------------
(***************************************************************************)
(* The proxy: RpcProxy (proxy.h, proxy.cc) and its RpcConnectionManager    *)
(* (connection_manager.h, connection_manager.cc), with the RpcConnection   *)
(* of each peer (connection.h).                                            *)
(*                                                                         *)
(* The thread of the event loop runs OnConnection and OnMessage; those of  *)
(* parse_pool_ run ParseMessage and those of process_pool_ ProcessMessage, *)
(* in any order, under the proxy's mutex_.  OnConnection takes the         *)
(* manager's mutex_ only.                                                  *)
(*                                                                         *)
(* A peer is a client's channel, which announces an id below 0 and sends   *)
(* once its announcement has been echoed, or a server, which announces an  *)
(* id above 0 and replies to requests: neither sends anything but its      *)
(* announcement before it has heard from the proxy.  A client turns hasty  *)
(* when its application uses the stub although GetStub has returned false. *)
(*                                                                         *)
(* What a peer sends is a sequence of units: the announcement, and for     *)
(* each message its header and its body.  TCP may deliver it in any        *)
(* pieces.  Part of a unit is as good as none of it, for the parsers leave *)
(* it in buff; but behind other units, part of a header is as good as all  *)
(* of it, for the parsers then miss the rest, or find the announcement not *)
(* alone.                                                                  *)
(***************************************************************************)
EXTENDS Integers, SequencesExt

CONSTANTS
  Conns,      \* the connections, by the names muduo gives them, used once
  Announces,  \* the id each peer announces
  Messages,   \* what is sent: the connection used, the dst_id, a number
  Meta,       \* the unit that carries the announcement
  Null        \* no connection

Piece == [part : {"header", "body"}, of : Messages]
Unit  == Piece \union {Meta}

ASSUME ProxyAssumption ==
  /\ Announces \in [Conns -> Int \ {0}]
  /\ Messages \subseteq [via : Conns, dst : Int \ {0}, n : Nat]
  /\ Meta \notin Piece
  /\ Null \notin Conns \union {"hung"}
  /\ "hung" \notin Conns
  /\ Null \notin [conn : Conns, data : Seq(Unit)]

Body(m) == [part |-> "body", of |-> m]
Bodies(units) == {m \in Messages : Body(m) \in Range(units)}

VARIABLES
  \* The peers and the network
  tcp,        \* the TCP connection, as the proxy's event loop will find it
  announced,  \* the peers that have sent their announcement
  heard,      \* the peers that have received something
  hasty,      \* the clients that have not waited for the echo
  wire,       \* what each peer has sent and the proxy has not read
  \* The RpcConnectionManager
  index,      \* the elements of conns_ in the order index rpc_conn_id keeps
  root,       \* the element at the root of that index
  \* The RpcConnections
  conn_id, checked, buff,
  message_list, \* the messages parsed and not yet taken, as a set
  parsed,       \* those whose parser has set its stage_
  \* The RpcProxy
  loop,       \* what OnMessage has read, while it waits for mutex_
  mutex,      \* the connection whose announcement is being accepted, or
              \* "hung" when the thread that has mutex_ will never return
  parses,     \* the tasks of parse_pool_, for each connection
  process,    \* the tasks of process_pool_
  \* What has become of the messages
  fate, receiver

peerVars  == <<tcp, announced, heard, hasty, wire>>
connVars  == <<conn_id, checked, buff, message_list, parsed>>
poolVars  == <<loop, mutex, parses, process>>
traceVars == <<fate, receiver>>
mapVars   == <<index, root>>
vars      == <<peerVars, mapVars, connVars, poolVars, traceVars>>

Init ==
  /\ tcp = [c \in Conns |-> "none"]
  /\ announced = {}
  /\ heard = {}
  /\ hasty = {}
  /\ wire = [c \in Conns |-> <<>>]
  /\ index = <<>>
  /\ root = Null
  /\ conn_id = [c \in Conns |-> 0]
  /\ checked = [c \in Conns |-> FALSE]
  /\ buff = [c \in Conns |-> <<>>]
  /\ message_list = [c \in Conns |-> {}]
  /\ parsed = {}
  /\ loop = Null
  /\ mutex = Null
  /\ parses = [c \in Conns |-> 0]
  /\ process = {}
  /\ fate = [m \in Messages |-> "new"]
  /\ receiver = [m \in Messages |-> Null]

-----------------------------------------------------------------------------
(***************************************************************************)
(* The RpcConnectionManager.  Index rpc_conn_id is a red-black tree that   *)
(* was built while the keys were others: ParseMessage changes conn_id in   *)
(* place.  A descent compares with the keys as they are.  It starts at the *)
(* root and ends between two neighbours, both of which it has passed.      *)
(*                                                                         *)
(* Of the shape of the tree, the root is kept.  That is all there is to    *)
(* know of up to three elements, where the root stays the first element    *)
(* inserted until there is a third, and becomes the one in the middle.     *)
(* Beyond that, what a change makes of the shape is left open within what  *)
(* the balance of such a tree allows.                                      *)
(***************************************************************************)
Registered == Range(index)

Key(i) == conn_id[index[i]]

Balanced(left, right) ==
  /\ left < 2 * (right + 1) * (right + 1)
  /\ right < 2 * (left + 1) * (left + 1)

\* The places where a descent may end that turns left at the positions in L.
Descents(L) ==
  {g \in 0 .. Len(index) :
     /\ g > 0 => g \notin L
     /\ g < Len(index) => g + 1 \in L
     /\ \A r \in 1 .. Len(index) : index[r] = root => (r \in L <=> r > g)}

Reshape ==
  root' \in IF Len(index') <= 2 /\ root \in Range(index') THEN {root}
            ELSE IF index' = <<>> THEN {Null}
            ELSE {index'[r] : r \in {i \in 1 .. Len(index') :
                                      Balanced(i - 1, Len(index') - i)}}

\* insert, with conn_id still 0: after the elements that are not greater.
Insert(c) ==
  /\ \E g \in Descents({i \in 1 .. Len(index) : Key(i) > 0}) :
       index' = InsertAt(index, g + 1, c)
  /\ Reshape

\* find: the first element that is not less, if it is equal.
LowerBounds(id) == Descents({i \in 1 .. Len(index) : Key(i) >= id})

\* Mutant: the lower bound is taken for the element.
GetLowerBound(id) ==
  {IF g < Len(index) THEN index[g + 1] ELSE Null : g \in LowerBounds(id)}

\* Mutant: upper_bound is taken for lower_bound.
GetUpperBound(id) ==
  {IF g < Len(index) /\ Key(g + 1) = id THEN index[g + 1] ELSE Null :
     g \in LowerBounds(id + 1)}

Get(id) ==
  {IF g < Len(index) /\ Key(g + 1) = id THEN index[g + 1] ELSE Null :
     g \in LowerBounds(id)}

Erase(c) ==
  /\ \/ c \notin Registered /\ UNCHANGED index
     \/ \E i \in DOMAIN index : index[i] = c /\ index' = RemoveAt(index, i)
  /\ Reshape

-----------------------------------------------------------------------------
(***************************************************************************)
(* The peers.                                                              *)
(***************************************************************************)
Open(c) == tcp[c] \in {"up", "closing", "rejected"}

Announce(c) ==
  /\ tcp[c] = "up"
  /\ c \notin announced
  /\ announced' = announced \union {c}
  /\ wire' = [wire EXCEPT ![c] = Append(@, Meta)]
  /\ UNCHANGED <<tcp, heard, hasty, mapVars, connVars, poolVars, traceVars>>

Send(m) ==
  /\ tcp[m.via] = "up"
  /\ \/ m.via \in heard
     \/ Announces[m.via] < 0 /\ m.via \in announced
  /\ hasty' = IF m.via \in heard THEN hasty ELSE hasty \union {m.via}
  /\ fate[m] = "new"
  /\ fate' = [fate EXCEPT ![m] = "sent"]
  /\ wire' = [wire EXCEPT ![m.via] =
                @ \o <<[part |-> "header", of |-> m], Body(m)>>]
  /\ UNCHANGED <<tcp, announced, heard, mapVars, connVars, poolVars, receiver>>

HangUp(c) ==
  /\ tcp[c] = "up"
  /\ tcp' = [tcp EXCEPT ![c] = "closing"]
  /\ UNCHANGED <<announced, heard, hasty, wire, mapVars, connVars, poolVars,
                 traceVars>>

-----------------------------------------------------------------------------
(***************************************************************************)
(* The event loop.                                                         *)
(***************************************************************************)
OnConnection(c) ==
  /\ loop = Null
  /\ tcp[c] = "none"
  /\ tcp' = [tcp EXCEPT ![c] = "up"]
  /\ Insert(c)
  /\ UNCHANGED <<announced, heard, hasty, wire, connVars, poolVars, traceVars>>

OnLostConnection(c) ==
  /\ loop = Null
  /\ tcp[c] \in {"closing", "rejected"}
  /\ tcp' = [tcp EXCEPT ![c] = "closed"]
  /\ Erase(c)
  /\ wire' = [wire EXCEPT ![c] = <<>>]
  /\ fate' = [m \in Messages |-> 
                IF m \in Bodies(wire[c]) THEN "lost" ELSE fate[m]]
  /\ UNCHANGED <<announced, heard, hasty, connVars, poolVars, receiver>>

\* Any part of what the peer has sent may have arrived.
OnMessage(c) ==
  /\ loop = Null
  /\ Open(c)
  /\ c \in Registered
  /\ \E n \in 1 .. Len(wire[c]) :
       /\ loop' = [conn |-> c, data |-> SubSeq(wire[c], 1, n)]
       /\ wire' = [wire EXCEPT ![c] = SubSeq(@, n + 1, Len(@))]
  /\ UNCHANGED <<tcp, announced, heard, hasty, mapVars, connVars, mutex, parses,
                 process, traceVars>>

\* Mutant: without MutexLock lock(&mutex_).
AppendDataUnlocked ==
  /\ loop # Null
  /\ buff' = [buff EXCEPT ![loop.conn] = @ \o loop.data]
  /\ parses' = [parses EXCEPT ![loop.conn] = @ + 1]
  /\ loop' = Null
  /\ UNCHANGED <<peerVars, mapVars, conn_id, checked, message_list, parsed,
                 mutex, process, traceVars>>

\* OnMessage goes on once it has mutex_.
AppendData ==
  /\ loop # Null
  /\ mutex = Null
  /\ buff' = [buff EXCEPT ![loop.conn] = @ \o loop.data]
  /\ parses' = [parses EXCEPT ![loop.conn] = @ + 1]
  /\ loop' = Null
  /\ UNCHANGED <<peerVars, mapVars, conn_id, checked, message_list, parsed,
                 mutex, process, traceVars>>

-----------------------------------------------------------------------------
(***************************************************************************)
(* ParseMessage.  The announcement must be all there is; a client has its  *)
(* echo before the connection is marked as checked.                        *)
(***************************************************************************)
\* Mutant: a thread of parse_pool_ that wakes without a task goes on.
ParseBeginsSpurious(c) ==
  mutex = Null

ParseBegins(c) ==
  /\ mutex = Null
  /\ parses[c] > 0

ParseDone(c) == parses' = [parses EXCEPT ![c] = @ - 1]

\* meta_parser->Parse() returns 1, or else -1.
MetaParsed(c) == buff[c] = <<Meta>>

RejectMeta(c) ==
  /\ ParseBegins(c)
  /\ ~checked[c]
  /\ ~MetaParsed(c)
  /\ IF c \in Registered
       THEN /\ tcp' = [tcp EXCEPT ![c] = "rejected"]
            /\ Erase(c)
       ELSE UNCHANGED <<tcp, mapVars>>
  /\ ParseDone(c)
  /\ UNCHANGED <<announced, heard, hasty, wire, connVars, loop, mutex, process,
                 traceVars>>

EchoMeta(c) ==
  /\ ParseBegins(c)
  /\ ~checked[c]
  /\ MetaParsed(c)
  /\ mutex' = c
  /\ heard' = IF Announces[c] < 0 /\ Open(c) THEN heard \union {c} ELSE heard
  /\ UNCHANGED <<tcp, announced, hasty, wire, mapVars, connVars, loop, parses,
                 process, traceVars>>

\* Mutant: checked = true is in the branch of the clients.
AcceptMetaClients(c) ==
  /\ mutex = c
  /\ mutex' = Null
  /\ conn_id' = [conn_id EXCEPT ![c] = Announces[c]]
  /\ checked' = [checked EXCEPT ![c] = Announces[c] < 0]
  /\ buff' = [buff EXCEPT ![c] = <<>>]
  /\ ParseDone(c)
  /\ UNCHANGED <<peerVars, mapVars, message_list, parsed, loop, process,
                 traceVars>>

AcceptMeta(c) ==
  /\ mutex = c
  /\ mutex' = Null
  /\ conn_id' = [conn_id EXCEPT ![c] = Announces[c]]
  /\ checked' = [checked EXCEPT ![c] = TRUE]
  /\ buff' = [buff EXCEPT ![c] = <<>>]
  /\ ParseDone(c)
  /\ UNCHANGED <<peerVars, mapVars, message_list, parsed, loop, process,
                 traceVars>>

\* What comes before an announcement, if there is one.
Parsable(c) ==
  LET i == SelectInSeq(buff[c], LAMBDA u : u = Meta)
  IN IF i = 0 THEN buff[c] ELSE SubSeq(buff[c], 1, i - 1)

(***************************************************************************)
(* message_parser->Parse goes through all of buff.  It returns 1, and the  *)
(* messages are taken from its list, only if what it has parsed last is a  *)
(* body.  An announcement where a header should be makes it clear buff and *)
(* return -1.                                                              *)
(*                                                                         *)
(* The parser's constructor leaves stage_ as it finds it.  If that is      *)
(* PARSING_BODY, Parse lists an empty message first, to any destination,   *)
(* which no peer answers; it is left out.                                  *)
(***************************************************************************)
\* Mutant: Parse returns 0 for a header alone, and forgets what it listed.
ParseMessagesForgetful(c) ==
  LET whole == Parsable(c) IN
  /\ ParseBegins(c)
  /\ checked[c]
  /\ buff' = [buff EXCEPT ![c] = <<>>]
  /\ parsed' = parsed \union {c}
  /\ IF whole = buff[c] /\ whole # <<>> /\ Last(whole).part = "body"
       THEN process' = process \union Bodies(whole)
       ELSE UNCHANGED process
  /\ ParseDone(c)
  /\ UNCHANGED <<peerVars, mapVars, conn_id, checked, message_list, loop, mutex,
                 traceVars>>

ParseMessages(c) ==
  LET whole  == Parsable(c)
      listed == message_list[c] \union Bodies(whole)
  IN /\ ParseBegins(c)
     /\ checked[c]
     /\ buff' = [buff EXCEPT ![c] = <<>>]
     /\ parsed' = IF buff[c] # <<>> THEN parsed \union {c} ELSE parsed
     /\ IF whole = buff[c] /\ whole # <<>> /\ Last(whole).part = "body"
          THEN /\ process' = process \union listed
               /\ message_list' = [message_list EXCEPT ![c] = {}]
          ELSE /\ message_list' = [message_list EXCEPT ![c] = listed]
               /\ UNCHANGED process
     /\ ParseDone(c)
     /\ UNCHANGED <<peerVars, mapVars, conn_id, checked, loop, mutex,
                    traceVars>>

\* stage_ is neither: Parse never leaves its loop.
ParseForEver(c) ==
  /\ ParseBegins(c)
  /\ checked[c]
  /\ buff[c] # <<>>
  /\ c \notin parsed
  /\ mutex' = "hung"
  /\ UNCHANGED <<peerVars, mapVars, connVars, loop, parses, process, traceVars>>

ParseMessage(c) ==
  \/ RejectMeta(c) \/ EchoMeta(c) \/ AcceptMeta(c)
  \/ ParseMessages(c) \/ ParseForEver(c)

-----------------------------------------------------------------------------
(***************************************************************************)
(* ProcessMessage: forward to the connection that Get finds.               *)
(***************************************************************************)
Forward(m) ==
  /\ mutex = Null
  /\ m \in process
  /\ process' = process \ {m}
  /\ \E c \in Get(m.dst) \ {Null} :
       /\ heard' = IF Open(c) THEN heard \union {c} ELSE heard
       /\ fate' = [fate EXCEPT ![m] = "delivered"]
       /\ receiver' = [receiver EXCEPT ![m] = c]
  /\ UNCHANGED <<tcp, announced, hasty, wire, mapVars, connVars, loop, mutex,
                 parses>>

Drop(m) ==
  /\ mutex = Null
  /\ m \in process
  /\ Null \in Get(m.dst)
  /\ process' = process \ {m}
  /\ fate' = [fate EXCEPT ![m] = "dropped"]
  /\ UNCHANGED <<peerVars, mapVars, connVars, loop, mutex, parses, receiver>>

ProcessMessage(m) == Forward(m) \/ Drop(m)

-----------------------------------------------------------------------------
Next ==
  \/ \E c \in Conns :
       \/ OnConnection(c) \/ OnLostConnection(c) \/ OnMessage(c)
       \/ ParseMessage(c)
       \/ Announce(c) \/ HangUp(c)
  \/ AppendData
  \/ \E m \in Messages : Send(m) \/ ProcessMessage(m)

Spec == Init /\ [][Next]_vars

(***************************************************************************)
(* The loop and the pools are scheduled.  No peer has to do anything.      *)
(***************************************************************************)
FairSpec ==
  /\ Spec
  /\ WF_vars(AppendData)
  /\ \A c \in Conns :
       /\ WF_vars(OnMessage(c))
       /\ WF_vars(OnLostConnection(c))
       /\ WF_vars(ParseMessage(c))
  /\ \A m \in Messages : WF_vars(ProcessMessage(m))

-----------------------------------------------------------------------------
TypeOK ==
  /\ tcp \in [Conns -> {"none", "up", "closing", "rejected", "closed"}]
  /\ announced \subseteq Conns
  /\ heard \subseteq Conns
  /\ hasty \subseteq Conns
  /\ wire \in [Conns -> Seq(Unit)]
  /\ index \in Seq(Conns)
  /\ root \in Conns \union {Null}
  /\ conn_id \in [Conns -> Int]
  /\ checked \in [Conns -> BOOLEAN]
  /\ buff \in [Conns -> Seq(Unit)]
  /\ message_list \in [Conns -> SUBSET Messages]
  /\ loop \in [conn : Conns, data : Seq(Unit)] \union {Null}
  /\ parsed \subseteq Conns
  /\ mutex \in Conns \union {Null, "hung"}
  /\ parses \in [Conns -> Nat]
  /\ process \subseteq Messages
  /\ fate \in [Messages -> {"new", "sent", "delivered", "dropped", "lost"}]
  /\ receiver \in [Messages -> Conns \union {Null}]

(***************************************************************************)
(* A peer that keeps to the protocol is never closed by the proxy: its     *)
(* announcement is never found together with a message, although it is the *)
(* echo, or a forwarded request, that lets the peer go on before           *)
(* ParseMessage has returned.                                              *)
(***************************************************************************)
NeverRejected == \A c \in Conns \ hasty : tcp[c] # "rejected"

(***************************************************************************)
(* Nothing a peer has sent vanishes inside the proxy, not even what it     *)
(* sends on the echo while buff has yet to be cleared: a message that is   *)
(* neither forwarded, dropped nor lost with its connection is still on its *)
(* way, in one place.                                                      *)
(***************************************************************************)
Places(m) ==
  (IF m \in Bodies(wire[m.via]) THEN {"wire"} ELSE {})
    \union (IF loop # Null /\ m \in Bodies(loop.data) THEN {"loop"} ELSE {})
    \union (IF m \in Bodies(buff[m.via]) THEN {"buff"} ELSE {})
    \union (IF m \in message_list[m.via] THEN {"list"} ELSE {})
    \union (IF m \in process THEN {"process"} ELSE {})

NothingVanishes ==
  \A m \in Messages :
    Cardinality(Places(m)) = IF fate[m] = "sent" THEN 1 ELSE 0

(***************************************************************************)
(* Every message that was sent is forwarded or dropped unless its connec-  *)
(* tion is lost: each OnMessage has a ParseMessage to follow it, and what  *)
(* Parse leaves in its list goes with what it parses next.  One parser     *)
(* whose stage_ is neither stops the whole proxy.                          *)
(***************************************************************************)
EveryMessageLeaves ==
  \A m \in Messages :
    fate[m] = "sent" ~> \/ fate[m] # "sent"
                        \/ tcp[m.via] = "closed" \/ mutex = "hung"

(***************************************************************************)
(* The proxy implements the abstract router: a message is forwarded once,  *)
(* and to a connection that announced its dst_id, however disordered the   *)
(* index has become.                                                       *)
(***************************************************************************)
Router == INSTANCE MessageRouter

ImplementsRouter == Router!Spec

(***************************************************************************)
(* What the comment in ProcessMessage says of a message that is dropped:   *)
(* its destination does not exist.                                         *)
(***************************************************************************)
DroppedOnlyIfGone ==
  [][\A m \in Messages :
       fate[m] # "dropped" /\ fate'[m] = "dropped" =>
         ~\E c \in Registered : checked[c] /\ conn_id[c] = m.dst]_vars

(***************************************************************************)
(* It is the order of the index alone that find misses a connection for:   *)
(* while no key is out of order, a message to an id that was announced by  *)
(* a connection in the index is not dropped.                               *)
(***************************************************************************)
Sorted == \A i, j \in 1 .. Len(index) : i < j => Key(i) <= Key(j)

MissesOnlyIfDisordered ==
  [][Sorted => \A m \in Messages :
       fate[m] # "dropped" /\ fate'[m] = "dropped" =>
         ~\E c \in Registered : conn_id[c] = m.dst]_vars
=============================================================================
