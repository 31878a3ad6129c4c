-------------------------- MODULE RpcPbMessageParser --------------------------
(***************************************************************************)
(* The RpcPbMessageParser of a connection (pb_message_parser.h,            *)
(* pb_message_parser.cc) and the loop over GetMessage that every           *)
(* ParseMessage has behind it.  RpcPbServer and ChannelConnection extend   *)
(* this module: there the threads of parse_pool_ hold the parser's mutex_  *)
(* in Parse, and buff is appended to under another.  Parse reads buff,     *)
(* copies what is left of it and assigns the copy back: what has been      *)
(* appended between is overwritten.                                        *)
(*                                                                         *)
(* A message is a header and a body; TCP delivers them in any pieces.      *)
(* Part of either is as good as none of it, for the parser leaves it in    *)
(* buff; but behind a body, part of a header is as good as all of it, for  *)
(* Parse then returns 0 for want of the rest.                              *)
(***************************************************************************)
EXTENDS FiniteSets, Integers, BagsExt, SequencesExt

CONSTANTS
  Messages,  \* the messages that may be sent to the connection
  Null       \* no message, no unit, no thread

\* A connection announces itself with a Meta; a channel has it echoed.
Meta      == [part |-> "meta", of |-> Null]
Header(m) == [part |-> "header", of |-> m]
Body(m)   == [part |-> "body", of |-> m]

Unit == [part : {"header", "body"}, of : Messages] \union {Meta}

Bodies(units) == {m \in Messages : Body(m) \in Range(units)}

\* src_id is that of the header, the meta and the data are of the body.
Message == [from : Messages \union {Null}, of : Messages \union {Null}]

ASSUME NullAssumption == Null \notin Messages \union Message \union Unit

VARIABLES
  buff,
  stage_,
  header_,       \* whose header was read last, Null for the sizes 0 before
  message_list,
  parse,         \* the thread in Parse: where it is, its ret, what it copied
  taking,        \* some thread is in the loop over GetMessage
  process,       \* the tasks of process_pool_, a bag
  lost,          \* what was overwritten or wiped in buff
  crash          \* what the process died of

parserVars == <<stage_, header_, message_list>>
taskVars   == <<taking, process>>
streamVars == <<buff, parserVars, parse, taskVars, lost, crash>>

\* The constructor leaves stage_ as it finds it.
ParserInit ==
  /\ buff = <<>>
  /\ stage_ \in {"header", "body", "other"}
  /\ header_ = Null
  /\ message_list = <<>>
  /\ parse = Null
  /\ taking = FALSE
  /\ process = EmptyBag
  /\ lost = {}
  /\ crash = "no"

\* A change of buff while another thread uses it may break the string.
Race(concurrent) ==
  crash' \in IF concurrent \/ parse # Null THEN {"no", "race"} ELSE {"no"}

-----------------------------------------------------------------------------
(***************************************************************************)
(* Parse, by the thread that has the parser's mutex_.  A thread that finds *)
(* data and neither stage never leaves.                                    *)
(***************************************************************************)
At(place) == parse # Null /\ parse.at = place

ParseBegins ==
  /\ parse = Null
  /\ parse' = [at |-> "loop", ret |-> 0, unit |-> Null, rest |-> <<>>]
  /\ UNCHANGED <<buff, parserVars, taskVars, lost, crash>>

\* ParseMessage goes on to GetMessage if ret is 1.
Return(ret) ==
  /\ parse' = Null
  /\ taking' = (taking \/ ret = 1)
  /\ UNCHANGED <<header_, message_list, process, crash>>

ParseEnds ==
  /\ At("loop")
  /\ buff = <<>>
  /\ Return(parse.ret)
  /\ UNCHANGED <<buff, stage_, lost>>

\* The loop finds PARSING_BODY, from an earlier Parse or as stage_ was found.
ResumeBody ==
  /\ At("loop")
  /\ buff # <<>>
  /\ stage_ = "body"
  /\ parse' = [parse EXCEPT !.at = "body"]
  /\ UNCHANGED <<buff, parserVars, taskVars, lost, crash>>

\* Read the first unit of buff, and copy what is left.
CopyRest(to) ==
  /\ parse' = [parse EXCEPT !.at = to, !.unit = Head(buff), !.rest = Tail(buff)]
  /\ UNCHANGED <<buff, parserVars, taskVars, lost, crash>>

ReadHeader ==
  /\ At("loop")
  /\ stage_ = "header"
  /\ buff # <<>>
  /\ Head(buff).part = "header"
  /\ CopyRest("header")

ReadBody ==
  /\ At("body")
  /\ header_ # Null
  /\ buff # <<>>
  /\ Head(buff).part = "body"
  /\ CopyRest("data")

\* Assign the copy: what was appended since is gone.
AssignRest ==
  /\ buff' = parse.rest
  /\ lost' = lost \union (Range(buff) \ ({parse.unit} \union Range(parse.rest)))
  /\ UNCHANGED <<taskVars, crash>>

\* Mutant: message_.src_id is not assigned.
ReadIdsOnce == header_' = IF header_ = Null THEN parse.unit.of ELSE header_

ReadIds == header_' = parse.unit.of

HeaderParsed ==
  /\ At("header")
  /\ AssignRest
  /\ stage_' = "body"
  /\ ReadIds
  /\ parse' = [parse EXCEPT !.at = "body"]
  /\ UNCHANGED message_list

\* Mutant: stage_ = PARSING_HEADER is missing.
PushMessageNoReset(m) ==
  /\ message_list' = Append(message_list, m)
  /\ parse' = [parse EXCEPT !.at = "loop", !.ret = 1]
  /\ UNCHANGED <<stage_, header_>>

PushMessage(m) ==
  /\ message_list' = Append(message_list, m)
  /\ stage_' = "header"
  /\ parse' = [parse EXCEPT !.at = "loop", !.ret = 1]
  /\ UNCHANGED header_

BodyParsed ==
  /\ At("data")
  /\ AssignRest
  /\ PushMessage([from |-> header_, of |-> parse.unit.of])

\* The sizes of a header_ that was never read are 0: an empty message, behind
\* which all of buff is left.
ReadNothing ==
  /\ At("body")
  /\ header_ = Null
  /\ parse' = [parse EXCEPT !.at = "empty", !.unit = Null, !.rest = buff]
  /\ UNCHANGED <<buff, parserVars, taskVars, lost, crash>>

EmptyBodyParsed ==
  /\ At("empty")
  /\ AssignRest
  /\ PushMessage([from |-> Null, of |-> Null])

\* Mutant: stage_ is reset before return 0.
StageReset == stage_' = "header"

StageKept == UNCHANGED stage_

BodyMissing ==
  /\ At("body")
  /\ header_ # Null
  /\ buff = <<>>
  /\ Return(0)
  /\ StageKept
  /\ UNCHANGED <<buff, lost>>

\* What stands for a header is none, or shorter than one, for there is no whole
\* message behind it.  A Meta is there if it has been found and not yet been
\* cleared, or if it was in a copy that was assigned since.
HeaderInvalid ==
  /\ At("loop")
  /\ stage_ = "header"
  /\ buff # <<>>
  /\ Head(buff).part # "header"
  /\ \/ /\ \A m \in Messages : ~({Header(m), Body(m)} \subseteq Range(buff))
        /\ Return(0)
        /\ UNCHANGED <<buff, lost>>
     \/ /\ buff # <<Meta>>
        /\ Return(-1)
        /\ buff' = <<>>
        /\ lost' = IF Head(buff) = Meta THEN lost \union Range(buff) ELSE lost
  /\ UNCHANGED stage_

\* What stands for a body is too short or does not parse.
BodyInvalid ==
  /\ At("body")
  /\ header_ # Null
  /\ buff # <<>>
  /\ Head(buff) # Body(header_)
  /\ \/ Return(0) /\ UNCHANGED <<buff, stage_>>
     \/ Return(-1) /\ buff' = <<>> /\ stage_' = "header"
  /\ UNCHANGED lost

Parse ==
  \/ ParseEnds \/ ResumeBody
  \/ ReadHeader \/ HeaderParsed \/ HeaderInvalid
  \/ ReadBody \/ BodyParsed \/ BodyMissing \/ BodyInvalid
  \/ ReadNothing \/ EmptyBodyParsed

-----------------------------------------------------------------------------
(***************************************************************************)
(* ParseMessage goes on: the loop over GetMessage.                         *)
(***************************************************************************)
\* Mutant: pop_front is missing.
PopFrontMissing == UNCHANGED message_list

PopFront == message_list' = Tail(message_list)

\* Mutant: one message is taken, not all.
TakeAnotherNot == taking' = FALSE

TakeAnother == UNCHANGED taking

TakeMessage ==
  /\ taking
  /\ parse = Null
  /\ message_list # <<>>
  /\ process' = BagAdd(process, Head(message_list))
  /\ PopFront
  /\ TakeAnother
  /\ UNCHANGED <<buff, stage_, header_, parse, lost, crash>>

NoMessageLeft ==
  /\ taking
  /\ parse = Null
  /\ message_list = <<>>
  /\ taking' = FALSE
  /\ UNCHANGED <<buff, parserVars, parse, process, lost, crash>>

GetMessages == TakeMessage \/ NoMessageLeft

-----------------------------------------------------------------------------
ParserTypeOK ==
  /\ buff \in Seq(Unit)
  /\ stage_ \in {"header", "body", "other"}
  /\ header_ \in Messages \union {Null}
  /\ message_list \in Seq(Message)
  /\ parse = Null \/ parse \in [at : {"loop", "header", "body", "data", "empty"},
                                ret : {0, 1}, unit : Unit \union {Null},
                                rest : Seq(Unit)]
  /\ taking \in BOOLEAN
  /\ IsABag(process) /\ BagToSet(process) \subseteq Message
  /\ lost \subseteq Unit
  /\ crash \in {"no", "race", "null"}

\* How often m is listed or handed on.
Copies(m) ==
  UNION {{p} \X (1 .. process[p]) : p \in {q \in BagToSet(process) : q.of = m}}

Listed(m) ==
  Cardinality({i \in DOMAIN message_list : message_list[i].of = m})
    + Cardinality(Copies(m))
=============================================================================
