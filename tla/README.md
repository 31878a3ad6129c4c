# A verification of rrpc

rrpc is a small RPC system in C++: clients and servers connect to a proxy,
which forwards messages between them by the ids they announce. This directory
holds TLA+ models of its parts, TLC configurations that check them on small
instances, and TLAPS proofs of what matters most about each part, from the
client to the server, and about the system as a whole.

## The system

| Component | Source (src/src/) | State | Operations |
|---|---|---|---|
| RpcClient | client.h, client.cc | `mutex_`, a channel per server id | GetStub, SendRequest, AsyncRequest, RpcCallback |
| RpcController | controller.h | `timeout_`, failed flag | SetTimeout, IsTimeout, SetFailed, Reset (a no-op) |
| RpcChannel | channel.h, channel.cc | the connection, `sequence_id_`, `requests_`, `responses_`, `closures_`, `mutex_`, four pools | CallMethod, OnConnection, OnMessage, ParseMessage, ProcessMessage, ProcessCallback |
| RpcProxy | proxy.h, proxy.cc | `mutex_`, the connections, three pools | OnConnection, OnMessage, ParseMessage, ProcessMessage |
| RpcConnectionManager | connection_manager.* | `conns_`, indexed by name and by id | Insert, Remove, Get, Exist |
| RpcConnection | connection.h | `conn_id`, `checked`, `buff`, two parsers | |
| RpcConnectionMetaParser | connection_meta*, message_parser.h | `meta_` | Parse, GetMeta |
| RpcPbMessageParser | pb_message_parser.* | `stage_`, `header_`, `message_list_` | Parse, GetMessage |
| RpcPbServer, RpcServer, ServiceContext | pb_server.*, server.h, context.h | `mutex_` (two of them), the services, the connection, three pools | RegisterService, OnConnection, OnMessage, ParseMessage, ProcessMessage |
| ThreadPool | thread_pool.h | `queue_`, `time_queue_`, `latest_`, `pending_num_`, `running_task_id_`, `stop_` | Start, Stop, AddTask, AddPriorityTask, DelayTask, CancelTask, ThreadProc |
| Mutex, CondVar | mutex.h | the pthread objects | Lock, Unlock, Wait, TimeWait, Signal, Broadcast |
| Message codec | message.h, message_header.h, rrpc.proto | | Packaging |
| Closures, timer, facade, main | closure.h, timer.h, rrpc.h, proxy_main.cc | | |

A call goes from SendRequest or AsyncRequest through CallMethod to the wire; the
proxy's loop appends it to a buffer, a thread of `parse_pool_` parses it, one of
`process_pool_` forwards it; the server's loop, parser and service do the same
and reply; the channel's loop and pools take the reply to the caller, who polls
`responses_`, or to `callback_pool_`. Every arrow is a hand-over between threads
through a buffer, a map or a pool, and every peer may vanish meanwhile.

What is hard about it:

- CallMethod changes the channel's maps without the lock that ProcessMessage
  changes them under, and sends before it registers;
- one controller, and one deadline, serves all the retries of a call;
- all channels of a client announce the same id and number from 0;
- the channel's ParseMessage looks for the echo under no lock, sets `checked`
  and then clears the buffer, on several threads;
- Parse and OnMessage guard one buffer with two locks, in the server and in the
  channel: an append may be overwritten, and the header of one request then
  meets the body of another, whose response goes to the wrong client;
- `stage_` is not initialised: a parser may make up a message, or hang;
- a server that is started again is a second connection with the same id;
- `conn_id` is the key of an ordered index and is changed in place;
- the announcement, its echo and the first messages follow one another closely,
  in whatever pieces TCP makes of them;
- the pool's threads share one `running_task_id_`, sleep on one condition
  variable for two queues, and are stopped while they do.

What makes each component correct: the client answers each call once, with its
own reply, and SendRequest returns; the pool runs each task once and forgets
none; the proxy loses nothing and misroutes nothing; the server executes each
request once, one at a time, and misses none; together they execute a call at
most once per attempt and answer it unless something fails. The code keeps not
all of it. Where it does not, the properties name what they except: the wrong
message with just the right sequence id, the append that was overwritten, the
parser that hangs. `PROJECT.json` lists the hazards line by line, with the
properties that answer them, or a note where none can.

## The modules

| Module | What it is |
|---|---|
| `RpcChannel` | RpcClient, one RpcChannel and the controllers, as the application and ten threads use them |
| `RpcCalls` | abstract: a call is answered once, and successfully only if it was executed or a message that answers no request was taken for its answer; one such message serves one call |
| `RpcChannelProofs` | the inductive invariant and the theorems about `RpcChannel` |
| `ThreadPool` | ThreadPool on its condition variable, with a clock |
| `TaskExecutor` | abstract: a task is begun once and never after it was cancelled |
| `ThreadPoolProofs` | the inductive invariant and the theorems about `ThreadPool` |
| `RpcProxy` | the proxy, its manager and index, and the peers that keep to the protocol |
| `MessageRouter` | abstract: a message is delivered at most once, to who announced its destination |
| `RpcProxyProofs` | the inductive invariant and the theorems about `RpcProxy` |
| `RpcProxyIndexProofs` | the theorems about the proxy's index: what it holds, when find finds, what disorders it |
| `RpcPbMessageParser` | the parser of a connection, step by step, and the loop over GetMessage; extended by the next two |
| `RpcPbMessageParserProofs` | the invariant of a connection's parser and the lemma that each of its steps keeps it; extended by the proofs of its two users |
| `RpcPbServer` | the server with its connection and its services |
| `SerialService` | abstract: requests are executed one at a time, once |
| `RpcPbServerProofs` | the inductive invariant and the theorems about `RpcPbServer` |
| `ChannelConnection` | a channel's connection: the echo, `checked`, OnMessage and ParseMessage |
| `ChannelConnectionProofs` | the inductive invariant and the theorems about `ChannelConnection` |
| `RrpcSystem` | clients, the proxy and servers composed: `MessageRouter` between channels and serial servers, whose parsers may miss and join messages; implements `RpcCalls` |
| `RrpcSystemProofs` | the inductive invariant and the theorems about `RrpcSystem` |
| `MC*` | the instances TLC checks |

### RpcChannel

A *call* is the application thread that makes it, its request, its response
object and its controller. `pc` says where in SendRequest, AsyncRequest or
CallMethod its thread is; `clientMutex` is RpcClient's `mutex_`. `requests`,
`responses`, `closures`, `sequence_id` are the channel's members; `processing` is
the thread inside ProcessMessage, which runs under the channel's `mutex_` and is
two steps (`LookupRequest`, then `StoreReply` or `CopyReply`) because CallMethod
ignores that lock; `callbacks` is the queue of `callback_pool_`. Each write
CallMethod makes without the lock (`Send`, `Register`, `StoreClosure`,
`StoreResponse`) is a step of its own. Where it races with a thread inside
ProcessMessage on a std::map, `Race` lets the process die (`crash`) or not.

`Lossy` lets requests and the connection be lost. `Expire` is the deadline, at
any time after it was set. The stub is there to be used whatever GetStub has
returned (`HasStub`, client.h:46): a call before OnConnection dereferences an
empty `conn` (`crash = "unconnected"`).

`Foreign` are the messages that may reach ProcessMessage and answer no request
of this channel: replies to requests of other channels, with the ids
`StraySeqs` (the channels of a client share its id, and a server may address
a response to the wrong client), and the empty message with sequence id 0 that
the channel's parser makes up if it finds its uninitialised `stage_` to be
PARSING_BODY. ProcessMessage tells them from a reply by nothing, so the call
with that id is answered by them: call 0 may succeed although no server has
executed it. `OwnReply` and `ImplementsCalls` hold up to that, and say that
there is no other way.

The byte stream behind MetaEchoed and the replies is that of
`ChannelConnection`, which ends where this module begins: at a task of
`process_pool_`.

### ThreadPool

What a thread does between taking and releasing `mutex_` is one step: all it
touches is guarded by it, but for `pending_num_`, which Stop polls outside (so
that `Stop` is several steps). `thread` is where each thread is: at the top of
the loop, in Wait or TimeWait, in a task, before relocking after a delayed
task. A condition variable is the set of threads that sleep; Signal wakes any
one, and any may wake by itself. `Top` is the head of the priority queue, by
time and then id; the truncation to milliseconds is `WaitTime`, for which the
clock has `Tick` ticks per millisecond.

### RpcProxy

What a peer sends is a sequence of units: its announcement, and a header and a
body per message. OnMessage takes any prefix of it, so any coalescing and any
cut at a unit's end occurs. A cut within a unit is as good as one before it,
because both parsers leave an incomplete unit in `buff`; but part of a header
behind other units is as good as all of it, because the parser then returns 0,
or -1 if the announcement is not alone. A client may be `hasty` and send before
it has the echo: client.h:46 hands out a stub even where GetStub returns false. `mutex` is held across
steps only between the echo and the end of the acceptance (proxy.cc:91 to 101),
for the peer may act on the echo at once; or for ever (`"hung"`), when `stage_` is
found to be neither of its values.

`index` is the order in which the red-black tree of `boost::multi_index` holds the
connections, and `root` its root. Descents compare with the keys as they are
now, on a tree built with the keys as they were. For up to three elements,
order and root are the whole tree; beyond that `Reshape` leaves open what a
rotation makes of it within the balance of such trees. The instances have
three connections at most.

### RpcPbMessageParser, RpcPbServer and ChannelConnection

A connection's `buff` is a sequence of units: announcements, headers and bodies.
`parse` is the thread in Parse, step by step: it reads a unit, copies the rest of
`buff` and assigns the copy back, and OnMessage may append in between under
another lock; `lost` records what is overwritten so. A buffer that is changed
while a thread uses it may also break the process (`crash`). `stage_` starts as
anything: as PARSING_BODY it makes up an empty message, behind which all of
`buff` is copied and assigned back like any rest (`ReadNothing`,
`EmptyBodyParsed`), so that an echo that was cleared meanwhile may reappear; as
neither it never ends.
A thread whose Parse returned 1 goes on to take messages from the list; which
thread that is makes no difference, so `taking` is one flag.

In `RpcPbServer`, `running` is the message whose service runs, under the server's
`mutex_`; a service answers before it returns, for it is given no closure to
answer later with. A request is known or not to the registered service.

In `ChannelConnection`, the threads that found `checked` false are in `meta`: about
to look for the echo, about to set `checked`, or about to clear `buff`. Only an
echo that is alone in `buff` is found (`MetaParsed`); a spare part of a unit may
arrive alone `MaxSplits` times, which is how a second thread comes to look at the
same echo. `Strays` are replies that the proxy sends here for another channel of
the client. `hasty` tells whether the application called before `checked`; a call
before OnConnection dereferences an empty `conn` (`crash = "null"`).

### RrpcSystem

The proxy is `MessageRouter`, which `RpcProxy` implements; each server runs one
request after the other as `SerialService` has it, which `RpcPbServer` implements.
A message carries the connection it was sent on, its destination and its number: a
request its sequence id, a reply its request, of which the channel only compares
the sequence id. Servers connect at any time, several with one id; `Crash` ends a
server's process, `LoseConnection` is what the proxy sees of that, or of a broken
connection. SendRequest's retries are `Timeout`, `Retry` and `GiveUp` under its
client's mutex. `callOf` and `answer` record which call each id was given to, and
the message each call was answered with. A client is the channels that announce
one id; its applications have waited for GetStub, and its connections start up.

What reaches a process is not always handled, and what is handled did not always
reach it so. `Miss` stands for all the ways in which what has arrived comes to
nothing: overwritten in `buff` by Parse (pb_message_parser.cc:29, 57), cleared with
the echo (channel.cc:139), or left to a parser that hangs. (A hung parser of the
proxy is a `Drop`.) Of two requests that a server has missed, the header of one may
have met the body of the other (`ServeJoined`): the service then runs on the body
and the response goes to the sender in the header, under the sequence id of the
body, and so possibly to a client that never made that request (`Parsed`, `Reply`).
`IgnoreMessage` is a request for an unknown service or method. `ProcessMadeUp` is
the empty message with sequence id 0 that a channel's parser may make up.

A call is two steps, or three for an asynchronous one (`Call`, `Register`,
`StoreClosure`), because a reply may come before `requests_` has its id (then it
answers nothing), or before `closures_` and `responses_` have the callback: then it is
kept as that of a synchronous call and the callback never runs, or the client
dies of the NULL response. `RpcChannel` has the data races on these maps besides;
this module does not.

The sets `Missing`, `Ignoring`, `MakingUp` and `Breaking` bound where these things
happen in a run; the theorems hold for any of them.

## What is checked

| Run | Instance | States | What it shows |
|---|---|---|---|
| `client` | 1 synchronous call with 2 attempts, 1 asynchronous, 3 ids, losses, a foreign reply with id 1, the made-up message | 550 thousand | each caller gets its own reply or none, but for a foreign message with its id; waiting calls have different ids; the NULL dereference happens only between the writes of `closures_` and `responses_`, the empty connection is met only where GetStub returned false; the channel implements `RpcCalls` |
| `client_live` | 1 + 1 calls, 2 attempts, losses, the made-up message | 136 thousand | SendRequest returns; an answered asynchronous call is reported; its callback is queued once |
| `async_unanswered` | 1 asynchronous call | | violated: an asynchronous call that gets no reply is never reported |
| `retry_deadline` | 1 synchronous call, 2 attempts | | violated: after a timeout the retry starts out failed |
| `pool` | 2 threads, 1 task, 1 delayed task, delays 0 and 1 ms, 2 ticks per ms | 52 thousand | `TaskExecutor` is implemented; no lost wakeup; delayed tasks are watched; Stop(true) completes what was queued; tasks run; Stop, its polling included, and CancelTask return |
| `pool_cancel` | 2 threads, 2 delayed tasks | | violated: CancelTask returns while the task runs |
| `proxy` | a client that may be hasty, a server, 2 requests, 1 reply | 81 thousand | no message vanishes in the proxy; no peer that keeps to the protocol is closed; `MessageRouter` is implemented; find misses a connection only in an index that is out of order; every message leaves |
| `proxy_index` | a client, 2 servers, 1 request | | violated: a request for a connected server is dropped |
| `server` | 2 requests | 37 thousand | none is missed and each response goes to its sender, unless an append is overwritten; `SerialService` is implemented; all are handled in the end |
| `channel_connection` | the echo, a reply, a stray reply, 1 split | 340 thousand | who waits for GetStub never meets an empty connection; no reply is taken twice, and none is missed but to the two races; the parser makes up one message at most; the connection is checked unless a reply comes with the echo; every reply is handed on |
| `system` | client -1 with a channel to 1, client -2 with another; two servers with id 1, one of which may crash or be cut off; 1 synchronous call with 2 attempts, 1 asynchronous; 3 ids | 163 thousand | a call is executed at most once per attempt, by whichever server; the calls implement `RpcCalls` |
| `system_crossed` | client -1 with channels to 1 and 2, client -2 with a channel to 1, one server with id 1 where requests may be missed, joined or ignored; replies to client -2 may be missed and a message made up for it; 1 synchronous call with 2 attempts, 2 asynchronous; 2 ids | 236 thousand | a wrong answer has a cause: a sibling, a joined or a made-up message, always with the right sequence id; the calls of client -2 implement `RpcCalls` but for those; its requests come back as replies unless they, or their replies, have failed themselves |

The violations are findings, with the lines of code and of comment that
disagree, in `PROJECT.json`. Each property of the other runs is also seen to fail
on a changed copy of a definition, a plausible bug in the code it models; these
copies stand before the definitions they change, marked as mutants.

What the properties except. A property of a component that misses messages by its
design has to say which it speaks of, and some hazards are exactly what it
excepts. `OwnReply` and `AnswerHasCause` except the answers the code cannot tell
from the right one, and pin down which these are. `NothingMissed`, `OwnResponse`,
`EveryRequestHandled` and `EveryReplyProcessed` speak of what no append was
overwritten before and no echo cleared with (`lost`), and the last two of a parser
whose `stage_` is a stage and of a connection that is up; what holds beyond that is
`ImplementsService` and `TakenOnce`: nothing is executed or taken twice.
`CheckedAtLast` excepts a reply right behind the echo, after which the channel is
never checked. `EveryRequestHandled` counts a request for an unknown method as
handled, as the server does. `SyncReturns` excepts nothing but the end of the
process. Of the data races on the channel's maps (`crash = "race"`) the models say
where they are; nothing is claimed about a process after one. What Stop(true) says
of all pending tasks (thread_pool.h:63) holds of the tasks in `queue_`
(`StopCompletesQueued`): the delayed ones it abandons.

The bounds. Two calls with the same id, or a call and its late reply, need two
calls or two attempts; a foreign message with the id of either is one with id 0 or
with id 1. Two threads are enough for two of them to disagree about
`running_task_id_` or for one to sleep while the other works; two delayed tasks for
one to overtake the other, which `pool_cancel` has and `pool` has not: there,
`DelayedIsWatched` and `CancelReturnsAtLast` see one (`DelayedIsWatchedAlways` is
proved for any number). The index goes wrong with three connections, the last of
the sizes at which the model of the tree is exact; two requests on one connection
coalesce, overtake and tear. Two requests make the server's header of one meet the
body of the other. In `channel_connection` one split gives a second thread that
looks for the echo, one reply of each kind is all a wipe or a stray needs. In
`system` a second execution takes a second server with the same id and a second
attempt; in `system_crossed` a stray takes two channels of one client, a
misaddressed response two clients whose requests meet at a server, and the
unaffected calls a client with one channel. `MaxSeq` bounds the ids, an int32_t in
the code, far from its overflow; `MaxTime` bounds the clock, after which delayed
tasks whose time has come can still run.

Deadlock is not checked: every system here may come to rest, when its calls
have returned, its pool has stopped or its peers are gone. That nobody waits for
ever on somebody else is what the liveness properties say.

Fairness is weak, and per thread or pool: threads that can go on are scheduled,
the clock advances and a timed wait ends, tasks and services return, the peer of
a client serves what it receives unless the network loses it, and the proxy
echoes an announcement. `RrpcSystem` only assumes that it does not rest as long as
the proxy, a server, a channel or a caller has something to do; it may, but need
not, miss a message, join two or make one up. Nothing obliges an
application to call, a peer to send or hang up, the network to lose, or a thread
to wake without a signal. Where several threads of a pool compete, fairness is
that of the pool, whose `queue_` is first come, first served, or that of each task
where tasks are a set (`process` in `RpcProxy`). No property needs a lock to be
fair: where a thread waits for a lock (`AppendData`), the run shows that the
others run out of work, and they do because requests are bounded: whether an
endless stream of them could keep the event loop from the server's `mutex_` is a
question to the fairness of pthread mutexes.

## What is proved

`RpcChannelProofs` proves, for any calls, attempts, ids and foreign messages:

| Theorem | Says |
|---|---|
| `TypeCorrect` | `TypeOK` is an invariant |
| `CallbackOnceAlways` | no callback is queued twice or after its controller was deleted, whatever foreign messages arrive |
| `SequenceIdsUniqueAlways` | no two waiting calls have the same id |
| `CrashOnlyInWindowAlways` | the NULL dereference happens only in CallMethod's window, the empty connection is met only with a stub for which GetStub returned false |
| `OwnReplyAlways` | callers get their own replies, from a server that executed the request, but for a foreign message with just the id of the call |
| `ClientImplementsCalls` | `RpcChannel` implements `RpcCalls`: without execution a call succeeds only with a foreign message, and each of these serves one call |

The only assumption is `ChannelAssumption`: the sets of calls are disjoint, and the
values that stand for nothing are none of the others. Any replies to other
channels may arrive, and the made-up message.

The argument. `CallbackInv` is inductive by itself. The client's `mutex_` is held
by whoever is inside a call (`ControlInv`), so the id a thread reads is the one it
increments and ids stay below the counter and apart (`SeqInv`); a controller lives
until its callback (`ControllerInv`); a closure is stored under its own call's id
(`ClosureInv`); and a reply is accepted only while its id is in `requests_`, from
which the lookup removes it (`OnceInv`). `CallbackOnce` is not inductive without
the last: that a second reply is refused depends on what is pending. `OwnerInv`
then gives each id its owner: whatever carries the id, a request or a reply in
transit (`TransitInv`) or an entry of `responses_` (`SlotInv`), carries the data of
the call that drew it, whose request a server has executed, or is a foreign
message that was received. A slot can only be filled for a call that has yet to
look (`FreshInv`), so no call finds what was stored for an earlier one. `OwnReply`
is a part of `OwnerInv` (`AnswerInv`). The step of the refinement goes action by
action with the two before it: a call that succeeds does so with its own executed
reply, or with a foreign message that no other call was answered with, since no two
calls have the id it carries.

`ThreadPoolProofs` proves, for any finite sets of threads and tasks, any delays
and any bound on the clock (`PoolAssumption`):

| Theorem | Says |
|---|---|
| `PoolTypeCorrect` | `TypeOK` is an invariant |
| `StopCompletesQueuedAlways` | Stop(true) returns after the tasks it found in `queue_` or running |
| `NoLostWakeupAlways` | `queue_` never has a task while all threads sleep, unless the pool is stopped |
| `DelayedIsWatchedAlways` | all threads asleep include one that wakes in time for the first delayed task, unless the pool is stopped |
| `PoolImplementsExecutor` | `ThreadPool` implements `TaskExecutor` |

The argument. `queue_` holds the tasks accepted and not begun, once each
(`QueueInv`), so the head that a thread takes is accepted and is no longer there
afterwards. An item of `latest_` is owned by one accepted task through the id
that DelayTask drew (`ItemInv`), so a thread whose item is missing from `latest_`
finds it cancelled, and CancelTask cancels its own task. Each running task has
one thread (`RunningInv`), whence a free thread means fewer running tasks than
threads, by cardinality. `StopInv` follows the promised tasks through the stages
of Stop: while it polls they may wait, once it has read 0 they run or are done,
and when all threads have been joined, none runs. `NoLostWakeup` and
`DelayedIsWatched` are inductive beside them: whatever adds work signals, which
leaves a thread awake (`Signalled`), and a thread falls asleep only on an empty
`queue_`, for no longer than the first item's delay rounded down to a tick
(`WaitBound`). That a `time_queue_` with items has a first one, `Top`, is by the
least element of a set of naturals, first of the times and then of the ids.

`RpcProxyProofs` proves, for any connections, announced ids and messages
(`ProxyAssumption`: no id is 0, and the values that stand for nothing are none of
the others):

| Theorem | Says |
|---|---|
| `ProxyTypeCorrect` | `TypeOK` is an invariant |
| `NeverRejectedAlways` | the proxy closes no peer that waits for its echo |
| `NothingVanishesAlways` | a message on its way through the proxy is in exactly one place |
| `ProxyImplementsRouter` | `RpcProxy` implements `MessageRouter` |

The argument. What a peer has sent and no parser has seen is its `Stream`: the
units in `wire`, in `loop` and in `buff`, no unit twice (`StreamInv`), all of
messages the peer sends (`OwnerInv`). Cutting and appending move units within the
stream. A message leaves it for `message_list`, or for `process`, and is then in
no other of the three (`PlaceInv`), so it is forwarded once. The announcement is
sent once and is gone once `checked` is set (`MetaInv`); until then a peer that
waits has sent nothing else, and each of its parses finds it complete in `buff`
(`QuietInv`). That is inductive only with the fact that `mutex` is held from the
echo to the clearing of `buff`: what the peer sends on the echo has to wait in
`wire` or `loop`. A message is forwarded where it should be because Get compares
`conn_id` at the end of its descent, wherever that ends, and `conn_id` is 0 until
the acceptance and the announced id from then on. The order of the index and the
shape of its tree play no part: what they can do is make Get miss, which is the
finding of `proxy_index`.

`RpcProxyIndexProofs` proves, from the same assumption, what that finding leaves
to be said for the index:

| Theorem | Says |
|---|---|
| `IndexHoldsOpen` | it holds the connections that are open and not rejected, once each, and its root is one of them |
| `MissesOnlyIfDisorderedAlways` | while no key is out of order, no message is dropped whose destination a connection in the index has |
| `OnlyAcceptDisorders` | only a change of a `conn_id` takes the index out of order: connections that come and go keep it sorted |

The argument. RpcConnectionManager's Insert finds its connection not there yet
and Remove leaves it nowhere, because `IndexInv` keeps the elements of the index
those of the open connections, without repetition; and a repetition would also
give the root two positions. In a
sorted index the keys below the id are those before that place, so the element
behind it is the connection if there is one. Insert puts a connection behind the
keys that are not greater than its 0, which is where 0 belongs: a connection that was
never made has `conn_id` 0, for it has announced nothing (`IndexInv` with
`MetaInv`). With `proxy_index` this locates the defect: proxy.cc:97 is the one line
that makes ProcessMessage miss a live connection. These theorems hold for any
number of connections, beyond the three for which the shape of the tree is exact,
since `Reshape` leaves the root open there.

As `RrpcSystem` is built on `MessageRouter`, `ProxyImplementsRouter` and the
theorems about the system below are two links of one chain.

`RpcPbServerProofs` proves, for any requests, registered services and number of
tasks (`KnownAssumption`: the known requests are requests; `NullAssumption`: the
value that stands for nothing is no message):

| Theorem | Says |
|---|---|
| `ServerTypeCorrect` | `TypeOK` is an invariant |
| `RequestsNotMissed` | a request is in one place until it has been handled, unless an append was overwritten |
| `OwnResponseAlways` | a response goes to the sender of its request, unless an append was overwritten |
| `ServerImplementsService` | `RpcPbServer` implements `SerialService`, overwritten or not |

`ChannelConnectionProofs` proves, for any replies, strays and number of splits
(`ConnectionAssumption`, `NullAssumption`):

| Theorem | Says |
|---|---|
| `ConnectionTypeCorrect` | `TypeOK` is an invariant |
| `PatientIsSafeAlways` | an application that waits for GetStub never calls on a connection that was not made |
| `TakenOnceAlways` | no reply is handed on twice, whatever is overwritten or wiped |
| `MadeUpOnceAlways` | the parser makes up one message at most |
| `RepliesNotMissed` | a reply is in one place, but for the two races that `lost` records |

The argument is one for both, in `RpcPbMessageParserProofs`: `ParserInv` says what
the parser keeps, with what has yet to be appended to `buff`, what was sent and
what has been handled as parameters, and `ParserStep` that every step of Parse and
of the loop over GetMessage keeps it. No unit occurs twice in `buff` and what is
ahead of it, nor in the copy that the thread in Parse has made and what is ahead
(`UniqueInv`): both are needed, because the thread's assignment replaces one by the
other. What has been taken is no longer to be read (`OriginInv`), so a message is
listed once, whether or not an append was overwritten (`TakenInv`); the message that
a PARSING_BODY found at the start makes up is one more, once, for the stage that
makes it up comes before any header. Only while nothing has been overwritten is the
copy the beginning of `buff` and does every body follow its own header (`OrderInv`,
`WholeInv`): that is what makes a response its sender's. The copy that is made behind the made-up
message may also be the echo, which another thread has cleared from `buff` since:
assigned back, it stands there again. None of it is inductive without `StageInv`, which ties `stage_` to what the thread in Parse has
read. The server adds that what runs has been executed and what has been executed
runs or was answered (`ServiceInv`); the channel, that no echo is to be read before
the proxy has sent it (`EchoInv`), or a second would repeat it. Both add that
nothing happens before the connection (`FreshInv`), where OnConnection clears
`buff`; that `checked` is not set there either is what keeps the patient
application safe.

`RrpcSystemProofs` proves, for any clients, channels, servers and ids, and any
connections and servers that may be lost (`SystemAssumption`: clients announce
negative ids, servers positive ones, channels aim at positive ones):

| Theorem | Says |
|---|---|
| `SystemTypeCorrect` | `TypeOK` is an invariant; no call is attempted more than `retry_times` times |
| `AnswerHasCauseAlways` | a call is answered with the executed response to its own request, or by one of three causes: the message that its channel's parser made up; a request with the same sequence id that a channel of the same client made; such a request's header, joined by a server to the body of another |
| `ExecutedPerAttemptAlways` | all the servers together execute a call once per attempt at most |
| `SystemImplementsCalls` | the calls on an only channel with their id behave as `RpcCalls`: without execution they succeed only with a made-up message, or with a response that was sent to another client than the one that made the request, and each of these serves one call |

The argument. `SystemInv` joins what the parts know of one another. A sequence
id below a channel's counter belongs to one call of the channel, for good
(`CallInv`); what is in `requests_` was sent (`RegisterInv`). A message that is
somewhere was sent: a request has a sequence id that was given out, a reply is what
its server made of something it executed, and what is delivered is with a
connection that announced its destination (`MessageInv`). Header and body of what
a server executes were delivered to it, and are one request's or were both missed;
no body is executed twice, at one server because of the parser, at two because it
was delivered to one (`ServerInv`). Hence a reply that reaches a channel was
addressed to its client by the header of a request of a channel with that id
(`ArrivedReply`), which is the cause `AnswerHasCause` asks for; it is inductive
because neither what is executed nor what is missed is ever taken back. For an
only channel, an answer that is not misaddressed is the reply to the channel's own
request, which is the step of the refinement that is not obvious; and a message
that was taken for an answer is not taken again (`TakenInv`), so a misaddressed one
serves one call. That a restart adds no execution is a matter of counting:
executions inject, by their bodies, into the sequence ids of their call, of which
it has no more than attempts (`AttemptInv`).

Model-checked only: liveness, which is beyond the prover with its fairness and
ENABLED. Every invariant and every refinement that the passing runs check is also
proved. Facts that need induction over recursive definitions are beyond the prover
too; the models have none.

## What is not modelled

- `closure.h`: generated argument binding; `timer.h` but for a clock; formatting.
- Bytes: sizes, magics, the check of `connection_meta.h:28` (which accepts either
  the magic or the crc), the cut of data at a zero byte (`channel.cc:48`,
  `pb_server.cc:122`).
- The proxy's parser that starts in PARSING_BODY lists one empty message with
  arbitrary ids; no peer answers it. Left out of `RpcProxy`, modelled in
  `RpcPbServer`.
- muduo, protobuf and boost, but for what is said above; Stop of the loops' pools,
  which joins a thread that nothing makes return; RpcPbServer::Start, which
  returns no value (`pb_server.cc:29`).
- The wrap of `sequence_id_` after 2^31 calls; callers of the pool inside its own
  tasks.
- Peers that do not keep to the protocol.

## The plan

Done, in this order: the client with its proofs, the pool with its proofs, the
proxy with its proofs, the server, the parser as a module of its own, the
channel's connection, the composed system with its proofs, the proofs about the
parser's two users and about the proxy's index.

1. That an index of at most three connections is what it is for the tree of
   `boost::multi_index`: a reference tree with its rotations, checked against
   `Descents` and `Reshape`.
2. The pool's CancelTask and Stop as theorems about steps: what they may do to
   a task that runs.
3. The codec: Packaging and Parse as functions of byte sequences over a tiny
   alphabet, checked against one another for every message and every cut.
4. The pool's profiling counters, and callers inside tasks; Mutex with its
   `owner_`, which CondVar and AssertHeld share.

## Running it

    tlc -workers 2 -config MCRpcChannel.cfg MCRpcChannel
    tlc -workers 2 -config MCRrpcSystem.cfg MCRrpcSystem
    tlc -workers 2 -config MCRrpcSystemCrossed.cfg MCRrpcSystem
    tlapm RpcChannelProofs.tla
    tlapm ThreadPoolProofs.tla
    tlapm RpcProxyProofs.tla
    tlapm RpcProxyIndexProofs.tla
    tlapm RpcPbMessageParserProofs.tla
    tlapm RpcPbServerProofs.tla
    tlapm ChannelConnectionProofs.tla
    tlapm RrpcSystemProofs.tla
