# NexusGo: TLA+ models, checks and proofs

NexusGo is an instant-messaging system in Go: **gateways** keep the WebSocket
connections of users, **Logic** instances store messages and know the social
graph, an **Agent** service answers `ai_chat` messages, and the home-grown
**GrowRPC** framework connects them, beside RabbitMQ, Redis, MySQL and etcd.
This directory holds TLA+ models of it, the TLC configurations that check them
and TLAPS proofs of what matters most. All paths below are
relative to the repository.

## 1. Inventory

| Part | State it keeps | Operations | Talks to | Module |
|---|---|---|---|---|
| Upload consumer, `apps/logic/service/upload_consumer.go` | deliveries held from `logic.upload.queue`, `batchCh`, rows of `messages` and `conversations` | `handleUploadDelivery`, `batchInsertWorker`, `updateConversationAndPush`, `handleGroupChat`, `handleAIChat` | RabbitMQ, MySQL, Redis (routes) | `UploadConsumer` |
| Gateway presence and delivery, `apps/gateway/ws` | `GlobalCliMap`, per connection `SendChan` and `closed`, the Redis key `route:user:<id>` | `Handler`, `Register`, `Remove`, `SendMessage`, `Close`, pumps, `syncMessage`, `handleMQDelivery` | Logic by RPC, its queue `gateway.queue.<addr>` | `Delivery` |
| Gateway chat handlers, `apps/gateway/ws/{chat,reliability}.go` | per-conversation sequence numbers in Redis | `handleSingleChat`, `handleGroupChat`, `handleAIChat`, `GetNextSeqID` | upload queue, Agent (SSE) | `Ingress` |
| Snowflake ids, `apps/pkg/utils/snowflake.go` | last timestamp, sequence | `Generate`, `ParseSnowflakeID` | every writer of `messages` | `Snowflake` |
| RabbitMQ wrapper, `apps/pkg/mq` | publish channels with confirms, queue declarations | `InitRabbitMQ`, `PublishUpload`, `PublishDown`, `Consume` | broker | in its users |
| GrowRPC client and server | `seq`, `pending`, `closing`, `shutdown`, the locks `sending` and `mu` | `send`, `receive`, `terminateCalls`, `Call`, `Close`; `serveCodec`, `handleRequest` | one TCP connection | `RpcCall` |
| Its handshake | buffers of both ends, codec chosen | `XDial`, `dialTimeout`, `NewHTTPClient`, `ServeHTTP`, `ServeConn` | | `Handshake` |
| Codecs, `GrowRPC/codec` | bufio writer, stream | `Write`, `ReadHeader`, `ReadBody` | | `Wire` |
| GrowRPC pool | `idle`, `active`, `waitCh`, `closed` | `Get`, `Put`, `cleanIdle`, `Close` | callers in `XClient` | `ConnPool` |
| XClient | a pool per server | `dial`, `call`, `Broadcast`, `Close` | pools | `XClient` |
| Registration and discovery | etcd keys and leases; server list and hash ring | `Register`, keep-alive, `reRegister`, `Deregister`; watch loop, ring `Get` | etcd | `Discovery` |
| Friendship and history, `apps/logic/service` | `friends`, `conversations`, `messages`, cached first pages | apply, resolve, delete; `GetChatHistory`, `invalidateChatCache` | MySQL, Redis | `History` |
| Groups | `groups`, `group_members`, group conversations | create, join, leave, dissolve, fan-out | MySQL | `Groups` |
| Accounts | `users`, tokens | register, login, update, info, search, JWT middleware | MySQL | `Accounts` |
| Scheduled messages, `apps/agent/task` | rows with a status | create, claim, send, mark, report | MySQL | `Scheduler` |
| Agent memory | Redis list of a session | append, compress | Redis, model | `Memory` |
| Agent engine and configuration | cached runner and summary model, retrieval pipeline | `GetAgentGraphRunner`, `SetChatModel`, `Reload` | | `RunnerCache` |
| Approvals | channel per checkpoint, interrupt state | `ChatSSE`, `PushSessionDecision`, `WrapInvokableToolCall` | client | `Session` |
| Middleware | rate-limit set in Redis, messages of an answer | `checkRateLimit`, trimming, continuation | Redis, model | `AgentRun` |
| Retrieval | none | fusion, rerank, search, group texts, recall | MySQL, Milvus | `Retrieval` |
| Documents | chunks of a text, Milvus | `Chunk`, `IndexDocumentHandler` | Milvus | `Documents` |

How a message travels: the sender's gateway publishes it to the upload queue and
waits for the confirmation; one of the competing Logic instances takes it, looks
up the recipient's route in Redis, inserts the row, raises the recipient's unread
counter, publishes it to the exchange of the recipient's gateway and acknowledges.
The gateway's consumer finds the local connection, puts the frame into its
`SendChan` and tells Logic that it was delivered; the recipient confirms it
later. A recipient without a connection gets the message from `SyncUnread` at the
next login.

What is hard about it: at-least-once delivery between every pair of stages;
instances that lose their broker connection and go on working; a batch insert one
row of which may fail; a route read before an insert and used after it; two
handlers of one user interleaving on one map entry and one Redis key; frames
queued but never written; a pool that releases its lock in the middle of `Get`;
calls that are answered twice, time out, or are being written while the
connection dies; buffers of a handshake that take bytes of the stream behind it;
leases that end while their owner believes in them; pages cached after the
sweep that should have removed them; requests of several statements without a
transaction; a decision on a tool call that comes twice or a round late.
`PROJECT.json` lists each of these hazards at its line with the properties that
would notice it going wrong.

## 2. Modules

| Module | Models | Composition |
|---|---|---|
| `MessageLog` | abstract promise of the upload pipeline | implemented by `UploadConsumer` |
| `UploadConsumer`, `MCUpload` | the Logic consumer with broker, MySQL and competing instances | instantiates `MessageLog` as `Log` |
| `ChatPromise` | abstract promise of a `server_ack`, end to end | extends `MessageLog`; implemented by `ChatPath` |
| `ChatPath`, `PathProofs` | gateways and upload consumers over the queue they share | composes `Ingress` and `UploadConsumer`; instantiates `ChatPromise` as `Promise` |
| `Delivery`, `DeliveryProofs`, `MCDelivery` | presence, delivery, synchronisation and marks for one receiver | Logic's side reduced to `Lookup`, `Store`, `Publish` |
| `ConnPool`, `ConnPoolProofs` | the connection pool | |
| `RemoteCalls` | abstract promise of a remote procedure call | implemented by `RpcCall` |
| `RpcCall`, `Wire`, `Handshake`, `XClient`, `RpcProofs`, `MCRpc` | one connection's calls, its stream, its opening; many connections | `RpcProofs` and `MCRpc` extend the four |
| `Discovery`, `DiscoveryProofs`, `MCDiscovery` | registration, discovery, hash ring | |
| `Snowflake`, `Ingress` | identifiers; frames entering a gateway | `Ingress` extends `Snowflake` and calls its `Generate` |
| `History`, `Groups`, `Accounts`, `ChatProofs`, `MCChat` | the Logic services with their HTTP handlers | `ChatProofs` and `MCChat` extend them, `MCChat` also `Ingress` |
| `Scheduler`, `MCSchedule` | scheduled messages | |
| `Memory`, `RunnerCache`, `Session`, `AgentRun`, `Documents`, `Retrieval`, `AgentProofs`, `MCAgent` | the Agent | `MCAgent` extends them, `Scheduler` and `ChatPath`; `AgentProofs` all but `Retrieval` and `ChatPath` |
| `NatOrder` | lemmas on sets of numbers, for the proofs | extended by `ChatProofs` and `DiscoveryProofs` |

`MCRpc`, `MCChat` and `MCAgent` put components side by side that share no state in
the models: a variable `part` says which one a behaviour is about, so that a run
explores the sum of their state spaces and not the product.

### UploadConsumer

`up[m]` and `owner[m]` are the broker's view (queue, unacknowledged at an
instance, settled); `linked` says which instances still have their AMQP
connection; `stage[l][m]` is the program counter of instance `l` with message
`m`, `addr` and `todo` are its locals (the routes found by `MGet`, the members
still to be served); `rows` and `bumps` count rows and raises of `unread_count`
in MySQL, `down` what was published towards gateways.

`Deliver` and `RejectCorrupt` are `handleUploadDelivery`; `LookupRoutes`,
`BatchInsert` and `SingleInsert` are a flush of `batchInsertWorker` with its
one-by-one fallback; `UpdateConversation` and `PushDown` are the goroutine that
follows a stored single chat; `GroupMembers` and `GroupMember` are the fan-out;
`HandleAI` is `handleAIChat`; `Ack` is the common end. A database or broker call
that reports an error may or may not have been applied, so every failing branch
has both outcomes. `Crash` restarts an instance. `LoseConnection` is the quieter
failure: the broker requeues the instance's deliveries, `consumeUploadLoop` ends,
nothing reconnects, and the goroutines keep working on messages another instance
now owns.

Abstractions: each instance has one batch worker, because workers share only
MySQL and Redis, as instances do. `batchCh` (5000) exceeds the prefetch (2000),
so sending to it never blocks. Rows a user asks to delete are not part of this
pipeline. The publication to the vector exchange is dropped by the broker, its
consumer being disabled. Cache invalidation changes no modelled state. `Unnumbered`
are the AI messages whose gateway got no number from Redis: they carry `msg_id` 0, the
column's `AUTO_INCREMENT` numbers their row, and a redelivery meets no duplicate key.
`GroupMember` is the row, the conversation and the push of one member in one step. One
goroutine runs them in this order, nobody else writes that member's row or counter on
behalf of this delivery, and the step's outcomes contain every prefix (nothing, the row
alone, row and counter, all three), so that a crash between two statements is a prefix
followed by `Crash`. That costs two faults: run `upload` has one, `upload_redelivery` two,
the proofs any number.

### ChatPath and ChatPromise

`ChatPath` is the conjunction of both ends of the upload queue. `Upload(f)` is one
step of both: the publish that enters the queue (`Ingress!PublishUpload`) is the arrival
at the consumers (`Arrive`). All other steps belong to one side (`Gateway`,
`Consumers`), and `Others` are messages these gateways did not send. Route keys
(`online`) and map entries (`conn`) are separate state, as in the code.

`ChatPromise` says what a sender may conclude from a `server_ack`: the message was
accepted, so it is still queued, has its recipient's row or was dead-lettered; or it was
discarded because nobody had declared the queue yet, and then it is never accepted.

### Delivery

One user, who may open several connections (`Conns`) to several gateways
(`Home`). `stage[c]` is where `Handler`/`ReadPump` of a connection is; `closed`,
`queue`, `written` describe its `Client`; `client[g]` is the entry in
`GlobalCliMap`; `route` the Redis key; `work`/`dest` Logic's progress with a
message; `down`, `picked`, `notify` the gateway consumer's; `stored`, `read`,
`status` the row. `Register` (under the map's lock) to `Close` follow the handler
of a connection; `SendMessage` is the `select` with its overflow branch, which
closes the client; `Pick` and `Push` are separate because the connection found may
be gone when the frame is sent.

Abstractions: a single receiver, since neither the entry, the key, the queue nor
the rows are shared between users. Kicks, pongs, acknowledgements and receipts
are one kind of frame. The key's time to live (24 h at login, 30 s after a ping)
becomes an expiry at any moment. `UploadConsumer` has the detail of Logic.

### ConnPool

`pc[p]` is where a caller is in `Get`/`Put`; `mine[p]` the connection it holds;
`idle`, `active`, `closed` are the fields, `tokens` the signals in `waitCh`,
`drain` what `Close` took out but has not closed, `released` whether `waitCh` is
closed. A step is what happens during one acquisition of `p.mu`, so `GetBad` and
`Discard` are two steps (the lock is released to close a bad connection), and so
are `GetReserve` and `Dialled`/`DialFails`, `Close` and `Release`. Abstractions:
time (an idle connection may expire at any moment) and the LIFO order of idle
connections. The closing of what `cleanIdle` filtered out is one step with the
filtering: nobody else can reach those connections.

### RpcCall

Calls of one client over one connection. `sending` is a variable because `send`
holds it across the write and `terminateCalls` waits for it; what happens under
`mu` alone is one step. A server request may be answered by its time-out and again
by its late handler. Responses arrive in any order. `Break` is any end of the
transport, `Close` the client's own; what is in buffers by then may still arrive,
and a write may seem to succeed. A body may fail to decode on a healthy
connection. A request whose write fails ends the transport, as the gob and JSON
codecs make it. The protobuf codec does not close it, and a body it cannot marshal
leaves half a frame in its buffer; what the reader makes of that is in `Wire`. A
response may fail to be written: `sendResponse` only logs the error, so the call
stays unanswered (`unsent`), with the connection closed (gob) or not (Protobuf).
Sequence numbers are unbounded (64 bits in the code).

`RemoteCalls` is what a caller may rely on, without numbers, locks or connections: a
call returns once, its handler is started at most once, a reply comes from a handler
of this very call that ended; an error or a timeout says nothing about the handler.

### Wire

One direction of a connection. `buffer` is the `bufio.Writer`, `wire` what was
flushed, `reader` whether a header or a body is read next. `WriteMessage` and the
`...WriteFails` actions are `Write` of the three codecs: gob closes the connection
when a body does not encode, JSON swallows the error, Protobuf leaves the header in
the buffer. `NextBody` is a `ReadBody` that reads: it decodes the part, drains it
(unknown method, abandoned call) or fails, after which the server goes on and the client
ends; gob cannot decode a concrete body into the `interface{}` of a `ReadBody(nil)`, so a
client that skips a body over gob ends too. `LeaveBody` is Protobuf's `ReadBody` of a
value that is no `proto.Message`, which returns before it reads a byte; the server
answers and takes the body for the next header. What is then read may decode or not, and
may name any method. `left` remembers that this happened, `Spoiled` that a body did not
encode; `InStep` says that nothing else breaks the alternation, and that only a
Protobuf server ever leaves a body, because of a request type or of a step lost before.

### Handshake

`builder` is the goroutine of `dialTimeout`, `dialer` the caller, `listener` the
server side. Units on the way (`toServer`, `toClient`) may be taken several at a
time by a buffer; `ahead` is what the buffer of `ServeConn` holds, and the server's
codec must read it first. Over HTTP the buffers of `ServeHTTP` (dropped at `Hijack`)
and of `NewHTTPClient` are dropped too; the property shows that neither can hold
anything by then, because each side waits for the other's answer before it sends
more. A timeout may end the dial at any of the builder's steps.

### XClient

`pool[s]` is the number of the server's pool, so a pool made after `Close` is a
different one; `worker[s]` is the goroutine of `Broadcast` for `s`. `putClient` looks
the pool up under the lock, `PoolPut` uses it after the lock is released, when `Close` may
have closed it. `Merge` is the goroutine's critical section. What a pool does inside is `ConnPool`.

### Discovery

etcd is external: `kv` (keys with their lease), `leases`, and `log`, the events by
revision. `pc[s]` follows `Register`, the keep-alive goroutine, `reRegister` and
`Deregister` of an instance request by request; `dpc[g]` follows the watch goroutine
of a gateway: `Get`, `Watch` from the next revision, events, the pause after an
error. `view` and `ring` are `d.servers` and `d.hashMap`. Hashes are constants, so
the ring's order is what is checked and not CRC32.

### Snowflake and Ingress

`Generate` is one step, as it holds its mutex; the clock may show any value at each
reading. Sizes of the fields are constants. `fpc[f]` is the goroutine of frame `f`:
sequence number from Redis, identifier, publish, `server_ack` to whatever connection
the sender has then. For an AI frame the stream of the Agent is opened first and
relayed (`relay`) while a second goroutine publishes. `bound` says whether some Logic
has declared the queue; a publish without it goes to `unrouted`.

### History

Two users. `friends`, `convs`, `rows` are the tables; `cached[u, l]` the first page
of reader `u` with limit `l`; `walk[c]` a client that pages with a cursor. Query and
cache write are separate steps, and so are insert and sweep of the upload consumer and
the statements of `DeleteFriend`. Limits above `MaxChatLimit` show the difference
between the service's and the query's idea of the limit.

### Groups

`req[r]` is a request with the statement it is at. Only the creation of a group is a
transaction; every other statement is a step, and where the code ignores an error the
statement may do nothing. `crossed` is a history variable: users on whom two
requests met. Users and groups take numbers from the same range, since a
conversation stores either in `target_id`.

### Accounts

`users` is the table with its unique keys; `founder` remembers who made a row. A
password hash and a token are modelled by what they tell. A registration inserts
without a check and the unique keys decide; a login that was checked issues its
token later.

### Scheduler

`status` is the row, `scan[s]` the tasks a cron run still has to claim, `sender[t]` the
goroutine that sends a task. Statements fail, with or without effect, and schedulers
die, within the fault budget. `columns` says whether the table has the columns the
statements name; run `agent` covers both cases, run `schedule` the one the repository
creates.

### Memory, RunnerCache, Session, AgentRun

`Memory`: an item of the list is the set of messages it speaks for; a compression
reads the oldest items, calls the model and replaces them, while turns append.
`RunnerCache`: an object is the set of configuration versions it was built from;
the test before the lock and the read after it are steps of their own, and `Reload`
runs its hooks one by one. Building a runner hands its model to the retrieval
pipeline (`SetChatModel`: `orch`, and `once` for its `sync.Once`); the runner's hook resets
both after it has released the runner's mutex (`ResetPipeline`, `ResetOnce`), so that
a build may come in between. `Session`: `sse` is where `ChatSSE` stands, `chan[n]` the
channel registered in round `n`, `request[q]` an approve request; taking the channel
out of the map and sending into it are two steps. `AgentRun`: the rate limit, with
stamps taken before the script runs, and the messages of one answer as the
middlewares rewrite them.

### Documents

One indexing request. A round of the loop in `Chunk`, and one of the loop that writes
batches to Milvus, is a step; a chunk is the range of runes it takes. Any setting of
`NewFixedSizeChunker` is allowed, the handler's 512 and 50 being one of them. A batch
whose write reports an error may have been applied.

### Retrieval

Every step evaluates one algorithm on one input from a bounded set: rank fusion,
reranking, the history search and its MCP twin, group texts, recall, the parsed
summary. The input keeps the limit as it was asked for; the numbers of candidates (20 to
200) and of group messages (200, 500) are constants, scaled down in the run. The
properties compare the result with a definition that does not follow the code: fusion
with dominance between the lists, a search with the best of all matches. That a search
returns no more than its limit is claimed of the MCP tool only: the Agent's own tool
returns one more (section 6).

## 3. Runs

| Run | Checks | Instance | Distinct states |
|---|---|---|---|
| `upload` | `WorkOwned`, `ImplementsLog`, `Settles` | 2 instances, 2 messages: two single chats, or a single or group chat with an AI or corrupt one, or these two; 1 fault | 155 k |
| `upload_ai` | `AISettles` is violated | 1 AI message, 1 fault | |
| `upload_redelivery` | `RedeliveryIsIdempotent` is violated | 2 of {2 single, group, AI, corrupt}, 2 faults | |
| `delivery` | `ConfirmedIsRead`, `SingleLogin`, `RouteFollowsMap`, `StatusMonotone`, `PushReaches` | 1 gateway, 2 connections, 1 message, capacity 1, 1 fault | 83 k |
| `delivery_sync` | `ReadWasDelivered` is violated | 1 connection, 2 messages, no fault | |
| `pool` | `ActiveExact`, `OnePlace`, `WaiterServed` | 3 callers, limit 2, 1 idle, 1 failed dial | 52 k |
| `pool_close` | `PutNeverPanics` is violated | 2 callers, limit 1 | |
| `rpc` | `DoneOnce`, `ShutdownFinishesAll`, `ImplementsCalls`, `CallReturns`; `InStep`; `BroadcastFaithful`; `HandshakeKeepsStream` | 2 calls; 5 messages, 3 codecs, 2 directions; 3 servers, 4 pools; 3 kinds of address, 5 options, 3 requests | 236 k |
| `discovery` | `ViewIsSnapshot`, `RouteFollowsMembers`, `Converges` | 2 instances, 1 gateway, 3 keys, 2 virtual nodes each, 3 faults | 256 k |
| `chat` | `AckedIsPublished`, `PayloadsDistinct`, `IdsIncrease`; `StaleOnlyWhenOvertaken`, `WalkComplete`; `ConvFollowsMembership`, `DissolvedIsGone`; `AccountIsFounders` | 3 frames of 2 senders, 1 error; 2 messages, limits 1 and 4, 2 walks, 1 deletion; 2 users, 1 group, 2 requests at a time of 4, 1 fault; 2 people, 2 names, 2 registrations | 2.6 M |
| `agent` | `SentAtMostOnce`, `DoneIsDelivered`; `WindowIsConversation`; `FreshAfterReload`; `RunsAreApproved`, `PushNeverBlocks`; `AnswerBounded`; `DocumentKept`; `ResultsFaithful`; `ToldIsKept`, `KeepsPromise` | 2 schedulers, 2 tasks, 2 faults; 3 turns, window 4; 2 caches, 2 callers, 2 reloads; 3 tools, 3 requests, 2 rounds; limit 2 in a window of 3; documents of up to 12 runes, 56 chunk settings, batches of 3; lists of up to 3; 1 sender with a single and an unnumbered AI frame, a corrupt body, 1 Logic instance, 1 error at the gateway, 1 fault at Logic | 1.2 M |
| `schedule` | `DueIsSent` is violated | 2 schedulers, 2 tasks, no fault | |

What the runs show, and why their bounds are enough:

* **upload.** However instances crash, lose their connection, retry a batch or
  settle late, an acknowledged single or AI message has its row, nothing is pushed
  before its row exists (the consumer implements `MessageLog`, whose steps say so),
  a connected instance works only on deliveries it holds, and every single, group or corrupt message
  is eventually acknowledged or dead-lettered while some instance is connected. Two
  instances and one fault are the smallest set in which a message is redelivered
  while its first holder still works on it. Two single chats share a batch, and a
  redelivered one that is stored already makes the batch fail because of only one of
  them. `Together` in `MCUpload` bounds what one behaviour publishes: interchangeable single
  chats in a fixed order, no group chat beside a single one (their paths share no
  variable but the instance's connection and life), the sender's own route only with a group chat. The
  safety part is proved for every instance and every set of messages.
* **delivery.** `send_status` never falls and 2 coincides with `is_read`, however
  late `NotifyDelivered` is; no interleaving of logins and late `Remove`s leaves two
  open connections or takes the route of the newer one; a message routed to a
  synchronised connection is written unless the connection ends or a call fails.
  Capacity 1 makes `SendChan` overflow with a single extra frame, and two
  connections make one replace the other. `RouteFollowsMap` excludes users who used
  more than one gateway, see section 6.
* **pool.** The counter is exact, every open connection has one place, and a waiter
  is served as long as no dial failed. Three callers exceed the limit of two, so
  that two use and one waits; three connection identities let a connection be
  replaced while others are lent.
* **rpc.** A call is finished once, with its own reply, and no call is left behind
  by a dying connection; client and server implement `RemoteCalls`: two calls are what
  mixing up sequence numbers, or competing for `sending`, takes. `CallReturns` has one
  exception, a response the server could not write on a connection that stays up. Reader
  and writer stay in step although methods are unknown, calls are abandoned and bodies do not decode: one message of each kind (also one
  that does not encode and one whose target Protobuf refuses) and a good one, in every
  order. A broadcast reports the failure that came first and the reply
  of a server that answered: three goroutines, so that one may fail, one be
  cancelled and one have answered. A handshake loses nothing of the stream behind
  it, whatever its buffers take ahead, and a dial that fails leaves no connection
  open.
* **discovery.** What a gateway knows is exactly the membership at the revision it
  has reached; its ring routes by membership alone, whatever order events brought;
  and once faults are over the list becomes true again. Three faults allow a lost
  lease, a failed re-registration and a broken watch in one behaviour.
* **chat.** An acknowledged frame is in the queue under the identifiers the sender
  was told (unless no queue existed yet); identifiers and sequence numbers are not
  reused; a cached page is out of date only while a sweep is due, lost, unknown for
  its limit, or was overtaken; paging neither repeats nor skips; membership and
  conversation list agree, and a dissolved group is gone, except for users on whom
  two requests met; an account stays its founder's. Two concurrent requests meet in
  every pair of statements; a third would meet the same pairs.
* **agent.** No scheduled message is sent twice and a task marked done was delivered
  to all; the memory window is the conversation in order unless two compressions
  overlapped; nobody gets an object, and no retrieval pipeline is kept, older than the
  last finished reload; no
  destructive tool runs without a decision and no approve request blocks; rate,
  continuations and trimming are bounded as the middleware promises; the chunks of a
  document cover it, share exactly the overlap, and a successful request has stored
  them all; rankings agree with their reference definitions on all inputs within the
  bounds.
  Limit 2 in a window of 3 with a delay of 1 lets stamps arrive out of order; a
  window of 4 and three turns start two compressions. Limits from 0 to one above the
  candidates' 2, and from -1 to one above the group's 3, meet every case of the clamps.
  The part `path`: a message whose sender got a `server_ack` is in the queue,
  dead-lettered or stored, whatever failed on either side of the queue: the confirmation
  may be lost or late, the sender may reconnect, the instance may crash, lose its
  connection or retry. The one exception is a message published before any Logic had
  declared the queue. One error on each side is enough for a publish that is reported as
  failed while the message is worked on, and redelivered.

`CHECK_DEADLOCK FALSE` throughout: the fault, message and connection budgets end, and
a system with nothing left to do may stop. Symmetry is used only in runs without
liveness properties (turns in `agent`, instances and messages in
`upload_redelivery`).

### Fairness

Weak fairness of the steps goroutines take by themselves: the Go scheduler runs
every runnable goroutine, the batch worker's 30 ms ticker flushes without new
messages, and the broker delivers a ready message to an open consumer. A read on a
closed socket returns, so `Remove` of a *closed* connection is fair; `Remove` of an
open one is the user's choice. Strong fairness for two queues with turns: receivers
waiting on a Go channel are served in order (`Wake`), and `sync.Mutex` hands over to
starving waiters (`Caller`, `Receiver` in `RpcCall`, whose steps compete for
`sending`). Callers of the pool return what they borrow (`defer putClient` in
`xclient.go`), and RPC handlers end. In `Discovery` the requests of instances and
gateways are answered, their pauses end, watched events arrive, and etcd ends a lease
nobody renews. In `Scheduler` time passes, the cron job runs every minute and
statements are answered. No fairness is assumed for users, deadlines, time-outs,
`Close`, failures or recovery from them.

## 4. Proofs

`PathProofs` proves about the upload consumers, for any sets of instances, users and
messages and any bounds:

* `TypeCorrect`, `AckedIsPersisted`, `PushFollowsRow`, `ConnectedWorkIsOwned`: types and
  three invariants (run `upload` checks the last, and the other two through
  `ImplementsLog`), from `Invariance`: `Spec => []IInv`.
  `IInv` adds two parts. `OwnedUnacked` (a held delivery is unsettled) is what makes
  `WorkOwned` survive a settlement: `Settle` by the owner cannot touch another
  instance's work. `StageSound` ties each stage to the database (past the insert
  the row exists): without it a state with a stage `ack` and no row would break
  `AckedPersisted` in one step.
* `SettlementIsFinal`: a settlement acts on a delivery only through its owner, and by
  `OwnedUnacked` an owned delivery is not settled.
* `Refinement`: `Spec => Log!Spec`. The mapping merges `ready` and `unacked`
  into `accepted` and keeps of `rows` only which rows exist. Requeueing, crashes
  and duplicates are stuttering; inserts and pushes are `Record`; the dead letter
  whose failed insert was applied is `DeadLetter`.

Assumptions: the kinds of messages are disjoint, addresses are typed, `BatchSize`
is positive, `None` is no instance.

about identifiers and frames:

* `Snowflake`, for any node numbers, field sizes and clock: `SnowInvariance` and from it
  the action property `GeneratorNeverGoesBack`. `SnowInv` says that the last
  identifier is not above the one composed of the generator's fields; the step then
  rests on two lemmas about composition (a later millisecond outweighs node and
  sequence, a later sequence decides within a millisecond) and on `ParseNode`: the node
  can be read off an identifier. Assumption: sizes are positive and node numbers fit
  their field.
* `Ingress`, for any frames, senders and gateways: `IngressInvariance` and from it
  `AcknowledgedIsPublished` and `PayloadsStayDistinct`. `IngressInv` carries `SnowInv`
  along: identifiers of one gateway are distinct because its generator only rises,
  those of two gateways because `Parse` finds different nodes in them. Numbers of a
  conversation are distinct because they stay below the counter in Redis. Assumption:
  a sender is connected to a gateway that has a node number.

and about the whole path, `ChatPath`:

* `PathKeepsComponents`: a behaviour of the path is one of `Ingress` and one of
  `UploadConsumer`, because every step is a step or a stutter of each. The invariants of
  both therefore hold on the path without being proved again (`PathInvariance`).
* `AcknowledgedIsKept`: `ToldIsKept`. Neither side knows enough. `AckedIsPublished` of the
  gateways says that an acknowledged frame is in the broker or was discarded,
  `AckedPersisted` of the consumers that what left the queue is stored; what joins them
  is `QueuesAgree`: a message is not new to the consumers exactly when a gateway put it
  into the queue. A frame is published once, so it is not both taken and discarded.
* `PathKeepsPromise`: `PathSpec => Promise!PromiseSpec`. Steps of the consumers map to
  steps of `MessageLog` by `Refinement`'s step lemma; an acknowledgement maps to `Tell`,
  whose guard is `AckedIsPublished` with `QueuesAgree`; a publish without a queue maps to
  `Discard`. Assumption: frames are messages of the kind their handler writes.

`ConnPoolProofs` proves, for any number of callers (finite), connections and any
limits, `PoolInvariance` and from it `CounterIsExact`, `LimitHolds`,
`ConnectionsHaveOnePlace`, `ClosedPoolIsEmpty` and `PoolTypes`. `PoolInv` adds `Bookkeeping`: a
caller has a connection exactly while it uses or discards one (so a `Put` always
returns a connection that is counted), `idle` is finite (so cardinalities add up),
and only a closed pool drains. The limit needs the counter: `Get` takes an idle
connection without looking at the limit, which is sound because `active` rises
by what `idle` loses.

`RpcProofs` proves, for any set of calls, `RpcInvariance` and from it
`CallsFinishOnce`, `RepliesAreOwn` and `ShutdownIsComplete`. `RpcInv` adds three
parts. `SeqSound` says that numbers identify calls, in `pending` and in
everything on the wire; it is why a late response cannot reach another call.
`Responsible` says that a pending call is unfinished and that the call whose body
is being read is no longer pending, so that no two of `receive`, `send` and
`terminateCalls` can finish one call. `LockSound` is the part of the `sending`
lock: when `terminateCalls` runs no request is half-way between registration and
the end of its write. Assumption: `Nobody` is no call.

`ConnectionImplementsCalls` is `Spec => Remote!Spec` for one connection. The abstract
execution of a call is read off the requests and handlers of the server; its reply is
offered while the response is on the wire, half read, or with the caller. This needs
`ServedOnce`: a call has one request, in the buffers or with a handler or answered, so
no call is executed twice. `RpcInv` then says that the response a caller takes is
offered for its own call, and that nothing is finished after the caller returned.

`RpcProofs` also proves the other parts of the framework:

* `ReadersInStep`, for any messages. `WireInv` says what is on the way: headers and
  bodies alternate, each body behind its own header, beginning with the part the
  reader is about to read. While the connection is open the stream ends with a body;
  a hang-up may cut it anywhere, which is why the parity is only claimed for an open
  one. All of it is claimed until the stream is `Derailed`, which by `DerailedStays` is for
  good, and `LeftCause` holds throughout: only a Protobuf server leaves a body, and
  without an untyped request only after a step lost by an unencodable body.
* `OpeningLosesNothing`, for any options and any number of requests sent behind the
  handshake. `HandInv` has two phases. `Before` the client has its codec, only `CONNECT` or
  its answer is on the way, and neither when the option line is written: the buffers
  that are thrown away were empty. `After` that, what the server has read, what its
  buffer took ahead and what is on the way are the client's stream without a gap.
  Assumption: the addresses and options are of the kinds the code tells apart.
* `BroadcastReports`, for any servers. `WorkerSound` says what a goroutine holds: its
  own failure, or a cancellation, and then an error has been recorded already; this is
  why the recorded error is never a cancellation. Assumption: servers are no markers.

`DeliveryProofs` proves, for any gateways, connections, messages and capacity,
`DeliveryInvariance` and from it `OneOpenConnection`, `RouteIsKept`,
`ReadMeansConfirmed` and the action property `StatusNeverFalls`. `SingleLogin` is not
inductive: `OpenIsMapped` (an open logged-in connection is the one in the map) is
what `Register` preserves by closing the entry it replaces, and `MapSound` (the
entry is a logged-in connection of that gateway) is what `RouteFollowsMap` needs
when a connection leaves. `OneGatewayKeepsKey` draws the boundary of what
`manager.go:53` breaks (section 6): with a single gateway, and no failed call, the
absence of the key does mean that the user is offline (`AbsentMeansOffline`), for any
number of connections. Assumptions: `Home` is typed, `None` and `Frame` are distinct
from everything else, `Cap` is positive.

`DiscoveryProofs` proves, for any instances, gateways, keys and faults,
`DiscoveryInvariance` and from it `ListIsSnapshot` and `RoutesAgree`. `DiscoveryInv` ties
both ends to the log of etcd: `EtcdSound` (a key exists exactly when the last event on
it is a `PUT`) and `GatewaysSound` (a list holds, once each, who was registered at the
revision it has reached, and the ring is built from it). The step that applies an
event rests on lemmas about the code's own helpers: `RemoveOne`, `AppendOne`, `ApplyOne`.
`RoutesAgree` follows from `RingOfMembers`: two lists with the same members give one
ring. That is false when virtual nodes collide, hence the assumption that the points
of different instances differ; the other assumptions are types.

`ChatProofs` proves about the Logic services:

* `History`, for any messages, page sizes and number of walks: `HistoryInvariance` and
  from it `CacheFollowsTable` and `WalksAreComplete`. `CacheSound` is the property of the
  cache; it needs `FillSound`, the same of a page between its query and its way into
  the cache. `WalkSound` says that a walk has everything from its cursor on. Both rest
  on what `Page` returns: the newest messages below the cursor, at most `limit` of
  them, and `more` only if the page is full. A page is a set with a least element, so
  this needs no induction: `NatOrder` takes the least element from the well-foundedness
  of the naturals.
* `Groups`, for any users, groups and requests: `GroupInvariance` and from it
  `MembersHaveConversations` and `DissolvedLeavesNothing`. `GroupInv` speaks of one pair of
  a group and a user at a time: on a pair that is not `crossed` at most one request is
  at work, or several fan-outs that change nothing for each other (`Alone`), and the
  rows are what the statement it is at has left of them (`PairReq`); with no request
  halfway the two lists agree. The proof has one lemma per
  statement. Assumption: users are finitely many numbers.
* `Accounts`, for any people, names and identifiers: `AccountsStayTheirFounders`.
  `AccountInv` adds that an identifier has one founder, that checked logins are the
  founder's, and that what was seen was written.

`AgentProofs` proves about the Agent:

* `Session`, for any tools, requests and number of rounds: `SessionInvariance` and from
  it `ToolsNeedApproval` and `ApproveNeverBlocks`. Neither is inductive alone. `MapSound` (a
  channel in the map is the current round's, and somebody waits or left) and
  `TakenOnce` (a channel is taken by one request, and nobody has the channel of a round
  that was not decided on) are why a channel is empty when a request sends into it;
  `DecisionSound` (what a channel carries, some request sent) is why a tool that runs
  was approved. Assumption: there is at least one round.
* `Scheduler`, for any tasks, receivers, schedulers and faults: `SchedInvariance` and from
  it `ScheduledOnce` and `DoneMeansDelivered`. `Unclaimed` (before its claim a task has
  no sender and no row) and `Progress` (what the sender has left has not
  been inserted, everything else has) are the strengthening. Assumption: a task that is
  not a group's has one receiver.
* `RunnerCache`, for any callers, caches and reloads: `FreshnessOfCaches`. `Floor(c)` is
  the oldest version cache `c` may still hold: the hook that clears it has run or has
  not. Nothing kept, and nothing being built under the lock, is older. `PipelineSound`
  says the same of the retrieval pipeline, whose floor rises with its reset: a build that
  sets it later read its configuration after the runner's cache was cleared.
  Assumption: the runner is one of the caches.
* `Memory`, for any window and number of turns: `MemoryIsConversation`. `CompressSound`
  says that while no two compressions overlapped there is one at most, and what it read
  are the items it will replace.
* `AgentRun`, for any limits, requests and turns: `MiddlewareBounds`. For the rate limit
  `Counted` says that an admitted stamp that still counts is in the sorted set, which
  has not expired; for an answer `RoomLeft` says that a continuation was injected only
  when there was room. Assumption: the delay of a stamp is within the window.
* `Documents`, for any text, chunk size, overlap and batch size: `DocumentInvariance` and
  from it `DocumentsAreKept`. `DocInv` is the invariant of the two loops: everything before
  the end of the last chunk is covered (`CutCovers`), the next chunk begins the overlap
  before that end (`CutSound`), and what Milvus has are whole batches or all. It rests on
  `ChunkerNumbers`: after `NewFixedSizeChunker` and the correction in `Chunk` the step is
  positive and is the size less what neighbours share, even for an overlap of 50 that
  exceeds the size.

`NatOrder` holds the three lemmas on sets of numbers the others share (`Least`,
`Greatest`, `MinLeast`).

`TypeOK` of the modules, `SettlementIsFinal`, `LimitHolds` and `ClosedPoolIsEmpty` are
proved and not run: they follow from the invariants the runs check. `GroupInv`, the largest
invariant, was checked by TLC on an instance with two groups and five requests before
it was proved. One definition is written for the provers: `InKeyOrder` in `Discovery`
lists a set by rank, because `SortSeq` is opaque to them.

Only model-checked: the liveness properties `Settles`, `PushReaches`, `WaiterServed`,
`CallReturns` and `Converges`, because the prover handles neither fairness nor `ENABLED`;
and `ResultsFaithful` of `Retrieval`, whose algorithms are folds and sorts
over sequences, about which nothing can be proved without induction.

## 5. Findings

Five runs state what the repository says and find the code doing otherwise:

1. `upload_ai`: an AI message whose row is already stored is rejected and requeued
   without end, because `handleAIChat` treats a duplicate key as an error
   (`upload_consumer.go:361`), where `interview.md:56` promises an idempotent branch.
2. `upload_redelivery`: a redelivered single chat raises `unread_count` twice, a
   redelivered group chat stores the other members' rows twice under fresh ids
   (`introduction.md:202` promises de-duplication).
3. `delivery_sync`: `syncMessage` marks every unread row read before the frames are
   written, so a connection that ends in between loses messages for good
   (`README.md:61` promises compensation by offline synchronisation).
4. `pool_close`: a connection returned after `Close` has closed `waitCh` makes
   `Put` panic, where `pool.go:241` says it is closed.
5. `schedule`: the statements on scheduled messages name the columns `sch_msg_id` and
   `updated_time` (`agent/dao/scheduled_messages.go:25,28,44,59,70`); the table
   `AutoMigrate` makes from `agent/models/scheduled_messages.go:6,16` calls them `msg_id`
   and `update_time`, so no task is ever claimed, where
   `agent/tools/schedule_message.go:75` tells the user it will be sent.

## 6. Observed, without a run

Messages and presence:

* `introduction.md:212` says a failed downstream publish only warns and
  acknowledges; the code requeues (`upload_consumer.go:252`).
* `mq_consumer.go:43,56` speak of NACK for a user without a connection; the code
  acknowledges (lines 58-59) and leaves the message to `SyncUnread`.
* `models/messages.go:11` describes `send_status` 1 as written to the peer's
  WebSocket; it is set after `SendMessage`, which may have dropped the frame.
* When `SyncUnread` fails, `Handler` returns with the client in the map and no
  `ReadPump` to remove it.
* `Remove` deletes `route:user:<id>` without looking at its value (`manager.go:53`), so
  the late end of a connection at one gateway removes the route of a newer login at
  another and Logic skips the pushes to a connected user, where `interview.md:229` takes
  the absence of the key for being offline. `AbsentMeansOffline` says what is lost:
  `Delivery` violates it with two gateways and a connection to each.
* A group member whose insert fails is skipped and the delivery acknowledged.
* A goroutine per frame (`client.go:151-156`) means that frames of one sender may be
  numbered and published in another order than they were sent (`interview.md:883`).
* Publishing is not mandatory: until some Logic has declared the upload queue,
  messages are confirmed, acknowledged to the sender and dropped.
* The gateway ends an AI relay on `data: [DONE]` (`chat.go:284`), which the Agent never
  writes, so `ai_end` (`introduction.md:350`) is not sent.
* The vector queue has no consumer.

GrowRPC:

* A failed dial gives its slot back without `notify`; a waiter sleeps until its
  deadline. `WaiterServed` excludes such behaviours.
* After a connect timeout the goroutine that builds the client stays blocked on the
  unbuffered channel (`client.go:231`); the connection itself is closed.
* The JSON codec swallows the error of a body that does not encode, Protobuf leaves
  the header in its buffer: the streams lose their step (`Spoiled` in `Wire`).
* A Protobuf server whose request type is no `proto.Message` answers an error and takes the
  unread body for the next header (`protobuf.go:54-57`, `server.go:125-131`), where
  `server.go:179` says that the body must be consumed.
* Over gob `ReadBody(nil)` decodes into an `interface{}` (`gob.go:68-70`), which fails for a
  concrete body: a client that skips the body of a late or failed answer ends its
  connection.
* The body of an error answer is `struct{}{}` (`server.go:118`), which is no
  `proto.Message` and which gob, too, cannot encode (no exported field): gob flushes the
  header and closes the connection, Protobuf leaves the header in its buffer.
* A response whose `Write` fails is only logged (`server.go:201`); over Protobuf the call
  stays unanswered while the connection is up.
* After `XClient.Close` a connection of the old pool may be put into a new one.
* A `Put` that fails after its `Grant` leaves an instance renewing a lease without a
  key (`etcd.go:123`; `Orphaned` in `Discovery`).
* The round-robin counter wraps to negative values (`discovery_etcd.go:189`), and
  the HTTP registry and its client disagree on a header name; no application uses
  either. `EtcdDiscovery.Close` does not end an open watch.

Services:

* A history request with a limit above 200 is answered with 20 rows, but `has_more`
  compares with the requested limit (`chat_service.go:116`). Only the limits 20, 50
  and 100 are swept, and errors of the sweep are ignored.
* The first page of a group's history is cached by group although its rows are
  selected per receiver (`group_service.go:228`).
* A rejected friend request cannot be repeated. `DeleteFriend` erases conversations
  and messages also of users who are not friends.
* A fan-out that overlaps a leave or a dissolution brings rows back; a group that is
  being dissolved can be joined; dissolution ignores errors and does not ask who
  requests it.
* `ParseSnowflakeID` adds an epoch that `Generate` never subtracts; after a restart
  with a clock moved back identifiers may repeat.
* A registration repeated after a lost reply says that the name is taken; tokens
  outlive a change of password.

Agent:

* `ExecuteSchSend` inserts outside its transaction, against its comment;
  `CreateScheduledMessage` returns the creator's id as that of the task; a task claimed by a
  scheduler that dies stays claimed.
* Two overlapping compressions of a session lose messages no summary contains.
* A runner built between the release of `runnerMu` and `ResetOrchestrator`
  (`runner.go:61-62`) stays cached while its pipeline is reset, and nothing sets another
  until the next reload. `GetOrchestrator` has no caller, so nobody notices.
  `ResetOrchestrator` also overwrites a `sync.Once` on which a `Do` may be running
  (`rag_graph.go:152`); what that does to the `Do` is left out of the model.
* The second read of the cached runner takes no lock and may return nil; a new
  runner has a new in-memory checkpoint store, so an answer interrupted before a
  reload cannot be resumed.
* An approval sent before the channel is registered gets 404; one sent twice may
  decide a later round; `ctx.Done` leaves the channel in the map.
* The rate limit's window is computed from stamps taken before the script runs, so
  the bound holds for the window less that delay.
* `search_chat_history.go:30` documents `limit` as the most messages to return, 50 by
  default. The loop at line 123 returns one more, and without a limit up to 20
  (line 88). The MCP tool does neither.
* `summarize_group.go:18` documents a maximum of 500 messages; `GetGroupMessages` pulls at
  most 200 (`dao/messages.go:103`). `GroupChronological` claims as many as asked for up to
  what one query pulls.
* `RecallMemory`'s comparison is not transitive.
* An indexing request that failed leaves whole batches behind, which a retry
  duplicates under new ids.

## 7. Not modelled

Process set-up and logging; interceptor chains of GrowRPC; random and round-robin
selection, `MultiServersDiscovery` and the HTTP registry, which no application uses;
read-only listings (friends, conversations, group members, group history); push
notices, whose errors are ignored; the routing table; parsing of configuration
files; the repair of tool arguments (`middleware/tool_fix.go`), which is string surgery in
front of a library; the Milvus client and the offline evaluation; the agent framework and the
models, which are external and choose freely. Generated protobuf code holds no
logic, and `temp_group` holds an older copy of some of it.

## 8. Plan

What is left, in order of importance:

1. Group history pages and their cache in `Groups`.
2. `Delivery` as the last part of `ChatPath`: it follows one receiver and has Logic's side
   reduced to three steps, which the consumers' `LookupRoutes`, `BatchInsert` and
   `PushDown` would replace.
