# A TLA+ model of the lightweight message queue

The program is a message queue server in Python (`src/src/`): one TCP server,
one handler thread per connection, one background checker thread, queues,
topics, consumer groups, acknowledgement with retries and a dead letter queue
(DLQ), and a segmented log. This directory holds the TLA+ modules that model
it, the TLC configurations that check them, and the TLAPS proofs of what could
be proved. `PROJECT.json` maps every definition to the lines it translates.

Contents: [the system](#the-system) ·
[modules](#modules-and-how-they-correspond-to-the-code) ·
[runs](#what-the-runs-check) · [bounds and
abstractions](#bounds-and-abstractions) · [fairness](#fairness) ·
[proofs](#what-is-proved) · [disagreements](#where-code-and-documents-disagree)
· [what is left](#what-is-not-modelled)

## The system

| Component | Source | State | Operations |
|---|---|---|---|
| Queue manager | `queue_manager.py` | `_queues`: name → deque of (id, body), capacity; one lock | create, delete, enqueue, dequeue |
| Message router | `message_router.py` | `_messages`: id → message, `_msg_lock`; topic offsets | route to queue or topic, consume (long poll), restore |
| Ack manager | `ack_manager.py` | `_dlq` and its lock; it writes the fields of messages *without* a lock | ack, nack, check_timeouts, check_ttl, replay |
| Consumer groups | `consumer_group.py` | members, target, round-robin position, heartbeats; one lock | create, delete, join, leave, next_consumer, check_timeouts |
| Topics | `topic_manager.py` | subscribers of each topic; one lock | create, delete, subscribe, unsubscribe |
| Persistence | `persistence.py` | segment files, `index.json`, the index in memory, open files | append, roll, fsync, recover, close |
| Server | `server.py`, `main.py` | sockets, connected consumers, threads | one handler per command, the checker loop, start, stop |
| Protocol | `protocol.py` | none | one line → command, answer → one line |
| Client | `client.py` | one socket | connect, send a line, read an answer, disconnect |

How they interact. A handler thread calls the managers one after the other;
each call takes and releases the lock of *its* manager, so a command that makes
four calls is four steps between which other handlers and the checker run. The
fields of a message (`status`, `delivered_to`, `retry_count`, `target`) are
shared by all of them and protected by nobody. Every five seconds the checker
scans the registry of messages — the live dictionary, which SEND changes
meanwhile — for deliveries whose ack timeout has passed, for messages older
than their time to live, and then the heartbeats of group members. SEND and
PUBLISH append to the log after the message is registered and queued; `start`
puts what the log gives back into the registry, and into no queue. Clients and
handlers exchange lines over TCP, which keeps their order and not their cuts.

What makes it correct, per component:

* queues: bounded by their capacity, FIFO, nothing lost or left over when a
  queue is deleted;
* messages: delivered at most once inside their time to live, not lost once
  accepted, in the DLQ only for the reasons the code has; no id used that is
  not registered; every command answered, every delivery settled;
* groups: a member is watched and is reached by the rotation, a connection that
  has closed or fallen silent is in no group, and no one is left in a group
  that is gone;
* topics: the two records of a subscription agree, a closed connection blocks
  no topic, a reader gets the messages in order, each once;
* log: what was answered `+OK` is in the log, what was synced stays, the index
  says where things are, segments stay bounded, recovery finds the messages;
* restart: what the log has is known again, and what was acknowledged is not
  handed out again;
* connections: the lines executed are the lines sent, an answer goes with its
  command, a consumer is registered exactly while it is served, stop ends.

What is hard: check-then-act without a lock (ack, nack, the scans), a lock that
is taken twice by one thread, exceptions in the middle of a handler, the
interleaving of the calls of one command with those of another, retries against
late acknowledgements, crashes with a half-written log, restarts that forget
what only memory knew, streams cut in the middle of a character, and a stop that
finds handlers waiting for ever. `hazards` in `PROJECT.json` lists these with
their lines and the properties that watch them.

## Modules and how they correspond to the code

    QueueManager
        │ EXTENDS
      Broker ── BrokerProperties ── BrokerProofs ── DeliveryProofs
                       ├── MCBroker                       │
                       ├── MCBrokerClaims                 │
                       └── Restart ─┬─ RestartProofs ─────┘
                              │     └─ MCRestart
                              │ INSTANCE
                          MessageLog
                              │ INSTANCE (refinement)
                          Persistence ─┬─ MCPersistence
                                       └─ PersistenceProofs
    Sorting ─┬─ ConsumerGroups ─┬─ MCConsumerGroups
             │                  └─ GroupProofs (with SortingProofs)
             ├─ Topics ─┬─ MCTopics
             │          └─ TopicProofs (with SortingProofs)
             └─ SortingProofs
    Streams ─┬─ Connection ─┬─ Wire ─┬─ MCWire
             └─ Client ─────┘        └─ WireProofs

**QueueManager** — `queue_manager.py`. `queues`, `items[q]`, `max_size[q]` are
the keys, deques and capacities of `_queues`. Each method is one region of the
manager's lock and so one action; a call that raises is a stuttering step. Its
specification, `QueueSpec`, is used by the proofs about the broker:
Broker extends the module, conjoins its actions and leaves its variables alone
otherwise (the lemma `UsesQueueManager`), so what is proved of `QueueSpec` holds
of the queues whatever the threads do.

**Broker** — the life of a message: `_cmd_send`, `_cmd_consume`, `_cmd_ack`,
`_cmd_ack_batch`, `_cmd_nack`, `_cmd_replay`, `_cmd_replay_all`,
`_cmd_create_queue`, `_cmd_delete_queue` of `server.py` with everything they
call, and `_checker_loop` with `check_timeouts` and `check_ttl`. `pc[c]` is the
place of connection `c`'s handler thread, `cur_m`, `cur_q`, `todo`, `replayed`
its local variables; `checker_pc`, `checker_m`, `seen`, `used`, `timed_out`
those of the checker. `sent` is what clients have been told: in the actions it
only tells used ids from new ones.

| Command | Steps |
|---|---|
| SEND | `SendRegister` (registry) → `SendEnqueue` (queue) → `SendPersist` (log, answer), or `SendDelete` when the queue is full |
| CONSUME | `ConsumeStart` → `ConsumeDequeue` → `MarkDelivered` |
| ACK, ACK_BATCH | `AckCheck` → `AckSet`; `AckBatch` → (`AckBatchCheck` → `AckSet`)* |
| NACK | `NackCheck` → `NackSet` → `NackInsert` (into the DLQ) |
| REPLAY, REPLAY_ALL | `ReplayStart`, or `ReplayAll` → `ReplayFind` (the ids, under the lock) → (`ReplayPop` → `ReplayReset`)* → (`ReplayRoute` → `ReplayEnqueue`)* |
| checker | `BeginPass` → (`ScanTimeout` → `TimeoutAct`)* → `EndTimeouts` → (`ScanTtl` → `TtlMove` → `TtlInsert`)* → `EndTtl`; `ScanBroken` is the RuntimeError of a dictionary that changed size |

Three facts of the code shape the module. `server.py` does not import
`MessageStatus`, so lines 214, 234 and 433 raise NameError: a NACK is answered
ERR_INTERNAL after its message was set PENDING and never queues it, a pass of
the checker that found timeouts ends there, and so does the clean-up of a
connection that was in a group and had a message. `_move_to_dlq` takes
`AckManager._lock`, which `check_timeouts` holds when it calls it: the checker
waits for itself (`"stuck"`), and every command that needs the lock waits too
(`AckLockHeld`): `CommandsAnswered` excepts them by name, and nothing else. And
an expired message is put into the DLQ but not taken out of its queue.

**BrokerProperties** — the safety and liveness properties of Broker, and the
named conjuncts of the inductive invariants.

**ConsumerGroups** — `consumer_group.py`, CREATE_GROUP, DELETE_GROUP,
LEAVE_GROUP, the disconnection of a consumer, the heartbeat check, and
CONSUME_GROUP call by call: `ConsumeGroup` (group_exists) → `QueueExists` →
`CreateMissing` → `Join` → `NextConsumer` → `Take`. An entry of `_heartbeats` is
a member of `heartbeats`, and of `silent` when it is older than the timeout.
What a selected member takes from the queue is Broker's CONSUME.

**Sorting** — a set in the order of its members, as Python's `sorted` gives it:
`Nth(S, k)` is `sorted(S)[k]`, the member that `k` others come before. The
rotation of a group and the reader of a topic go by it.

**Persistence** — `persistence.py` and its use by `server.py`. A segment is a
sequence of records, each with the offset where it begins and the number of its
bytes that are there; `Length[m]` is the length of the record of `m`.
`AppendStart` chooses the segment (and rolls) by the bytes in it, outside the
write lock and before it knows the length of the record; `AppendWrite` is the
region of the write lock and the answer; `CloseFsync`, `ClosePersist`,
`CloseFiles` are the steps of `close`; `ProcessEnds` ends the process, in an
orderly way after them or by a kill at any time, with any number of the bytes of
a record written; `PowerLoss` cuts a segment at any byte that was not synced.
`Start` is the constructor and `recover`: with an `index.json` it reads at the
offsets that it names, whatever is there now; without one it goes through each
segment from record to record by the length each begins with (`ComesTo`), which
may lead past the records behind a torn one. A torn record with others behind it
is read together with their first bytes: it may count as nothing, or as a
message with a body that is not the one sent (`corrupt`).

**MessageLog** — what the server can expect of the log, as sets of messages:
`logged` (with a whole record), `torn`, `saved` (named by `index.json`),
`known`, `recovered`. It promises as little as the code keeps: a start that
finds an `index.json` goes by it alone, and a torn record may hide others.
Persistence implements it (`ImplementsLog`, the mapping is in the `INSTANCE` at
the end of Persistence), and Restart uses it.

**Restart** — Broker over MessageLog. `Serve(A)` is a step `A` of the broker
while the process is up; the step of a SEND that is answered `+OK` is at the
same time `LogAppend`. `Stop` saves the index, `End` ends the process at any
time, with or without `Stop` before it, `MachineFails` also takes what was not
synced, `Start` is `recover` and `restore_message`. `MemoryGone` lists what a
process loses. `filed` is the target in a message's record, `acknowledged` a
history variable: the messages ever marked ACKED, in whatever process.

**Topics** — `topic_manager.py`, the topic side of `message_router.py`, and
their handlers. `Subscribe` → `NoteSubscription` (under the lock, and then
`consumer.subscriptions`), `Publish` (topic_exists) → `DrawId` → `Register` →
`PublishPersist`, and `consume_from_topic` as `Read` (offset) → `Select`
(collect and sort) → `Advance` (offset + 1). `Expire` and `Replay` take a
message out of its topic and bring it back, as the DLQ does by its target.
`read` and `shifted` are history variables: what each reader has been given,
and the topics whose positions have moved.

**Streams**, **Connection**, **Client**, **Wire** — the two sides of a TCP
connection. `Streams` has the units under way: characters (one of two bytes), CR
and LF to the server, texts and ends of lines to the client. `Connection` is
`start`'s accept loop with its local variable `conn`, `stop`, the end of the
process, and `_handle_client` from `Welcome` to `Leave`: `Loop` looks at
`_running`, `Recv` takes any prefix of what has arrived and decodes it, `Line`
executes one line and sends its answer, and `Leave` is the `finally` block, with
the NameError that skips `conn.close()` for the member of a group that has had a
message: the socket is then closed only because nothing refers to it, unless
`start`'s `conn` still does (`LetsGo`, the next accept or the end of the loop).
`Client` is `MQClient` under its REPL. `Wire` composes the two and states the
properties.

**MC modules** hold what only TLC needs: symmetry sets, the sizes a
CREATE_QUEUE or the offsets a SET_OFFSET may carry, the commands a user types,
and (`MCBrokerClaims`, `MCPersistence`) the statements of the project's own
specification that the code refutes.

An operator commented as *a deviation* (`AnyoneHolds`, `PollsForever`, …) is
the definition after it with a plausible slip: a forgotten guard, a missing
clean-up. No action uses them. Each property was checked to fail when the
definition is replaced by its deviation; the pairs are `mutants` in
`PROJECT.json`.

## What the runs check

| Run | Instance | Properties |
|---|---|---|
| `race` | 2 clients, 2 messages, a queue of one place, 2 retries; symmetry | `TypeOK`, `SingleCopy`, `HolderUncontested`, `NoDanglingIds`, `CapacityRespected`, `FullSendForgotten`, `AcceptedNotLost` |
| `live` | 1 client, 1 message that may expire, 1 retry, fairness | `DlqOnlyExhausted`, `DeliveryResolves` |
| `restart` | 2 clients, 1 message, any number of processes, 1 retry, fairness | `RestartTypeOK`, `LoggedRegistered`, `AckedNotHandedOut`, `CommandsAnswered` |
| `groups` | 3 consumers, 2 groups; symmetry of groups | `TypeOK`, `MembersWatched`, `ClosedForgotten`, `NoOrphanMembers`, `TakerIsMember`, `EveryMemberInTurn` |
| `kill` | 2 threads, 3 messages with records of 3 and 2 bytes, 2 segments that are full with 2 bytes | `TypeOK`, `AnsweredLogged`, `IndexFindsMessage`, `SegmentBounded`, `SyncedIsFinal`, `ImplementsLog` (refinement) |
| `topics` | 2 connections, 2 topics of which one may exist at a time, 2 messages; symmetry | `TypeOK`, `SubscriptionsAgree`, `ClosedUnsubscribed`, `ReadInOrder` |
| `wire` | 1 client with 2 commands, 1 silent connection, fairness | `TypeOK`, `FramingKept`, `InStep`, `RegisteredWhileServed`, `OrderlyStop`, `AnswerArrives`, `StopTerminates` |

`race` has 546,865 states, `kill` 153,779, `wire` 313,028, `restart` 87,876,
`live` 15,765; each takes less than three minutes with two workers.

They show:

* A message inside its time to live is in one place only and in the hands of
  one consumer at most, and only while it is PENDING, whatever NACKs, timeouts
  and late ACKs do (`SingleCopy`); of two consumers never both are between the
  test and the assignment of an ack (`HolderUncontested`). Neither property says
  that a NACKed or timed-out message is *not* queued again: the code does not
  queue it, the specification says it must, see below.
* Such a message comes into the DLQ only when it has been charged with more
  retries than the limit, although NACK and the checker may both charge one
  delivery (`DlqOnlyExhausted`).
* An accepted message that has neither expired nor been retried is in its
  queue, with a consumer or acknowledged, also when the queue is deleted and
  created by another client (`AcceptedNotLost`); a message refused for a full
  queue leaves no trace (`FullSendForgotten`).
* Every command is answered, with one exception that the code really has: when
  the checker waits for its own lock, a NACK on its way into the DLQ, a REPLAY
  and a REPLAY_ALL wait with it (`StarvedOfLock`). Every delivery is taken back
  even when its consumer has gone, unless the checker is stuck.
* Over stops, kills and failures of the machine nothing that was acknowledged
  inside its time to live is handed out again, although neither the log nor the
  index knows of the ACK, and although the checker may have undone it
  (`AckedNotHandedOut`). It holds because a start puts nothing it recovers into
  a queue; the deviation `ResumesQueues` is what happens when that is repaired
  without recording ACKs. What the log has is known again (`LoggedRegistered`).
* The rotation of a group names every member from any position that joins,
  leaves and time-outs leave it in, and no member escapes the heartbeat check.
* `+OK` means logged, through rolls, kills and restarts; only a failure of the
  machine takes such a message, and never one that was synced. Seen from the
  server, all of it is MessageLog.
* Who subscribes to what is the same in both records between two commands, and
  no closed connection is left in a topic. A reader gets the messages of its
  topic in order, each once — as long as messages were registered in the order
  of their ids, none expired and no offset was set; each of these can move the
  positions under a reader, which then skips or repeats a message.
* Lines survive every way a stream can be cut; the client gets the answer to
  the command it sent, until the first answer of two lines (`InStep` says "as
  long as", because from there on it may be one command late). Stop comes to
  its end although handlers wait in `recv` for ever, and when it closes the log
  only those run that have had their five seconds, or the one accepted when the
  signal came (`OrderlyStop`). When a handler has ended, its consumer is out of
  all tables, and its socket is closed, but for the member of a group that has
  had a message and whose connection was the last to be accepted: it is closed
  when the next one is accepted or the server stops (`RegisteredWhileServed`).

The five `violation` runs each check one statement of the repository's own
specification; see [below](#where-code-and-documents-disagree).

Deadlock is not checked: all connections may close, and a checker that waits
for its own lock is a state the code really has; `CommandsAnswered` says what
has to go on.

## Bounds and abstractions

* **Clients, messages, queues.** A race needs two handlers and the checker over
  one message; a full queue, a batch and a registry that grows during a scan
  need two messages; `race` has both. Message ids are used once (milliseconds
  and a counter); consumer ids are never reused by one process (a counter).
* **`MayAge`** names the messages whose time to live may run out. Nothing ages
  in `race` and `restart`, whose safety properties speak of fresh messages; in
  `live` the one message does, and with it the scan for expired messages runs,
  the DLQ and any number of REPLAYs, also of a message that is in its queue
  already. Two clients and a message that expires are too many states for a
  search under fairness.
* **`MaxRetries`** is 2 in `race` (the code: 5, `ack_manager.py:13`), the
  smallest value for which `AcceptedNotLost` holds: below it the one delivery of
  a fresh message may exhaust it, and a REPLAY sets its count to zero before it
  is queued. It is 1 in `live` and `restart`: a NACK and a timeout that both
  charge one delivery exhaust it, the message comes into the DLQ, and a timeout
  that exhausts it makes the checker wait for its own lock, so that the
  exceptions in `CommandsAnswered` and `DeliveryResolves` are states of these
  runs. With five retries only a message that has expired and been replayed
  several times gets that far, in instances too large to search.
* **One message in `live`.** It shows that deliveries are settled, not that they
  are when the scan of a registry that grows breaks again and again (`hazards`
  says so at `ack_manager.py:97`).
* **`MaxTopics`, `MaxId`, `Offsets`** (Topics): one of two topics may exist, so
  that the limit is met and names come and go; two messages are enough for one
  to overtake the other; offsets of -1 (refused), 0 and 2.
* **`MaxCommands`, `Typed`** (Client): two commands after the welcome, enough
  for an answer to come late; a command with a character of two bytes, one with
  an answer of two lines, and the blank line, which only a command line can
  send. `Conn` is two connections: one that is served or stuck while the other
  stops, accepted in either order.
* **The clock.** `Elapse` and `Age` move only while the checker sleeps: each
  scan reads the clock once, before its first message, so what changes later
  is seen by the next scan. A message does not age while its SEND is running (a
  day against milliseconds), and a group member does not fall silent between
  its join and the answer (30 seconds against milliseconds).
* **Atomicity.** A step is a lock region, or a test and the point where its
  result is used. The assignments of one thread to the fields of one message
  (for instance the four of `nack`) are one step. The status EXPIRED is
  overwritten by the next assignment and is left out.
* **Errors that change nothing** (unknown queue, wrong owner, …) are stuttering.
* **Groups.** PING changes a field that nobody reads, and so nothing here.
  Consumers are numbers because the code sorts their ids.
* **The log.** Lengths count bytes; what the bytes are is not modelled but for
  the choice whether a torn record decodes. Lengths of 2 and 3 with a limit of 2
  let one record pass the limit, let the rest of a torn record be shorter,
  longer and as long as the record behind it, and bring the scan to places where
  no record begins. Left out: a torn record whose header, id or target is cut
  and that still decodes (it counts as nothing here), bodies made to look like
  records, and the ids that such records would bring into the index. A start
  that fails with the `UnicodeDecodeError` that `read_at` does not catch changes
  nothing, and is no step. `PowerLoss` cuts the end of one segment and keeps the
  directory; `index.json`, which is never synced, may be damaged, and recover
  then goes on as without one. A file's error and a full disk are one outcome,
  `"internal"`; it is nothing written, as `_check_disk_space` finds it.
  `cleanup_segments` has no caller.
* **History.** `lost` (Persistence: the messages a failure of the machine has
  taken), `acknowledged` (Restart), `read` and `shifted` (Topics), `abandoned`
  (Connection: the threads stop has given up on), `dispatched`, `asked` and
  `returned` (the lines executed, sent and returned) are read by properties;
  `dispatched` also numbers the answers, and `asked` is bounded by
  `MaxCommands`. `read` stops when its topic is in `shifted`.
* **The wire.** A connection that its peer has closed may lose what was under
  way; what arrives at a socket nobody reads any more is dropped. The silent
  connection stays open, as one whose client hangs. An exception of the handler
  that is not one of its socket's would be answered ERR_INTERNAL and is left
  out, and so is the line's `strip`. A character of two bytes that is decoded
  whole keeps two places in the buffer, `"H1"` and `"H2"`: a count of characters
  matters to nothing in the code.

## Fairness

`FairSpec` (Broker) assumes:

* weak fairness of each handler's own steps (`RunsOn`) and of the checker
  (`CheckerStep`): threads that can run are scheduled;
* strong fairness of the steps that take `AckManager._lock` (`TakesLock`): the
  lock is free for the five seconds the checker sleeps, again and again, so a
  waiting thread gets it. (If the checker is stuck the lock is never free and
  this asks for nothing);
* strong fairness of `Elapse`: the ack timeout of a delivered message passes.

Clients are assumed to do nothing: no command, ACK or disconnection is fair,
and no message has to grow old. The runs `claim_nack` and `claim_exhausted` use
it.

`FairRestartSpec` (Restart) assumes the same of the process that is up, and that
a stop that has begun comes to the end of the process, as `wire` shows of
`stop`. Nobody has to stop, kill or start the server.

`FairSpec` (Wire) assumes weak fairness of the client's handler, of the main
thread — `join` comes back after five seconds — and of a client that reads
what has arrived. The other connection's handler may be stuck anywhere, the
client's timeout of ten seconds need not come, and nobody has to stop the
server.

## What is proved

TLAPS checks the following for every number of clients, messages, queues,
consumers, groups, topics, threads, segments and connections, for every capacity
and, where said, every retry limit. The assumptions are those the modules name:
`SizesAssumption` and `BrokerAssumption` (sizes are integers, the default
capacity is positive, `Msg` is finite), `GroupAssumption` (finitely many
consumers), `TopicsAssumption` (`MaxTopics` is a number),
`PersistenceAssumption` (there is a segment, the limit is positive, no record is
longer than `MaxLength`, finitely many threads), `ClientAssumption` (a command
is one line: `input()` yields no other, and the arguments of a command line are
taken to be like it); and `Nil` is not a value of another kind.

| Theorem | Statement |
|---|---|
| `QueueCapacity` | QueueManager: `QueueSpec => []CapacityRespected` |
| `TypeCorrect` | `Spec => []TypeOK` (Broker) |
| `BrokerCapacity` | `Spec => []CapacityRespected`, by the lemma `UsesQueueManager` |
| `NothingDangles`, `RefusalIsFinal` | `Spec => []NoDanglingIds`, `Spec => []FullSendForgotten` |
| `DeliveredOnce`, `OneHolder` | `MaxRetries >= 2 => (Spec => []SingleCopy)`, and the same of `HolderUncontested` |
| `AcceptedStay` | `MaxRetries >= 2 => (Spec => []AcceptedNotLost)` |
| `RestartTypes`, `LoggedAreRegistered` | Restart: `RestartTypeOK`, `LoggedRegistered` |
| `AckedNeverHandedOut` | `MaxRetries >= 2 => (RestartSpec => AckedNotHandedOut)` |
| `OneCopyOverRestarts`, `RegistryOverRestarts` | under `RestartSpec`, in every run of the server: `SingleCopy`, `HolderUncontested` (with `MaxRetries >= 2`); `NoDanglingIds`, `FullSendForgotten`, `CapacityRespected` |
| `LogUsed` | `RestartSpec => Log!LogSpec`: Restart uses the log as MessageLog allows |
| `GroupTypes`, `MembersStayWatched`, `ClosedStayForgotten`, `NoMemberOrphaned`, `TakersBelong` | ConsumerGroups: `TypeOK`, `MembersWatched`, `ClosedForgotten`, `NoOrphanMembers`, `TakerIsMember` |
| `EveryMemberSelected` | ConsumerGroups: `EveryMemberInTurn` |
| `RecordsAgree`, `NobodyGoneSubscribes`, `ReadersGetAll`, `TopicTypes` | Topics: `SubscriptionsAgree`, `ClosedUnsubscribed`, `ReadInOrder`, `TypeOK` (with never more than `MaxTopics` topics) |
| `PersistenceTypes`, `AnsweredStayLogged`, `IndexLeadsToMessage`, `SegmentsStayBounded`, `SyncedForGood` | Persistence: `TypeOK`, `AnsweredLogged`, `IndexFindsMessage`, `SegmentBounded`, `SyncedIsFinal` |
| `LogImplemented` | `Spec => ImplementsLog`: Persistence implements MessageLog |
| `ServedAreRegistered`, `StopIsOrderly` | Wire: `RegisteredWhileServed`, `OrderlyStop` |
| `WireTypesStay`, `FramingStays`, `AnswersStayInStep` | Wire: `TypeOK`, `FramingKept`, `InStep` |

**The broker**, in four layers, each of which uses the ones before:

1. *Types* (`TypeStep`). One lemma per kind of move of a thread; a step that
   uses a local variable is only reached with the variable set.
2. *The registry* (`RegInv`). `NoDanglingIds` is not inductive: `SendDelete`
   takes an id out of the registry, and nothing in it says that nobody else has
   the id. `EnteringUnknown` does: until its message is queued, only the sender
   knows it. It needs `UnusedUntouched` (an id not sent yet has default fields).
   `RefusalIsFinal` follows.
3. *One delivery* (`FreshDelivery`). `SingleCopy` is not inductive either: that
   a message is not delivered twice depends on what every thread that has it in
   hand may still do. `FreshOK(m)` says, of a message inside its time to live:
   it is queued in at most one place, and then untried and in nobody's hands;
   a thread that has dequeued it is alone; a thread that settles it is alone
   but for the checker; and what has been charged to `retry_count`, plus what a
   running NACK and a running timeout are about to charge, is at most two. With
   `MaxRetries >= 2` none of them therefore goes into the DLQ, and without a
   DLQ no REPLAY makes a second copy. `FreshFrame` and `OneFresh` say that a
   step disturbs one message only; then there is one lemma per step that
   matters. With `MaxRetries` below 2 the third part fails: an exhausted message
   is in the DLQ and is replayed. (This invariant, unlike the properties proved
   from it, says that what has been delivered once is not queued again, which is
   true of the code and not what its specification asks for.)
4. *No loss* (`FreshPresent`). A fresh message that was neither refused nor is
   still being sent, and whose retry was never charged, is somewhere. A step
   that takes it from one place puts it into the next; NACK and timeout charge
   a retry; a REPLAY never meets it, by layer 3; and a queue that is created or
   deleted had nothing in it (`NoOrphanItems`, by `QueueAlwaysInv`). That
   the answer +OK is about a message that was queued needs one invariant more,
   `OneStorer`: a message that is being stored has no answer yet and is stored
   by one handler.

**Restarts** (`RestartInv`, `OnceInv`). A step of the broker in a process that
is up keeps the four layers above, and a process that has started satisfies
them anew: `UnusedUntouched` speaks of ids that no process ever sent, by `sent`,
and everything the other layers speak of was memory. What has to be added is
what the log remembers and memory forgot. `KnownRegistered`: what a start found
is registered and stays so, `RecoveredUntouched`: and is in nobody's hands.
`LoggedAnswered` and `FiledForQueue` say what a record can be: of a SEND that
was not refused, for a queue and not for the DLQ. The key to
`AckedNeverHandedOut` is `AckedGone`: a fresh message that was ever
acknowledged, in this process or an earlier one, is in no queue, on the way into
none and in no handler's hands, so nobody can take it. With `LogImplemented` and
`LogUsed` the log between the two is one abstract log, proved from both sides.

**Sets in order** (`SortingProofs`). The rank of a member, the number of members
before it, is a bijection of a finite set onto `0 .. n - 1` (`RankInjective`,
`RankSurjective`), so `Nth` picks exactly one (`NthRank`, `NthOfRank`), and a
number greater than all of a set goes to the end of its order (`InOrderGrown`).
Where an induction would be needed, `LeastNumber` gives the least counterexample
instead.

**Groups** (`GroupInv`). `TakerIsMember` needs what holds from `join_group`
on: a handler on its way to `next_consumer` is a member of a group that exists,
and not silent, so the heartbeat check passes it by. `EveryMemberInTurn` is a
statement about arithmetic: after `k` calls the rotation of `n` members stands
at `Turn(n, r, k)`, the remainder of `r + k`; `n` calls in a row give every
remainder, and every member has one of the ranks.

**Topics** (`SubscriptionInv`). Between the lock region of SUBSCRIBE or
UNSUBSCRIBE and the assignment that follows it the two records differ in the
topic of that command and nowhere else; `NoSubscribersLeft` (a topic that is
gone has no subscribers) lets a name come back. `ReadInOrder` is not inductive:
a reader is served in three steps, and others run between them. `ReadInv` says
of one between two of them that its offset is still what it read, and that the
message it selected is still the next in order of those registered
(`Selecting`), and of all of them how far they have come (`ReadSoFar`). A
message that is registered in the order of its id goes to the end (`Extends`);
otherwise its topic counts as shifted. `IdsFresh` says that the id is nobody
else's.

**The log** (`PersistenceInv`). `Laid`: the records of a segment lie one behind
the other, by bytes. `Once`: a message has one record at most. `EachAnswered`:
what has a record was answered, so nobody appends it again. `Kept`: what was
answered `+OK` and not lost has a whole record. `Right`: an index entry is the
message's only place. They are stated of any log, index and answers, and each
way in which the log changes — a record added, a segment cut at a byte — has one
lemma per part. `SegmentBounded` is a counting argument: a thread that has
chosen a segment may write to it after it has become full, so `RoomLeft(s)`
counts the bytes of `s` together with one longest record for each of the threads
that have chosen it, and a thread chooses `s` only while it has fewer than
`MaxBytes`. For the refinement, `Recorded(w)` maps segments to sets of messages;
`IndexRecovers` and `ScanRecovers` are the two branches of `recover`
— the second by the least record that the scan would miss — and each
step of Persistence is one of MessageLog or leaves its variables alone.

**The connections** (`StopInv`). `OrderlyStop` needs `HandlersKnown`: a handler
that runs is in the list of threads, or has just been accepted, or is still to
be joined, or has been given up. That a handler that has ended leaves an open
socket only to `start`'s `conn` needs that `conn` is gone when the server no
longer runs, and that a handler leaves only when its client has closed or the
server stops (`Leavers`).

**Framing** (`Framing`). What is in the buffer, followed by what is under way,
is the rest of the lines that were sent, from the first that is not executed:
there are marks, one for the end of each line, between which the lines lie
(`Laid`). To send a line adds a mark at the end (`LaidAppended`), to execute one
takes the first away (`LaidMoved`), and to receive a chunk moves no mark,
because `Decoded` keeps every unit in its place and leaves CR and LF alone
(`LaidDecoded`). The first CR LF of the buffer is then the end of the first line
(`FirstLine`), since no command has one inside. A blank line, which the handler
does not execute, can only be the first (`Skipped`). It holds
until the server closes its socket; what has been executed by then stays as it
was (`Executed`).

**Answers** (`Answers`). As long as every answer was of one line, what the
client has in `data` and what is under way to it are together the answer to its
last command, whole, or nothing while that command is not executed yet
(`Answering`), and before the welcome nothing (`Unheard`); framing says that the
handler has executed no command but those. `_recv` stops at the end of the
line, and so with the whole answer.

Only model-checked: the liveness properties under fairness (`CommandsAnswered`,
`DeliveryResolves`, `AnswerArrives`, `StopTerminates`), which are out of the
prover's reach, and `DlqOnlyExhausted`, whose invariant would have to follow
every further delivery of a message that has been replayed.

## Where code and documents disagree

Each is a `violation` run with its counterexample, and an entry of `findings`
that quotes the sentence (specifications under
`src/openspec/changes/sd-04-message-queue/specs/`):

| Run | What happens |
|---|---|
| `claim_nack` | a NACKed message is PENDING, in no queue: `server.py:433` raises NameError |
| `claim_exhausted` | a message that exhausts its retries locks the checker out for ever (`ack_manager.py:155`) |
| `claim_acked` | the checker undoes an ACK that was answered `+OK` (`ack_manager.py:98`) |
| `log_crash` | after one orderly stop, a crash loses everything appended since (`persistence.py:425`) |
| `log_torn` | messages appended behind a torn record are not recovered (`persistence.py:465`) |

The first of these has three more faces, for which the models have the states
and no run of its own. The NameError of `server.py:433` is that of line 214 and
of line 234, so neither a **timeout** nor the **disconnection** of a group's
member queues a message again: it is PENDING, after a disconnection only once it
has timed out, and nobody can consume it, where
`message-acknowledgment/spec.md:61` says '该消息可被其他消费者（或 C1）重新消费'. A **restart**
puts what it recovers into no queue, where `message-persistence/spec.md:116`
says '未确认的消息被重新标记为可投递'; only its expiry, the DLQ and a REPLAY bring a recovered
message back. `SingleCopy`, `AcceptedNotLost` and `AckedNotHandedOut` are stated
so that a code that does what these sentences ask for would keep them. By the
same way an **acknowledged** message can come back: a restart recovers it as
PENDING, and when it then expires a REPLAY delivers it (`spec.md:16-18` of the
acknowledgements says it is delivered to nobody any more). The properties speak
of messages inside their time to live (`Fresh`).

That **expired messages are moved** to the DLQ has no promise either: a pass of
the checker that finds a timeout ends before `check_ttl`, and a SEND during a
scan ends it too, so other clients can keep it from ever coming that far. And a
record that makes a **segment** pass 64 MB goes into that segment, up to one
record for each thread: `message-persistence/spec.md:50-54` puts it into a new
one, `get_active_segment` looks at the size before it (`SegmentBounded`).

The models show more of the kind: a SEND refused with ERR_QUEUE_NOT_FOUND leaves
its message registered (`message_router.py:60`), and it can be delivered later
by way of the DLQ; PING does not keep a member in its group (`server.py:269`;
the specification of groups says it does); messages that were acknowledged come
back PENDING after a restart (`message_router.py:224` has "if not acknowledged",
but a record has no status); a start may fail for good on a torn record that its
index names (`persistence.py:408` does not catch the UnicodeDecodeError), or
take one for a message with another body; offsets do not survive a reconnection,
whose consumer id is new, nor a restart; a character that `recv` cuts in two is
replaced (`server.py:151`); after an answer of two lines the client may be one
command late (`client.py:64`); a blank command line is never answered and waits
for the timeout; a reader of a topic may skip or repeat a message when one with
an earlier id is registered late or one expires; an expired message stays in its
queue and may be delivered from there and replayed into a second place, and
expiring again it has `DLQ` for its origin; a replay into a full queue leaves
the message in neither; a consumer may have a message before it is in the log; a
group does not consume from the queue it was created for; a member that asks out
of turn uses up another's turn; an append during `close` may be missing from the
saved index; an index saved with an unsynced record may point past the end of
its segment after a failure of the machine.

## What is not modelled

* **Parsing** (`protocol.py`): the table of commands and the split of a line are
  string handling without state; the modules start from parsed commands, and
  an argument that cannot be parsed is an error that changes nothing.
* **The accept loop's errors**: an `OSError` of `accept` ends it; `main.py` then
  calls `stop`, like a signal does. A `stop` from another thread, as the tests
  call it, is not modelled.
* **Name clashes**: queues and topics have names of one kind, and the registry
  keeps only a target. A SEND to a queue with a topic's name appears in the
  topic, and a topic named `DLQ` shows the dead letters. Topics has the messages
  of topics only.
* **A million messages in a process**: ids of one millisecond then sort in the
  wrong order (`models.py:46`), and a clock that is set back gives later
  messages earlier ids.
* `_redeliver_pending_messages` assigns nothing, since it stops at a NameError;
  what the error does to the end of a connection is in `Leave`.
* `validate_ttl`, `get_pending_messages`, `ack_message`, `get_offset`,
  `PersistenceLayer.read`, `cleanup_segments`, `delete_segment`,
  `IndexManager.remove`, `ConsumerGroupManager.heartbeat`: no caller, or no
  effect. `consume_from_topic` has no caller either and is modelled as the
  method it is.
* Name validation, listing commands, formatting and logging change no state.
