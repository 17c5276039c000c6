# Verification of org.little

TLA+ specifications of the parts of `org.little` whose correctness depends on
the order in which things happen: threads that share queues and flags, channels
that open and close while data flows, transactions, sessions, and state that
has to survive a restart. The specifications are written from the Java source
under `src/main/java/org/little`; definitions keep the names of the methods
they translate. TLC checks every specification on small instances, TLAPS proves
the most important theorems for all instances.

## 1. The system and its parts

The repository is a collection of Netty servers, proxies and IBM MQ tools that
share a utility layer. Its README names an HTTP reverse proxy, a "NULL" TCP
proxy, an HTTP server, IMAP and SMTP servers, an SMTP client, a key manager and
a service wrapper; the source adds the MQ stream router, MQ control and file
tools, the ZMQ stream manager, remote command execution and a syslog server.

| Part | State it keeps | Operations | What makes it hard |
|---|---|---|---|
| `mq.stream` router | queues of MQ, units of work, `flag_state` of router, command thread and processors, browse cursor | read configuration, start and stop processors, get, route, put, commit, stop command | threads stop each other with flags; failures between get, put and commit; restart |
| `mq.stream` tools (`copyQ`, `clearQ`) | messages in the memory of threads, two stop flags | copy or clear a queue | the get is outside the unit of work of the put |
| `proxy.Null`, `proxy.tcpRelay` | two channels per connection, `listChannel`, `statChannel` | connect, relay, close | either side closes or fails at any time, also before the other side is connected |
| `proxy.NullR` | pools of back channels, pairs, counters | open waiting channels, pair, relay, reopen | pairing races with closing; counters |
| `org.littleshoot.proxy` | connection states, flow control | HTTP proxying, MITM, filters | vendored fork of LittleProxy |
| `http`, `https`, `auth` | per request; authentication sessions | serve files, authenticate | challenge and response order |
| `mail.smtp` server and client | session, command order, mail transaction; request queue | commands, DATA, STARTTLS, AUTH | pipelined commands, multi-line data, replies matched to requests |
| `mail.imap` server | decoder state, session state, selected folder | IMAP commands | literals inside commands, state transitions |
| `lmsg` message store | folders and messages in files | create, save, load, copy, remove, next UID | UIDs across restarts, half written messages |
| `util.run` scheduler and tasks | `state` of a task, list of tasks, executor queue | add, run, stop, KILL | a task is queued, running and told to stop at once |
| `util.db` connection pool | a vector of queries, each in use or idle | open, close of a query, close of the pool | lost or doubly used connections; different monitors |
| `mq.mqapi` | connection and queue handles | open, get, put, commit, backout | error codes and exceptions |
| `mq.controlStream` | groups and flows with alarms, control queues, channel states | poll, stop a flow and let it run, commands of a page | decisions on polled (stale) values |
| `mq.file` | files sent or received | directory to queue and back | file deleted after a failed put |
| `stream` (ZMQ manager) | bounded in-memory queues, users, routes | route, put, get, transfer | queue at its limit, retry of a transfer |
| `rcmd` | scripted command dialogue | send, wait for prompt | timeouts |
| `syslog` | received records | receive, store | UDP loss |
| `mailWeb`, `mailApp`, `web`, `monitor`, `db.kir` | servlets and pages | show and edit | thin layers over the stores |
| `key`, `ssl` | key stores | create and sign | pure computation |
| `wrapper`, `util` | configuration, strings | parse, format | pure computation |
| `org.json`, JavaScript under `webapp` and `config/var` | vendored libraries (jQuery, jQuery UI, jquery.columns, jquery.json, mustache) | | not this project's code |

## 2. Modules

| Module | Models | Runs |
|---|---|---|
| `MessageMove` | abstract: what a program that moves messages promises | implemented by `StreamProcessor` and `CopyQueue` |
| `StreamRoute` | `cfg_interface.getRoute`, the loop of `Processor.route` | `stream_route`, `stream_route_new` |
| `StreamProcessor` | `Processor` and the units of work of the queue manager | `stream_processor` |
| `StreamRouter` | `Router`, `Command`, restart; instantiates `StreamProcessor` | `stream_router`, `_live`, `_overlap` |
| `CopyQueue` | `copyQ` | `copy_queue` |
| `ControlStream` | `fc_node`, `fc_groupL`, `fc_flowL`, `fc_controlL`, `fc_QL` | `control_stream` |
| `NullProxy` | `NullProxyFrontendHandler`, `NullProxyBackendHandler`, `listChannel`, `statChannel` | `null_proxy`, `null_proxy_list` |
| `ConnectionPool` | `connection_pool`; `keepDB` as a user of it | `connection_pool` |
| `MailStore` | `lFSFolder`, `lFSMessage`, `lUID`; `Content`, APPEND, CREATE, SELECT, STATUS as users of them | `mail_store` |

The theorems are in `StreamProcessorProofs`, `StreamRouterProofs`,
`CopyQueueProofs`, `NullProxyProofs` (with the lemmas of `StatListProofs`),
`ConnectionPoolProofs`, `ControlStreamProofs` and `MailStoreProofs`. A module
named `MC...` only chooses constants. `PROJECT.json` maps every definition to the
lines it translates. A definition whose comment begins with "Mutant" is a
plausible mistake, used to show that a property can fail, and part of no
specification.

### MessageMove

Messages wait; in one step some of them leave and all their copies appear. A
message of which a write was refused may leave with fewer copies, never with
more. The two movers of the repository implement it with different mappings:
in `StreamProcessor` (`MovesExactlyOnce`) a message waits until the commit of
its unit of work, in `CopyQueue` (`CopiesAtMostOnce`) it also waits in the
memory of the thread that got it, and one that is lost there has left with no
copy.

### StreamRoute

A routing table is a sequence of points (mask, queue, LAST flag); a mask is the
set of addresses it matches. `addPoint` is one iteration of the loop of
`getRoute`, including its inner search, which reads `outqueue.get(i)` with the
index of the outer loop: the model throws where Java's `ArrayList` throws and
otherwise compares with that one element. `Wanted` is the reference definition:
the queues of the matching points up to the first LAST one. Every destination is
the queue of a point, and `Processor.init` opens a queue for each point, so the
lookup in `q_out` cannot fail and is left out.

### StreamProcessor

The state is the queue manager's (messages on source queues, committed copies
on target queues, for every connection what it got and put since its last
commit) and the processors' (`flag_state`, the place in `run()`, the interface,
the message at hand, `max_size_msg`). Each call that another thread can observe
is a step: the test of the flag, `get` with its four outcomes, `route`, every
single `put`, `commit`, `close`. The router's side, `init` and `cmd_close`, can
happen at any time. A failed call of the queue manager is a separate action
bounded by `MaxFaults`. Three paths of the code deserve mention:

* a failed `put` continues the loop without backout, so the message stays in
  the unit of work and is committed with the next one;
* an unchecked exception in `route` ends the thread (`"dead"`) with its unit of
  work open and its flag still `CMD_RUN`;
* `close` disconnects, which commits what is still in the unit of work.

The queue manager is external: gets and puts under syncpoint take effect at the
commit, a broken connection or a failed commit backs the unit out, a
disconnect commits. A get may return any unlocked message.

After a get that was refused because the buffer is too small, `run()` sets the
buffer to `mq_msg.getLen()`, that is `MQMessage.getMessageLength()`. Whether
this is the length of the message on the queue or of the part received is up to
the MQ classes, which are not in the repository (they also have
`getTotalMessageLength()`, which `mq_msg.getTotalLen()` calls and `run()` does
not). `TotalLength` chooses: if it is false, `getLen` gives any length up to the
size of the buffer, and a processor may try the same message for ever. The
safety properties and theorems hold for both; `EventuallyConsumed` is checked
with `TotalLength`, which it needs.

### StreamRouter

The router thread, the command thread and the processors are interleaved;
`work`, `get_cfg`, `stop_proc`, `start_proc`, `cmd_close` and `close` are split
at every point where another thread's flag is read or written. The
configuration queue is browsed, so a restart reads it from the beginning;
commands are got and committed when the command thread disconnects. `crash`
ends the process at any step, `break_connection` is the queue manager noticing
it, `restart` starts from `Router.init`. `ProcessorSpec` states that the
composed system implements `StreamProcessor`, so what is proved for the
processors alone holds for those the router drives.

### NullProxy

Per connection: the state of the front and the back channel, whether a `read()`
is outstanding (AUTO_READ is off), the chunk being written, whether
`closeOnFlush` waits for it. Every callback is one action: `channelActive` of
the front (`accept`), the connect listener with the back's `channelActive`
(`connected`, `connect_failed`), `channelRead`, the write listeners (`written`,
`write_failed`), `exceptionCaught`, `channelInactive`. Peers send, close or
reset whenever they like. `listChannel` is modelled with its objects (`heap`)
apart from its slots (`list`), because `remove` replaces the object in a slot
while handlers may still refer to the old one. Netty is external: callbacks of
the two channels of a connection run on one event loop, one at a time; closing
a channel fails its pending write; `channelInactive` comes after the callback
that closed the channel.

### CopyQueue

The threads of `copyQ`. The source queue is opened by `openTruncQ`, which does
not put gets under syncpoint: a get removes the message at once and the thread
holds the only copy until its commit. The branch of `run()` that calls
`backout()` is never taken, because `mq_queue.put` returns `RET_OK` or throws.
A message longer than the buffer is accepted cut; if what is left of it parses,
the cut copy is put, and the model counts it as a copy.
A thread that meets an error sets the static flag that stops all of them.
`restart` ends the process at any step and starts it again.

### ControlStream

One node with a local group. The task of the group, the task of the manager and
the threads of the page are interleaved at every call of a queue manager and
every flag that another thread reads; `fc_flowL.work` holds the lock of its
flow, `fc_flowL.setFlag` changes the control before taking it. Failures that
`mq_contrl` and `mq_util` hide are outcomes of the calls. A message on a control
queue is the controller's (`own`) or another's (`byHand`), a difference the code
can only infer. `upset[f]` records what happened to a flow besides polling: a
message put or taken by hand, a failed call (a connection that cannot be opened
again included), a command, a restart, or a race of commands and polls. `skipped[f]`: the last change of the alarm found the node
not controlling.

### ConnectionPool

`open()` scans under the monitor of the vector, one element per step, and makes
a connection outside of it; `close(q)` takes another monitor; `close()` closes
the connections and then sets the vector to null; the database may drop a
connection at any time. A user is a variable for a query in a thread: most
methods have one, `folderDB.saveSerialX509` two and `dbMAC` three. Keepers are
the users whose variable outlives a round, as in `keepDB.run` and `dbMAC`: when
`open()` fails they close the query of the round before once more
(`close_again`), which another user may have by then.

### MailStore

Directories and files. A UID is drawn, an empty file is created and then
written; creating and writing may fail, and a restart may come after any step.
Writers are SMTP deliveries to several folders and APPENDs, readers load a
folder file by file, creators run CREATE. `reply` is what a client was told,
`file` what is on the disk. The numbers that `load()` gives to messages are left
out.

A message is a sequence of deliveries, one for each part and folder. Contents
matter in three ways, which are constants: deliveries of parts that
`lMessageX509.parse` returns null for are passed over (`Skipped`); for those of a
mail without a Subject `msg2str()` throws, and the file stays empty (`NoText`);
the text of some is not well-formed, because `msg2str()` does not escape what it
puts in, and `load()` leaves them out (`Odd`). None of this is a failure, and the
client is answered OK. `Promised` are the answered deliveries of the other kinds
to folders that existed from the start.

CREATE is modelled for what it does to the store. Its answer is left out: it
answers OK also for a mailbox that exists, and after a `mkdirs()` that failed,
where the text quoted in `CreateCommand.java` ("An OK response is returned only
if a new mailbox with that name has been created") asks for NO.

## 3. What the runs check

State counts are distinct states.

| Run | Instance | States | Properties |
|---|---|---|---|
| `stream_route` | all tables of up to 3 points over 2 addresses and 3 queues, up to 2 addresses per message | 36,713 | `RouteReachesWanted`, `OneAddressReturns` |
| `stream_processor` | 2 processors on one source, 2 interfaces, 3 messages (one to two queues, one to none, one beyond `BFRLNGTH_MAX`), 1 fault | 265,312 | `TypeOK`, `PendingIsUndelivered`, `ConsumedIsDelivered`, `IdleHoldsFailedOnly`, `StopIsFinal`, `MovesExactlyOnce`, `EventuallyConsumed` |
| `stream_router` | 3 processor objects, 2 configurations chosen from one with two interfaces, one with one and a malformed one, 1 message, 1 command, 1 fault; or 2 configurations with one interface, 1 fault, a crash and a restart | 1,288,704 | `TypeOK`, `RunningIsTracked`, `RunsLastConfiguration`, `EndStopsThreads`, `ProcessorSpec` |
| `stream_router_live` | 2 configurations of one interface, the second replacing the processor of the first, 1 command, a fault of a processor and one of the router or the command thread | 149,638 | `StopCommandStops`, `StoppedProcessorIsNoticed` |
| `null_proxy` | 1 connection, 3 chunks each way | 12,037 | `TypeOK`, `RelayedInOrder`, `FlushedBeforeClose`, `StatPresent`, `BothSidesClose` |
| `null_proxy_list` | 2 connections, one of them with data | 860,960 | `ListedWhileOpen`, `NothingLeftListed` |
| `copy_queue` | 2 threads, 4 messages of which one does not parse, 2 errors, 1 restart | 210,246 | `LossIsBounded`, `CopiesAtMostOnce`, `StopSpreads`, `QueueDrains` |
| `connection_pool` | 3 users, one of them a keeper, 3 connections, 1 drop | 1,189,311 | `NotShared`, `PoolIsBounded`, `OpenIsKnown`, `OpenEnds` |
| `mail_store` | 2 writers, 1 reader, 1 creator, a mail to two folders (one missing at first), a mail without parts, an APPEND with a part that is passed over and one that is not well-formed, an APPEND without a Subject, 1 failure, 1 restart | 2,379,294 | `TypeOK`, `LossIsBounded`, `UidUniqueInRun`, `AckedIsListed` |
| `control_stream` | 1 flow of 2 queues of depth up to 2, limit 1, `min_count_group` 1, 1 page thread, 1 event | 436,527 | `StopTracksAlarm`, `ManualIsExplained`, `OverIsAlarmed`, `DrainedIsRun` |

Why these bounds: two processors are what a change of configuration leaves on
one source queue, and a third would only repeat the second; three message sizes
cover a buffer that fits, one that has to grow and a message that is too long.
One fault is enough for the liveness property; the safety properties of that run
are proved for any number (section 4). The router needs a configuration that
replaces two processors by one and the reverse, a malformed one, and as many
processor objects as two configurations create. Its constraint `CrashesApart`
keeps behaviours with a crash to those without a command and with one kind of
configuration: a crash ends every thread, whatever it was doing, and what matters
after it is only the queues. (The theorems of section 4 have no such
constraint.) For the liveness of the router a second configuration is enough to
have a stop command come while one processor is being replaced by another. The
two violation runs, `stream_route_new` and
`stream_router_overlap`, are described under Findings.

Three chunks let one be delivered, one be written and one be unread; two
connections are the least that can reuse each other's slots. Two copying threads
and two errors let a failure of one thread meet a message in the hands of the
other. Three connection users let two of them make a connection while the third
scans. A creator and a writer can race for the missing folder, and two writers
for the counter of UIDs; a malformed, an empty and a cut file can lie beside a
whole one when the folder is loaded. With a limit of 1 and depths up to 2 a queue of
a flow can be empty, filled below its limit, or over it, and the lengths of two
queues add up; the count of the node can be below `min_count_group` or not. An
"event" of `ControlStream` is a failed call, a command, a restart or a message
put by hand. Two flows are not in this instance: to a flow the others are only
the count of the node, which changes here as well; `ManualIsExplained` and
`StopTracksAlarm` are proved for any group.

Deadlock is checked for `ConnectionPool`, whose threads can always go on. The
other systems may stop: threads end, connections that are closed stay closed,
and senders run out of messages.

Every property is paired in `PROJECT.json` with a mutated definition that
contains a plausible mistake (a commit inside the loop over the destinations, a
put outside the unit of work, a flag counted down instead of set, AUTO_READ left
on, a slot cleared in place, a scan that does not advance, ...)
under which TLC reports the property violated.

### Fairness

`stream_processor` and `stream_router_live` assume weak fairness of each
thread: Java threads that are runnable are scheduled, and calls of the queue
manager return. Arrivals, faults, commands and crashes have no fairness.
`null_proxy` assumes weak fairness of the callbacks of a connection: an event
loop serves its channels, a connection attempt ends at the latest after
`CONNECT_TIMEOUT_MILLIS`, and a write to a peer that is up ends. Peers need
never send or leave.

The other liveness properties rest on the same assumption:

* `CopyQueue`, `ConnectionPool`: weak fairness of each thread while it is inside
  the program. A caller need not give its connection back.
* `ControlStream`: each thread, and the tasks of group and manager, which the
  scheduler runs again and again; strong fairness of `enter`, because a monitor
  that is free again and again is obtained in the end. (Java does not promise it
  for monitors; here the group's task, the only one that returns by itself,
  leaves the lock free for `run_timeout` seconds, 10 by default, between polls.)
  Commands, failures, restarts and traffic have none.

### Findings

* `stream_route_new`: the search for a duplicate in `cfg_interface.getRoute`
  loops over `j` but reads `outqueue.get(i)`. A queue already among the
  destinations is added again, or the lookup throws
  `IndexOutOfBoundsException`, which ends the processor thread. The comment in
  the code says that a *new* address is added. `RouteReachesWanted` shows that
  no destination is wrong, and none is missing when `getRoute` returns;
  `OneAddressReturns` says when that is for a message with one address: exactly
  when no two points match it before a LAST one.
* `stream_router_overlap`: `Router.stop_proc` waits for the flags it has just
  set and not for the threads, so processors of the new configuration start
  while old ones still move messages, although the comments say they are stopped
  first. `ConsumedIsDelivered` shows that messages are still moved exactly once.

More observations are not findings of a run; the properties are stated so as to
say what remains true. `lFSMessage.save` returns true after a failed write, and
the client is answered OK. Other deliveries are answered OK and lost without any
failure: parts that are passed over, mails without a Subject, and, for whoever
loads the folder, texts that are not well-formed. `LossIsBounded` and
`AckedIsListed` are about the deliveries besides these: of them one is missing
for each failed operation and no more, whatever sessions run at the same time
and wherever the program is restarted. `keepDB` may close a query that another
thread is using, and `open()` then hands it out again: `NotShared` shows that a
query is shared in no other way. `lUID` begins again after a restart:
`UidUniqueInRun`. `fc_groupL.work` sets the count of active flows to 0 and counts
only after polling every flow, so the node may find itself below
`min_count_group` meanwhile, and a STOP or RUN that is due then is never sent:
`StopTracksAlarm` shows that undisturbed polling misses none in another way.

## 4. What is proved

`StreamProcessorProofs` proves, for every number of processors, interfaces,
queues, messages and faults and for every routing function:

| Theorem | Statement |
|---|---|
| `Invariance` | `Spec => []IInv` |
| `TypeCorrect` | `Spec => []TypeOK` |
| `NoEarlyDelivery` | `Spec => []PendingIsUndelivered` |
| `ExactDelivery` | `Spec => []ConsumedIsDelivered` |
| `IdleUnit` | `Spec => []IdleHoldsFailedOnly` |
| `StopFinal` | `Spec => StopIsFinal` |

The assumptions are those the module names: `RouteAssumption` (routes are lists
of queues), `QueueAssumption` (an interface has a source and an error queue),
`SizeAssumption` (lengths and bounds are natural numbers) and `NullAssumption`
(the two null values differ from interfaces and messages).

`ConsumedIsDelivered` alone is not inductive: it says nothing about what is in
an open unit of work, which the next commit turns into deliveries. `IInv` adds

* `Owner`: a running processor has an interface, a busy one holds its message;
* `Locks`: a message is locked by at most one processor, locked messages are
  still pending, and a processor has put copies only of messages it holds;
* `Progress`: apart from messages whose put failed a processor holds at most
  its current message, and has put it exactly to the first `idx` destinations;
* `Nowhere`: a message that never arrived is on no target queue.

The proof has one step per action. Actions that end a unit of work rest on the
lemmas `CommitQueues` and `BackoutQueues`, the others on `SameQueues` and
`ThreadStep` (a step of one thread leaves the facts about the others alone).
`OccursStep` counts the copies that one more `put` adds.

The module also proves `Refinement`, `Spec => MovesExactlyOnce`: the
processors implement `MessageMove`. It adds to `IInv` that a message of which a
put failed has arrived, and that a unit of work never has more copies of a
message than one of its routes asks for (`Partial`). A commit maps to
one `Move` of all messages of its unit (`CommitMoves`), an arrival to `Arrive`,
every other action to a stutter.

`StreamRouterProofs` proves, for every list of configurations and every number
of processors, commands, faults, crashes and restarts:

| Theorem | Statement |
|---|---|
| `Invariance` | `Spec => []IInv` |
| `Tracked` | `Spec => []RunningIsTracked` |
| `LastConfiguration` | `Spec => []RunsLastConfiguration` |
| `EndStops` | `Spec => []EndStopsThreads` |
| `RefinesProcessors` | `Spec => ProcessorSpec` |
| `RouterTypeCorrect` | `Spec => []TypeOK` |
| `RouterExactDelivery` | `Spec => []P!ConsumedIsDelivered` |
| `RouterMoves` | `Spec => PP!MovesExactlyOnce` |

from `ConfigAssumption` (a configuration is a list of interfaces) and
`ProcessorAssumption`, the assumptions of `StreamProcessor` about the constants
it is given. The invariant follows the router through `work()`: `Entries` and
`Spawning` say which entries of `Router.proc` are null at which place,
`Closing` that the entries `cmd_close` has passed were told to stop and that
null entries are at the end, so that the exception at the first of them leaves
nobody out, `Reading` that `str_cfg` is the configuration at the browse cursor,
`Flags` that a processor without a flag is one that was never initialised.
`RefinesProcessors` takes each step of router, command thread and crash to a
step of one processor or a stutter. The theorems of the processors then hold of
the whole process: `RouterExactDelivery` and `RouterMoves` are `ExactDelivery`
and `Refinement` applied through it (`PP` is `StreamProcessorProofs` with the same
variables; `SameInit` and `SameNext` identify its `StreamProcessor` with `P`).

`CopyQueueProofs` proves, from `CopyAssumption`, `CopyRefinement`,
`Spec => CopiesAtMostOnce`, and `LossTheorem`, `Spec => []LossIsBounded`. The
inductive invariant says that a message is in one place (once on the queue, in
the memory of one thread, or gone) and that one with a copy is gone. Each action
is one of four kinds (`Classify`): messages are forgotten, taken from the queue,
copied, or sent by an application; each kind maps to a step of `MessageMove` or
a stutter. For the bound each action is weighed instead (`StepCosts`): it loses
nothing beyond what does not parse, or one message and counts an error, or it is
a restart and loses at most what the threads hold.

`NullProxyProofs` proves, for every number of connections and chunks and from
`NullAssumption` (null is not the index of an object):

| Theorem | Statement |
|---|---|
| `Invariance` | `Spec => []IInv` |
| `TypeCorrect` | `Spec => []TypeOK` |
| `InOrder` | `Spec => []RelayedInOrder` |
| `NothingLost` | `Spec => []FlushedBeforeClose` |
| `NoNullStat` | `Spec => []StatPresent` |
| `ListedExactly` | `Spec => []ListedWhileOpen` |
| `ListedNoLonger` | `Spec => []NothingLeftListed` |

The invariant has a part for the channels and one for the statistics.
`Phase` says in which orders the two channels of a connection open and close and
when one is read or written, `Relay` that at most one chunk of a stream is under
way, the one after those delivered, and that a channel is read only when none
is, which is what AUTO_READ off is for, `Order` that the channel of a peer that
stays closes after that of a peer that left. `WF` is about the list alone: every
slot has an object of its own, an object in use is in a slot and is the one its
handler refers to, and what a handler still refers to is its own or in no slot
any more, so that a late `remove` by reference or by id hits nobody else's
entry. `Statistics` relates the list to the channels: the entries of an open
connection carry its counters, and a channel that is gone has taken both entries
with it. `StatListProofs` shows each operation of `listChannel` to keep `WF` for
any list (`create`, both forms of `remove`, the counters), then each callback to
keep `Statistics`. Which slot `create` takes and which `remove` frees is the
least of a set of indices; that there is one is the only use of
well-foundedness.

`ConnectionPoolProofs` proves, from `PoolAssumption`, `HandedOutOnce`,
`Spec => []NotShared`, `OpenKnown`, `Spec => []OpenIsKnown`, and `PoolBound`,
`Spec => []PoolIsBounded`. `NotShared` is not inductive, since `open()` hands
out what is marked as given back: `InUse` adds that a query somebody has is not
so marked unless a former user closed it once more. `Removed` states what removing an element leaves of a sequence. For
the bound, `Vector` says that a query of the vector which is not given back is
in the hands of a user, and `Room` what a scan without a result has
established: either it has removed an element, and the vector is no longer than
the number of users that neither scan nor make a connection, or each element
it passed belonged to a user that is among those and has none of the elements
ahead. At the end of the scan both say that there is room for one more.

`ControlStreamProofs` proves, from `ControlAssumption`, `ManualExplained`,
`Spec => []ManualIsExplained`, and `StopFollowsAlarm`,
`Spec => []StopTracksAlarm`. For a flow without an excuse the invariant `Sound`
relates the flag to the control queue at every place of a thread: at most one
thread is inside `setFlag` and none polls beside it, a message of the controller
implies the flag outside `setFlag`, and what a poll saw still holds when it acts
on it. `Holds` says which threads have the lock. `Tracked` adds, for a flow on
which nothing else acted, that what a thread inside `setFlag` is about to do is
what the alarm asks for.

The inductive invariants of `CopyQueue`, `ConnectionPool` and `ControlStream`
begin with `Types`, which is their type invariant; it is proved and not checked
again by a run.

`MailStoreProofs` proves, from `StoreAssumption` and for every number of
sessions, messages, folders, failures and restarts:

| Theorem | Statement |
|---|---|
| `LossTheorem` | `Spec => []LossIsBounded` |
| `UidTheorem` | `Spec => []UidUniqueInRun` |
| `ListedTheorem` | `Spec => []AckedIsListed` |
| `StoreTypeCorrect` | `Spec => []TypeOK` |

None of them is inductive. `Saving` adds that a message is in the hands of
one thread and only until it is answered, so that the files of an answered
message never change again. `Missing` counts, besides the promised deliveries
missing from answered messages, those a thread has already gone past: one more
for each failed operation (`OneMissed`), none for any other step
(`NoneMissed`), and an answer only moves them from one kind to the other. `Uids`
bounds by the counter the UIDs in the files of this run and in the hands of
threads and keeps them apart; after a restart every file belongs to an earlier
run. On top of these `Stored` says that the folder a thread delivers to exists
once it was opened, and that a file is listed in the folder of its delivery from
the step that creates it; `TypeOK` follows. On top of both, `Loading` says that
what was promised before a load began still is, and that what of it has a whole
file is loaded or still to be loaded (`LoadStep`; the files of answered messages
stay, `AnsweredStays`). What a finished load lacks is then among `Missed`, which
`Missing` bounds.

Only model-checked:

* liveness (`EventuallyConsumed`, `StopCommandStops`,
  `StoppedProcessorIsNoticed`, `BothSidesClose`, `StopSpreads`, `QueueDrains`,
  `OpenEnds`, `OverIsAlarmed`, `DrainedIsRun`): fairness is outside what the
  prover treats here;
* `RouteReachesWanted` and `OneAddressReturns`: what the loops of `getRoute` and
  `route` compute is a fold over the table, and a proof for tables
  of every length needs an induction over them, which is out of the prover's
  reach; the run covers every table within its bounds.

Every other invariant, action property and refinement that a run expects to
hold is a theorem.

## 5. Not modelled

Abstracted in the modelled parts: the XML of configurations and messages,
wildcard matching, the wording of commands and logs, the start and stop of the
servers. Contents play no role in any decision except as sizes, routes, and
whether they parse, can be written and can be read back.

Operations of partly modelled parts that are left out:

* `mq.stream`: `clearQ`, `copy2DB`, the PCF command thread, and the exception in
  `copyQ.close()` when its file could not be opened.
* `mq.controlStream`: channels, remote groups and flows, statistics, `close`.
* `util.run`: the list of the scheduler and the states of its tasks. Tasks appear
  as actions of `ControlStream` that are taken again and again, `tfork` as the
  threads of `StreamRouter`.
* `util.db`: `_init` and the SQL helpers.
* `lmsg`: `copy`, `remove` and `del` of messages, which have no callers. SELECT,
  STATUS and CREATE write "INBOX" in lower case where SMTP delivers to "INBOX";
  the model has one name, as a file system that ignores case does.
* `mail.smtp`: the dialogue of a session (order of commands, AUTH, DATA and its
  lines, replies), proxy mode with the client, STARTTLS. Only the delivery of a
  complete mail is modelled.
* `mail.imap`: the decoder that reads commands and literals from fragments, and
  the session. STORE, EXPUNGE, COPY, CHECK, EXAMINE, RENAME and NOOP only
  answer; FETCH and SEARCH read the list loaded by SELECT.

Parts that have state and concurrency and are left out nevertheless, in favour
of those above; `PROJECT.json` lists what can go wrong in them as hazards
without a property:

* `proxy.NullR`: pool of waiting channels, counters, `sync()` on event loops,
  pairing. Its handlers relay as those of `proxy.Null` do.
* `mq.file`: threads that share a list of files, deletion after a put.
* `stream`: queues in memory with a limit, made when first used.

Other parts that are left out: servlets and pages (`web`, `mailWeb`, `mailApp`,
`monitor`, `db.kir`), which display what other parts keep; `http` and `https`,
which serve one request at a time and keep nothing; `key`, `ssl` and the message
formats of `lmsg` and `mailx`, computations on external formats; `auth`, `rcmd`
and `syslog`, where an external service or peer decides what happens;
`proxy.tcpRelay`, a debugging tool; the vendored `org.littleshoot.proxy` and
`org.json`. All JavaScript of the repository (under `webapp` and `config/var`)
is copies of third-party libraries (jQuery, jQuery UI, jquery.columns,
jquery.json, mustache) and is not part of the program that is verified.
