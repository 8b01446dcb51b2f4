# ker in TLA+

TLA+ models of ker, the coding agent in `src/`: its nodes, its control plane and what lies
between them. Every module is translated from the source at this commit. TLC checks the modules
on small instances, TLAPS proves the central invariants for every instance.

`PROJECT.json` lists the components, the runs, the mutant that shows each property can fail, the
source lines behind every definition, the hazards of the code and the theorems. This file says how
they fit together.

## The system

ker runs a language model in a loop with four tools on the user's machine. A **node** owns
sessions, queues their prompts and executes them. The **control plane** keeps the canonical log of
every session, a catalog of projects and nodes, and serves clients over HTTP. In the bundled daemon
both live in one process and the node appends to the plane directly; a remote node connects by
WebSocket and writes through a spool on its own disk.

| Component | State | Operations | Who it meets | What is hard | What makes it correct |
|---|---|---|---|---|---|
| Session queue, `node/src/node.ts` | queue, active turn, promise-chain lock, `#running`, `#stopping`, conversation | admit, compact, cancel, run, finish, prune, advance, recover, import, shutdown | clients through the plane; the harness through callbacks; the log through awaited appends | crashes between appends, signals from outside the lock, a finally block that runs late, a queue changed in memory before it is durable | no accepted turn is lost, run twice or ended twice; one turn at a time; cancellation holds; the log alone is enough to recover |
| Link and spool, `node/src/link.ts`, `spool.ts` | socket, ready flag, waiters for acknowledgements and loads, one spool file per session | append, flush, acknowledge, reject, drain, load, reconnect | the plane's socket, frame by frame | lost acknowledgements, frames of an old connection, crashes in a file rewrite, a rejection racing appends | the canonical log is a prefix of what the node wrote, nothing pending is lost, the spool empties |
| Record store, `store/src/index.ts` | log files, a record chain | append, idempotent append, read, scan | node and plane | torn final records, classification by the tail | a log is always one chain |
| Control plane, `server/src/plane.ts`, `nodes.ts`, `socket.ts` | connections and their phase, registry, calls in flight, projections | handshake, register, revoke, call, time out, recover | nodes, catalog, HTTP handlers | two connections of one node, revocation in a handshake, a late answer to a call that timed out | one connection per node serves, a revoked node never does, a session that looks busy and runs nowhere is recovered |
| Projection and events, `server/src/projection.ts`, `http.ts`, `client/src/index.ts` | fold of the records, bounded tail, epochs, live message | apply, publish, subscribe, evict, replay, resync | plane, HTTP clients | eviction in the middle of a message, a subscription racing events, a cursor older than the tail | a client that follows the rules sees every event once and in order |
| Catalog, `server/src/catalog.ts` | SQLite rows | sessions, workspaces, one-time tokens, devices | plane | concurrent use of a token, rows and logs that disagree after a crash | a token is spent once; reconciliation adopts every log |
| Archive, `server/src/archive.ts` | staging directory | export, import | plane, node recovery | a crash between placing files and writing rows | an import is complete or absent |
| Harness, `engine/src/index.ts` | message history, tool calls in progress | send, stream, call tools, retry, compact | session queue, model, tools | abort at every await, a stream that breaks half way | each tool call has one result; shown output is not retried |
| Credentials, `auth/src` | credential file, lock file | lock, refresh, log in, log out | processes of one user | rotating tokens shared by processes | a refresh token is spent once, a logout wins |
| Tools, `agent/src` | output buffer, child process | read, write, edit, bash | harness, operating system | bounded buffer, backpressure, abort | output is a suffix, the file is complete |
| Protocol, models, CLI, GUI | none that survives a call, or presentation | | | | left out |

The hazards behind these rows, each at its line, are `hazards` in `PROJECT.json`.

## Plan

1. **SessionQueue**, its abstract specification **TurnLifecycle**, the TLC instances, and the
   proofs of type correctness, single execution and agreement of queue and executions. *Done.*
2. **Replication** (link, spool, plane's chain; disconnects, crashes, torn writes), with the
   abstract **CanonicalLog**, and the proof that the plane's log is one chain. *Done.*
3. **NodeConnection** (enrollment, handshake, registry, revocation, calls, recovery after a
   reconnection), **LiveEvents** (projection, tail, resync, eviction, clients), **Harness** (the turn
   loop and the conversation it leaves in the log), **BashTool**, with the proof that nothing of a
   stopped command is left running, and **Catalog** (bindings, reconciliation, archives). *Done.*
4. Proofs: every safety property and the refinements of **SessionQueue** and of **Replication**, the
   safety properties of **NodeConnection**, **BashTool**, **Catalog**, **LiveEvents** and **Harness**.
   *Done.*

No module declares a recursive operator, so that each can be proved about: Harness rebuilds a
history with a recursive function, and the queue drops items with set operations on their positions.

## Modules

| Module | Models |
|---|---|
| `SessionQueue` | the turn queue of one session in the node process, its log, crashes and recovery |
| `TurnLifecycle` | what a client is promised about a turn: accepted, at most one running, ended once |
| `MCSessionQueue` | the instance TLC uses (symmetry of the turns of one kind) |
| `SequenceFacts` | lemmas on `Append`, `Tail`, `SubSeq`, `RemoveAt` and concatenation; least elements and induction on sets of numbers |
| `SessionQueueProofs` | type correctness; the queue names no unknown turn; one execution at a time; queue, memory and executions agree; no turn is lost, run twice or ended twice; cancellations and compactions are reported as what they were; the log implements `TurnLifecycle`; order of submission; pace of compactions |
| `Replication` | the records of one session on their way from a remote node's spool to the plane's log |
| `CanonicalLog` | what the link promises: the plane's log is a growing prefix of what the node wrote |
| `MCReplication` | the instances TLC uses |
| `ReplicationProofs` | type correctness of the link; the plane's log is one unbroken chain; nothing of the node's is rejected; the link implements `CanonicalLog` |
| `NodeConnection` | the connections of one remote node: credentials, handshake, registry, calls, revocation, recovery |
| `MCNodeConnection` | its instance, with the session of each call |
| `NodeConnectionProofs` | type correctness; a revoked node stays out of the registry; an answered call is durable |
| `LiveEvents` | a session's projection and event stream, from a node's deltas to what a client shows |
| `MCLiveEvents` | its instance |
| `LiveEventsProofs` | type correctness; a subscribed client gets every event, once, in order; what it shows is true |
| `Harness` | the agent loop, the history it holds, and what the node records, compacts, prunes, rebuilds and repairs of it |
| `MCHarness` | its instance (symmetry of accounts) |
| `HarnessProofs` | one account per session; the log replays to the history in memory; every call of a request has its result |
| `BashTool` | the bash tool: processes, pipe, output and its file, timers, signals |
| `MCBashTool` | its instance |
| `BashToolProofs` | type correctness; nothing of a stopped command outlives the answer; an answer without error has all the output |
| `Catalog` | projects, workspaces and session rows against the logs: creation, restarts, salvage, export and import |
| `MCCatalog` | its instance (symmetry of the sessions created here) |
| `CatalogProofs` | type correctness; bindings agree and are kept; interrupted turns are found; no log strays |

The modules meet at named seams. SessionQueue lets a harness deliver, report usage and end;
Harness is that harness, with a queue of at most one turn. Replication carries the records of one
session over connections that are already authenticated; NodeConnection has the connections, with a
log that only counts changes. LiveEvents takes the records and the deltas of a turn as they leave
the node. Catalog sees of a log its header and whether its tail is idle.

### SessionQueue and the code

*Durable state* is the session log, represented by what a fold over its records yields: the newest
`queue_changed` snapshot (`queue`), submission records (`submittedAt`), the settlement of each prompt
(`settled`), terminal records (`terminal`), committed summaries (`compacted`), cancellation requests
and whether a `stats` record exists (`measured`). *Volatile state* is the node process: `mem` is
`state.queue`, `active` is `state.activeTurn`, `registered` the session's entry of `#running`,
`attempted` is `state.compactionAttempted`, `lock` the holder of `state.queueLock`, `shutdown` is
`#stopping` and how far `shutdown()` has got. `execution[t]` is the asynchronous function `#runTurn`
or `#runCompaction` of turn `t` together with its `ActiveTurn`.

*One append is one step.* An operation under the lock that awaits several appends is a chain of
actions, and `lock` says at which append it waits: crashes, aborts, usage reports and the shutdown
flag fall between its appends as they do in the code. The queue in memory changes before the
append is awaited, as in the code.

| Code | Actions |
|---|---|
| `admit`, `compact` | `Admit`, `Compact`, then `AppendSubmission` |
| `cancel` of the running or of a waiting item | `CancelRunning`, `AppendCancelling`; `CancelWaiting`, `AppendWithdrawal` |
| `#runTurn`, `#recordHarnessEvent`, `#applyEvent` | `Deliver`, `ReportUsage`, `HarnessEnds` |
| `#completeTurn`, `#runCompaction`, `#finishTurn` | `CompleteTurn`, `SettleTurn`, `FinishTurn`, `Settle` (the finally block) |
| `#maybePrune`, `#advanceQueue`, `#startNext` | `Prune`, `ChooseNext`, `AppendSubmission` |
| `shutdown`, `abortSession` | `AskShutdown`, `ShutdownAborts`, `Exit`; `AbortSession` |
| `#openState`, `#loadState`, `recover`, `#recoverSession` | `Restart`, `RecoverSession`, `ExpireOld`, `ExpireAll`, `RecoverRunning`, `RecoverNothingRunning`, `UnlinkImported` |
| the end of the process | `Crash`, and `Exit` after a shutdown |

What is abstracted, and why it is safe:

- Conversation content, model output, tool calls and texts: no guard of the queue reads them, except
  the estimate of the context size, which is left open. Whether a compaction is due is therefore a
  choice, restricted by the guards that do not depend on content (`MaybeCompaction`).
- The revision of a snapshot. It is incremented under the lock before every append, so the newest
  snapshot is the one with the highest revision; `queue` is that snapshot.
- A turn refused for want of context (`context_exhausted`) and a cancellation that finds nothing to
  cancel change nothing, and are no actions. `#startNext` with nothing to start rewrites an equal
  snapshot: a stuttering step.
- What the harness reports as its result. An abort decides over it, so that only whether it failed
  matters (`FinalReason`). An assistant message that is still open when the turn ends makes it fail.
- Items expire by age. They wait in submission order, so those that expired are a prefix.
- Recovery is the first to hold the lock: in the daemon, clients and sockets wait for `ready`, which
  recovery precedes; in a linked node, `recover` is called in the same step that makes the link ready.
  That a *reconnected* node may be asked to recover a session which it is executing is part of
  NodeConnection.
- Import is a restart over a copied log with `imported` set, which is how the plane calls `recover`
  after it has placed the files.
- An append does not fail and is not torn. After an append of the queue that failed, memory and log
  disagree, and what the next operation appends is nothing the code promises anything about; the
  hazard is listed without a property. Batches torn by a crash, and failing appends of the
  conversation, are in Harness.

`TurnLifecycle` has the state a client can see: the backlog, the running turn, which turns were asked
to stop, and outcomes. `SessionQueue` implements it through a mapping from the *durable* state
alone (`ImplementsLifecycle`), so the promise holds of what survives a crash, at every instant.

### Replication and the code

A record is its number in the order of writing, and `previous` its `previousRecordId`. On the node's
disk are the spool file (`file`, and `fragment` when it ends in a torn line); in the node process
whether the spool of the session is open and where its chain ends (`spool`), whether the session is in
the cache of `node.ts` (`session`), the phase of the connection as the link sees it (`link`), the
acknowledgement that the flush under way awaits (`awaiting`) and whether another flush is chained
behind it (`wanted`). `toPlane` and `toNode` are the frames of the connection, each handled in order
as both sides chain their handlers. `late` holds batches of closed connections: closing a socket
does not empty the plane's chain of handlers, so they may still be processed while the next
connection is served. The plane has its log (`canon`) and knows the session or not (`known`).

| Code | Actions |
|---|---|
| `createSession`, `Link.append`, `Spool.append` | `CreateSession`, `AppendRecord` |
| `#connect`, `#finishWelcome`, `#drain`, `#flush` | `Connect`, `ReadSpool`, `SpoolUnreadable`, `Flush`, `SendDrained` |
| ready, ack, reject and history frames on the node | `ReceiveReady`, `ReceiveAck`, `ReceiveReject`, `ReceiveRejectDraining`, `ReceiveHistory`, `ReceiveUnavailable` |
| `Link.load` | `Load`, `ReceiveHistory` |
| records, drained and load frames on the plane, `SessionLog.appendRecords` | `HandleRecords`, `WriteFails`, `HandleLate`, `HandleDrained`, `HandleLoad` |
| a closed socket, the end of a process | `Disconnect`, `NodeCrash`, `PlaneStops` |
| an append, or the rewriting of a spool file, interrupted by a crash | `TearAppend`, `TearRewrite` |

What is abstracted, and why it is safe:

- One session. Spools, flushes and logs are kept per session and share only the connection; that the
  drain waits for all of them is the one place where they meet.
- The handshake before the drain, and calls with their results, are in NodeConnection. A session
  that the cache holds may write at any time, also while the node is not connected.
- A batch of several records written together is several records; a torn batch is then a shorter one
  followed by a fragment.
- `appendRecords` skips every record it has. The model skips the prefix that it has: a spool file and
  the log are both chains, so that a record the plane has is preceded in the batch only by records
  it has.
- `WriteFails` stands for a failing append to the log and for a failure after it (the projection); both
  are answered by a reject. A write that fails after writing part of a batch, and a failing
  creation of the directory, are not modelled.
- The log of the plane is read again only after a restart. The interruption of the very first record
  of a log, and the deletion of a session while its node writes, are not modelled.

### NodeConnection and the code

The connections of one node are numbered in the order it opens them, and each has a queue of frames
in either direction. *The plane* has, of each connection, the phase of `handleConnection` (`phase`),
its socket (`sock`), the `RemoteNode` its hello made (`remote`) and the running sessions the hello
named (`announced`); of the node, the registered connection, the secret's hash, the revocation and
the tokens; and the calls in flight. *The node* has its secret on disk, the token it was started
with, the phase of its link, the sessions that execute, the calls it handles, and per session the
changes written and acknowledged. A break is noticed by the two ends separately, so that the plane
may serve two connections of a node, and frames already sent may arrive late.

| Code | Actions |
|---|---|
| `#connectLoop`, `#connect` | `Open`, `NodeNotices` |
| `handleConnection`: enroll, auth, the five seconds | `ReceiveEnroll`, `ReceiveAuth`, `AuthTimeout` |
| hello, records (`Accept`, `Reject`), drained, result frames; the close handler | `ReceiveHello`, `ReceiveRecords`, `ReceiveDrained`, `ReceiveResult`, `PlaneNotices` |
| `RemoteNode.#call` and its timer, `revokeNode`, a stop of the plane | `Call`, `CallTimeout`, `Revoke`, `PlaneStops` |
| `#receive` on the node, `#finishWelcome`, `#drain`, `#finishReady` | `ReceiveWelcome`, `ReceiveRefused`, `ReceiveAck`, `ReceiveReject`, `Flush`, `Drained`, `ReceiveReady` |
| `#handleCall`, `recover` | `ReceiveCall`, `Admit`, `RecoverImported`, `Answer`, `Recover` |
| the end of a turn; a broken connection; the node's process | `Finish`; `Break`; `Crash`, `EnrollAgain` |

What is abstracted, and why it is safe:

- A session's log is the number of its status changes: a turn runs while it is odd. Which records
  they are, and how a batch is checked, is Replication, and so are a spool file that cannot be read
  and the reject of records for a session the plane does not know (`socket.ts:166`).
- Any batch may fail to be written, at the cost of one fault, and so may every later batch of that
  session: log and spool disagree from then on (`spoiled`), and whether one fits the other again is a
  choice. The node drops its spool; whether its process goes on with the history it holds or takes
  the plane's is a choice where it may be either (`Loaded`). A reject fails the drain that waits for
  it, before `drained` or behind the recovery, which closes the socket, and any other flush in
  silence. The abort of the session's turn is its `Finish`, which may happen at any time.
- The lengths of the backoff and of the heartbeat. A heartbeat closes a connection that is broken,
  whatever its period; backoff delays `Open`, which is enabled until a refusal.
- A prompt is admitted, and its turn ends, in one step each: what happens between is SessionQueue.
- `createSession`, which waits like a prompt, is in Catalog; the other calls change nothing.

`RevocationHolds` excuses one window: a node revoked after its credential was verified and before its
drain ended is registered all the same, because nothing looks at the revocation again (`slipped`).
`AnswerIsDurable` excuses the sessions of which a batch was rejected: `Link.append` swallows the
rejection (`link.ts:121`), `#handleCall` awaits only flushes whose failure is already caught, and the
call is answered as a success although the canonical log lacks its records. `StaleSettled` excuses
the same sessions, because a process recovers its own copy of the log, in which no turn may be open.
`NodeServed` excuses a node that was refused, that used its last connection, or one of whose older
connections was registered after a newer one (`overtaken`): when that older connection closes, no
connection is left in the registry. All of these are what the code does, no document promises
otherwise, and they are hazards in `PROJECT.json`; the properties show that there are no others.

### LiveEvents and the code

A remote node streams one turn: each message is some reasoning and some text, in numbered chunks,
then the record that completes it; a last record ends the turn. The plane has the canonical log
(`stored`) and perhaps a projection, with its epoch, its sequence, the text of the message under
way (`active`, `text`) and the bounded `tail`. A client has a kind, a phase, a cursor, and what it
shows: a **viewer** is `attach` with the transcript of the browser interface, a **monitor** is
`runMonitor`, a **prompt** is `runPrompt` with the terminal's renderer.

| Code | Actions |
|---|---|
| deltas and records of the node, the link | `Delta`, `Record`, `BreakLink`, `Reconnect`, `LinkReady` |
| `appendRecords`, `publishDelta`, `SessionProjection` | `ReceiveRecord`, `ReceiveSpooled`, `ReceiveDelta` |
| the eviction timer, the plane's process | `Evict`, `PlaneStops`, `PlaneStarts` |
| the snapshot and events routes, `subscribe` | `Snapshot`, `Subscribe`, `Activate`, `RequestFails` |
| the clients' loops, the transcript, the renderer | `Submit`, `Receive`, `StreamEnds`, `BreakStream` |

`Subscribe` and `Activate` are two steps because the handler of the events route awaits between
them: what is published meanwhile is held back and written after the replay. A delta that is not
contiguous is an error of the projection, which closes the node's connection, as in the code. A
client that gives up has phase `failed`; which errors make it do so differs between the three, and
is translated from each of their loops.

`TextTrue` excuses the messages in `torn`, some of whose deltas were lost with a connection or whose
projection was dropped in their middle: live deltas are not spooled (`docs/node-protocol.md`), the
event that completes a message carries no text, and a client then shows less of it, or shows it from
the middle, until it takes a snapshot. Tool calls and their output, usage and the other events of a
session pass through the same tail in the same way, and are left out.

### Harness and the code

`messages` and `persisted` are the harness's history and how much of it the node has recorded, `turn`
is where the generator `send` (or a compaction) is, what it has yielded that the node has not yet
recorded, and its local variables, `log` the records a restart rebuilds the history from. The node
consumes the generator, so a yielded event is recorded, with the messages added before it, in one
append, before the generator goes on: `Record`.

| Code | Actions |
|---|---|
| `send`, `resolveAuth` | `Submit`, `SendAborted`, `SendRefused`, `Send` |
| `streamStep` and its retries | `Attempt`, `AttemptAborted`, `StreamText`, `StreamCall`, `StreamDone`, `StreamStopped`, `StreamRetried`, `StreamAborted`, `Wake` |
| what follows a step in `send`, `runTool`, `skipToolCalls` | `OutcomeAborted`, `OutcomeDone`, `Stopped`, `RunTool`, `ToolReturns`, `ToolsAborted`, `NextStep`, `Mark` |
| `#recordHarnessEvent`, `#runTurn`, `#completeTurn` | `Record`, `RecordFails`, `EndTurn` |
| `pruneToolOutputs`, `compactMessages`, `findCompactionCut`, `#runCompaction` | `Prune`, `BeginCompaction`, `Summarise`, `SummaryRetried`, `SummaryStopped`, `SummaryDone`, `Compact`, `GiveUp` |
| `cancel`; another login; the process | `Abort`; `SwitchAccount`; `Crash` |
| `projectMessages`; `#recoverRunning` | `Replay`; `RecoverFails`, `Recover` |

A message is its role and the calls it advertises or answers. Text, reasoning, sizes and usage are
left out: what a provider or a tool answers, where a token budget falls and what the credentials
file holds are choices. A crash during an append leaves any prefix of its records (`Crash`), and so
does one during the append of a repair (`RecoverFails`): what is there of the repair is replayed as
history, and the next repair completes it. `MaxFaults` bounds the repairs cut off separately from the
other faults.
`RequestAnswered` excuses histories after a failed append (`counts.failed`): the generator is dropped
in the middle of its calls, and the next turn does send a history in which they have no results.

### BashTool and the code

A command is a leader, perhaps a child in its process group, and perhaps a stray that left it.
`pipe` is what was written and not read, `output` the `OutputAccumulator`, `stop` and `wait` the local
state of `runBash` and `waitForExit` with their timers, `phase` how far `runBash` has got.

| Code | Actions |
|---|---|
| the operating system | `Spawn`, `SpawnFails`, `Fork`, `Write`, `Exit` |
| `OutputAccumulator` | `Data`, `Drain`, `SpillFails` |
| `stop`, `killTree`, the timers, the signal | `Timeout`, `Abort`, `KillFires` |
| `waitForExit`, the rest of `runBash` | `ExitEvent`, `CloseEvent`, `IdleFires`, `Finish`, `Return` |

Output is counted in chunks, and its bytes and lines are one size. Both pipes are one. That the event
loop reads a pipe that has data within the idle grace is assumed: a machine too slow for that would
lose output that the code cannot know of.

### Catalog and the code

The tables `projects`, `workspaces` and `rows` (sessions) with the enrolled nodes; the logs on disk,
each a header, whether its tail is idle and whether it is damaged; the plane's memory: `owners` is
`#sessionNodeIds`, `calls` the creations under way, `untouched` the sessions whose row a completed
append has still to touch, `exporting` an export between its rows and its logs; `archives` what can
be imported, one of them written by another deployment.

| Code | Actions |
|---|---|
| `createSession`, `createWorkspaceSession`, `createProjectSession`, `upsertCreated`, `createWorkspace` | `CreateSession`, `CreateInWorkspace`, `Created`, `Observed`, `CallFails`, `RecordsArrive` |
| `addWorkspace`; `enrollNode` | `AddWorkspace`; `Enroll` |
| `appendRecords`, `#applyRecords`, `#markUnreadable` | `StartTurn`, `EndTurn`, `Touch`, `AppendFails`, `LoadFails`, `Misrouted`, `Damage` |
| `initialize`, `rebuildDatabase`, `salvageRows`, `reconcile` | `Restart`, `RestartCorrupt` |
| `exportProject`, `importProject` | `ExportRows`, `CopyLogs`, `Import`, `ImportFails`, `ImportStops` |

What is abstracted, and why it is safe:

- Documents, devices, settings and migrations: single statements on tables that nothing else reads.
- Paths and project keys are one thing, a root; a Git remote only decides a project's key. The root
  that a node finds at a path is not the path: of a workspace's path `Node.createSession` takes
  the root anew (`node.ts:157`), and after a `git init` above it, or an import into another checkout,
  the session's header has another root than its workspace. `CreateInWorkspace` lets it be any.
- Reading and validating an archive: it is accepted, or nothing happens. What is staged is removed
  in every case.
- A corrupt file loses whole tables. A row that refers to a lost row is not copied, as in the code.
- The scan reads logs in some order. Of the logs it can read each is bound in the same way in any
  order; for a log that it cannot read, `reconcile` takes the binding that the last session with the
  same project key left (`bindingsByKey`), which is a choice among those it may be (`KeyBindings`).
- The COMMIT of an import does not fail after its callback has moved the logs (`catalog.ts:756`).

`InterruptedFound` excuses sessions imported with a status that their log contradicts (`outdated`): an
export lists statuses before it copies logs, and until the next start nothing reads the log again.

`AssignmentKept` excuses two things: a start on a corrupt catalog, and, for the workspace but not the
node, a session whose log cannot be scanned when its project key names more than one workspace,
because it, or a session that can be scanned, was put under another root than its workspace's
(`Displaced`). The code looks such a log up by the node of its row and its project key alone
(`catalog.ts:520`), although the row names the workspace, and moves the session. The test of
`reconcile` has one workspace only, and no document promises more.

## Runs

| Run | Instance | States | Shows |
|---|---|---|---|
| `session_turns` | a prompt, a manual and an automatic compaction, 2 stops | 0.77 M | types, no lost turn, one settlement, cancellation, agreement of queue and executions, one execution, at most one start per turn, reported and paced compactions, refinement of TurnLifecycle |
| `session_progress` | 2 prompts, 1 stop, fairness | 31 k | first come, first served; cancelled turns end, shutdown completes, accepted turns end |
| `replication` | 4 records, 2 lost connections, 1 crash (torn files too), 1 restart of the plane, 1 failing write | 0.17 M | types, nothing is rejected before a write failed, the plane's log is one chain |
| `replication_delivery` | the same without failing writes and torn rewrites, fairness | 25 k | refinement of CanonicalLog, every record arrives |
| `connection` | 3 connections, 2 tokens, 1 prompt, 1 recovery, 1 fault (a rejected batch is one), fairness | 0.26 M | types, revocation, durable answers, settled calls, the live connection ends registered, stale sessions are recovered |
| `events` | 1 message (2 chunks of reasoning, 3 of text), tail of 2, 3 faults, one client of any kind, fairness | 0.71 M | types, no event skipped or repeated, true text, clients catch up |
| `harness` | 2 accounts, 2 prompts, 2 calls, 1 retry, 2 compactions or prunes, 1 fault, 1 repair cut off | 3.3 M | every call of a request is answered, the log rebuilds the history, one account per session |
| `bash` | pipe of 2, preview of 2, limit of 5, fairness | 5 k | the tool returns, nothing of a stopped group is left, a success is whole |
| `catalog` | 3 nodes, 2 roots, 2 sessions and an imported one, 5 operations | 0.90 M | types, bindings agree and are kept, interrupted turns are found, no stray log |
| `failed_first_write` | 2 records, 1 failing write | | the first finding |
| `spool_fragment` | 2 records, 1 crash, fairness | | the second finding |
| `import_owner` | 3 nodes, 1 root, 1 session and an imported one | | the third finding |

*Bounds of the queue.* A stop is a crash or a requested shutdown (`MaxStops`); between stops nothing
is bounded but the set of turns. Three turns of three kinds suffice for one to run while others
wait, and for a compaction to be placed before, behind and instead of a prompt; two prompts suffice
for an order. Each turn is admitted once, so longer histories repeat these patterns on a queue that
is again empty. Two stops let the recovery from a crash itself be interrupted. The proofs have no
bounds. Deadlock is not checked in any run: a node whose turns have ended, a link that is
refused, a tool that returned, or a system whose bounds are used up may rest.

*Bounds of the link.* Four records allow an acknowledged prefix, a pending batch and a record written
behind it, also after a reload. With two lost connections a batch can be late on one, repeated on
the second and confirmed on a third; the other bounds are numbers of failures, one of each kind, in
any combination. When the rewriting of a spool file is torn, records that the plane does not have
are lost, which the code cannot avoid without another copy; the refinement is therefore checked
without torn rewrites (`Tears`). `NothingRejected` and `ChainUnbroken` hold with them.

*Bounds of the other modules.* Three connections are two that the plane may serve at once and one
after; a second token enrolls a refused node again; one fault of any kind suffices for each hazard
listed for the connection. The first rejected batch of a session is a fault; further ones follow from
it and cost none, so that the connection after a rejected drain may meet rejections of its own. Text
longer than the tail forces a resync, and three faults allow a stream lost, a projection evicted and
a link broken in any order. Two calls are two in one message, or one in each of two; two changes are
a compaction after a compaction or around a prune, which is what counting from the end is for. A
limit of five chunks leaves room for the preview, the file and the stop. Two sessions are created in
one directory, both races with an import and with each other included; five operations are enough to
create, run, export, import and restart, or to import workspaces and create a session of another root
in one, whose log is damaged before a restart. The archive of the other deployment brings a workspace
at either root, and a third id leaves one more to be made here. It is one that disagrees with itself
(`Disagreeing`): a session imported from any other is what a restart makes of such a one.

*Fairness of the queue* (`FairSpec`, only in `session_progress`). Appends return, a stopped process
is started again and runs its recovery, the finally block of a function runs: weak fairness of
`Appends`, `Recovery`, `Settle` and `Exit`. The lock is a promise chain, so whoever asks for it is
eventually served although others come and go: strong fairness of `CompleteTurn` and
`ShutdownAborts`, which are enabled only when the lock is free. A harness that was aborted returns,
because the abort signal reaches the model stream and the tools; one that was *not* aborted need
never return, and the property that all accepted turns end assumes it (`HarnessesEnd`) where it
matters. Nothing obliges clients, crashes or shutdowns to happen.

*Fairness of the link* (`FairSpec`, in `replication_delivery` and `spool_fragment`). The plane
handles the frames of an open connection, and the node handles its frames, goes on with its drain and
connects again: weak fairness of `Plane` and of `Link`. The retry loop of `#connectLoop` never gives up
unless it is refused. Calls, and therefore history loads and writes, may never happen, and nothing
obliges a late batch to be processed.

*Fairness of the connection and of the events* (`WF_vars(Proceed)`). `Proceed` is what happens without
anybody's decision: frames are handled, closed sockets noticed, timers fire, nodes and clients try
again, a stopped plane is started. Every behaviour of it is finite, so weak fairness of the whole is
enough for nothing due to be put off for ever. Calls, revocations, faults and the ends of turns are
not in it, nor is whether a stream loses its connection.

*Fairness of the bash tool*: timers fire, events are handled, the file makes progress, each by weak
fairness of its own; nothing is assumed of the command, which may ignore SIGTERM and never exit.
`CommandReturns` assumes that a process which left the group does not write for ever: the idle timer
is rearmed by every chunk of it, and nothing can signal it.

## Proofs

`SessionQueueProofs` proves `TypeOK` of every reachable state. It is not inductive by itself: a
restart restores only items whose submission the log knows, and appends address the turn and the
reason in `lock`. `TypeInv` adds both: `Remembered` (the queue, durable or in memory, names no turn
that is neither submitted nor in the batch being appended) and `Addressed` (which steps of an
operation carry a turn and a reason). `QueueRemembered` is a consequence: a restart drops no item.

It also proves `OneExecution` and `QueueExecutes`. The second speaks only of states in
which nobody holds the lock; the invariant `RunInv` says what holds at every step of an operation:
the active turn is exactly the one that drives the harness (`SlotMatchesExecution`), a process that
does not serve yet executes nothing and has reloaded the durable queue (`LoadedFromLog`), and for each
append an operation can be waiting for, whether the active turn, the queue in memory and the durable
queue already agree (`QueueMatchesSlot`). TLC checked `RunInv` on the instances above before it was
proved.

The proofs assume `SessionQueueAssumption`: prompts, manual and automatic compactions are disjoint,
`None` is none of them and no reason, and the bound on stops is a number. They hold for any number of
turns and any bound.

Its second part proves the promises of the queue. `NoTurnLost` speaks of the newest snapshot
in the log, `SettledOnce` and `CancellationHolds` of counted records; both depend on what an
operation that is between two appends has already changed. `TurnInv` adds two invariants.
`AccountInv` says that each of the two queues, the one in the log and the one in memory, accounts for
the open turns: it holds each once, one that has begun only as the running item, and none that has
ended; memory runs ahead by the batch that is being admitted or the turn that is being withdrawn and
by nothing else. `RecordInv` says which records a turn has at each point of its life (`TurnRecords`),
and what its execution has decided and not yet appended (`Decision`). That a turn in the backlog has
no records yet is `AccountInv`, and with it a restart that ends a turn ends it for the first time.
`ExecutedOnce` follows because a turn that has begun is nowhere in a waiting list.

The refinement `ImplementsLifecycle` sees only what the newest snapshot shows, so every step that
writes one must be a step of the lifecycle. `SnapshotInv` says how the next snapshot differs from the
one in the log: by the batch that joins it, by the turn that begins, or by the turn withdrawn, and
that the waiting list is in the order of the submissions, whence `FirstComeFirstServed`.
`CompactionPaced` needs `Paced`: while nothing has stopped, a compaction waits or is chosen only if
an attempt is recorded (`attempted`).

`ReplicationProofs` proves `TypeOK` and `ChainUnbroken` of Replication, for any number of records, lost
connections, crashes, restarts, torn files and failing writes. The chain is extended only by an
accepted batch or a written prefix of one (`StoreExtends`), and it could be broken from below: by a
change of the predecessor of a record that is already on the plane. `ChainInv` therefore contains
`TypeOK`, which bounds the records in the log, the spool, every frame and every late batch by those
that were written, so that writing a record touches none of them; and `BatchesNotEmpty`, because both
sides look at the last record of a batch. The proofs assume only that the bounds are numbers.

`NothingRejected` and `ImplementsCanonicalLog` hold while no write of the plane fails. The invariant
`LinkInv` then has two witnesses: the sequence `w` of all records that are a part of the log for good,
and the offset `o` in it of the spool file. `Healthy(w, o)` says that `w` is a chain, and the plane's
log, the spool, and every batch in a frame or given up late are segments of it (`Parts`), so that no
batch can fork; that the spool ends where `w` does (`SpoolAtEnd`); what the two sides and every
history and acknowledgement on the way know of the log (`PlaneKnows`, `Told`); and that a record the
node waits for has its frame or its answer still on the way (`Outstanding`). The refinement maps the
node's log to the plane's log followed by what is fresh in the spool. Its theorem has two
hypotheses, `Tears = FALSE` and `MaxFaults = 0`, which are those of the run: a torn rewrite of the
spool and a rejected batch lose records that were written, so that without them the node's log does
not only grow. `NothingRejected` needs neither: it says itself that no write has failed.

`NodeConnectionProofs` proves the three safety invariants, for any number of sessions, calls,
connections and tokens. `ConnectionInv` says where a frame may be. `NoneSlipped` excludes, once a
revocation has closed what was registered, connections between hello and registration, unless
the revocation met one there, which is the recorded exception. `AnswerIsDurable` is lost if a node
answers before its records are flushed; a node flushes only while its link is ready, so
`ReadyBeforeCalls` is needed: a call follows the ready frame of its connection. And it is lost if a
call is executed after its answer: `OnePlace` has each call in at most one frame or hand, and in none
after the answer. A write may fail: what is acknowledged is in the log of every session but those of
which a batch was rejected, and a session in `spoiled` stays there, so that the excuse is never taken
back.

`LiveEventsProofs` proves `TypeOK` and `NoEventSkipped`, for any number of messages and chunks and
any size of the tail. The cursor of a client and the tail of a projection meet across evictions:
`TailOrdered` numbers the tail up to the projection's number without a gap, so that a replay is exactly
what follows the cursor or a resync; `Cursor` lets events be held back only for a stream that is
being opened. The number in a projection is that of the log because what is on the way belongs to
the first message without a record (`OnTheWay`). `Replay` is written with `SubSeq` of the ordered
tail, the same sequence the code's filter on the numbers yields.

It also proves `TextTrue`, for the messages of which no delta is lost. `TextInv` follows a text from
the node to the screen, number by number. `Sending`: of the first message without a record, the last
chunk that the node has produced is with the plane or on the way to it, what the plane holds is a
beginning of the text, and of a message that began while the plane lacked its predecessor the deltas
are lost. `Showing`: what a client shows is a beginning too. `Watching` joins the two through the
events the client has still to see (`Ahead`), on its stream or in the tail behind its cursor: none
of their chunks comes before the chunk it follows, no completion before the last chunk (`Flows`), and
they reach the last chunk that the plane has (`Meets`). A client that the tail no longer reaches
(`Reached`) gets a snapshot before it gets another event, and the snapshot has what `Sending` says.

`BashToolProofs` proves `NothingLeftRunning` and `TypeOK` of BashTool, for every size of the pipe, the
preview and the limit (`BashAssumption`: positive numbers, the preview below the limit). The
invariant `Safe` adds `Ended`: once `runBash` has gone on from its wait the accumulator is stopped, so
that a file which fails only then stops nothing: the kill has been sent, and nobody would send
another. The kill empties the group of a stopped command, and no process starts in an empty
group. The types need two more facts. A chunk is accepted only below the limit, so the accumulator
must have room until it is stopped (`Room`). And the pipe is paused only for an open file of a
command that is not stopped (`Paused`), or a paused pipe could outlive the file that resumes it.
`SuccessIsWhole` needs `Kept`: nothing was in a pipe that was destroyed, and the file, unless writing it
failed or it reached the limit, is open exactly when the preview is outgrown and closed before the
tool answers.

`CatalogProofs` proves the three invariants and the two action properties of Catalog, for any number
of nodes, roots, sessions, ids and operations. `CatalogInv` has three parts. `Unique` and `Numbered`:
one workspace at a place, one with an id, and no id above the last one made, so that what a start
adopts or a call creates is new. `Sane` says of each session that its row agrees with its header, in
the log or still in the spool (`RowAgrees`: the same root, and a workspace on the row's node unless
the log could not be scanned; that workspace may have another root), that a session being created has
a header and no row, and its workspace is still there (`CallAgrees`), and where an open turn may be
seen (`LogAgrees`). `Sound` says the same of archives: what an import adds must fit rows and logs
that were made since the export, so an item has the root of the session's header, and names a
workspace of the archive unless the session is here and therefore not added; a header that
disappeared would break it, and no step removes one (`Grows`). The proof of a start is one lemma,
`InitializeStep`, for an ordinary one, one on salvaged tables and one with the logs of an import that
was cut off. That a start keeps assignments splits on the log: one that can be scanned follows the id
in its row (`ScannedBound`); for one that cannot, `KeyedBinding` shows that the binding found under
its project key is on the row's node, and is the row's workspace unless the session is displaced. Its
assumptions on the constants: the sets are finite and have the members the model names, the ids of
the foreign archive are among those that are counted (`Cardinality(Roots) <= MaxIds`), and `None` is
no record or id (`NoneAssumption`).

`HarnessProofs` proves the three invariants of Harness, for any number of accounts, turns, calls,
changes and faults and any `MaxRetries` and `ProtectedTurns`. Its invariant `HarnessInv` says, beside
the types:

- `Placed`: where the generator may be for what the queue runs, and that a compaction has a recorded
  history in hand and cuts it at a message that is neither a result nor a summary.
- `Loyal`, which gives `OneAccount`: the log names one account at most and the harness no other. The
  name enters the log with the first message, in the append that precedes the first request, so from
  then on the credentials in use are those of the account in the log.
- `Rebuilt`, which gives `ReplayAgrees`: what the log projects to is the recorded part of the history.
  The entries of the projection are the last of the log without a gap, but for a summary in front
  (`Numbered`), so the entry that a compaction counts from the end is the message at which memory was
  cut. `ProjectedAppend` says that one more record is one more step of `projectMessages`.
- While no append has failed, `Sound` of the history in memory, or `Restorable` of the log when the
  process is down: results follow their response in the order of its calls and belong to nothing else
  (`Shape`), only the last response may lack some, and those are the calls the generator still has in
  hand (`Answered`, `Open`), and the calls of a response that is still streamed are new (`Fresh`). A
  compaction keeps a suffix that begins at no result, which has this form again; a crash leaves a
  prefix of it, and so does a repair that was cut off, which the next repair continues at the first
  call without a result.

`RequestAnswered` says of itself that no append has failed. After one it is not true, as said above.
What the log projects to is defined by recursion; the proofs about it and about prefixes of a history
go by induction on a *set* of numbers (`SetInduction` in `SequenceFacts`), which needs no operator as
a parameter.

Every safety invariant, every action property and both refinements that the passing runs check are
thus stated by a theorem. Liveness, which needs fairness and is out of the prover's reach, is only
model-checked: `CancelTakesEffect`, `ShutdownCompletes`, `EveryTurnEnds`, `EverythingStored`,
`EveryCallSettles`, `NodeServed`, `StaleSettled`, `CatchesUp` and `CommandReturns`. So are the
three findings, which are violations.

## Findings

`failed_first_write`: the plane answers *every* failure of an append as a fork. When the first batch of
a session cannot be written, the node drops its spool with the session record, its cached session
restarts the chain at null, and the plane, which has meanwhile registered the session with an empty
log, accepts the next record as the beginning. The log works until the plane restarts, and is
refused from then on because it has no session record.

`spool_fragment`: a torn final line of a file is cut off, except when it is the only line, which is an
error. The spool file is deleted when everything in it is acknowledged, so a crash during the next
append leaves such a file; the drain of every later connection fails, and the node is never ready
again, for any session, until somebody deletes the file.

`import_owner`: an import binds a session to a node, in its row and in the plane's memory of owners.
The log keeps the header of the node that wrote it. After a restart the owners are read from the
headers and the rows keep the binding, so requests go to the node of the row, which the plane
refuses the log, the records and the deltas of the session.

## Not modelled

- *Credentials* (`auth/src`): processes that share one file under a lock, apart from the sessions. What
  they give the rest, an account that may change between two attempts or credentials that are
  refused, is a choice of Harness. The hazard of two processes refreshing one token is listed
  without a property.
- *Protocol and configuration*, and the translation of requests and events in *model providers*: they
  parse and translate, and keep no state across calls. What a stream may deliver and how it may fail
  is in Harness.
- *Devices, pairing, settings, documents*, the other routes of `http.ts` and most commands of the CLI:
  each is one statement on the catalog or one call of an operation that is modelled.
- *File tools* (read, write, edit, search): sequential operations on the file system.
- The ZIP encoding of archives and its validation; the bounded reads of the scan, for which a tail
  that is too long counts as busy.
- An append of the queue that fails, and the lengths of backoff, heartbeat and idle times.
