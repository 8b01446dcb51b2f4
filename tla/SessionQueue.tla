---------------------------- MODULE SessionQueue ----------------------------
(***************************************************************************)
(* The per-session turn queue of a ker node (packages/node/src/node.ts).   *)
(*                                                                         *)
(* A session admits prompts and compactions, runs one of them at a time,   *)
(* and appends everything it must remember to a durable record log.  The   *)
(* process can stop between any two appends; when it starts again it       *)
(* rebuilds its memory from the log and settles whatever the previous      *)
(* process left open.  Turns are started, finished and cancelled under a   *)
(* promise-chain lock; a turn's own events, abort signals and the shutdown *)
(* flag are not.                                                           *)
(*                                                                         *)
(* The log is represented by what a fold over its records yields (the      *)
(* newest queue snapshot, the terminal records of each turn, ...).  One    *)
(* append is one step.  An operation that awaits several appends under the *)
(* lock is several actions, linked by the continuation kept in `lock`, so  *)
(* that crashes, signals and the shutdown flag fall between its appends.   *)
(***************************************************************************)
EXTENDS Naturals, SequencesExt

CONSTANTS
  Prompts,      \* turns that may be admitted as prompts
  Manuals,      \* turns that may be admitted as manual compactions
  Autos,        \* turns the node may create as automatic compactions
  None,         \* absent turn, reason or outcome
  MaxStops      \* bound: crashes and requested shutdowns of the node process

Compactions == Manuals \cup Autos
Turns == Prompts \cup Compactions
Reasons == {"completed", "aborted", "cancelled", "error", "interrupted", "expired"}

ASSUME SessionQueueAssumption ==
  /\ Prompts \cap Compactions = {}
  /\ Manuals \cap Autos = {}
  /\ None \notin Turns
  /\ None \notin Reasons
  /\ MaxStops \in Nat

Settlements == {"delivered", "undelivered"}

(***************************************************************************)
(* A queue snapshot.  `cancelling` is the state of the running item, the   *)
(* only item state that is not implied by the item's position.             *)
(***************************************************************************)
Queue == [running: Turns \cup {None}, cancelling: BOOLEAN, waiting: Seq(Turns)]
EmptyQueue == [running |-> None, cancelling |-> FALSE, waiting |-> << >>]

(***************************************************************************)
(* An ActiveTurn and the asynchronous function that executes it: "live"    *)
(* while the harness produces events, "ended" once it has returned and the *)
(* turn waits for the lock, "finished" when the turn is terminal and its   *)
(* holder of the lock chooses what runs next, "settling" from the release  *)
(* of the lock to the function's own finally block.                        *)
(***************************************************************************)
Execution ==
  [phase: {"idle", "live", "ended", "finished", "settling"},
   delivered: BOOLEAN,       \* message_delivered was seen
   aborted: BOOLEAN,         \* controller.signal.aborted
   cancelled: BOOLEAN]       \* cancellationRequested
NotExecuting ==
  [phase |-> "idle", delivered |-> FALSE, aborted |-> FALSE, cancelled |-> FALSE]

(***************************************************************************)
(* The operation that holds the queue lock, at the append it awaits.       *)
(***************************************************************************)
Steps ==
  {"free", "submit", "cancelling", "withdraw", "settle", "terminal", "choose",
   "expire", "recover", "unlink", "expireAll"}
Operation ==
  [step: Steps,
   turn: Turns \cup {None},                 \* the turn it is about
   reason: Reasons \cup {None},             \* the terminal reason it decided on
   auto: Autos \cup {None},                 \* submissions in the batch it appends
   user: Prompts \cup Manuals \cup {None}]
Free == [step |-> "free", turn |-> None, reason |-> None, auto |-> None, user |-> None]
Hold(step, turn) == [Free EXCEPT !.step = step, !.turn = turn]

VARIABLES
  \* Durable: the fold of the session log.
  queue,            \* the newest queue_changed snapshot
  submittedAt,      \* position of a turn's submission record, 0 when it has none
  clock,            \* positions handed out so far
  settled,          \* message_delivered / message_undelivered records of each prompt
  terminal,         \* turn_terminal records of each turn, ended by `end` in the same append
  compacted,        \* compactions whose summary was committed
  cancelRequested,  \* turns with a turn_cancel_requested record
  measured,         \* whether a stats record tells the context window
  \* Volatile: the node process.
  up,               \* "down", "recovering" (loaded, recovery not begun), "serving"
  imported,         \* recovery treats the log as imported history
  mem,              \* state.queue
  execution,        \* the executions of turns
  active,           \* state.activeTurn
  registered,       \* the session's entry in #running
  attempted,        \* state.compactionAttempted
  lock,             \* the holder of state.queueLock
  shutdown,         \* "no", "asked" (#stopping set), "aborted" (the lock was passed)
  awaited,          \* the execution shutdown waits for
  \* History.
  started,          \* turns whose execution ever began
  stops             \* crashes and requested shutdowns so far

durableVars == <<queue, submittedAt, clock, settled, terminal, compacted,
                 cancelRequested, measured>>
processVars == <<up, imported, shutdown, awaited, stops>>
turnVars == <<execution, active, registered, started>>
vars == <<durableVars, processVars, turnVars, mem, attempted, lock>>

Submitted == {t \in Turns : submittedAt[t] > 0}
Terminated == {t \in Turns : terminal[t] # << >>}
Queued(q) == ToSet(q.waiting) \cup ({q.running} \ {None})
Stopping == shutdown # "no"
Unlocked == up = "serving" /\ lock.step = "free"

Init ==
  /\ queue = EmptyQueue
  /\ submittedAt = [t \in Turns |-> 0]
  /\ clock = 0
  /\ settled = [p \in Prompts |-> << >>]
  /\ terminal = [t \in Turns |-> << >>]
  /\ compacted = {}
  /\ cancelRequested = {}
  /\ measured = FALSE
  /\ up = "serving"
  /\ imported = FALSE
  /\ mem = EmptyQueue
  /\ execution = [t \in Turns |-> NotExecuting]
  /\ active = None
  /\ registered = None
  /\ attempted = FALSE
  /\ lock = Free
  /\ shutdown = "no"
  /\ awaited = None
  /\ started = {}
  /\ stops = 0

-----------------------------------------------------------------------------
(* Placing work in the queue. *)

\* An item runs at once when nothing runs and the node is not stopping.
Enqueue(q, t) ==
  IF q.running # None \/ Stopping
  THEN [q EXCEPT !.waiting = Append(@, t)]
  ELSE [q EXCEPT !.running = t, !.cancelling = FALSE]

CompactionPending(q) == Queued(q) \cap Compactions # {}

(***************************************************************************)
(* The automatic compactions that may be created for queue q: none, or one *)
(* when the guards allow it.  Whether the context is over the trigger and  *)
(* past the back-off mark depends on its content, and is left open.        *)
(***************************************************************************)
MaybeCompaction(q) ==
  {None} \cup
  IF Stopping \/ attempted \/ ~measured \/ CompactionPending(q)
  THEN {}
  ELSE {a \in Autos : submittedAt[a] = 0}

\* The release of the lock lets the turn that finished run its finally block.
Released(e) == IF e.phase = "finished" THEN [e EXCEPT !.phase = "settling"] ELSE e

\* #start, if there is a turn to start: a new ActiveTurn replaces the previous one.
Start(t) ==
  /\ execution' = [u \in Turns |-> IF u = t THEN [NotExecuting EXCEPT !.phase = "live"]
                                  ELSE Released(execution[u])]
  /\ active' = IF t = None THEN active ELSE t
  /\ registered' = IF t = None THEN registered ELSE t
  /\ started' = started \cup ({t} \ {None})

(***************************************************************************)
(* An admission changes the queue in memory, then awaits the append of its *)
(* submission records and the new snapshot.                                *)
(***************************************************************************)
Admit(p) ==
  /\ Unlocked
  /\ submittedAt[p] = 0
  /\ \E a \in MaybeCompaction(mem) :
       LET behind == IF a = None THEN mem ELSE Enqueue(mem, a)
           next == Enqueue(behind, p)
       IN /\ mem' = next
          /\ attempted' = (attempted \/ a # None)
          /\ lock' = [Hold("submit", IF mem.running = None THEN next.running ELSE None)
                        EXCEPT !.auto = a, !.user = p]
  /\ UNCHANGED <<durableVars, processVars, turnVars>>

Compact(m) ==
  /\ Unlocked
  /\ submittedAt[m] = 0
  /\ mem' = Enqueue(mem, m)
  /\ attempted' = TRUE
  /\ lock' = [Hold("submit", IF mem.running = None THEN mem'.running ELSE None)
                EXCEPT !.user = m]
  /\ UNCHANGED <<durableVars, processVars, turnVars>>

\* The submission records of a batch, the compaction's before the prompt's.
Stamp(auto, user) ==
  /\ submittedAt' = [t \in Turns |-> IF t = auto THEN clock + 1
                                     ELSE IF t = user THEN clock + 2
                                     ELSE submittedAt[t]]
  /\ clock' = IF auto = None /\ user = None THEN clock ELSE clock + 2

\* Faulty: the queue says that the turn runs, and nothing runs it.
AppendSubmissionOnly ==
  /\ lock.step = "submit"
  /\ Stamp(lock.auto, lock.user)
  /\ queue' = mem
  /\ Start(None)
  /\ lock' = Free
  /\ UNCHANGED <<settled, terminal, compacted, cancelRequested, measured, processVars,
                 mem, attempted>>

\* The append that ends admit, compact, #advanceQueue and #startNext.
AppendSubmission ==
  /\ lock.step = "submit"
  /\ Stamp(lock.auto, lock.user)
  /\ queue' = mem
  /\ Start(lock.turn)
  /\ lock' = Free
  /\ UNCHANGED <<settled, terminal, compacted, cancelRequested, measured, processVars,
                 mem, attempted>>

-----------------------------------------------------------------------------
(* Cancellation. *)

CancelRunning(t) ==
  /\ Unlocked
  /\ mem.running = t /\ ~mem.cancelling
  /\ active = t
  /\ execution' = [execution EXCEPT ![t].cancelled = TRUE]
  /\ mem' = [mem EXCEPT !.cancelling = TRUE]
  /\ lock' = Hold("cancelling", t)
  /\ UNCHANGED <<durableVars, processVars, active, registered, started, attempted>>

\* Faulty: the request is recorded, the signal is never raised.
AppendCancellingOnly ==
  /\ lock.step = "cancelling"
  /\ queue' = mem
  /\ cancelRequested' = cancelRequested \cup {lock.turn}
  /\ lock' = Free
  /\ UNCHANGED <<submittedAt, clock, settled, terminal, compacted, measured, processVars,
                 turnVars, mem, attempted>>

\* Faulty: the turn leaves the queue when its cancellation is recorded, not when it ends.
AppendCancellingFrees ==
  /\ lock.step = "cancelling"
  /\ mem' = [mem EXCEPT !.running = None, !.cancelling = FALSE]
  /\ queue' = mem'
  /\ cancelRequested' = cancelRequested \cup {lock.turn}
  /\ execution' = [execution EXCEPT ![lock.turn].aborted = TRUE]
  /\ lock' = Free
  /\ UNCHANGED <<submittedAt, clock, settled, terminal, compacted, measured, processVars,
                 active, registered, started, attempted>>

\* The signal is raised only after the request is durable.
AppendCancelling ==
  /\ lock.step = "cancelling"
  /\ queue' = mem
  /\ cancelRequested' = cancelRequested \cup {lock.turn}
  /\ execution' = [execution EXCEPT ![lock.turn].aborted = TRUE]
  /\ lock' = Free
  /\ UNCHANGED <<submittedAt, clock, settled, terminal, compacted, measured, processVars,
                 active, registered, started, mem, attempted>>

CancelWaiting(t) ==
  /\ Unlocked
  /\ \E k \in DOMAIN mem.waiting :
       /\ mem.waiting[k] = t
       /\ mem' = [mem EXCEPT !.waiting = RemoveAt(@, k)]
  /\ lock' = Hold("withdraw", t)
  /\ UNCHANGED <<durableVars, processVars, turnVars, attempted>>

\* Records that end the turns of S without having run them.
Dismiss(S, reason) ==
  /\ settled' = [p \in Prompts |-> IF p \in S THEN Append(settled[p], "undelivered")
                                   ELSE settled[p]]
  /\ terminal' = [t \in Turns |-> IF t \in S THEN Append(terminal[t], reason)
                                  ELSE terminal[t]]

\* Faulty: the turn leaves the queue without a terminal record.
AppendRemovalOnly ==
  /\ lock.step = "withdraw"
  /\ cancelRequested' = cancelRequested \cup {lock.turn}
  /\ queue' = mem
  /\ lock' = Free
  /\ UNCHANGED <<submittedAt, clock, settled, terminal, compacted, measured, processVars,
                 turnVars, mem, attempted>>

AppendWithdrawal ==
  /\ lock.step = "withdraw"
  /\ Dismiss({lock.turn}, "cancelled")
  /\ cancelRequested' = cancelRequested \cup {lock.turn}
  /\ queue' = mem
  /\ lock' = Free
  /\ UNCHANGED <<submittedAt, clock, compacted, measured, processVars, turnVars, mem,
                 attempted>>

-----------------------------------------------------------------------------
(* Executing a turn.  The harness runs outside the lock. *)

Deliver(p) ==
  /\ execution[p].phase = "live"
  /\ ~execution[p].delivered
  /\ execution' = [execution EXCEPT ![p].delivered = TRUE]
  /\ settled' = [settled EXCEPT ![p] = Append(@, "delivered")]
  /\ UNCHANGED <<queue, submittedAt, clock, terminal, compacted, cancelRequested, measured,
                 processVars, active, registered, started, mem, attempted, lock>>

\* Faulty: every usage record re-arms automatic compaction.
ApplyEveryUsage == attempted' = FALSE

\* A usage record re-arms automatic compaction unless a compaction is queued.
ApplyUsage == attempted' = (attempted /\ CompactionPending(mem))

ReportUsage(t) ==
  /\ execution[t].phase = "live"
  /\ t \in Prompts => execution[t].delivered
  /\ measured' = TRUE
  /\ ApplyUsage
  /\ UNCHANGED <<queue, submittedAt, clock, settled, terminal, compacted, cancelRequested,
                 processVars, turnVars, mem, lock>>

\* The harness returns, by itself or because it was aborted.
HarnessEnds(t) ==
  /\ execution[t].phase = "live"
  /\ execution' = [execution EXCEPT ![t].phase = "ended"]
  /\ UNCHANGED <<durableVars, processVars, active, registered, started, mem, attempted,
                 lock>>

(***************************************************************************)
(* Under the lock, #completeTurn and the tail of #runCompaction decide the *)
(* reason once.  An abort wins over what the harness returned, of which    *)
(* only here is asked whether it failed.                                   *)
(***************************************************************************)
FinalReason(t, failed) ==
  LET e == execution[t]
      incomplete == t \in Prompts /\ ~e.delivered
  IN IF e.cancelled \/ e.aborted THEN "aborted"
     ELSE IF failed \/ incomplete THEN "error"
     ELSE "completed"

CompleteTurn(t) ==
  /\ Unlocked
  /\ execution[t].phase = "ended"
  /\ active = t
  /\ \E failed \in BOOLEAN : lock' = [Hold("settle", t) EXCEPT !.reason = FinalReason(t, failed)]
  /\ UNCHANGED <<durableVars, processVars, turnVars, mem, attempted>>

(***************************************************************************)
(* Appends that precede the terminal record: message_undelivered for a     *)
(* prompt the model never saw, the summary for a compaction that succeeded *)
(* (one that was skipped commits nothing).                                 *)
(***************************************************************************)
SettleTurn ==
  /\ lock.step = "settle"
  /\ LET t == lock.turn
     IN /\ settled' = [p \in Prompts |->
                         IF p = t /\ ~execution[p].delivered
                         THEN Append(settled[p], "undelivered") ELSE settled[p]]
        /\ \E commits \in SUBSET {t} :
             /\ commits # {} => t \in Compactions /\ lock.reason = "completed"
             /\ compacted' = compacted \cup commits
  /\ lock' = [lock EXCEPT !.step = "terminal"]
  /\ UNCHANGED <<queue, submittedAt, clock, terminal, cancelRequested, measured,
                 processVars, turnVars, mem, attempted>>

\* turn_terminal and end in one append; the turn then leaves the queue in memory.
FinishTurn ==
  /\ lock.step = "terminal"
  /\ LET t == lock.turn
     IN /\ terminal' = [terminal EXCEPT ![t] = Append(@, lock.reason)]
        /\ execution' = [execution EXCEPT ![t].phase = "finished"]
        /\ lock' = Hold("choose", t)
  /\ active' = None
  /\ mem' = [mem EXCEPT !.running = None, !.cancelling = FALSE]
  /\ UNCHANGED <<queue, submittedAt, clock, settled, compacted, cancelRequested, measured,
                 processVars, registered, started, attempted>>

\* #maybePrune writes a snapshot of the queue as it is, between two turns.
Prune ==
  /\ lock.step = "choose"
  /\ ~Stopping /\ measured /\ active = None
  /\ queue # mem
  /\ queue' = mem
  /\ UNCHANGED <<submittedAt, clock, settled, terminal, compacted, cancelRequested, measured,
                 processVars, turnVars, mem, attempted, lock>>

\* Faulty: the newest item goes first.
TakeLast(q) ==
  IF q.waiting = << >> \/ (Stopping /\ lock.turn # None) THEN q
  ELSE [q EXCEPT !.running = Last(q.waiting), !.waiting = Front(@)]

(***************************************************************************)
(* The waiting item that goes first when no compaction does. #advanceQueue *)
(* asks whether the node is stopping when it takes it, #startNext (no turn *)
(* has just finished) asked before it pruned.                              *)
(***************************************************************************)
TakeNext(q) ==
  IF q.waiting = << >> \/ (Stopping /\ lock.turn # None) THEN q
  ELSE [q EXCEPT !.running = Head(q.waiting), !.waiting = Tail(@)]

\* Faulty: the item that is taken is recorded as a new submission.
ChooseNextResubmitting ==
  /\ lock.step = "choose"
  /\ \E a \in MaybeCompaction(mem) :
       /\ mem' = IF a # None THEN Enqueue(mem, a) ELSE TakeNext(mem)
       /\ attempted' = (attempted \/ a # None)
       /\ lock' = [Hold("submit", mem'.running) EXCEPT !.auto = mem'.running]
  /\ UNCHANGED <<durableVars, processVars, turnVars>>

\* #advanceQueue and #startNext choose what runs next.
ChooseNext ==
  /\ lock.step = "choose"
  /\ \E a \in MaybeCompaction(mem) :
       /\ mem' = IF a # None THEN Enqueue(mem, a) ELSE TakeNext(mem)
       /\ attempted' = (attempted \/ a # None)
       /\ lock' = [Hold("submit", mem'.running) EXCEPT !.auto = a]
  /\ UNCHANGED <<durableVars, processVars, turnVars>>

\* The finally block of the execution, after the lock was released.
Settle(t) ==
  /\ execution[t].phase = "settling"
  /\ execution' = [execution EXCEPT ![t] = NotExecuting]
  /\ registered' = IF registered = t THEN None ELSE registered
  /\ UNCHANGED <<durableVars, processVars, active, started, mem, attempted, lock>>

-----------------------------------------------------------------------------
(* Aborts from outside the lock, shutdown, crash. *)

\* A rejected record chain aborts whatever runs, without the lock.
AbortSession ==
  /\ active # None
  /\ ~execution[active].aborted
  /\ execution' = [execution EXCEPT ![active].aborted = TRUE]
  /\ UNCHANGED <<durableVars, processVars, active, registered, started, mem, attempted,
                 lock>>

AskShutdown ==
  /\ up # "down" /\ shutdown = "no"
  /\ stops < MaxStops
  /\ shutdown' = "asked"
  /\ stops' = stops + 1
  /\ UNCHANGED <<durableVars, up, imported, awaited, turnVars, mem, attempted, lock>>

\* Faulty: shutdown waits for the active turn without aborting it.
ShutdownWaits ==
  /\ shutdown = "asked"
  /\ Unlocked
  /\ shutdown' = "aborted"
  /\ awaited' = active
  /\ UNCHANGED <<durableVars, up, imported, stops, turnVars, mem, attempted, lock>>

\* Shutdown takes its turn at the lock to abort the active turn.
ShutdownAborts ==
  /\ shutdown = "asked"
  /\ Unlocked
  /\ shutdown' = "aborted"
  /\ awaited' = active
  /\ execution' = IF active = None THEN execution
                  ELSE [execution EXCEPT ![active].aborted = TRUE]
  /\ UNCHANGED <<durableVars, up, imported, stops, active, registered, started, mem,
                 attempted, lock>>

\* Everything the process keeps in memory is gone.
Lose ==
  /\ up' = "down"
  /\ imported' = FALSE
  /\ mem' = EmptyQueue
  /\ execution' = [t \in Turns |-> NotExecuting]
  /\ active' = None
  /\ registered' = None
  /\ attempted' = FALSE
  /\ lock' = Free
  /\ shutdown' = "no"
  /\ awaited' = None
  /\ UNCHANGED <<durableVars, started>>

Crash ==
  /\ up # "down"
  /\ stops < MaxStops
  /\ stops' = stops + 1
  /\ Lose

\* The process exits once the turn that shutdown aborted has finished.
Exit ==
  /\ shutdown = "aborted"
  /\ \A t \in Turns : t = awaited => execution[t].phase = "idle"
  /\ Lose
  /\ UNCHANGED stops

-----------------------------------------------------------------------------
(* Restart and recovery. *)

\* Faulty: waiting work alone does not call for recovery.
NothingRuns(q) == q.running = None

\* The tail of the log shows whether there is anything to recover.
IsIdle(q) == q.running = None /\ q.waiting = << >>

\* #loadState keeps queue items whose submission the log knows.
Known(t) == submittedAt[t] > 0
Restore(q) ==
  [running |-> IF q.running # None /\ Known(q.running) THEN q.running ELSE None,
   cancelling |-> q.cancelling,
   waiting |-> IF \A k \in DOMAIN q.waiting : Known(q.waiting[k]) THEN q.waiting
               ELSE SelectSeq(q.waiting, Known)]

\* A restart over the same log, or the import of an archive of it.
Restart(asImport) ==
  /\ up = "down"
  /\ mem' = Restore(queue)
  /\ up' = IF IsIdle(queue) THEN "serving" ELSE "recovering"
  /\ imported' = (asImport /\ ~IsIdle(queue))
  /\ UNCHANGED <<durableVars, turnVars, attempted, lock, shutdown, awaited, stops>>

\* Recovery holds the lock before any other operation on the session.
RecoverSession ==
  /\ up = "recovering"
  /\ up' = "serving"
  /\ lock' = Hold(IF imported THEN "recover" ELSE "expire", None)
  /\ UNCHANGED <<durableVars, turnVars, imported, shutdown, awaited, stops, mem, attempted>>

\* Faulty: one item more than those that expired is dropped.
DrainOneMore(k) ==
  /\ mem' = [mem EXCEPT !.waiting = SubSeq(@, k + 2, Len(@))]
  /\ Dismiss(ToSet(SubSeq(mem.waiting, 1, k)), "expired")
  /\ queue' = mem'

(***************************************************************************)
(* Waiting work older than the recovery window is dropped.  Items wait in  *)
(* submission order, so what expires is a prefix of the waiting list.      *)
(***************************************************************************)
DrainExpired(k) ==
  /\ mem' = [mem EXCEPT !.waiting = SubSeq(@, k + 1, Len(@))]
  /\ Dismiss(ToSet(SubSeq(mem.waiting, 1, k)), "expired")
  /\ queue' = mem'

ExpireOld ==
  /\ lock.step = "expire"
  /\ \E k \in 0 .. Len(mem.waiting) : DrainExpired(k)
  /\ lock' = Hold("recover", None)
  /\ UNCHANGED <<submittedAt, clock, compacted, cancelRequested, measured, processVars,
                 turnVars, attempted>>

ExpireAll ==
  /\ lock.step = "expireAll"
  /\ DrainExpired(Len(mem.waiting))
  /\ lock' = Free
  /\ UNCHANGED <<submittedAt, clock, compacted, cancelRequested, measured, processVars,
                 turnVars, attempted>>

\* Faulty: a cancellation is forgotten by the restart.
ReasonWithoutCancellation(t) ==
  IF t \in compacted THEN "completed" ELSE IF imported THEN "aborted" ELSE "interrupted"

\* Faulty: a summary that was committed is not looked for.
ReasonWithoutSummary(t) == IF mem.cancelling \/ imported THEN "aborted" ELSE "interrupted"

\* The terminal reason of a turn the previous process left running.
RecoveryReason(t) ==
  IF t \in compacted THEN "completed"
  ELSE IF mem.cancelling \/ imported THEN "aborted"
  ELSE "interrupted"

\* Faulty: a turn that already has its terminal record is ended again.
RecoverTerminal ==
  /\ lock.step = "recover"
  /\ mem.running # None
  /\ LET t == mem.running
     IN /\ terminal' = [terminal EXCEPT ![t] = Append(@, RecoveryReason(t))]
        /\ settled' = [p \in Prompts |-> IF p = t /\ settled[p] = << >>
                                         THEN Append(settled[p], "undelivered") ELSE settled[p]]
        /\ lock' = Hold(IF imported THEN "unlink" ELSE "choose", t)
  /\ mem' = [mem EXCEPT !.running = None, !.cancelling = FALSE]
  /\ UNCHANGED <<queue, submittedAt, clock, compacted, cancelRequested, measured,
                 processVars, turnVars, attempted>>

\* Faulty: the turn that was running is queued again.
RecoverByRetrying ==
  /\ lock.step = "recover"
  /\ mem.running # None
  /\ lock' = Hold("choose", mem.running)
  /\ mem' = [mem EXCEPT !.running = None, !.cancelling = FALSE,
                        !.waiting = <<mem.running>> \o @]
  /\ UNCHANGED <<durableVars, processVars, turnVars, attempted>>

(***************************************************************************)
(* The running turn is ended by one append, unless it already is; it is    *)
(* never executed again.  A prompt is reported undelivered only when no    *)
(* earlier record settled it.                                              *)
(***************************************************************************)
RecoverRunning ==
  /\ lock.step = "recover"
  /\ mem.running # None
  /\ LET t == mem.running
     IN /\ IF terminal[t] # << >>
           THEN UNCHANGED <<settled, terminal>>
           ELSE /\ terminal' = [terminal EXCEPT ![t] = Append(@, RecoveryReason(t))]
                /\ settled' = [p \in Prompts |->
                                 IF p = t /\ settled[p] = << >>
                                 THEN Append(settled[p], "undelivered") ELSE settled[p]]
        /\ lock' = Hold(IF imported THEN "unlink" ELSE "choose", t)
  /\ mem' = [mem EXCEPT !.running = None, !.cancelling = FALSE]
  /\ UNCHANGED <<queue, submittedAt, clock, compacted, cancelRequested, measured,
                 processVars, turnVars, attempted>>

\* With nothing running, recovery goes on to #startNext, an import to its drain.
AfterNothing == IF imported THEN "expireAll" ELSE IF Stopping THEN "free" ELSE "choose"

RecoverNothingRunning ==
  /\ lock.step = "recover"
  /\ mem.running = None
  /\ lock' = Hold(AfterNothing, None)
  /\ UNCHANGED <<durableVars, processVars, turnVars, mem, attempted>>

\* #finishRecoveredItem of an import: the queue is written without the turn.
UnlinkImported ==
  /\ lock.step = "unlink"
  /\ queue' = mem
  /\ lock' = Hold("expireAll", None)
  /\ UNCHANGED <<submittedAt, clock, settled, terminal, compacted, cancelRequested, measured,
                 processVars, turnVars, mem, attempted>>

-----------------------------------------------------------------------------
Clients ==
  \/ \E p \in Prompts : Admit(p)
  \/ \E m \in Manuals : Compact(m)
  \/ \E t \in Turns : CancelRunning(t) \/ CancelWaiting(t)

Appends ==
  \/ AppendSubmission
  \/ AppendCancelling
  \/ AppendWithdrawal
  \/ SettleTurn
  \/ FinishTurn
  \/ Prune
  \/ ChooseNext

Harness ==
  \/ \E p \in Prompts : Deliver(p)
  \/ \E t \in Turns : ReportUsage(t) \/ HarnessEnds(t) \/ CompleteTurn(t) \/ Settle(t)

Process == AbortSession \/ AskShutdown \/ ShutdownAborts \/ Crash \/ Exit

Recovery ==
  \/ \E asImport \in BOOLEAN : Restart(asImport)
  \/ RecoverSession
  \/ ExpireOld
  \/ ExpireAll
  \/ RecoverRunning
  \/ RecoverNothingRunning
  \/ UnlinkImported

Next == Clients \/ Appends \/ Harness \/ Process \/ Recovery

Spec == Init /\ [][Next]_vars

(***************************************************************************)
(* What the code's scheduling justifies: appends return, a stopped process *)
(* is started again and recovers, a finally block runs.  The lock is a     *)
(* promise chain, first come first served, so whoever asked for it is not  *)
(* overtaken forever.  A harness is assumed to return once it is aborted,  *)
(* and not otherwise: a model may think, or a tool run, for ever.          *)
(***************************************************************************)
AbortedHarnessEnds(t) == execution[t].aborted /\ HarnessEnds(t)

Fairness ==
  /\ WF_vars(Appends)
  /\ WF_vars(Recovery)
  /\ WF_vars(Exit)
  /\ SF_vars(ShutdownAborts)
  /\ \A t \in Turns : /\ WF_vars(AbortedHarnessEnds(t))
                      /\ SF_vars(CompleteTurn(t))
                      /\ WF_vars(Settle(t))

FairSpec == Spec /\ Fairness

-----------------------------------------------------------------------------
(* Properties. *)

\* Every variable has its type.
TypeOK ==
  /\ queue \in Queue /\ mem \in Queue
  /\ submittedAt \in [Turns -> Nat] /\ clock \in Nat
  /\ settled \in [Prompts -> Seq(Settlements)]
  /\ terminal \in [Turns -> Seq(Reasons)]
  /\ compacted \in SUBSET Compactions
  /\ cancelRequested \in SUBSET Turns
  /\ measured \in BOOLEAN
  /\ up \in {"down", "recovering", "serving"}
  /\ imported \in BOOLEAN
  /\ execution \in [Turns -> Execution]
  /\ active \in Turns \cup {None} /\ registered \in Turns \cup {None}
  /\ attempted \in BOOLEAN
  /\ lock \in Operation
  /\ shutdown \in {"no", "asked", "aborted"}
  /\ awaited \in Turns \cup {None}
  /\ started \in SUBSET Turns
  /\ stops \in Nat

(***************************************************************************)
(* At every instant, and so after a crash between any two appends, the     *)
(* newest durable snapshot holds every submitted turn that has no terminal *)
(* record, holds it once, and holds no waiting turn that has one.          *)
(***************************************************************************)
NoTurnLost ==
  /\ Submitted \ Terminated \subseteq Queued(queue)
  /\ Queued(queue) \subseteq Submitted
  /\ ToSet(queue.waiting) \cap Terminated = {}
  /\ IsInjective(queue.waiting)
  /\ queue.running \notin ToSet(queue.waiting)

(***************************************************************************)
(* However often the process stops, a turn gets one terminal record, and a *)
(* prompt is settled once: as delivered or as undelivered, never as both,  *)
(* and always before its turn is terminal.                                 *)
(***************************************************************************)
SettledOnce ==
  /\ \A t \in Turns : Len(terminal[t]) <= 1
  /\ \A p \in Prompts : /\ Len(settled[p]) <= 1
                        /\ p \in Terminated => settled[p] # << >>

(***************************************************************************)
(* A turn whose cancellation was recorded, which is when the client is     *)
(* told, ends as aborted or cancelled: it is not completed by a harness    *)
(* that finished meanwhile, nor reported as interrupted after a restart.   *)
(***************************************************************************)
CancellationHolds ==
  \A t \in cancelRequested :
    \A k \in DOMAIN terminal[t] : terminal[t][k] \in {"aborted", "cancelled"}

(***************************************************************************)
(* A compaction whose summary replaced the history is reported completed,  *)
(* and no other compaction changed the history, even when the process      *)
(* stops between the commit of the summary and the terminal record.        *)
(***************************************************************************)
CompactionReported ==
  /\ \A c \in compacted : \A k \in DOMAIN terminal[c] : terminal[c][k] = "completed"
  /\ compacted \cap cancelRequested = {}

(***************************************************************************)
(* Between two operations, memory is what a restart would reload, and the  *)
(* running item is the one that executes: neither an item that nothing     *)
(* executes (the session would be stuck) nor an execution that the queue   *)
(* does not know.                                                          *)
(***************************************************************************)
QueueExecutes ==
  Unlocked =>
    /\ queue = mem
    /\ active = mem.running
    /\ active # None => /\ execution[active].phase \in {"live", "ended"}
                        /\ registered = active

\* At any instant at most one turn of the session is driving the harness.
OneExecution ==
  \A t, u \in Turns :
    /\ execution[t].phase \in {"live", "ended"}
    /\ execution[u].phase \in {"live", "ended"}
    => t = u

Begins(t) == execution[t].phase = "idle" /\ execution'[t].phase = "live"

(***************************************************************************)
(* A turn, whose tools act on the user's files, is executed at most once:  *)
(* no restart, import or replay of the queue runs it again.                *)
(***************************************************************************)
ExecutedOnce == [][\A t \in Turns : Begins(t) => t \notin started]_vars

(***************************************************************************)
(* Prompts and manual compactions run in the order of their submission: no *)
(* turn begins while one submitted earlier is still open.  Only automatic  *)
(* compactions overtake.                                                   *)
(***************************************************************************)
FirstComeFirstServed ==
  [][\A t \in Turns \ Autos : Begins(t) =>
       \A u \in Submitted : submittedAt[u] < submittedAt'[t] => u \in Terminated]_vars

Chains(t) == lock.step = "choose" /\ lock.turn = t /\ execution[t].phase = "finished"
             /\ lock'.auto # None

(***************************************************************************)
(* Automatic compaction does not loop: until the node has been restarted,  *)
(* no automatic compaction is created right after a compaction, however    *)
(* usage reports, cancellations and admissions interleave with it.         *)
(***************************************************************************)
CompactionPaced == [][stops = 0 => \A c \in Compactions : ~Chains(c)]_vars

(***************************************************************************)
(* A cancelled turn ends, also when the harness would never end by itself, *)
(* when the process stops, and when shutdown or a restart intervenes.      *)
(***************************************************************************)
CancelTakesEffect ==
  \A t \in Turns : t \in cancelRequested ~> t \in Terminated

\* A node that was asked to shut down stops, whatever its turns are doing.
ShutdownCompletes == shutdown # "no" ~> up = "down"

(***************************************************************************)
(* Every accepted turn ends, provided that harnesses do: none is forgotten *)
(* in the queue by a cancellation, a shutdown, a restart or an import.     *)
(***************************************************************************)
HarnessesEnd ==
  \A t \in Turns : execution[t].phase = "live" ~> execution[t].phase # "live"
EveryTurnEnds ==
  HarnessesEnd => \A t \in Turns : t \in Submitted ~> t \in Terminated

(***************************************************************************)
(* The durable log, alone, implements the lifecycle promised to clients.   *)
(***************************************************************************)
Lifecycle == INSTANCE TurnLifecycle WITH
  Turn <- Turns,
  Overtaker <- Autos,
  backlog <- queue.waiting,
  running <- IF queue.running = None \/ queue.running \in Terminated THEN None
             ELSE queue.running,
  asked <- cancelRequested,
  outcome <- [t \in Turns |-> IF terminal[t] = << >> THEN None ELSE terminal[t][1]]

\* Crashes, restarts and imports included, every step is one of the lifecycle or none.
ImplementsLifecycle == Lifecycle!Spec
=============================================================================
