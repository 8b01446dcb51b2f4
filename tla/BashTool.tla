------------------------------ MODULE BashTool ------------------------------
(***************************************************************************)
(* The bash tool: runBash and waitForExit in packages/agent/src/index.ts   *)
(* and the OutputAccumulator of packages/agent/src/bash-output.ts, which   *)
(* keeps the end of the output in memory and moves all of it to a file     *)
(* when it outgrows the preview.                                           *)
(*                                                                         *)
(* The command is a leader, which may leave a child in its process group   *)
(* and a stray, in a session of its own, out of reach of its signals.      *)
(* Whoever has the pipe open may write to it.  Output is counted in chunks.*)
(***************************************************************************)
EXTENDS Naturals, FiniteSets

CONSTANTS
  Capacity,  \* chunks the pipe holds: a writer blocks when it is full
  Preview,   \* chunks of the preview: MAX_OUTPUT_BYTES and MAX_OUTPUT_LINES
  Limit      \* chunks at which the command is stopped: MAX_SPILL_BYTES

ASSUME BashAssumption ==
  /\ {Capacity, Preview, Limit} \subseteq Nat \ {0}
  /\ Preview < Limit

Group == {"leader", "child"}
Processes == Group \cup {"stray"}

VARIABLES
  alive,    \* processes that run
  holders,  \* those that have the pipe open
  pipe,     \* chunks in it
  output,   \* the OutputAccumulator
  stop,     \* why the command was stopped, and the timers that do it
  wait,     \* waitForExit: exited, and its idle timer
  phase,    \* of runBash: "spawning", "waiting", "settled", "finishing", "returned"
  lost      \* chunks in the pipe when it was destroyed

vars == <<alive, holders, pipe, output, stop, wait, phase, lost>>

Init ==
  /\ alive = {} /\ holders = {} /\ pipe = 0 /\ lost = 0
  /\ output = [taken |-> 0, spill |-> "none", backpressured |-> FALSE, stopped |-> FALSE,
               failed |-> FALSE, limit |-> FALSE]
  /\ stop = [requested |-> FALSE, timedOut |-> FALSE, aborted |-> FALSE, timer |-> FALSE,
             kill |-> FALSE]
  /\ wait = [exited |-> FALSE, idle |-> FALSE, error |-> FALSE]
  /\ phase = "spawning"

-----------------------------------------------------------------------------
(* The processes.                                                          *)

Spawn ==
  /\ phase = "spawning"
  /\ alive' = {"leader"} /\ holders' = {"leader"}
  /\ stop' = [stop EXCEPT !.timer = TRUE] /\ phase' = "waiting"
  /\ UNCHANGED <<pipe, output, wait, lost>>

\* The child-process "error" event rejects the wait.
SpawnFails ==
  /\ phase = "spawning"
  /\ wait' = [wait EXCEPT !.error = TRUE] /\ phase' = "settled"
  /\ UNCHANGED <<alive, holders, pipe, output, stop, lost>>

\* A process of the group starts another, which inherits the pipe or has it redirected.
Fork(p) ==
  /\ alive \cap Group # {} /\ p \notin alive /\ p # "leader"
  /\ alive' = alive \cup {p}
  /\ holders' \in {holders, holders \cup {p}}
  /\ UNCHANGED <<pipe, output, stop, wait, phase, lost>>

\* A write to a pipe that the tool has destroyed fails.
Write(p) ==
  /\ p \in holders /\ pipe < Capacity /\ phase = "waiting"
  /\ pipe' = pipe + 1
  /\ UNCHANGED <<alive, holders, output, stop, wait, phase, lost>>

Exit(p) ==
  /\ p \in alive
  /\ alive' = alive \ {p} /\ holders' = holders \ {p}
  /\ UNCHANGED <<pipe, output, stop, wait, phase, lost>>

\* Signals reach the group; a SIGTERM may be ignored.
Die(dead) == alive' = alive \ dead /\ holders' = holders \ dead
Terminate == \E dead \in SUBSET Group : Die(dead)

\* Faulty: the signal is sent to the leader, not to its group.
KillLeader == Die({"leader"})

Kill == Die(Group)

\* stop, killTree: the first time only.  A group that is gone needs no second signal.
Stop(reason) ==
  IF stop.requested THEN stop' = reason /\ UNCHANGED <<alive, holders>>
  ELSE /\ stop' = [reason EXCEPT !.requested = TRUE, !.kill = alive \cap Group # {}]
       /\ Terminate

-----------------------------------------------------------------------------
(* The output.                                                             *)

\* requestStop: a paused pipe is resumed, and nothing more is accepted.
Cease(out) == [out EXCEPT !.backpressured = FALSE, !.stopped = TRUE]
Fail(out) == Cease([out EXCEPT !.failed = TRUE, !.spill = "failed"])

\* What an accepted chunk makes of the accumulator.  The file is opened when the preview is
\* outgrown, or at the limit; opening may fail, and a full write buffer pauses the pipe.
Accepted ==
  LET next == [output EXCEPT !.taken = @ + 1]
      spilled == [next EXCEPT !.spill = "open"]
      full == next.taken >= Limit
  IN IF output.spill = "none" /\ next.taken <= Preview THEN {next}
     ELSE (IF full THEN {Cease([spilled EXCEPT !.limit = TRUE])}
           ELSE {spilled, [spilled EXCEPT !.backpressured = TRUE]})
            \cup (IF output.spill = "none" THEN {Fail(next)} ELSE {})

\* A data event: the accumulator's listener, and after the exit the one that rearms the timer.
Data ==
  /\ phase = "waiting" /\ pipe > 0 /\ ~output.backpressured
  /\ pipe' = pipe - 1
  /\ wait' = [wait EXCEPT !.idle = wait.exited]
  /\ IF output.stopped THEN UNCHANGED <<alive, holders, output, stop>>
     ELSE /\ output' \in Accepted
          /\ IF output'.stopped THEN Stop(stop) ELSE UNCHANGED <<alive, holders, stop>>
  /\ UNCHANGED <<phase, lost>>

\* The file's write buffer drains, or the file cannot be written.
Drain ==
  /\ output.spill = "open" /\ output.backpressured /\ ~output.stopped
  /\ output' = [output EXCEPT !.backpressured = FALSE]
  /\ UNCHANGED <<alive, holders, pipe, stop, wait, phase, lost>>

SpillFails ==
  /\ output.spill = "open"
  /\ output' = Fail(output)
  /\ IF output.stopped THEN UNCHANGED <<alive, holders, stop>> ELSE Stop(stop)
  /\ UNCHANGED <<pipe, wait, phase, lost>>

-----------------------------------------------------------------------------
(* What stops the command, and the wait for its end.                       *)

Timeout ==
  /\ phase = "waiting" /\ stop.timer
  /\ Stop([stop EXCEPT !.timedOut = TRUE, !.timer = FALSE])
  /\ UNCHANGED <<pipe, output, wait, phase, lost>>

Abort ==
  /\ phase = "waiting" /\ ~stop.aborted
  /\ Stop([stop EXCEPT !.aborted = TRUE])
  /\ UNCHANGED <<pipe, output, wait, phase, lost>>

\* The grace has elapsed.
KillFires ==
  /\ phase = "waiting" /\ stop.kill
  /\ Kill
  /\ stop' = [stop EXCEPT !.kill = FALSE]
  /\ UNCHANGED <<pipe, output, wait, phase, lost>>

ExitEvent ==
  /\ phase = "waiting" /\ "leader" \notin alive /\ ~wait.exited
  /\ wait' = [wait EXCEPT !.exited = TRUE, !.idle = TRUE]
  /\ UNCHANGED <<alive, holders, pipe, output, stop, phase, lost>>

\* The pipes are destroyed, whatever is in them.
Settle == phase' = "settled" /\ lost' = pipe /\ pipe' = 0

CloseEvent ==
  /\ phase = "waiting" /\ wait.exited /\ holders = {} /\ pipe = 0
  /\ Settle
  /\ UNCHANGED <<alive, holders, output, stop, wait>>

\* No data event for IDLE_GRACE_MS after the exit.  A paused pipe has none either, so the timer
\* is armed again until the pipe was resumed.  (That the event loop reads a pipe within the
\* grace is assumed.)
Quiet == pipe = 0 \/ output.backpressured

\* Faulty: a paused pipe counts as idle.
IdleFiresPaused ==
  /\ phase = "waiting" /\ wait.idle /\ Quiet
  /\ Settle
  /\ UNCHANGED <<alive, holders, output, stop, wait>>

IdleFires ==
  /\ phase = "waiting" /\ wait.idle /\ Quiet /\ ~output.backpressured
  /\ Settle
  /\ UNCHANGED <<alive, holders, output, stop, wait>>

\* runBash goes on: the timers are cleared and what is left of a stopped group is killed.
Over == [stop EXCEPT !.timer = FALSE, !.kill = FALSE]

\* Faulty: the timer of the kill is cleared, and nothing is killed.
FinishGently ==
  /\ phase = "settled"
  /\ UNCHANGED <<alive, holders>>
  /\ stop' = Over /\ output' = [output EXCEPT !.stopped = TRUE] /\ phase' = "finishing"
  /\ UNCHANGED <<pipe, wait, lost>>

Finish ==
  /\ phase = "settled"
  /\ IF stop.requested THEN Kill ELSE UNCHANGED <<alive, holders>>
  /\ stop' = Over /\ output' = [output EXCEPT !.stopped = TRUE] /\ phase' = "finishing"
  /\ UNCHANGED <<pipe, wait, lost>>

\* The file was closed, or there is none, or it failed.
Return ==
  /\ phase = "finishing"
  /\ output' = [output EXCEPT !.spill = IF @ = "open" THEN "closed" ELSE @]
  /\ phase' = "returned"
  /\ UNCHANGED <<alive, holders, pipe, stop, wait, lost>>

-----------------------------------------------------------------------------
Next ==
  \/ Spawn \/ SpawnFails
  \/ \E p \in Processes : Fork(p) \/ Write(p) \/ Exit(p)
  \/ Data \/ Drain \/ SpillFails \/ Timeout \/ Abort \/ KillFires
  \/ ExitEvent \/ CloseEvent \/ IdleFires \/ Finish \/ Return

\* Timers fire, what the processes did is noticed, and the file makes progress.  The idle timer
\* fires only if it is not armed again and again.  Nothing is assumed of the command.
Fairness ==
  /\ WF_vars(Spawn) /\ WF_vars(Data) /\ WF_vars(Drain) /\ WF_vars(Timeout) /\ WF_vars(KillFires)
  /\ WF_vars(ExitEvent) /\ WF_vars(CloseEvent) /\ WF_vars(IdleFires)
  /\ WF_vars(Finish) /\ WF_vars(Return)

Spec == Init /\ [][Next]_vars /\ Fairness

-----------------------------------------------------------------------------
Phases == {"spawning", "waiting", "settled", "finishing", "returned"}

\* Every variable has its type; the accumulator keeps no more than the limit, and pauses the
\* pipe only for a file that is open and a command that is not stopped.
TypeOK ==
  /\ holders \subseteq alive /\ alive \subseteq Processes
  /\ pipe \in 0 .. Capacity /\ lost \in 0 .. Capacity
  /\ output \in [taken : 0 .. Limit, spill : {"none", "open", "closed", "failed"},
                 backpressured : BOOLEAN, stopped : BOOLEAN, failed : BOOLEAN, limit : BOOLEAN]
  /\ stop \in [requested : BOOLEAN, timedOut : BOOLEAN, aborted : BOOLEAN, timer : BOOLEAN,
               kill : BOOLEAN]
  /\ wait \in [exited : BOOLEAN, idle : BOOLEAN, error : BOOLEAN]
  /\ phase \in Phases
  /\ output.backpressured /\ phase = "waiting" => output.spill = "open" /\ ~output.stopped

\* However the command ends - it exits, ignores SIGTERM, leaves children that write on, fills
\* the disk, is aborted or outlives its timeout - the tool returns, and with it the turn that
\* waits for it.  Only a process that left the group and never stops writing can hold it up.
StrayQuiet == <>[][~Write("stray")]_vars
CommandReturns == StrayQuiet => <>(phase = "returned")

\* When a command was stopped, for whatever reason, nothing of its group outlives the tool's
\* answer: the next tool call does not run beside what is left of it.
NothingLeftRunning == phase \in {"finishing", "returned"} /\ stop.requested => alive \cap Group = {}

\* An answer that is no error has all the output there was: nothing was left in the pipe when
\* it was destroyed, nothing came after the limit or a failed write, and the file is complete.
Succeeded ==
  phase = "returned" /\ ~wait.error /\ ~stop.requested /\ ~output.failed /\ ~output.limit
SuccessIsWhole ==
  Succeeded => lost = 0 /\ output.spill = (IF output.taken > Preview THEN "closed" ELSE "none")
=============================================================================
