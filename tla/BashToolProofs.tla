--------------------------- MODULE BashToolProofs ---------------------------
(***************************************************************************)
(* Of BashTool, for every size of the pipe, the preview and the limit: the *)
(* types, that nothing of a stopped group outlives the tool's answer, and  *)
(* that an answer which is no error has all the output.                    *)
(***************************************************************************)
EXTENDS BashTool, TLAPS

Outputs == [taken : 0 .. Limit, spill : {"none", "open", "closed", "failed"},
            backpressured : BOOLEAN, stopped : BOOLEAN, failed : BOOLEAN, limit : BOOLEAN]

\* The accumulator has room until it is stopped: it takes its last chunk and stops at once.
Room(out) == ~out.stopped => out.taken < Limit

\* It pauses the pipe only for a file that is open, and not once it is stopped.
Paused(out) == out.backpressured => out.spill = "open" /\ ~out.stopped

\* What ends an accumulator keeps its type, and leaves nothing paused.
LEMMA CeaseType ==
  ASSUME NEW out \in Outputs
  PROVE  /\ Cease(out) \in Outputs /\ Room(Cease(out)) /\ Paused(Cease(out))
         /\ Fail(out) \in Outputs /\ Room(Fail(out)) /\ Paused(Fail(out))
PROOF
  BY DEF Outputs, Cease, Fail, Room, Paused

\* So does a chunk that is accepted, which leaves room or stops it.
LEMMA AcceptedType ==
  ASSUME output \in Outputs, Room(output), ~output.stopped, ~output.backpressured,
         NEW out \in Accepted
  PROVE  out \in Outputs /\ Room(out) /\ Paused(out)
PROOF
<1> DEFINE next == [output EXCEPT !.taken = @ + 1]
           spilled == [next EXCEPT !.spill = "open"]
           limited == [spilled EXCEPT !.limit = TRUE]
           waits == [spilled EXCEPT !.backpressured = TRUE]
<1>1. output.taken \in 0 .. Limit /\ output.taken < Limit /\ Limit \in Nat /\ Preview < Limit
      /\ Preview \in Nat
  BY BashAssumption DEF Outputs, Room
<1>2. next.taken = output.taken + 1 /\ output.taken + 1 \in 0 .. Limit
  BY <1>1 DEF Outputs
<1>3. next \in Outputs /\ spilled \in Outputs /\ limited \in Outputs /\ waits \in Outputs
  BY <1>2 DEF Outputs
<1>4. /\ next.stopped = output.stopped /\ next.backpressured = output.backpressured
      /\ spilled.stopped = output.stopped /\ spilled.backpressured = output.backpressured
      /\ spilled.taken = next.taken
      /\ waits.stopped = output.stopped /\ waits.taken = next.taken /\ waits.spill = "open"
  BY DEF Outputs
<1>5. CASE output.spill = "none" /\ next.taken <= Preview
  <2>1. out = next
    BY <1>5 DEF Accepted
  <2>2. next.taken < Limit
    BY <1>1, <1>2, <1>5
  <2> QED
    BY <1>3, <1>4, <2>1, <2>2 DEF Room, Paused
<1>6. CASE ~(output.spill = "none" /\ next.taken <= Preview)
  <2>1. \/ next.taken >= Limit /\ out = Cease(limited)
        \/ ~(next.taken >= Limit) /\ out \in {spilled, waits}
        \/ out = Fail(next)
    BY <1>6 DEF Accepted
  <2>2. CASE out = Cease(limited)
    BY <1>3, <2>2, CeaseType
  <2>3. CASE out = Fail(next)
    BY <1>3, <2>3, CeaseType
  <2>4. CASE ~(next.taken >= Limit) /\ out \in {spilled, waits}
    <3>1. next.taken < Limit
      BY <1>1, <1>2, <2>4
    <3> QED
      BY <1>3, <1>4, <2>4, <3>1 DEF Room, Paused
  <2> QED
    BY <2>1, <2>2, <2>3, <2>4
<1> QED
  BY <1>5, <1>6


-----------------------------------------------------------------------------
Stops == [requested : BOOLEAN, timedOut : BOOLEAN, aborted : BOOLEAN, timer : BOOLEAN, kill : BOOLEAN]

\* Signals end processes, whose ends of the pipe are closed, and start none.
LEMMA DieType ==
  ASSUME holders \subseteq alive, alive \subseteq Processes, NEW dead, Die(dead)
  PROVE  holders' \subseteq alive' /\ alive' \subseteq Processes
PROOF
  BY DEF Die

\* A stop is requested once, whatever the reason, and may leave processes that ignore it.
LEMMA StopType ==
  ASSUME holders \subseteq alive, alive \subseteq Processes, NEW reason \in Stops, Stop(reason)
  PROVE  holders' \subseteq alive' /\ alive' \subseteq Processes /\ stop' \in Stops
PROOF
<1>1. CASE stop.requested
  BY <1>1 DEF Stop
<1>2. CASE ~stop.requested
  <2>1. Terminate /\ stop' = [reason EXCEPT !.requested = TRUE, !.kill = alive \cap Group # {}]
    BY <1>2 DEF Stop
  <2>2. PICK dead \in SUBSET Group : Die(dead)
    BY <2>1 DEF Terminate
  <2> QED
    BY <2>1, <2>2, DieType DEF Stops
<1> QED
  BY <1>1, <1>2

\* Once runBash has gone on its output is closed: no late event asks for a stop that nobody
\* would finish.
Ended == phase \in {"finishing", "returned"} => output.stopped

\* What every step preserves; the types are those of TypeOK.
Bound ==
  /\ holders \subseteq alive /\ alive \subseteq Processes
  /\ pipe \in 0 .. Capacity /\ lost \in 0 .. Capacity
  /\ output \in Outputs /\ stop \in Stops
  /\ wait \in [exited : BOOLEAN, idle : BOOLEAN, error : BOOLEAN]
  /\ phase \in Phases
  /\ Room(output) /\ (phase \in {"spawning", "waiting"} => Paused(output)) /\ Ended

Safe == Bound /\ NothingLeftRunning

LEMMA InitSafe == Init => Safe
PROOF
  BY BashAssumption DEF Init, Safe, Bound, NothingLeftRunning, Ended, Outputs, Stops, Room, Paused,
    Phases, Processes, Group

\* One step per action: the processes, the output, what stops the command, the wait, the end.
LEMMA StepSafe == Safe /\ [Next]_vars => Safe'
PROOF
<1> SUFFICES ASSUME Safe, [Next]_vars
             PROVE  Safe'
  OBVIOUS
<1> USE BashAssumption DEF Safe, Bound
<1>1. CASE Spawn
  BY <1>1 DEF Spawn, NothingLeftRunning, Ended, Stops, Phases, Processes, Group, Paused
<1>2. CASE SpawnFails
  BY <1>2 DEF SpawnFails, NothingLeftRunning, Ended, Phases
<1>3. ASSUME NEW p \in Processes, Fork(p)
      PROVE  Safe'
  BY <1>3 DEF Fork, NothingLeftRunning, Ended
<1>4. ASSUME NEW p \in Processes, Write(p)
      PROVE  Safe'
  BY <1>4 DEF Write, NothingLeftRunning, Ended
<1>5. ASSUME NEW p \in Processes, Exit(p)
      PROVE  Safe'
  BY <1>5 DEF Exit, NothingLeftRunning, Ended
<1>6. CASE Data
  <2>1. /\ phase = "waiting" /\ phase' = "waiting" /\ pipe' \in 0 .. Capacity
        /\ lost' \in 0 .. Capacity
        /\ wait' \in [exited : BOOLEAN, idle : BOOLEAN, error : BOOLEAN]
    BY <1>6 DEF Data
  <2>2. CASE output.stopped
    BY <1>6, <2>1, <2>2 DEF Data, NothingLeftRunning, Ended
  <2>3. CASE ~output.stopped
    <3>1. output' \in Outputs /\ Room(output') /\ Paused(output')
      BY <1>6, <2>3, AcceptedType DEF Data
    <3>2. Stop(stop) \/ UNCHANGED <<alive, holders, stop>>
      BY <1>6, <2>3 DEF Data
    <3>3. holders' \subseteq alive' /\ alive' \subseteq Processes /\ stop' \in Stops
      BY <3>2, StopType
    <3> QED
      BY <2>1, <3>1, <3>3 DEF NothingLeftRunning, Ended
  <2> QED
    BY <2>2, <2>3
<1>7. CASE Drain
  BY <1>7 DEF Drain, NothingLeftRunning, Ended, Outputs, Room, Paused
<1>8. CASE SpillFails
  <2>1. output' \in Outputs /\ Room(output') /\ Paused(output') /\ output'.stopped
    BY <1>8, CeaseType DEF SpillFails, Fail, Cease, Outputs
  <2>2. CASE output.stopped
    BY <1>8, <2>1, <2>2 DEF SpillFails, NothingLeftRunning, Ended
  <2>3. CASE ~output.stopped
    <3>1. holders' \subseteq alive' /\ alive' \subseteq Processes /\ stop' \in Stops
      BY <1>8, <2>3, StopType DEF SpillFails
    <3>2. phase \notin {"finishing", "returned"} /\ phase' = phase
      BY <1>8, <2>3 DEF SpillFails, Ended
    <3> QED
      BY <1>8, <2>1, <3>1, <3>2 DEF SpillFails, NothingLeftRunning, Ended
  <2> QED
    BY <2>2, <2>3
<1>9. CASE Timeout
  <2>1. [stop EXCEPT !.timedOut = TRUE, !.timer = FALSE] \in Stops
    BY DEF Stops
  <2>2. holders' \subseteq alive' /\ alive' \subseteq Processes /\ stop' \in Stops
    BY <1>9, <2>1, StopType DEF Timeout
  <2> QED
    BY <1>9, <2>2 DEF Timeout, NothingLeftRunning, Ended
<1>10. CASE Abort
  <2>1. [stop EXCEPT !.aborted = TRUE] \in Stops
    BY DEF Stops
  <2>2. holders' \subseteq alive' /\ alive' \subseteq Processes /\ stop' \in Stops
    BY <1>10, <2>1, StopType DEF Abort
  <2> QED
    BY <1>10, <2>2 DEF Abort, NothingLeftRunning, Ended
<1>11. CASE KillFires
  BY <1>11, DieType DEF KillFires, Kill, NothingLeftRunning, Ended, Stops
<1>12. CASE ExitEvent
  BY <1>12 DEF ExitEvent, NothingLeftRunning, Ended
<1>13. CASE CloseEvent
  BY <1>13 DEF CloseEvent, Settle, NothingLeftRunning, Ended, Phases
<1>14. CASE IdleFires
  BY <1>14 DEF IdleFires, Settle, NothingLeftRunning, Ended, Phases
<1>15. CASE Finish
  <2>1. /\ stop' \in Stops /\ stop'.requested = stop.requested
        /\ output' \in Outputs /\ output'.stopped /\ phase' = "finishing"
    BY <1>15 DEF Finish, Over, Stops, Outputs
  <2>2. holders' \subseteq alive' /\ alive' \subseteq Processes
    BY <1>15, DieType DEF Finish, Kill
  <2>3. stop.requested => alive' \cap Group = {}
    BY <1>15 DEF Finish, Kill, Die
  <2> QED
    BY <1>15, <2>1, <2>2, <2>3 DEF Finish, NothingLeftRunning, Ended, Phases, Room
<1>16. CASE Return
  <2>1. output' \in Outputs /\ output'.stopped = output.stopped /\ output.stopped
    BY <1>16 DEF Return, Outputs, Ended
  <2> QED
    BY <1>16, <2>1 DEF Return, NothingLeftRunning, Ended, Phases, Room
<1>17. CASE UNCHANGED vars
  BY <1>17 DEF vars, NothingLeftRunning, Ended
<1> QED
  BY <1>1, <1>2, <1>3, <1>4, <1>5, <1>6, <1>7, <1>8, <1>9, <1>10, <1>11, <1>12, <1>13, <1>14,
     <1>15, <1>16, <1>17 DEF Next

\* Safe holds at first and is inductive.
LEMMA AlwaysSafe == Spec => []Safe
PROOF
  BY InitSafe, StepSafe, PTL DEF Spec

\* Every variable of the bash tool keeps its type, whatever the sizes of the pipe, the preview
\* and the limit: no chunk is taken beyond the limit, and only a live file pauses the pipe.
THEOREM BashTypeCorrect == Spec => []TypeOK
PROOF
<1>1. Safe => TypeOK
  BY DEF Safe, Bound, TypeOK, Outputs, Stops, Paused
<1> QED
  BY <1>1, AlwaysSafe, PTL

\* Nothing of the group of a command that was stopped runs when the tool answers (killTree,
\* and the SIGKILL of runBash after the wait), for every size of the pipe, preview and limit.
THEOREM NothingLeftRunningHolds == Spec => []NothingLeftRunning
PROOF
<1>1. Safe => NothingLeftRunning
  BY DEF Safe
<1> QED
  BY <1>1, AlwaysSafe, PTL

-----------------------------------------------------------------------------
(* The output.                                                             *)

\* The file holds what the preview does not, unless writing it failed or it reached the limit:
\* it is opened by the chunk that outgrows the preview, and closed before the tool answers.
Complete(out, ph) ==
  ~out.failed /\ ~out.limit =>
    out.spill = IF out.taken <= Preview THEN "none"
                ELSE IF ph = "returned" THEN "closed" ELSE "open"

\* What waitForExit and the accumulator keep: nothing was in the pipe that they destroyed.
Kept == lost = 0 /\ Complete(output, phase)

\* A chunk that is accepted opens the file when the preview is outgrown, and not before.
LEMMA AcceptedComplete ==
  ASSUME output \in Outputs, Complete(output, "waiting"), NEW out \in Accepted
  PROVE  Complete(out, "waiting")
PROOF
<1> DEFINE next == [output EXCEPT !.taken = @ + 1]
           spilled == [next EXCEPT !.spill = "open"]
           limited == [spilled EXCEPT !.limit = TRUE]
           waits == [spilled EXCEPT !.backpressured = TRUE]
<1>1. output.taken \in Nat /\ Preview \in Nat
  BY BashAssumption DEF Outputs
<1>2. /\ next.taken = output.taken + 1 /\ next.spill = output.spill
      /\ next.failed = output.failed /\ next.limit = output.limit
      /\ spilled.taken = next.taken /\ spilled.spill = "open"
      /\ spilled.failed = output.failed /\ spilled.limit = output.limit
      /\ waits.taken = next.taken /\ waits.spill = "open"
      /\ waits.failed = output.failed /\ waits.limit = output.limit
  BY DEF Outputs
<1>3. Cease(limited).limit = TRUE /\ Fail(next).failed = TRUE
  BY DEF Outputs, Cease, Fail
<1>4. CASE output.spill = "none" /\ next.taken <= Preview
  <2>1. out = next
    BY <1>4 DEF Accepted
  <2> QED
    BY <1>2, <1>4, <2>1 DEF Complete
<1>5. CASE ~(output.spill = "none" /\ next.taken <= Preview)
  <2>1. out \in {Cease(limited), Fail(next), spilled, waits}
    BY <1>5 DEF Accepted
  <2>2. ~output.failed /\ ~output.limit => ~(next.taken <= Preview)
    BY <1>1, <1>2, <1>5 DEF Complete
  <2> HIDE DEF limited, waits
  <2>3. CASE out = Cease(limited) \/ out = Fail(next)
    BY <1>3, <2>3 DEF Complete
  <2>4. CASE out = spilled \/ out = waits
    BY <1>2, <2>2, <2>4 DEF Complete
  <2> QED
    BY <2>1, <2>3, <2>4
<1> QED
  BY <1>4, <1>5

LEMMA InitKept == Init => Kept
PROOF
  BY BashAssumption DEF Init, Kept, Complete

\* Only the output, what was lost and the phase of runBash matter.
LEMMA StepKept == Safe /\ Kept /\ [Next]_vars => Kept'
PROOF
<1> SUFFICES ASSUME Safe, Kept, [Next]_vars
             PROVE  Kept'
  OBVIOUS
<1>0. output \in Outputs /\ phase \in Phases
  BY DEF Safe, Bound
<1>1. ASSUME UNCHANGED <<output, lost>>, (phase' = "returned") <=> (phase = "returned")
      PROVE  Kept'
  BY <1>1 DEF Kept, Complete
<1>2. CASE Data
  <2>1. phase = "waiting" /\ phase' = "waiting" /\ lost' = lost
    BY <1>2 DEF Data
  <2>2. CASE output.stopped
    BY <1>1, <1>2, <2>1, <2>2 DEF Data
  <2>3. CASE ~output.stopped
    <3>1. output' \in Accepted
      BY <1>2, <2>3 DEF Data
    <3> QED
      BY <1>0, <2>1, <3>1, AcceptedComplete DEF Kept
  <2> QED
    BY <2>2, <2>3
<1>3. CASE Drain
  <2>1. /\ output'.failed = output.failed /\ output'.limit = output.limit
        /\ output'.spill = output.spill /\ output'.taken = output.taken
        /\ UNCHANGED <<phase, lost>>
    BY <1>0, <1>3 DEF Drain, Outputs
  <2> QED
    BY <2>1 DEF Kept, Complete
<1>4. CASE SpillFails
  <2>1. output'.failed /\ lost' = lost
    BY <1>0, <1>4 DEF SpillFails, Fail, Cease, Outputs
  <2> QED
    BY <2>1 DEF Kept, Complete
<1>5. CASE CloseEvent \/ IdleFires
  <2>1. lost' = 0 /\ phase = "waiting" /\ phase' = "settled" /\ output' = output
    BY <1>5 DEF CloseEvent, IdleFires, Settle, Quiet
  <2> QED
    BY <2>1 DEF Kept, Complete
<1>6. CASE Finish
  <2>1. /\ output'.failed = output.failed /\ output'.limit = output.limit
        /\ output'.spill = output.spill /\ output'.taken = output.taken
        /\ phase = "settled" /\ phase' = "finishing" /\ lost' = lost
    BY <1>0, <1>6 DEF Finish, Outputs
  <2> QED
    BY <2>1 DEF Kept, Complete
<1>7. CASE Return
  <2>1. /\ output'.failed = output.failed /\ output'.limit = output.limit
        /\ output'.spill = IF output.spill = "open" THEN "closed" ELSE output.spill
        /\ output'.taken = output.taken
        /\ phase = "finishing" /\ phase' = "returned" /\ lost' = lost
    BY <1>0, <1>7 DEF Return, Outputs
  <2> QED
    BY <2>1 DEF Kept, Complete
<1>8. CASE Spawn \/ SpawnFails
  BY <1>1, <1>8 DEF Spawn, SpawnFails
<1>9. ASSUME NEW p \in Processes, Fork(p) \/ Write(p) \/ Exit(p)
      PROVE  Kept'
  BY <1>1, <1>9 DEF Fork, Write, Exit
<1>10. CASE Timeout \/ Abort \/ KillFires \/ ExitEvent \/ UNCHANGED vars
  BY <1>1, <1>10 DEF Timeout, Abort, KillFires, ExitEvent, vars
<1> QED
  BY <1>2, <1>3, <1>4, <1>5, <1>6, <1>7, <1>8, <1>9, <1>10 DEF Next

\* An answer of the bash tool that is no error has all the output of the command: waitForExit
\* left nothing in the pipe, and the file the OutputAccumulator opened was written and closed.
THEOREM SuccessIsWholeHolds == Spec => []SuccessIsWhole
PROOF
<1>1. Safe /\ Kept => SuccessIsWhole
  BY BashAssumption DEF Safe, Bound, Outputs, Kept, Complete, SuccessIsWhole, Succeeded
<1> QED
  BY <1>1, InitSafe, StepSafe, InitKept, StepKept, PTL DEF Spec
=============================================================================
