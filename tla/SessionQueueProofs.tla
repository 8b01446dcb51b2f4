------------------------- MODULE SessionQueueProofs -------------------------
(***************************************************************************)
(* What TLAPS proves about SessionQueue, for any number of turns and stops *)
(* of the process: first the types, with what the queues may name; then    *)
(* that one turn executes at a time, and that the queue and the executions *)
(* agree; last what the log tells of a turn, from its submission to its    *)
(* end, and that the log implements TurnLifecycle.                         *)
(***************************************************************************)
EXTENDS SessionQueue, SequenceFacts

(***************************************************************************)
(* The queue never names a turn the log does not know, so that a restart   *)
(* finds every item it needs; in memory, only the batch being appended is  *)
(* ahead of the log.                                                       *)
(***************************************************************************)
Remembered ==
  /\ Queued(queue) \subseteq Submitted
  /\ Queued(mem) \subseteq Submitted \cup ({lock.auto, lock.user} \ {None})
  /\ lock.step # "submit" => lock.auto = None /\ lock.user = None

\* Operations run in a process that serves; they know their turn and their reason.
Addressed ==
  /\ lock.step \in {"cancelling", "withdraw", "settle", "terminal"} => lock.turn # None
  /\ lock.step \in {"settle", "terminal"} => lock.reason # None
  /\ up # "serving" => lock.step = "free"

TypeInv == TypeOK /\ Remembered /\ Addressed

-----------------------------------------------------------------------------
(* What the helpers of the actions return. *)

LEMMA NoneIsNoTurn == None \notin Turns
  BY SessionQueueAssumption

LEMMA ReasonFacts == \A r \in Reasons : r # None
  BY SessionQueueAssumption

LEMMA HoldFacts ==
  ASSUME NEW step \in Steps, NEW t \in Turns \cup {None}
  PROVE  /\ Hold(step, t) \in Operation /\ Free \in Operation
         /\ Hold(step, t).step = step /\ Hold(step, t).turn = t
         /\ Hold(step, t).reason = None
         /\ Hold(step, t).auto = None /\ Hold(step, t).user = None
         /\ Free.step = "free" /\ Free.turn = None /\ Free.auto = None /\ Free.user = None
  BY DEF Hold, Free, Operation, Steps

\* What an operation or a signal marks in an execution leaves it an execution.
LEMMA MarkFacts ==
  ASSUME NEW f \in [Turns -> Execution], NEW t
  PROVE  /\ [f EXCEPT ![t].cancelled = TRUE] \in [Turns -> Execution]
         /\ [f EXCEPT ![t].aborted = TRUE] \in [Turns -> Execution]
         /\ [f EXCEPT ![t].delivered = TRUE] \in [Turns -> Execution]
         /\ [f EXCEPT ![t].phase = "ended"] \in [Turns -> Execution]
         /\ [f EXCEPT ![t].phase = "finished"] \in [Turns -> Execution]
<1> DEFINE Marked(e) == [f EXCEPT ![t] = e]
<1>1. \A e \in Execution : Marked(e) \in [Turns -> Execution]
  OBVIOUS
<1>2. CASE t \in Turns
  <2>1. f[t] \in Execution
    BY <1>2
  <2>2. /\ [f[t] EXCEPT !.cancelled = TRUE] \in Execution
        /\ [f[t] EXCEPT !.aborted = TRUE] \in Execution
        /\ [f[t] EXCEPT !.delivered = TRUE] \in Execution
        /\ [f[t] EXCEPT !.phase = "ended"] \in Execution
        /\ [f[t] EXCEPT !.phase = "finished"] \in Execution
    BY <2>1 DEF Execution
  <2> QED BY <1>1, <2>2
<1>3. CASE t \notin Turns
  BY <1>3
<1> QED BY <1>2, <1>3

LEMMA EmptyQueueFacts == EmptyQueue \in Queue /\ Queued(EmptyQueue) = {}
<1>1. << >> \in Seq(Turns) /\ ToSet(<< >>) = {}
  BY DEF ToSet
<1> QED BY <1>1 DEF EmptyQueue, Queue, Queued

LEMMA EnqueueFacts ==
  ASSUME NEW q \in Queue, NEW t \in Turns
  PROVE  /\ Enqueue(q, t) \in Queue
         /\ Queued(Enqueue(q, t)) \subseteq Queued(q) \cup {t}
         /\ Enqueue(q, t).running \in {q.running, t}
<1>1. Append(q.waiting, t) \in Seq(Turns) /\ ToSet(Append(q.waiting, t)) = ToSet(q.waiting) \cup {t}
  BY AppendElements DEF Queue
<1> QED BY <1>1 DEF Enqueue, Queue, Queued

LEMMA TakeNextFacts ==
  ASSUME NEW q \in Queue
  PROVE  TakeNext(q) \in Queue /\ Queued(TakeNext(q)) \subseteq Queued(q)
<1>1. CASE q.waiting = << >> \/ (Stopping /\ lock.turn # None)
  BY <1>1 DEF TakeNext
<1>2. CASE ~(q.waiting = << >> \/ (Stopping /\ lock.turn # None))
  <2>1. /\ Head(q.waiting) \in Turns /\ Tail(q.waiting) \in Seq(Turns)
        /\ Head(q.waiting) \in ToSet(q.waiting) /\ ToSet(Tail(q.waiting)) \subseteq ToSet(q.waiting)
    BY <1>2, TailElements DEF Queue
  <2> QED BY <1>2, <2>1 DEF TakeNext, Queue, Queued
<1> QED BY <1>1, <1>2

LEMMA MaybeCompactionFacts ==
  ASSUME TypeOK, NEW q, NEW a \in MaybeCompaction(q)
  PROVE  a \in Autos \cup {None} /\ (a # None => a \in Turns /\ submittedAt[a] = 0)
  BY DEF MaybeCompaction, Turns, Compactions

LEMMA DismissFacts ==
  ASSUME TypeOK, NEW S, NEW reason \in Reasons, Dismiss(S, reason)
  PROVE  settled' \in [Prompts -> Seq(Settlements)] /\ terminal' \in [Turns -> Seq(Reasons)]
  BY DEF Dismiss, TypeOK, Settlements

LEMMA DrainFacts ==
  ASSUME TypeOK, NEW k \in 0 .. Len(mem.waiting), DrainExpired(k)
  PROVE  /\ mem' \in Queue /\ Queued(mem') \subseteq Queued(mem) /\ queue' = mem'
         /\ settled' \in [Prompts -> Seq(Settlements)] /\ terminal' \in [Turns -> Seq(Reasons)]
<1>1. settled' \in [Prompts -> Seq(Settlements)] /\ terminal' \in [Turns -> Seq(Reasons)]
  <2>1. Dismiss(ToSet(SubSeq(mem.waiting, 1, k)), "expired") /\ "expired" \in Reasons
    BY DEF DrainExpired, Reasons
  <2> QED BY <2>1, DismissFacts
<1> DEFINE rest == SubSeq(mem.waiting, k + 1, Len(mem.waiting))
<1>2. rest \in Seq(Turns) /\ ToSet(rest) \subseteq ToSet(mem.waiting)
  <2>1. mem.waiting \in Seq(Turns)
    BY DEF TypeOK, Queue
  <2> QED BY <2>1, SubSeqElements
<1>3. mem' = [mem EXCEPT !.waiting = rest] /\ queue' = mem'
  BY DEF DrainExpired
<1> HIDE DEF rest
<1>4. mem' \in Queue /\ Queued(mem') \subseteq Queued(mem)
  BY <1>2, <1>3 DEF TypeOK, Queue, Queued
<1> QED BY <1>1, <1>3, <1>4

LEMMA StampFacts ==
  ASSUME TypeOK, NEW a \in Autos \cup {None}, NEW u \in Prompts \cup Manuals \cup {None},
         Stamp(a, u)
  PROVE  /\ submittedAt' \in [Turns -> Nat] /\ clock' \in Nat
         /\ Submitted \cup ({a, u} \ {None}) \subseteq Submitted'
<1>1. submittedAt \in [Turns -> Nat] /\ clock \in Nat
  BY DEF TypeOK
<1>2. submittedAt' \in [Turns -> Nat] /\ clock' \in Nat
  BY <1>1 DEF Stamp
<1>3. ASSUME NEW t \in Turns
      PROVE  /\ t = a \/ t = u => submittedAt'[t] > 0
             /\ t # a /\ t # u => submittedAt'[t] = submittedAt[t]
  BY <1>1 DEF Stamp
<1>4. \A t \in {a, u} \ {None} : t \in Turns
  BY DEF Turns, Compactions
<1> QED
  BY <1>2, <1>3, <1>4 DEF Submitted

-----------------------------------------------------------------------------
(* Type correctness. *)

LEMMA TypeInit == Init => TypeInv
<1> SUFFICES ASSUME Init PROVE TypeInv
  OBVIOUS
<1>1. << >> \in Seq(Settlements) /\ << >> \in Seq(Reasons)
  OBVIOUS
<1>2. NotExecuting \in Execution
  BY DEF NotExecuting, Execution
<1>3. TypeOK
  BY <1>1, <1>2, EmptyQueueFacts, HoldFacts DEF Init, TypeOK, Steps
<1>4. Remembered
  BY EmptyQueueFacts, HoldFacts DEF Init, Remembered, Steps
<1>5. Addressed
  BY DEF Init, Addressed, Free
<1> QED BY <1>3, <1>4, <1>5 DEF TypeInv

\* A restart keeps every item: the log knows all the turns its queue names.
LEMMA RestoreIsIdentity ==
  ASSUME TypeOK, Remembered
  PROVE  Restore(queue) = queue
<1>1. \A k \in DOMAIN queue.waiting : Known(queue.waiting[k])
  BY DEF Remembered, Queued, Submitted, Known, ToSet
<1>2. queue.running # None => Known(queue.running)
  BY DEF Remembered, Queued, Submitted, Known
<1> QED BY <1>1, <1>2 DEF Restore, TypeOK, Queue

LEMMA TypeNext == TypeInv /\ [Next]_vars => TypeInv'
<1> SUFFICES ASSUME TypeInv, [Next]_vars PROVE TypeInv'
  OBVIOUS
<1> USE NoneIsNoTurn DEF TypeInv, durableVars, processVars, turnVars
<1>1. ASSUME NEW p \in Prompts, Admit(p) PROVE TypeInv'
  <2>1. PICK a \in MaybeCompaction(mem) :
          LET behind == IF a = None THEN mem ELSE Enqueue(mem, a)
              next == Enqueue(behind, p)
          IN /\ mem' = next
             /\ attempted' = (attempted \/ a # None)
             /\ lock' = [Hold("submit", IF mem.running = None THEN next.running ELSE None)
                           EXCEPT !.auto = a, !.user = p]
    BY <1>1 DEF Admit
  <2>2. p \in Turns /\ mem \in Queue
    BY DEF Turns, TypeOK
  <2>3. a \in Autos \cup {None} /\ (a # None => a \in Turns)
    BY MaybeCompactionFacts
  <2> DEFINE behind == IF a = None THEN mem ELSE Enqueue(mem, a)
  <2>4. behind \in Queue /\ Queued(behind) \subseteq Queued(mem) \cup ({a} \ {None})
    BY <2>2, <2>3, EnqueueFacts
  <2> HIDE DEF behind
  <2>5. mem' \in Queue /\ Queued(mem') \subseteq Queued(mem) \cup ({a, p} \ {None})
    BY <2>1, <2>2, <2>4, EnqueueFacts DEF behind
  <2>6. /\ lock' \in Operation /\ lock'.step = "submit"
        /\ lock'.auto = a /\ lock'.user = p
    <3>1. (IF mem.running = None THEN mem'.running ELSE None) \in Turns \cup {None}
      BY <2>5 DEF Queue
    <3>2. lock' = [Hold("submit", IF mem.running = None THEN mem'.running ELSE None)
                     EXCEPT !.auto = a, !.user = p]
      BY <2>1
    <3>3. Hold("submit", IF mem.running = None THEN mem'.running ELSE None) \in Operation
      BY <3>1, HoldFacts DEF Steps
    <3>4. Hold("submit", IF mem.running = None THEN mem'.running ELSE None).step = "submit"
      BY <3>1, HoldFacts DEF Steps
    <3> QED BY <2>3, <3>2, <3>3, <3>4 DEF Operation
  <2>7. TypeOK'
    BY <1>1, <2>1, <2>5, <2>6 DEF Admit, TypeOK
  <2>8. Remembered'
    BY <1>1, <2>5, <2>6 DEF Admit, Unlocked, Remembered, Submitted
  <2> QED BY <1>1, <2>6, <2>7, <2>8 DEF Admit, Unlocked, Addressed
<1>2. ASSUME NEW m \in Manuals, Compact(m) PROVE TypeInv'
  <2>1. mem \in Queue /\ m \in Turns
    BY DEF TypeOK, Turns, Compactions
  <2>2. mem' \in Queue /\ Queued(mem') \subseteq Queued(mem) \cup {m}
    BY <1>2, <2>1, EnqueueFacts DEF Compact
  <2> DEFINE next == IF mem.running = None THEN mem'.running ELSE None
  <2>3. next \in Turns \cup {None}
    BY <2>2 DEF Queue
  <2>4. Hold("submit", next) \in Operation /\ Hold("submit", next).step = "submit"
    BY <2>3, HoldFacts DEF Steps
  <2>5. lock' = [Hold("submit", next) EXCEPT !.user = m]
    BY <1>2 DEF Compact
  <2> HIDE DEF next
  <2>6. lock' \in Operation /\ lock'.step = "submit" /\ lock'.user = m
    BY <2>4, <2>5 DEF Operation
  <2>7. TypeOK'
    BY <1>2, <2>2, <2>6 DEF Compact, TypeOK
  <2>8. Remembered'
    BY <1>2, <2>1, <2>2, <2>6 DEF Compact, Unlocked, Remembered, Submitted
  <2> QED BY <1>2, <2>6, <2>7, <2>8 DEF Compact, Unlocked, Addressed
<1>3. ASSUME NEW t \in Turns, CancelRunning(t) PROVE TypeInv'
  <2>1. execution' \in [Turns -> Execution]
    BY <1>3, MarkFacts DEF CancelRunning, TypeOK
  <2>2. mem' \in Queue /\ Queued(mem') = Queued(mem)
    BY <1>3 DEF CancelRunning, TypeOK, Queue, Queued
  <2>3. lock' \in Operation /\ lock'.step = "cancelling" /\ lock'.turn = t
        /\ lock'.auto = None /\ lock'.user = None
    BY <1>3, HoldFacts DEF CancelRunning, Steps
  <2>4. TypeOK'
    BY <1>3, <2>1, <2>2, <2>3 DEF CancelRunning, TypeOK
  <2>5. Remembered'
    BY <1>3, <2>2, <2>3 DEF CancelRunning, Unlocked, Remembered, Submitted
  <2> QED BY <1>3, <2>3, <2>4, <2>5 DEF CancelRunning, Unlocked, Addressed
<1>4. ASSUME NEW t \in Turns, CancelWaiting(t) PROVE TypeInv'
  <2>1. PICK k \in DOMAIN mem.waiting : mem' = [mem EXCEPT !.waiting = RemoveAt(@, k)]
    BY <1>4 DEF CancelWaiting
  <2>2. /\ RemoveAt(mem.waiting, k) \in Seq(Turns)
        /\ ToSet(RemoveAt(mem.waiting, k)) \subseteq ToSet(mem.waiting)
    BY RemoveAtElements DEF TypeOK, Queue
  <2>3. mem' \in Queue /\ Queued(mem') \subseteq Queued(mem)
    BY <2>1, <2>2 DEF TypeOK, Queue, Queued
  <2>4. lock' \in Operation /\ lock'.step = "withdraw" /\ lock'.turn = t
        /\ lock'.auto = None /\ lock'.user = None
    BY <1>4, HoldFacts DEF CancelWaiting, Steps
  <2>5. TypeOK'
    BY <1>4, <2>3, <2>4 DEF CancelWaiting, TypeOK
  <2>6. Remembered'
    BY <1>4, <2>3, <2>4 DEF CancelWaiting, Unlocked, Remembered, Submitted
  <2> QED BY <1>4, <2>4, <2>5, <2>6 DEF CancelWaiting, Unlocked, Addressed
<1>5. CASE AppendSubmission
  <2>1. lock.turn \in Turns \cup {None} /\ lock.auto \in Autos \cup {None}
        /\ lock.user \in Prompts \cup Manuals \cup {None}
    BY DEF TypeOK, Operation
  <2>2. /\ submittedAt' \in [Turns -> Nat] /\ clock' \in Nat
        /\ Submitted \cup ({lock.auto, lock.user} \ {None}) \subseteq Submitted'
    BY <1>5, <2>1, StampFacts DEF AppendSubmission
  <2>3. /\ execution' \in [Turns -> Execution] /\ active' \in Turns \cup {None}
        /\ registered' \in Turns \cup {None} /\ started' \in SUBSET Turns
    <3>1. Start(lock.turn)
      BY <1>5 DEF AppendSubmission
    <3>2. \A e \in Execution : Released(e) \in Execution
      BY DEF Released, Execution
    <3>3. [NotExecuting EXCEPT !.phase = "live"] \in Execution
      BY DEF NotExecuting, Execution
    <3>4. execution' \in [Turns -> Execution]
      BY <3>1, <3>2, <3>3 DEF Start, TypeOK
    <3>5. active' \in Turns \cup {None} /\ registered' \in Turns \cup {None}
          /\ started' \in SUBSET Turns
      BY <2>1, <3>1 DEF Start, TypeOK
    <3> QED BY <3>4, <3>5
  <2>4. /\ lock' \in Operation /\ lock'.step = "free" /\ lock'.auto = None /\ lock'.user = None
    BY <1>5, HoldFacts DEF AppendSubmission, Steps
  <2>5. TypeOK'
    BY <1>5, <2>2, <2>3, <2>4 DEF AppendSubmission, TypeOK
  <2>6. Remembered'
    BY <1>5, <2>2, <2>4 DEF AppendSubmission, Remembered
  <2> QED BY <1>5, <2>4, <2>5, <2>6 DEF AppendSubmission, Unlocked, Addressed
<1>6. CASE AppendCancelling
  <2>1. lock.turn \in Turns /\ lock.auto = None /\ lock.user = None
    BY <1>6 DEF AppendCancelling, Remembered, Addressed, TypeOK, Operation
  <2>2. execution' \in [Turns -> Execution]
    BY <1>6, MarkFacts DEF AppendCancelling, TypeOK
  <2>3. lock' \in Operation /\ lock'.step = "free" /\ lock'.auto = None /\ lock'.user = None
    BY <1>6, HoldFacts DEF AppendCancelling, Steps
  <2>4. TypeOK'
    BY <1>6, <2>1, <2>2, <2>3 DEF AppendCancelling, TypeOK
  <2>5. Remembered'
    BY <1>6, <2>1, <2>3 DEF AppendCancelling, Remembered, Submitted
  <2> QED BY <1>6, <2>3, <2>4, <2>5 DEF AppendCancelling, Unlocked, Addressed
<1>7. CASE AppendWithdrawal
  <2>1. lock.turn \in Turns /\ lock.auto = None /\ lock.user = None
    BY <1>7 DEF AppendWithdrawal, Remembered, Addressed, TypeOK, Operation
  <2>2. settled' \in [Prompts -> Seq(Settlements)] /\ terminal' \in [Turns -> Seq(Reasons)]
    BY <1>7, DismissFacts DEF AppendWithdrawal, Reasons
  <2>3. lock' \in Operation /\ lock'.step = "free" /\ lock'.auto = None /\ lock'.user = None
    BY <1>7, HoldFacts DEF AppendWithdrawal, Steps
  <2>4. TypeOK'
    BY <1>7, <2>1, <2>2, <2>3 DEF AppendWithdrawal, TypeOK
  <2>5. Remembered'
    BY <1>7, <2>1, <2>3 DEF AppendWithdrawal, Remembered, Submitted
  <2> QED BY <1>7, <2>3, <2>4, <2>5 DEF AppendWithdrawal, Unlocked, Addressed
<1>8. CASE SettleTurn
  <2>1. settled' \in [Prompts -> Seq(Settlements)]
    BY <1>8 DEF SettleTurn, TypeOK, Settlements
  <2>2. compacted' \in SUBSET Compactions
    BY <1>8 DEF SettleTurn, TypeOK
  <2>3. /\ lock' \in Operation /\ lock'.step = "terminal" /\ lock'.turn = lock.turn
        /\ lock'.reason = lock.reason /\ lock'.auto = lock.auto /\ lock'.user = lock.user
    BY <1>8 DEF SettleTurn, TypeOK, Operation, Steps
  <2>4. TypeOK'
    BY <1>8, <2>1, <2>2, <2>3 DEF SettleTurn, TypeOK
  <2>5. Remembered' /\ Addressed'
    BY <1>8, <2>3 DEF SettleTurn, Remembered, Addressed, Submitted, Queued
  <2> QED BY <2>4, <2>5
<1>9. CASE FinishTurn
  <2>1. lock.turn \in Turns /\ lock.reason \in Reasons
    BY <1>9 DEF FinishTurn, Addressed, TypeOK, Operation
  <2>2. terminal' \in [Turns -> Seq(Reasons)]
    BY <1>9, <2>1 DEF FinishTurn, TypeOK
  <2>3. execution' \in [Turns -> Execution]
    BY <1>9, MarkFacts DEF FinishTurn, TypeOK
  <2>4. mem' \in Queue /\ Queued(mem') \subseteq Queued(mem)
    BY <1>9 DEF FinishTurn, TypeOK, Queue, Queued
  <2>5. lock' \in Operation /\ lock'.step = "choose" /\ lock'.auto = None /\ lock'.user = None
    BY <1>9, <2>1, HoldFacts DEF FinishTurn, Steps
  <2>6. TypeOK'
    BY <1>9, <2>2, <2>3, <2>4, <2>5 DEF FinishTurn, TypeOK
  <2>7. Remembered'
    BY <1>9, <2>4, <2>5 DEF FinishTurn, Remembered, Submitted
  <2> QED BY <1>9, <2>5, <2>6, <2>7 DEF FinishTurn, Unlocked, Addressed
<1>10. CASE Prune
  <2>1. TypeOK'
    BY <1>10 DEF Prune, TypeOK
  <2>2. Remembered' /\ Addressed'
    BY <1>10 DEF Prune, Remembered, Addressed, Submitted
  <2> QED BY <2>1, <2>2
<1>11. CASE ChooseNext
  <2>1. PICK a \in MaybeCompaction(mem) :
          /\ mem' = IF a # None THEN Enqueue(mem, a) ELSE TakeNext(mem)
          /\ attempted' = (attempted \/ a # None)
          /\ lock' = [Hold("submit", mem'.running) EXCEPT !.auto = a]
    BY <1>11 DEF ChooseNext
  <2>2. a \in Autos \cup {None} /\ (a # None => a \in Turns)
    BY MaybeCompactionFacts
  <2>3. mem' \in Queue /\ Queued(mem') \subseteq Queued(mem) \cup ({a} \ {None})
    <3>1. mem \in Queue
      BY DEF TypeOK
    <3>2. CASE a = None
      BY <2>1, <3>1, <3>2, TakeNextFacts
    <3>3. CASE a # None
      BY <2>1, <2>2, <3>1, <3>3, EnqueueFacts
    <3> QED BY <3>2, <3>3
  <2>4. /\ Hold("submit", mem'.running) \in Operation /\ Hold("submit", mem'.running).step = "submit"
        /\ Hold("submit", mem'.running).user = None
    BY <2>3, HoldFacts DEF Queue, Steps
  <2>5. lock' \in Operation /\ lock'.step = "submit" /\ lock'.auto = a /\ lock'.user = None
    BY <2>1, <2>2, <2>4 DEF Operation
  <2>6. TypeOK'
    BY <1>11, <2>1, <2>3, <2>5 DEF ChooseNext, TypeOK
  <2>7. Remembered'
    BY <1>11, <2>3, <2>5 DEF ChooseNext, Remembered, Submitted
  <2> QED BY <1>11, <2>5, <2>6, <2>7 DEF ChooseNext, Unlocked, Addressed
<1>12. ASSUME NEW p \in Prompts, Deliver(p) PROVE TypeInv'
  <2>1. execution' \in [Turns -> Execution]
    BY <1>12, MarkFacts DEF Deliver, TypeOK
  <2>2. settled' \in [Prompts -> Seq(Settlements)]
    BY <1>12 DEF Deliver, TypeOK, Settlements
  <2>3. TypeOK'
    BY <1>12, <2>1, <2>2 DEF Deliver, TypeOK
  <2>4. Remembered' /\ Addressed'
    BY <1>12 DEF Deliver, Remembered, Addressed, Submitted, Queued
  <2> QED BY <2>3, <2>4
<1>13. ASSUME NEW t \in Turns, ReportUsage(t) PROVE TypeInv'
  <2>1. TypeOK'
    BY <1>13 DEF ReportUsage, ApplyUsage, TypeOK
  <2>2. Remembered' /\ Addressed'
    BY <1>13 DEF ReportUsage, Remembered, Addressed, Submitted, Queued
  <2> QED BY <2>1, <2>2
<1>14. ASSUME NEW t \in Turns, HarnessEnds(t) PROVE TypeInv'
  <2>1. execution' \in [Turns -> Execution]
    BY <1>14, MarkFacts DEF HarnessEnds, TypeOK
  <2>2. TypeOK'
    BY <1>14, <2>1 DEF HarnessEnds, TypeOK
  <2>3. Remembered' /\ Addressed'
    BY <1>14 DEF HarnessEnds, Remembered, Addressed, Submitted, Queued
  <2> QED BY <2>2, <2>3
<1>15. ASSUME NEW t \in Turns, CompleteTurn(t) PROVE TypeInv'
  <2>1. PICK failed \in BOOLEAN : lock' = [Hold("settle", t) EXCEPT !.reason = FinalReason(t, failed)]
    BY <1>15 DEF CompleteTurn
  <2>2. FinalReason(t, failed) \in Reasons /\ FinalReason(t, failed) # None
    <3>1. FinalReason(t, failed) \in {"aborted", "error", "completed"}
      BY DEF FinalReason
    <3> QED BY <3>1, ReasonFacts DEF Reasons
  <2>3. /\ Hold("settle", t) \in Operation /\ Hold("settle", t).step = "settle"
        /\ Hold("settle", t).turn = t
        /\ Hold("settle", t).auto = None /\ Hold("settle", t).user = None
    BY HoldFacts DEF Steps
  <2>4. /\ lock' \in Operation /\ lock'.step = "settle" /\ lock'.turn = t /\ lock'.reason # None
        /\ lock'.auto = None /\ lock'.user = None
    BY <2>1, <2>2, <2>3 DEF Operation
  <2>5. TypeOK'
    BY <1>15, <2>4 DEF CompleteTurn, TypeOK
  <2>6. Remembered' /\ Addressed'
    BY <1>15, <2>4 DEF CompleteTurn, Unlocked, Remembered, Addressed, Submitted, Queued
  <2> QED BY <2>5, <2>6
<1>16. ASSUME NEW t \in Turns, Settle(t) PROVE TypeInv'
  <2>1. execution' \in [Turns -> Execution]
    BY <1>16 DEF Settle, TypeOK, NotExecuting, Execution
  <2>2. TypeOK'
    BY <1>16, <2>1 DEF Settle, TypeOK
  <2>3. Remembered' /\ Addressed'
    BY <1>16 DEF Settle, Remembered, Addressed, Submitted, Queued
  <2> QED BY <2>2, <2>3
<1>17. CASE AbortSession
  <2>1. execution' \in [Turns -> Execution]
    BY <1>17, MarkFacts DEF AbortSession, TypeOK
  <2>2. TypeOK'
    BY <1>17, <2>1 DEF AbortSession, TypeOK
  <2>3. Remembered' /\ Addressed'
    BY <1>17 DEF AbortSession, Remembered, Addressed, Submitted, Queued
  <2> QED BY <2>2, <2>3
<1>18. CASE AskShutdown
  <2>1. TypeOK'
    BY <1>18 DEF AskShutdown, TypeOK
  <2>2. Remembered' /\ Addressed'
    BY <1>18 DEF AskShutdown, Remembered, Addressed, Submitted, Queued
  <2> QED BY <2>1, <2>2
<1>19. CASE ShutdownAborts
  <2>1. execution' \in [Turns -> Execution]
    BY <1>19, MarkFacts DEF ShutdownAborts, TypeOK
  <2>2. TypeOK'
    BY <1>19, <2>1 DEF ShutdownAborts, TypeOK
  <2>3. Remembered' /\ Addressed'
    BY <1>19 DEF ShutdownAborts, Remembered, Addressed, Submitted, Queued
  <2> QED BY <2>2, <2>3
<1>20. CASE Lose /\ stops' \in Nat
  <2>1. execution' \in [Turns -> Execution]
    BY <1>20 DEF Lose, NotExecuting, Execution
  <2>2. lock' \in Operation /\ lock'.step = "free" /\ lock'.auto = None /\ lock'.user = None
    BY <1>20, HoldFacts DEF Lose, Steps
  <2>3. TypeOK'
    BY <1>20, <2>1, <2>2, EmptyQueueFacts DEF Lose, TypeOK
  <2>4. Queued(mem') = {}
    BY <1>20, EmptyQueueFacts DEF Lose
  <2>5. Remembered' /\ Addressed'
    BY <1>20, <2>2, <2>4 DEF Lose, Remembered, Addressed, Submitted
  <2> QED BY <2>3, <2>5
<1>21. ASSUME NEW asImport \in BOOLEAN, Restart(asImport) PROVE TypeInv'
  <2>3. mem' = queue
    BY <1>21, RestoreIsIdentity DEF Restart
  <2>4. TypeOK'
    BY <1>21, <2>3 DEF Restart, TypeOK
  <2>5. /\ lock.step = "free" /\ UNCHANGED <<queue, submittedAt, lock>>
    BY <1>21 DEF Restart, Addressed
  <2>6. Remembered'
    BY <2>3, <2>5 DEF Remembered, Submitted, Queued
  <2>7. Addressed'
    BY <2>5 DEF Addressed
  <2> QED BY <2>4, <2>6, <2>7
<1>22. CASE RecoverSession
  <2>1. /\ lock' \in Operation /\ lock'.step \in {"recover", "expire"}
        /\ lock'.auto = None /\ lock'.user = None
    BY <1>22, HoldFacts DEF RecoverSession, Steps
  <2>2. TypeOK'
    BY <1>22, <2>1 DEF RecoverSession, TypeOK
  <2>3. Remembered' /\ Addressed'
    BY <1>22, <2>1 DEF RecoverSession, Remembered, Addressed, Submitted, Queued
  <2> QED BY <2>2, <2>3
<1>23. CASE ExpireOld
  <2>1. PICK k \in 0 .. Len(mem.waiting) : DrainExpired(k)
    BY <1>23 DEF ExpireOld
  <2>2. /\ mem' \in Queue /\ Queued(mem') \subseteq Queued(mem) /\ queue' = mem'
        /\ settled' \in [Prompts -> Seq(Settlements)] /\ terminal' \in [Turns -> Seq(Reasons)]
    BY <2>1, DrainFacts
  <2>3. lock' \in Operation /\ lock'.step = "recover" /\ lock'.auto = None /\ lock'.user = None
    BY <1>23, HoldFacts DEF ExpireOld, Steps
  <2>4. TypeOK'
    BY <1>23, <2>2, <2>3 DEF ExpireOld, TypeOK
  <2>5. Remembered' /\ Addressed'
    BY <1>23, <2>2, <2>3 DEF ExpireOld, Remembered, Addressed, Submitted
  <2> QED BY <2>4, <2>5
<1>24. CASE ExpireAll
  <2>1. Len(mem.waiting) \in 0 .. Len(mem.waiting)
    BY DEF TypeOK, Queue
  <2>2. /\ mem' \in Queue /\ Queued(mem') \subseteq Queued(mem) /\ queue' = mem'
        /\ settled' \in [Prompts -> Seq(Settlements)] /\ terminal' \in [Turns -> Seq(Reasons)]
    BY <1>24, <2>1, DrainFacts DEF ExpireAll
  <2>3. lock' \in Operation /\ lock'.step = "free" /\ lock'.auto = None /\ lock'.user = None
    BY <1>24, HoldFacts DEF ExpireAll, Steps
  <2>4. TypeOK'
    BY <1>24, <2>2, <2>3 DEF ExpireAll, TypeOK
  <2>5. Remembered' /\ Addressed'
    BY <1>24, <2>2, <2>3 DEF ExpireAll, Remembered, Addressed, Submitted
  <2> QED BY <2>4, <2>5
<1>25. CASE RecoverRunning
  <2>1. mem.running \in Turns
    BY <1>25 DEF RecoverRunning, TypeOK, Queue
  <2>2. RecoveryReason(mem.running) \in Reasons
    BY DEF RecoveryReason, Reasons
  <2>3. terminal' \in [Turns -> Seq(Reasons)]
    <3> DEFINE r == RecoveryReason(mem.running)
    <3>1. Append(terminal[mem.running], r) \in Seq(Reasons)
      BY <2>1, <2>2 DEF TypeOK
    <3>2. terminal' = terminal \/ terminal' = [terminal EXCEPT ![mem.running] = Append(@, r)]
      BY <1>25 DEF RecoverRunning
    <3> HIDE DEF r
    <3>3. terminal \in [Turns -> Seq(Reasons)]
      BY DEF TypeOK
    <3> QED BY <2>1, <3>1, <3>2, <3>3
  <2>4. settled' \in [Prompts -> Seq(Settlements)]
    <3>1. \A p \in Prompts : /\ settled[p] \in Seq(Settlements)
                             /\ Append(settled[p], "undelivered") \in Seq(Settlements)
      BY DEF TypeOK, Settlements
    <3>2. CASE terminal[mem.running] # << >>
      BY <1>25, <3>2 DEF RecoverRunning, TypeOK
    <3>3. CASE terminal[mem.running] = << >>
      <4>1. settled' = [p \in Prompts |-> IF p = mem.running /\ settled[p] = << >>
                                          THEN Append(settled[p], "undelivered") ELSE settled[p]]
        BY <1>25, <3>3 DEF RecoverRunning
      <4> QED BY <3>1, <4>1
    <3> QED BY <3>2, <3>3
  <2>5. mem' \in Queue /\ Queued(mem') \subseteq Queued(mem)
    BY <1>25 DEF RecoverRunning, TypeOK, Queue, Queued
  <2>6. /\ lock' \in Operation /\ lock'.step \in {"unlink", "choose"}
        /\ lock'.auto = None /\ lock'.user = None
    BY <1>25, <2>1, HoldFacts DEF RecoverRunning, Steps
  <2>7. TypeOK'
    BY <1>25, <2>3, <2>4, <2>5, <2>6 DEF RecoverRunning, TypeOK
  <2>8. Remembered' /\ Addressed'
    BY <1>25, <2>5, <2>6 DEF RecoverRunning, Remembered, Addressed, Submitted
  <2> QED BY <2>7, <2>8
<1>26. CASE RecoverNothingRunning
  <2>1. AfterNothing \in {"expireAll", "free", "choose"}
    BY DEF AfterNothing
  <2>2. /\ lock' \in Operation /\ lock'.step \in {"expireAll", "free", "choose"}
        /\ lock'.auto = None /\ lock'.user = None
    BY <1>26, <2>1, HoldFacts DEF RecoverNothingRunning, Steps
  <2>3. TypeOK'
    BY <1>26, <2>2 DEF RecoverNothingRunning, TypeOK
  <2>4. Remembered' /\ Addressed'
    BY <1>26, <2>2 DEF RecoverNothingRunning, Remembered, Addressed, Submitted, Queued
  <2> QED BY <2>3, <2>4
<1>27. CASE UnlinkImported
  <2>1. lock' \in Operation /\ lock'.step = "expireAll" /\ lock'.auto = None /\ lock'.user = None
    BY <1>27, HoldFacts DEF UnlinkImported, Steps
  <2>2. TypeOK'
    BY <1>27, <2>1 DEF UnlinkImported, TypeOK
  <2>3. Remembered' /\ Addressed'
    BY <1>27, <2>1 DEF UnlinkImported, Remembered, Addressed, Submitted
  <2> QED BY <2>2, <2>3
<1>28. CASE Crash \/ Exit
  <2>1. stops \in Nat
    BY DEF TypeOK
  <2>2. Lose /\ stops' \in Nat
    BY <1>28, <2>1 DEF Crash, Exit
  <2> QED BY <1>20, <2>2
<1>29. CASE UNCHANGED vars
  <2>1. TypeOK'
    BY <1>29 DEF vars, TypeOK
  <2>2. Remembered' /\ Addressed'
    BY <1>29 DEF vars, Remembered, Addressed, Submitted, Queued
  <2> QED BY <2>1, <2>2
<1>30. CASE Clients
  BY <1>1, <1>2, <1>3, <1>4, <1>30 DEF Clients
<1>31. CASE Appends
  BY <1>5, <1>6, <1>7, <1>8, <1>9, <1>10, <1>11, <1>31 DEF Appends
<1>32. CASE Harness
  BY <1>12, <1>13, <1>14, <1>15, <1>16, <1>32 DEF Harness
<1>33. CASE Process
  BY <1>17, <1>18, <1>19, <1>28, <1>33 DEF Process
<1>34. CASE Recovery
  BY <1>21, <1>22, <1>23, <1>24, <1>25, <1>26, <1>27, <1>34 DEF Recovery
<1> QED BY <1>29, <1>30, <1>31, <1>32, <1>33, <1>34 DEF Next

\* The types, with what the queues may name, hold of every behaviour.
THEOREM TypeInvariant == Spec => []TypeInv
BY TypeInit, TypeNext, PTL DEF Spec

(***************************************************************************)
(* Every variable keeps its type: no append, crash or recovery leaves a    *)
(* malformed queue, log or lock behind, whatever the number of turns.      *)
(***************************************************************************)
THEOREM TypeCorrect == Spec => []TypeOK
<1>1. TypeInv => TypeOK
  BY DEF TypeInv
<1> QED BY <1>1, TypeInvariant, PTL

(***************************************************************************)
(* A snapshot never names a turn without a submission record, so that a    *)
(* restart restores every item of the queue it reads.                      *)
(***************************************************************************)
THEOREM QueueRemembered == Spec => [](Queued(queue) \subseteq Submitted)
<1>1. TypeInv => Queued(queue) \subseteq Submitted
  BY DEF TypeInv, Remembered
<1> QED BY <1>1, TypeInvariant, PTL

-----------------------------------------------------------------------------
(***************************************************************************)
(* One execution at a time, and the queue and the executions agree.        *)
(* Neither is inductive.  Between two operations the queue names what      *)
(* runs, but an operation changes the queue, the active turn and the log   *)
(* at different appends; the invariant says, for each append an operation  *)
(* can be waiting for, how far it has got.                                 *)
(***************************************************************************)
Driving(t) == execution[t].phase \in {"live", "ended"}

\* The active turn is the one that drives the harness.
SlotMatchesExecution ==
  /\ \A t \in Turns : Driving(t) => active = t
  /\ active # None => Driving(active) /\ registered = active

\* A process that does not serve yet executes nothing; it has reloaded the queue.
LoadedFromLog ==
  /\ up # "serving" => active = None
  /\ up = "recovering" => mem = queue

\* How far the holder of the lock has got.
QueueMatchesSlot ==
  /\ Unlocked => queue = mem /\ active = mem.running
  /\ lock.step = "submit" =>
       IF lock.turn = None THEN active = mem.running
       ELSE active = None /\ mem.running = lock.turn
  /\ lock.step \in {"cancelling", "settle", "terminal"} =>
       active = lock.turn /\ mem.running = lock.turn
  /\ lock.step = "withdraw" => active = mem.running
  /\ lock.step \in {"expire", "recover"} => active = None /\ queue = mem
  /\ lock.step \in {"choose", "unlink", "expireAll"} => active = None /\ mem.running = None

RunInv == SlotMatchesExecution /\ LoadedFromLog /\ QueueMatchesSlot

-----------------------------------------------------------------------------
LEMMA HoldKeeps ==
  ASSUME NEW step, NEW t
  PROVE  /\ Hold(step, t).step = step /\ Hold(step, t).turn = t
         /\ Free.step = "free"
         /\ \A a, u : /\ [Hold(step, t) EXCEPT !.auto = a, !.user = u].step = step
                      /\ [Hold(step, t) EXCEPT !.auto = a, !.user = u].turn = t
         /\ \A a : /\ [Hold(step, t) EXCEPT !.auto = a].step = step
                   /\ [Hold(step, t) EXCEPT !.auto = a].turn = t
         /\ \A u : /\ [Hold(step, t) EXCEPT !.user = u].step = step
                   /\ [Hold(step, t) EXCEPT !.user = u].turn = t
         /\ \A r : /\ [Hold(step, t) EXCEPT !.reason = r].step = step
                   /\ [Hold(step, t) EXCEPT !.reason = r].turn = t
  BY DEF Hold, Free

\* An operation leaves the executions alone: only its progress matters.
LEMMA SameExecutions ==
  ASSUME RunInv, UNCHANGED <<execution, active, registered, up>>, up = "serving",
         QueueMatchesSlot'
  PROVE  RunInv'
  BY DEF RunInv, SlotMatchesExecution, LoadedFromLog, Driving

\* An execution changes without beginning or leaving the turn it executes.
LEMMA SameDrivers ==
  ASSUME RunInv, UNCHANGED <<active, registered, up, mem, queue, lock>>,
         \A t \in Turns : Driving(t)' <=> Driving(t), TypeOK
  PROVE  RunInv'
  BY DEF RunInv, SlotMatchesExecution, LoadedFromLog, QueueMatchesSlot, Unlocked, TypeOK

LEMMA RunInit == Init => RunInv
<1> SUFFICES ASSUME Init PROVE RunInv
  OBVIOUS
<1>1. \A t \in Turns : ~Driving(t)
  BY DEF Init, Driving, NotExecuting
<1> QED BY <1>1 DEF Init, RunInv, SlotMatchesExecution, LoadedFromLog, QueueMatchesSlot,
           EmptyQueue, Free

LEMMA RunNext == TypeInv /\ RunInv /\ [Next]_vars => RunInv'
<1> SUFFICES ASSUME TypeInv, RunInv, [Next]_vars PROVE RunInv'
  OBVIOUS
<1> USE NoneIsNoTurn DEF durableVars, processVars, turnVars
<1>0. TypeOK /\ (up # "serving" => lock.step = "free")
  BY DEF TypeInv, Addressed
<1>1. ASSUME NEW p \in Prompts, Admit(p) PROVE RunInv'
  <2>1. PICK a \in MaybeCompaction(mem) :
          LET behind == IF a = None THEN mem ELSE Enqueue(mem, a)
              next == Enqueue(behind, p)
          IN /\ mem' = next
             /\ lock' = [Hold("submit", IF mem.running = None THEN next.running ELSE None)
                           EXCEPT !.auto = a, !.user = p]
    BY <1>1 DEF Admit
  <2>2. lock'.step = "submit" /\ lock'.turn = IF mem.running = None THEN mem'.running ELSE None
    BY <2>1, HoldKeeps
  <2>3. mem.running # None => mem'.running = mem.running
    BY <1>0, <2>1 DEF Enqueue, TypeOK, Queue
  <2>4. up = "serving" /\ active = mem.running
    BY <1>1 DEF Admit, Unlocked, RunInv, QueueMatchesSlot
  <2>5. QueueMatchesSlot'
    BY <1>1, <2>2, <2>3, <2>4 DEF Admit, QueueMatchesSlot, Unlocked
  <2> QED BY <1>1, <2>4, <2>5, SameExecutions DEF Admit
<1>2. ASSUME NEW m \in Manuals, Compact(m) PROVE RunInv'
  <2>1. mem.running # None => mem'.running = mem.running
    BY <1>0, <1>2 DEF Compact, Enqueue, TypeOK, Queue
  <2>2. lock'.step = "submit" /\ lock'.turn = IF mem.running = None THEN mem'.running ELSE None
    BY <1>2, HoldKeeps DEF Compact
  <2>3. up = "serving" /\ active = mem.running
    BY <1>2 DEF Compact, Unlocked, RunInv, QueueMatchesSlot
  <2>4. QueueMatchesSlot'
    BY <1>2, <2>1, <2>2, <2>3 DEF Compact, QueueMatchesSlot, Unlocked
  <2> QED BY <1>2, <2>3, <2>4, SameExecutions DEF Compact
<1>3. ASSUME NEW t \in Turns, CancelRunning(t) PROVE RunInv'
  <2>1. lock'.step = "cancelling" /\ lock'.turn = t
    BY <1>3, HoldKeeps DEF CancelRunning
  <2>2. up = "serving" /\ active = t /\ mem'.running = t
    BY <1>0, <1>3 DEF CancelRunning, Unlocked, TypeOK, Queue
  <2>3. \A u \in Turns : Driving(u)' <=> Driving(u)
    BY <1>0, <1>3 DEF CancelRunning, Driving, TypeOK, Execution
  <2>4. QueueMatchesSlot'
    BY <1>3, <2>1, <2>2 DEF CancelRunning, QueueMatchesSlot, Unlocked
  <2>5. SlotMatchesExecution' /\ LoadedFromLog'
    BY <1>0, <1>3, <2>2, <2>3 DEF CancelRunning, RunInv, SlotMatchesExecution, LoadedFromLog, TypeOK
  <2> QED BY <2>4, <2>5 DEF RunInv
<1>4. ASSUME NEW t \in Turns, CancelWaiting(t) PROVE RunInv'
  <2>1. lock'.step = "withdraw" /\ mem'.running = mem.running
    <3>1. lock'.step = "withdraw"
      BY <1>4, HoldKeeps DEF CancelWaiting
    <3>2. mem'.running = mem.running
      BY <1>0, <1>4 DEF CancelWaiting, TypeOK, Queue
    <3> QED BY <3>1, <3>2
  <2>2. up = "serving" /\ active = mem.running
    BY <1>4 DEF CancelWaiting, Unlocked, RunInv, QueueMatchesSlot
  <2>3. QueueMatchesSlot'
    BY <1>4, <2>1, <2>2 DEF CancelWaiting, QueueMatchesSlot, Unlocked
  <2> QED BY <1>4, <2>2, <2>3, SameExecutions DEF CancelWaiting
<1>5. CASE AppendSubmission
  <2>1. lock.turn \in Turns \cup {None} /\ up = "serving"
    BY <1>0, <1>5 DEF AppendSubmission, TypeOK, Operation
  <2>2. lock'.step = "free" /\ queue' = mem /\ mem' = mem /\ Start(lock.turn) /\ up' = up
    BY <1>5, HoldKeeps DEF AppendSubmission
  <2>3. \A u \in Turns : Driving(u)' <=> (u = lock.turn \/ Driving(u))
    <3>1. SUFFICES ASSUME NEW u \in Turns PROVE Driving(u)' <=> (u = lock.turn \/ Driving(u))
      OBVIOUS
    <3>2. execution[u] \in Execution
      BY <1>0 DEF TypeOK
    <3>3. execution'[u] = IF u = lock.turn THEN [NotExecuting EXCEPT !.phase = "live"]
                          ELSE Released(execution[u])
      BY <2>2 DEF Start
    <3>4. Released(execution[u]).phase \in {"live", "ended"} <=> Driving(u)
      BY <3>2 DEF Released, Driving, Execution
    <3> QED BY <3>3, <3>4 DEF Driving, NotExecuting
  <2>4. CASE lock.turn = None
    <3>1. active' = active /\ registered' = registered /\ active = mem.running
      BY <1>5, <2>2, <2>4 DEF Start, AppendSubmission, RunInv, QueueMatchesSlot
    <3>2. SlotMatchesExecution' /\ LoadedFromLog'
      BY <1>0, <2>1, <2>2, <2>3, <2>4, <3>1 DEF RunInv, SlotMatchesExecution, LoadedFromLog, TypeOK
    <3>3. QueueMatchesSlot'
      BY <2>2, <3>1 DEF QueueMatchesSlot
    <3> QED BY <3>2, <3>3 DEF RunInv
  <2>5. CASE lock.turn # None
    <3>1. /\ active' = lock.turn /\ registered' = lock.turn
          /\ active = None /\ mem.running = lock.turn
      BY <1>5, <2>2, <2>5 DEF Start, AppendSubmission, RunInv, QueueMatchesSlot
    <3>2. SlotMatchesExecution' /\ LoadedFromLog'
      BY <2>1, <2>2, <2>3, <2>5, <3>1 DEF RunInv, SlotMatchesExecution, LoadedFromLog
    <3>3. QueueMatchesSlot'
      BY <2>2, <3>1 DEF QueueMatchesSlot
    <3> QED BY <3>2, <3>3 DEF RunInv
  <2> QED BY <2>4, <2>5
<1>6. CASE AppendCancelling
  <2>1. /\ up = "serving" /\ lock'.step = "free" /\ queue' = mem /\ mem' = mem /\ active' = active
        /\ active = mem.running
    BY <1>0, <1>6, HoldKeeps DEF AppendCancelling, RunInv, QueueMatchesSlot
  <2>2. \A u \in Turns : Driving(u)' <=> Driving(u)
    BY <1>0, <1>6 DEF AppendCancelling, Driving, TypeOK, Execution
  <2>3. QueueMatchesSlot'
    BY <2>1 DEF QueueMatchesSlot
  <2>4. SlotMatchesExecution' /\ LoadedFromLog'
    BY <1>0, <1>6, <2>1, <2>2 DEF AppendCancelling, RunInv, SlotMatchesExecution, LoadedFromLog, TypeOK
  <2> QED BY <2>3, <2>4 DEF RunInv
<1>7. CASE AppendWithdrawal
  <2>1. /\ up = "serving" /\ lock'.step = "free" /\ queue' = mem /\ mem' = mem /\ active' = active
        /\ active = mem.running
    BY <1>0, <1>7, HoldKeeps DEF AppendWithdrawal, RunInv, QueueMatchesSlot
  <2>2. QueueMatchesSlot'
    BY <2>1 DEF QueueMatchesSlot
  <2> QED BY <1>7, <2>1, <2>2, SameExecutions DEF AppendWithdrawal
<1>8. CASE SettleTurn
  <2>1. up = "serving" /\ lock'.step = "terminal" /\ lock'.turn = lock.turn
    BY <1>0, <1>8 DEF SettleTurn, TypeOK, Operation
  <2>2. QueueMatchesSlot'
    BY <1>8, <2>1 DEF SettleTurn, RunInv, QueueMatchesSlot, Unlocked
  <2> QED BY <1>8, <2>1, <2>2, SameExecutions DEF SettleTurn
<1>9. CASE FinishTurn
  <2>1. lock.turn = active /\ lock.turn \in Turns
    BY <1>0, <1>9 DEF FinishTurn, RunInv, QueueMatchesSlot, TypeInv, Addressed, TypeOK, Operation
  <2>2. lock'.step = "choose" /\ active' = None /\ mem'.running = None
    BY <1>0, <1>9, HoldKeeps DEF FinishTurn, TypeOK, Queue
  <2>3. \A u \in Turns : ~Driving(u)'
    BY <1>0, <1>9, <2>1 DEF FinishTurn, RunInv, SlotMatchesExecution, Driving, TypeOK, Execution
  <2>4. QueueMatchesSlot'
    BY <2>2 DEF QueueMatchesSlot, Unlocked
  <2>5. SlotMatchesExecution' /\ LoadedFromLog'
    BY <1>0, <1>9, <2>2, <2>3 DEF FinishTurn, SlotMatchesExecution, LoadedFromLog
  <2> QED BY <2>4, <2>5 DEF RunInv
<1>10. CASE Prune
  <2>1. QueueMatchesSlot'
    BY <1>10 DEF Prune, RunInv, QueueMatchesSlot, Unlocked
  <2> QED BY <1>0, <1>10, <2>1, SameExecutions DEF Prune
<1>11. CASE ChooseNext
  <2>1. lock'.step = "submit" /\ lock'.turn = mem'.running
    BY <1>11, HoldKeeps DEF ChooseNext
  <2>2. up = "serving" /\ active = None
    BY <1>0, <1>11 DEF ChooseNext, RunInv, QueueMatchesSlot
  <2>3. QueueMatchesSlot'
    BY <1>11, <2>1, <2>2 DEF ChooseNext, QueueMatchesSlot, Unlocked
  <2> QED BY <1>11, <2>2, <2>3, SameExecutions DEF ChooseNext
<1>12. ASSUME NEW p \in Prompts, Deliver(p) PROVE RunInv'
  <2>1. \A u \in Turns : Driving(u)' <=> Driving(u)
    BY <1>0, <1>12 DEF Deliver, Driving, TypeOK, Execution
  <2> QED BY <1>0, <1>12, <2>1, SameDrivers DEF Deliver
<1>13. ASSUME NEW t \in Turns, ReportUsage(t) PROVE RunInv'
  <2>1. \A u \in Turns : Driving(u)' <=> Driving(u)
    BY <1>13 DEF ReportUsage, Driving
  <2> QED BY <1>0, <1>13, <2>1, SameDrivers DEF ReportUsage
<1>14. ASSUME NEW t \in Turns, HarnessEnds(t) PROVE RunInv'
  <2>1. \A u \in Turns : Driving(u)' <=> Driving(u)
    BY <1>0, <1>14 DEF HarnessEnds, Driving, TypeOK, Execution
  <2> QED BY <1>0, <1>14, <2>1, SameDrivers DEF HarnessEnds
<1>15. ASSUME NEW t \in Turns, CompleteTurn(t) PROVE RunInv'
  <2>1. lock'.step = "settle" /\ lock'.turn = t
    BY <1>15, HoldKeeps DEF CompleteTurn
  <2>2. up = "serving" /\ active = t /\ mem.running = t
    BY <1>15 DEF CompleteTurn, Unlocked, RunInv, QueueMatchesSlot
  <2>3. QueueMatchesSlot'
    BY <1>15, <2>1, <2>2 DEF CompleteTurn, QueueMatchesSlot, Unlocked
  <2> QED BY <1>15, <2>2, <2>3, SameExecutions DEF CompleteTurn
<1>16. ASSUME NEW t \in Turns, Settle(t) PROVE RunInv'
  <2>1. \A u \in Turns : Driving(u)' <=> Driving(u)
    BY <1>0, <1>16 DEF Settle, Driving, NotExecuting, TypeOK, Execution
  <2>2. active # None => registered = active /\ active # t
    BY <1>0, <1>16 DEF Settle, RunInv, SlotMatchesExecution, Driving
  <2>3. active' = active /\ (active # None => registered' = active)
    BY <1>16, <2>2 DEF Settle
  <2>4. SlotMatchesExecution'
    BY <1>0, <2>1, <2>3 DEF RunInv, SlotMatchesExecution, TypeOK
  <2>5. LoadedFromLog' /\ QueueMatchesSlot'
    BY <1>16 DEF Settle, RunInv, LoadedFromLog, QueueMatchesSlot, Unlocked
  <2> QED BY <2>4, <2>5 DEF RunInv
<1>17. CASE AbortSession
  <2>1. \A u \in Turns : Driving(u)' <=> Driving(u)
    BY <1>0, <1>17 DEF AbortSession, Driving, TypeOK, Execution
  <2> QED BY <1>0, <1>17, <2>1, SameDrivers DEF AbortSession
<1>18. CASE AskShutdown
  <2>1. \A u \in Turns : Driving(u)' <=> Driving(u)
    BY <1>18 DEF AskShutdown, Driving
  <2> QED BY <1>0, <1>18, <2>1, SameDrivers DEF AskShutdown
<1>19. CASE ShutdownAborts
  <2>1. \A u \in Turns : Driving(u)' <=> Driving(u)
    BY <1>0, <1>19 DEF ShutdownAborts, Driving, TypeOK, Execution
  <2> QED BY <1>0, <1>19, <2>1, SameDrivers DEF ShutdownAborts
<1>20. CASE Crash \/ Exit
  <2>1. \A u \in Turns : ~Driving(u)'
    BY <1>20 DEF Crash, Exit, Lose, Driving, NotExecuting
  <2>2. active' = None /\ up' = "down" /\ lock'.step = "free"
    BY <1>20, HoldKeeps DEF Crash, Exit, Lose
  <2> QED BY <2>1, <2>2 DEF RunInv, SlotMatchesExecution, LoadedFromLog, QueueMatchesSlot, Unlocked
<1>21. ASSUME NEW asImport \in BOOLEAN, Restart(asImport) PROVE RunInv'
  <2>1. mem' = queue /\ queue' = queue
    BY <1>21, RestoreIsIdentity DEF Restart, TypeInv
  <2>2. /\ UNCHANGED <<execution, active, registered>> /\ active = None
        /\ lock' = lock /\ lock.step = "free"
        /\ up' = "serving" => queue.running = None
    BY <1>0, <1>21 DEF Restart, RunInv, LoadedFromLog, IsIdle
  <2>3. SlotMatchesExecution'
    BY <2>2 DEF RunInv, SlotMatchesExecution, Driving
  <2>4. LoadedFromLog' /\ QueueMatchesSlot'
    BY <2>1, <2>2 DEF LoadedFromLog, QueueMatchesSlot, Unlocked
  <2> QED BY <2>3, <2>4 DEF RunInv
<1>22. CASE RecoverSession
  <2>1. /\ lock'.step \in {"recover", "expire"} /\ up' = "serving" /\ active = None /\ mem = queue
        /\ UNCHANGED <<execution, active, registered, queue, mem>>
    BY <1>22, HoldKeeps DEF RecoverSession, RunInv, LoadedFromLog
  <2>2. SlotMatchesExecution'
    BY <2>1 DEF RunInv, SlotMatchesExecution, Driving
  <2>3. LoadedFromLog' /\ QueueMatchesSlot'
    BY <2>1 DEF LoadedFromLog, QueueMatchesSlot, Unlocked
  <2> QED BY <2>2, <2>3 DEF RunInv
<1>23. CASE ExpireOld
  <2>1. /\ lock'.step = "recover" /\ queue' = mem' /\ up = "serving" /\ active = None
        /\ UNCHANGED <<execution, active, registered, up>>
    BY <1>0, <1>23, HoldKeeps DEF ExpireOld, DrainExpired, RunInv, QueueMatchesSlot
  <2>2. QueueMatchesSlot'
    BY <2>1 DEF QueueMatchesSlot, Unlocked
  <2> QED BY <2>1, <2>2, SameExecutions
<1>24. CASE ExpireAll
  <2>1. /\ lock'.step = "free" /\ queue' = mem' /\ up = "serving" /\ active = None
        /\ mem.running = None /\ UNCHANGED <<execution, active, registered, up>>
    BY <1>0, <1>24, HoldKeeps DEF ExpireAll, DrainExpired, RunInv, QueueMatchesSlot
  <2>2. mem'.running = mem.running
    BY <1>0, <1>24 DEF ExpireAll, DrainExpired, TypeOK, Queue
  <2>3. QueueMatchesSlot'
    BY <2>1, <2>2 DEF QueueMatchesSlot, Unlocked
  <2> QED BY <2>1, <2>3, SameExecutions
<1>25. CASE RecoverRunning
  <2>1. /\ lock'.step \in {"unlink", "choose"} /\ up = "serving" /\ active = None
        /\ UNCHANGED <<execution, active, registered, up>>
    BY <1>0, <1>25, HoldKeeps DEF RecoverRunning, RunInv, QueueMatchesSlot
  <2>2. mem'.running = None
    BY <1>0, <1>25 DEF RecoverRunning, TypeOK, Queue
  <2>3. QueueMatchesSlot'
    BY <2>1, <2>2 DEF QueueMatchesSlot, Unlocked
  <2> QED BY <2>1, <2>3, SameExecutions
<1>26. CASE RecoverNothingRunning
  <2>1. lock'.step \in {"expireAll", "free", "choose"}
    BY <1>26, HoldKeeps DEF RecoverNothingRunning, AfterNothing
  <2>2. /\ mem.running = None /\ up = "serving" /\ active = None /\ queue = mem
        /\ UNCHANGED <<execution, active, registered, up, mem, queue>>
    BY <1>0, <1>26 DEF RecoverNothingRunning, RunInv, QueueMatchesSlot
  <2>3. QueueMatchesSlot'
    BY <2>1, <2>2 DEF QueueMatchesSlot, Unlocked
  <2> QED BY <2>2, <2>3, SameExecutions
<1>27. CASE UnlinkImported
  <2>1. /\ lock'.step = "expireAll" /\ mem.running = None /\ up = "serving" /\ active = None
        /\ UNCHANGED <<execution, active, registered, up, mem>>
    BY <1>0, <1>27, HoldKeeps DEF UnlinkImported, RunInv, QueueMatchesSlot
  <2>2. QueueMatchesSlot'
    BY <2>1 DEF QueueMatchesSlot, Unlocked
  <2> QED BY <2>1, <2>2, SameExecutions
<1>28. CASE UNCHANGED vars
  <2>1. \A u \in Turns : Driving(u)' <=> Driving(u)
    BY <1>28 DEF vars, Driving
  <2> QED BY <1>0, <1>28, <2>1, SameDrivers DEF vars
<1>29. CASE Clients
  BY <1>1, <1>2, <1>3, <1>4, <1>29 DEF Clients
<1>30. CASE Appends
  BY <1>5, <1>6, <1>7, <1>8, <1>9, <1>10, <1>11, <1>30 DEF Appends
<1>31. CASE Harness
  BY <1>12, <1>13, <1>14, <1>15, <1>16, <1>31 DEF Harness
<1>32. CASE Process
  BY <1>17, <1>18, <1>19, <1>20, <1>32 DEF Process
<1>33. CASE Recovery
  BY <1>21, <1>22, <1>23, <1>24, <1>25, <1>26, <1>27, <1>33 DEF Recovery
<1> QED BY <1>28, <1>29, <1>30, <1>31, <1>32, <1>33 DEF Next

\* What an operation has changed at each of its appends, and who executes, hold throughout.
THEOREM RunInvariant == Spec => []RunInv
<1>1. Init => TypeInv /\ RunInv
  BY TypeInit, RunInit
<1>2. TypeInv /\ RunInv /\ [Next]_vars => TypeInv' /\ RunInv'
  BY TypeNext, RunNext
<1> QED BY <1>1, <1>2, PTL DEF Spec

(***************************************************************************)
(* At most one turn of a session drives the harness, however operations,   *)
(* signals, crashes and restarts interleave.                               *)
(***************************************************************************)
THEOREM OneExecutionHolds == Spec => []OneExecution
<1>1. RunInv => OneExecution
  BY DEF RunInv, SlotMatchesExecution, OneExecution, Driving
<1> QED BY <1>1, RunInvariant, PTL

(***************************************************************************)
(* Whenever nobody holds the lock, memory equals the newest snapshot and   *)
(* the running item of the queue is the turn that is executing.            *)
(***************************************************************************)
THEOREM QueueExecutesHolds == Spec => []QueueExecutes
<1>1. RunInv => QueueExecutes
  BY DEF RunInv, SlotMatchesExecution, QueueMatchesSlot, QueueExecutes, Driving
<1> QED BY <1>1, RunInvariant, PTL

-----------------------------------------------------------------------------
(***************************************************************************)
(* No accepted turn is lost, run twice or ended twice, and what a client   *)
(* was told of it stays true: proved for any number of turns and stops.    *)
(* What the log shows is a lifecycle, in the order of submission.          *)
(*                                                                         *)
(* The argument has two parts.  AccountInv says that both queues, the one  *)
(* in the log and the one in memory, account for every open turn at every  *)
(* append: an operation runs ahead of the log with the batch it admits or  *)
(* the turn it withdraws, and with nothing else.  RecordInv says what the  *)
(* records of a turn are at each point of its life, and uses AccountInv to *)
(* know that a turn that waits has none.                                   *)
(***************************************************************************)

Open == Submitted \ Terminated
Begun == started \ Terminated
Past == started \cup Terminated
Asked == cancelRequested \ Terminated

(***************************************************************************)
(* Queue q accounts for the turns: it holds the open ones once each, those *)
(* that have begun only as the running item, and it remembers when that    *)
(* item was asked to stop.                                                 *)
(***************************************************************************)
Accounts(q, open, begun, past, asked) ==
  /\ open \subseteq Queued(q)
  /\ IsInjective(q.waiting)
  /\ q.running \notin ToSet(q.waiting)
  /\ ToSet(q.waiting) \cap past = {}
  /\ begun \subseteq {q.running}
  /\ asked # {} => q.cancelling

\* What the log knows of a turn begins with its submission.
Logged == Past \subseteq Submitted /\ Asked \subseteq started

\* The turn that a withdrawal has taken out of the queue in memory.
Withdrawn == IF lock.step = "withdraw" THEN {lock.turn} ELSE {}

QueuesAccount ==
  /\ Accounts(queue, Open, Begun, Past, Asked)
  /\ up # "down" => Accounts(mem, Open \ Withdrawn, Begun, Past, Asked)

\* Only recovery sees a running item that has ended; what is active has begun.
RunningItem ==
  /\ mem.running \in Terminated => up = "recovering" \/ lock.step \in {"expire", "recover"}
  /\ active # None => active \in started

\* What the queue in memory is ahead of the log with.
AheadOfLog ==
  /\ lock.step = "submit" =>
       /\ lock.auto \notin Submitted /\ lock.user \notin Submitted
       /\ {lock.auto, lock.user} \ {None} \subseteq Queued(mem)
       /\ lock.turn \notin started
  /\ lock.step = "withdraw" => lock.turn \in Open \ started /\ lock.turn \notin Queued(mem)
  /\ lock.step = "cancelling" => mem.cancelling

AccountInv == Logged /\ QueuesAccount /\ RunningItem /\ AheadOfLog

-----------------------------------------------------------------------------
(* What the helpers of the actions do to a queue that accounts for turns. *)

LEMMA EnqueueAccounts ==
  ASSUME NEW q \in Queue, NEW t \in Turns, NEW open, NEW begun, NEW past, NEW asked,
         Accounts(q, open, begun, past, asked), t \notin Queued(q), t \notin past,
         begun \subseteq Turns, asked \subseteq begun
  PROVE  /\ Accounts(Enqueue(q, t), open, begun, past, asked)
         /\ Queued(Enqueue(q, t)) = Queued(q) \cup {t}
<1>0. q.waiting \in Seq(Turns) /\ t # None /\ t \notin ToSet(q.waiting)
  BY NoneIsNoTurn DEF Queue, Queued
<1> DEFINE w == Append(q.waiting, t)
<1>1. w \in Seq(Turns) /\ ToSet(w) = ToSet(q.waiting) \cup {t} /\ IsInjective(w)
  BY <1>0, AppendElements, InjectiveAppend DEF Accounts
<1> HIDE DEF w
<1>2. CASE q.running # None \/ Stopping
  <2>1. Enqueue(q, t) = [q EXCEPT !.waiting = w]
    BY <1>2 DEF Enqueue, w
  <2>2. /\ Enqueue(q, t).waiting = w /\ Enqueue(q, t).running = q.running
        /\ Enqueue(q, t).cancelling = q.cancelling
    BY <2>1 DEF Queue
  <2>3. q.running # t
    BY <1>0 DEF Queued
  <2> QED BY <1>1, <2>2, <2>3 DEF Accounts, Queued
<1>3. CASE ~(q.running # None \/ Stopping)
  <2>1. Enqueue(q, t).waiting = q.waiting /\ Enqueue(q, t).running = t
    BY <1>3 DEF Enqueue, Queue
  <2>2. begun = {} /\ asked = {}
    BY <1>3, NoneIsNoTurn DEF Accounts
  <2> QED BY <1>0, <1>3, <2>1, <2>2 DEF Accounts, Queued
<1> QED BY <1>2, <1>3

LEMMA TakeNextAccounts ==
  ASSUME NEW q \in Queue, NEW open, NEW begun, NEW past, NEW asked,
         Accounts(q, open, begun, past, asked), q.running = None,
         begun \subseteq Turns, asked \subseteq begun
  PROVE  /\ Accounts(TakeNext(q), open, begun, past, asked)
         /\ TakeNext(q).running # None => TakeNext(q).running \notin past
<1>1. CASE q.waiting = << >> \/ (Stopping /\ lock.turn # None)
  BY <1>1 DEF TakeNext
<1>2. CASE ~(q.waiting = << >> \/ (Stopping /\ lock.turn # None))
  <2> DEFINE h == Head(q.waiting)
             w == Tail(q.waiting)
  <2>1. /\ h \in Turns /\ w \in Seq(Turns) /\ h \in ToSet(q.waiting)
        /\ ToSet(w) \subseteq ToSet(q.waiting) /\ ToSet(q.waiting) \subseteq {h} \cup ToSet(w)
    BY <1>2, TailElements DEF Queue
  <2>2. IsInjective(w) /\ h \notin ToSet(w)
    BY <1>2, InjectiveTail DEF Queue, Accounts
  <2>3. TakeNext(q) = [q EXCEPT !.running = h, !.waiting = w]
    BY <1>2 DEF TakeNext
  <2> HIDE DEF h, w
  <2>4. TakeNext(q).running = h /\ TakeNext(q).waiting = w
    BY <2>3 DEF Queue
  <2>5. begun = {} /\ asked = {}
    BY NoneIsNoTurn DEF Accounts
  <2>6. Queued(q) \subseteq Queued(TakeNext(q))
    BY <2>1, <2>4, NoneIsNoTurn DEF Queued
  <2> QED BY <2>1, <2>2, <2>4, <2>5, <2>6 DEF Accounts
<1> QED BY <1>1, <1>2

LEMMA RemoveAccounts ==
  ASSUME NEW q \in Queue, NEW k \in DOMAIN q.waiting,
         NEW open, NEW begun, NEW past, NEW asked, Accounts(q, open, begun, past, asked)
  PROVE  LET r == [q EXCEPT !.waiting = RemoveAt(@, k)]
         IN /\ Accounts(r, open \ {q.waiting[k]}, begun, past, asked)
            /\ q.waiting[k] \notin Queued(r) /\ r.running = q.running
            /\ q.waiting[k] \in ToSet(q.waiting)
<1> DEFINE w == RemoveAt(q.waiting, k)
           r == [q EXCEPT !.waiting = w]
<1>1. IsInjective(w) /\ ToSet(w) = ToSet(q.waiting) \ {q.waiting[k]}
  BY InjectiveRemoveAt DEF Queue, Accounts
<1> HIDE DEF w
<1>2. r.waiting = w /\ r.running = q.running /\ r.cancelling = q.cancelling
  BY DEF Queue
<1>3. q.waiting[k] \in ToSet(q.waiting)
  BY DEF ToSet
<1> HIDE DEF r
<1>4. Accounts(r, open \ {q.waiting[k]}, begun, past, asked) /\ q.waiting[k] \notin Queued(r)
  BY <1>1, <1>2, <1>3 DEF Accounts, Queued
<1> QED BY <1>2, <1>3, <1>4 DEF r, w

\* Dropping the oldest k items leaves a queue that accounts for the others.
LEMMA DropAccounts ==
  ASSUME NEW q \in Queue, NEW k \in 0 .. Len(q.waiting),
         NEW open, NEW begun, NEW past, NEW asked, Accounts(q, open, begun, past, asked)
  PROVE  LET dropped == ToSet(SubSeq(q.waiting, 1, k))
             r == [q EXCEPT !.waiting = SubSeq(@, k + 1, Len(@))]
         IN /\ Accounts(r, open \ dropped, begun, past \cup dropped, asked)
            /\ dropped \subseteq ToSet(q.waiting) /\ r.running = q.running
<1> DEFINE dropped == ToSet(SubSeq(q.waiting, 1, k))
           w == SubSeq(q.waiting, k + 1, Len(q.waiting))
           r == [q EXCEPT !.waiting = w]
<1>1. IsInjective(w) /\ ToSet(w) = ToSet(q.waiting) \ dropped
  BY InjectiveSuffix DEF Queue, Accounts
<1>2. dropped \subseteq ToSet(q.waiting)
  BY DEF ToSet, Queue
<1> HIDE DEF w, dropped
<1>3. r.waiting = w /\ r.running = q.running /\ r.cancelling = q.cancelling
  BY DEF Queue
<1> HIDE DEF r
<1>4. Accounts(r, open \ dropped, begun, past \cup dropped, asked)
  BY <1>1, <1>2, <1>3 DEF Accounts, Queued
<1> QED BY <1>2, <1>3, <1>4 DEF r, w, dropped

-----------------------------------------------------------------------------
(* The queues account for the turns. *)

LEMMA SameLog ==
  ASSUME UNCHANGED <<submittedAt, terminal, started, cancelRequested>>
  PROVE  /\ Submitted' = Submitted /\ Terminated' = Terminated
         /\ Open' = Open /\ Begun' = Begun /\ Past' = Past /\ Asked' = Asked
  BY DEF Submitted, Terminated, Open, Begun, Past, Asked

\* The sets of turns that the log tells apart.
LEMMA LogFacts ==
  ASSUME TypeOK, Logged
  PROVE  /\ Open \subseteq Turns /\ Begun \subseteq Turns /\ Past \subseteq Turns
         /\ Asked \subseteq Begun /\ Begun \subseteq Open /\ None \notin Submitted
  BY NoneIsNoTurn DEF Logged, Open, Begun, Past, Asked, Submitted, Terminated, TypeOK

\* Neither the log nor the queue, the active turn or the lock is touched.
LEMMA SameAccount ==
  ASSUME AccountInv, UNCHANGED <<submittedAt, terminal, started, cancelRequested>>,
         UNCHANGED <<queue, mem, up, active, lock>>
  PROVE  AccountInv'
<1>1. /\ Submitted' = Submitted /\ Terminated' = Terminated
      /\ Open' = Open /\ Begun' = Begun /\ Past' = Past /\ Asked' = Asked
  BY SameLog
<1>2. Withdrawn' = Withdrawn
  BY DEF Withdrawn
<1> QED BY <1>1, <1>2 DEF AccountInv, Logged, QueuesAccount, RunningItem, AheadOfLog

(***************************************************************************)
(* An operation goes on to its next append: the log stays as it is, or its *)
(* queue becomes the one in memory.                                        *)
(***************************************************************************)
LEMMA NextAppend ==
  ASSUME AccountInv, UNCHANGED <<submittedAt, terminal, started, cancelRequested>>,
         UNCHANGED <<mem, active>>, queue' \in {queue, mem}, up # "down",
         lock.step # "withdraw", lock'.step \notin {"submit", "withdraw", "cancelling"},
         mem.running \in Terminated => lock'.step \in {"expire", "recover"}
  PROVE  AccountInv'
<1>1. /\ Submitted' = Submitted /\ Terminated' = Terminated
      /\ Open' = Open /\ Begun' = Begun /\ Past' = Past /\ Asked' = Asked
  BY SameLog
<1>2. Withdrawn' = {} /\ Withdrawn = {} /\ Open \ {} = Open
  BY DEF Withdrawn
<1>3. Accounts(mem, Open, Begun, Past, Asked)
  BY <1>2 DEF AccountInv, QueuesAccount
<1>4. QueuesAccount'
  BY <1>1, <1>2, <1>3 DEF AccountInv, QueuesAccount
<1>5. Logged' /\ RunningItem' /\ AheadOfLog'
  BY <1>1 DEF AccountInv, Logged, RunningItem, AheadOfLog
<1> QED BY <1>4, <1>5 DEF AccountInv

LEMMA AccountInit == Init => AccountInv
<1> SUFFICES ASSUME Init PROVE AccountInv
  OBVIOUS
<1> USE NoneIsNoTurn
<1>1. /\ Submitted = {} /\ Terminated = {} /\ Open = {} /\ Begun = {} /\ Past = {} /\ Asked = {}
      /\ lock.step = "free"
  BY DEF Init, Submitted, Terminated, Open, Begun, Past, Asked, Free
<1>2. IsInjective(<< >>) /\ ToSet(<< >>) = {}
  BY DEF IsInjective, ToSet
<1>3. queue.waiting = << >> /\ mem.waiting = << >>
  BY DEF Init, EmptyQueue
<1>4. QueuesAccount
  BY <1>1, <1>2, <1>3 DEF QueuesAccount, Accounts
<1> QED BY <1>1, <1>4 DEF Init, AccountInv, Logged, RunningItem, AheadOfLog

(***************************************************************************)
(* The running item ends and leaves the queue in memory, the log having    *)
(* appended its terminal record.                                           *)
(***************************************************************************)
LEMMA RunningItemLeaves ==
  ASSUME TypeOK, AccountInv, NEW t \in Submitted, mem.running = t, up = "serving",
         lock.step # "withdraw", t \notin ToSet(queue.waiting), Terminated' = Terminated \cup {t},
         mem' = [mem EXCEPT !.running = None, !.cancelling = FALSE],
         active' = None, lock'.step \notin {"submit", "withdraw", "cancelling"},
         UNCHANGED <<submittedAt, started, cancelRequested, queue, up>>
  PROVE  AccountInv'
<1> USE NoneIsNoTurn
<1>1. /\ Submitted' = Submitted /\ Open' = Open \ {t} /\ Begun' = Begun \ {t}
      /\ Past' = Past \cup {t} /\ Asked' = Asked \ {t} /\ Asked \subseteq Begun
  BY LogFacts DEF AccountInv, Submitted, Open, Begun, Past, Asked
<1>2. Accounts(mem, Open, Begun, Past, Asked)
  <2>1. Open \ Withdrawn = Open
    BY DEF Withdrawn
  <2> QED BY <2>1 DEF AccountInv, QueuesAccount
<1>3. mem'.running = None /\ mem'.waiting = mem.waiting
  BY DEF TypeOK, Queue
<1>4. Begun' = {} /\ Asked' = {}
  BY <1>1, <1>2 DEF Accounts
<1>5. Accounts(mem', Open', Begun', Past', Asked')
  <2>1. None \notin ToSet(mem.waiting)
    BY DEF TypeOK, Queue, ToSet
  <2> QED BY <1>1, <1>2, <1>3, <1>4, <2>1 DEF Accounts, Queued
<1>6. Accounts(queue', Open', Begun', Past', Asked')
  BY <1>1, <1>4 DEF AccountInv, QueuesAccount, Accounts
<1>7. QueuesAccount'
  <2>1. Withdrawn' = {} /\ Open' \ {} = Open'
    BY DEF Withdrawn
  <2> QED BY <1>5, <1>6, <2>1 DEF QueuesAccount
<1>8. Logged'
  BY <1>1, <1>4 DEF AccountInv, Logged
<1>9. RunningItem' /\ AheadOfLog'
  <2>1. None \notin Terminated'
    BY DEF Terminated
  <2> QED BY <1>3, <2>1 DEF RunningItem, AheadOfLog
<1> QED BY <1>7, <1>8, <1>9 DEF AccountInv

\* The k oldest items expire, in memory and in the log at once.
LEMMA OldestLeave ==
  ASSUME TypeOK, AccountInv, NEW k \in 0 .. Len(mem.waiting), DrainExpired(k),
         up = "serving", lock.step # "withdraw", active' = None,
         lock'.step \in {"recover", "free"}, lock'.step = "free" => mem.running = None,
         UNCHANGED <<submittedAt, started, cancelRequested, up>>, Queued(mem) \subseteq Submitted
  PROVE  AccountInv'
<1> USE NoneIsNoTurn
<1> DEFINE dropped == ToSet(SubSeq(mem.waiting, 1, k))
<1>1. Accounts(mem, Open, Begun, Past, Asked) /\ mem \in Queue
  <2>1. Open \ Withdrawn = Open
    BY DEF Withdrawn
  <2> QED BY <2>1 DEF AccountInv, QueuesAccount, TypeOK
<1>2. /\ mem' = [mem EXCEPT !.waiting = SubSeq(@, k + 1, Len(@))] /\ queue' = mem'
      /\ terminal' = [t \in Turns |-> IF t \in dropped THEN Append(terminal[t], "expired")
                                      ELSE terminal[t]]
  BY DEF DrainExpired, Dismiss
<1>3. /\ Accounts(mem', Open \ dropped, Begun, Past \cup dropped, Asked)
      /\ dropped \subseteq ToSet(mem.waiting) /\ mem'.running = mem.running
  BY <1>1, <1>2, DropAccounts
<1>4. dropped \subseteq Turns
  BY <1>1, <1>3 DEF Queue, ToSet
<1> HIDE DEF dropped
<1>5. Terminated' = Terminated \cup dropped
  <2>1. \A t \in Turns : terminal[t] \in Seq(Reasons)
    BY DEF TypeOK
  <2>2. \A t \in Turns : Append(terminal[t], "expired") # << >>
    <3>1. "expired" \in Reasons
      BY DEF Reasons
    <3> QED BY <2>1, <3>1
  <2>3. \A t \in Turns : terminal'[t] # << >> <=> (terminal[t] # << >> \/ t \in dropped)
    BY <1>2, <2>2
  <2> QED BY <1>4, <2>3 DEF Terminated
<1>6. /\ Submitted' = Submitted /\ Open' = Open \ dropped /\ Begun' = Begun \ dropped
      /\ Past' = Past \cup dropped /\ Asked' = Asked \ dropped
  BY <1>5 DEF Submitted, Open, Begun, Past, Asked
<1>7. Accounts(mem', Open', Begun', Past', Asked')
  BY <1>3, <1>6 DEF Accounts
<1>8. QueuesAccount'
  <2>1. Withdrawn' = {} /\ Open' \ {} = Open'
    BY DEF Withdrawn
  <2> QED BY <1>2, <1>7, <2>1 DEF QueuesAccount
<1>9. Logged'
  BY <1>3, <1>6 DEF AccountInv, Logged, Queued
<1>10. RunningItem' /\ AheadOfLog'
  BY <1>3 DEF RunningItem, AheadOfLog, Terminated
<1> QED BY <1>8, <1>9, <1>10 DEF AccountInv

LEMMA AccountNext == TypeInv /\ RunInv /\ AccountInv /\ [Next]_vars => AccountInv'
<1> SUFFICES ASSUME TypeInv, RunInv, AccountInv, [Next]_vars PROVE AccountInv'
  OBVIOUS
<1> USE NoneIsNoTurn DEF durableVars, processVars, turnVars
<1>0. /\ TypeOK /\ (up # "serving" => lock.step = "free")
      /\ mem \in Queue /\ queue \in Queue /\ mem.running \in Turns \cup {None}
      /\ lock.turn \in Turns \cup {None}
  BY DEF TypeInv, Addressed, TypeOK, Queue, Operation
<1>a. /\ Open \subseteq Turns /\ Begun \subseteq Turns /\ Past \subseteq Turns
      /\ Asked \subseteq Begun /\ Begun \subseteq Open /\ None \notin Submitted
  BY <1>0, LogFacts DEF AccountInv
<1>b. /\ Past \subseteq Submitted /\ Queued(mem) \subseteq Submitted \cup ({lock.auto, lock.user} \ {None})
      /\ lock.step # "submit" => lock.auto = None /\ lock.user = None
  BY DEF AccountInv, Logged, TypeInv, Remembered
<1>c. lock.step # "withdraw" /\ up # "down" => Accounts(mem, Open, Begun, Past, Asked)
  <2>1. lock.step # "withdraw" => Open \ Withdrawn = Open
    BY DEF Withdrawn
  <2> QED BY <2>1 DEF AccountInv, QueuesAccount
<1>1. ASSUME NEW p \in Prompts, Admit(p) PROVE AccountInv'
  <2>1. PICK a \in MaybeCompaction(mem) :
          LET behind == IF a = None THEN mem ELSE Enqueue(mem, a)
              next == Enqueue(behind, p)
          IN /\ mem' = next
             /\ attempted' = (attempted \/ a # None)
             /\ lock' = [Hold("submit", IF mem.running = None THEN next.running ELSE None)
                           EXCEPT !.auto = a, !.user = p]
    BY <1>1 DEF Admit
  <2>2. /\ a \in Autos \cup {None} /\ (a # None => a \in Turns /\ a \notin Submitted)
        /\ p \in Turns /\ p \notin Submitted /\ p # a
    <3>1. a \in Autos \cup {None} /\ (a # None => a \in Turns /\ submittedAt[a] = 0)
      BY <1>0, MaybeCompactionFacts
    <3>2. p \in Turns /\ submittedAt[p] = 0 /\ p \notin Autos
      BY <1>1, SessionQueueAssumption DEF Admit, Turns, Compactions
    <3> QED BY <3>1, <3>2 DEF Submitted
  <2>3. /\ up = "serving" /\ lock.step = "free" /\ Accounts(mem, Open, Begun, Past, Asked)
        /\ Queued(mem) \subseteq Submitted
    BY <1>1, <1>b, <1>c DEF Admit, Unlocked
  <2> DEFINE behind == IF a = None THEN mem ELSE Enqueue(mem, a)
  <2>4. /\ behind \in Queue /\ Accounts(behind, Open, Begun, Past, Asked)
        /\ Queued(behind) = Queued(mem) \cup ({a} \ {None})
    <3>1. CASE a = None
      BY <1>0, <2>3, <3>1
    <3>2. CASE a # None
      <4>1. a \in Turns /\ a \notin Queued(mem) /\ a \notin Past
        BY <1>b, <2>2, <2>3, <3>2
      <4>2. Enqueue(mem, a) \in Queue
        BY <1>0, <4>1, EnqueueFacts
      <4>3. /\ Accounts(Enqueue(mem, a), Open, Begun, Past, Asked)
            /\ Queued(Enqueue(mem, a)) = Queued(mem) \cup {a}
        BY <1>0, <1>a, <2>3, <4>1, EnqueueAccounts
      <4> QED BY <3>2, <4>1, <4>2, <4>3
    <3> QED BY <3>1, <3>2
  <2> HIDE DEF behind
  <2>5. /\ Accounts(mem', Open, Begun, Past, Asked)
        /\ Queued(mem') = Queued(mem) \cup ({a, p} \ {None})
    <3>1. p \notin Queued(behind) /\ p \notin Past
      BY <1>b, <2>2, <2>3, <2>4
    <3>2. mem' = Enqueue(behind, p)
      BY <2>1 DEF behind
    <3> QED BY <1>a, <2>2, <2>4, <3>1, <3>2, EnqueueAccounts
  <2>6. /\ lock'.step = "submit" /\ lock'.auto = a /\ lock'.user = p
        /\ lock'.turn = IF mem.running = None THEN mem'.running ELSE None
    <3> DEFINE l == Hold("submit", IF mem.running = None THEN mem'.running ELSE None)
    <3>1. l \in [step: {"submit"}, turn: {l.turn}, reason: {None}, auto: {None}, user: {None}]
      BY DEF Hold, Free
    <3>2. l.step = "submit" /\ l.turn = IF mem.running = None THEN mem'.running ELSE None
      BY HoldKeeps
    <3>3. lock' = [l EXCEPT !.auto = a, !.user = p]
      BY <2>1
    <3> HIDE DEF l
    <3> QED BY <3>1, <3>2, <3>3
  <2>7. /\ mem'.running \notin Terminated
        /\ mem.running = None => mem'.running \notin started
    <3>1. mem.running # None => mem'.running = mem.running
      BY <1>0, <2>1 DEF Enqueue, Queue
    <3>2. mem.running = None => mem'.running \in {None, a, p}
      <4>1. behind.running \in {mem.running, a}
        BY <1>0, <2>2, EnqueueFacts DEF behind
      <4>2. mem'.running \in {behind.running, p}
        BY <2>1, <2>2, <2>4, EnqueueFacts DEF behind
      <4> QED BY <4>1, <4>2
    <3>3. mem.running \notin Terminated
      BY <2>3 DEF AccountInv, RunningItem
    <3> QED BY <1>a, <1>b, <2>2, <3>1, <3>2, <3>3 DEF Past
  <2>8. UNCHANGED <<submittedAt, terminal, started, cancelRequested, queue, up, active>>
    BY <1>1 DEF Admit
  <2>9. /\ Submitted' = Submitted /\ Terminated' = Terminated
        /\ Open' = Open /\ Begun' = Begun /\ Past' = Past /\ Asked' = Asked
    BY <2>8, SameLog
  <2>10. QueuesAccount'
    <3>1. Withdrawn' = {} /\ Open \ {} = Open
      BY <2>6 DEF Withdrawn
    <3> QED BY <2>5, <2>8, <2>9, <3>1 DEF AccountInv, QueuesAccount
  <2>11. AheadOfLog'
    <3>1. lock'.turn \notin started
      BY <1>a, <1>b, <2>6, <2>7 DEF Past
    <3> QED BY <1>a, <2>2, <2>5, <2>6, <2>8, <2>9, <3>1 DEF AheadOfLog
  <2>12. Logged' /\ RunningItem'
    BY <2>7, <2>8, <2>9 DEF AccountInv, Logged, RunningItem
  <2> QED BY <2>10, <2>11, <2>12 DEF AccountInv
<1>2. ASSUME NEW m \in Manuals, Compact(m) PROVE AccountInv'
  <2>1. m \in Turns /\ m \notin Submitted
    BY <1>2 DEF Compact, Turns, Compactions, Submitted
  <2>2. /\ up = "serving" /\ lock.step = "free" /\ Accounts(mem, Open, Begun, Past, Asked)
        /\ Queued(mem) \subseteq Submitted
    BY <1>2, <1>b, <1>c DEF Compact, Unlocked
  <2>3. mem' = Enqueue(mem, m)
    BY <1>2 DEF Compact
  <2>4. /\ Accounts(mem', Open, Begun, Past, Asked) /\ Queued(mem') = Queued(mem) \cup {m}
    BY <1>0, <1>a, <1>b, <2>1, <2>2, <2>3, EnqueueAccounts
  <2>5. /\ lock'.step = "submit" /\ lock'.auto = None /\ lock'.user = m
        /\ lock'.turn = IF mem.running = None THEN mem'.running ELSE None
    <3> DEFINE l == Hold("submit", IF mem.running = None THEN mem'.running ELSE None)
    <3>1. l \in [step: {"submit"}, turn: {l.turn}, reason: {None}, auto: {None}, user: {None}]
      BY DEF Hold, Free
    <3>2. l.step = "submit" /\ l.turn = IF mem.running = None THEN mem'.running ELSE None
      BY HoldKeeps
    <3>3. lock' = [l EXCEPT !.user = m]
      BY <1>2 DEF Compact
    <3> HIDE DEF l
    <3> QED BY <3>1, <3>2, <3>3
  <2>6. /\ mem'.running \notin Terminated
        /\ mem.running = None => mem'.running \notin started
    <3>1. mem.running # None => mem'.running = mem.running
      BY <1>0, <2>3 DEF Enqueue, Queue
    <3>2. mem.running = None => mem'.running \in {None, m}
      BY <1>0, <2>1, <2>3, EnqueueFacts
    <3>3. mem.running \notin Terminated
      BY <2>2 DEF AccountInv, RunningItem
    <3> QED BY <1>a, <1>b, <2>1, <3>1, <3>2, <3>3 DEF Past
  <2>7. UNCHANGED <<submittedAt, terminal, started, cancelRequested, queue, up, active>>
    BY <1>2 DEF Compact
  <2>8. /\ Submitted' = Submitted /\ Terminated' = Terminated
        /\ Open' = Open /\ Begun' = Begun /\ Past' = Past /\ Asked' = Asked
    BY <2>7, SameLog
  <2>9. QueuesAccount'
    <3>1. Withdrawn' = {} /\ Open \ {} = Open
      BY <2>5 DEF Withdrawn
    <3> QED BY <2>4, <2>7, <2>8, <3>1 DEF AccountInv, QueuesAccount
  <2>10. AheadOfLog'
    <3>1. lock'.turn \notin started
      BY <1>a, <1>b, <2>5, <2>6 DEF Past
    <3> QED BY <1>a, <2>1, <2>4, <2>5, <2>7, <2>8, <3>1 DEF AheadOfLog
  <2>11. Logged' /\ RunningItem'
    BY <2>6, <2>7, <2>8 DEF AccountInv, Logged, RunningItem
  <2> QED BY <2>9, <2>10, <2>11 DEF AccountInv
<1>3. ASSUME NEW t \in Turns, CancelRunning(t) PROVE AccountInv'
  <2>1. up = "serving" /\ lock.step = "free" /\ Accounts(mem, Open, Begun, Past, Asked)
    BY <1>3, <1>c DEF CancelRunning, Unlocked
  <2>2. /\ mem'.running = mem.running /\ mem'.waiting = mem.waiting /\ mem'.cancelling
        /\ lock'.step = "cancelling" /\ up' = up
    <3>1. mem' = [mem EXCEPT !.cancelling = TRUE] /\ up' = up
      BY <1>3 DEF CancelRunning
    <3>2. lock'.step = "cancelling"
      BY <1>3, HoldKeeps DEF CancelRunning
    <3> QED BY <1>0, <3>1, <3>2 DEF Queue
  <2>3. Accounts(mem', Open, Begun, Past, Asked)
    BY <2>1, <2>2 DEF Accounts, Queued
  <2>4. UNCHANGED <<submittedAt, terminal, started, cancelRequested, queue, active>>
    BY <1>3 DEF CancelRunning
  <2>5. /\ Submitted' = Submitted /\ Terminated' = Terminated
        /\ Open' = Open /\ Begun' = Begun /\ Past' = Past /\ Asked' = Asked
    BY <2>4, SameLog
  <2>6. QueuesAccount'
    <3>1. Withdrawn' = {} /\ Open \ {} = Open
      BY <2>2 DEF Withdrawn
    <3> QED BY <2>3, <2>4, <2>5, <3>1 DEF AccountInv, QueuesAccount
  <2>7. Logged' /\ RunningItem' /\ AheadOfLog'
    BY <2>1, <2>2, <2>4, <2>5 DEF AccountInv, Logged, RunningItem, AheadOfLog
  <2> QED BY <2>6, <2>7 DEF AccountInv
<1>4. ASSUME NEW t \in Turns, CancelWaiting(t) PROVE AccountInv'
  <2>1. PICK k \in DOMAIN mem.waiting : mem.waiting[k] = t /\ mem' = [mem EXCEPT !.waiting = RemoveAt(@, k)]
    BY <1>4 DEF CancelWaiting
  <2>2. /\ up = "serving" /\ lock.step = "free" /\ Accounts(mem, Open, Begun, Past, Asked)
        /\ Queued(mem) \subseteq Submitted
    BY <1>4, <1>b, <1>c DEF CancelWaiting, Unlocked
  <2>3. /\ Accounts(mem', Open \ {t}, Begun, Past, Asked) /\ t \notin Queued(mem')
        /\ mem'.running = mem.running /\ t \in ToSet(mem.waiting)
    BY <1>0, <2>1, <2>2, RemoveAccounts
  <2>4. t \in Open \ started
    BY <2>2, <2>3 DEF Accounts, Queued, Open, Past
  <2>5. lock'.step = "withdraw" /\ lock'.turn = t
    BY <1>4, HoldKeeps DEF CancelWaiting
  <2>6. UNCHANGED <<submittedAt, terminal, started, cancelRequested, queue, up, active>>
    BY <1>4 DEF CancelWaiting
  <2>7. /\ Submitted' = Submitted /\ Terminated' = Terminated
        /\ Open' = Open /\ Begun' = Begun /\ Past' = Past /\ Asked' = Asked
    BY <2>6, SameLog
  <2>8. QueuesAccount'
    <3>1. Withdrawn' = {t}
      BY <2>5 DEF Withdrawn
    <3> QED BY <2>3, <2>6, <2>7, <3>1 DEF AccountInv, QueuesAccount
  <2>9. AheadOfLog'
    BY <2>3, <2>4, <2>5, <2>6, <2>7 DEF AheadOfLog
  <2>10. Logged' /\ RunningItem'
    BY <2>2, <2>3, <2>6, <2>7 DEF AccountInv, Logged, RunningItem
  <2> QED BY <2>8, <2>9, <2>10 DEF AccountInv
<1>5. CASE AppendSubmission
  <2>1. up = "serving" /\ lock.step = "submit" /\ Accounts(mem, Open, Begun, Past, Asked)
    BY <1>0, <1>5, <1>c DEF AppendSubmission
  <2>2. /\ Stamp(lock.auto, lock.user) /\ Start(lock.turn) /\ lock'.step = "free"
        /\ UNCHANGED <<terminal, cancelRequested, mem, up>> /\ queue' = mem
    BY <1>5, HoldKeeps DEF AppendSubmission
  <2> DEFINE batch == {lock.auto, lock.user} \ {None}
             begins == {lock.turn} \ {None}
  <2>3. Submitted' = Submitted \cup batch
    <3>1. clock \in Nat /\ clock + 1 > 0 /\ clock + 2 > 0
      BY <1>0 DEF TypeOK
    <3>4. batch \subseteq Turns
      <4>1. lock.auto \in Autos \cup {None} /\ lock.user \in Prompts \cup Manuals \cup {None}
        BY <1>0 DEF TypeOK, Operation
      <4> QED BY <4>1 DEF Turns, Compactions
    <3>2. \A t \in Turns : submittedAt'[t] = IF t = lock.auto THEN clock + 1
                                              ELSE IF t = lock.user THEN clock + 2
                                              ELSE submittedAt[t]
      BY <2>2 DEF Stamp
    <3>3. \A t \in Turns : submittedAt'[t] > 0 <=> (submittedAt[t] > 0 \/ t \in batch)
      BY <3>1, <3>2
    <3> QED BY <3>4, <3>3 DEF Submitted
  <2>4. started' = started \cup begins /\ Terminated' = Terminated
    BY <2>2 DEF Start, Terminated
  <2>5. /\ begins \subseteq {mem.running} /\ begins \subseteq Queued(mem)
        /\ begins \cap Terminated = {} /\ batch \subseteq Queued(mem)
        /\ mem.running \notin Terminated
    BY <2>1 DEF RunInv, QueueMatchesSlot, Queued, AccountInv, RunningItem, AheadOfLog
  <2> HIDE DEF batch, begins
  <2>6. /\ Open' = (Open \cup batch) \ Terminated /\ Begun' = Begun \cup begins
        /\ Past' = Past \cup begins /\ Asked' = Asked
    BY <2>2, <2>3, <2>4, <2>5 DEF Open, Begun, Past, Asked
  <2>7. QueuesAccount'
    <3>1. Accounts(mem, Open', Begun', Past', Asked')
      BY <2>1, <2>5, <2>6 DEF Accounts
    <3>2. Withdrawn' = {} /\ Open' \ {} = Open'
      BY <2>2 DEF Withdrawn
    <3> QED BY <2>2, <3>1, <3>2 DEF QueuesAccount
  <2>8. Logged'
    <3>1. begins \subseteq Submitted'
      BY <1>b, <2>3, <2>5 DEF batch
    <3> QED BY <2>3, <2>4, <2>6, <3>1 DEF AccountInv, Logged
  <2>9. RunningItem' /\ AheadOfLog'
    <3>1. active' # None => active' \in started'
      BY <2>2, <2>4 DEF Start, AccountInv, RunningItem
    <3> QED BY <2>2, <2>4, <2>5, <3>1 DEF RunningItem, AheadOfLog
  <2> QED BY <2>7, <2>8, <2>9 DEF AccountInv
<1>6. CASE AppendCancelling
  <2>1. up = "serving" /\ lock.step = "cancelling" /\ Accounts(mem, Open, Begun, Past, Asked)
    BY <1>0, <1>6, <1>c DEF AppendCancelling
  <2>2. lock.turn \in started /\ mem.cancelling /\ mem.running \notin Terminated
    <3>1. lock.turn = active /\ lock.turn # None
      BY <2>1 DEF RunInv, QueueMatchesSlot, TypeInv, Addressed
    <3> QED BY <2>1, <3>1 DEF AccountInv, RunningItem, AheadOfLog
  <2>3. /\ UNCHANGED <<submittedAt, terminal, started, mem, up, active>> /\ queue' = mem
        /\ lock'.step = "free" /\ cancelRequested' = cancelRequested \cup {lock.turn}
    BY <1>6, HoldKeeps DEF AppendCancelling
  <2>4. /\ Submitted' = Submitted /\ Terminated' = Terminated
        /\ Open' = Open /\ Begun' = Begun /\ Past' = Past /\ Asked' \subseteq Asked \cup {lock.turn}
    BY <2>3 DEF Submitted, Terminated, Open, Begun, Past, Asked
  <2>5. QueuesAccount'
    <3>1. Accounts(mem, Open', Begun', Past', Asked')
      BY <2>1, <2>2, <2>4 DEF Accounts
    <3>2. Withdrawn' = {} /\ Open' \ {} = Open'
      BY <2>3 DEF Withdrawn
    <3> QED BY <2>3, <3>1, <3>2 DEF QueuesAccount
  <2>6. Logged' /\ RunningItem' /\ AheadOfLog'
    BY <2>2, <2>3, <2>4 DEF AccountInv, Logged, RunningItem, AheadOfLog
  <2> QED BY <2>5, <2>6 DEF AccountInv
<1>7. CASE AppendWithdrawal
  <2>1. /\ up = "serving" /\ lock.step = "withdraw" /\ lock.turn \in Open \ started
        /\ lock.turn \notin Queued(mem) /\ mem.running \notin Terminated
    BY <1>0, <1>7 DEF AppendWithdrawal, AccountInv, AheadOfLog, RunningItem
  <2>2. Accounts(mem, Open \ {lock.turn}, Begun, Past, Asked)
    BY <2>1 DEF AccountInv, QueuesAccount, Withdrawn
  <2>3. /\ UNCHANGED <<submittedAt, started, mem, up, active>> /\ queue' = mem
        /\ lock'.step = "free" /\ cancelRequested' = cancelRequested \cup {lock.turn}
        /\ terminal' = [t \in Turns |-> IF t \in {lock.turn} THEN Append(terminal[t], "cancelled")
                                         ELSE terminal[t]]
    BY <1>7, HoldKeeps DEF AppendWithdrawal, Dismiss
  <2>4. Terminated' = Terminated \cup {lock.turn}
    <3>1. terminal[lock.turn] \in Seq(Reasons) /\ lock.turn \in Turns
      BY <1>0, <1>a, <2>1 DEF TypeOK
    <3>2. Append(terminal[lock.turn], "cancelled") # << >>
      BY <3>1
    <3> QED BY <2>3, <3>1, <3>2 DEF Terminated
  <2>5. /\ Submitted' = Submitted /\ Open' = Open \ {lock.turn} /\ Begun' = Begun
        /\ Past' = Past \cup {lock.turn} /\ Asked' \subseteq Asked
    BY <2>1, <2>3, <2>4 DEF Submitted, Open, Begun, Past, Asked
  <2>6. QueuesAccount'
    <3>1. Accounts(mem, Open', Begun', Past', Asked')
      BY <2>1, <2>2, <2>5 DEF Accounts, Queued
    <3>2. Withdrawn' = {} /\ Open' \ {} = Open'
      BY <2>3 DEF Withdrawn
    <3> QED BY <2>3, <3>1, <3>2 DEF QueuesAccount
  <2>7. Logged'
    BY <2>1, <2>3, <2>5 DEF AccountInv, Logged, Open
  <2>8. RunningItem' /\ AheadOfLog'
    <3>1. mem.running # lock.turn
      BY <1>a, <2>1 DEF Queued
    <3> QED BY <2>1, <2>3, <2>4, <3>1 DEF AccountInv, RunningItem, AheadOfLog
  <2> QED BY <2>6, <2>7, <2>8 DEF AccountInv
<1>8. CASE SettleTurn
  <2>1. lock.step = "settle" /\ lock'.step = "terminal" /\ up = "serving"
    BY <1>0, <1>8 DEF SettleTurn, TypeOK, Operation
  <2>2. mem.running \notin Terminated
    BY <2>1 DEF AccountInv, RunningItem
  <2>3. UNCHANGED <<submittedAt, terminal, started, cancelRequested, mem, active, queue>>
    BY <1>8 DEF SettleTurn
  <2> QED BY <2>1, <2>2, <2>3, NextAppend
<1>9. CASE FinishTurn
  <2> DEFINE t == lock.turn
  <2>1. /\ up = "serving" /\ lock.step = "terminal" /\ t = active /\ t = mem.running /\ t \in Turns
        /\ t \in started
    BY <1>0, <1>9 DEF FinishTurn, RunInv, QueueMatchesSlot, TypeInv, Addressed, AccountInv, RunningItem
  <2>2. t \in Submitted /\ t \notin ToSet(queue.waiting)
    BY <2>1 DEF AccountInv, Logged, Past, QueuesAccount, Accounts
  <2>3. Terminated' = Terminated \cup {t}
    <3>1. terminal' = [terminal EXCEPT ![t] = Append(@, lock.reason)]
      BY <1>9 DEF FinishTurn
    <3>2. terminal[t] \in Seq(Reasons) /\ lock.reason \in Reasons
      BY <1>0, <2>1 DEF TypeInv, Addressed, TypeOK, Operation
    <3>3. Append(terminal[t], lock.reason) # << >>
      BY <3>2
    <3> QED BY <1>0, <2>1, <3>1, <3>3 DEF Terminated, TypeOK
  <2>4. lock'.step = "choose"
    BY <1>9, HoldKeeps DEF FinishTurn
  <2>5. /\ mem' = [mem EXCEPT !.running = None, !.cancelling = FALSE] /\ active' = None
        /\ UNCHANGED <<submittedAt, started, cancelRequested, queue, up>>
    BY <1>9 DEF FinishTurn
  <2> QED BY <1>0, <2>1, <2>2, <2>3, <2>4, <2>5, RunningItemLeaves
<1>10. CASE Prune
  <2>1. /\ lock.step = "choose" /\ lock' = lock /\ up = "serving" /\ mem.running \notin Terminated
    BY <1>0, <1>10 DEF Prune, AccountInv, RunningItem
  <2>2. UNCHANGED <<submittedAt, terminal, started, cancelRequested, mem, active>> /\ queue' = mem
    BY <1>10 DEF Prune
  <2> QED BY <2>1, <2>2, NextAppend
<1>11. CASE ChooseNext
  <2>1. PICK a \in MaybeCompaction(mem) :
          /\ mem' = IF a # None THEN Enqueue(mem, a) ELSE TakeNext(mem)
          /\ lock' = [Hold("submit", mem'.running) EXCEPT !.auto = a]
    BY <1>11 DEF ChooseNext
  <2>2. a \in Autos \cup {None} /\ (a # None => a \in Turns /\ a \notin Submitted)
    BY <1>0, MaybeCompactionFacts DEF Submitted
  <2>3. /\ up = "serving" /\ lock.step = "choose" /\ Accounts(mem, Open, Begun, Past, Asked)
        /\ Queued(mem) \subseteq Submitted /\ mem.running = None
    BY <1>0, <1>11, <1>b, <1>c DEF ChooseNext, RunInv, QueueMatchesSlot
  <2>4. /\ Accounts(mem', Open, Begun, Past, Asked) /\ {a} \ {None} \subseteq Queued(mem')
        /\ mem'.running \notin Past
    <3>1. CASE a = None
      <4>1. mem' = TakeNext(mem)
        BY <2>1, <3>1
      <4> QED BY <1>0, <1>a, <2>3, <3>1, <4>1, TakeNextAccounts
    <3>2. CASE a # None
      <4>1. a \in Turns /\ a \notin Queued(mem) /\ a \notin Past /\ mem' = Enqueue(mem, a)
        BY <1>b, <2>1, <2>2, <2>3, <3>2
      <4>2. Enqueue(mem, a).running \in {mem.running, a}
        BY <1>0, <4>1, EnqueueFacts
      <4> QED BY <1>0, <1>a, <2>3, <4>1, <4>2, EnqueueAccounts
    <3> QED BY <3>1, <3>2
  <2>5. /\ lock'.step = "submit" /\ lock'.auto = a /\ lock'.user = None /\ lock'.turn = mem'.running
    <3> DEFINE l == Hold("submit", mem'.running)
    <3>1. l \in [step: {"submit"}, turn: {l.turn}, reason: {None}, auto: {None}, user: {None}]
      BY DEF Hold, Free
    <3>2. l.step = "submit" /\ l.turn = mem'.running
      BY HoldKeeps
    <3>3. lock' = [l EXCEPT !.auto = a]
      BY <2>1
    <3> HIDE DEF l
    <3> QED BY <3>1, <3>2, <3>3
  <2>6. UNCHANGED <<submittedAt, terminal, started, cancelRequested, queue, up, active>>
    BY <1>11 DEF ChooseNext
  <2>7. /\ Submitted' = Submitted /\ Terminated' = Terminated
        /\ Open' = Open /\ Begun' = Begun /\ Past' = Past /\ Asked' = Asked
    BY <2>6, SameLog
  <2>8. QueuesAccount'
    <3>1. Withdrawn' = {} /\ Open \ {} = Open
      BY <2>5 DEF Withdrawn
    <3> QED BY <2>4, <2>6, <2>7, <3>1 DEF AccountInv, QueuesAccount
  <2>9. AheadOfLog'
    BY <1>a, <2>2, <2>4, <2>5, <2>6, <2>7 DEF AheadOfLog, Past
  <2>10. Logged' /\ RunningItem'
    BY <2>4, <2>6, <2>7 DEF AccountInv, Logged, RunningItem, Past
  <2> QED BY <2>8, <2>9, <2>10 DEF AccountInv
<1>12. ASSUME NEW p \in Prompts, Deliver(p) PROVE AccountInv'
  BY <1>12, SameAccount DEF Deliver
<1>13. ASSUME NEW t \in Turns, ReportUsage(t) PROVE AccountInv'
  BY <1>13, SameAccount DEF ReportUsage
<1>14. ASSUME NEW t \in Turns, HarnessEnds(t) PROVE AccountInv'
  BY <1>14, SameAccount DEF HarnessEnds
<1>15. ASSUME NEW t \in Turns, CompleteTurn(t) PROVE AccountInv'
  <2>1. /\ lock.step = "free" /\ lock'.step = "settle" /\ up = "serving"
        /\ UNCHANGED <<submittedAt, terminal, started, cancelRequested, mem, active, queue>>
    BY <1>15, HoldKeeps DEF CompleteTurn, Unlocked
  <2>2. mem.running \notin Terminated
    BY <2>1 DEF AccountInv, RunningItem
  <2> QED BY <2>1, <2>2, NextAppend
<1>16. ASSUME NEW t \in Turns, Settle(t) PROVE AccountInv'
  BY <1>16, SameAccount DEF Settle
<1>17. CASE AbortSession \/ AskShutdown \/ ShutdownAborts \/ UNCHANGED vars
  BY <1>17, SameAccount DEF AbortSession, AskShutdown, ShutdownAborts, vars
<1>18. CASE Crash \/ Exit
  <2>1. /\ up' = "down" /\ mem'.running = None /\ active' = None /\ lock'.step = "free"
        /\ UNCHANGED <<submittedAt, terminal, started, cancelRequested, queue>>
    BY <1>18 DEF Crash, Exit, Lose, EmptyQueue, Free
  <2>2. /\ Submitted' = Submitted /\ Terminated' = Terminated
        /\ Open' = Open /\ Begun' = Begun /\ Past' = Past /\ Asked' = Asked
    BY <2>1, SameLog
  <2> QED BY <1>a, <2>1, <2>2 DEF AccountInv, Logged, QueuesAccount, RunningItem, AheadOfLog, Terminated
<1>19. ASSUME NEW asImport \in BOOLEAN, Restart(asImport) PROVE AccountInv'
  <2>1. mem' = queue
    BY <1>19, RestoreIsIdentity DEF Restart, TypeInv
  <2>2. /\ lock.step = "free" /\ active = None /\ (up' # "recovering" => queue.running = None)
        /\ UNCHANGED <<submittedAt, terminal, started, cancelRequested, queue, active, lock>>
    BY <1>0, <1>19 DEF Restart, IsIdle, RunInv, LoadedFromLog
  <2>3. /\ Submitted' = Submitted /\ Terminated' = Terminated
        /\ Open' = Open /\ Begun' = Begun /\ Past' = Past /\ Asked' = Asked
    BY <2>2, SameLog
  <2>4. QueuesAccount'
    <3>1. Withdrawn' = {} /\ Open \ {} = Open
      BY <2>2 DEF Withdrawn
    <3> QED BY <2>1, <2>2, <2>3, <3>1 DEF AccountInv, QueuesAccount
  <2>5. Logged' /\ RunningItem' /\ AheadOfLog'
    BY <2>1, <2>2, <2>3 DEF AccountInv, Logged, RunningItem, AheadOfLog, Terminated
  <2> QED BY <2>4, <2>5 DEF AccountInv
<1>20. CASE RecoverSession
  <2>1. /\ lock.step = "free" /\ lock'.step \in {"recover", "expire"} /\ up = "recovering"
        /\ UNCHANGED <<submittedAt, terminal, started, cancelRequested, mem, active, queue>>
    BY <1>0, <1>20, HoldKeeps DEF RecoverSession
  <2> QED BY <2>1, NextAppend
<1>21. CASE ExpireOld
  <2>1. PICK k \in 0 .. Len(mem.waiting) : DrainExpired(k)
    BY <1>21 DEF ExpireOld
  <2>2. /\ lock'.step = "recover" /\ lock.step = "expire" /\ up = "serving" /\ active' = None
        /\ UNCHANGED <<submittedAt, started, cancelRequested, up>> /\ Queued(mem) \subseteq Submitted
    BY <1>0, <1>b, <1>21, HoldKeeps DEF ExpireOld, RunInv, QueueMatchesSlot
  <2>3. lock.step # "withdraw" /\ (lock'.step = "free" => mem.running = None)
        /\ lock'.step \in {"recover", "free"}
    BY <2>2
  <2> QED BY <1>0, <2>1, <2>2, <2>3, OldestLeave
<1>22. CASE ExpireAll
  <2>1. Len(mem.waiting) \in 0 .. Len(mem.waiting) /\ DrainExpired(Len(mem.waiting))
    BY <1>0, <1>22 DEF ExpireAll, Queue
  <2>2. /\ lock'.step = "free" /\ mem.running = None /\ lock.step = "expireAll" /\ up = "serving"
        /\ active' = None /\ UNCHANGED <<submittedAt, started, cancelRequested, up>>
        /\ Queued(mem) \subseteq Submitted
    BY <1>0, <1>b, <1>22, HoldKeeps DEF ExpireAll, RunInv, QueueMatchesSlot
  <2> QED BY <1>0, <2>1, <2>2, OldestLeave
<1>23. CASE RecoverRunning
  <2> DEFINE t == mem.running
  <2>1. /\ up = "serving" /\ lock.step = "recover" /\ t \in Turns /\ active' = None
        /\ lock'.step \in {"unlink", "choose"} /\ queue = mem
    BY <1>0, <1>23, HoldKeeps DEF RecoverRunning, RunInv, QueueMatchesSlot
  <2>2. t \in Submitted /\ t \notin ToSet(queue.waiting)
    BY <1>b, <2>1 DEF Queued, AccountInv, QueuesAccount, Accounts
  <2>3. Terminated' = Terminated \cup {t}
    <3>1. CASE terminal[t] # << >>
      BY <1>23, <2>1, <3>1 DEF RecoverRunning, Terminated
    <3>2. CASE terminal[t] = << >>
      <4>1. terminal' = [terminal EXCEPT ![t] = Append(@, RecoveryReason(t))]
        BY <1>23, <3>2 DEF RecoverRunning
      <4>2. Append(<< >>, RecoveryReason(t)) # << >>
        OBVIOUS
      <4> QED BY <1>0, <2>1, <3>2, <4>1, <4>2 DEF Terminated, TypeOK
    <3> QED BY <3>1, <3>2
  <2>4. /\ mem' = [mem EXCEPT !.running = None, !.cancelling = FALSE]
        /\ UNCHANGED <<submittedAt, started, cancelRequested, queue, up>>
    BY <1>23 DEF RecoverRunning
  <2> QED BY <1>0, <2>1, <2>2, <2>3, <2>4, RunningItemLeaves
<1>24. CASE RecoverNothingRunning
  <2>1. lock'.step \in {"expireAll", "free", "choose"}
    BY <1>24, HoldKeeps DEF RecoverNothingRunning, AfterNothing
  <2>2. /\ lock.step = "recover" /\ up = "serving" /\ mem.running \notin Terminated
        /\ UNCHANGED <<submittedAt, terminal, started, cancelRequested, mem, active, queue>>
    BY <1>0, <1>24 DEF RecoverNothingRunning, Terminated
  <2> QED BY <2>1, <2>2, NextAppend
<1>25. CASE UnlinkImported
  <2>1. /\ lock'.step = "expireAll" /\ lock.step = "unlink" /\ up = "serving"
        /\ mem.running \notin Terminated /\ queue' = mem
        /\ UNCHANGED <<submittedAt, terminal, started, cancelRequested, mem, active>>
    BY <1>0, <1>25, HoldKeeps DEF UnlinkImported, AccountInv, RunningItem
  <2> QED BY <2>1, NextAppend
<1>26. CASE Clients
  BY <1>1, <1>2, <1>3, <1>4, <1>26 DEF Clients
<1>27. CASE Appends
  BY <1>5, <1>6, <1>7, <1>8, <1>9, <1>10, <1>11, <1>27 DEF Appends
<1>28. CASE Harness
  BY <1>12, <1>13, <1>14, <1>15, <1>16, <1>28 DEF Harness
<1>29. CASE Process
  BY <1>17, <1>18, <1>29 DEF Process
<1>30. CASE Recovery
  BY <1>19, <1>20, <1>21, <1>22, <1>23, <1>24, <1>25, <1>30 DEF Recovery
<1> QED BY <1>17, <1>26, <1>27, <1>28, <1>29, <1>30 DEF Next

-----------------------------------------------------------------------------
(* The records of a turn. *)

\* What the log says of one turn, whatever the process is doing.
TurnRecords(t) ==
  /\ Len(terminal[t]) <= 1
  /\ t \in Prompts => /\ Len(settled[t]) <= 1
                      /\ terminal[t] # << >> => settled[t] # << >>
                      /\ settled[t] # << >> => t \in Past
  /\ t \in cancelRequested =>
       \A k \in DOMAIN terminal[t] : terminal[t][k] \in {"aborted", "cancelled"}
  /\ t \in compacted => /\ t \in started /\ t \notin cancelRequested
                        /\ \A k \in DOMAIN terminal[t] : terminal[t][k] = "completed"

Records == \A t \in Turns : TurnRecords(t)

(***************************************************************************)
(* How the memory of an execution agrees with the records of its turn: a   *)
(* reason that was decided on is the one the cancellation calls for, and a *)
(* summary is committed by nobody but the operation that then reports it.  *)
(***************************************************************************)
Decision ==
  /\ lock.step \in {"settle", "terminal"} =>
       /\ execution[lock.turn].phase = "ended"
       /\ lock.turn \in cancelRequested => lock.reason = "aborted"
  /\ lock.step = "terminal" /\ lock.turn \in Prompts => settled[lock.turn] # << >>
  /\ lock.step = "cancelling" => execution[lock.turn].cancelled

ActiveRecords ==
  active # None =>
    /\ active \in Prompts /\ lock.step # "terminal" =>
         (settled[active] # << >> <=> execution[active].delivered)
    /\ active \in cancelRequested => execution[active].cancelled
    /\ active \in compacted => lock.step = "terminal" /\ lock.reason = "completed"

RecordInv == Records /\ Decision /\ ActiveRecords

LEMMA SameTurnRecords ==
  ASSUME NEW t, TurnRecords(t), terminal'[t] = terminal[t],
         t \in Prompts => settled'[t] = settled[t],
         t \in cancelRequested' <=> t \in cancelRequested, t \in compacted' <=> t \in compacted,
         started \subseteq started', Past \subseteq Past'
  PROVE  TurnRecords(t)'
  BY DEF TurnRecords

\* A turn that never began is ended with two records.
LEMMA DismissedTurn ==
  ASSUME TypeOK, NEW t \in Turns, TurnRecords(t), t \notin Past, t \in Past',
         NEW reason \in {"cancelled", "expired"},
         terminal'[t] = Append(terminal[t], reason),
         t \in Prompts => settled'[t] = Append(settled[t], "undelivered"),
         t \in cancelRequested' => reason = "cancelled", compacted' = compacted
  PROVE  TurnRecords(t)'
<1>1. terminal[t] = << >> /\ t \notin started
  BY DEF Past, Terminated
<1>2. t \in Prompts => settled[t] = << >>
  BY DEF TurnRecords
<1>3. t \notin compacted'
  BY <1>1 DEF TurnRecords
<1>4. /\ Len(terminal'[t]) = 1 /\ DOMAIN terminal'[t] = {1} /\ terminal'[t][1] = reason
      /\ t \in Prompts => Len(settled'[t]) = 1 /\ settled'[t] # << >>
  <2>1. \A r : /\ Append(<< >>, r) = <<r>> /\ Len(<<r>>) = 1 /\ DOMAIN <<r>> = {1}
               /\ <<r>>[1] = r /\ <<r>> # << >>
    OBVIOUS
  <2>2. terminal'[t] = <<reason>> /\ (t \in Prompts => settled'[t] = <<"undelivered">>)
    BY <1>1, <1>2, <2>1
  <2> QED BY <2>1, <2>2
<1> QED BY <1>3, <1>4 DEF TurnRecords

\* The records stay, and executions may only end or be told to.
LEMMA SameRecords ==
  ASSUME TypeOK, RunInv, Addressed, RecordInv,
         UNCHANGED <<settled, terminal, compacted, cancelRequested, started, active, lock>>,
         \A t \in Turns : Driving(t) =>
           /\ execution'[t].delivered = execution[t].delivered
           /\ execution[t].cancelled => execution'[t].cancelled
           /\ execution[t].phase = "ended" => execution'[t].phase = "ended"
  PROVE  RecordInv'
<1> USE NoneIsNoTurn
<1>1. Past' = Past
  BY DEF Past, Terminated
<1>2. Records'
  BY <1>1 DEF RecordInv, Records, TurnRecords
<1>3. active # None => active \in Turns /\ Driving(active)
  BY DEF RunInv, SlotMatchesExecution, TypeOK
<1>4. lock.step \in {"settle", "terminal", "cancelling"} => lock.turn = active /\ lock.turn # None
  BY DEF RunInv, QueueMatchesSlot, Addressed
<1>5. Decision' /\ ActiveRecords'
  BY <1>3, <1>4 DEF RecordInv, Decision, ActiveRecords
<1> QED BY <1>2, <1>5 DEF RecordInv

\* An operation that holds the lock goes on; no turn changes.
LEMMA OtherOperation ==
  ASSUME RecordInv, lock.step # "terminal",
         UNCHANGED <<settled, terminal, compacted, cancelRequested, started, execution>>,
         active' = active, lock'.step \notin {"settle", "terminal", "cancelling"}
  PROVE  RecordInv'
<1>1. Past' = Past
  BY DEF Past, Terminated
<1>2. Records'
  BY <1>1 DEF RecordInv, Records, TurnRecords
<1>3. Decision' /\ ActiveRecords'
  BY DEF RecordInv, Decision, ActiveRecords
<1> QED BY <1>2, <1>3 DEF RecordInv

\* With nothing active, only the records matter.
LEMMA NothingActive ==
  ASSUME Records', active' = None, lock'.step \notin {"settle", "terminal", "cancelling"}
  PROVE  RecordInv'
  BY DEF RecordInv, Decision, ActiveRecords

LEMMA RecordInit == Init => RecordInv
<1> SUFFICES ASSUME Init PROVE RecordInv
  OBVIOUS
<1>1. \A t \in Turns : TurnRecords(t)
  BY DEF Init, TurnRecords
<1> QED BY <1>1 DEF Init, RecordInv, Records, Decision, ActiveRecords, Free

\* The active turn has begun, has not ended, and is what a cancelling or completing operation is about.
LEMMA ActiveTurn ==
  ASSUME TypeInv, RunInv, AccountInv
  PROVE  /\ active # None => /\ active \in Turns /\ active = mem.running /\ up = "serving"
                             /\ active \in started /\ active \notin Terminated /\ Driving(active)
         /\ lock.step \in {"cancelling", "settle", "terminal"} => lock.turn = active /\ active # None
         /\ cancelRequested \subseteq Past
<1>1. lock.step \in {"cancelling", "settle", "terminal"} => lock.turn = active /\ active # None
  BY DEF RunInv, QueueMatchesSlot, TypeInv, Addressed
<1>2. ASSUME active # None
      PROVE  /\ active = mem.running /\ up = "serving"
             /\ lock.step \notin {"expire", "recover", "choose", "unlink", "expireAll"}
  <2>1. up = "serving" /\ lock.step \notin {"expire", "recover", "choose", "unlink", "expireAll"}
    BY <1>2 DEF RunInv, LoadedFromLog, QueueMatchesSlot
  <2>2. lock.step \in {"free", "submit", "cancelling", "withdraw", "settle", "terminal"}
    BY <2>1 DEF TypeInv, TypeOK, Operation, Steps
  <2> QED BY <1>2, <2>1, <2>2 DEF RunInv, QueueMatchesSlot, Unlocked
<1>3. active # None => active \in Turns /\ Driving(active) /\ active \in started
  BY DEF RunInv, SlotMatchesExecution, AccountInv, RunningItem, TypeInv, TypeOK
<1>4. active # None => active \notin Terminated
  BY <1>2 DEF AccountInv, RunningItem
<1>5. cancelRequested \subseteq Past
  BY DEF AccountInv, Logged, Asked, Past
<1> QED BY <1>1, <1>2, <1>3, <1>4, <1>5

LEMMA RecordNext == TypeInv /\ RunInv /\ AccountInv /\ RecordInv /\ [Next]_vars => RecordInv'
<1> SUFFICES ASSUME TypeInv, RunInv, AccountInv, RecordInv, [Next]_vars PROVE RecordInv'
  OBVIOUS
<1> USE NoneIsNoTurn DEF durableVars, processVars, turnVars
<1>0. /\ TypeOK /\ Addressed /\ (up # "serving" => lock.step = "free")
      /\ lock.turn \in Turns \cup {None} /\ lock.reason \in Reasons \cup {None}
      /\ mem \in Queue /\ Records
  BY DEF TypeInv, Addressed, TypeOK, Operation, RecordInv
<1>a. active # None => /\ active \in Turns /\ active = mem.running /\ up = "serving"
                       /\ active \in started /\ active \notin Terminated /\ Driving(active)
  BY ActiveTurn
<1>b. lock.step \in {"cancelling", "settle", "terminal"} => lock.turn = active /\ active # None
  BY ActiveTurn
<1>c. cancelRequested \subseteq Past
  BY ActiveTurn
<1>d. \A t \in Turns : Driving(t) => active = t
  BY DEF RunInv, SlotMatchesExecution
<1>e. \A t \in Turns : /\ terminal[t] \in Seq(Reasons) /\ execution[t] \in Execution
                       /\ t \in Prompts => settled[t] \in Seq(Settlements)
  BY <1>0 DEF TypeOK
<1>f. \A t \in Turns : t \notin Terminated => terminal[t] = << >>
  BY DEF Terminated
<1>g. Submitted \subseteq Turns
  BY DEF Submitted
<1>1. ASSUME NEW p \in Prompts, Admit(p) PROVE RecordInv'
  <2>1. PICK a : lock' = [Hold("submit", IF mem.running = None THEN mem'.running ELSE None)
                            EXCEPT !.auto = a, !.user = p]
    BY <1>1 DEF Admit
  <2>2. lock'.step = "submit"
    BY <2>1, HoldKeeps
  <2> QED BY <1>1, <2>2, OtherOperation DEF Admit, Unlocked
<1>2. ASSUME NEW m \in Manuals, Compact(m) PROVE RecordInv'
  <2>1. lock'.step = "submit"
    BY <1>2, HoldKeeps DEF Compact
  <2> QED BY <1>2, <2>1, OtherOperation DEF Compact, Unlocked
<1>3. ASSUME NEW t \in Turns, CancelRunning(t) PROVE RecordInv'
  <2>1. /\ lock.step = "free" /\ lock'.step = "cancelling" /\ lock'.turn = t /\ active = t
        /\ execution' = [execution EXCEPT ![t].cancelled = TRUE]
        /\ UNCHANGED <<settled, terminal, compacted, cancelRequested, started, active>>
    BY <1>3, HoldKeeps DEF CancelRunning, Unlocked
  <2>2. Records'
    BY <1>0, <2>1 DEF Records, TurnRecords, Past, Terminated
  <2>3. execution'[t].cancelled /\ execution'[t].delivered = execution[t].delivered
    BY <1>0, <2>1 DEF TypeOK, Execution
  <2>4. Decision' /\ ActiveRecords'
    BY <2>1, <2>3 DEF RecordInv, Decision, ActiveRecords
  <2> QED BY <2>2, <2>4 DEF RecordInv
<1>4. ASSUME NEW t \in Turns, CancelWaiting(t) PROVE RecordInv'
  <2>1. lock'.step = "withdraw"
    BY <1>4, HoldKeeps DEF CancelWaiting
  <2> QED BY <1>4, <2>1, OtherOperation DEF CancelWaiting, Unlocked
<1>5. CASE AppendSubmission
  <2>1. /\ lock.step = "submit" /\ lock'.step = "free" /\ Start(lock.turn)
        /\ UNCHANGED <<settled, terminal, compacted, cancelRequested>>
        /\ started' = started \cup ({lock.turn} \ {None})
    BY <1>5, HoldKeeps DEF AppendSubmission, Start
  <2>2. Records'
    BY <1>0, <2>1 DEF Records, TurnRecords, Past, Terminated
  <2>3. CASE lock.turn = None
    <3>1. active' = active
      BY <2>1, <2>3 DEF Start
    <3>2. active # None => /\ execution'[active].delivered = execution[active].delivered
                           /\ execution'[active].cancelled = execution[active].cancelled
      BY <1>a, <2>1, <2>3 DEF Start, Released, Driving
    <3>3. Decision' /\ ActiveRecords'
      BY <2>1, <3>1, <3>2 DEF RecordInv, Decision, ActiveRecords
    <3> QED BY <2>2, <3>3 DEF RecordInv
  <2>4. CASE lock.turn # None
    <3> DEFINE t == lock.turn
    <3>1. active' = t /\ t \in Turns /\ t \notin Past
      <4>1. mem.running = t /\ mem.running \notin Terminated /\ t \notin started
        BY <1>0, <2>1, <2>4 DEF RunInv, QueueMatchesSlot, AccountInv, RunningItem, AheadOfLog
      <4> QED BY <1>0, <2>1, <2>4, <4>1 DEF Start, Past
    <3>2. /\ t \notin cancelRequested /\ t \notin compacted
          /\ t \in Prompts => settled[t] = << >>
      BY <1>0, <1>c, <3>1 DEF Records, TurnRecords, Past
    <3>3. ~execution'[t].delivered
      BY <2>1, <3>1 DEF Start, NotExecuting
    <3>4. Decision' /\ ActiveRecords'
      BY <2>1, <3>1, <3>2, <3>3 DEF Decision, ActiveRecords
    <3> QED BY <2>2, <3>4 DEF RecordInv
  <2> QED BY <2>3, <2>4
<1>6. CASE AppendCancelling
  <2> DEFINE t == lock.turn
  <2>1. /\ lock.step = "cancelling" /\ lock'.step = "free" /\ t = active /\ t \in Turns
        /\ cancelRequested' = cancelRequested \cup {t}
        /\ execution' = [execution EXCEPT ![t].aborted = TRUE]
        /\ UNCHANGED <<settled, terminal, compacted, started, active>>
    BY <1>6, <1>a, <1>b, HoldKeeps DEF AppendCancelling
  <2>2. terminal[t] = << >> /\ t \notin compacted /\ execution[t].cancelled
    BY <1>a, <1>b, <1>f, <2>1 DEF RecordInv, Decision, ActiveRecords
  <2>3. Records'
    BY <1>0, <2>1, <2>2 DEF Records, TurnRecords, Past, Terminated
  <2>4. /\ execution'[t].cancelled = execution[t].cancelled
        /\ execution'[t].delivered = execution[t].delivered
    BY <1>0, <2>1 DEF TypeOK, Execution
  <2>5. Decision' /\ ActiveRecords'
    BY <2>1, <2>2, <2>4 DEF RecordInv, Decision, ActiveRecords
  <2> QED BY <2>3, <2>5 DEF RecordInv
<1>7. CASE AppendWithdrawal
  <2>0. PICK t \in Turns \cup {None} : t = lock.turn
    BY <1>0 DEF Queue
  <2>1. /\ t = lock.turn /\ lock.step = "withdraw" /\ lock'.step = "free" /\ t \in Turns /\ t \notin Past
        /\ Dismiss({t}, "cancelled") /\ cancelRequested' = cancelRequested \cup {t}
        /\ UNCHANGED <<compacted, started, active, execution>>
    <3>1. lock.step = "withdraw" /\ t \in Turns /\ t \notin Past
      BY <1>0, <1>7, <1>g, <2>0 DEF AppendWithdrawal, AccountInv, AheadOfLog, Open, Past
    <3> QED BY <1>7, <2>0, <3>1, HoldKeeps DEF AppendWithdrawal
  <2>2. \A u \in Turns : /\ terminal'[u] = IF u = t THEN Append(terminal[u], "cancelled") ELSE terminal[u]
                         /\ u \in Prompts =>
                              settled'[u] = IF u = t THEN Append(settled[u], "undelivered") ELSE settled[u]
    BY <2>1 DEF Dismiss
  <2>3. Past' = Past \cup {t}
    <3>1. \A u \in Turns : Append(terminal[u], "cancelled") # << >>
      <4>1. "cancelled" \in Reasons
        BY DEF Reasons
      <4> QED BY <1>e, <4>1, AppendNonempty
    <3>2. \A u \in Turns : terminal'[u] # << >> <=> (terminal[u] # << >> \/ u = t)
      BY <2>2, <3>1
    <3> QED BY <2>1, <3>2 DEF Past, Terminated
  <2>4. TurnRecords(t)'
    BY <1>0, <2>1, <2>2, <2>3, DismissedTurn DEF Records
  <2>5. ASSUME NEW u \in Turns, u # t PROVE TurnRecords(u)'
    BY <1>0, <2>1, <2>2, <2>3, <2>5, SameTurnRecords DEF Records
  <2>6. active # None => active # t
    BY <1>a, <2>1 DEF Past
  <2>7. Decision' /\ ActiveRecords'
    BY <1>a, <2>1, <2>2, <2>6 DEF RecordInv, Decision, ActiveRecords
  <2> QED BY <2>4, <2>5, <2>7 DEF RecordInv, Records
<1>8. CASE SettleTurn
  <2>0. PICK t \in Turns \cup {None} : t = lock.turn
    BY <1>0 DEF Queue
  <2>1. /\ t = lock.turn /\ lock.step = "settle" /\ t = active /\ t \in Turns /\ t \in started /\ terminal[t] = << >>
        /\ UNCHANGED <<terminal, cancelRequested, started, active, execution>>
        /\ settled' = [p \in Prompts |-> IF p = t /\ ~execution[p].delivered
                                         THEN Append(settled[p], "undelivered") ELSE settled[p]]
    BY <1>8, <1>a, <1>b, <1>f, <2>0 DEF SettleTurn
  <2>2. lock'.step = "terminal" /\ lock'.turn = t /\ lock'.reason = lock.reason
    BY <1>0, <1>8, <2>1 DEF SettleTurn, TypeOK, Operation
  <2>3. PICK commits \in SUBSET {t} : /\ commits # {} => lock.reason = "completed"
                                      /\ compacted' = compacted \cup commits
    BY <1>8, <2>1 DEF SettleTurn
  <2>4. t \notin compacted /\ (lock.reason = "completed" => t \notin cancelRequested)
    BY <1>b, <2>1 DEF RecordInv, Decision, ActiveRecords
  <2>5. t \in Prompts => /\ settled[t] # << >> <=> execution[t].delivered
                         /\ Len(settled[t]) <= 1 /\ settled[t] \in Seq(Settlements)
    BY <1>0, <1>b, <1>e, <2>1 DEF RecordInv, ActiveRecords, Records, TurnRecords
  <2>6. t \in Prompts => Len(settled'[t]) <= 1 /\ settled'[t] # << >>
    <3>1. ASSUME t \in Prompts, execution[t].delivered PROVE Len(settled'[t]) <= 1 /\ settled'[t] # << >>
      <4>1. settled'[t] = settled[t] /\ settled[t] # << >>
        BY <2>1, <2>5, <3>1
      <4> QED BY <2>5, <3>1, <4>1
    <3>2. ASSUME t \in Prompts, ~execution[t].delivered PROVE Len(settled'[t]) <= 1 /\ settled'[t] # << >>
      <4>1. settled'[t] = Append(<< >>, "undelivered")
        BY <2>1, <2>5, <3>2
      <4> QED BY <4>1
    <3> QED BY <3>1, <3>2
  <2>7. Past' = Past
    BY <2>1 DEF Past, Terminated
  <2>8. TurnRecords(t)'
    BY <1>0, <2>1, <2>3, <2>4, <2>6, <2>7 DEF Records, TurnRecords, Past
  <2>9. ASSUME NEW u \in Turns, u # t PROVE TurnRecords(u)'
    <3>1. /\ u \in Prompts => settled'[u] = settled[u]
          /\ u \in compacted' <=> u \in compacted
      BY <2>1, <2>3, <2>9
    <3> QED BY <1>0, <2>1, <2>7, <3>1, SameTurnRecords DEF Records
  <2>10. Decision' /\ ActiveRecords'
    BY <1>b, <2>1, <2>2, <2>3, <2>4, <2>6 DEF RecordInv, Decision, ActiveRecords
  <2> QED BY <2>8, <2>9, <2>10 DEF RecordInv, Records
<1>9. CASE FinishTurn
  <2>0. PICK t \in Turns \cup {None} : t = lock.turn
    BY <1>0 DEF Queue
  <2>1. /\ t = lock.turn /\ lock.step = "terminal" /\ t = active /\ t \in Turns /\ t \in started /\ terminal[t] = << >>
        /\ terminal' = [terminal EXCEPT ![t] = Append(@, lock.reason)] /\ active' = None
        /\ UNCHANGED <<cancelRequested, started, settled, compacted>> /\ lock'.step = "choose"
    BY <1>9, <1>a, <1>b, <1>f, <2>0, HoldKeeps DEF FinishTurn
  <2>2. terminal'[t] = <<lock.reason>> /\ \A u \in Turns : u # t => terminal'[u] = terminal[u]
    BY <1>0, <2>1 DEF TypeOK
  <2>3. /\ t \in Prompts => settled[t] # << >>
        /\ t \in cancelRequested => lock.reason = "aborted"
        /\ t \in compacted => lock.reason = "completed"
    BY <1>b, <2>1 DEF RecordInv, Decision, ActiveRecords
  <2>4. Past' = Past
    <3>1. \A r : <<r>> # << >>
      OBVIOUS
    <3> QED BY <2>1, <2>2, <3>1 DEF Past, Terminated
  <2>5. TurnRecords(t)'
    <3>1. \A r : Len(<<r>>) = 1 /\ DOMAIN <<r>> = {1} /\ <<r>>[1] = r
      OBVIOUS
    <3> QED BY <1>0, <2>1, <2>2, <2>3, <2>4, <3>1 DEF Records, TurnRecords, Past
  <2>6. ASSUME NEW u \in Turns, u # t PROVE TurnRecords(u)'
    BY <1>0, <2>1, <2>2, <2>4, <2>6, SameTurnRecords DEF Records
  <2> QED BY <2>1, <2>5, <2>6, NothingActive DEF Records
<1>10. CASE Prune
  BY <1>10, OtherOperation DEF Prune
<1>11. CASE ChooseNext
  <2>1. lock'.step = "submit"
    BY <1>11, HoldKeeps DEF ChooseNext
  <2> QED BY <1>11, <2>1, OtherOperation DEF ChooseNext
<1>12. ASSUME NEW p \in Prompts, Deliver(p) PROVE RecordInv'
  <2>1. /\ p \in Turns /\ p = active /\ execution[p].phase = "live" /\ ~execution[p].delivered
        /\ p \in started
    BY <1>12, <1>a, <1>d DEF Deliver, Driving, Turns
  <2>2. lock.step \notin {"settle", "terminal"}
    BY <1>b, <2>1 DEF RecordInv, Decision
  <2>3. settled[p] = << >>
    BY <2>1, <2>2 DEF RecordInv, ActiveRecords
  <2>4. /\ settled' = [settled EXCEPT ![p] = Append(@, "delivered")]
        /\ execution' = [execution EXCEPT ![p].delivered = TRUE]
        /\ UNCHANGED <<terminal, compacted, cancelRequested, started, active, lock>>
    BY <1>12 DEF Deliver
  <2>5. settled'[p] = <<"delivered">> /\ \A u \in Prompts : u # p => settled'[u] = settled[u]
    BY <1>0, <2>3, <2>4 DEF TypeOK
  <2>6. /\ execution'[p].delivered /\ execution'[p].cancelled = execution[p].cancelled
        /\ execution'[p].phase = execution[p].phase
    BY <1>0, <2>1, <2>4 DEF TypeOK, Execution
  <2>7. Past' = Past
    BY <2>4 DEF Past, Terminated
  <2>8. TurnRecords(p)'
    BY <1>0, <2>1, <2>4, <2>5, <2>7 DEF Records, TurnRecords, Past
  <2>9. ASSUME NEW u \in Turns, u # p PROVE TurnRecords(u)'
    BY <1>0, <2>4, <2>5, <2>7, <2>9, SameTurnRecords DEF Records
  <2>10. Decision' /\ ActiveRecords'
    BY <1>b, <2>1, <2>2, <2>4, <2>5, <2>6 DEF RecordInv, Decision, ActiveRecords
  <2> QED BY <2>8, <2>9, <2>10 DEF RecordInv, Records
<1>13. ASSUME NEW t \in Turns, ReportUsage(t) PROVE RecordInv'
  BY <1>0, <1>13, SameRecords DEF ReportUsage
<1>14. ASSUME NEW t \in Turns, HarnessEnds(t) PROVE RecordInv'
  <2>1. \A u \in Turns : /\ execution'[u].delivered = execution[u].delivered
                         /\ execution'[u].cancelled = execution[u].cancelled
                         /\ execution[u].phase = "ended" => execution'[u].phase = "ended"
    BY <1>0, <1>14 DEF HarnessEnds, TypeOK, Execution
  <2> QED BY <1>0, <1>14, <2>1, SameRecords DEF HarnessEnds
<1>15. ASSUME NEW t \in Turns, CompleteTurn(t) PROVE RecordInv'
  <2>1. /\ lock.step = "free" /\ active = t /\ execution[t].phase = "ended"
        /\ UNCHANGED <<settled, terminal, compacted, cancelRequested, started, active, execution>>
    BY <1>15 DEF CompleteTurn, Unlocked
  <2>2. PICK failed \in BOOLEAN : lock' = [Hold("settle", t) EXCEPT !.reason = FinalReason(t, failed)]
    BY <1>15 DEF CompleteTurn
  <2>3. lock'.step = "settle" /\ lock'.turn = t /\ lock'.reason = FinalReason(t, failed)
    BY <2>2 DEF Hold, Free
  <2>4. t \in cancelRequested => FinalReason(t, failed) = "aborted"
    BY <2>1 DEF RecordInv, ActiveRecords, FinalReason
  <2>5. Records'
    BY <1>0, <2>1 DEF Records, TurnRecords, Past, Terminated
  <2>6. Decision' /\ ActiveRecords'
    BY <2>1, <2>3, <2>4 DEF RecordInv, Decision, ActiveRecords
  <2> QED BY <2>5, <2>6 DEF RecordInv
<1>16. ASSUME NEW t \in Turns, Settle(t) PROVE RecordInv'
  <2>1. \A u \in Turns : Driving(u) => execution'[u] = execution[u]
    BY <1>0, <1>16 DEF Settle, Driving, TypeOK
  <2> QED BY <1>0, <1>16, <2>1, SameRecords DEF Settle
<1>17. CASE AbortSession
  <2>1. \A u \in Turns : /\ execution'[u].delivered = execution[u].delivered
                         /\ execution'[u].cancelled = execution[u].cancelled
                         /\ execution'[u].phase = execution[u].phase
    BY <1>0, <1>17 DEF AbortSession, TypeOK, Execution
  <2> QED BY <1>0, <1>17, <2>1, SameRecords DEF AbortSession
<1>18. CASE AskShutdown \/ UNCHANGED vars
  BY <1>0, <1>18, SameRecords DEF AskShutdown, vars
<1>19. CASE ShutdownAborts
  <2>1. \A u \in Turns : /\ execution'[u].delivered = execution[u].delivered
                         /\ execution'[u].cancelled = execution[u].cancelled
                         /\ execution'[u].phase = execution[u].phase
    BY <1>0, <1>19 DEF ShutdownAborts, TypeOK, Execution
  <2> QED BY <1>0, <1>19, <2>1, SameRecords DEF ShutdownAborts
<1>20. CASE Crash \/ Exit
  <2>1. /\ UNCHANGED <<settled, terminal, compacted, cancelRequested, started>>
        /\ active' = None /\ lock'.step = "free"
    BY <1>20 DEF Crash, Exit, Lose, Free
  <2>2. Records'
    BY <1>0, <2>1 DEF Records, TurnRecords, Past, Terminated
  <2> QED BY <2>1, <2>2, NothingActive
<1>21. ASSUME NEW asImport \in BOOLEAN, Restart(asImport) PROVE RecordInv'
  BY <1>0, <1>21, SameRecords DEF Restart
<1>22. CASE RecoverSession
  <2>1. lock.step = "free" /\ lock'.step \in {"recover", "expire"}
    BY <1>0, <1>22, HoldKeeps DEF RecoverSession
  <2> QED BY <1>22, <2>1, OtherOperation DEF RecoverSession
<1>23. ASSUME NEW k \in 0 .. Len(mem.waiting), DrainExpired(k), ExpireOld \/ ExpireAll PROVE RecordInv'
  <2> DEFINE dropped == ToSet(SubSeq(mem.waiting, 1, k))
  <2>1. /\ lock'.step \in {"recover", "free"} /\ active' = None /\ up = "serving"
        /\ lock.step \in {"expire", "expireAll"}
        /\ UNCHANGED <<compacted, cancelRequested, started>>
    BY <1>0, <1>23, HoldKeeps DEF ExpireOld, ExpireAll, RunInv, QueueMatchesSlot
  <2>2. dropped \subseteq Turns /\ dropped \cap Past = {}
    <3>1. dropped \subseteq ToSet(mem.waiting) /\ ToSet(mem.waiting) \subseteq Turns
      BY <1>0 DEF Queue, ToSet
    <3>2. ToSet(mem.waiting) \cap Past = {}
      BY <2>1 DEF AccountInv, QueuesAccount, Accounts
    <3> QED BY <3>1, <3>2
  <2>3. \A u \in Turns : /\ terminal'[u] = IF u \in dropped THEN Append(terminal[u], "expired")
                                          ELSE terminal[u]
                         /\ u \in Prompts =>
                              settled'[u] = IF u \in dropped THEN Append(settled[u], "undelivered")
                                            ELSE settled[u]
    BY <1>23 DEF DrainExpired, Dismiss
  <2> HIDE DEF dropped
  <2>4. Past' = Past \cup dropped
    <3>1. \A u \in Turns : Append(terminal[u], "expired") # << >>
      <4>1. "expired" \in Reasons
        BY DEF Reasons
      <4> QED BY <1>e, <4>1
    <3>2. \A u \in Turns : terminal'[u] # << >> <=> (terminal[u] # << >> \/ u \in dropped)
      BY <2>3, <3>1
    <3> QED BY <2>1, <2>2, <3>2 DEF Past, Terminated
  <2>5. ASSUME NEW u \in dropped PROVE TurnRecords(u)'
    <3>1. u \in Turns /\ u \notin Past /\ u \in Past' /\ u \notin cancelRequested'
      BY <1>c, <2>1, <2>2, <2>4
    <3> QED BY <1>0, <2>1, <2>3, <3>1, DismissedTurn DEF Records
  <2>6. ASSUME NEW u \in Turns, u \notin dropped PROVE TurnRecords(u)'
    BY <1>0, <2>1, <2>3, <2>4, <2>6, SameTurnRecords DEF Records
  <2> QED BY <2>1, <2>5, <2>6, NothingActive DEF Records
<1>24. CASE RecoverRunning
  <2>0. PICK t \in Turns \cup {None} : t = mem.running
    BY <1>0 DEF Queue
  <2>1. /\ t = mem.running /\ lock.step = "recover" /\ t \in Turns /\ active' = None /\ up = "serving"
        /\ lock'.step \in {"unlink", "choose"} /\ UNCHANGED <<compacted, cancelRequested, started>>
    BY <1>0, <1>24, <2>0, HoldKeeps DEF RecoverRunning, RunInv, QueueMatchesSlot, Queue
  <2>2. CASE terminal[t] # << >>
    <3>1. UNCHANGED <<settled, terminal>>
      BY <1>24, <2>1, <2>2 DEF RecoverRunning
    <3>2. Records'
      BY <1>0, <2>1, <3>1 DEF Records, TurnRecords, Past, Terminated
    <3> QED BY <2>1, <3>2, NothingActive
  <2>3. CASE terminal[t] = << >>
    <3> DEFINE r == RecoveryReason(t)
    <3>1. /\ terminal' = [terminal EXCEPT ![t] = Append(@, r)]
          /\ settled' = [p \in Prompts |-> IF p = t /\ settled[p] = << >>
                                           THEN Append(settled[p], "undelivered") ELSE settled[p]]
      BY <1>24, <2>1, <2>3 DEF RecoverRunning
    <3>2. /\ t \in cancelRequested => r = "aborted"
          /\ t \in compacted => r = "completed"
      <4>1. t \in cancelRequested => mem.cancelling
        <5>1. t \in cancelRequested => Asked # {}
          BY <2>1, <2>3 DEF Asked, Terminated
        <5> QED BY <2>1, <5>1 DEF AccountInv, QueuesAccount, Accounts
      <4>2. t \in cancelRequested => t \notin compacted
        BY <1>0, <2>1 DEF Records, TurnRecords
      <4> QED BY <4>1, <4>2 DEF RecoveryReason
    <3> HIDE DEF r
    <3>3. terminal'[t] = <<r>> /\ \A u \in Turns : u # t => terminal'[u] = terminal[u]
      BY <1>0, <2>1, <2>3, <3>1 DEF TypeOK
    <3>4. /\ t \in Prompts => Len(settled'[t]) <= 1 /\ settled'[t] # << >>
          /\ \A u \in Prompts : u # t => settled'[u] = settled[u]
      <4>1. ASSUME t \in Prompts, settled[t] = << >> PROVE Len(settled'[t]) <= 1 /\ settled'[t] # << >>
        <5>1. settled'[t] = Append(<< >>, "undelivered")
          BY <3>1, <4>1
        <5> QED BY <5>1
      <4>2. ASSUME t \in Prompts, settled[t] # << >> PROVE Len(settled'[t]) <= 1 /\ settled'[t] # << >>
        <5>1. settled'[t] = settled[t]
          BY <3>1, <4>2
        <5> QED BY <1>0, <2>1, <4>2, <5>1 DEF Records, TurnRecords
      <4>3. \A u \in Prompts : u # t => settled'[u] = settled[u]
        BY <3>1
      <4> QED BY <4>1, <4>2, <4>3
    <3>5. Past' = Past \cup {t}
      <4>1. <<r>> # << >>
        OBVIOUS
      <4> QED BY <2>1, <3>3, <4>1 DEF Past, Terminated
    <3>6. TurnRecords(t)'
      <4>1. Len(<<r>>) = 1 /\ DOMAIN <<r>> = {1} /\ <<r>>[1] = r
        OBVIOUS
      <4> QED BY <1>0, <2>1, <3>2, <3>3, <3>4, <3>5, <4>1 DEF Records, TurnRecords
    <3>7. ASSUME NEW u \in Turns, u # t PROVE TurnRecords(u)'
      BY <1>0, <2>1, <3>3, <3>4, <3>5, <3>7, SameTurnRecords DEF Records
    <3> QED BY <2>1, <3>6, <3>7, NothingActive DEF Records
  <2> QED BY <2>2, <2>3
<1>25. CASE RecoverNothingRunning
  <2>1. lock'.step \in {"expireAll", "free", "choose"}
    BY <1>25, HoldKeeps DEF RecoverNothingRunning, AfterNothing
  <2> QED BY <1>25, <2>1, OtherOperation DEF RecoverNothingRunning
<1>26. CASE UnlinkImported
  <2>1. lock'.step = "expireAll"
    BY <1>26, HoldKeeps DEF UnlinkImported
  <2> QED BY <1>26, <2>1, OtherOperation DEF UnlinkImported
<1>27. CASE Clients
  BY <1>1, <1>2, <1>3, <1>4, <1>27 DEF Clients
<1>28. CASE Appends
  BY <1>5, <1>6, <1>7, <1>8, <1>9, <1>10, <1>11, <1>28 DEF Appends
<1>29. CASE Harness
  BY <1>12, <1>13, <1>14, <1>15, <1>16, <1>29 DEF Harness
<1>30. CASE Process
  BY <1>17, <1>18, <1>19, <1>20, <1>30 DEF Process
<1>31. CASE Recovery
  <2>1. ASSUME ExpireOld PROVE RecordInv'
    BY <1>23, <2>1 DEF ExpireOld
  <2>2. ASSUME ExpireAll PROVE RecordInv'
    <3>1. Len(mem.waiting) \in 0 .. Len(mem.waiting) /\ DrainExpired(Len(mem.waiting))
      BY <1>0, <2>2 DEF ExpireAll, Queue
    <3> QED BY <1>23, <2>2, <3>1
  <2> QED BY <1>21, <1>22, <1>24, <1>25, <1>26, <1>31, <2>1, <2>2 DEF Recovery
<1> QED BY <1>18, <1>27, <1>28, <1>29, <1>30, <1>31 DEF Next

-----------------------------------------------------------------------------
(* Theorems. *)

TurnInv == TypeInv /\ RunInv /\ AccountInv /\ RecordInv

\* The invariant of a turn's records and of the queues that account for it.
THEOREM TurnInvariant == Spec => []TurnInv
<1>1. Init => TurnInv
  BY TypeInit, RunInit, AccountInit, RecordInit DEF TurnInv
<1>2. TurnInv /\ [Next]_vars => TurnInv'
  BY TypeNext, RunNext, AccountNext, RecordNext DEF TurnInv
<1> QED BY <1>1, <1>2, PTL DEF Spec

(***************************************************************************)
(* No append, crash, restart or import loses an accepted turn: the newest  *)
(* snapshot in the log holds every open turn, once, and lets none that has *)
(* ended wait again.                                                       *)
(***************************************************************************)
THEOREM NoTurnLostHolds == Spec => []NoTurnLost
<1>1. TurnInv => NoTurnLost
  BY DEF TurnInv, TypeInv, Remembered, AccountInv, QueuesAccount, Accounts, Open, Past, NoTurnLost
<1> QED BY <1>1, TurnInvariant, PTL

(***************************************************************************)
(* However often the process stops, a turn is ended by one record and a    *)
(* prompt settled by one record, which comes first.                        *)
(***************************************************************************)
THEOREM SettledOnceHolds == Spec => []SettledOnce
<1>1. ASSUME TurnInv PROVE SettledOnce
  <2>1. \A t \in Turns : TurnRecords(t)
    BY <1>1 DEF TurnInv, RecordInv, Records
  <2>2. Prompts \subseteq Turns
    BY DEF Turns
  <2> QED BY <2>1, <2>2 DEF SettledOnce, TurnRecords, Terminated
<1> QED BY <1>1, TurnInvariant, PTL

(***************************************************************************)
(* A turn whose cancellation was recorded ends as aborted or cancelled,    *)
(* whether the harness finished meanwhile or a restart ended it.           *)
(***************************************************************************)
THEOREM CancellationAlwaysHolds == Spec => []CancellationHolds
<1>1. ASSUME TurnInv PROVE CancellationHolds
  <2>1. cancelRequested \subseteq Turns
    BY <1>1 DEF TurnInv, TypeInv, TypeOK
  <2> QED BY <1>1, <2>1 DEF TurnInv, RecordInv, Records, TurnRecords, CancellationHolds
<1> QED BY <1>1, TurnInvariant, PTL

(***************************************************************************)
(* A compaction that replaced the history is reported as completed, also   *)
(* by the restart that finds it committed and not ended.                   *)
(***************************************************************************)
THEOREM CompactionReportedHolds == Spec => []CompactionReported
<1>1. ASSUME TurnInv PROVE CompactionReported
  <2>1. compacted \subseteq Turns
    BY <1>1 DEF TurnInv, TypeInv, TypeOK, Turns
  <2> QED BY <1>1, <2>1 DEF TurnInv, RecordInv, Records, TurnRecords, CompactionReported
<1> QED BY <1>1, TurnInvariant, PTL

\* An execution begins nowhere but in the append that makes its turn the running one.
LEMMA BeginsInAppend ==
  ASSUME TypeOK, [Next]_vars, ~AppendSubmission
  PROVE  \A t \in Turns : ~Begins(t)
<1> USE DEF durableVars, processVars, turnVars
<1> DEFINE Quiet == \A t \in Turns : execution'[t].phase = "live" => execution[t].phase = "live"
<1>0. SUFFICES Quiet
  BY DEF Begins
<1>1. CASE execution' = execution
  BY <1>1
<1>2. ASSUME NEW u \in Turns,
             \/ execution' = [execution EXCEPT ![u].cancelled = TRUE]
             \/ execution' = [execution EXCEPT ![u].aborted = TRUE]
             \/ execution' = [execution EXCEPT ![u].delivered = TRUE]
             \/ execution' = [execution EXCEPT ![u].phase = "ended"]
             \/ execution' = [execution EXCEPT ![u].phase = "finished"]
             \/ execution' = [execution EXCEPT ![u] = NotExecuting]
      PROVE  Quiet
  <2>1. execution \in [Turns -> Execution] /\ execution[u] \in Execution
    BY DEF TypeOK
  <2>2. \A t \in Turns : t # u => execution'[t] = execution[t]
    BY <1>2, <2>1
  <2>3. execution'[u].phase \in {execution[u].phase, "ended", "finished", "idle"}
    <3> DEFINE e == execution[u]
    <3>1. \/ execution'[u] = [e EXCEPT !.cancelled = TRUE]
          \/ execution'[u] = [e EXCEPT !.aborted = TRUE]
          \/ execution'[u] = [e EXCEPT !.delivered = TRUE]
          \/ execution'[u] = [e EXCEPT !.phase = "ended"]
          \/ execution'[u] = [e EXCEPT !.phase = "finished"]
          \/ execution'[u] = NotExecuting
      BY <1>2, <2>1
    <3> HIDE DEF e
    <3>2. e \in Execution
      BY <2>1 DEF e
    <3>3. execution'[u].phase \in {e.phase, "ended", "finished", "idle"}
      BY <3>1, <3>2 DEF Execution, NotExecuting
    <3> QED BY <3>3 DEF e
  <2> QED BY <2>2, <2>3
<1>3. CASE Clients
  <2>1. ASSUME NEW t \in Turns, CancelRunning(t) PROVE Quiet
    BY <1>2, <2>1 DEF CancelRunning
  <2> QED BY <1>1, <1>3, <2>1 DEF Clients, Admit, Compact, CancelWaiting
<1>4. CASE Appends
  <2>1. ASSUME AppendCancelling \/ FinishTurn PROVE Quiet
    <3>1. CASE lock.turn \in Turns
      BY <1>2, <2>1, <3>1 DEF AppendCancelling, FinishTurn
    <3>2. CASE lock.turn \notin Turns
      <4>1. execution' = execution
        BY <2>1, <3>2 DEF AppendCancelling, FinishTurn, TypeOK
      <4> QED BY <1>1, <4>1
    <3> QED BY <3>1, <3>2
  <2> QED BY <1>1, <1>4, <2>1 DEF Appends, AppendWithdrawal, SettleTurn, Prune, ChooseNext
<1>5. CASE Harness
  <2>1. ASSUME NEW p \in Prompts, Deliver(p) PROVE Quiet
    BY <1>2, <2>1 DEF Deliver, Turns
  <2>2. ASSUME NEW t \in Turns, HarnessEnds(t) \/ Settle(t) PROVE Quiet
    BY <1>2, <2>2 DEF HarnessEnds, Settle
  <2> QED BY <1>1, <1>5, <2>1, <2>2 DEF Harness, ReportUsage, CompleteTurn
<1>6. CASE Process
  <2>1. active \in Turns \cup {None}
    BY DEF TypeOK
  <2>2. ASSUME AbortSession \/ ShutdownAborts PROVE Quiet
    BY <1>1, <1>2, <2>1, <2>2 DEF AbortSession, ShutdownAborts
  <2>3. ASSUME Crash \/ Exit PROVE Quiet
    BY <2>3 DEF Crash, Exit, Lose, NotExecuting
  <2> QED BY <1>1, <1>6, <2>2, <2>3 DEF Process, AskShutdown
<1>7. CASE Recovery \/ UNCHANGED vars
  BY <1>1, <1>7 DEF Recovery, Restart, RecoverSession, ExpireOld, ExpireAll, RecoverRunning,
                    RecoverNothingRunning, UnlinkImported, vars
<1> QED BY <1>3, <1>4, <1>5, <1>6, <1>7 DEF Next

(***************************************************************************)
(* A turn is executed at most once: no restart, import or choice of what   *)
(* runs next begins a turn that has ever begun.                            *)
(***************************************************************************)
THEOREM ExecutedOnceHolds == Spec => ExecutedOnce
<1>1. ASSUME TurnInv, [Next]_vars
      PROVE  \A t \in Turns : Begins(t) => t \notin started
  <2>1. CASE AppendSubmission
    <3>1. ASSUME NEW t \in Turns, Begins(t) PROVE t = lock.turn
      <4>1. t # lock.turn => execution'[t] = Released(execution[t])
        BY <2>1 DEF AppendSubmission, Start
      <4> QED BY <3>1, <4>1 DEF Begins, Released
    <3>2. lock.turn \notin started
      BY <1>1, <2>1 DEF TurnInv, AccountInv, AheadOfLog, AppendSubmission
    <3> QED BY <3>1, <3>2
  <2>2. CASE ~AppendSubmission
    BY <1>1, <2>2, BeginsInAppend DEF TurnInv, TypeInv
  <2> QED BY <2>1, <2>2
<1>2. TurnInv /\ [Next]_vars => [\A t \in Turns : Begins(t) => t \notin started]_vars
  BY <1>1
<1> QED BY <1>2, TurnInvariant, PTL DEF Spec, ExecutedOnce

-----------------------------------------------------------------------------
(***************************************************************************)
(* The durable log implements the lifecycle promised to clients, and turns *)
(* run in the order of their submission.                                   *)
(*                                                                         *)
(* TurnLifecycle sees the newest snapshot only, so every step that writes  *)
(* one must be a step of the lifecycle.  SnapshotInv says what the next    *)
(* snapshot, the queue in memory, differs in: by the batch that joins, by  *)
(* the turn that begins, or by the turn that was withdrawn.                *)
(***************************************************************************)

\* The waiting list that a batch makes of s when all of it waits.
Joined(s) ==
  LET behind == IF lock.auto = None THEN s ELSE Append(s, lock.auto)
  IN IF lock.user = None THEN behind ELSE Append(behind, lock.user)

\* Nothing runs in the snapshot, or what runs has its terminal record.
Ended(q) == q.running \in Terminated \cup {None}

\* What an awaited submission makes of the snapshot.
Joins ==
  /\ lock.turn = None /\ mem.waiting = Joined(queue.waiting)
  /\ mem.running = queue.running \/ (mem.running = None /\ Ended(queue))
RunsAuto ==
  /\ lock.turn = lock.auto /\ lock.auto # None /\ Ended(queue)
  /\ mem.waiting = IF lock.user = None THEN queue.waiting ELSE Append(queue.waiting, lock.user)
RunsUser ==
  /\ lock.turn = lock.user /\ lock.user # None /\ lock.auto = None /\ Ended(queue)
  /\ mem.waiting = << >> /\ queue.waiting = << >>
RunsNext ==
  /\ lock.turn # None /\ lock.auto = None /\ lock.user = None /\ Ended(queue)
  /\ queue.waiting # << >>
  /\ lock.turn = Head(queue.waiting) /\ mem.waiting = Tail(queue.waiting)

NextSnapshot ==
  /\ lock.step = "submit" => Joins \/ RunsAuto \/ RunsUser \/ RunsNext
  /\ lock.step \in {"settle", "terminal"} => queue = mem
  /\ lock.step = "cancelling" => mem.waiting = queue.waiting /\ mem.running = queue.running
  /\ lock.step = "withdraw" =>
       /\ mem.running = queue.running
       /\ \E k \in DOMAIN queue.waiting :
            queue.waiting[k] = lock.turn /\ mem.waiting = RemoveAt(queue.waiting, k)
  /\ lock.step \in {"choose", "unlink", "expireAll"} =>
       mem.waiting = queue.waiting /\ Ended(queue)

\* A process that is not stopping does not leave work waiting behind nothing.
Drained ==
  /\ up = "serving" /\ ~Stopping /\ mem.running = None
  /\ lock.step \in {"free", "submit", "withdraw"}
  => mem.waiting = << >>

\* Sequence s is in the order of the positions `at`.
Increasing(s, at) == \A i, j \in DOMAIN s : i < j => at[s[i]] < at[s[j]]

Ordered ==
  /\ \A t \in Turns : submittedAt[t] <= clock
  /\ Increasing(queue.waiting, submittedAt)

Decided == lock.step \in {"settle", "terminal"} => lock.reason \in {"completed", "aborted", "error"}

SnapshotInv == NextSnapshot /\ Drained /\ Ordered /\ Decided

-----------------------------------------------------------------------------
(* Operations on the waiting list keep its order. *)

LEMMA AppendIncreasing ==
  ASSUME NEW S, NEW s \in Seq(S), NEW x \in S, NEW at \in [S -> Nat], Increasing(s, at),
         \A y \in ToSet(s) : at[y] < at[x]
  PROVE  Increasing(Append(s, x), at)
<1>1. /\ DOMAIN Append(s, x) = 1 .. Len(s) + 1 /\ DOMAIN s = 1 .. Len(s) /\ Len(s) \in Nat
      /\ \A i \in 1 .. Len(s) : Append(s, x)[i] = s[i]
      /\ Append(s, x)[Len(s) + 1] = x
  OBVIOUS
<1>2. \A i \in 1 .. Len(s) : at[s[i]] < at[x]
  BY <1>1 DEF ToSet
<1>3. ASSUME NEW i \in 1 .. Len(s) + 1, NEW j \in 1 .. Len(s) + 1, i < j
      PROVE  at[Append(s, x)[i]] < at[Append(s, x)[j]]
  <2>1. i \in 1 .. Len(s) /\ Append(s, x)[i] = s[i]
    BY <1>1, <1>3
  <2>2. CASE j = Len(s) + 1
    BY <1>1, <1>2, <2>1, <2>2
  <2>3. CASE j # Len(s) + 1
    <3>1. j \in 1 .. Len(s) /\ Append(s, x)[j] = s[j]
      BY <1>1, <2>3
    <3> QED BY <1>1, <1>3, <2>1, <3>1 DEF Increasing
  <2> QED BY <2>2, <2>3
<1> QED BY <1>1, <1>3 DEF Increasing

LEMMA TailIncreasing ==
  ASSUME NEW S, NEW s \in Seq(S), NEW at, Increasing(s, at), s # << >>
  PROVE  Increasing(Tail(s), at)
<1>1. /\ DOMAIN s = 1 .. Len(s) /\ Len(s) \in Nat \ {0} /\ DOMAIN Tail(s) = 1 .. Len(s) - 1
      /\ \A i \in 1 .. Len(s) - 1 : Tail(s)[i] = s[i + 1]
  OBVIOUS
<1>2. ASSUME NEW i \in 1 .. Len(s) - 1, NEW j \in 1 .. Len(s) - 1, i < j
      PROVE  at[s[i + 1]] < at[s[j + 1]]
  <2>1. i + 1 \in DOMAIN s /\ j + 1 \in DOMAIN s /\ i + 1 < j + 1
    BY <1>1, <1>2
  <2> QED BY <2>1 DEF Increasing
<1> QED BY <1>1, <1>2 DEF Increasing

LEMMA RemoveAtIncreasing ==
  ASSUME NEW S, NEW s \in Seq(S), NEW k \in DOMAIN s, NEW at, Increasing(s, at)
  PROVE  Increasing(RemoveAt(s, k), at)
<1> DEFINE c == RemoveAt(s, k)
           old(i) == IF i < k THEN i ELSE i + 1
<1>1. /\ DOMAIN c = 1 .. Len(s) - 1 /\ \A i \in 1 .. Len(s) - 1 : c[i] = s[old(i)]
      /\ DOMAIN s = 1 .. Len(s) /\ k \in 1 .. Len(s) /\ Len(s) \in Nat
  BY RemoveAtItems
<1>2. \A i, j \in 1 .. Len(s) - 1 : i < j => /\ old(i) < old(j)
                                             /\ old(i) \in DOMAIN s /\ old(j) \in DOMAIN s
  BY <1>1
<1> HIDE DEF c, old
<1>3. Increasing(c, at)
  BY <1>1, <1>2 DEF Increasing
<1> QED BY <1>3 DEF c

LEMMA SuffixIncreasing ==
  ASSUME NEW S, NEW s \in Seq(S), NEW k \in 0 .. Len(s), NEW at, Increasing(s, at)
  PROVE  Increasing(SubSeq(s, k + 1, Len(s)), at)
<1> DEFINE rest == SubSeq(s, k + 1, Len(s))
<1>1. /\ DOMAIN s = 1 .. Len(s) /\ Len(s) \in Nat /\ k \in Nat
      /\ DOMAIN rest = 1 .. Len(s) - k /\ \A i \in 1 .. Len(s) - k : rest[i] = s[k + i]
  OBVIOUS
<1> HIDE DEF rest
<1>2. ASSUME NEW i \in 1 .. Len(s) - k, NEW j \in 1 .. Len(s) - k, i < j
      PROVE  at[s[k + i]] < at[s[k + j]]
  <2>1. k + i \in DOMAIN s /\ k + j \in DOMAIN s /\ k + i < k + j
    BY <1>1, <1>2
  <2> QED BY <2>1 DEF Increasing
<1>3. ASSUME NEW i \in DOMAIN rest, NEW j \in DOMAIN rest, i < j
      PROVE  at[rest[i]] < at[rest[j]]
  <2>1. /\ i \in 1 .. Len(s) - k /\ j \in 1 .. Len(s) - k
        /\ rest[i] = s[k + i] /\ rest[j] = s[k + j]
    BY <1>1
  <2> QED BY <1>2, <1>3, <2>1
<1>4. Increasing(rest, at)
  BY <1>3 DEF Increasing
<1> QED BY <1>4 DEF rest

\* The first of an increasing sequence comes before all others.
LEMMA HeadFirst ==
  ASSUME NEW S, NEW s \in Seq(S), NEW at \in [S -> Nat], Increasing(s, at), s # << >>
  PROVE  \A x \in ToSet(s) : at[Head(s)] <= at[x]
<1>1. DOMAIN s = 1 .. Len(s) /\ Len(s) \in Nat \ {0} /\ Head(s) = s[1]
  OBVIOUS
<1>2. ASSUME NEW i \in 1 .. Len(s) PROVE at[s[1]] <= at[s[i]]
  <2>1. CASE i = 1
    <3>1. s[1] \in S
      BY <1>1
    <3> QED BY <2>1, <3>1
  <2>2. CASE i # 1
    <3>1. 1 < i /\ 1 \in DOMAIN s /\ i \in DOMAIN s /\ s[1] \in S /\ s[i] \in S
      BY <1>1, <2>2
    <3> QED BY <3>1 DEF Increasing
  <2> QED BY <2>1, <2>2
<1> QED BY <1>1, <1>2 DEF ToSet

LEMMA SameOrder ==
  ASSUME NEW S, NEW s \in Seq(S), NEW at, NEW after, Increasing(s, at),
         \A x \in ToSet(s) : after[x] = at[x]
  PROVE  Increasing(s, after)
<1>1. \A i \in DOMAIN s : after[s[i]] = at[s[i]]
  BY DEF ToSet
<1> QED BY <1>1 DEF Increasing

-----------------------------------------------------------------------------
(* How an operation begins, and what frames it. *)

LEMMA BatchFields ==
  ASSUME NEW t, NEW a, NEW u
  PROVE  /\ LET l == [Hold("submit", t) EXCEPT !.auto = a, !.user = u]
            IN l.step = "submit" /\ l.turn = t /\ l.auto = a /\ l.user = u
         /\ LET l == [Hold("submit", t) EXCEPT !.auto = a]
            IN l.step = "submit" /\ l.turn = t /\ l.auto = a /\ l.user = None
         /\ LET l == [Hold("submit", t) EXCEPT !.user = u]
            IN l.step = "submit" /\ l.turn = t /\ l.auto = None /\ l.user = u
<1> DEFINE l == Hold("submit", t)
<1>1. /\ l \in [step: {"submit"}, turn: {t}, reason: {None}, auto: {None}, user: {None}]
      /\ l.step = "submit" /\ l.turn = t
  BY DEF Hold, Free
<1> HIDE DEF l
<1>2. /\ LET m == [l EXCEPT !.auto = a, !.user = u]
         IN m.step = "submit" /\ m.turn = t /\ m.auto = a /\ m.user = u
      /\ LET m == [l EXCEPT !.auto = a]
         IN m.step = "submit" /\ m.turn = t /\ m.auto = a /\ m.user = None
      /\ LET m == [l EXCEPT !.user = u]
         IN m.step = "submit" /\ m.turn = t /\ m.auto = None /\ m.user = u
  BY <1>1
<1> QED BY <1>2 DEF l

\* Placing an item changes the waiting list, or what runs, and not both.
LEMMA EnqueueParts ==
  ASSUME NEW q \in Queue, NEW t \in Turns
  PROVE  IF q.running # None \/ Stopping
         THEN Enqueue(q, t).running = q.running /\ Enqueue(q, t).waiting = Append(q.waiting, t)
         ELSE Enqueue(q, t).running = t /\ Enqueue(q, t).waiting = q.waiting
  BY DEF Enqueue, Queue

LEMMA SameSnapshot ==
  ASSUME SnapshotInv, UNCHANGED <<queue, mem, lock, terminal, submittedAt, clock, up>>,
         Stopping => Stopping'
  PROVE  SnapshotInv'
<1>1. Terminated' = Terminated
  BY DEF Terminated
<1>2. NextSnapshot'
  BY <1>1 DEF SnapshotInv, NextSnapshot, Joins, RunsAuto, RunsUser, RunsNext, Joined, Ended
<1>3. Drained' /\ Ordered' /\ Decided'
  BY DEF SnapshotInv, Drained, Ordered, Increasing, Decided
<1> QED BY <1>2, <1>3 DEF SnapshotInv

\* No order changes: an operation begins, or goes on.
LEMMA SameOrdered ==
  ASSUME Ordered, UNCHANGED <<submittedAt, clock>>, queue'.waiting = queue.waiting
  PROVE  Ordered'
  BY DEF Ordered, Increasing

(***************************************************************************)
(* The records of a batch take positions after all others, in the order in *)
(* which the batch joins the waiting list.                                 *)
(***************************************************************************)
LEMMA BatchOrdered ==
  ASSUME TypeOK, Ordered, Stamp(lock.auto, lock.user), NEW s \in Seq(Turns),
         Increasing(s, submittedAt), ToSet(s) \subseteq Submitted,
         lock.auto \notin Submitted, lock.user \notin Submitted
  PROVE  /\ \A t \in Turns : submittedAt'[t] <= clock'
         /\ Increasing(s, submittedAt')
         /\ Increasing(Joined(s), submittedAt')
         /\ lock.user # None => Increasing(Append(s, lock.user), submittedAt')
<1> USE NoneIsNoTurn
<1> DEFINE at == submittedAt'
           a == lock.auto
           u == lock.user
<1>1. /\ a \in Autos \cup {None} /\ u \in Prompts \cup Manuals \cup {None}
      /\ a # None => a \in Turns
      /\ u # None => u \in Turns /\ u # a
      /\ clock \in Nat
  <2>1. a \in Autos \cup {None} /\ u \in Prompts \cup Manuals \cup {None} /\ clock \in Nat
    BY DEF TypeOK, Operation
  <2> QED BY <2>1, SessionQueueAssumption DEF Turns, Compactions
<1>2. /\ at \in [Turns -> Nat]
      /\ \A t \in Turns : at[t] = IF t = a THEN clock + 1 ELSE IF t = u THEN clock + 2
                                  ELSE submittedAt[t]
      /\ clock' = IF a = None /\ u = None THEN clock ELSE clock + 2
  BY <1>1, StampFacts DEF Stamp
<1>3. \A t \in Turns : submittedAt[t] \in Nat /\ submittedAt[t] <= clock
  BY DEF TypeOK, Ordered
<1>4. \A t \in ToSet(s) : t \in Turns /\ at[t] = submittedAt[t] /\ at[t] <= clock
  BY <1>2, <1>3 DEF Submitted
<1> HIDE DEF at, a, u
<1>5. \A t \in Turns : at[t] <= clock'
  <2> TAKE t \in Turns
  <2>1. submittedAt[t] \in Nat /\ submittedAt[t] <= clock /\ clock \in Nat
    BY <1>1, <1>3
  <2>2. CASE a = None /\ u = None
    BY <1>1, <1>2, <2>1, <2>2
  <2>3. CASE ~(a = None /\ u = None)
    BY <1>2, <2>1, <2>3
  <2> QED
    BY <2>2, <2>3
<1>6. Increasing(s, at)
  BY <1>4, SameOrder
<1>7. ASSUME a # None
      PROVE  /\ Append(s, a) \in Seq(Turns) /\ Increasing(Append(s, a), at)
             /\ \A t \in ToSet(Append(s, a)) : at[t] <= clock + 1
  <2>1. \A t \in ToSet(s) : at[t] < at[a]
    BY <1>1, <1>2, <1>4, <1>7
  <2>2. Append(s, a) \in Seq(Turns) /\ ToSet(Append(s, a)) = ToSet(s) \cup {a}
    BY <1>1, <1>7, AppendElements
  <2>3. Increasing(Append(s, a), at)
    BY <1>1, <1>2, <1>6, <1>7, <2>1, AppendIncreasing
  <2>4. \A t \in ToSet(s) \cup {a} : at[t] <= clock + 1
    BY <1>1, <1>2, <1>4, <1>7
  <2> QED BY <2>2, <2>3, <2>4
<1>8. ASSUME u # None, NEW w \in Seq(Turns), Increasing(w, at),
             \A t \in ToSet(w) : at[t] <= clock + 1
      PROVE  Increasing(Append(w, u), at)
  <2>1. \A t \in ToSet(w) : at[t] < at[u]
    <3>1. at[u] = clock + 2 /\ \A t \in ToSet(w) : t \in Turns
      BY <1>1, <1>2, <1>8 DEF ToSet
    <3> QED BY <1>1, <1>2, <1>8, <3>1
  <2> QED BY <1>1, <1>2, <1>8, <2>1, AppendIncreasing
<1>9. \A t \in ToSet(s) : at[t] <= clock + 1
  BY <1>1, <1>2, <1>4
<1>10. u # None => Increasing(Append(s, u), at)
  BY <1>6, <1>8, <1>9
<1>11. Increasing(Joined(s), at)
  <2>1. CASE a = None
    BY <1>6, <1>10, <2>1 DEF Joined, a, u
  <2>2. CASE a # None
    BY <1>7, <1>8, <2>2 DEF Joined, a, u
  <2> QED BY <2>1, <2>2
<1> QED BY <1>5, <1>6, <1>10, <1>11 DEF at, u

-----------------------------------------------------------------------------
(* Every operation prepares a snapshot that the lifecycle allows. *)

LEMMA SnapshotInit == Init => SnapshotInv
<1> SUFFICES ASSUME Init PROVE SnapshotInv
  OBVIOUS
<1>1. lock.step = "free" /\ mem.waiting = << >> /\ queue.waiting = << >> /\ clock = 0
      /\ \A t \in Turns : submittedAt[t] = 0
  BY DEF Init, Free, EmptyQueue
<1>2. NextSnapshot /\ Drained /\ Decided
  BY <1>1 DEF NextSnapshot, Drained, Decided
<1>3. Ordered
  BY <1>1 DEF Ordered, Increasing
<1> QED BY <1>2, <1>3 DEF SnapshotInv

LEMMA AdmitPrepares ==
  ASSUME TypeInv, RunInv, SnapshotInv, NEW p \in Prompts, Admit(p)
  PROVE  SnapshotInv'
<1> USE NoneIsNoTurn DEF durableVars, processVars, turnVars
<1>1. PICK a \in MaybeCompaction(mem) :
        LET behind == IF a = None THEN mem ELSE Enqueue(mem, a)
            next == Enqueue(behind, p)
        IN /\ mem' = next
           /\ lock' = [Hold("submit", IF mem.running = None THEN next.running ELSE None)
                         EXCEPT !.auto = a, !.user = p]
  BY DEF Admit
<1> DEFINE behind == IF a = None THEN mem ELSE Enqueue(mem, a)
<1>2. /\ a \in Autos \cup {None} /\ (a # None => a \in Turns /\ ~Stopping)
      /\ p \in Turns /\ p # None /\ p # a /\ mem \in Queue
  <2>1. a # None => ~Stopping
    BY DEF MaybeCompaction
  <2>2. p \notin Autos /\ p \in Turns
    BY SessionQueueAssumption DEF Turns, Compactions
  <2> QED BY <2>1, <2>2, MaybeCompactionFacts DEF TypeInv, TypeOK
<1>3. /\ lock'.step = "submit" /\ lock'.auto = a /\ lock'.user = p
      /\ lock'.turn = IF mem.running = None THEN mem'.running ELSE None
  BY <1>1, BatchFields
<1>4. up = "serving" /\ lock.step = "free" /\ queue = mem
  BY DEF Admit, Unlocked, RunInv, QueueMatchesSlot
<1>5. behind \in Queue /\ mem' = Enqueue(behind, p)
  BY <1>1, <1>2, EnqueueFacts
<1>6. CASE mem.running # None \/ Stopping
  <2>1. /\ behind.running = mem.running
        /\ behind.waiting = IF a = None THEN mem.waiting ELSE Append(mem.waiting, a)
    BY <1>2, <1>6, EnqueueParts
  <2>2. mem'.running = mem.running /\ mem'.waiting = Append(behind.waiting, p)
    BY <1>2, <1>5, <1>6, <2>1, EnqueueParts
  <2>3. queue' = mem /\ lock'.turn = None
    BY <1>3, <1>4, <2>2 DEF Admit
  <2>4. Joins'
    BY <1>2, <1>3, <2>1, <2>2, <2>3 DEF Joins, Joined
  <2>5. NextSnapshot'
    BY <1>3, <2>4 DEF NextSnapshot
  <2>6. mem'.running = None => Stopping'
    BY <1>6, <2>2 DEF Admit, Stopping
  <2> QED BY <1>3, <2>5, <2>6, SameOrdered DEF SnapshotInv, Drained, Decided, Admit
<1>7. CASE ~(mem.running # None \/ Stopping)
  <2>1. mem.waiting = << >> /\ queue.waiting = << >> /\ queue.running = None
    BY <1>4, <1>7 DEF SnapshotInv, Drained
  <2>2. queue' = queue /\ Ended(queue)'
    BY <2>1 DEF Admit, Ended
  <2>3. RunsAuto' \/ RunsUser'
    <3>1. CASE a = None
      <4>1. mem'.running = p /\ mem'.waiting = << >>
        BY <1>2, <1>5, <1>7, <2>1, <3>1, EnqueueParts
      <4> QED BY <1>2, <1>3, <1>7, <2>1, <2>2, <3>1, <4>1 DEF RunsUser
    <3>2. CASE a # None
      <4>1. behind.running = a /\ behind.waiting = mem.waiting
        BY <1>2, <1>7, <3>2, EnqueueParts
      <4>2. mem'.running = a /\ mem'.waiting = Append(queue.waiting, p)
        BY <1>2, <1>5, <2>1, <3>2, <4>1, EnqueueParts
      <4> QED BY <1>2, <1>3, <1>7, <2>1, <2>2, <3>2, <4>2 DEF RunsAuto
    <3> QED BY <3>1, <3>2
  <2>4. NextSnapshot'
    BY <1>3, <2>3 DEF NextSnapshot
  <2>5. mem'.running # None
    BY <1>2, <1>3, <1>7, <2>3 DEF RunsAuto, RunsUser
  <2> QED BY <1>3, <2>4, <2>5, SameOrdered DEF SnapshotInv, Drained, Decided, Admit
<1> QED BY <1>6, <1>7

LEMMA CompactPrepares ==
  ASSUME TypeInv, RunInv, SnapshotInv, NEW m \in Manuals, Compact(m)
  PROVE  SnapshotInv'
<1> USE NoneIsNoTurn DEF durableVars, processVars, turnVars
<1>1. mem' = Enqueue(mem, m) /\ m \in Turns /\ m # None /\ mem \in Queue
  BY DEF Compact, Turns, Compactions, TypeInv, TypeOK
<1>2. /\ lock'.step = "submit" /\ lock'.auto = None /\ lock'.user = m
      /\ lock'.turn = IF mem.running = None THEN mem'.running ELSE None
  BY BatchFields DEF Compact
<1>3. up = "serving" /\ lock.step = "free" /\ queue = mem /\ queue' = queue
  BY DEF Compact, Unlocked, RunInv, QueueMatchesSlot
<1>4. CASE mem.running # None \/ Stopping
  <2>1. mem'.running = mem.running /\ mem'.waiting = Append(mem.waiting, m)
    BY <1>1, <1>4, EnqueueParts
  <2>2. Joins'
    BY <1>1, <1>2, <1>3, <2>1 DEF Joins, Joined
  <2>3. NextSnapshot'
    BY <1>2, <2>2 DEF NextSnapshot
  <2>4. mem'.running = None => Stopping'
    BY <1>4, <2>1 DEF Compact, Stopping
  <2> QED BY <1>2, <2>3, <2>4, SameOrdered DEF SnapshotInv, Drained, Decided, Compact
<1>5. CASE ~(mem.running # None \/ Stopping)
  <2>1. mem.waiting = << >> /\ queue.waiting = << >> /\ queue.running = None
    BY <1>3, <1>5 DEF SnapshotInv, Drained
  <2>2. mem'.running = m /\ mem'.waiting = << >>
    BY <1>1, <1>5, <2>1, EnqueueParts
  <2>3. RunsUser'
    BY <1>1, <1>2, <1>3, <1>5, <2>1, <2>2 DEF RunsUser, Ended
  <2>4. NextSnapshot'
    BY <1>2, <2>3 DEF NextSnapshot
  <2> QED BY <1>1, <1>2, <2>2, <2>4, SameOrdered DEF SnapshotInv, Drained, Decided, Compact
<1> QED BY <1>4, <1>5

LEMMA ChoicePrepares ==
  ASSUME TypeInv, RunInv, SnapshotInv, up = "serving", ChooseNext
  PROVE  SnapshotInv'
<1> USE NoneIsNoTurn DEF durableVars, processVars, turnVars
<1>1. PICK a \in MaybeCompaction(mem) :
        /\ mem' = IF a # None THEN Enqueue(mem, a) ELSE TakeNext(mem)
        /\ lock' = [Hold("submit", mem'.running) EXCEPT !.auto = a]
  BY DEF ChooseNext
<1>2. /\ a \in Autos \cup {None} /\ (a # None => a \in Turns /\ ~Stopping) /\ mem \in Queue
  <2>1. a # None => ~Stopping
    BY DEF MaybeCompaction
  <2> QED BY <2>1, MaybeCompactionFacts DEF TypeInv, TypeOK
<1>3. /\ lock'.step = "submit" /\ lock'.auto = a /\ lock'.user = None
      /\ lock'.turn = mem'.running
  BY <1>1, BatchFields
<1>4. /\ lock.step = "choose" /\ mem.running = None
      /\ mem.waiting = queue.waiting /\ Ended(queue)
      /\ UNCHANGED <<queue, terminal, submittedAt, clock, up, shutdown>>
  BY DEF ChooseNext, RunInv, QueueMatchesSlot, SnapshotInv, NextSnapshot
<1>5. Ended(queue)'
  BY <1>4 DEF Ended, Terminated
<1>6. NextSnapshot' /\ Drained'
  <2>1. CASE a # None
    <3>1. mem'.running = a /\ mem'.waiting = mem.waiting
      BY <1>1, <1>2, <1>4, <2>1, EnqueueParts
    <3>2. RunsAuto'
      BY <1>3, <1>4, <1>5, <2>1, <3>1 DEF RunsAuto
    <3> QED BY <1>3, <2>1, <3>1, <3>2 DEF NextSnapshot, Drained
  <2>2. CASE a = None /\ (mem.waiting = << >> \/ (Stopping /\ lock.turn # None))
    <3>1. mem' = mem
      BY <1>1, <2>2 DEF TakeNext
    <3>2. Joins'
      BY <1>3, <1>4, <1>5, <2>2, <3>1 DEF Joins, Joined
    <3> QED BY <1>3, <1>4, <2>2, <3>1, <3>2 DEF NextSnapshot, Drained, Stopping
  <2>3. CASE a = None /\ ~(mem.waiting = << >> \/ (Stopping /\ lock.turn # None))
    <3> DEFINE h == Head(mem.waiting)
               w == Tail(mem.waiting)
    <3>1. mem' = [mem EXCEPT !.running = h, !.waiting = w]
      BY <1>1, <2>3 DEF TakeNext
    <3>2. h \in Turns
      BY <1>2, <2>3, TailElements DEF Queue
    <3> HIDE DEF h, w
    <3>3. mem'.running = h /\ mem'.waiting = w
      BY <1>2, <3>1 DEF Queue
    <3>4. RunsNext'
      BY <1>3, <1>4, <1>5, <2>3, <3>2, <3>3 DEF RunsNext, h, w
    <3> QED BY <1>3, <3>2, <3>3, <3>4 DEF NextSnapshot, Drained
  <2> QED BY <2>1, <2>2, <2>3
<1> QED BY <1>3, <1>4, <1>6, SameOrdered DEF SnapshotInv, Decided

LEMMA SubmissionOrders ==
  ASSUME TypeInv, RunInv, AccountInv, SnapshotInv, AppendSubmission
  PROVE  SnapshotInv'
<1> USE NoneIsNoTurn DEF processVars
<1>1. /\ lock.step = "submit" /\ Stamp(lock.auto, lock.user) /\ queue' = mem
      /\ lock'.step = "free" /\ UNCHANGED <<mem, up, shutdown>>
  BY HoldKeeps DEF AppendSubmission
<1> DEFINE s == queue.waiting
<1>2. s \in Seq(Turns) /\ ToSet(s) \subseteq Submitted /\ Increasing(s, submittedAt)
  BY DEF TypeInv, TypeOK, Queue, Remembered, Queued, SnapshotInv, Ordered
<1>3. lock.auto \notin Submitted /\ lock.user \notin Submitted
  BY <1>1 DEF AccountInv, AheadOfLog
<1>4. /\ \A t \in Turns : submittedAt'[t] <= clock'
      /\ Increasing(s, submittedAt') /\ Increasing(Joined(s), submittedAt')
      /\ lock.user # None => Increasing(Append(s, lock.user), submittedAt')
  BY <1>1, <1>2, <1>3, BatchOrdered DEF TypeInv, SnapshotInv
<1>5. Increasing(mem.waiting, submittedAt')
  <2>1. Joins \/ RunsAuto \/ RunsUser \/ RunsNext
    BY <1>1 DEF SnapshotInv, NextSnapshot
  <2>2. CASE Joins
    BY <1>4, <2>2 DEF Joins
  <2>3. CASE RunsAuto
    BY <1>4, <2>3 DEF RunsAuto
  <2>4. CASE RunsUser
    BY <1>4, <2>4 DEF RunsUser
  <2>5. CASE RunsNext
    BY <1>2, <1>4, <2>5, TailIncreasing DEF RunsNext
  <2> QED BY <2>1, <2>2, <2>3, <2>4, <2>5
<1>6. Ordered'
  BY <1>1, <1>4, <1>5 DEF Ordered, Increasing
<1>7. NextSnapshot' /\ Drained' /\ Decided'
  BY <1>1 DEF NextSnapshot, Drained, Decided, SnapshotInv, Stopping
<1> QED BY <1>6, <1>7 DEF SnapshotInv

LEMMA SnapshotNext ==
  TypeInv /\ RunInv /\ AccountInv /\ SnapshotInv /\ [Next]_vars => SnapshotInv'
<1> SUFFICES ASSUME TypeInv, RunInv, AccountInv, SnapshotInv, [Next]_vars PROVE SnapshotInv'
  OBVIOUS
<1> USE NoneIsNoTurn DEF durableVars, processVars, turnVars
<1>0. /\ TypeOK /\ (up # "serving" => lock.step = "free")
      /\ mem \in Queue /\ queue \in Queue /\ mem.running \in Turns \cup {None}
      /\ Ordered
  BY DEF TypeInv, Addressed, TypeOK, Queue, SnapshotInv
<1>3. ASSUME NEW t \in Turns, CancelRunning(t) PROVE SnapshotInv'
  <2>1. /\ mem' = [mem EXCEPT !.cancelling = TRUE] /\ queue = mem /\ lock'.step = "cancelling"
        /\ UNCHANGED <<queue, submittedAt, clock>>
    BY <1>3, HoldKeeps DEF CancelRunning, Unlocked, RunInv, QueueMatchesSlot
  <2>2. mem'.waiting = queue.waiting /\ mem'.running = queue.running
    BY <1>0, <2>1 DEF Queue
  <2>3. NextSnapshot' /\ Drained' /\ Decided'
    BY <2>1, <2>2 DEF NextSnapshot, Drained, Decided
  <2> QED BY <1>0, <2>1, <2>3, SameOrdered DEF SnapshotInv
<1>4. ASSUME NEW t \in Turns, CancelWaiting(t) PROVE SnapshotInv'
  <2>1. PICK k \in DOMAIN mem.waiting : mem.waiting[k] = t /\ mem' = [mem EXCEPT !.waiting = RemoveAt(@, k)]
    BY <1>4 DEF CancelWaiting
  <2>2. /\ queue = mem /\ lock.step = "free" /\ lock'.step = "withdraw" /\ lock'.turn = t
        /\ UNCHANGED <<queue, submittedAt, clock, up, shutdown>>
    BY <1>4, HoldKeeps DEF CancelWaiting, Unlocked, RunInv, QueueMatchesSlot
  <2>3. mem'.waiting = RemoveAt(queue.waiting, k) /\ mem'.running = queue.running
    BY <1>0, <2>1, <2>2 DEF Queue
  <2>4. NextSnapshot' /\ Decided'
    BY <2>1, <2>2, <2>3 DEF NextSnapshot, Decided
  <2>5. Drained'
    <3>1. mem.waiting # << >>
      BY <2>1
    <3> QED BY <2>2, <2>3, <3>1 DEF SnapshotInv, Drained, Stopping
  <2> QED BY <1>0, <2>2, <2>4, <2>5, SameOrdered DEF SnapshotInv
<1>6. CASE AppendCancelling
  <2>1. /\ lock.step = "cancelling" /\ lock'.step = "free" /\ queue' = mem /\ mem.running # None
        /\ UNCHANGED <<mem, submittedAt, clock>>
    BY <1>6, HoldKeeps DEF AppendCancelling, RunInv, QueueMatchesSlot, TypeInv, Addressed
  <2>2. queue'.waiting = queue.waiting
    BY <2>1 DEF SnapshotInv, NextSnapshot
  <2>3. NextSnapshot' /\ Drained' /\ Decided'
    BY <2>1 DEF NextSnapshot, Drained, Decided
  <2> QED BY <1>0, <2>1, <2>2, <2>3, SameOrdered DEF SnapshotInv
<1>7. CASE AppendWithdrawal
  <2>1. /\ lock.step = "withdraw" /\ lock'.step = "free" /\ queue' = mem
        /\ UNCHANGED <<mem, submittedAt, clock, up, shutdown>>
    BY <1>7, HoldKeeps DEF AppendWithdrawal
  <2>2. PICK k \in DOMAIN queue.waiting : mem.waiting = RemoveAt(queue.waiting, k)
    BY <2>1 DEF SnapshotInv, NextSnapshot
  <2>3. Increasing(mem.waiting, submittedAt)
    BY <1>0, <2>2, RemoveAtIncreasing DEF Ordered, Queue
  <2>4. NextSnapshot' /\ Drained' /\ Decided'
    BY <2>1 DEF NextSnapshot, Drained, Decided, SnapshotInv, Stopping
  <2> QED BY <1>0, <2>1, <2>3, <2>4 DEF SnapshotInv, Ordered, Increasing
<1>8. CASE SettleTurn
  <2>1. /\ lock.step = "settle" /\ lock'.step = "terminal" /\ lock'.reason = lock.reason
        /\ UNCHANGED <<queue, mem, submittedAt, clock>>
    BY <1>0, <1>8 DEF SettleTurn, TypeOK, Operation
  <2>2. NextSnapshot' /\ Drained' /\ Decided'
    BY <2>1 DEF SnapshotInv, NextSnapshot, Drained, Decided
  <2> QED BY <1>0, <2>1, <2>2, SameOrdered DEF SnapshotInv
<1>9. CASE FinishTurn
  <2>1. /\ lock.step = "terminal" /\ queue = mem /\ lock'.step = "choose"
        /\ mem.running = lock.turn /\ lock.turn \in Turns
        /\ mem' = [mem EXCEPT !.running = None, !.cancelling = FALSE]
        /\ terminal' = [terminal EXCEPT ![lock.turn] = Append(@, lock.reason)]
        /\ UNCHANGED <<queue, submittedAt, clock>>
    BY <1>0, <1>9, HoldKeeps
       DEF FinishTurn, SnapshotInv, NextSnapshot, RunInv, QueueMatchesSlot, TypeInv, Addressed
  <2>2. mem'.waiting = queue.waiting
    BY <1>0, <2>1 DEF Queue
  <2>3. queue.running \in Terminated'
    <3>1. terminal[lock.turn] \in Seq(Reasons) /\ lock.reason \in Reasons
      BY <1>0, <2>1 DEF TypeInv, Addressed, TypeOK, Operation
    <3>2. Append(terminal[lock.turn], lock.reason) # << >>
      BY <3>1, AppendNonempty, Zenon
    <3> QED BY <1>0, <2>1, <3>2 DEF Terminated, TypeOK
  <2>4. NextSnapshot' /\ Drained' /\ Decided'
    BY <2>1, <2>2, <2>3 DEF NextSnapshot, Ended, Drained, Decided
  <2> QED BY <1>0, <2>1, <2>4, SameOrdered DEF SnapshotInv
<1>10. CASE Prune \/ UnlinkImported
  <2>1. /\ lock.step \in {"choose", "unlink"} /\ lock'.step \in {"choose", "expireAll"}
        /\ queue' = mem /\ mem.running = None /\ queue'.waiting = queue.waiting
        /\ UNCHANGED <<mem, submittedAt, clock>>
    BY <1>10, HoldKeeps DEF Prune, UnlinkImported, RunInv, QueueMatchesSlot, SnapshotInv, NextSnapshot
  <2>2. NextSnapshot' /\ Drained' /\ Decided'
    BY <2>1 DEF NextSnapshot, Ended, Drained, Decided
  <2> QED BY <1>0, <2>1, <2>2, SameOrdered DEF SnapshotInv
<1>12. ASSUME NEW p \in Prompts, Deliver(p) PROVE SnapshotInv'
  BY <1>12, SameSnapshot DEF Deliver, Stopping
<1>13. ASSUME NEW t \in Turns, ReportUsage(t) PROVE SnapshotInv'
  BY <1>13, SameSnapshot DEF ReportUsage, Stopping
<1>14. ASSUME NEW t \in Turns, HarnessEnds(t) PROVE SnapshotInv'
  BY <1>14, SameSnapshot DEF HarnessEnds, Stopping
<1>15. ASSUME NEW t \in Turns, CompleteTurn(t) PROVE SnapshotInv'
  <2>1. PICK failed \in BOOLEAN : lock' = [Hold("settle", t) EXCEPT !.reason = FinalReason(t, failed)]
    BY <1>15 DEF CompleteTurn
  <2>2. lock'.step = "settle" /\ lock'.reason = FinalReason(t, failed)
    BY <2>1 DEF Hold, Free
  <2>3. FinalReason(t, failed) \in {"completed", "aborted", "error"}
    BY DEF FinalReason
  <2>4. queue = mem /\ UNCHANGED <<queue, mem, submittedAt, clock>>
    BY <1>15 DEF CompleteTurn, Unlocked, RunInv, QueueMatchesSlot
  <2>5. NextSnapshot' /\ Drained' /\ Decided'
    BY <2>2, <2>3, <2>4 DEF NextSnapshot, Drained, Decided
  <2> QED BY <1>0, <2>4, <2>5, SameOrdered DEF SnapshotInv
<1>16. ASSUME NEW t \in Turns, Settle(t) PROVE SnapshotInv'
  BY <1>16, SameSnapshot DEF Settle, Stopping
<1>17. CASE AbortSession \/ AskShutdown \/ ShutdownAborts \/ UNCHANGED vars
  BY <1>17, SameSnapshot DEF AbortSession, AskShutdown, ShutdownAborts, vars, Stopping
<1>18. CASE Crash \/ Exit
  <2>1. up' = "down" /\ lock'.step = "free" /\ UNCHANGED <<queue, submittedAt, clock>>
    BY <1>18 DEF Crash, Exit, Lose, Free
  <2>2. NextSnapshot' /\ Drained' /\ Decided'
    BY <2>1 DEF NextSnapshot, Drained, Decided
  <2> QED BY <1>0, <2>1, <2>2, SameOrdered DEF SnapshotInv
<1>19. ASSUME NEW asImport \in BOOLEAN, Restart(asImport) PROVE SnapshotInv'
  <2>1. /\ mem' = queue /\ lock.step = "free" /\ (up' = "serving" => queue.waiting = << >>)
        /\ UNCHANGED <<lock, queue, submittedAt, clock>>
    BY <1>0, <1>19, RestoreIsIdentity DEF Restart, TypeInv, IsIdle
  <2>2. NextSnapshot' /\ Drained' /\ Decided'
    BY <2>1 DEF NextSnapshot, Drained, Decided
  <2> QED BY <1>0, <2>1, <2>2, SameOrdered DEF SnapshotInv
<1>20. CASE RecoverSession
  <2>1. lock'.step \in {"recover", "expire"} /\ UNCHANGED <<queue, submittedAt, clock>>
    BY <1>20, HoldKeeps DEF RecoverSession
  <2>2. NextSnapshot' /\ Drained' /\ Decided'
    BY <2>1 DEF NextSnapshot, Drained, Decided
  <2> QED BY <1>0, <2>1, <2>2, SameOrdered DEF SnapshotInv
<1>21. CASE ExpireOld \/ ExpireAll
  <2>1. PICK k \in 0 .. Len(mem.waiting) :
          DrainExpired(k) /\ (ExpireAll => k = Len(mem.waiting))
    <3>1. Len(mem.waiting) \in 0 .. Len(mem.waiting)
      BY <1>0 DEF Queue
    <3>2. ExpireOld => lock.step = "expire"
      BY DEF ExpireOld
    <3>3. ExpireAll => lock.step = "expireAll" /\ DrainExpired(Len(mem.waiting))
      BY DEF ExpireAll
    <3>4. ExpireOld => \E k \in 0 .. Len(mem.waiting) : DrainExpired(k)
      BY DEF ExpireOld
    <3> QED BY <1>21, <3>1, <3>2, <3>3, <3>4
  <2> DEFINE rest == SubSeq(mem.waiting, k + 1, Len(mem.waiting))
  <2>2. mem' = [mem EXCEPT !.waiting = rest] /\ queue' = mem'
    BY <2>1 DEF DrainExpired
  <2>3. mem.waiting = queue.waiting /\ UNCHANGED <<submittedAt, clock>>
    BY <1>21 DEF ExpireOld, ExpireAll, RunInv, QueueMatchesSlot, SnapshotInv, NextSnapshot
  <2>4. Increasing(rest, submittedAt)
    BY <1>0, <2>3, SuffixIncreasing DEF Ordered, Queue
  <2>5. ExpireAll => rest = << >>
    BY <1>0, <2>1 DEF Queue
  <2>6. /\ ExpireAll => lock'.step = "free"
        /\ ExpireOld => lock'.step = "recover"
    BY HoldKeeps DEF ExpireOld, ExpireAll
  <2> HIDE DEF rest
  <2>7. mem'.waiting = rest /\ queue'.waiting = rest
    BY <1>0, <2>2 DEF Queue
  <2>8. NextSnapshot' /\ Drained' /\ Decided'
    BY <1>21, <2>5, <2>6, <2>7 DEF NextSnapshot, Drained, Decided
  <2>9. Ordered'
    BY <1>0, <2>3, <2>4, <2>7 DEF Ordered, Increasing
  <2> QED BY <2>8, <2>9 DEF SnapshotInv
<1>23. CASE RecoverRunning
  <2>1. /\ lock.step = "recover" /\ queue = mem /\ mem.running \in Turns
        /\ lock'.step \in {"unlink", "choose"}
        /\ mem' = [mem EXCEPT !.running = None, !.cancelling = FALSE]
        /\ UNCHANGED <<queue, submittedAt, clock>>
    BY <1>0, <1>23, HoldKeeps DEF RecoverRunning, RunInv, QueueMatchesSlot
  <2>2. mem'.waiting = queue.waiting
    BY <1>0, <2>1 DEF Queue
  <2>3. queue.running \in Terminated'
    <3> DEFINE t == mem.running
    <3>1. CASE terminal[t] # << >>
      BY <1>23, <2>1, <3>1 DEF RecoverRunning, Terminated
    <3>2. CASE terminal[t] = << >>
      <4>1. terminal' = [terminal EXCEPT ![t] = Append(@, RecoveryReason(t))]
        BY <1>23, <3>2 DEF RecoverRunning
      <4>2. Append(<< >>, RecoveryReason(t)) # << >>
        OBVIOUS
      <4> QED BY <1>0, <2>1, <3>2, <4>1, <4>2 DEF Terminated, TypeOK
    <3> QED BY <3>1, <3>2
  <2>4. NextSnapshot' /\ Drained' /\ Decided'
    BY <2>1, <2>2, <2>3 DEF NextSnapshot, Ended, Drained, Decided
  <2> QED BY <1>0, <2>1, <2>4, SameOrdered DEF SnapshotInv
<1>24. CASE RecoverNothingRunning
  <2>1. /\ lock.step = "recover" /\ queue = mem /\ mem.running = None
        /\ lock'.step \in {"expireAll", "free", "choose"} /\ (lock'.step = "free" => Stopping)
        /\ UNCHANGED <<queue, mem, submittedAt, clock, shutdown>>
    BY <1>24, HoldKeeps DEF RecoverNothingRunning, AfterNothing, RunInv, QueueMatchesSlot
  <2>2. NextSnapshot' /\ Drained' /\ Decided'
    BY <2>1 DEF NextSnapshot, Ended, Drained, Decided, Stopping
  <2> QED BY <1>0, <2>1, <2>2, SameOrdered DEF SnapshotInv
<1>26. CASE Clients
  BY <1>3, <1>4, <1>26, AdmitPrepares, CompactPrepares DEF Clients
<1>27. CASE Appends
  <2>1. ChooseNext => up = "serving"
    BY <1>0 DEF ChooseNext
  <2> QED BY <1>6, <1>7, <1>8, <1>9, <1>10, <1>27, <2>1, SubmissionOrders, ChoicePrepares DEF Appends
<1>28. CASE Harness
  BY <1>12, <1>13, <1>14, <1>15, <1>16, <1>28 DEF Harness
<1>29. CASE Process
  BY <1>17, <1>18, <1>29 DEF Process
<1>30. CASE Recovery
  BY <1>10, <1>19, <1>20, <1>21, <1>23, <1>24, <1>30 DEF Recovery
<1> QED BY <1>17, <1>26, <1>27, <1>28, <1>29, <1>30 DEF Next

-----------------------------------------------------------------------------
(* The log, step by step, as the lifecycle sees it. *)

Shown == IF queue.running = None \/ queue.running \in Terminated THEN None ELSE queue.running
Outcome == [t \in Turns |-> IF terminal[t] = << >> THEN None ELSE terminal[t][1]]

LifecycleStep == [Lifecycle!Next]_(Lifecycle!vars)

\* What the lifecycle calls accepted has been submitted.
LEMMA AcceptedFacts ==
  ASSUME TypeInv, AccountInv
  PROVE  /\ Lifecycle!Accepted \subseteq Submitted
         /\ \A t \in Turns : Outcome[t] # None <=> t \in Terminated
         /\ Shown \in Turns \cup {None} /\ None \notin Turns
<1> USE NoneIsNoTurn
<1>1. \A t \in Turns : Outcome[t] # None <=> t \in Terminated
  <2> TAKE t \in Turns
  <2>1. terminal[t] \in Seq(Reasons)
    BY DEF TypeInv, TypeOK
  <2>2. terminal[t] # << >> => terminal[t][1] \in Reasons
    BY <2>1
  <2> QED BY <2>2, ReasonFacts DEF Outcome, Terminated
<1>2. Shown \in Turns \cup {None}
  BY DEF Shown, TypeInv, TypeOK, Queue
<1>3. ToSet(queue.waiting) \cup ({Shown} \ {None}) \cup Terminated \subseteq Submitted
  BY DEF TypeInv, Remembered, Queued, AccountInv, Logged, Past, Shown
<1>4. Lifecycle!Accepted = ToSet(queue.waiting) \cup ({Shown} \ {None}) \cup {t \in Turns : Outcome[t] # None}
  BY DEF Lifecycle!Accepted, Lifecycle!ToSet, ToSet, Shown, Outcome
<1> QED BY <1>1, <1>2, <1>3, <1>4 DEF Terminated

LEMMA LifecycleInit == Init => Lifecycle!Init
<1> SUFFICES ASSUME Init PROVE Lifecycle!Init
  OBVIOUS
<1>1. queue.waiting = << >> /\ queue.running = None /\ cancelRequested = {}
  BY DEF Init, EmptyQueue
<1>2. [t \in Turns |-> IF terminal[t] = << >> THEN None ELSE terminal[t][1]] = [t \in Turns |-> None]
  BY DEF Init
<1> QED BY <1>1, <1>2 DEF Lifecycle!Init

LEMMA LogStutters ==
  ASSUME terminal' = terminal, cancelRequested' = cancelRequested,
         queue'.waiting = queue.waiting, Shown' = Shown
  PROVE  LifecycleStep
  BY DEF LifecycleStep, Lifecycle!vars, Shown

\* What the awaited batch submits, as a sequence.
Batch ==
  IF lock.auto = None THEN IF lock.user = None THEN << >> ELSE <<lock.user>>
  ELSE IF lock.user = None THEN <<lock.auto>> ELSE <<lock.auto, lock.user>>

LEMMA BatchFacts ==
  ASSUME TypeInv, AccountInv, lock.step = "submit", NEW s \in Seq(Turns)
  PROVE  /\ Joined(s) = s \o Batch
         /\ Batch # << >> => /\ Batch \in Lifecycle!Batches
                             /\ ToSet(Batch) \cap Submitted = {} /\ IsInjective(Batch)
         /\ lock.auto # None =>
              /\ Batch # << >> /\ Head(Batch) = lock.auto
              /\ (IF lock.user = None THEN s ELSE Append(s, lock.user)) = s \o Tail(Batch)
         /\ lock.auto = None /\ lock.user # None =>
              Batch # << >> /\ Head(Batch) = lock.user /\ Tail(Batch) = << >>
<1> DEFINE a == lock.auto
           u == lock.user
<1>1. /\ a # None => a \in Autos /\ a \in Turns
      /\ u # None => u \in Turns
      /\ a # None /\ u # None => a # u
      /\ a \notin Submitted /\ u \notin Submitted
  <2>1. a \in Autos \cup {None} /\ u \in Prompts \cup Manuals \cup {None}
    BY DEF TypeInv, TypeOK, Operation
  <2>2. a \notin Submitted /\ u \notin Submitted
    BY DEF AccountInv, AheadOfLog
  <2> QED BY <2>1, <2>2, SessionQueueAssumption DEF Turns, Compactions
<1> HIDE DEF a, u
<1>2. /\ s \o << >> = s
      /\ a # None => Append(s, a) = s \o <<a>>
      /\ u # None => Append(s, u) = s \o <<u>>
      /\ a # None /\ u # None => Append(Append(s, a), u) = s \o <<a, u>>
  <2>1. \A x, y \in Turns : /\ Append(s, x) = s \o <<x>>
                            /\ Append(Append(s, x), y) = s \o <<x, y>>
    BY ConcatShort
  <2> QED BY <1>1, <2>1, ConcatEmptySeq
<1>3. CASE a = None /\ u = None
  BY <1>2, <1>3 DEF Batch, Joined, a, u
<1>4. CASE a = None /\ u # None
  <2>1. Batch = <<u>> /\ Joined(s) = Append(s, u)
    BY <1>4 DEF Batch, Joined, a, u
  <2>2. Batch \in Lifecycle!Batches
    BY <1>1, <1>4, <2>1 DEF Lifecycle!Batches
  <2>3. ToSet(Batch) \cap Submitted = {} /\ IsInjective(Batch)
    BY <1>1, <2>1, ShortSequences
  <2> QED BY <1>2, <1>4, <2>1, <2>2, <2>3, ShortSequences DEF a, u
<1>5. CASE a # None /\ u = None
  <2>1. Batch = <<a>> /\ Joined(s) = Append(s, a)
    BY <1>5 DEF Batch, Joined, a, u
  <2>2. Batch \in Lifecycle!Batches
    BY <1>1, <1>5, <2>1 DEF Lifecycle!Batches
  <2>3. ToSet(Batch) \cap Submitted = {} /\ IsInjective(Batch)
    BY <1>1, <2>1, ShortSequences
  <2> QED BY <1>2, <1>5, <2>1, <2>2, <2>3, ShortSequences DEF a, u
<1>6. CASE a # None /\ u # None
  <2>1. Batch = <<a, u>> /\ Joined(s) = Append(Append(s, a), u)
    BY <1>6 DEF Batch, Joined, a, u
  <2>2. Batch \in Lifecycle!Batches
    BY <1>1, <1>6, <2>1 DEF Lifecycle!Batches
  <2>3. ToSet(Batch) \cap Submitted = {} /\ IsInjective(Batch)
    BY <1>1, <1>6, <2>1, ShortSequences
  <2> QED BY <1>2, <1>6, <2>1, <2>2, <2>3, ShortSequences DEF a, u
<1> QED BY <1>3, <1>4, <1>5, <1>6 DEF a, u

LEMMA SubmissionStep ==
  ASSUME TypeInv, RunInv, AccountInv, SnapshotInv, AppendSubmission
  PROVE  LifecycleStep
<1> USE NoneIsNoTurn
<1> DEFINE s == queue.waiting
<1>1. /\ lock.step = "submit" /\ queue' = mem /\ terminal' = terminal
      /\ cancelRequested' = cancelRequested /\ s \in Seq(Turns)
  BY DEF AppendSubmission, TypeInv, TypeOK, Queue
<1>2. /\ Shown' = mem.running /\ mem.running \notin Terminated
      /\ lock.turn # None => mem.running = lock.turn
      /\ Ended(queue) => Shown = None
  <2>1. Terminated' = Terminated
    BY <1>1 DEF Terminated
  <2>2. mem.running \notin Terminated
    BY <1>1 DEF AccountInv, RunningItem, TypeInv, Addressed
  <2>3. lock.turn # None => mem.running = lock.turn
    BY <1>1 DEF RunInv, QueueMatchesSlot
  <2> QED BY <1>1, <2>1, <2>2, <2>3 DEF Shown, Ended
<1>3. /\ Joined(s) = s \o Batch
      /\ Batch # << >> => /\ Batch \in Lifecycle!Batches
                          /\ ToSet(Batch) \cap Submitted = {} /\ IsInjective(Batch)
      /\ lock.auto # None =>
           /\ Batch # << >> /\ Head(Batch) = lock.auto
           /\ (IF lock.user = None THEN s ELSE Append(s, lock.user)) = s \o Tail(Batch)
      /\ lock.auto = None /\ lock.user # None =>
           Batch # << >> /\ Head(Batch) = lock.user /\ Tail(Batch) = << >>
  BY <1>1, BatchFacts
<1>4. Lifecycle!Accepted \subseteq Submitted /\ s \o << >> = s
  BY <1>1, AcceptedFacts, ConcatEmptySeq
<1> HIDE DEF Batch
<1>5. Batch # << >> => Lifecycle!ToSet(Batch) \cap Lifecycle!Accepted = {}
                       /\ Lifecycle!IsInjective(Batch)
  BY <1>3, <1>4 DEF Lifecycle!ToSet, ToSet, Lifecycle!IsInjective, IsInjective
<1>6. Joins \/ RunsAuto \/ RunsUser \/ RunsNext
  BY <1>1 DEF SnapshotInv, NextSnapshot
<1>7. CASE Joins
  <2>1. queue'.waiting = s \o Batch /\ Shown' = Shown
    BY <1>1, <1>2, <1>3, <1>7 DEF Joins, Shown
  <2>2. CASE Batch = << >>
    BY <1>1, <1>4, <2>1, <2>2, LogStutters
  <2>3. CASE Batch # << >>
    <3>1. Lifecycle!Accept(Batch)
      BY <1>1, <1>5, <2>1, <2>3 DEF Lifecycle!Accept, Shown
    <3> QED BY <1>3, <2>3, <3>1 DEF LifecycleStep, Lifecycle!Next
  <2> QED BY <2>2, <2>3
<1>8. CASE RunsAuto
  <2>1. /\ queue'.waiting = s \o Tail(Batch) /\ Shown' = Head(Batch) /\ Shown = None
        /\ lock.auto # None /\ lock.auto \in Autos /\ Batch # << >>
    BY <1>1, <1>2, <1>3, <1>8 DEF RunsAuto, TypeInv, TypeOK, Operation
  <2>2. Lifecycle!AcceptAndRun(Batch)
    BY <1>1, <1>3, <1>5, <2>1 DEF Lifecycle!AcceptAndRun, Shown
  <2> QED BY <1>3, <2>1, <2>2 DEF LifecycleStep, Lifecycle!Next
<1>9. CASE RunsUser
  <2>1. /\ queue'.waiting = s \o Tail(Batch) /\ Shown' = Head(Batch) /\ Shown = None
        /\ s = << >> /\ Batch # << >>
    BY <1>1, <1>2, <1>3, <1>4, <1>9 DEF RunsUser
  <2>2. Lifecycle!AcceptAndRun(Batch)
    BY <1>1, <1>5, <2>1 DEF Lifecycle!AcceptAndRun, Shown
  <2> QED BY <1>3, <2>1, <2>2 DEF LifecycleStep, Lifecycle!Next
<1>10. CASE RunsNext
  <2>1. /\ queue'.waiting = Tail(s) /\ Shown' = Head(s) /\ Shown = None /\ s # << >>
    BY <1>1, <1>2, <1>10 DEF RunsNext
  <2>2. Lifecycle!Run
    BY <1>1, <2>1 DEF Lifecycle!Run, Shown
  <2> QED BY <2>2 DEF LifecycleStep, Lifecycle!Next
<1> QED BY <1>6, <1>7, <1>8, <1>9, <1>10

\* A turn whose records were empty shows the outcome that they are given.
LEMMA OutcomeGiven ==
  ASSUME NEW t \in Turns, NEW reason, terminal'[t] = <<reason>>,
         \A u \in Turns : u # t => terminal'[u] = terminal[u]
  PROVE  Outcome' = [Outcome EXCEPT ![t] = reason]
<1> DEFINE Of(r) == IF r = << >> THEN None ELSE r[1]
<1>1. Outcome = [u \in Turns |-> Of(terminal[u])] /\ Outcome' = [u \in Turns |-> Of(terminal'[u])]
  BY DEF Outcome
<1>2. Of(terminal'[t]) = reason
  <2>1. \A r : <<r>> # << >> /\ <<r>>[1] = r
    OBVIOUS
  <2> QED BY <2>1
<1> HIDE DEF Of
<1> QED BY <1>1, <1>2

\* The running turn gets its outcome.
LEMMA FinishStep ==
  ASSUME TypeInv, NEW t \in Turns \ Terminated, queue.running = t, queue' = queue,
         NEW reason \in {"completed", "error", "aborted", "interrupted"},
         terminal' = [terminal EXCEPT ![t] = Append(@, reason)],
         t \in cancelRequested => reason = "aborted", cancelRequested' = cancelRequested
  PROVE  LifecycleStep
<1> USE NoneIsNoTurn
<1>1. terminal[t] = << >> /\ terminal \in [Turns -> Seq(Reasons)]
  BY DEF Terminated, TypeInv, TypeOK
<1>2. \A r : <<r>> # << >> /\ <<r>>[1] = r /\ Append(<< >>, r) = <<r>>
  OBVIOUS
<1>3. terminal'[t] = <<reason>> /\ \A u \in Turns : u # t => terminal'[u] = terminal[u]
  BY <1>1, <1>2
<1>4. Shown = t /\ Shown' = None
  BY <1>2, <1>3 DEF Shown, Terminated
<1>5. Outcome' = [Outcome EXCEPT ![t] = reason]
  BY <1>3, OutcomeGiven
<1>6. Lifecycle!Finish(reason)
  <2>1. /\ Shown # None /\ (Shown \in cancelRequested => reason = "aborted")
        /\ Outcome' = [Outcome EXCEPT ![Shown] = reason] /\ Shown' = None
        /\ UNCHANGED <<queue.waiting, cancelRequested>>
    BY <1>4, <1>5
  <2> QED BY <2>1 DEF Lifecycle!Finish, Shown, Outcome
<1> QED BY <1>6 DEF LifecycleStep, Lifecycle!Next

LEMMA CancellingStep ==
  ASSUME TypeInv, RunInv, AccountInv, SnapshotInv, AppendCancelling
  PROVE  LifecycleStep
<1> USE NoneIsNoTurn
<1>1. /\ lock.step = "cancelling" /\ queue' = mem /\ terminal' = terminal
      /\ cancelRequested' = cancelRequested \cup {lock.turn}
  BY DEF AppendCancelling
<1>2. lock.turn = mem.running /\ lock.turn # None /\ mem.running \notin Terminated
  BY <1>1 DEF RunInv, QueueMatchesSlot, TypeInv, Addressed, AccountInv, RunningItem
<1>3. mem.waiting = queue.waiting /\ mem.running = queue.running
  BY <1>1 DEF SnapshotInv, NextSnapshot
<1>4. Terminated' = Terminated
  BY <1>1 DEF Terminated
<1>5. Shown = lock.turn /\ Shown' = lock.turn
  BY <1>1, <1>2, <1>3, <1>4 DEF Shown
<1>6. Lifecycle!AskToStop
  BY <1>1, <1>2, <1>3, <1>5 DEF Lifecycle!AskToStop, Shown
<1> QED BY <1>6 DEF LifecycleStep, Lifecycle!Next

LEMMA WithdrawalStep ==
  ASSUME TypeInv, RunInv, AccountInv, SnapshotInv, AppendWithdrawal
  PROVE  LifecycleStep
<1> USE NoneIsNoTurn
<1> DEFINE t == lock.turn
<1>1. /\ lock.step = "withdraw" /\ queue' = mem /\ cancelRequested' = cancelRequested \cup {t}
      /\ terminal' = [u \in Turns |-> IF u \in {t} THEN Append(terminal[u], "cancelled")
                                       ELSE terminal[u]]
  BY DEF AppendWithdrawal, Dismiss
<1>2. PICK k \in DOMAIN queue.waiting :
        queue.waiting[k] = t /\ mem.waiting = RemoveAt(queue.waiting, k)
  BY <1>1 DEF SnapshotInv, NextSnapshot
<1>3. mem.running = queue.running /\ t \in Turns /\ t \notin Terminated /\ queue.running # t
  <2>1. t \in ToSet(queue.waiting)
    BY <1>2 DEF ToSet
  <2>2. t \in Open
    BY <1>1 DEF AccountInv, AheadOfLog
  <2> QED BY <1>1, <2>1, <2>2
          DEF SnapshotInv, NextSnapshot, AccountInv, QueuesAccount, Accounts, Open, Submitted
<1> HIDE DEF t
<1>4. terminal[t] = << >>
  BY <1>3 DEF Terminated
<1>5. \A r : <<r>> # << >> /\ <<r>>[1] = r /\ Append(<< >>, r) = <<r>>
  OBVIOUS
<1>6. terminal'[t] = <<"cancelled">> /\ \A u \in Turns : u # t => terminal'[u] = terminal[u]
  BY <1>1, <1>3, <1>4, <1>5
<1>7. Terminated' = Terminated \cup {t}
  BY <1>3, <1>5, <1>6 DEF Terminated
<1>8. Shown' = Shown
  BY <1>1, <1>3, <1>7 DEF Shown
<1>9. Outcome' = [Outcome EXCEPT ![t] = "cancelled"]
  BY <1>3, <1>6, OutcomeGiven
<1>10. Lifecycle!Withdraw(k)
  <2>1. /\ Outcome' = [Outcome EXCEPT ![queue.waiting[k]] = "cancelled"]
        /\ cancelRequested' = cancelRequested \cup {queue.waiting[k]}
        /\ queue'.waiting = RemoveAt(queue.waiting, k) /\ UNCHANGED Shown
    BY <1>1, <1>2, <1>8, <1>9 DEF t
  <2> QED BY <2>1 DEF Lifecycle!Withdraw, Lifecycle!RemoveAt, RemoveAt, Shown, Outcome
<1> QED BY <1>10 DEF LifecycleStep, Lifecycle!Next

LEMMA FinishTurnStep ==
  ASSUME TypeInv, RunInv, AccountInv, RecordInv, SnapshotInv, FinishTurn
  PROVE  LifecycleStep
<1> USE NoneIsNoTurn
<1>1. /\ lock.step = "terminal" /\ queue' = queue /\ cancelRequested' = cancelRequested
      /\ terminal' = [terminal EXCEPT ![lock.turn] = Append(@, lock.reason)]
  BY DEF FinishTurn
<1>2. /\ queue.running = lock.turn /\ lock.turn \in Turns \ Terminated
      /\ lock.reason \in {"completed", "error", "aborted"}
  <2>1. queue = mem /\ lock.reason \in {"completed", "error", "aborted"}
    BY <1>1 DEF SnapshotInv, NextSnapshot, Decided
  <2>2. lock.turn = active /\ active # None
    BY <1>1, ActiveTurn
  <2>3. active \in Turns \ Terminated /\ active = mem.running
    BY <2>2, ActiveTurn
  <2> QED BY <2>1, <2>2, <2>3
<1>3. lock.turn \in cancelRequested => lock.reason = "aborted"
  BY <1>1 DEF RecordInv, Decision
<1> QED BY <1>1, <1>2, <1>3, FinishStep

LEMMA RecoverRunningStep ==
  ASSUME TypeInv, RunInv, AccountInv, RecordInv, SnapshotInv, RecoverRunning
  PROVE  LifecycleStep
<1> USE NoneIsNoTurn
<1> DEFINE t == mem.running
<1>1. /\ lock.step = "recover" /\ queue = mem /\ t \in Turns /\ up = "serving"
      /\ UNCHANGED <<queue, cancelRequested>>
  BY DEF RecoverRunning, RunInv, QueueMatchesSlot, TypeInv, TypeOK, Queue, Addressed
<1>2. CASE terminal[t] # << >>
  <2>1. terminal' = terminal
    BY <1>2 DEF RecoverRunning
  <2> QED BY <1>1, <2>1, LogStutters DEF Shown, Terminated
<1>3. CASE terminal[t] = << >>
  <2>1. terminal' = [terminal EXCEPT ![t] = Append(@, RecoveryReason(t))] /\ t \notin Terminated
    BY <1>3 DEF RecoverRunning, Terminated
  <2>2. RecoveryReason(t) \in {"completed", "error", "aborted", "interrupted"}
    BY DEF RecoveryReason
  <2>3. t \in cancelRequested => RecoveryReason(t) = "aborted"
    <3>1. t \in cancelRequested => mem.cancelling
      BY <1>1, <2>1 DEF AccountInv, QueuesAccount, Accounts, Asked
    <3>2. t \in cancelRequested => t \notin compacted
      BY <1>1 DEF RecordInv, Records, TurnRecords
    <3> QED BY <3>1, <3>2 DEF RecoveryReason
  <2> QED BY <1>1, <2>1, <2>2, <2>3, FinishStep
<1> QED BY <1>2, <1>3

LEMMA ExpiryStep ==
  ASSUME TypeInv, RunInv, AccountInv, SnapshotInv, ExpireOld \/ ExpireAll
  PROVE  LifecycleStep
<1> USE NoneIsNoTurn
<1>1. /\ up = "serving" /\ cancelRequested' = cancelRequested /\ mem \in Queue
      /\ mem.waiting = queue.waiting /\ lock.step \in {"expire", "expireAll"}
      /\ \/ mem.running = queue.running
         \/ mem.running = None /\ Ended(queue)
  BY DEF ExpireOld, ExpireAll, RunInv, QueueMatchesSlot, SnapshotInv, NextSnapshot, TypeInv,
         TypeOK, Addressed
<1>2. PICK k \in 0 .. Len(mem.waiting) : DrainExpired(k)
  <2>1. Len(mem.waiting) \in 0 .. Len(mem.waiting)
    BY <1>1 DEF Queue
  <2> QED BY <2>1 DEF ExpireOld, ExpireAll
<1> DEFINE dropped == ToSet(SubSeq(queue.waiting, 1, k))
           rest == SubSeq(queue.waiting, k + 1, Len(queue.waiting))
<1>3. /\ mem' = [mem EXCEPT !.waiting = rest] /\ queue' = mem'
      /\ terminal' = [t \in Turns |-> IF t \in dropped THEN Append(terminal[t], "expired")
                                      ELSE terminal[t]]
  BY <1>1, <1>2 DEF DrainExpired, Dismiss
<1>4. /\ \A t \in dropped : t \in Turns /\ t \notin Terminated /\ t # queue.running
      /\ k = 0 => dropped = {} /\ rest = queue.waiting
      /\ k # 0 => k \in DOMAIN queue.waiting
  <2>1. queue.waiting \in Seq(Turns)
    BY DEF TypeInv, TypeOK, Queue
  <2>2. dropped \subseteq ToSet(queue.waiting)
    BY <1>1, <2>1 DEF ToSet
  <2>3. /\ k = 0 => SubSeq(queue.waiting, 1, k) = << >> /\ rest = queue.waiting
        /\ k # 0 => k \in DOMAIN queue.waiting
    BY <1>1, <2>1
  <2>4. k = 0 => dropped = {}
    BY <2>3 DEF ToSet
  <2>5. ToSet(queue.waiting) \cap Terminated = {} /\ queue.running \notin ToSet(queue.waiting)
    BY DEF AccountInv, QueuesAccount, Accounts, Past
  <2>6. ToSet(queue.waiting) \subseteq Turns
    BY <2>1 DEF ToSet
  <2> QED BY <2>2, <2>3, <2>4, <2>5, <2>6
<1> HIDE DEF dropped, rest
<1>5. queue'.waiting = rest /\ queue'.running = mem.running
  BY <1>1, <1>3 DEF Queue
<1>6. \A r : <<r>> # << >> /\ <<r>>[1] = r /\ Append(<< >>, r) = <<r>>
  OBVIOUS
<1>7. \A t \in Turns : terminal'[t] = IF t \in dropped THEN <<"expired">> ELSE terminal[t]
  BY <1>3, <1>4, <1>6 DEF Terminated
<1>8. Terminated' = Terminated \cup dropped
  BY <1>4, <1>6, <1>7 DEF Terminated
<1>9. Shown' = Shown
  BY <1>1, <1>4, <1>5, <1>8 DEF Shown, Ended
<1>10. CASE k = 0
  <2>1. terminal' = terminal
    BY <1>4, <1>7, <1>10, <1>3 DEF TypeInv, TypeOK
  <2> QED BY <1>1, <1>4, <1>5, <1>9, <1>10, <2>1, LogStutters
<1>11. CASE k # 0
  <2>1. Outcome' = [t \in Turns |-> IF t \in dropped THEN "expired" ELSE Outcome[t]]
    BY <1>6, <1>7 DEF Outcome
  <2>2. Lifecycle!Expire(k)
    BY <1>1, <1>5, <1>9, <2>1
       DEF Lifecycle!Expire, Lifecycle!ToSet, ToSet, dropped, rest, Shown, Outcome
  <2> QED BY <1>4, <1>11, <2>2 DEF LifecycleStep, Lifecycle!Next
<1> QED BY <1>10, <1>11

LifecycleInv == TurnInv /\ SnapshotInv

LEMMA LifecycleNext == LifecycleInv /\ [Next]_vars => LifecycleStep
<1> SUFFICES ASSUME LifecycleInv, [Next]_vars PROVE LifecycleStep
  OBVIOUS
<1> USE DEF durableVars, processVars, turnVars
<1>0. TypeInv /\ RunInv /\ AccountInv /\ RecordInv /\ SnapshotInv
  BY DEF LifecycleInv, TurnInv
<1>1. ASSUME UNCHANGED <<queue, terminal, cancelRequested>> PROVE LifecycleStep
  BY <1>1, LogStutters DEF Shown, Terminated
<1>2. CASE Prune \/ UnlinkImported
  <2>1. /\ queue' = mem /\ mem.running = None /\ mem.waiting = queue.waiting /\ Ended(queue)
        /\ UNCHANGED <<terminal, cancelRequested>>
    BY <1>0, <1>2 DEF Prune, UnlinkImported, RunInv, QueueMatchesSlot, SnapshotInv, NextSnapshot
  <2>2. Shown' = None /\ Shown = None
    BY <2>1 DEF Shown, Ended
  <2> QED BY <2>1, <2>2, LogStutters
<1>3. CASE Clients
  BY <1>1, <1>3 DEF Clients, Admit, Compact, CancelRunning, CancelWaiting
<1>4. CASE Appends
  <2>1. CASE SettleTurn \/ ChooseNext
    BY <1>1, <2>1 DEF SettleTurn, ChooseNext
  <2> QED BY <1>0, <1>2, <1>4, <2>1, SubmissionStep, CancellingStep, WithdrawalStep, FinishTurnStep
          DEF Appends
<1>5. CASE Harness
  BY <1>1, <1>5 DEF Harness, Deliver, ReportUsage, HarnessEnds, CompleteTurn, Settle
<1>6. CASE Process
  BY <1>1, <1>6 DEF Process, AbortSession, AskShutdown, ShutdownAborts, Crash, Exit, Lose
<1>7. CASE Recovery
  <2>1. CASE (\E asImport \in BOOLEAN : Restart(asImport)) \/ RecoverSession \/ RecoverNothingRunning
    BY <1>1, <2>1 DEF Restart, RecoverSession, RecoverNothingRunning
  <2> QED BY <1>0, <1>2, <1>7, <2>1, ExpiryStep, RecoverRunningStep DEF Recovery
<1>8. CASE UNCHANGED vars
  BY <1>1, <1>8 DEF vars
<1> QED BY <1>3, <1>4, <1>5, <1>6, <1>7, <1>8 DEF Next

-----------------------------------------------------------------------------
(* Theorems. *)

\* The invariant that says what the next snapshot of the log differs in.
THEOREM LifecycleInvariant == Spec => []LifecycleInv
<1>1. Init => LifecycleInv
  BY TypeInit, RunInit, AccountInit, RecordInit, SnapshotInit DEF LifecycleInv, TurnInv
<1>2. LifecycleInv /\ [Next]_vars => LifecycleInv'
  BY TypeNext, RunNext, AccountNext, RecordNext, SnapshotNext DEF LifecycleInv, TurnInv
<1> QED BY <1>1, <1>2, PTL DEF Spec

(***************************************************************************)
(* The log alone implements the lifecycle promised to clients: whatever is *)
(* appended, lost, recovered or imported, an accepted turn waits in order, *)
(* runs alone and gets one outcome, and one that was asked to stop while   *)
(* it ran ends as aborted.                                                 *)
(***************************************************************************)
THEOREM LogImplementsLifecycle == Spec => ImplementsLifecycle
<1>1. LifecycleInv /\ [Next]_vars => [Lifecycle!Next]_(Lifecycle!vars)
  BY LifecycleNext DEF LifecycleStep
<1> QED BY <1>1, LifecycleInit, LifecycleInvariant, PTL DEF Spec, ImplementsLifecycle, Lifecycle!Spec

(***************************************************************************)
(* Prompts and manual compactions run in the order of their submission:    *)
(* when one begins, all that were submitted before it have ended.          *)
(***************************************************************************)
THEOREM FirstComeFirstServedHolds == Spec => FirstComeFirstServed
<1> USE NoneIsNoTurn
<1> DEFINE Served(t) == \A u \in Submitted : submittedAt[u] < submittedAt'[t] => u \in Terminated
<1>1. ASSUME LifecycleInv, [Next]_vars, NEW t \in Turns \ Autos, Begins(t) PROVE Served(t)
  <2>0. TypeInv /\ TypeOK /\ AccountInv /\ SnapshotInv
    BY <1>1 DEF LifecycleInv, TurnInv, TypeInv
  <2>1. AppendSubmission
    BY <1>1, <2>0, BeginsInAppend
  <2>2. t = lock.turn
    <3>1. t # lock.turn => execution'[t] = Released(execution[t])
      BY <2>1 DEF AppendSubmission, Start
    <3> QED BY <1>1, <3>1 DEF Begins, Released
  <2>3. /\ Joins \/ RunsAuto \/ RunsUser \/ RunsNext
        /\ lock.auto \in Autos \cup {None} /\ queue.waiting \in Seq(Turns)
    BY <2>0, <2>1 DEF AppendSubmission, SnapshotInv, NextSnapshot, TypeOK, Operation, Queue
  <2>4. ~Joins /\ ~RunsAuto
    BY <2>2, <2>3 DEF Joins, RunsAuto
  <2>5. Ended(queue) => Open \subseteq ToSet(queue.waiting)
    BY <2>0 DEF AccountInv, QueuesAccount, Accounts, Queued, Ended, Open
  <2>6. CASE RunsUser
    <3>1. ToSet(queue.waiting) = {} /\ Ended(queue)
      BY <2>6 DEF RunsUser, ToSet
    <3> QED BY <2>5, <3>1 DEF Open
  <2>7. CASE RunsNext
    <3>1. queue.waiting # << >> /\ t = Head(queue.waiting) /\ Ended(queue)
      BY <2>2, <2>7 DEF RunsNext
    <3>2. \A u \in ToSet(queue.waiting) : submittedAt[t] <= submittedAt[u]
      BY <2>0, <2>3, <3>1, HeadFirst DEF SnapshotInv, Ordered, TypeOK
    <3>3. submittedAt'[t] = submittedAt[t]
      BY <2>1, <2>7 DEF AppendSubmission, Stamp, RunsNext
    <3>4. \A u \in Turns : submittedAt[u] \in Nat
      BY <2>0 DEF TypeOK
    <3>5. \A u \in Open : ~(submittedAt[u] < submittedAt'[t])
      BY <2>5, <3>1, <3>2, <3>3, <3>4 DEF Open, Submitted
    <3> QED BY <3>5 DEF Open
  <2> QED BY <2>3, <2>4, <2>6, <2>7
<1>2. LifecycleInv /\ [Next]_vars => [\A t \in Turns \ Autos : Begins(t) => Served(t)]_vars
  BY <1>1
<1> QED BY <1>2, LifecycleInvariant, PTL DEF Spec, FirstComeFirstServed

-----------------------------------------------------------------------------
(* Automatic compaction does not loop. *)

(***************************************************************************)
(* While the first process runs, a compaction that is queued, or that has  *)
(* just ended, keeps another one from being created automatically.         *)
(***************************************************************************)
Paced ==
  stops = 0 =>
    /\ up = "serving" /\ shutdown = "no"
    /\ lock.step \notin {"expire", "recover", "unlink", "expireAll"}
    /\ CompactionPending(mem) => attempted
    /\ lock.step = "choose" /\ lock.turn \in Compactions => attempted

\* Memory of the queue and of the attempt stays, and no turn has just ended.
LEMMA SamePace ==
  ASSUME Paced, UNCHANGED <<mem, attempted, stops, up, shutdown>>,
         lock' = lock \/ lock'.step \in {"free", "terminal", "settle"}
  PROVE  Paced'
  BY DEF Paced, CompactionPending, Queued

\* An operation that begins leaves no compaction queued without an attempt.
LEMMA NextPace ==
  ASSUME Paced, UNCHANGED <<stops, up, shutdown>>, NEW added,
         Queued(mem') \subseteq Queued(mem) \cup added,
         added \cap Compactions # {} => attempted', attempted => attempted',
         lock'.step \in {"submit", "cancelling", "withdraw"}
  PROVE  Paced'
  BY DEF Paced, CompactionPending

LEMMA PacedNext == TypeInv /\ RunInv /\ Paced /\ [Next]_vars => Paced'
<1> SUFFICES ASSUME TypeInv, RunInv, Paced, [Next]_vars PROVE Paced'
  OBVIOUS
<1> USE NoneIsNoTurn DEF durableVars, processVars, turnVars
<1>0. TypeOK /\ mem \in Queue /\ stops \in Nat
  BY DEF TypeInv, TypeOK
<1>1. ASSUME NEW p \in Prompts, Admit(p) PROVE Paced'
  <2>1. PICK a \in MaybeCompaction(mem) :
          LET behind == IF a = None THEN mem ELSE Enqueue(mem, a)
              next == Enqueue(behind, p)
          IN /\ mem' = next
             /\ attempted' = (attempted \/ a # None)
             /\ lock' = [Hold("submit", IF mem.running = None THEN next.running ELSE None)
                           EXCEPT !.auto = a, !.user = p]
    BY <1>1 DEF Admit
  <2>2. /\ a \in Autos \cup {None} /\ (a # None => a \in Turns) /\ p \in Turns
        /\ p \notin Compactions
    BY <1>0, MaybeCompactionFacts, SessionQueueAssumption DEF Turns
  <2> DEFINE behind == IF a = None THEN mem ELSE Enqueue(mem, a)
  <2>3. behind \in Queue /\ Queued(behind) \subseteq Queued(mem) \cup ({a} \ {None})
    BY <1>0, <2>2, EnqueueFacts
  <2> HIDE DEF behind
  <2>4. Queued(mem') \subseteq Queued(mem) \cup ({a, p} \ {None})
    <3>1. mem' = Enqueue(behind, p)
      BY <2>1 DEF behind
    <3> QED BY <2>2, <2>3, <3>1, EnqueueFacts
  <2>5. lock'.step = "submit" /\ UNCHANGED <<stops, up, shutdown>>
    BY <1>1, <2>1, HoldKeeps DEF Admit
  <2>6. /\ attempted => attempted'
        /\ ({a, p} \ {None}) \cap Compactions # {} => attempted'
    BY <2>1, <2>2
  <2> QED BY <2>4, <2>5, <2>6, NextPace
<1>2. ASSUME NEW m \in Manuals, Compact(m) PROVE Paced'
  <2>1. m \in Turns /\ mem' = Enqueue(mem, m) /\ attempted' = TRUE
    BY <1>2 DEF Compact, Turns, Compactions
  <2>2. Queued(mem') \subseteq Queued(mem) \cup {m}
    BY <1>0, <2>1, EnqueueFacts
  <2>3. lock'.step = "submit" /\ UNCHANGED <<stops, up, shutdown>>
    BY <1>2, HoldKeeps DEF Compact
  <2> QED BY <2>1, <2>2, <2>3, NextPace
<1>3. ASSUME NEW t \in Turns, CancelRunning(t) \/ CancelWaiting(t) PROVE Paced'
  <2>1. Queued(mem') \subseteq Queued(mem)
    <3>1. CASE CancelRunning(t)
      BY <1>0, <3>1 DEF CancelRunning, Queue, Queued
    <3>2. CASE CancelWaiting(t)
      <4>1. PICK k \in DOMAIN mem.waiting : mem' = [mem EXCEPT !.waiting = RemoveAt(@, k)]
        BY <3>2 DEF CancelWaiting
      <4>2. ToSet(RemoveAt(mem.waiting, k)) \subseteq ToSet(mem.waiting)
        BY <1>0, RemoveAtElements DEF Queue
      <4> QED BY <1>0, <4>1, <4>2 DEF Queue, Queued
    <3> QED BY <1>3, <3>1, <3>2
  <2>2. lock'.step \in {"cancelling", "withdraw"} /\ UNCHANGED <<stops, up, shutdown, attempted>>
    BY <1>3, HoldKeeps DEF CancelRunning, CancelWaiting
  <2> DEFINE added == {}
  <2>3. Queued(mem') \subseteq Queued(mem) \cup added /\ added \cap Compactions = {}
    BY <2>1
  <2> QED BY <2>2, <2>3, NextPace
<1>4. CASE AppendSubmission \/ AppendCancelling \/ AppendWithdrawal
  BY <1>4, SamePace, HoldKeeps DEF AppendSubmission, AppendCancelling, AppendWithdrawal
<1>5. CASE SettleTurn
  <2>1. lock'.step = "terminal"
    BY <1>0, <1>5 DEF SettleTurn, TypeOK, Operation
  <2> QED BY <1>5, <2>1, SamePace DEF SettleTurn
<1>6. CASE FinishTurn
  <2>1. /\ lock.step = "terminal" /\ lock'.step = "choose" /\ lock'.turn = lock.turn
        /\ UNCHANGED <<stops, up, shutdown, attempted>>
        /\ mem' = [mem EXCEPT !.running = None, !.cancelling = FALSE]
    BY <1>6, HoldKeeps DEF FinishTurn
  <2>2. lock.turn = mem.running /\ lock.turn # None
    BY <2>1 DEF RunInv, QueueMatchesSlot, TypeInv, Addressed
  <2>3. lock.turn \in Compactions => CompactionPending(mem)
    BY <2>2 DEF CompactionPending, Queued
  <2>4. Queued(mem') \subseteq Queued(mem)
    BY <1>0, <2>1 DEF Queue, Queued
  <2> QED BY <2>1, <2>3, <2>4 DEF Paced, CompactionPending
<1>7. CASE Prune
  BY <1>7, SamePace DEF Prune
<1>8. CASE ChooseNext
  <2>1. PICK a \in MaybeCompaction(mem) :
          /\ mem' = IF a # None THEN Enqueue(mem, a) ELSE TakeNext(mem)
          /\ attempted' = (attempted \/ a # None)
          /\ lock' = [Hold("submit", mem'.running) EXCEPT !.auto = a]
    BY <1>8 DEF ChooseNext
  <2>2. a # None => a \in Turns
    BY <1>0, MaybeCompactionFacts
  <2>3. Queued(mem') \subseteq Queued(mem) \cup ({a} \ {None})
    BY <1>0, <2>1, <2>2, EnqueueFacts, TakeNextFacts
  <2>4. lock'.step = "submit" /\ UNCHANGED <<stops, up, shutdown>>
    BY <1>8, <2>1, HoldKeeps DEF ChooseNext
  <2>5. ({a} \ {None}) \cap Compactions # {} => attempted'
    BY <2>1
  <2> QED BY <2>1, <2>3, <2>4, <2>5, NextPace
<1>9. ASSUME NEW t \in Turns, ReportUsage(t) PROVE Paced'
  <2>1. lock.step # "choose"
    BY <1>9 DEF ReportUsage, RunInv, SlotMatchesExecution, Driving, QueueMatchesSlot
  <2>2. attempted' = (attempted /\ CompactionPending(mem)) /\ UNCHANGED <<stops, up, shutdown, lock, mem>>
    BY <1>9 DEF ReportUsage, ApplyUsage
  <2> QED BY <2>1, <2>2 DEF Paced, CompactionPending, Queued
<1>10. ASSUME NEW t \in Turns, CompleteTurn(t) PROVE Paced'
  <2>1. lock'.step = "settle"
    BY <1>10, HoldKeeps DEF CompleteTurn
  <2> QED BY <1>10, <2>1, SamePace DEF CompleteTurn
<1>11. CASE Harness
  <2>1. ASSUME NEW p \in Prompts, Deliver(p) PROVE Paced'
    BY <2>1, SamePace DEF Deliver
  <2>2. ASSUME NEW t \in Turns, HarnessEnds(t) \/ Settle(t) PROVE Paced'
    BY <2>2, SamePace DEF HarnessEnds, Settle
  <2> QED BY <1>9, <1>10, <1>11, <2>1, <2>2 DEF Harness
<1>12. CASE AskShutdown \/ Crash
  <2>1. stops' = stops + 1
    BY <1>12 DEF AskShutdown, Crash
  <2> QED BY <1>0, <2>1 DEF Paced
<1>13. CASE ShutdownAborts \/ Exit \/ Recovery
  <2>1. stops # 0
    BY <1>13 DEF Paced, ShutdownAborts, Exit, Recovery, Restart, RecoverSession, ExpireOld, ExpireAll,
                 RecoverRunning, RecoverNothingRunning, UnlinkImported
  <2>2. stops' = stops
    BY <1>13 DEF ShutdownAborts, Exit, Recovery, Restart, RecoverSession, ExpireOld, ExpireAll,
                 RecoverRunning, RecoverNothingRunning, UnlinkImported
  <2> QED BY <2>1, <2>2 DEF Paced
<1>14. CASE AbortSession \/ UNCHANGED vars
  BY <1>14, SamePace DEF AbortSession, vars
<1>15. CASE Clients
  BY <1>1, <1>2, <1>3, <1>15 DEF Clients
<1>16. CASE Appends
  BY <1>4, <1>5, <1>6, <1>7, <1>8, <1>16 DEF Appends
<1>17. CASE Process
  BY <1>12, <1>13, <1>14, <1>17 DEF Process
<1> QED BY <1>11, <1>13, <1>14, <1>15, <1>16, <1>17 DEF Next

(***************************************************************************)
(* Before the first restart, no automatic compaction is created right      *)
(* after a compaction, however usage reports, cancellations and admissions *)
(* interleave with it: compaction does not feed on itself.                 *)
(***************************************************************************)
THEOREM CompactionPacedHolds == Spec => CompactionPaced
<1> USE NoneIsNoTurn
<1> DEFINE Inv == LifecycleInv /\ Paced
           Step == stops = 0 => \A c \in Compactions : ~Chains(c)
<1>1. Init => Paced
  BY DEF Init, Paced, EmptyQueue, Free, CompactionPending, Queued, ToSet
<1>2. LifecycleInv /\ Paced /\ [Next]_vars => Paced'
  BY PacedNext DEF LifecycleInv, TurnInv
<1>3. ASSUME LifecycleInv, Paced, [Next]_vars, stops = 0, NEW c \in Compactions, Chains(c)
      PROVE  FALSE
  <2>1. lock.step = "choose" /\ lock'.auto # None /\ attempted
    BY <1>3 DEF Chains, Paced
  <2>2. lock' # lock /\ Free.auto = None
    BY <1>3, <2>1 DEF LifecycleInv, TurnInv, TypeInv, Remembered, Free
  <2>3. CASE ChooseNext
    <3>1. PICK a \in MaybeCompaction(mem) : lock' = [Hold("submit", mem'.running) EXCEPT !.auto = a]
      BY <2>3 DEF ChooseNext
    <3>2. a = None
      BY <2>1 DEF MaybeCompaction
    <3> QED BY <2>1, <3>1, <3>2, BatchFields
  <2>4. CASE ~ChooseNext
    <3> USE DEF durableVars, processVars, turnVars
    <3>1. ~Clients
      BY <2>1 DEF Clients, Admit, Compact, CancelRunning, CancelWaiting, Unlocked
    <3>2. ~Appends
      BY <2>1, <2>2, <2>4 DEF Appends, AppendSubmission, AppendCancelling, AppendWithdrawal, SettleTurn,
                              FinishTurn, Prune
    <3>3. ~Harness
      BY <2>1, <2>2 DEF Harness, Deliver, ReportUsage, HarnessEnds, CompleteTurn, Settle, Unlocked
    <3>4. ~Process
      BY <2>1, <2>2 DEF Process, AbortSession, AskShutdown, ShutdownAborts, Crash, Exit, Lose
    <3>5. ~Recovery
      BY <1>3, <2>1, <2>2 DEF Recovery, Restart, RecoverSession, ExpireOld, ExpireAll, RecoverRunning,
                        RecoverNothingRunning, UnlinkImported, Paced
    <3> QED BY <1>3, <2>2, <3>1, <3>2, <3>3, <3>4, <3>5 DEF Next, vars
  <2> QED BY <2>3, <2>4
<1>4. LifecycleInv /\ Paced /\ [Next]_vars => [Step]_vars
  BY <1>3
<1> QED BY <1>1, <1>2, <1>4, LifecycleInvariant, PTL DEF Spec, CompactionPaced
=============================================================================
