--------------------------- MODULE TurnLifecycle ---------------------------
(***************************************************************************)
(* What a session promises about its turns, whatever happens to the node   *)
(* process: an accepted turn waits, runs alone, and gets one outcome.      *)
(*                                                                         *)
(* Neither memory, locks nor restarts appear here.  SessionQueue is shown  *)
(* to implement this specification.                                        *)
(***************************************************************************)
EXTENDS Naturals, SequencesExt

CONSTANTS
  Turn,       \* all turns
  Overtaker,  \* turns that may run ahead of the backlog
  None

VARIABLES
  backlog,    \* accepted turns that have not begun, in order
  running,    \* the turn that runs, or None
  asked,      \* turns that were asked to stop
  outcome     \* the outcome of each turn, or None

vars == <<backlog, running, asked, outcome>>

Accepted == ToSet(backlog) \cup ({running} \ {None}) \cup {t \in Turn : outcome[t] # None}

Init ==
  /\ backlog = << >>
  /\ running = None
  /\ asked = {}
  /\ outcome = [t \in Turn |-> None]

\* New turns join the end of the backlog.
Accept(new) ==
  /\ ToSet(new) \cap Accepted = {} /\ IsInjective(new)
  /\ backlog' = backlog \o new
  /\ UNCHANGED <<running, asked, outcome>>

\* The first of the new turns runs at once; only an overtaker passes the backlog.
AcceptAndRun(new) ==
  /\ ToSet(new) \cap Accepted = {} /\ IsInjective(new)
  /\ new # << >> /\ running = None
  /\ backlog = << >> \/ Head(new) \in Overtaker
  /\ running' = Head(new)
  /\ backlog' = backlog \o Tail(new)
  /\ UNCHANGED <<asked, outcome>>

Run ==
  /\ running = None /\ backlog # << >>
  /\ running' = Head(backlog)
  /\ backlog' = Tail(backlog)
  /\ UNCHANGED <<asked, outcome>>

AskToStop ==
  /\ running # None
  /\ asked' = asked \cup {running}
  /\ UNCHANGED <<backlog, running, outcome>>

\* The running turn ends; one that was asked to stop ends as aborted.
Finish(reason) ==
  /\ running # None
  /\ running \in asked => reason = "aborted"
  /\ outcome' = [outcome EXCEPT ![running] = reason]
  /\ running' = None
  /\ UNCHANGED <<backlog, asked>>

\* A waiting turn is cancelled.
Withdraw(k) ==
  /\ outcome' = [outcome EXCEPT ![backlog[k]] = "cancelled"]
  /\ asked' = asked \cup {backlog[k]}
  /\ backlog' = RemoveAt(backlog, k)
  /\ UNCHANGED running

\* The oldest k waiting turns expire.
Expire(k) ==
  /\ outcome' = [t \in Turn |-> IF t \in ToSet(SubSeq(backlog, 1, k)) THEN "expired"
                                ELSE outcome[t]]
  /\ backlog' = SubSeq(backlog, k + 1, Len(backlog))
  /\ UNCHANGED <<running, asked>>

Batches == {<<t>> : t \in Turn} \cup {<<t, u>> : t \in Overtaker, u \in Turn}

Next ==
  \/ \E new \in Batches : Accept(new) \/ AcceptAndRun(new)
  \/ Run
  \/ AskToStop
  \/ \E reason \in {"completed", "error", "aborted", "interrupted"} : Finish(reason)
  \/ \E k \in DOMAIN backlog : Withdraw(k) \/ Expire(k)

Spec == Init /\ [][Next]_vars
=============================================================================
