------------------------------ MODULE Harness ------------------------------
(***************************************************************************)
(* The conversation of one session: the agent loop of                      *)
(* packages/engine/src/index.ts, which holds it in memory, and the part of *)
(* packages/node/src/node.ts that records it, compacts and prunes it, and  *)
(* rebuilds and repairs it after a restart.  The queue of turns around it  *)
(* is SessionQueue; here one turn at a time is started and ended.          *)
(*                                                                         *)
(* A message is its role and the calls it advertises or answers; text,     *)
(* reasoning and sizes are left out, and so are the usage and auth events, *)
(* which add nothing to the history.  What a provider or a tool answers,   *)
(* where the token budgets fall and which credentials are active is        *)
(* nondeterministic.                                                       *)
(***************************************************************************)
EXTENDS Naturals, Sequences, FiniteSets, SequencesExt

CONSTANTS
  Accounts,     \* the accounts whose credentials may be active
  NoAccount,
  MaxRetries,   \* MAX_RETRIES and MAX_CONTEXT_OVERFLOW_RETRIES
  ProtectedTurns, \* user turns whose tool outputs are never pruned: 2 in pruneToolOutputs
  MaxTurns,     \* bound: prompts
  MaxCalls,     \* bound: tool calls over all turns
  MaxChanges,   \* bound: compactions and prunes
  MaxFaults     \* bound: crashes, failed appends and changes of the credentials; repairs cut off

ASSUME HarnessAssumption ==
  /\ NoAccount \notin Accounts /\ Accounts # {}
  /\ {MaxRetries, ProtectedTurns, MaxTurns, MaxCalls, MaxChanges, MaxFaults} \subseteq Nat

VARIABLES
  log,        \* the session's conversation, delivered, identity, compaction and prune records
  running,    \* what the durable queue runs: "none", "prompt" or "compaction"
  messages,   \* the harness's history
  persisted,  \* persistedMessageCount
  identity,   \* the harness's identity
  account,    \* whose credentials are active
  turn,       \* the generator and the loop that consumes it
  counts      \* what happened so far, for the bounds

vars == <<log, running, messages, persisted, identity, account, turn, counts>>

Message(role, ids) == [role |-> role, ids |-> ids, pruned |-> FALSE]
Result(c) == Message("tool", <<c>>)
Marker == Message("developer", << >>)
Summary == Message("summary", << >>)

ConversationRecord(n, m) == [type |-> "conversation", entry |-> n, message |-> m]
IdentityRecord(a) == [type |-> "identity", account |-> a]
Delivered(n) == [type |-> "delivered", turn |-> n]
CompactionRecord(n) == [type |-> "compaction", firstKept |-> n]
PruneRecord(ids) == [type |-> "prune", ids |-> ids]

OfType(type) == {i \in DOMAIN log : log[i].type = type}
Entries == Cardinality(OfType("conversation"))
Stored == IF OfType("identity") = {} THEN NoAccount ELSE log[Max(OfType("identity"))].account

\* Where the generator is; what it has yielded and the node has not recorded; the calls the
\* current response advertised and no result answers; sawOutput; whether this is the first step;
\* attempt; overflows; the credentials in use; the cut of a compaction; the signal; failureReason.
Resting == [at |-> "idle", yields |-> << >>, calls |-> << >>, saw |-> FALSE, first |-> FALSE,
            attempt |-> 0, overflows |-> 0, auth |-> NoAccount, cut |-> 0, aborted |-> FALSE,
            failure |-> "none"]

Init ==
  /\ log = << >> /\ running = "none" /\ messages = << >> /\ persisted = 0
  /\ identity = NoAccount /\ account \in Accounts /\ turn = Resting
  /\ counts = [turns |-> 0, calls |-> 0, changes |-> 0, faults |-> 0, failed |-> 0,
              torn |-> 0]

At(place) == turn.at = place /\ turn.yields = << >>
Count(what) == counts' = [counts EXCEPT ![what] = @ + 1]
\* A step of the generator alone; what it yields is recorded before it goes on.
Go(place, yields) == [turn EXCEPT !.at = place, !.yields = yields]

-----------------------------------------------------------------------------
(* A prompt starts, and its first credentials are checked before the       *)
(* message enters the history.                                             *)

Submit ==
  /\ running = "none" /\ turn.at = "idle" /\ counts.turns < MaxTurns
  /\ running' = "prompt" /\ turn' = [Resting EXCEPT !.at = "send"]
  /\ Count("turns")
  /\ UNCHANGED <<log, messages, persisted, identity, account>>

\* resolveAuth: what it may return when the signal is not aborted.  Credentials of another
\* account than the session's are an error, and so may any others be.
Matches == identity \in {NoAccount, account}
AuthFails(place) ==
  /\ ~turn.aborted
  /\ turn' = Go(place, <<"error">>)

SendAborted ==
  /\ At("send") /\ turn.aborted
  /\ turn' = Go("end", <<"aborted">>)
  /\ UNCHANGED <<log, running, messages, persisted, identity, account, counts>>

SendRefused ==
  /\ At("send") /\ AuthFails("end")
  /\ UNCHANGED <<log, running, messages, persisted, identity, account, counts>>

Send ==
  /\ At("send") /\ ~turn.aborted /\ Matches
  /\ identity' = account
  /\ messages' = Append(messages, Message("user", << >>))
  /\ turn' = [Go("step", <<"delivered">>) EXCEPT !.auth = account, !.first = TRUE]
  /\ UNCHANGED <<log, running, persisted, account, counts>>

-----------------------------------------------------------------------------
(* One model step.  The first attempt of a turn uses the credentials the   *)
(* message was sent with.                                                  *)

\* The stream is over, and what only it needs is forgotten.
Leave(place, yields) == [Go(place, yields) EXCEPT !.saw = FALSE, !.auth = NoAccount]

Streaming(auth) == [Go("stream", << >>) EXCEPT !.auth = auth, !.first = FALSE, !.calls = << >>,
                                               !.saw = FALSE]

\* Faulty: a retry takes whatever credentials are active.
AttemptUnchecked ==
  /\ At("step") /\ ~turn.aborted
  /\ \/ turn.first /\ turn' = Streaming(turn.auth)
     \/ ~turn.first /\ turn' = Streaming(account)
     \/ ~turn.first /\ AuthFails("stopped")
  /\ UNCHANGED <<log, running, messages, persisted, identity, account, counts>>

Attempt ==
  /\ At("step") /\ ~turn.aborted
  /\ \/ turn.first /\ turn' = Streaming(turn.auth)
     \/ ~turn.first /\ Matches /\ turn' = Streaming(account)
     \/ ~turn.first /\ AuthFails("stopped")
  /\ UNCHANGED <<log, running, messages, persisted, identity, account, counts>>

AttemptAborted ==
  /\ At("step") /\ turn.aborted
  /\ turn' = [Go("outcome", << >>) EXCEPT !.calls = << >>]
  /\ UNCHANGED <<log, running, messages, persisted, identity, account, counts>>

StreamText ==
  /\ At("stream") /\ ~turn.aborted
  /\ turn' = [turn EXCEPT !.saw = TRUE]
  /\ UNCHANGED <<log, running, messages, persisted, identity, account, counts>>

StreamCall ==
  /\ At("stream") /\ ~turn.aborted /\ counts.calls < MaxCalls
  /\ turn' = [Go("stream", <<"tool_call">>) EXCEPT !.saw = TRUE,
                                                   !.calls = Append(@, counts.calls + 1)]
  /\ Count("calls")
  /\ UNCHANGED <<log, running, messages, persisted, identity, account>>

StreamDone ==
  /\ At("stream") /\ ~turn.aborted
  /\ messages' = Append(messages, Message("assistant", turn.calls))
  /\ turn' = [Leave("outcome", <<"completed">>) EXCEPT !.attempt = 0]
  /\ UNCHANGED <<log, running, persisted, identity, account, counts>>

\* A content filter, or an error after output, of another kind, or after every retry.
StreamStopped ==
  /\ At("stream") /\ ~turn.aborted
  /\ turn' = [Leave("stopped", <<"error">>) EXCEPT !.calls = << >>]
  /\ UNCHANGED <<log, running, messages, persisted, identity, account, counts>>

StreamRetried ==
  /\ At("stream") /\ ~turn.aborted /\ ~turn.saw /\ turn.attempt < MaxRetries
  /\ turn' = [Leave("sleep", <<"retry">>) EXCEPT !.attempt = @ + 1]
  /\ UNCHANGED <<log, running, messages, persisted, identity, account, counts>>

\* The next event of an aborted stream, whatever it is.  Text is dropped; calls are kept, and
\* so is readable reasoning when there was any.
StreamAborted ==
  /\ At("stream") /\ turn.aborted
  /\ \/ turn.saw /\ messages' = Append(messages, Message("assistant", turn.calls))
     \/ turn.calls = << >> /\ messages' = messages
  /\ turn' = Leave("outcome", << >>)
  /\ UNCHANGED <<log, running, persisted, identity, account, counts>>

Wake ==
  /\ At("sleep")
  /\ turn' = Go("step", << >>)
  /\ UNCHANGED <<log, running, messages, persisted, identity, account, counts>>

-----------------------------------------------------------------------------
(* After the step: calls are skipped, or run one by one.                   *)

Results(calls) == [i \in DOMAIN calls |-> Result(calls[i])]

\* skipToolCalls, and the marker that follows its results in the history.
Skip(place) ==
  /\ At(place) /\ turn.aborted
  /\ messages' = messages \o Results(turn.calls)
  /\ turn' = [Go("mark", [i \in DOMAIN turn.calls |-> "result"]) EXCEPT !.calls = << >>]
  /\ UNCHANGED <<log, running, persisted, identity, account, counts>>

\* Faulty: the calls of an aborted step stay as they are.
OutcomeDropped ==
  /\ At("outcome") /\ turn.aborted
  /\ turn' = [Go("mark", << >>) EXCEPT !.calls = << >>]
  /\ UNCHANGED <<log, running, messages, persisted, identity, account, counts>>

OutcomeAborted == Skip("outcome")
ToolsAborted == Skip("tools")

OutcomeDone ==
  /\ At("outcome") /\ ~turn.aborted
  /\ turn' = Go(IF turn.calls = << >> THEN "end" ELSE "tools", << >>)
  /\ UNCHANGED <<log, running, messages, persisted, identity, account, counts>>

Stopped ==
  /\ At("stopped")
  /\ turn' = Go(IF turn.aborted THEN "mark" ELSE "end", << >>)
  /\ UNCHANGED <<log, running, messages, persisted, identity, account, counts>>

RunTool ==
  /\ At("tools") /\ ~turn.aborted /\ turn.calls # << >>
  /\ turn' = Go("tool", << >>)
  /\ UNCHANGED <<log, running, messages, persisted, identity, account, counts>>

ToolReturns ==
  /\ At("tool")
  /\ messages' = Append(messages, Result(Head(turn.calls)))
  /\ turn' = [Go("tools", <<"result">>) EXCEPT !.calls = Tail(@)]
  /\ UNCHANGED <<log, running, persisted, identity, account, counts>>

\* Completed calls always trigger the next request, with its own attempts.
NextStep ==
  /\ At("tools") /\ ~turn.aborted /\ turn.calls = << >>
  /\ turn' = Go("step", << >>)
  /\ UNCHANGED <<log, running, messages, persisted, identity, account, counts>>

Mark ==
  /\ At("mark")
  /\ messages' = Append(messages, Marker)
  /\ turn' = Go("end", <<"aborted">>)
  /\ UNCHANGED <<log, running, persisted, identity, account, counts>>

-----------------------------------------------------------------------------
(* The node records what the generator yields, with the messages that were *)
(* added, in one append; the generator goes on when it is durable.         *)

Added == [i \in 1 .. Len(messages) - persisted |->
            ConversationRecord(Entries + i, messages[persisted + i])]
Payloads(yield) ==
  (IF yield = "delivered" THEN <<Delivered(counts.turns)>> ELSE << >>)
    \o (IF identity \in {NoAccount, Stored} THEN << >> ELSE <<IdentityRecord(identity)>>)
    \o Added

Failure(yield) == IF yield \in {"aborted", "error"} THEN yield ELSE turn.failure

Record ==
  /\ turn.yields # << >>
  /\ log' = log \o Payloads(Head(turn.yields))
  /\ persisted' = Len(messages)
  /\ turn' = [turn EXCEPT !.yields = Tail(@), !.failure = Failure(Head(turn.yields))]
  /\ UNCHANGED <<running, messages, identity, account, counts>>

\* A failed append ends the generator, and the failure is recorded instead, unless it was what
\* could not be recorded.  When that fails too, or in a compaction, nobody catches the error and
\* the process ends: a crash.
RecordFails ==
  /\ turn.yields # << >> /\ running = "prompt" /\ turn.at # "failed" /\ counts.faults < MaxFaults
  /\ turn' = LET yield == IF turn.aborted THEN "aborted" ELSE "error"
             IN IF Failure(Head(turn.yields)) # "none"
                THEN [Go("end", << >>) EXCEPT !.failure = Failure(Head(turn.yields))]
                ELSE Go("failed", <<yield>>)
  /\ counts' = [counts EXCEPT !.faults = @ + 1, !.failed = @ + 1]
  /\ UNCHANGED <<log, running, messages, persisted, identity, account>>

\* completeTurn: an abort that came too late for the generator is recorded too.
EndTurn ==
  /\ turn.at \in {"end", "failed"} /\ turn.yields = << >> /\ running = "prompt"
  /\ LET late == turn.aborted /\ turn.failure # "aborted" IN
     /\ log' = IF late THEN log \o Payloads("aborted") ELSE log
     /\ persisted' = IF late THEN Len(messages) ELSE persisted
  /\ running' = "none" /\ turn' = Resting
  /\ UNCHANGED <<messages, identity, account, counts>>

-----------------------------------------------------------------------------
(* Pruning replaces the oldest tool outputs before the protected user      *)
(* turns.  How many is a matter of their sizes.                            *)

Prunable ==
  LET users == {i \in DOMAIN messages : messages[i].role = "user"} IN
  {i \in DOMAIN messages : messages[i].role = "tool" /\ ~messages[i].pruned
                             /\ Cardinality({u \in users : u > i}) >= ProtectedTurns}
ApplyPrune(history, ids) ==
  [i \in DOMAIN history |-> IF history[i].role = "tool" /\ history[i].ids[1] \in ids
                            THEN [history[i] EXCEPT !.pruned = TRUE] ELSE history[i]]

Prune ==
  /\ running = "none" /\ turn.at = "idle" /\ persisted = Len(messages)
  /\ counts.changes < MaxChanges
  /\ \E last \in Prunable :
       LET ids == {messages[i].ids[1] : i \in {j \in Prunable : j <= last}} IN
       /\ messages' = ApplyPrune(messages, ids)
       /\ log' = Append(log, PruneRecord(ids))
  /\ Count("changes")
  /\ UNCHANGED <<running, persisted, identity, account, turn>>

-----------------------------------------------------------------------------
(* Compaction summarises a prefix of the history.                          *)

IsCutMessage(m) == m.role \notin {"tool", "summary"}
\* findCompactionCut, given the message at which the kept tokens are reached: 0 when none.
FindCut(history, crossing) ==
  LET owners == {i \in 1 .. crossing - 1 : history[i].role = "assistant"
                     /\ ToSet(history[crossing].ids) \subseteq ToSet(history[i].ids)}
      later == {i \in crossing + 1 .. Len(history) : IsCutMessage(history[i])}
  IN CASE IsCutMessage(history[crossing]) -> crossing
       [] history[crossing].role = "tool" /\ owners # {} -> Max(owners)
       [] OTHER -> IF later = {} THEN 0 ELSE Min(later)

\* The queue runs a compaction; one with nothing to summarise, or whose prompt cannot fit or be
\* sent, ends at once.
BeginCompaction ==
  /\ running = "none" /\ turn.at = "idle" /\ counts.changes < MaxChanges
  /\ persisted = Len(messages)
  /\ \E crossing \in DOMAIN messages :
       LET cut == FindCut(messages, crossing) IN
       /\ cut > 1
       /\ turn' = [Resting EXCEPT !.at = "summary", !.cut = cut]
  /\ running' = "compaction"
  /\ Count("changes")
  /\ UNCHANGED <<log, messages, persisted, identity, account>>

\* One attempt: fresh credentials and a new summary from scratch.
Summarise ==
  /\ At("summary") /\ ~turn.aborted
  /\ \/ Matches /\ turn' = [Go("summarising", << >>) EXCEPT !.auth = account]
     \/ AuthFails("given up")
  /\ UNCHANGED <<log, running, messages, persisted, identity, account, counts>>

\* A transient failure, or a prompt that is too long and is cut by half.
SummaryRetried ==
  /\ At("summarising") /\ ~turn.aborted
  /\ \/ turn.attempt < MaxRetries /\ turn' = [Go("summary", <<"retry">>) EXCEPT !.attempt = @ + 1]
     \/ turn.overflows < MaxRetries
          /\ turn' = [Go("summary", <<"retry">>) EXCEPT !.overflows = @ + 1]
  /\ UNCHANGED <<log, running, messages, persisted, identity, account, counts>>

SummaryStopped ==
  /\ At("summarising") /\ ~turn.aborted
  /\ turn' = Go("given up", <<"error">>)
  /\ UNCHANGED <<log, running, messages, persisted, identity, account, counts>>

SummaryDone ==
  /\ At("summarising") /\ ~turn.aborted
  /\ turn' = Go("summarised", << >>)
  /\ UNCHANGED <<log, running, messages, persisted, identity, account, counts>>

Kept == SubSeq(messages, turn.cut, Len(messages))
FirstKept == Entries - Len(Kept) + 1

\* Faulty: the entry is counted from the beginning, as if nothing had been summarised before.
CompactByIndex ==
  /\ At("summarised") /\ ~turn.aborted
  /\ log' = Append(log, CompactionRecord(turn.cut))
  /\ messages' = <<Summary>> \o Kept
  /\ persisted' = Len(messages')
  /\ running' = "none" /\ turn' = Resting
  /\ UNCHANGED <<identity, account, counts>>

\* The record names the entry of the first message kept, counted from the end; an abort that
\* came meanwhile, or a summary that does not shorten the history, drops the outcome.
Compact ==
  /\ At("summarised") /\ ~turn.aborted
  /\ log' = Append(log, CompactionRecord(FirstKept))
  /\ messages' = <<Summary>> \o Kept
  /\ persisted' = Len(messages')
  /\ running' = "none" /\ turn' = Resting
  /\ UNCHANGED <<identity, account, counts>>

GiveUp ==
  /\ \/ At("given up") \/ At("summarised")
     \/ (At("summary") \/ At("summarising")) /\ turn.aborted
  /\ running' = "none" /\ turn' = Resting
  /\ UNCHANGED <<log, messages, persisted, identity, account, counts>>

-----------------------------------------------------------------------------
(* Cancellation, other credentials, and a stop with what was being         *)
(* appended cut after any record.                                          *)

Abort ==
  /\ running # "none" /\ turn.at # "down" /\ ~turn.aborted
  /\ turn' = [turn EXCEPT !.aborted = TRUE]
  /\ UNCHANGED <<log, running, messages, persisted, identity, account, counts>>

SwitchAccount ==
  /\ counts.faults < MaxFaults
  /\ account' \in Accounts \ {account}
  /\ Count("faults")
  /\ UNCHANGED <<log, running, messages, persisted, identity, turn>>

Crash ==
  /\ counts.faults < MaxFaults /\ turn.at # "down"
  /\ LET appending == IF turn.yields = << >> THEN << >> ELSE Payloads(Head(turn.yields)) IN
     \E n \in 0 .. Len(appending) : log' = log \o SubSeq(appending, 1, n)
  /\ turn' = [Resting EXCEPT !.at = "down"]
  /\ messages' = << >> /\ persisted' = 0 /\ identity' = NoAccount
  /\ Count("faults")
  /\ UNCHANGED <<running, account>>

\* projectMessages: what the log says the history is.
Bare(projected) == [i \in DOMAIN projected |-> projected[i].message]
Project(projected, record) ==
  CASE record.type = "conversation" -> Append(projected, record)
    [] record.type = "prune" ->
         LET pruned == ApplyPrune(Bare(projected), record.ids)
         IN [i \in DOMAIN projected |-> [projected[i] EXCEPT !.message = pruned[i]]]
    [] record.type = "compaction" ->
         LET kept == {i \in DOMAIN projected : projected[i].entry = record.firstKept}
         IN IF kept = {} THEN <<ConversationRecord(0, Message("lost", << >>))>>
            ELSE <<ConversationRecord(0, Summary)>> \o SubSeq(projected, Min(kept), Len(projected))
    [] OTHER -> projected
Projected(records) ==
  LET projected[n \in 0 .. Len(records)] ==
        IF n = 0 THEN << >> ELSE Project(projected[n - 1], records[n])
  IN projected[Len(records)]
Replay(records) == Bare(Projected(records))

\* The n-th of some positions.
Nth(positions, n) ==
  CHOOSE k \in positions : Cardinality({j \in positions : j <= k}) = n

\* #recoverRunning: the calls of the last assistant message that no result answers.
Outstanding(history) ==
  LET assistants == {i \in DOMAIN history : history[i].role = "assistant"}
      answered == UNION {ToSet(history[i].ids) : i \in {j \in DOMAIN history : history[j].role = "tool"}}
  IN IF assistants = {} THEN << >>
     ELSE LET calls == history[Max(assistants)].ids
              open == {k \in DOMAIN calls : calls[k] \notin answered}
          IN [n \in 1 .. Cardinality(open) |-> calls[Nth(open, n)]]

\* A prompt cut short is repaired and ended in one append; a compaction is only ended.
Repair(history) ==
  LET results == Results(Outstanding(history)) IN
  IF running # "prompt" THEN << >>
  ELSE IF results = << >> /\ Delivered(counts.turns) \notin ToSet(log) THEN << >>
  ELSE Append(results, Marker)

Repaired(repair) == [i \in DOMAIN repair |-> ConversationRecord(Entries + i, repair[i])]

\* A stop cuts the repair off too; what is there of it is history for the next one.
RecoverFails ==
  /\ turn.at = "down" /\ counts.torn < MaxFaults
  /\ LET repair == Repaired(Repair(Replay(log))) IN
     \E n \in 0 .. Len(repair) : log' = log \o SubSeq(repair, 1, n)
  /\ Count("torn")
  /\ UNCHANGED <<running, messages, persisted, identity, account, turn>>

Recover ==
  /\ turn.at = "down"
  /\ LET repair == Repair(Replay(log)) IN
     /\ messages' = Replay(log) \o repair
     /\ log' = log \o Repaired(repair)
  /\ persisted' = Len(messages') /\ identity' = Stored
  /\ running' = "none" /\ turn' = Resting
  /\ UNCHANGED <<account, counts>>

-----------------------------------------------------------------------------
Next ==
  \/ Submit \/ SendAborted \/ SendRefused \/ Send
  \/ Attempt \/ AttemptAborted \/ StreamText \/ StreamCall \/ StreamDone \/ StreamStopped
  \/ StreamRetried \/ StreamAborted \/ Wake
  \/ OutcomeAborted \/ OutcomeDone \/ Stopped \/ RunTool \/ ToolReturns \/ ToolsAborted \/ NextStep
  \/ Mark \/ Record \/ RecordFails \/ EndTurn
  \/ Prune \/ BeginCompaction \/ Summarise \/ SummaryRetried \/ SummaryStopped \/ SummaryDone
  \/ Compact \/ GiveUp
  \/ Abort \/ SwitchAccount \/ Crash \/ RecoverFails \/ Recover

Spec == Init /\ [][Next]_vars

-----------------------------------------------------------------------------
\* Every call has one result, which follows it, and every result has its call.
Acceptable(history) ==
  \A i \in DOMAIN history :
    /\ history[i].role = "assistant" =>
         \A c \in ToSet(history[i].ids) :
           Cardinality({j \in i + 1 .. Len(history) : history[j] \in
              {Result(c), [Result(c) EXCEPT !.pruned = TRUE]}}) = 1
    /\ history[i].role = "tool" =>
         \E j \in 1 .. i - 1 : history[j].role = "assistant" /\ history[i].ids[1] \in ToSet(history[j].ids)

\* The provider refuses a history in which a tool call has no result or a result no call, and
\* would refuse every later turn of the session.  However turns were aborted, stopped by a crash
\* in the middle of an append, compacted or pruned, no such history is sent.  (An append that
\* failed may leave one: the generator is dropped and nothing answers its calls.)
RequestAnswered == turn.at = "stream" /\ counts.failed = 0 => Acceptable(messages)

\* What a restart would rebuild from the log is the history the harness holds, as far as it
\* is recorded: compaction, pruning and repair do to both the same thing.
ReplayAgrees == turn.at # "down" => Replay(log) = SubSeq(messages, 1, persisted)

\* A session stays with the account it began with: every request to the provider is made with
\* the credentials of the account its log names, whichever are active by then.  (A crash in
\* the first append may leave a log that names none, which any account may summarise.)
OneAccount ==
  /\ turn.at = "stream" => turn.auth = Stored
  /\ turn.at = "summarising" => Stored \in {NoAccount, turn.auth}
  /\ Cardinality({log[i].account : i \in {j \in DOMAIN log : log[j].type = "identity"}}) <= 1
=============================================================================
