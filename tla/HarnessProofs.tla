--------------------------- MODULE HarnessProofs ---------------------------
(***************************************************************************)
(* Of Harness, for any number of accounts, turns, calls, changes and       *)
(* faults: a session stays with one account, its log replays to the        *)
(* history that is held in memory, and no history is sent to the provider  *)
(* in which a call lacks its result or a result its call.                  *)
(***************************************************************************)
EXTENDS Harness, SequenceFacts, FiniteSetTheorems

-----------------------------------------------------------------------------
(* The inductive invariant: the types. *)

Roles == {"user", "assistant", "tool", "developer", "summary"}
\* A result names its call.
Msgs == {m \in [role : Roles, ids : Seq(Nat), pruned : BOOLEAN] : m.role = "tool" => m.ids # << >>}

Conversation == [type : {"conversation"}, entry : Nat, message : Msgs]
Plain == [type : {"identity"}, account : Accounts] \cup [type : {"delivered"}, turn : Nat]
Changes == [type : {"compaction"}, firstKept : Int] \cup [type : {"prune"}, ids : SUBSET Nat]
Records == Conversation \cup Plain \cup Changes

Sending == {"send"}
Looping == {"step", "stream", "sleep", "outcome", "tools", "tool"}
Leaving == {"stopped", "mark", "end", "failed"}
Compacting == {"summary", "summarising", "summarised", "given up"}
Places == {"idle", "down"} \cup Sending \cup Looping \cup Leaving \cup Compacting
Yields == {"delivered", "tool_call", "completed", "retry", "result", "aborted", "error"}

Turns ==
  [at : Places, yields : Seq(Yields), calls : Seq(Nat), saw : BOOLEAN, first : BOOLEAN,
   attempt : Nat, overflows : Nat, auth : Accounts \cup {NoAccount}, cut : Nat, aborted : BOOLEAN,
   failure : {"none", "aborted", "error"}]
Counts == [turns : Nat, calls : Nat, changes : Nat, faults : Nat, failed : Nat, torn : Nat]

Typed ==
  /\ log \in Seq(Records) /\ messages \in Seq(Msgs) /\ persisted \in 0 .. Len(messages)
  /\ running \in {"none", "prompt", "compaction"}
  /\ identity \in Accounts \cup {NoAccount} /\ account \in Accounts
  /\ turn \in Turns /\ counts \in Counts

-----------------------------------------------------------------------------
(* What a log projects to, record by record.                               *)

\* The projection of a log is the projection of the log without its last record, changed by it.
IsProjection(f, records) ==
  f = [n \in 0 .. Len(records) |-> IF n = 0 THEN << >> ELSE Project(f[n - 1], records[n])]

LEMMA ProjectionExists ==
  ASSUME NEW records, Len(records) \in Nat
  PROVE  \E f : IsProjection(f, records)
<1> DEFINE upto(f, m) ==
      f = [n \in 0 .. m |-> IF n = 0 THEN << >> ELSE Project(f[n - 1], records[n])]
<1> DEFINE S == {m \in Nat : \E f : upto(f, m)}
<1>1. 0 \in S
  <2>1. PICK f : f = [n \in 0 .. 0 |-> << >>]
    OBVIOUS
  <2>2. upto(f, 0)
    BY <2>1
  <2> QED
    BY <2>2
<1>2. ASSUME NEW m \in Nat, m \in S
      PROVE  m + 1 \in S
  <2>1. PICK f : upto(f, m)
    BY <1>2
  <2>2. PICK g : g = [n \in 0 .. m + 1 |->
                       IF n <= m THEN f[n] ELSE Project(f[m], records[m + 1])]
    OBVIOUS
  <2>3. \A n \in 0 .. m + 1 : g[n] = IF n = 0 THEN << >> ELSE Project(g[n - 1], records[n])
    <3> TAKE n \in 0 .. m + 1
    <3>1. CASE n = 0
      BY <2>1, <2>2, <3>1
    <3>2. CASE n # 0 /\ n <= m
      <4>1. n \in 0 .. m /\ n - 1 \in 0 .. m /\ n - 1 \in 0 .. m + 1 /\ n - 1 <= m
        BY <3>2
      <4>2. g[n] = f[n] /\ g[n - 1] = f[n - 1]
        BY <2>2, <3>2, <4>1
      <4>3. f[n] = Project(f[n - 1], records[n])
        BY <2>1, <3>2, <4>1
      <4> QED
        BY <3>2, <4>2, <4>3
    <3>3. CASE ~(n <= m)
      <4>1. n = m + 1 /\ n # 0 /\ n - 1 = m /\ m \in 0 .. m + 1
        BY <3>3
      <4>2. g[m] = f[m] /\ g[n] = Project(f[m], records[m + 1])
        BY <2>2, <4>1
      <4> QED
        BY <4>1, <4>2
    <3> QED
      BY <3>1, <3>2, <3>3
  <2>4. upto(g, m + 1)
    BY <2>2, <2>3
  <2> QED
    BY <2>4
<1>3. Nat \subseteq S
  <2> HIDE DEF S
  <2> QED
    BY <1>1, <1>2, SetInduction
<1> QED
  BY <1>3 DEF IsProjection

LEMMA ProjectedIs ==
  ASSUME NEW records, Len(records) \in Nat
  PROVE  \E f : IsProjection(f, records) /\ Projected(records) = f[Len(records)]
<1>1. PICK f : f = CHOOSE g : IsProjection(g, records)
  OBVIOUS
<1>2. IsProjection(f, records)
  BY <1>1, ProjectionExists
<1>3. Projected(records) = f[Len(records)]
  BY <1>1 DEF Projected, IsProjection
<1> QED
  BY <1>2, <1>3

LEMMA ProjectedEmpty == Projected(<< >>) = << >>
<1>1. Len(<< >>) = 0
  OBVIOUS
<1>2. PICK f : IsProjection(f, << >>) /\ Projected(<< >>) = f[0]
  BY <1>1, ProjectedIs
<1> QED
  BY <1>1, <1>2 DEF IsProjection

LEMMA ProjectedAppend ==
  ASSUME NEW T, NEW records \in Seq(T), NEW r \in T
  PROVE  Projected(Append(records, r)) = Project(Projected(records), r)
<1>1. PICK longer, m : longer = Append(records, r) /\ m = Len(records)
  OBVIOUS
<1>2. /\ m \in Nat /\ Len(longer) = m + 1 /\ longer[m + 1] = r
      /\ \A n \in 1 .. m : longer[n] = records[n]
  BY <1>1
<1>3. PICK f : IsProjection(f, records) /\ Projected(records) = f[m]
  BY <1>1, <1>2, ProjectedIs
<1>4. PICK g : IsProjection(g, longer) /\ Projected(longer) = g[m + 1]
  <2>1. Len(longer) \in Nat
    BY <1>2
  <2>2. PICK g : IsProjection(g, longer) /\ Projected(longer) = g[Len(longer)]
    BY <2>1, ProjectedIs
  <2> QED
    BY <1>2, <2>2
<1>5. /\ f[0] = << >> /\ g[0] = << >>
      /\ \A n \in 1 .. m : f[n] = Project(f[n - 1], records[n])
      /\ \A n \in 1 .. m + 1 : g[n] = Project(g[n - 1], longer[n])
  <2>1. \A n \in 1 .. m : n \in 0 .. m /\ n # 0
    BY <1>2
  <2>2. \A n \in 1 .. m + 1 : n \in 0 .. m + 1 /\ n # 0
    BY <1>2
  <2>3. 0 \in 0 .. m /\ 0 \in 0 .. m + 1
    BY <1>2
  <2>4. \A n \in 0 .. m : f[n] = IF n = 0 THEN << >> ELSE Project(f[n - 1], records[n])
    BY <1>1, <1>3 DEF IsProjection
  <2>5. \A n \in 0 .. m + 1 : g[n] = IF n = 0 THEN << >> ELSE Project(g[n - 1], longer[n])
    BY <1>2, <1>4 DEF IsProjection
  <2> QED
    BY <2>1, <2>2, <2>3, <2>4, <2>5
<1> DEFINE S == {n \in Nat : n <= m => f[n] = g[n]}
<1>6. 0 \in S
  BY <1>5
<1>7. ASSUME NEW n \in Nat, n \in S
      PROVE  n + 1 \in S
  <2> SUFFICES ASSUME n + 1 <= m
               PROVE  f[n + 1] = g[n + 1]
    OBVIOUS
  <2>1. n + 1 \in 1 .. m /\ n + 1 \in 1 .. m + 1 /\ (n + 1) - 1 = n /\ f[n] = g[n]
    BY <1>2, <1>7
  <2>2. f[n + 1] = Project(f[n], records[n + 1]) /\ g[n + 1] = Project(g[n], longer[n + 1])
    BY <1>5, <2>1
  <2> QED
    BY <1>2, <2>1, <2>2
<1>8. m \in S
  <2> HIDE DEF S
  <2> QED
    BY <1>2, <1>6, <1>7, SetInduction
<1>9. f[m] = g[m] /\ m + 1 \in 1 .. m + 1 /\ (m + 1) - 1 = m
  BY <1>2, <1>8
<1> QED
  BY <1>1, <1>2, <1>3, <1>4, <1>5, <1>9

\* Conversation records are added to the projection, and others do not change it.
LEMMA ProjectedConversation ==
  ASSUME NEW T, Conversation \subseteq T, NEW records \in Seq(T), NEW s \in Seq(Conversation),
         Projected(records) \in Seq(Conversation)
  PROVE  Projected(records \o s) = Projected(records) \o s
<1> DEFINE S == {n \in Nat : n <= Len(s) =>
                   Projected(records \o SubSeq(s, 1, n)) = Projected(records) \o SubSeq(s, 1, n)}
<1>1. Len(s) \in Nat /\ s \in Seq(T)
  OBVIOUS
<1>2. 0 \in S
  <2>1. SubSeq(s, 1, 0) = << >>
    OBVIOUS
  <2>2. records \o << >> = records /\ Projected(records) \o << >> = Projected(records)
    BY ConcatEmptySeq
  <2> QED
    BY <2>1, <2>2
<1>3. ASSUME NEW n \in Nat, n \in S
      PROVE  n + 1 \in S
  <2> SUFFICES ASSUME n + 1 <= Len(s)
               PROVE  Projected(records \o SubSeq(s, 1, n + 1))
                        = Projected(records) \o SubSeq(s, 1, n + 1)
    OBVIOUS
  <2>1. n \in 0 .. Len(s) - 1 /\ n <= Len(s) /\ s[n + 1] \in Conversation
    BY <1>1
  <2>2. SubSeq(s, 1, n) \in Seq(T)
    BY <1>1, <2>1
  <2>3. records \o SubSeq(s, 1, n + 1) = Append(records \o SubSeq(s, 1, n), s[n + 1])
    BY <1>1, <2>1, PrefixNext
  <2>4. Projected(records) \o SubSeq(s, 1, n + 1)
          = Append(Projected(records) \o SubSeq(s, 1, n), s[n + 1])
    BY <2>1, PrefixNext
  <2>5. records \o SubSeq(s, 1, n) \in Seq(T) /\ s[n + 1] \in T
    BY <2>1, <2>2
  <2>6. Projected(records \o SubSeq(s, 1, n + 1))
          = Project(Projected(records \o SubSeq(s, 1, n)), s[n + 1])
    BY <2>3, <2>5, ProjectedAppend
  <2>7. \A p : Project(p, s[n + 1]) = Append(p, s[n + 1])
    <3>1. s[n + 1].type = "conversation"
      BY <2>1 DEF Conversation
    <3> QED
      BY <3>1 DEF Project
  <2>8. Projected(records \o SubSeq(s, 1, n)) = Projected(records) \o SubSeq(s, 1, n)
    BY <1>3, <2>1
  <2> QED
    BY <2>4, <2>6, <2>7, <2>8
<1>4. Len(s) \in S
  <2> HIDE DEF S
  <2> QED
    BY <1>1, <1>2, <1>3, SetInduction
<1>5. SubSeq(s, 1, Len(s)) = s
  OBVIOUS
<1>6. Projected(records \o SubSeq(s, 1, Len(s))) = Projected(records) \o SubSeq(s, 1, Len(s))
  BY <1>1, <1>4
<1> QED
  BY <1>5, <1>6

LEMMA ProjectedPlain ==
  ASSUME NEW T, Plain \subseteq T, NEW records \in Seq(T), NEW s \in Seq(Plain)
  PROVE  Projected(records \o s) = Projected(records)
<1> DEFINE S == {n \in Nat : n <= Len(s) => Projected(records \o SubSeq(s, 1, n)) = Projected(records)}
<1>1. Len(s) \in Nat /\ s \in Seq(T)
  OBVIOUS
<1>2. 0 \in S
  <2>1. SubSeq(s, 1, 0) = << >>
    OBVIOUS
  <2>2. records \o << >> = records
    BY ConcatEmptySeq
  <2> QED
    BY <2>1, <2>2
<1>3. ASSUME NEW n \in Nat, n \in S
      PROVE  n + 1 \in S
  <2> SUFFICES ASSUME n + 1 <= Len(s)
               PROVE  Projected(records \o SubSeq(s, 1, n + 1)) = Projected(records)
    OBVIOUS
  <2>1. n \in 0 .. Len(s) - 1 /\ n <= Len(s) /\ s[n + 1] \in Plain
    BY <1>1
  <2>2. SubSeq(s, 1, n) \in Seq(T)
    BY <1>1, <2>1
  <2>3. records \o SubSeq(s, 1, n + 1) = Append(records \o SubSeq(s, 1, n), s[n + 1])
    BY <1>1, <2>1, PrefixNext
  <2>4. records \o SubSeq(s, 1, n) \in Seq(T) /\ s[n + 1] \in T
    BY <2>1, <2>2
  <2>5. Projected(records \o SubSeq(s, 1, n + 1))
          = Project(Projected(records \o SubSeq(s, 1, n)), s[n + 1])
    BY <2>3, <2>4, ProjectedAppend
  <2>6. \A p : Project(p, s[n + 1]) = p
    <3>1. s[n + 1].type \notin {"conversation", "prune", "compaction"}
      BY <2>1 DEF Plain
    <3> QED
      BY <3>1 DEF Project
  <2> QED
    BY <1>3, <2>1, <2>5, <2>6
<1>4. Len(s) \in S
  <2> HIDE DEF S
  <2> QED
    BY <1>1, <1>2, <1>3, SetInduction
<1>5. SubSeq(s, 1, Len(s)) = s
  OBVIOUS
<1>6. Projected(records \o SubSeq(s, 1, Len(s))) = Projected(records)
  BY <1>1, <1>4
<1> QED
  BY <1>5, <1>6

-----------------------------------------------------------------------------
(* The inductive invariant: the parts.                                     *)

\* The activity that the queue runs is the one the generator is in; nothing waits to be recorded
\* at rest, a tool runs for a call, and a compaction cuts a recorded history at a message of its own.
Placed ==
  /\ turn.at # "down" => /\ running = "none" <=> turn.at = "idle"
                         /\ running = "compaction" <=> turn.at \in Compacting
  /\ turn.at \in {"idle", "down"} => turn.yields = << >>
  /\ turn.at = "tool" => turn.calls # << >>
  /\ turn.at = "down" => persisted = 0 /\ messages = << >>
  /\ turn.at \in Compacting => /\ persisted = Len(messages) /\ turn.cut \in 2 .. Len(messages)
                               /\ IsCutMessage(messages[turn.cut])

\* The log names one account, and the harness no other; once the message is recorded, the log has
\* the name and the credentials in use are of that account.
Kind(records, type) == {i \in DOMAIN records : records[i].type = type}
Named(records) == {records[i].account : i \in Kind(records, "identity")}
Loyal ==
  /\ \A a, b \in Named(log) : a = b
  /\ turn.at # "down" => Named(log) \subseteq {identity}
  /\ turn.at \in Looping =>
       /\ identity # NoAccount
       /\ Named(log) = {identity} \/ (turn.at = "step" /\ turn.yields = <<"delivered">>)
       /\ turn.first => turn.auth = identity
  /\ turn.at = "stream" => ~turn.first /\ turn.auth = identity
  /\ turn.at = "summarising" => identity \in {NoAccount, turn.auth}

\* The projection of a log of n entries ends with the last and skips none, but for a summary in front.
Numbered(projected, n) ==
  /\ Len(projected) <= n + 1
  /\ \A i \in DOMAIN projected : \/ projected[i].entry = n - Len(projected) + i
                                 \/ i = 1 /\ projected[i].entry = 0
Rebuilt ==
  /\ Projected(log) \in Seq(Conversation) /\ Numbered(Projected(log), Entries)
  /\ turn.at # "down" => Bare(Projected(log)) = SubSeq(messages, 1, persisted)

(***************************************************************************)
(* The results of a response follow it in the order of its calls, as far   *)
(* as the history goes; there is no other result, and no call twice.  The  *)
(* calls are numbered up to n.                                             *)
(***************************************************************************)
Asks(h, i) == h[i].role = "assistant"
Shape(h, n) ==
  /\ \A i \in DOMAIN h : Asks(h, i) =>
       \A k \in DOMAIN h[i].ids : i + k \in DOMAIN h =>
         h[i + k].role = "tool" /\ h[i + k].ids = <<h[i].ids[k]>>
  /\ \A j \in DOMAIN h : h[j].role = "tool" =>
       \E i \in DOMAIN h : Asks(h, i) /\ \E k \in DOMAIN h[i].ids : j = i + k
  /\ \A i, j \in DOMAIN h : Asks(h, i) /\ Asks(h, j) =>
       \A k \in DOMAIN h[i].ids, l \in DOMAIN h[j].ids : h[i].ids[k] = h[j].ids[l] => i = j /\ k = l
  /\ \A i \in DOMAIN h : \A k \in DOMAIN h[i].ids : h[i].ids[k] <= n

\* All calls have results, or calls are those of the last response that have none.
Answered(h) == \A i \in DOMAIN h : Asks(h, i) => i + Len(h[i].ids) <= Len(h)
Open(h, calls) ==
  \/ Answered(h) /\ calls = << >>
  \/ \E i \in DOMAIN h : /\ Asks(h, i) /\ Len(h) < i + Len(h[i].ids)
                         /\ calls = SubSeq(h[i].ids, Len(h) - i + 1, Len(h[i].ids))
\* Calls that are new to the history, of the first n.
Fresh(h, calls, n) ==
  /\ IsInjective(calls)
  /\ \A k \in DOMAIN calls : /\ calls[k] <= n
                             /\ \A i \in DOMAIN h : \A l \in DOMAIN h[i].ids : h[i].ids[l] # calls[k]

Acting == {"outcome", "tools", "tool"}
Sound ==
  /\ turn.at \notin {"failed", "down"} /\ Shape(messages, counts.calls)
  /\ IF turn.at \in Acting THEN Open(messages, turn.calls) ELSE Answered(messages)
  /\ turn.at = "stream" => Fresh(messages, turn.calls, counts.calls)
  /\ \/ persisted = Len(messages) \/ turn.yields # << >> \/ turn.at = "mark"
     \/ turn.at = "outcome" /\ turn.aborted
Restorable == Shape(Replay(log), counts.calls) /\ (running # "prompt" => Answered(Replay(log)))

HarnessInv ==
  /\ Typed /\ Placed /\ Loyal /\ Rebuilt
  /\ counts.failed = 0 => IF turn.at = "down" THEN Restorable ELSE Sound

-----------------------------------------------------------------------------
(* The generator's steps. *)

LEMMA Names ==
  /\ {"idle", "down", "send", "step", "stream", "sleep", "outcome", "tools", "tool", "stopped", "mark",
      "end", "failed", "summary", "summarising", "summarised", "given up"} = Places
  /\ << >> \in Seq(Yields) /\ \A y \in Yields : <<y>> \in Seq(Yields) /\ <<y>> # << >>
  /\ << >> \in Seq(Nat) /\ NoAccount \notin Accounts
<1>1. {"idle", "down", "send", "step", "stream", "sleep", "outcome", "tools", "tool", "stopped",
       "mark", "end", "failed", "summary", "summarising", "summarised", "given up"} = Places
  BY DEF Places, Sending, Looping, Leaving, Compacting
<1>2. << >> \in Seq(Yields) /\ \A y \in Yields : <<y>> \in Seq(Yields) /\ <<y>> # << >>
  OBVIOUS
<1>3. << >> \in Seq(Nat)
  OBVIOUS
<1>4. NoAccount \notin Accounts
  BY HarnessAssumption
<1> QED
  BY <1>1, <1>2, <1>3, <1>4, Zenon

\* What becomes of the generator when it goes somewhere.
LEMMA GoTypes ==
  ASSUME turn \in Turns, NEW place, NEW yields
  PROVE  /\ place \in Places /\ yields \in Seq(Yields) => Go(place, yields) \in Turns
         /\ Go(place, yields).at = place /\ Go(place, yields).yields = yields
         /\ Go(place, yields).calls = turn.calls /\ Go(place, yields).first = turn.first
         /\ Go(place, yields).auth = turn.auth /\ Go(place, yields).cut = turn.cut
         /\ Go(place, yields).aborted = turn.aborted
         /\ Go(place, yields).attempt = turn.attempt /\ Go(place, yields).overflows = turn.overflows
  BY DEF Go, Turns

LEMMA LeaveTypes ==
  ASSUME turn \in Turns, NEW place, NEW yields
  PROVE  /\ place \in Places /\ yields \in Seq(Yields) => Leave(place, yields) \in Turns
         /\ Leave(place, yields).at = place /\ Leave(place, yields).yields = yields
         /\ Leave(place, yields).calls = turn.calls /\ Leave(place, yields).first = turn.first
         /\ Leave(place, yields).auth = NoAccount /\ Leave(place, yields).cut = turn.cut
         /\ Leave(place, yields).aborted = turn.aborted /\ Leave(place, yields).attempt = turn.attempt
  BY DEF Leave, Go, Turns

LEMMA StreamingTypes ==
  ASSUME turn \in Turns, NEW a \in Accounts \cup {NoAccount}
  PROVE  /\ Streaming(a) \in Turns
         /\ Streaming(a).at = "stream" /\ Streaming(a).yields = << >> /\ Streaming(a).calls = << >>
         /\ Streaming(a).first = FALSE /\ Streaming(a).auth = a /\ Streaming(a).cut = turn.cut
         /\ Streaming(a).aborted = turn.aborted
<1>1. "stream" \in Places /\ << >> \in Seq(Yields) /\ << >> \in Seq(Nat)
  BY Names
<1>2. PICK g \in Turns : g = Go("stream", << >>)
  BY <1>1, GoTypes
<1>3. /\ g.at = "stream" /\ g.yields = << >> /\ g.cut = turn.cut /\ g.aborted = turn.aborted
  BY <1>1, <1>2, GoTypes
<1>4. Streaming(a) = [g EXCEPT !.auth = a, !.first = FALSE, !.calls = << >>, !.saw = FALSE]
  BY <1>2 DEF Streaming
<1>5. PICK s : s = [g EXCEPT !.auth = a, !.first = FALSE]
  OBVIOUS
<1>6. /\ s \in Turns /\ s.auth = a /\ s.first = FALSE
      /\ s.at = g.at /\ s.yields = g.yields /\ s.cut = g.cut /\ s.aborted = g.aborted
  BY <1>5 DEF Turns
<1>7. Streaming(a) = [s EXCEPT !.calls = << >>, !.saw = FALSE]
  BY <1>4, <1>5 DEF Turns
<1> QED
  BY <1>1, <1>3, <1>6, <1>7 DEF Turns

\* A step of the generator from a place, with nothing to be recorded, to another.
Moves(from, to, yields) ==
  /\ turn.at = from /\ turn.yields = << >>
  /\ turn' \in Turns /\ turn'.at = to /\ turn'.yields = yields
  /\ turn'.aborted = turn.aborted /\ turn'.cut = turn.cut
Keeps == turn'.calls = turn.calls /\ turn'.first = turn.first /\ turn'.auth = turn.auth

LEMMA Goes ==
  ASSUME turn \in Turns, NEW from, NEW to \in Places, NEW yields \in Seq(Yields), At(from)
  PROVE  /\ turn' = Go(to, yields) => Moves(from, to, yields) /\ Keeps
         /\ turn' = Leave(to, yields) =>
              Moves(from, to, yields) /\ turn'.calls = turn.calls /\ turn'.first = turn.first
  BY GoTypes, LeaveTypes DEF Moves, Keeps, At

LEMMA SendMoves ==
  ASSUME turn \in Turns, account \in Accounts
  PROVE  /\ SendAborted => Moves("send", "end", <<"aborted">>)
         /\ SendRefused => Moves("send", "end", <<"error">>)
         /\ Send => /\ Moves("send", "step", <<"delivered">>)
                    /\ turn'.first = TRUE /\ turn'.auth = account
<1>1. /\ "end" \in Places /\ "step" \in Places
      /\ <<"aborted">> \in Seq(Yields) /\ <<"error">> \in Seq(Yields) /\ <<"delivered">> \in Seq(Yields)
  BY Names DEF Yields
<1>2. SendAborted => Moves("send", "end", <<"aborted">>)
  BY <1>1, Goes DEF SendAborted
<1>3. SendRefused => Moves("send", "end", <<"error">>)
  BY <1>1, Goes DEF SendRefused, AuthFails
<1>4. ASSUME Send
      PROVE  Moves("send", "step", <<"delivered">>) /\ turn'.first = TRUE /\ turn'.auth = account
  <2>1. PICK g \in Turns : g = Go("step", <<"delivered">>)
    BY <1>1, GoTypes
  <2>2. g.at = "step" /\ g.yields = <<"delivered">> /\ g.aborted = turn.aborted /\ g.cut = turn.cut
    BY <1>1, <2>1, GoTypes
  <2>3. turn' = [g EXCEPT !.auth = account, !.first = TRUE] /\ At("send")
    BY <1>4, <2>1 DEF Send
  <2> QED
    BY <2>2, <2>3 DEF Turns, Moves, At
<1> QED
  BY <1>2, <1>3, <1>4

LEMMA StepMoves ==
  ASSUME turn \in Turns, account \in Accounts, counts \in Counts
  PROVE  /\ Attempt => \/ /\ Moves("step", "stream", << >>) /\ turn'.calls = << >> /\ turn'.first = FALSE
                          /\ \/ turn.first /\ turn'.auth = turn.auth
                             \/ Matches /\ turn'.auth = account
                       \/ Moves("step", "stopped", <<"error">>)
         /\ AttemptAborted => /\ Moves("step", "outcome", << >>) /\ turn'.calls = << >> /\ turn.aborted
                              /\ turn'.first = turn.first /\ turn'.auth = turn.auth
         /\ StreamText => Moves("stream", "stream", << >>) /\ Keeps
         /\ StreamCall => /\ Moves("stream", "stream", <<"tool_call">>)
                          /\ turn'.calls = Append(turn.calls, counts.calls + 1)
                          /\ turn'.first = turn.first /\ turn'.auth = turn.auth
         /\ StreamDone => /\ Moves("stream", "outcome", <<"completed">>)
                          /\ turn'.calls = turn.calls /\ turn'.first = turn.first
         /\ StreamStopped => Moves("stream", "stopped", <<"error">>)
         /\ StreamRetried => Moves("stream", "sleep", <<"retry">>) /\ turn'.first = turn.first
         /\ StreamAborted => /\ Moves("stream", "outcome", << >>) /\ turn.aborted
                             /\ turn'.calls = turn.calls /\ turn'.first = turn.first
         /\ Wake => Moves("sleep", "step", << >>) /\ Keeps
<1>1. /\ "stream" \in Places /\ "stopped" \in Places /\ "outcome" \in Places
      /\ "sleep" \in Places /\ "step" \in Places
      /\ << >> \in Seq(Yields) /\ << >> \in Seq(Nat) /\ <<"error">> \in Seq(Yields)
      /\ <<"tool_call">> \in Seq(Yields) /\ <<"completed">> \in Seq(Yields) /\ <<"retry">> \in Seq(Yields)
  BY Names DEF Yields
<1>2. ASSUME Attempt
      PROVE  \/ /\ Moves("step", "stream", << >>) /\ turn'.calls = << >> /\ turn'.first = FALSE
                /\ \/ turn.first /\ turn'.auth = turn.auth
                   \/ Matches /\ turn'.auth = account
             \/ Moves("step", "stopped", <<"error">>)
  <2>1. At("step")
    BY <1>2 DEF Attempt
  <2>2. turn.auth \in Accounts \cup {NoAccount}
    BY DEF Turns
  <2>3. CASE turn.first /\ turn' = Streaming(turn.auth)
    BY <2>1, <2>2, <2>3, StreamingTypes DEF Moves, At
  <2>4. CASE Matches /\ turn' = Streaming(account)
    BY <2>1, <2>4, StreamingTypes DEF Moves, At
  <2>5. CASE AuthFails("stopped")
    BY <1>1, <2>1, <2>5, Goes DEF AuthFails
  <2> QED
    BY <1>2, <2>3, <2>4, <2>5 DEF Attempt
<1>3. ASSUME AttemptAborted
      PROVE  /\ Moves("step", "outcome", << >>) /\ turn'.calls = << >> /\ turn.aborted
             /\ turn'.first = turn.first /\ turn'.auth = turn.auth
  <2>1. PICK g \in Turns : g = Go("outcome", << >>)
    BY <1>1, GoTypes
  <2>2. /\ g.at = "outcome" /\ g.yields = << >> /\ g.aborted = turn.aborted /\ g.cut = turn.cut
        /\ g.first = turn.first /\ g.auth = turn.auth
    BY <2>1, GoTypes
  <2>3. turn' = [g EXCEPT !.calls = << >>] /\ At("step") /\ turn.aborted
    BY <1>3, <2>1 DEF AttemptAborted
  <2> QED
    BY <1>1, <2>2, <2>3 DEF Turns, Moves, At
<1>4. StreamText => Moves("stream", "stream", << >>) /\ Keeps
  BY <1>1 DEF StreamText, At, Turns, Moves, Keeps
<1>5. ASSUME StreamCall
      PROVE  /\ Moves("stream", "stream", <<"tool_call">>)
             /\ turn'.calls = Append(turn.calls, counts.calls + 1)
             /\ turn'.first = turn.first /\ turn'.auth = turn.auth
  <2>1. PICK g \in Turns : g = Go("stream", <<"tool_call">>)
    BY <1>1, GoTypes
  <2>2. /\ g.at = "stream" /\ g.yields = <<"tool_call">> /\ g.aborted = turn.aborted /\ g.cut = turn.cut
        /\ g.first = turn.first /\ g.auth = turn.auth /\ g.calls = turn.calls
    BY <2>1, GoTypes
  <2>3. turn' = [g EXCEPT !.saw = TRUE, !.calls = Append(g.calls, counts.calls + 1)] /\ At("stream")
    BY <1>5, <2>1, Zenon DEF StreamCall
  <2>4. Append(g.calls, counts.calls + 1) \in Seq(Nat)
    <3>1. g.calls \in Seq(Nat) /\ counts.calls \in Nat
      BY DEF Turns, Counts
    <3> QED
      BY <3>1
  <2> QED
    BY <2>2, <2>3, <2>4 DEF Turns, Moves, At
<1>6. ASSUME StreamDone
      PROVE  /\ Moves("stream", "outcome", <<"completed">>)
             /\ turn'.calls = turn.calls /\ turn'.first = turn.first
  <2>1. PICK g \in Turns : g = Leave("outcome", <<"completed">>)
    BY <1>1, LeaveTypes
  <2>2. /\ g.at = "outcome" /\ g.yields = <<"completed">> /\ g.aborted = turn.aborted
        /\ g.cut = turn.cut /\ g.first = turn.first /\ g.calls = turn.calls
    BY <2>1, LeaveTypes
  <2>3. turn' = [g EXCEPT !.attempt = 0] /\ At("stream")
    BY <1>6, <2>1 DEF StreamDone
  <2> QED
    BY <2>2, <2>3 DEF Turns, Moves, At
<1>7. ASSUME StreamStopped
      PROVE  Moves("stream", "stopped", <<"error">>)
  <2>1. PICK g \in Turns : g = Leave("stopped", <<"error">>)
    BY <1>1, LeaveTypes
  <2>2. g.at = "stopped" /\ g.yields = <<"error">> /\ g.aborted = turn.aborted /\ g.cut = turn.cut
    BY <2>1, LeaveTypes
  <2>3. turn' = [g EXCEPT !.calls = << >>] /\ At("stream")
    BY <1>7, <2>1 DEF StreamStopped
  <2> QED
    BY <1>1, <2>2, <2>3 DEF Turns, Moves, At
<1>8. ASSUME StreamRetried
      PROVE  Moves("stream", "sleep", <<"retry">>) /\ turn'.first = turn.first
  <2>1. PICK g \in Turns : g = Leave("sleep", <<"retry">>)
    BY <1>1, LeaveTypes
  <2>2. /\ g.at = "sleep" /\ g.yields = <<"retry">> /\ g.aborted = turn.aborted /\ g.cut = turn.cut
        /\ g.first = turn.first
    BY <2>1, LeaveTypes
  <2>3. turn' = [g EXCEPT !.attempt = g.attempt + 1] /\ At("stream")
    BY <1>8, <2>1, Zenon DEF StreamRetried
  <2>4. g.attempt + 1 \in Nat
    BY DEF Turns
  <2> QED
    BY <2>2, <2>3, <2>4 DEF Turns, Moves, At
<1>9. StreamAborted => /\ Moves("stream", "outcome", << >>) /\ turn.aborted
                       /\ turn'.calls = turn.calls /\ turn'.first = turn.first
  BY <1>1, Goes DEF StreamAborted
<1>10. Wake => Moves("sleep", "step", << >>) /\ Keeps
  BY <1>1, Goes DEF Wake
<1> QED
  BY <1>2, <1>3, <1>4, <1>5, <1>6, <1>7, <1>8, <1>9, <1>10

LEMMA ToolMoves ==
  ASSUME turn \in Turns, messages \in Seq(Msgs)
  PROVE  /\ \A place : Skip(place) =>
              /\ Moves(place, "mark", [i \in DOMAIN turn.calls |-> "result"]) /\ turn.aborted
         /\ OutcomeDone =>
              /\ Moves("outcome", IF turn.calls = << >> THEN "end" ELSE "tools", << >>) /\ ~turn.aborted
              /\ Keeps
         /\ Stopped => Moves("stopped", IF turn.aborted THEN "mark" ELSE "end", << >>)
         /\ RunTool => Moves("tools", "tool", << >>) /\ Keeps /\ turn.calls # << >>
         /\ ToolReturns /\ turn.calls # << >> =>
                           /\ Moves("tool", "tools", <<"result">>) /\ turn'.calls = Tail(turn.calls)
                           /\ turn'.first = turn.first /\ turn'.auth = turn.auth
         /\ NextStep => Moves("tools", "step", << >>) /\ Keeps /\ turn.calls = << >>
         /\ Mark => Moves("mark", "end", <<"aborted">>)
<1>1. /\ "mark" \in Places /\ "end" \in Places /\ "tools" \in Places
      /\ "tool" \in Places /\ "step" \in Places
      /\ << >> \in Seq(Yields) /\ << >> \in Seq(Nat) /\ <<"result">> \in Seq(Yields)
      /\ <<"aborted">> \in Seq(Yields)
  BY Names DEF Yields
<1>2. turn.calls \in Seq(Nat) /\ (turn.calls # << >> => Tail(turn.calls) \in Seq(Nat))
  BY DEF Turns
<1>3. ASSUME NEW place, Skip(place)
      PROVE  Moves(place, "mark", [i \in DOMAIN turn.calls |-> "result"]) /\ turn.aborted
  <2>1. PICK y : y = [i \in DOMAIN turn.calls |-> "result"]
    OBVIOUS
  <2>2. y \in Seq(Yields)
    BY <1>2, <2>1 DEF Yields
  <2>3. PICK g \in Turns : g = Go("mark", y)
    BY <1>1, <2>2, GoTypes
  <2>4. g.at = "mark" /\ g.yields = y /\ g.aborted = turn.aborted /\ g.cut = turn.cut
    BY <2>3, GoTypes
  <2>5. turn' = [g EXCEPT !.calls = << >>] /\ At(place) /\ turn.aborted
    BY <1>3, <2>1, <2>3 DEF Skip
  <2>6. turn' \in Turns /\ turn'.at = "mark" /\ turn'.yields = y /\ turn'.aborted = turn.aborted
        /\ turn'.cut = turn.cut
    BY <1>1, <2>4, <2>5 DEF Turns
  <2> QED
    BY <2>1, <2>5, <2>6 DEF Moves, At
<1>4. ASSUME OutcomeDone
      PROVE  Moves("outcome", IF turn.calls = << >> THEN "end" ELSE "tools", << >>) /\ ~turn.aborted
             /\ Keeps
  BY <1>1, <1>4, Goes DEF OutcomeDone
<1>5. Stopped => Moves("stopped", IF turn.aborted THEN "mark" ELSE "end", << >>)
  BY <1>1, Goes DEF Stopped
<1>6. RunTool => Moves("tools", "tool", << >>) /\ Keeps /\ turn.calls # << >>
  BY <1>1, Goes DEF RunTool
<1>7. ASSUME ToolReturns, turn.calls # << >>
      PROVE  /\ Moves("tool", "tools", <<"result">>) /\ turn'.calls = Tail(turn.calls)
             /\ turn'.first = turn.first /\ turn'.auth = turn.auth
  <2>1. PICK g \in Turns : g = Go("tools", <<"result">>)
    BY <1>1, GoTypes
  <2>2. /\ g.at = "tools" /\ g.yields = <<"result">> /\ g.aborted = turn.aborted /\ g.cut = turn.cut
        /\ g.calls = turn.calls /\ g.first = turn.first /\ g.auth = turn.auth
    BY <2>1, GoTypes
  <2>3. turn' = [g EXCEPT !.calls = Tail(g.calls)] /\ At("tool")
    BY <1>7, <2>1, Zenon DEF ToolReturns
  <2>4. turn' = [g EXCEPT !.calls = Tail(turn.calls)]
    BY <2>2, <2>3
  <2> QED
    BY <1>2, <1>7, <2>2, <2>3, <2>4 DEF Turns, Moves, At
<1>8. NextStep => Moves("tools", "step", << >>) /\ Keeps /\ turn.calls = << >>
  BY <1>1, Goes DEF NextStep
<1>9. Mark => Moves("mark", "end", <<"aborted">>)
  BY <1>1, Goes DEF Mark
<1> QED
  BY <1>3, <1>4, <1>5, <1>6, <1>7, <1>8, <1>9

LEMMA SummaryMoves ==
  ASSUME turn \in Turns, account \in Accounts
  PROVE  /\ Summarise => \/ Moves("summary", "summarising", << >>) /\ Matches /\ turn'.auth = account
                         \/ Moves("summary", "given up", <<"error">>)
         /\ SummaryRetried => Moves("summarising", "summary", <<"retry">>)
         /\ SummaryStopped => Moves("summarising", "given up", <<"error">>)
         /\ SummaryDone => Moves("summarising", "summarised", << >>)
<1>1. /\ "summary" \in Places /\ "summarising" \in Places /\ "given up" \in Places
      /\ "summarised" \in Places
      /\ << >> \in Seq(Yields) /\ <<"retry">> \in Seq(Yields) /\ <<"error">> \in Seq(Yields)
  BY Names DEF Yields
<1>2. ASSUME Summarise
      PROVE  \/ Moves("summary", "summarising", << >>) /\ Matches /\ turn'.auth = account
             \/ Moves("summary", "given up", <<"error">>)
  <2>1. CASE Matches /\ turn' = [Go("summarising", << >>) EXCEPT !.auth = account]
    <3>1. PICK g \in Turns : g = Go("summarising", << >>)
      BY <1>1, GoTypes
    <3>2. g.at = "summarising" /\ g.yields = << >> /\ g.aborted = turn.aborted /\ g.cut = turn.cut
      BY <3>1, GoTypes
    <3>3. turn' = [g EXCEPT !.auth = account] /\ At("summary")
      BY <1>2, <2>1, <3>1 DEF Summarise
    <3> QED
      BY <2>1, <3>2, <3>3 DEF Turns, Moves, At
  <2>2. CASE AuthFails("given up")
    BY <1>1, <1>2, <2>2, Goes DEF Summarise, AuthFails
  <2> QED
    BY <1>2, <2>1, <2>2 DEF Summarise
<1>3. ASSUME SummaryRetried
      PROVE  Moves("summarising", "summary", <<"retry">>)
  <2>1. PICK g \in Turns : g = Go("summary", <<"retry">>)
    BY <1>1, GoTypes
  <2>2. g.at = "summary" /\ g.yields = <<"retry">> /\ g.aborted = turn.aborted /\ g.cut = turn.cut
    BY <2>1, GoTypes
  <2>3. g.attempt + 1 \in Nat /\ g.overflows + 1 \in Nat
    BY DEF Turns
  <2>4. At("summarising") /\ \/ turn' = [g EXCEPT !.attempt = g.attempt + 1]
                             \/ turn' = [g EXCEPT !.overflows = g.overflows + 1]
    BY <1>3, <2>1, Zenon DEF SummaryRetried
  <2> QED
    BY <2>2, <2>3, <2>4 DEF Turns, Moves, At
<1>4. SummaryStopped => Moves("summarising", "given up", <<"error">>)
  BY <1>1, Goes DEF SummaryStopped
<1>5. SummaryDone => Moves("summarising", "summarised", << >>)
  BY <1>1, Goes DEF SummaryDone
<1> QED
  BY <1>2, <1>3, <1>4, <1>5

\* At rest.
LEMMA RestingTypes ==
  ASSUME NEW place \in Places, NEW c \in Nat
  PROVE  /\ Resting \in Turns /\ Resting.at = "idle" /\ Resting.yields = << >>
         /\ [Resting EXCEPT !.at = place] \in Turns
         /\ [Resting EXCEPT !.at = place].at = place /\ [Resting EXCEPT !.at = place].yields = << >>
         /\ [Resting EXCEPT !.at = place, !.cut = c] \in Turns
         /\ [Resting EXCEPT !.at = place, !.cut = c].at = place
         /\ [Resting EXCEPT !.at = place, !.cut = c].yields = << >>
         /\ [Resting EXCEPT !.at = place, !.cut = c].cut = c
<1>1. "idle" \in Places /\ << >> \in Seq(Yields) /\ << >> \in Seq(Nat)
  BY Names
<1> QED
  BY <1>1 DEF Resting, Turns

-----------------------------------------------------------------------------
(* What a longer log holds.                                                *)

Recorded(records) == Cardinality(Kind(records, "conversation"))

LEMMA KindJoined ==
  ASSUME NEW T, NEW l \in Seq(T), NEW m \in Seq(T), NEW type
  PROVE  /\ \A i \in 1 .. Len(l) : i \in Kind(l \o m, type) <=> i \in Kind(l, type)
         /\ \A i \in 1 .. Len(m) : Len(l) + i \in Kind(l \o m, type) <=> i \in Kind(m, type)
         /\ Kind(l \o m, type) \subseteq 1 .. Len(l) + Len(m)
         /\ Kind(l, type) \subseteq 1 .. Len(l) /\ Kind(m, type) \subseteq 1 .. Len(m)
<1>1. PICK q : q = l \o m
  OBVIOUS
<1>2. /\ q \in Seq(T) /\ DOMAIN q = 1 .. Len(l) + Len(m)
      /\ \A i \in 1 .. Len(l) : q[i] = l[i]
      /\ \A i \in 1 .. Len(m) : q[Len(l) + i] = m[i]
  BY <1>1, ConcatItems
<1>3. DOMAIN l = 1 .. Len(l) /\ DOMAIN m = 1 .. Len(m) /\ Len(l) \in Nat /\ Len(m) \in Nat
  OBVIOUS
<1>4. \A i \in 1 .. Len(l) : i \in 1 .. Len(l) + Len(m)
  BY <1>3
<1>5. \A i \in 1 .. Len(m) : Len(l) + i \in 1 .. Len(l) + Len(m)
  BY <1>3
<1>6. /\ \A i \in 1 .. Len(l) : i \in Kind(q, type) <=> i \in Kind(l, type)
      /\ \A i \in 1 .. Len(m) : Len(l) + i \in Kind(q, type) <=> i \in Kind(m, type)
      /\ Kind(q, type) \subseteq 1 .. Len(l) + Len(m)
      /\ Kind(l, type) \subseteq 1 .. Len(l) /\ Kind(m, type) \subseteq 1 .. Len(m)
  BY <1>2, <1>3, <1>4, <1>5 DEF Kind
<1> QED
  BY <1>1, <1>6

LEMMA NamedJoined ==
  ASSUME NEW T, NEW l \in Seq(T), NEW m \in Seq(T)
  PROVE  Named(l \o m) = Named(l) \cup Named(m)
<1>1. PICK q : q = l \o m
  OBVIOUS
<1>2. /\ \A i \in 1 .. Len(l) : q[i] = l[i]
      /\ \A i \in 1 .. Len(m) : q[Len(l) + i] = m[i]
  BY <1>1, ConcatItems
<1>3. /\ \A i \in 1 .. Len(l) : i \in Kind(q, "identity") <=> i \in Kind(l, "identity")
      /\ \A i \in 1 .. Len(m) : Len(l) + i \in Kind(q, "identity") <=> i \in Kind(m, "identity")
      /\ Kind(q, "identity") \subseteq 1 .. Len(l) + Len(m)
      /\ Kind(l, "identity") \subseteq 1 .. Len(l) /\ Kind(m, "identity") \subseteq 1 .. Len(m)
  BY <1>1, KindJoined
<1>4. ASSUME NEW x \in Named(q)
      PROVE  x \in Named(l) \cup Named(m)
  <2>1. PICK i \in Kind(q, "identity") : x = q[i].account
    BY DEF Named
  <2>2. CASE i \in 1 .. Len(l)
    BY <1>2, <1>3, <2>1, <2>2 DEF Named
  <2>3. CASE i \notin 1 .. Len(l)
    <3>1. i - Len(l) \in 1 .. Len(m) /\ Len(l) + (i - Len(l)) = i
      BY <1>3, <2>3
    <3>2. i - Len(l) \in Kind(m, "identity") /\ x = m[i - Len(l)].account
      BY <1>2, <1>3, <2>1, <3>1
    <3> QED
      BY <3>2 DEF Named
  <2> QED
    BY <2>2, <2>3
<1>5. ASSUME NEW x \in Named(l)
      PROVE  x \in Named(q)
  <2>1. PICK i \in Kind(l, "identity") : x = l[i].account
    BY DEF Named
  <2>2. i \in Kind(q, "identity") /\ x = q[i].account
    BY <1>2, <1>3, <2>1
  <2> QED
    BY <2>2 DEF Named
<1>6. ASSUME NEW x \in Named(m)
      PROVE  x \in Named(q)
  <2>1. PICK i \in Kind(m, "identity") : x = m[i].account
    BY DEF Named
  <2>2. i \in 1 .. Len(m)
    BY <1>3, <2>1
  <2>3. Len(l) + i \in Kind(q, "identity") /\ x = q[Len(l) + i].account
    BY <1>2, <1>3, <2>1, <2>2
  <2> QED
    BY <2>3 DEF Named
<1> QED
  BY <1>1, <1>4, <1>5, <1>6

LEMMA CountJoined ==
  ASSUME NEW T, NEW l \in Seq(T), NEW m \in Seq(T)
  PROVE  /\ Recorded(l) \in Nat
         /\ m \in Seq(Conversation) => Recorded(l \o m) = Recorded(l) + Len(m)
         /\ Kind(m, "conversation") = {} => Recorded(l \o m) = Recorded(l)
<1>1. PICK q, K, L, M : /\ q = l \o m /\ K = Kind(q, "conversation") /\ L = Kind(l, "conversation")
                        /\ M = Kind(m, "conversation")
  OBVIOUS
<1>2. /\ \A i \in 1 .. Len(l) : i \in K <=> i \in L
      /\ \A i \in 1 .. Len(m) : Len(l) + i \in K <=> i \in M
      /\ K \subseteq 1 .. Len(l) + Len(m) /\ L \subseteq 1 .. Len(l) /\ M \subseteq 1 .. Len(m)
  BY <1>1, KindJoined
<1>3. Len(l) \in Nat /\ Len(m) \in Nat
  OBVIOUS
<1>4. IsFiniteSet(L) /\ Cardinality(L) \in Nat
  <2>1. IsFiniteSet(1 .. Len(l))
    BY <1>3, FS_Interval
  <2> QED
    BY <1>2, <2>1, FS_Subset, FS_CardinalityType
<1>5. ASSUME NEW i \in K, i \notin L
      PROVE  i \in Len(l) + 1 .. Len(l) + Len(m) /\ i - Len(l) \in M
  <2>1. ~(i <= Len(l)) /\ i \in 1 .. Len(l) + Len(m)
    BY <1>2, <1>3, <1>5
  <2>2. i - Len(l) \in 1 .. Len(m) /\ Len(l) + (i - Len(l)) = i
    BY <1>3, <2>1
  <2> QED
    BY <1>2, <1>3, <2>1, <2>2
<1>6. L \subseteq K
  BY <1>2, <1>3
<1>7. ASSUME m \in Seq(Conversation)
      PROVE  Recorded(l \o m) = Recorded(l) + Len(m)
  <2>1. M = 1 .. Len(m)
    <3>1. \A i \in 1 .. Len(m) : m[i] \in Conversation
      BY <1>7
    <3>2. \A i \in 1 .. Len(m) : m[i].type = "conversation"
      BY <3>1 DEF Conversation
    <3> QED
      BY <1>1, <3>2 DEF Kind
  <2>2. PICK N : N = Len(l) + 1 .. Len(l) + Len(m)
    OBVIOUS
  <2>3. \A i \in N : i - Len(l) \in 1 .. Len(m) /\ Len(l) + (i - Len(l)) = i
    BY <1>3, <2>2
  <2>4. K = L \cup N
    BY <1>2, <1>5, <1>6, <2>1, <2>2, <2>3
  <2>5. L \cap N = {}
    BY <1>2, <1>3, <2>2
  <2>6. IsFiniteSet(N) /\ Cardinality(N) = Len(m)
    <3>1. Len(l) + 1 \in Int /\ Len(l) + Len(m) \in Int
      BY <1>3
    <3>2. /\ IsFiniteSet(N)
          /\ Cardinality(N) = IF Len(l) + 1 > Len(l) + Len(m) THEN 0
                              ELSE (Len(l) + Len(m)) - (Len(l) + 1) + 1
      BY <2>2, <3>1, FS_Interval
    <3> QED
      BY <1>3, <3>2
  <2>7. Cardinality(K) = Cardinality(L) + Cardinality(N) - Cardinality({})
    <3>1. Cardinality(L \cup N) = Cardinality(L) + Cardinality(N) - Cardinality(L \cap N)
      BY <1>4, <2>6, FS_Union, Zenon
    <3> QED
      BY <2>4, <2>5, <3>1, Zenon
  <2>8. Cardinality({}) = 0
    BY FS_EmptySet
  <2>9. Cardinality(K) = Cardinality(L) + Len(m)
    BY <1>3, <1>4, <2>6, <2>7, <2>8
  <2> QED
    BY <1>1, <2>9 DEF Recorded
<1>8. Recorded(l) \in Nat
  BY <1>1, <1>4 DEF Recorded
<1>9. Kind(m, "conversation") = {} => Recorded(l \o m) = Recorded(l)
  <2>1. SUFFICES ASSUME M = {}
                 PROVE  Recorded(l \o m) = Recorded(l)
    BY <1>1
  <2>2. K = L
    BY <1>5, <1>6, <2>1
  <2> QED
    BY <1>1, <2>2 DEF Recorded
<1> QED
  BY <1>7, <1>8, <1>9

\* The account of the last identity record.
LEMMA StoredIs ==
  ASSUME log \in Seq(Records)
  PROVE  /\ Named(log) = {} => Stored = NoAccount
         /\ Named(log) # {} => Stored \in Named(log)
         /\ Named(log) \subseteq Accounts
<1>1. PICK K, n : K = Kind(log, "identity") /\ n = Len(log)
  OBVIOUS
<1>2. OfType("identity") = K
  BY <1>1 DEF OfType, Kind
<1>3. n \in Nat /\ K \subseteq 0 .. n /\ K \subseteq DOMAIN log
  BY <1>1 DEF Kind
<1>4. Named(log) = {} => Stored = NoAccount
  BY <1>1, <1>2 DEF Named, Stored
<1>5. ASSUME Named(log) # {}
      PROVE  Stored \in Named(log)
  <2>1. K # {}
    BY <1>1, <1>5 DEF Named
  <2>2. Max(K) \in K
    BY <1>3, <2>1, BoundedEnds
  <2>3. Stored = log[Max(K)].account
    BY <1>2, <2>1 DEF Stored
  <2> QED
    BY <1>1, <2>2, <2>3 DEF Named
<1>6. ASSUME NEW i \in K
      PROVE  log[i].account \in Accounts
  <2>1. log[i] \in Records /\ log[i].type = "identity"
    BY <1>1, <1>3, <1>6 DEF Kind
  <2> QED
    BY <2>1 DEF Records, Conversation, Plain, Changes
<1>7. Named(log) \subseteq Accounts
  BY <1>1, <1>6 DEF Named
<1> QED
  BY <1>4, <1>5, <1>7

LEMMA EntriesIs == Entries = Recorded(log)
  BY DEF Entries, OfType, Recorded, Kind

LEMMA BareItems ==
  ASSUME NEW p \in Seq(Conversation)
  PROVE  /\ Bare(p) \in Seq(Msgs) /\ Len(Bare(p)) = Len(p) /\ DOMAIN Bare(p) = 1 .. Len(p)
         /\ \A i \in 1 .. Len(p) : Bare(p)[i] = p[i].message /\ p[i].entry \in Nat
<1>1. \A i \in 1 .. Len(p) : p[i] \in Conversation
  OBVIOUS
<1>2. \A i \in 1 .. Len(p) : p[i].message \in Msgs /\ p[i].entry \in Nat
  BY <1>1 DEF Conversation
<1>3. PICK m : m = Bare(p)
  OBVIOUS
<1>4. m = [i \in 1 .. Len(p) |-> p[i].message] /\ Len(p) \in Nat
  BY <1>3 DEF Bare
<1>5. m \in Seq(Msgs) /\ Len(m) = Len(p) /\ DOMAIN m = 1 .. Len(p)
  BY <1>2, <1>4
<1> QED
  BY <1>2, <1>3, <1>4, <1>5

LEMMA BareJoined ==
  ASSUME NEW p \in Seq(Conversation), NEW b \in Seq(Conversation)
  PROVE  Bare(p \o b) = Bare(p) \o Bare(b)
<1>1. PICK q, u, v, w, z : /\ q = p \o b /\ u = Bare(p) /\ v = Bare(b) /\ w = u \o v /\ z = Bare(q)
  OBVIOUS
<1>2. /\ q \in Seq(Conversation) /\ Len(q) = Len(p) + Len(b)
      /\ \A i \in 1 .. Len(p) : q[i] = p[i]
      /\ \A i \in 1 .. Len(p) + Len(b) :
           ~(i <= Len(p)) => i - Len(p) \in 1 .. Len(b) /\ q[i] = b[i - Len(p)]
  BY <1>1, ConcatItems
<1>3. /\ u \in Seq(Msgs) /\ Len(u) = Len(p) /\ \A i \in 1 .. Len(p) : u[i] = p[i].message
      /\ v \in Seq(Msgs) /\ Len(v) = Len(b) /\ \A i \in 1 .. Len(b) : v[i] = b[i].message
  BY <1>1, BareItems
<1>4. /\ z \in Seq(Msgs) /\ Len(z) = Len(p) + Len(b)
      /\ \A i \in 1 .. Len(p) + Len(b) : z[i] = q[i].message
  BY <1>1, <1>2, BareItems
<1>5. /\ w \in Seq(Msgs) /\ Len(w) = Len(p) + Len(b)
      /\ \A i \in 1 .. Len(p) : w[i] = u[i]
      /\ \A i \in 1 .. Len(p) + Len(b) : ~(i <= Len(p)) => w[i] = v[i - Len(p)]
  <2>1. /\ w \in Seq(Msgs) /\ Len(w) = Len(u) + Len(v)
        /\ \A i \in 1 .. Len(u) : w[i] = u[i]
        /\ \A i \in 1 .. Len(u) + Len(v) :
             ~(i <= Len(u)) => i - Len(u) \in 1 .. Len(v) /\ w[i] = v[i - Len(u)]
    <3>1. u \in Seq(Msgs) /\ v \in Seq(Msgs)
      BY <1>3
    <3> QED
      BY <1>1, <3>1, ConcatItems
  <2>2. Len(u) = Len(p) /\ Len(v) = Len(b)
    BY <1>3
  <2> QED
    BY <2>1, <2>2
<1>6. \A i \in 1 .. Len(z) : z[i] = w[i]
  <2> TAKE i \in 1 .. Len(z)
  <2>1. CASE i <= Len(p)
    <3>1. i \in 1 .. Len(p) /\ i \in 1 .. Len(p) + Len(b)
      BY <1>4, <2>1
    <3> QED
      BY <1>2, <1>3, <1>4, <1>5, <3>1
  <2>2. CASE ~(i <= Len(p))
    <3>1. i \in 1 .. Len(p) + Len(b) /\ i - Len(p) \in 1 .. Len(b) /\ q[i] = b[i - Len(p)]
      BY <1>2, <1>4, <2>2
    <3> QED
      BY <1>3, <1>4, <1>5, <2>2, <3>1
  <2> QED
    BY <2>1, <2>2
<1>7. z = w
  BY <1>4, <1>5, <1>6, SeqEqual
<1> QED
  BY <1>1, <1>7

LEMMA LogGrows ==
  ASSUME NEW l \in Seq(Records), NEW a \in Seq(Plain), NEW b \in Seq(Conversation),
         Projected(l) \in Seq(Conversation), Numbered(Projected(l), Recorded(l)),
         \A i \in DOMAIN b : b[i].entry = Recorded(l) + i
  PROVE  /\ l \o (a \o b) \in Seq(Records)
         /\ Projected(l \o (a \o b)) \in Seq(Conversation)
         /\ Numbered(Projected(l \o (a \o b)), Recorded(l \o (a \o b)))
         /\ Bare(Projected(l \o (a \o b))) = Bare(Projected(l)) \o Bare(b)
         /\ Named(l \o (a \o b)) = Named(l) \cup Named(a)
<1>1. Plain \subseteq Records /\ Conversation \subseteq Records
  BY DEF Records
<1>2. a \in Seq(Records) /\ b \in Seq(Records)
  BY <1>1
<1>3. PICK k, q, p, r : k = l \o a /\ q = k \o b /\ p = Projected(l) /\ r = p \o b
  OBVIOUS
<1>4. k \in Seq(Records) /\ q \in Seq(Records) /\ q = l \o (a \o b)
  <2>1. k \in Seq(Records)
    BY <1>2, <1>3, ConcatItems
  <2>2. q \in Seq(Records)
    BY <1>2, <1>3, <2>1, ConcatItems
  <2>3. (l \o a) \o b = l \o (a \o b)
    BY <1>2
  <2> QED
    BY <1>3, <2>1, <2>2, <2>3
<1>5. Projected(k) = p
  BY <1>1, <1>3, ProjectedPlain
<1>6. Projected(q) = r
  BY <1>1, <1>3, <1>4, <1>5, ProjectedConversation
<1>7. r \in Seq(Conversation)
  BY <1>3, ConcatItems
<1>8. Bare(r) = Bare(p) \o Bare(b)
  BY <1>3, BareJoined
<1>9. Named(q) = Named(l) \cup Named(a)
  <2>1. \A i \in 1 .. Len(b) : b[i].type = "conversation"
    <3>1. \A i \in 1 .. Len(b) : b[i] \in Conversation
      OBVIOUS
    <3> QED
      BY <3>1 DEF Conversation
  <2>2. Kind(b, "identity") = {}
    <3>1. \A i \in 1 .. Len(b) : b[i].type # "identity"
      BY <2>1
    <3> QED
      BY <3>1 DEF Kind
  <2>3. Named(b) = {}
    BY <2>2 DEF Named
  <2>4. Named(k \o b) = Named(k) \cup Named(b)
    BY <1>2, <1>4, NamedJoined
  <2>5. Named(k) = Named(l) \cup Named(a)
    BY <1>2, <1>3, NamedJoined
  <2> QED
    BY <1>3, <2>3, <2>4, <2>5
<1>10. Recorded(l) \in Nat /\ Recorded(q) = Recorded(l) + Len(b)
  <2>1. \A i \in 1 .. Len(a) : a[i].type # "conversation"
    <3>1. \A i \in 1 .. Len(a) : a[i] \in Plain
      OBVIOUS
    <3> QED
      BY <3>1 DEF Plain
  <2>2. Kind(a, "conversation") = {}
    BY <2>1 DEF Kind
  <2>3. Recorded(k) = Recorded(l) /\ Recorded(l) \in Nat
    BY <1>2, <1>3, <2>2, CountJoined
  <2>4. Recorded(k \o b) = Recorded(k) + Len(b)
    BY <1>2, <1>4, CountJoined
  <2> QED
    BY <1>3, <2>3, <2>4
<1>11. Numbered(r, Recorded(q))
  <2>1. PICK n, m, c : n = Len(p) /\ m = Len(b) /\ c = Recorded(l)
    OBVIOUS
  <2>2. n \in Nat /\ m \in Nat /\ c \in Nat /\ n <= c + 1 /\ Recorded(q) = c + m
    BY <1>3, <1>10, <2>1 DEF Numbered
  <2>3. /\ Len(r) = n + m
        /\ \A i \in 1 .. n : r[i] = p[i]
        /\ \A i \in 1 .. n + m : ~(i <= n) => i - n \in 1 .. m /\ r[i] = b[i - n]
    BY <1>3, <2>1, ConcatItems
  <2>4. /\ \A i \in 1 .. n : p[i].entry = c - n + i \/ (i = 1 /\ p[i].entry = 0)
        /\ \A i \in 1 .. m : b[i].entry = c + i
    <3>1. DOMAIN p = 1 .. n /\ DOMAIN b = 1 .. m /\ Numbered(p, c)
      BY <1>3, <2>1
    <3>2. \A i \in DOMAIN p : p[i].entry = c - n + i \/ (i = 1 /\ p[i].entry = 0)
      BY <2>1, <3>1 DEF Numbered
    <3>3. \A i \in DOMAIN b : b[i].entry = c + i
      BY <2>1
    <3> QED
      BY <3>1, <3>2, <3>3
  <2>5. ASSUME NEW i \in 1 .. n + m
        PROVE  r[i].entry = (c + m) - (n + m) + i \/ (i = 1 /\ r[i].entry = 0)
    <3>1. CASE i <= n
      <4>1. i \in 1 .. n /\ (c + m) - (n + m) + i = c - n + i
        BY <2>2, <3>1
      <4> QED
        BY <2>3, <2>4, <4>1
    <3>2. CASE ~(i <= n)
      <4>1. i - n \in 1 .. m /\ r[i] = b[i - n]
        BY <2>3, <3>2
      <4>2. (c + m) - (n + m) + i = c + (i - n)
        BY <2>2
      <4> QED
        BY <2>4, <4>1, <4>2
    <3> QED
      BY <3>1, <3>2
  <2>6. DOMAIN r = 1 .. n + m /\ n + m <= c + m + 1
    BY <1>7, <2>2, <2>3
  <2> QED
    BY <2>2, <2>3, <2>5, <2>6 DEF Numbered
<1> QED
  BY <1>3, <1>4, <1>6, <1>7, <1>8, <1>9, <1>11

-----------------------------------------------------------------------------
(* What the node appends.                                                  *)

LEMMA ShortNamed ==
  /\ Named(<< >>) = {}
  /\ \A n : Named(<<Delivered(n)>>) = {}
  /\ \A a : Named(<<IdentityRecord(a)>>) = {a}
<1>1. Kind(<< >>, "identity") = {}
  BY DEF Kind
<1>2. ASSUME NEW n
      PROVE  Named(<<Delivered(n)>>) = {}
  <2>1. Kind(<<Delivered(n)>>, "identity") = {}
    BY DEF Kind, Delivered
  <2> QED
    BY <2>1 DEF Named
<1>3. ASSUME NEW a
      PROVE  Named(<<IdentityRecord(a)>>) = {a}
  <2>1. PICK s : s = <<IdentityRecord(a)>>
    OBVIOUS
  <2>2. DOMAIN s = {1} /\ s[1] = IdentityRecord(a)
    BY <2>1
  <2>3. s[1].type = "identity" /\ s[1].account = a
    BY <2>2 DEF IdentityRecord
  <2>4. Kind(s, "identity") = {1}
    BY <2>2, <2>3 DEF Kind
  <2> QED
    BY <2>1, <2>3, <2>4 DEF Named
<1> QED
  BY <1>1, <1>2, <1>3 DEF Named

\* What a record adds: the name when the log lacks it, and the messages it lacks.
LEMMA PayloadParts ==
  ASSUME Typed, NEW y
  PROVE  \E a \in Seq(Plain), b \in Seq(Conversation) :
           /\ Payloads(y) = a \o b
           /\ Named(a) \subseteq {identity}
           /\ identity # NoAccount => identity \in Named(log) \cup Named(a)
           /\ \A i \in DOMAIN b : b[i].entry = Entries + i
           /\ Bare(b) = SubSeq(messages, persisted + 1, Len(messages))
<1>1. PICK d : d = IF y = "delivered" THEN <<Delivered(counts.turns)>> ELSE << >>
  OBVIOUS
<1>2. PICK e : e = IF identity \in {NoAccount, Stored} THEN << >> ELSE <<IdentityRecord(identity)>>
  OBVIOUS
<1>3. PICK b : b = Added
  OBVIOUS
<1>4. Payloads(y) = (d \o e) \o b
  BY <1>1, <1>2, <1>3 DEF Payloads
<1>5. d \in Seq(Plain) /\ e \in Seq(Plain) /\ Named(d) = {}
  <2>1. << >> \in Seq(Plain)
    OBVIOUS
  <2>2. Delivered(counts.turns) \in Plain
    BY DEF Typed, Counts, Delivered, Plain
  <2>3. identity # NoAccount => IdentityRecord(identity) \in Plain
    BY DEF Typed, IdentityRecord, Plain
  <2>4. <<Delivered(counts.turns)>> \in Seq(Plain)
    BY <2>2
  <2>5. identity # NoAccount => <<IdentityRecord(identity)>> \in Seq(Plain)
    BY <2>3
  <2>6. d \in Seq(Plain)
    BY <1>1, <2>1, <2>4
  <2>7. e \in Seq(Plain)
    BY <1>2, <2>1, <2>5
  <2>8. Named(d) = {}
    BY <1>1, ShortNamed
  <2> QED
    BY <2>6, <2>7, <2>8
<1>6. Named(e) \subseteq {identity} /\ (identity # NoAccount => identity \in Named(log) \cup Named(e))
  <2>1. CASE identity \in {NoAccount, Stored}
    <3>1. Named(e) = {}
      BY <1>2, <2>1, ShortNamed
    <3>2. identity # NoAccount => identity \in Named(log)
      BY <2>1, StoredIs DEF Typed
    <3> QED
      BY <3>1, <3>2
  <2>2. CASE identity \notin {NoAccount, Stored}
    <3>1. Named(e) = {identity}
      BY <1>2, <2>2, ShortNamed
    <3> QED
      BY <3>1
  <2> QED
    BY <2>1, <2>2
<1>7. d \o e \in Seq(Plain) /\ Named(d \o e) = Named(e)
  <2>1. d \in Seq(Plain) /\ e \in Seq(Plain)
    BY <1>5
  <2>2. Named(d \o e) = Named(d) \cup Named(e)
    BY <2>1, NamedJoined
  <2>3. d \o e \in Seq(Plain)
    BY <2>1, ConcatItems
  <2> QED
    BY <1>5, <2>2, <2>3
<1>8. PICK n, m, c : n = Len(messages) /\ m = persisted /\ c = Entries
  OBVIOUS
<1>9. n \in Nat /\ m \in 0 .. n /\ c \in Nat /\ \A i \in 1 .. n : messages[i] \in Msgs
  <2>1. c \in Nat
    BY <1>8, EntriesIs, CountJoined DEF Typed
  <2> QED
    BY <1>8, <2>1 DEF Typed
<1>10. \A i \in 1 .. n - m : m + i \in 1 .. n /\ c + i \in Nat
  BY <1>9
<1>11. b = [i \in 1 .. n - m |-> ConversationRecord(c + i, messages[m + i])]
  BY <1>3, <1>8 DEF Added
<1>12. \A i \in 1 .. n - m : ConversationRecord(c + i, messages[m + i]) \in Conversation
  BY <1>9, <1>10 DEF ConversationRecord, Conversation
<1>13. b \in Seq(Conversation) /\ Len(b) = n - m /\ DOMAIN b = 1 .. n - m
  <2>1. n - m \in Nat
    BY <1>9
  <2> QED
    BY <1>11, <1>12, <2>1
<1>14. \A i \in 1 .. n - m : b[i].entry = c + i /\ b[i].message = messages[m + i]
  BY <1>11 DEF ConversationRecord
<1>15. PICK s, t : s = Bare(b) /\ t = SubSeq(messages, m + 1, n)
  OBVIOUS
<1>16. s \in Seq(Msgs) /\ Len(s) = n - m /\ \A i \in 1 .. n - m : s[i] = messages[m + i]
  BY <1>13, <1>14, <1>15, BareItems
<1>17. t \in Seq(Msgs) /\ Len(t) = n - m /\ \A i \in 1 .. n - m : t[i] = messages[m + i]
  <2>1. messages \in Seq(Msgs)
    BY DEF Typed
  <2> QED
    BY <1>8, <1>9, <1>15, <2>1
<1>18. s = t
  <2>1. \A i \in 1 .. Len(s) : s[i] = t[i]
    BY <1>16, <1>17
  <2> QED
    BY <1>16, <1>17, <2>1, SeqEqual
<1>19. Bare(b) = SubSeq(messages, persisted + 1, Len(messages))
  BY <1>8, <1>15, <1>18
<1>20. \A i \in DOMAIN b : b[i].entry = Entries + i
  BY <1>8, <1>13, <1>14
<1> QED
  BY <1>4, <1>6, <1>7, <1>13, <1>19, <1>20

\* What a log is after an append of the first part of a payload.
LEMMA LogWritten ==
  ASSUME Typed, Rebuilt, turn.at # "down", NEW y, NEW n \in 0 .. Len(Payloads(y)),
         log' = log \o SubSeq(Payloads(y), 1, n)
  PROVE  /\ log' \in Seq(Records)
         /\ Projected(log') \in Seq(Conversation) /\ Numbered(Projected(log'), Entries')
         /\ Named(log) \subseteq Named(log') /\ Named(log') \subseteq Named(log) \cup {identity}
         /\ \E m \in persisted .. Len(messages) : Bare(Projected(log')) = SubSeq(messages, 1, m)
         /\ n = Len(Payloads(y)) =>
              /\ Bare(Projected(log')) = messages
              /\ identity # NoAccount => identity \in Named(log')
<1>1. PICK a \in Seq(Plain), b \in Seq(Conversation) :
        /\ Payloads(y) = a \o b
        /\ Named(a) \subseteq {identity}
        /\ identity # NoAccount => identity \in Named(log) \cup Named(a)
        /\ \A i \in DOMAIN b : b[i].entry = Entries + i
        /\ Bare(b) = SubSeq(messages, persisted + 1, Len(messages))
  BY PayloadParts
<1>2. Plain \subseteq Records /\ Conversation \subseteq Records
  BY DEF Records
<1>3. a \in Seq(Records) /\ b \in Seq(Records) /\ Len(a) \in Nat /\ Len(b) \in Nat
  BY <1>2
<1>4. Len(Payloads(y)) = Len(a) + Len(b)
  BY <1>1, <1>3, ConcatItems
<1>5. PICK i \in 0 .. Len(a), j \in 0 .. Len(b) :
        /\ i + j = n
        /\ SubSeq(a \o b, 1, n) = SubSeq(a, 1, i) \o SubSeq(b, 1, j)
  <2>1. n \in 0 .. Len(a) + Len(b) /\ n \in Nat
    BY <1>4
  <2>2. PICK i, j : i = (IF n <= Len(a) THEN n ELSE Len(a)) /\ j = IF n <= Len(a) THEN 0 ELSE n - Len(a)
    OBVIOUS
  <2>3. SubSeq(a \o b, 1, n) = SubSeq(a, 1, i) \o SubSeq(b, 1, j)
    BY <1>3, <2>1, <2>2, ConcatPrefix
  <2>4. i \in 0 .. Len(a) /\ j \in 0 .. Len(b) /\ i + j = n
    BY <1>3, <2>1, <2>2
  <2> QED
    BY <2>3, <2>4
<1>6. PICK u, v : u = SubSeq(a, 1, i) /\ v = SubSeq(b, 1, j)
  OBVIOUS
<1>7. u \in Seq(Plain) /\ v \in Seq(Conversation) /\ Len(v) = j
  BY <1>6
<1>8. \A k \in 1 .. j : v[k] = b[k] /\ k \in DOMAIN b
  BY <1>6
<1>9. \A k \in DOMAIN v : v[k].entry = Recorded(log) + k
  BY <1>1, <1>7, <1>8, EntriesIs
<1>10. log \in Seq(Records) /\ log' = log \o (u \o v)
  BY <1>1, <1>5, <1>6 DEF Typed
<1>11. Projected(log) \in Seq(Conversation) /\ Numbered(Projected(log), Recorded(log))
  BY EntriesIs DEF Rebuilt
<1>12. /\ log' \in Seq(Records)
       /\ Projected(log') \in Seq(Conversation) /\ Numbered(Projected(log'), Recorded(log'))
       /\ Bare(Projected(log')) = Bare(Projected(log)) \o Bare(v)
       /\ Named(log') = Named(log) \cup Named(u)
  <2>1. u \in Seq(Plain) /\ v \in Seq(Conversation) /\ log \in Seq(Records)
    BY <1>7, <1>10
  <2>2. /\ log \o (u \o v) \in Seq(Records)
        /\ Projected(log \o (u \o v)) \in Seq(Conversation)
        /\ Numbered(Projected(log \o (u \o v)), Recorded(log \o (u \o v)))
        /\ Bare(Projected(log \o (u \o v))) = Bare(Projected(log)) \o Bare(v)
        /\ Named(log \o (u \o v)) = Named(log) \cup Named(u)
    BY <1>9, <1>11, <2>1, LogGrows
  <2> QED
    BY <1>10, <2>2
<1>13. Entries' = Recorded(log')
  BY DEF Entries, OfType, Recorded, Kind
<1>14. Named(u) \subseteq Named(a)
  <2>1. SubSeq(a, i + 1, Len(a)) \in Seq(Plain) /\ a = u \o SubSeq(a, i + 1, Len(a))
    <3>1. Len(a) \in i .. Len(a) /\ SubSeq(a, 1, Len(a)) = a
      BY <1>3
    <3> QED
      BY <1>6, <3>1, SubSeqJoined
  <2>2. PICK w : w = SubSeq(a, i + 1, Len(a))
    OBVIOUS
  <2>3. u \in Seq(Plain) /\ w \in Seq(Plain) /\ a = u \o w
    BY <1>7, <2>1, <2>2
  <2>4. Named(u \o w) = Named(u) \cup Named(w)
    BY <2>3, NamedJoined
  <2> QED
    BY <2>3, <2>4
<1> DEFINE m == persisted + j
<1>15. m \in persisted .. Len(messages) /\ Bare(Projected(log')) = SubSeq(messages, 1, m)
  <2>1. PICK h, p, q, s, t : /\ h = messages /\ p = persisted /\ q = Bare(Projected(log)) /\ s = Bare(v)
                             /\ t = Bare(b)
    OBVIOUS
  <2>2. h \in Seq(Msgs) /\ p \in 0 .. Len(h) /\ Len(h) \in Nat
    BY <2>1 DEF Typed
  <2>3. t \in Seq(Msgs) /\ Len(t) = Len(h) - p /\ \A k \in 1 .. Len(h) - p : t[k] = h[p + k]
    <3>1. t = SubSeq(h, p + 1, Len(h))
      BY <1>1, <2>1
    <3> QED
      BY <2>2, <3>1, RestItems, Zenon
  <2>4. Len(t) = Len(b) /\ \A k \in 1 .. Len(b) : t[k] = b[k].message
    BY <2>1, BareItems
  <2>5. s \in Seq(Msgs) /\ Len(s) = j /\ \A k \in 1 .. j : s[k] = v[k].message
    BY <1>7, <2>1, BareItems
  <2>6. j \in Nat /\ j <= Len(h) - p /\ \A k \in 1 .. j : k \in 1 .. Len(b) /\ k \in 1 .. Len(h) - p
    BY <1>3, <2>2, <2>3, <2>4
  <2>7. \A k \in 1 .. j : s[k] = h[p + k]
    BY <1>8, <2>3, <2>4, <2>5, <2>6
  <2>8. PICK w : w = SubSeq(h, p + 1, p + j)
    OBVIOUS
  <2>9. w \in Seq(Msgs) /\ Len(w) = j /\ \A k \in 1 .. j : w[k] = h[p + k]
    BY <2>2, <2>6, <2>8
  <2>10. s = w
    <3>1. \A k \in 1 .. Len(s) : s[k] = w[k]
      BY <2>5, <2>7, <2>9
    <3> QED
      BY <2>5, <2>9, <3>1, SeqEqual
  <2>11. p + j \in p .. Len(h)
    BY <2>2, <2>6
  <2>12. SubSeq(h, 1, p + j) = SubSeq(h, 1, p) \o w
    BY <2>2, <2>8, <2>11, SubSeqJoined
  <2>13. q = SubSeq(h, 1, p)
    BY <2>1 DEF Rebuilt
  <2> QED
    BY <1>12, <2>1, <2>10, <2>11, <2>12, <2>13
<1>16. ASSUME n = Len(Payloads(y))
       PROVE  /\ Bare(Projected(log')) = messages
              /\ identity # NoAccount => identity \in Named(log')
  <2>1. i = Len(a) /\ j = Len(b)
    BY <1>3, <1>4, <1>5, <1>16
  <2>2. u = a
    BY <1>6, <2>1
  <2>3. m = Len(messages)
    <3>1. Len(Bare(b)) = Len(b)
      BY BareItems
    <3>2. Len(SubSeq(messages, persisted + 1, Len(messages))) = Len(messages) - persisted
      BY DEF Typed
    <3> QED
      BY <1>1, <2>1, <3>1, <3>2 DEF Typed
  <2>4. SubSeq(messages, 1, Len(messages)) = messages
    BY DEF Typed
  <2> QED
    BY <1>1, <1>12, <1>15, <2>2, <2>3, <2>4
<1>17. Named(log) \subseteq Named(log') /\ Named(log') \subseteq Named(log) \cup {identity}
  BY <1>1, <1>12, <1>14
<1> HIDE DEF m
<1> QED
  BY <1>12, <1>13, <1>15, <1>16, <1>17

-----------------------------------------------------------------------------
(* Steps that leave the log and the history alone.                         *)

LEMMA CountsTypes ==
  ASSUME counts \in Counts
  PROVE  /\ Count("turns") => counts' \in Counts /\ counts'.failed = counts.failed /\ counts'.calls = counts.calls
         /\ Count("changes") => counts' \in Counts /\ counts'.failed = counts.failed /\ counts'.calls = counts.calls
         /\ Count("faults") => counts' \in Counts /\ counts'.failed = counts.failed /\ counts'.calls = counts.calls
         /\ Count("torn") => counts' \in Counts /\ counts'.failed = counts.failed /\ counts'.calls = counts.calls
         /\ Count("calls") => counts' \in Counts /\ counts'.failed = counts.failed /\ counts'.calls = counts.calls + 1
<1>1. ASSUME Count("turns")
      PROVE  counts' \in Counts /\ counts'.failed = counts.failed /\ counts'.calls = counts.calls
  <2>1. counts' = [counts EXCEPT !["turns"] = counts.turns + 1]
    BY <1>1 DEF Count
  <2> QED
    BY <2>1 DEF Counts
<1>2. ASSUME Count("changes")
      PROVE  counts' \in Counts /\ counts'.failed = counts.failed /\ counts'.calls = counts.calls
  <2>1. counts' = [counts EXCEPT !["changes"] = counts.changes + 1]
    BY <1>2 DEF Count
  <2> QED
    BY <2>1 DEF Counts
<1>3. ASSUME Count("faults")
      PROVE  counts' \in Counts /\ counts'.failed = counts.failed /\ counts'.calls = counts.calls
  <2>1. counts' = [counts EXCEPT !["faults"] = counts.faults + 1]
    BY <1>3 DEF Count
  <2> QED
    BY <2>1 DEF Counts
<1>4. ASSUME Count("torn")
      PROVE  counts' \in Counts /\ counts'.failed = counts.failed /\ counts'.calls = counts.calls
  <2>1. counts' = [counts EXCEPT !["torn"] = counts.torn + 1]
    BY <1>4 DEF Count
  <2> QED
    BY <2>1 DEF Counts
<1>5. ASSUME Count("calls")
      PROVE  counts' \in Counts /\ counts'.failed = counts.failed /\ counts'.calls = counts.calls + 1
  <2>1. counts' = [counts EXCEPT !["calls"] = counts.calls + 1]
    BY <1>5 DEF Count
  <2> QED
    BY <2>1 DEF Counts
<1> QED
  BY <1>1, <1>2, <1>3, <1>4, <1>5

Quiet == UNCHANGED <<log, messages, persisted, identity>>

LEMMA QuietRebuilt ==
  ASSUME Typed, Rebuilt, Quiet, turn.at # "down", turn' \in Turns, counts' \in Counts,
         account' \in Accounts, running' \in {"none", "prompt", "compaction"}
  PROVE  Typed' /\ Rebuilt'
<1>1. Typed'
  BY DEF Typed, Quiet
<1>2. Rebuilt'
  <2>1. Entries' = Entries
    BY DEF Entries, OfType, Quiet
  <2> QED
    BY <2>1 DEF Rebuilt, Quiet
<1> QED
  BY <1>1, <1>2

LEMMA QuietMove ==
  ASSUME Typed, Rebuilt, Quiet, UNCHANGED <<running, account>>, counts' \in Counts,
         NEW from, NEW to, NEW yields, Moves(from, to, yields), from # "down"
  PROVE  Typed' /\ Rebuilt' /\ turn.at # "down"
<1>1. turn.at # "down" /\ turn' \in Turns
  BY DEF Moves
<1>2. account' \in Accounts /\ running' \in {"none", "prompt", "compaction"}
  BY DEF Typed
<1> QED
  BY <1>1, <1>2, QuietRebuilt

\* Where the generator may go within what the queue runs.
Prompting == {"send"} \cup Looping \cup Leaving
LEMMA MovePlaced ==
  ASSUME Typed, Placed, Quiet, UNCHANGED running,
         NEW from, NEW to, NEW yields, Moves(from, to, yields),
         \/ from \in Prompting /\ to \in Prompting
         \/ from \in Compacting /\ to \in Compacting,
         to # "tool" \/ turn'.calls # << >>
  PROVE  Placed'
<1>1. /\ from \notin {"idle", "down"} /\ to \notin {"idle", "down"}
      /\ from \in Compacting <=> to \in Compacting
  BY DEF Prompting, Looping, Leaving, Compacting
<1>2. /\ turn.at = from /\ turn'.at = to /\ turn'.cut = turn.cut
  BY DEF Moves
<1>3. /\ running # "none" /\ (running = "compaction" <=> to \in Compacting)
  BY <1>1, <1>2 DEF Placed
<1>4. to \in Compacting => /\ persisted = Len(messages) /\ turn.cut \in 2 .. Len(messages)
                           /\ IsCutMessage(messages[turn.cut])
  BY <1>1, <1>2 DEF Placed
<1> QED
  BY <1>1, <1>2, <1>3, <1>4 DEF Placed, Quiet

LEMMA MoveLoyal ==
  ASSUME Loyal, Quiet, NEW from, NEW to, NEW yields, Moves(from, to, yields), from # "down",
         to \in Looping => from \in Looping /\ (turn'.first => turn'.auth = identity),
         to = "stream" => ~turn'.first /\ turn'.auth = identity,
         to = "summarising" => identity \in {NoAccount, turn'.auth}
  PROVE  Loyal'
<1>1. turn.at = from /\ turn.yields = << >> /\ turn'.at = to
  BY DEF Moves
<1>2. Named(log') = Named(log) /\ identity' = identity
  BY DEF Quiet
<1>3. from \in Looping => identity # NoAccount /\ Named(log) = {identity}
  BY <1>1 DEF Loyal
<1>4. Named(log) \subseteq {identity}
  BY <1>1 DEF Loyal
<1> QED
  BY <1>1, <1>2, <1>3, <1>4 DEF Loyal

\* The credentials that are in use or about to be.
LEMMA InUse ==
  ASSUME Loyal
  PROVE  /\ turn.at \in Looping /\ turn.first => turn.auth = identity
         /\ turn.at \in Looping => identity # NoAccount
         /\ turn.at = "stream" => ~turn.first /\ turn.auth = identity
  BY DEF Loyal

Good == Typed /\ Placed /\ Loyal /\ Rebuilt

Moved(from, to, yields) ==
  /\ Moves(from, to, yields) /\ Quiet /\ UNCHANGED <<running, account>> /\ counts' \in Counts
  /\ (from \in Prompting /\ to \in Prompting) \/ (from \in Compacting /\ to \in Compacting)
  /\ to \in Looping => from \in Looping /\ (turn'.first => turn'.auth = identity)
  /\ to = "stream" => ~turn'.first /\ turn'.auth = identity
  /\ to = "summarising" => identity \in {NoAccount, turn'.auth}
  /\ to # "tool" \/ turn'.calls # << >>

LEMMA MovedKeeps ==
  ASSUME Good, NEW from, NEW to, NEW yields, Moved(from, to, yields)
  PROVE  Good'
<1>1. /\ Moves(from, to, yields) /\ Quiet /\ UNCHANGED running /\ UNCHANGED <<running, account>>
      /\ counts' \in Counts
      /\ (from \in Prompting /\ to \in Prompting) \/ (from \in Compacting /\ to \in Compacting)
      /\ to \in Looping => from \in Looping /\ (turn'.first => turn'.auth = identity)
      /\ to = "stream" => ~turn'.first /\ turn'.auth = identity
      /\ to = "summarising" => identity \in {NoAccount, turn'.auth}
      /\ to # "tool" \/ turn'.calls # << >>
  BY DEF Moved
<1>2. Typed /\ Placed /\ Loyal /\ Rebuilt
  BY DEF Good
<1>3. from # "down"
  BY <1>1 DEF Prompting, Looping, Leaving, Compacting
<1>4. Typed' /\ Rebuilt'
  BY <1>1, <1>2, <1>3, QuietMove
<1>5. Placed'
  BY <1>1, <1>2, MovePlaced
<1>6. Loyal'
  BY <1>1, <1>2, <1>3, MoveLoyal
<1> QED
  BY <1>4, <1>5, <1>6 DEF Good

\* Steps of the generator that leave the history alone.
LEMMA QuietMoves ==
  ASSUME Good,
         \/ SendAborted \/ SendRefused \/ Attempt \/ AttemptAborted \/ StreamText \/ StreamCall
         \/ StreamStopped \/ StreamRetried \/ Wake \/ OutcomeDone \/ Stopped \/ RunTool \/ NextStep
         \/ Summarise \/ SummaryRetried \/ SummaryStopped \/ SummaryDone
  PROVE  Good'
<1>1. /\ Typed /\ Placed /\ Loyal /\ Rebuilt /\ turn \in Turns /\ account \in Accounts /\ counts \in Counts
      /\ messages \in Seq(Msgs)
  BY DEF Good, Typed
<1>2. ASSUME SendAborted
      PROVE  Good'
  <2>1. Moved("send", "end", <<"aborted">>)
    <3>1. Moves("send", "end", <<"aborted">>) /\ Quiet /\ UNCHANGED <<running, account>> /\ counts' \in Counts
      BY <1>1, <1>2, SendMoves DEF SendAborted, Quiet
    <3>2. turn.at = "send"
      BY <3>1 DEF Moves
    <3> QED
      BY <1>1, <1>2, <3>1, <3>2, SendMoves, InUse DEF Moved, Prompting, Looping, Leaving, Compacting, Keeps
  <2> QED
    BY <2>1, MovedKeeps
<1>3. ASSUME SendRefused
      PROVE  Good'
  <2>1. Moved("send", "end", <<"error">>)
    <3>1. Moves("send", "end", <<"error">>) /\ Quiet /\ UNCHANGED <<running, account>> /\ counts' \in Counts
      BY <1>1, <1>3, SendMoves DEF SendRefused, Quiet, AuthFails
    <3>2. turn.at = "send"
      BY <3>1 DEF Moves
    <3> QED
      BY <1>1, <1>3, <3>1, <3>2, SendMoves, InUse DEF Moved, Prompting, Looping, Leaving, Compacting, Keeps
  <2> QED
    BY <2>1, MovedKeeps
<1>4. ASSUME AttemptAborted
      PROVE  Good'
  <2>1. Moved("step", "outcome", << >>)
    <3>1. Moves("step", "outcome", << >>) /\ Quiet /\ UNCHANGED <<running, account>> /\ counts' \in Counts
      BY <1>1, <1>4, StepMoves DEF AttemptAborted, Quiet
    <3>2. turn.at = "step"
      BY <3>1 DEF Moves
    <3> QED
      BY <1>1, <1>4, <3>1, <3>2, StepMoves, InUse DEF Moved, Prompting, Looping, Leaving, Compacting, Keeps
  <2> QED
    BY <2>1, MovedKeeps
<1>5. ASSUME StreamText
      PROVE  Good'
  <2>1. Moved("stream", "stream", << >>)
    <3>1. Moves("stream", "stream", << >>) /\ Quiet /\ UNCHANGED <<running, account>> /\ counts' \in Counts
      BY <1>1, <1>5, StepMoves DEF StreamText, Quiet
    <3>2. turn.at = "stream"
      BY <3>1 DEF Moves
    <3> QED
      BY <1>1, <1>5, <3>1, <3>2, StepMoves, InUse DEF Moved, Prompting, Looping, Leaving, Compacting, Keeps
  <2> QED
    BY <2>1, MovedKeeps
<1>6. ASSUME StreamCall
      PROVE  Good'
  <2>1. Moved("stream", "stream", <<"tool_call">>)
    <3>1. Moves("stream", "stream", <<"tool_call">>) /\ Quiet /\ UNCHANGED <<running, account>> /\ counts' \in Counts
      BY <1>1, <1>6, StepMoves, CountsTypes DEF StreamCall, Quiet
    <3>2. turn.at = "stream"
      BY <3>1 DEF Moves
    <3> QED
      BY <1>1, <1>6, <3>1, <3>2, StepMoves, InUse DEF Moved, Prompting, Looping, Leaving, Compacting, Keeps
  <2> QED
    BY <2>1, MovedKeeps
<1>7. ASSUME StreamStopped
      PROVE  Good'
  <2>1. Moved("stream", "stopped", <<"error">>)
    <3>1. Moves("stream", "stopped", <<"error">>) /\ Quiet /\ UNCHANGED <<running, account>> /\ counts' \in Counts
      BY <1>1, <1>7, StepMoves DEF StreamStopped, Quiet
    <3>2. turn.at = "stream"
      BY <3>1 DEF Moves
    <3> QED
      BY <1>1, <1>7, <3>1, <3>2, StepMoves, InUse DEF Moved, Prompting, Looping, Leaving, Compacting, Keeps
  <2> QED
    BY <2>1, MovedKeeps
<1>8. ASSUME StreamRetried
      PROVE  Good'
  <2>1. Moved("stream", "sleep", <<"retry">>)
    <3>1. Moves("stream", "sleep", <<"retry">>) /\ Quiet /\ UNCHANGED <<running, account>> /\ counts' \in Counts
      BY <1>1, <1>8, StepMoves DEF StreamRetried, Quiet
    <3>2. turn.at = "stream"
      BY <3>1 DEF Moves
    <3> QED
      BY <1>1, <1>8, <3>1, <3>2, StepMoves, InUse DEF Moved, Prompting, Looping, Leaving, Compacting, Keeps
  <2> QED
    BY <2>1, MovedKeeps
<1>9. ASSUME Wake
      PROVE  Good'
  <2>1. Moved("sleep", "step", << >>)
    <3>1. Moves("sleep", "step", << >>) /\ Quiet /\ UNCHANGED <<running, account>> /\ counts' \in Counts
      BY <1>1, <1>9, StepMoves DEF Wake, Quiet
    <3>2. turn.at = "sleep"
      BY <3>1 DEF Moves
    <3> QED
      BY <1>1, <1>9, <3>1, <3>2, StepMoves, InUse DEF Moved, Prompting, Looping, Leaving, Compacting, Keeps
  <2> QED
    BY <2>1, MovedKeeps
<1>10. ASSUME RunTool
      PROVE  Good'
  <2>1. Moved("tools", "tool", << >>)
    <3>1. Moves("tools", "tool", << >>) /\ Quiet /\ UNCHANGED <<running, account>> /\ counts' \in Counts
      BY <1>1, <1>10, ToolMoves DEF RunTool, Quiet
    <3>2. turn.at = "tools"
      BY <3>1 DEF Moves
    <3> QED
      BY <1>1, <1>10, <3>1, <3>2, ToolMoves, InUse DEF Moved, Prompting, Looping, Leaving, Compacting, Keeps
  <2> QED
    BY <2>1, MovedKeeps
<1>11. ASSUME NextStep
      PROVE  Good'
  <2>1. Moved("tools", "step", << >>)
    <3>1. Moves("tools", "step", << >>) /\ Quiet /\ UNCHANGED <<running, account>> /\ counts' \in Counts
      BY <1>1, <1>11, ToolMoves DEF NextStep, Quiet
    <3>2. turn.at = "tools"
      BY <3>1 DEF Moves
    <3> QED
      BY <1>1, <1>11, <3>1, <3>2, ToolMoves, InUse DEF Moved, Prompting, Looping, Leaving, Compacting, Keeps
  <2> QED
    BY <2>1, MovedKeeps
<1>12. ASSUME SummaryRetried
      PROVE  Good'
  <2>1. Moved("summarising", "summary", <<"retry">>)
    <3>1. Moves("summarising", "summary", <<"retry">>) /\ Quiet /\ UNCHANGED <<running, account>> /\ counts' \in Counts
      BY <1>1, <1>12, SummaryMoves DEF SummaryRetried, Quiet
    <3>2. turn.at = "summarising"
      BY <3>1 DEF Moves
    <3> QED
      BY <1>1, <1>12, <3>1, <3>2, SummaryMoves, InUse DEF Moved, Prompting, Looping, Leaving, Compacting, Keeps
  <2> QED
    BY <2>1, MovedKeeps
<1>13. ASSUME SummaryStopped
      PROVE  Good'
  <2>1. Moved("summarising", "given up", <<"error">>)
    <3>1. Moves("summarising", "given up", <<"error">>) /\ Quiet /\ UNCHANGED <<running, account>> /\ counts' \in Counts
      BY <1>1, <1>13, SummaryMoves DEF SummaryStopped, Quiet
    <3>2. turn.at = "summarising"
      BY <3>1 DEF Moves
    <3> QED
      BY <1>1, <1>13, <3>1, <3>2, SummaryMoves, InUse DEF Moved, Prompting, Looping, Leaving, Compacting, Keeps
  <2> QED
    BY <2>1, MovedKeeps
<1>14. ASSUME SummaryDone
      PROVE  Good'
  <2>1. Moved("summarising", "summarised", << >>)
    <3>1. Moves("summarising", "summarised", << >>) /\ Quiet /\ UNCHANGED <<running, account>> /\ counts' \in Counts
      BY <1>1, <1>14, SummaryMoves DEF SummaryDone, Quiet
    <3>2. turn.at = "summarising"
      BY <3>1 DEF Moves
    <3> QED
      BY <1>1, <1>14, <3>1, <3>2, SummaryMoves, InUse DEF Moved, Prompting, Looping, Leaving, Compacting, Keeps
  <2> QED
    BY <2>1, MovedKeeps
<1>15. ASSUME Attempt
      PROVE  Good'
  <2>1. Quiet /\ UNCHANGED <<running, account>> /\ counts' \in Counts
    BY <1>1, <1>15 DEF Attempt, Quiet
  <2>2. CASE /\ Moves("step", "stream", << >>) /\ turn'.first = FALSE
               /\ \/ turn.first /\ turn'.auth = turn.auth
                  \/ Matches /\ turn'.auth = account
    <3>1. turn.at = "step"
      BY <2>2 DEF Moves
    <3>2. Moved("step", "stream", << >>)
      BY <1>1, <2>1, <2>2, <3>1, InUse DEF Moved, Prompting, Looping, Leaving, Compacting, Keeps, Matches
    <3> QED
      BY <3>2, MovedKeeps
  <2>3. CASE Moves("step", "stopped", <<"error">>)
    <3>1. turn.at = "step"
      BY <2>3 DEF Moves
    <3>2. Moved("step", "stopped", <<"error">>)
      BY <1>1, <2>1, <2>3, <3>1, InUse DEF Moved, Prompting, Looping, Leaving, Compacting, Keeps, Matches
    <3> QED
      BY <3>2, MovedKeeps
  <2> QED
    BY <1>1, <1>15, <2>2, <2>3, StepMoves
<1>16. ASSUME OutcomeDone
      PROVE  Good'
  <2>1. Quiet /\ UNCHANGED <<running, account>> /\ counts' \in Counts
    BY <1>1, <1>16 DEF OutcomeDone, Quiet
  <2>2. CASE Moves("outcome", "end", << >>)
    <3>1. turn.at = "outcome"
      BY <2>2 DEF Moves
    <3>2. Moved("outcome", "end", << >>)
      BY <1>1, <2>1, <2>2, <3>1, InUse DEF Moved, Prompting, Looping, Leaving, Compacting, Keeps, Matches
    <3> QED
      BY <3>2, MovedKeeps
  <2>3. CASE Moves("outcome", "tools", << >>) /\ Keeps
    <3>1. turn.at = "outcome"
      BY <2>3 DEF Moves
    <3>2. Moved("outcome", "tools", << >>)
      BY <1>1, <2>1, <2>3, <3>1, InUse DEF Moved, Prompting, Looping, Leaving, Compacting, Keeps, Matches
    <3> QED
      BY <3>2, MovedKeeps
  <2> QED
    BY <1>1, <1>16, <2>2, <2>3, ToolMoves
<1>17. ASSUME Stopped
      PROVE  Good'
  <2>1. Quiet /\ UNCHANGED <<running, account>> /\ counts' \in Counts
    BY <1>1, <1>17 DEF Stopped, Quiet
  <2>2. CASE Moves("stopped", "mark", << >>)
    <3>1. turn.at = "stopped"
      BY <2>2 DEF Moves
    <3>2. Moved("stopped", "mark", << >>)
      BY <1>1, <2>1, <2>2, <3>1, InUse DEF Moved, Prompting, Looping, Leaving, Compacting, Keeps, Matches
    <3> QED
      BY <3>2, MovedKeeps
  <2>3. CASE Moves("stopped", "end", << >>)
    <3>1. turn.at = "stopped"
      BY <2>3 DEF Moves
    <3>2. Moved("stopped", "end", << >>)
      BY <1>1, <2>1, <2>3, <3>1, InUse DEF Moved, Prompting, Looping, Leaving, Compacting, Keeps, Matches
    <3> QED
      BY <3>2, MovedKeeps
  <2> QED
    BY <1>1, <1>17, <2>2, <2>3, ToolMoves
<1>18. ASSUME Summarise
      PROVE  Good'
  <2>1. Quiet /\ UNCHANGED <<running, account>> /\ counts' \in Counts
    BY <1>1, <1>18 DEF Summarise, Quiet
  <2>2. CASE Moves("summary", "summarising", << >>) /\ Matches /\ turn'.auth = account
    <3>1. turn.at = "summary"
      BY <2>2 DEF Moves
    <3>2. Moved("summary", "summarising", << >>)
      BY <1>1, <2>1, <2>2, <3>1, InUse DEF Moved, Prompting, Looping, Leaving, Compacting, Keeps, Matches
    <3> QED
      BY <3>2, MovedKeeps
  <2>3. CASE Moves("summary", "given up", <<"error">>)
    <3>1. turn.at = "summary"
      BY <2>3 DEF Moves
    <3>2. Moved("summary", "given up", <<"error">>)
      BY <1>1, <2>1, <2>3, <3>1, InUse DEF Moved, Prompting, Looping, Leaving, Compacting, Keeps, Matches
    <3> QED
      BY <3>2, MovedKeeps
  <2> QED
    BY <1>1, <1>18, <2>2, <2>3, SummaryMoves
<1> QED
  BY <1>2, <1>3, <1>4, <1>5, <1>6, <1>7, <1>8, <1>9, <1>10, <1>11, <1>12, <1>13, <1>14, <1>15, <1>16, <1>17, <1>18

-----------------------------------------------------------------------------
(* The other steps that leave the log and the history alone.               *)

\* A cut is at a message that may begin a history.
LEMMA FindCutIs ==
  ASSUME NEW h \in Seq(Msgs), NEW crossing \in DOMAIN h, FindCut(h, crossing) # 0
  PROVE  FindCut(h, crossing) \in DOMAIN h /\ IsCutMessage(h[FindCut(h, crossing)])
<1>1. PICK owners : owners = {i \in 1 .. crossing - 1 : h[i].role = "assistant"
                                /\ ToSet(h[crossing].ids) \subseteq ToSet(h[i].ids)}
  OBVIOUS
<1>2. PICK later : later = {i \in crossing + 1 .. Len(h) : IsCutMessage(h[i])}
  OBVIOUS
<1>3. FindCut(h, crossing) = CASE IsCutMessage(h[crossing]) -> crossing
                                [] h[crossing].role = "tool" /\ owners # {} -> Max(owners)
                                [] OTHER -> IF later = {} THEN 0 ELSE Min(later)
  BY <1>1, <1>2 DEF FindCut
<1>4. Len(h) \in Nat /\ DOMAIN h = 1 .. Len(h) /\ crossing \in 1 .. Len(h)
  OBVIOUS
<1>5. owners # {} => Max(owners) \in owners
  <2>1. owners \subseteq 0 .. Len(h)
    BY <1>1, <1>4
  <2> QED
    BY <1>4, <2>1, BoundedEnds
<1>6. later # {} => Min(later) \in later
  <2>1. later \subseteq 0 .. Len(h)
    BY <1>2, <1>4
  <2> QED
    BY <1>4, <2>1, BoundedEnds
<1>7. \A i \in owners : i \in DOMAIN h /\ IsCutMessage(h[i])
  BY <1>1, <1>4 DEF IsCutMessage
<1>8. \A i \in later : i \in DOMAIN h /\ IsCutMessage(h[i])
  BY <1>2, <1>4
<1>9. CASE IsCutMessage(h[crossing])
  <2>1. h[crossing].role # "tool"
    BY <1>9 DEF IsCutMessage
  <2>2. FindCut(h, crossing) = crossing
    BY <1>3, <1>9, <2>1
  <2> QED
    BY <1>9, <2>2
<1>10. CASE ~IsCutMessage(h[crossing]) /\ h[crossing].role = "tool" /\ owners # {}
  <2>1. FindCut(h, crossing) = Max(owners)
    BY <1>3, <1>10
  <2> QED
    BY <1>5, <1>7, <1>10, <2>1
<1>11. CASE ~IsCutMessage(h[crossing]) /\ ~(h[crossing].role = "tool" /\ owners # {})
  <2>1. FindCut(h, crossing) = IF later = {} THEN 0 ELSE Min(later)
    BY <1>3, <1>11
  <2> QED
    BY <1>6, <1>8, <2>1
<1> QED
  BY <1>9, <1>10, <1>11

LEMMA FailureTypes ==
  ASSUME turn \in Turns, NEW yield
  PROVE  Failure(yield) \in {"none", "aborted", "error"}
  BY DEF Failure, Turns

LEMMA RecordFailsMoves ==
  ASSUME Typed, RecordFails
  PROVE  turn' \in Turns /\ turn'.at \in {"end", "failed"}
<1>1. turn \in Turns /\ "end" \in Places /\ "failed" \in Places /\ << >> \in Seq(Yields)
      /\ <<"aborted">> \in Seq(Yields) /\ <<"error">> \in Seq(Yields)
  BY Names DEF Typed, Yields
<1>2. PICK y, f : /\ y = (IF turn.aborted THEN "aborted" ELSE "error")
                  /\ f = Failure(Head(turn.yields))
  OBVIOUS
<1>3. turn' = IF f # "none" THEN [Go("end", << >>) EXCEPT !.failure = f] ELSE Go("failed", <<y>>)
  BY <1>2 DEF RecordFails
<1>4. Go("failed", <<y>>) \in Turns /\ Go("failed", <<y>>).at = "failed"
  BY <1>1, <1>2, GoTypes
<1>5. PICK g \in Turns : g = Go("end", << >>)
  BY <1>1, GoTypes
<1>6. g.at = "end"
  BY <1>1, <1>5, GoTypes
<1>7. f \in {"none", "aborted", "error"}
  BY <1>1, <1>2, FailureTypes
<1>8. [g EXCEPT !.failure = f] \in Turns /\ [g EXCEPT !.failure = f].at = "end"
  BY <1>6, <1>7 DEF Turns
<1> QED
  BY <1>3, <1>4, <1>5, <1>8

LEMMA OtherQuiet ==
  ASSUME Good,
         Submit \/ RecordFails \/ BeginCompaction \/ GiveUp \/ Abort \/ SwitchAccount
  PROVE  Good'
<1>1. /\ Typed /\ Placed /\ Loyal /\ Rebuilt /\ turn \in Turns /\ account \in Accounts /\ counts \in Counts
      /\ messages \in Seq(Msgs)
  BY DEF Good, Typed
<1>2. ASSUME Submit
      PROVE  Good'
  <2>1. turn' \in Turns /\ turn'.at = "send" /\ turn'.yields = << >>
    <3>1. "send" \in Places /\ 0 \in Nat
      BY Names
    <3>2. turn' = [Resting EXCEPT !.at = "send"]
      BY <1>2 DEF Submit
    <3> QED
      BY <3>1, <3>2, RestingTypes
  <2>2. Quiet /\ turn.at # "down" /\ counts' \in Counts /\ account' = account /\ running' = "prompt"
    BY <1>1, <1>2, CountsTypes DEF Submit, Quiet
  <2>3. Typed' /\ Rebuilt'
    BY <1>1, <2>1, <2>2, QuietRebuilt
  <2>4. Placed'
    BY <1>1, <2>1, <2>2 DEF Placed, Compacting
  <2>5. Loyal'
    BY <1>1, <2>1, <2>2 DEF Loyal, Quiet, Looping
  <2> QED
    BY <2>3, <2>4, <2>5 DEF Good
<1>3. ASSUME RecordFails
      PROVE  Good'
  <2>1. turn' \in Turns /\ turn'.at \in {"end", "failed"}
    BY <1>1, <1>3, RecordFailsMoves
  <2>2. counts' \in Counts
    <3>1. counts' = [counts EXCEPT !.faults = counts.faults + 1, !.failed = counts.failed + 1]
      BY <1>3 DEF RecordFails
    <3>2. counts \in Counts /\ counts.faults + 1 \in Nat /\ counts.failed + 1 \in Nat
      BY <1>1 DEF Counts
    <3> QED
      BY <3>1, <3>2 DEF Counts
  <2>3. Quiet /\ turn.at # "down" /\ account' = account /\ running = "prompt" /\ running' = "prompt"
    <3>1. /\ Quiet /\ account' = account /\ running = "prompt" /\ running' = "prompt"
          /\ turn.yields # << >>
      BY <1>1, <1>3 DEF RecordFails, Quiet
    <3>2. turn.at # "down"
      BY <1>1, <3>1 DEF Placed
    <3> QED
      BY <3>1, <3>2
  <2>4. Typed' /\ Rebuilt'
    BY <1>1, <2>1, <2>2, <2>3, QuietRebuilt
  <2>5. Placed'
    BY <1>1, <2>1, <2>3 DEF Placed, Compacting
  <2>6. Loyal'
    BY <1>1, <2>1, <2>3 DEF Loyal, Quiet, Looping
  <2> QED
    BY <2>4, <2>5, <2>6 DEF Good
<1>4. ASSUME BeginCompaction
      PROVE  Good'
  <2>1. PICK crossing \in DOMAIN messages :
          /\ FindCut(messages, crossing) > 1
          /\ turn' = [Resting EXCEPT !.at = "summary", !.cut = FindCut(messages, crossing)]
    BY <1>4 DEF BeginCompaction
  <2>2. PICK cut : cut = FindCut(messages, crossing)
    OBVIOUS
  <2>3. cut > 1
    BY <2>1, <2>2
  <2>4. cut # 0
    BY <2>3
  <2>5. cut \in DOMAIN messages /\ IsCutMessage(messages[cut])
    BY <1>1, <2>2, <2>4, FindCutIs
  <2>6. cut \in 2 .. Len(messages) /\ cut \in Nat
    BY <1>1, <2>3, <2>5
  <2>7. turn' \in Turns /\ turn'.at = "summary" /\ turn'.yields = << >> /\ turn'.cut = cut
    <3>1. PICK place \in Places : place = "summary"
      BY Names
    <3>2. turn' = [Resting EXCEPT !.at = place, !.cut = cut] /\ cut \in Nat
      BY <2>1, <2>2, <2>6, <3>1
    <3>3. /\ [Resting EXCEPT !.at = place, !.cut = cut] \in Turns
          /\ [Resting EXCEPT !.at = place, !.cut = cut].at = place
          /\ [Resting EXCEPT !.at = place, !.cut = cut].yields = << >>
          /\ [Resting EXCEPT !.at = place, !.cut = cut].cut = cut
      BY <3>2, RestingTypes
    <3> QED
      BY <3>1, <3>2, <3>3, Zenon
  <2>8. /\ Quiet /\ turn.at # "down" /\ counts' \in Counts /\ account' = account
        /\ running' = "compaction" /\ persisted = Len(messages)
    BY <1>1, <1>4, CountsTypes DEF BeginCompaction, Quiet
  <2>9. Typed' /\ Rebuilt'
    BY <1>1, <2>7, <2>8, QuietRebuilt
  <2>10. Placed'
    BY <1>1, <2>5, <2>6, <2>7, <2>8 DEF Placed, Compacting, Quiet
  <2>11. Loyal'
    BY <1>1, <2>7, <2>8 DEF Loyal, Quiet, Looping
  <2> QED
    BY <2>9, <2>10, <2>11 DEF Good
<1>5. ASSUME GiveUp
      PROVE  Good'
  <2>1. turn' = Resting /\ turn' \in Turns /\ turn'.at = "idle" /\ turn'.yields = << >>
    <3>1. "idle" \in Places /\ 0 \in Nat
      BY Names
    <3> QED
      BY <1>5, <3>1, RestingTypes DEF GiveUp
  <2>2. Quiet /\ turn.at # "down" /\ counts' \in Counts /\ account' = account /\ running' = "none"
    BY <1>1, <1>5 DEF GiveUp, At, Quiet
  <2>3. Typed' /\ Rebuilt'
    BY <1>1, <2>1, <2>2, QuietRebuilt
  <2>4. Placed'
    BY <1>1, <2>1, <2>2 DEF Placed, Compacting
  <2>5. Loyal'
    BY <1>1, <2>1, <2>2 DEF Loyal, Quiet, Looping
  <2> QED
    BY <2>3, <2>4, <2>5 DEF Good
<1>6. ASSUME Abort
      PROVE  Good'
  <2>1. /\ turn' \in Turns /\ turn'.at = turn.at /\ turn'.yields = turn.yields /\ turn'.cut = turn.cut
        /\ turn'.first = turn.first /\ turn'.auth = turn.auth /\ turn'.calls = turn.calls
    BY <1>1, <1>6 DEF Abort, Turns
  <2>2. Quiet /\ turn.at # "down" /\ counts' \in Counts /\ account' = account /\ running' = running
    BY <1>1, <1>6 DEF Abort, Quiet
  <2>3. Typed' /\ Rebuilt'
    <3>1. running' \in {"none", "prompt", "compaction"}
      BY <1>1, <2>2 DEF Typed
    <3> QED
      BY <1>1, <2>1, <2>2, <3>1, QuietRebuilt
  <2>4. Placed'
    BY <1>1, <2>1, <2>2 DEF Placed, Quiet
  <2>5. Loyal'
    BY <1>1, <2>1, <2>2 DEF Loyal, Quiet
  <2> QED
    BY <2>3, <2>4, <2>5 DEF Good
<1>7. ASSUME SwitchAccount
      PROVE  Good'
  <2>1. /\ UNCHANGED <<log, running, messages, persisted, identity, turn>> /\ account' \in Accounts
        /\ counts' \in Counts
    BY <1>1, <1>7, CountsTypes DEF SwitchAccount
  <2>2. Typed' /\ Placed' /\ Loyal'
    BY <1>1, <2>1 DEF Typed, Placed, Loyal
  <2>3. Rebuilt'
    <3>1. Entries' = Entries
      BY <2>1 DEF Entries, OfType
    <3> QED
      BY <1>1, <2>1, <3>1 DEF Rebuilt
  <2> QED
    BY <2>2, <2>3 DEF Good
<1> QED
  BY <1>2, <1>3, <1>4, <1>5, <1>6, <1>7

-----------------------------------------------------------------------------
(* Steps that add to the history.                                          *)

LEMMA MessageTypes ==
  /\ Message("user", << >>) \in Msgs /\ Marker \in Msgs /\ Summary \in Msgs
  /\ \A ids \in Seq(Nat) : Message("assistant", ids) \in Msgs
  /\ \A c \in Nat : Result(c) \in Msgs
<1>1. << >> \in Seq(Nat) /\ \A c \in Nat : <<c>> \in Seq(Nat) /\ <<c>> # << >>
  OBVIOUS
<1> QED
  BY <1>1 DEF Message, Marker, Summary, Result, Msgs, Roles

LEMMA ResultsTypes ==
  ASSUME NEW calls \in Seq(Nat)
  PROVE  /\ Results(calls) \in Seq(Msgs) /\ Len(Results(calls)) = Len(calls)
         /\ \A i \in 1 .. Len(calls) : Results(calls)[i] = Result(calls[i])
<1>1. \A i \in 1 .. Len(calls) : Result(calls[i]) \in Msgs
  BY MessageTypes
<1>2. PICK r : r = Results(calls)
  OBVIOUS
<1>3. r = [i \in 1 .. Len(calls) |-> Result(calls[i])] /\ Len(calls) \in Nat
  BY <1>2 DEF Results
<1>4. r \in Seq(Msgs) /\ Len(r) = Len(calls)
  BY <1>1, <1>3
<1> QED
  BY <1>2, <1>3, <1>4

LEMMA GrownRebuilt ==
  ASSUME Typed, Rebuilt, NEW s \in Seq(Msgs), messages' = messages \o s,
         UNCHANGED <<log, persisted, running, account>>, identity' \in Accounts \cup {NoAccount},
         counts' \in Counts, turn' \in Turns, turn.at # "down"
  PROVE  Typed' /\ Rebuilt'
<1>1. messages \in Seq(Msgs) /\ persisted \in 0 .. Len(messages) /\ Len(messages) \in Nat
  BY DEF Typed
<1>2. messages' \in Seq(Msgs) /\ Len(messages') = Len(messages) + Len(s) /\ Len(s) \in Nat
  BY <1>1, ConcatItems
<1>3. persisted' \in 0 .. Len(messages')
  BY <1>1, <1>2
<1>4. Typed'
  BY <1>2, <1>3 DEF Typed
<1>5. SubSeq(messages', 1, persisted') = SubSeq(messages, 1, persisted)
  <2>1. PICK h, p : h = messages /\ p = persisted
    OBVIOUS
  <2>2. h \in Seq(Msgs) /\ p \in 0 .. Len(h) /\ p \in 0 .. Len(h) + Len(s) /\ p <= Len(h)
    BY <1>1, <1>2, <2>1
  <2>3. SubSeq(h \o s, 1, p) = SubSeq(h, 1, p) \o SubSeq(s, 1, 0)
    BY <2>2, ConcatPrefix
  <2>4. SubSeq(s, 1, 0) = << >>
    OBVIOUS
  <2>5. SubSeq(h, 1, p) \in Seq(Msgs)
    BY <2>2
  <2>6. SubSeq(h, 1, p) \o << >> = SubSeq(h, 1, p)
    BY <2>5, ConcatEmptySeq
  <2> QED
    BY <2>1, <2>3, <2>4, <2>6
<1>6. Entries' = Entries
  BY DEF Entries, OfType
<1>7. Rebuilt'
  BY <1>5, <1>6 DEF Rebuilt
<1> QED
  BY <1>4, <1>7

LEMMA GrownPlaced ==
  ASSUME Placed, NEW from \in Prompting, NEW to \in Prompting, NEW yields, Moves(from, to, yields),
         to # "tool", UNCHANGED running
  PROVE  Placed'
<1>1. /\ from \notin {"idle", "down"} /\ to \notin {"idle", "down"}
      /\ from \notin Compacting /\ to \notin Compacting
  BY DEF Prompting, Looping, Leaving, Compacting, Sending
<1>2. turn.at = from /\ turn'.at = to
  BY DEF Moves
<1>3. running # "none" /\ running # "compaction"
  BY <1>1, <1>2 DEF Placed
<1> QED
  BY <1>1, <1>2, <1>3 DEF Placed

\* A step of the generator that adds messages.
Grown(s, from, to, yields) ==
  /\ Moves(from, to, yields) /\ messages' = messages \o s
  /\ UNCHANGED <<log, persisted, running, account, counts>>
  /\ from \in Prompting /\ to \in Prompting /\ to \notin {"tool", "stream"}

LEMMA GrownKeeps ==
  ASSUME Good, NEW s \in Seq(Msgs), NEW from, NEW to, NEW yields, Grown(s, from, to, yields),
         UNCHANGED identity, to \in Looping => from \in Looping /\ (turn'.first => turn'.auth = identity)
  PROVE  Good'
<1>1. /\ Typed /\ Placed /\ Loyal /\ Rebuilt /\ counts' \in Counts
      /\ Moves(from, to, yields) /\ UNCHANGED <<log, persisted, running, account>>
      /\ from \in Prompting /\ to \in Prompting /\ to \notin {"tool", "stream"}
      /\ messages' = messages \o s
  BY DEF Good, Typed, Grown
<1>2. turn' \in Turns /\ turn.at = from /\ turn'.at = to /\ turn.yields = << >>
      /\ from # "down" /\ to # "summarising"
  BY <1>1 DEF Moves, Prompting, Looping, Leaving, Sending
<1>3. Typed' /\ Rebuilt'
  <2>1. identity' \in Accounts \cup {NoAccount}
    BY <1>1 DEF Typed
  <2> QED
    BY <1>1, <1>2, <2>1, GrownRebuilt
<1>4. Placed'
  BY <1>1, GrownPlaced
<1>5. Loyal'
  <2>1. from \in Looping => identity # NoAccount /\ Named(log) = {identity}
    BY <1>1, <1>2 DEF Loyal
  <2>2. Named(log') = Named(log) /\ Named(log) \subseteq {identity}
    BY <1>1, <1>2 DEF Loyal
  <2> QED
    BY <1>1, <1>2, <2>1, <2>2 DEF Loyal
<1> QED
  BY <1>3, <1>4, <1>5 DEF Good

LEMMA SendKeeps ==
  ASSUME Good, Send
  PROVE  Good' /\ Grown(<<Message("user", << >>)>>, "send", "step", <<"delivered">>)
<1>1. Typed /\ Placed /\ Loyal /\ Rebuilt /\ turn \in Turns /\ account \in Accounts
      /\ log \in Seq(Records) /\ messages \in Seq(Msgs)
  BY DEF Good, Typed
<1>2. Moves("send", "step", <<"delivered">>) /\ turn'.first = TRUE /\ turn'.auth = account
  BY <1>1, SendMoves
<1>3. PICK m \in Msgs : m = Message("user", << >>)
  BY MessageTypes
<1>4. messages' = messages \o <<m>> /\ <<m>> \in Seq(Msgs)
  <2>1. messages' = Append(messages, m)
    BY <1>3 DEF Send
  <2> QED
    BY <1>1, <2>1, ConcatShort
<1>5. Grown(<<m>>, "send", "step", <<"delivered">>)
  BY <1>2, <1>4 DEF Send, Grown, Prompting, Looping, Sending
<1>6. turn' \in Turns /\ turn.at = "send" /\ turn'.at = "step" /\ turn'.yields = <<"delivered">>
  BY <1>2 DEF Moves
<1>7. UNCHANGED <<log, persisted, running, account, counts>> /\ identity' = account /\ Matches
  BY DEF Send
<1>8. Typed' /\ Rebuilt'
  <2>1. counts' \in Counts
    BY <1>1, <1>7 DEF Typed
  <2> QED
    BY <1>1, <1>4, <1>6, <1>7, <2>1, GrownRebuilt
<1>9. Placed'
  BY <1>1, <1>2, <1>7, GrownPlaced DEF Prompting, Looping, Sending
<1>10. Loyal'
  <2>1. Named(log) \subseteq {identity} /\ Named(log) \subseteq Accounts
    BY <1>1, <1>6, StoredIs DEF Loyal
  <2>2. Named(log') = Named(log) /\ Named(log) \subseteq {account}
    BY <1>7, <2>1, Names DEF Matches
  <2>3. account # NoAccount
    BY <1>1, Names
  <2> QED
    BY <1>2, <1>6, <1>7, <2>2, <2>3 DEF Loyal
<1> QED
  BY <1>3, <1>5, <1>8, <1>9, <1>10 DEF Good

LEMMA Appended ==
  ASSUME Typed, NEW m \in Msgs, messages' = Append(messages, m)
  PROVE  <<m>> \in Seq(Msgs) /\ messages' = messages \o <<m>>
<1>1. messages \in Seq(Msgs) /\ <<m>> \in Seq(Msgs)
  BY DEF Typed
<1>2. Append(messages, m) = messages \o <<m>>
  BY <1>1, ConcatShort
<1> QED
  BY <1>1, <1>2

\* What each step of the generator adds.
LEMMA GrownBy ==
  ASSUME Good
  PROVE  /\ StreamDone => /\ Message("assistant", turn.calls) \in Msgs /\ turn'.calls = turn.calls
                          /\ Grown(<<Message("assistant", turn.calls)>>, "stream", "outcome", <<"completed">>)
         /\ StreamAborted =>
              /\ Message("assistant", turn.calls) \in Msgs /\ turn'.calls = turn.calls
              /\ \/ Grown(<<Message("assistant", turn.calls)>>, "stream", "outcome", << >>)
                 \/ /\ Moves("stream", "outcome", << >>) /\ Quiet /\ UNCHANGED <<running, account, counts>>
                    /\ turn.calls = << >>
         /\ \A place \in {"outcome", "tools"} : Skip(place) =>
              Grown(Results(turn.calls), place, "mark", [i \in DOMAIN turn.calls |-> "result"])
         /\ ToolReturns => /\ turn.calls # << >> /\ Result(Head(turn.calls)) \in Msgs
                           /\ turn'.calls = Tail(turn.calls)
                           /\ Grown(<<Result(Head(turn.calls))>>, "tool", "tools", <<"result">>)
         /\ Mark => Grown(<<Marker>>, "mark", "end", <<"aborted">>)
<1>1. /\ Typed /\ Placed /\ turn \in Turns /\ account \in Accounts /\ counts \in Counts
      /\ messages \in Seq(Msgs) /\ turn.calls \in Seq(Nat)
  BY DEF Good, Typed, Turns
<1>2. Message("assistant", turn.calls) \in Msgs
  BY <1>1, MessageTypes
<1>3. ASSUME StreamDone
      PROVE  /\ turn'.calls = turn.calls
             /\ Grown(<<Message("assistant", turn.calls)>>, "stream", "outcome", <<"completed">>)
  <2>1. Moves("stream", "outcome", <<"completed">>) /\ turn'.calls = turn.calls
    BY <1>1, <1>3, StepMoves
  <2>2. messages' = messages \o <<Message("assistant", turn.calls)>>
    BY <1>1, <1>2, <1>3, Appended DEF StreamDone
  <2> QED
    BY <1>3, <2>1, <2>2 DEF StreamDone, Grown, Prompting, Looping
<1>4. ASSUME StreamAborted
      PROVE  /\ turn'.calls = turn.calls
             /\ \/ Grown(<<Message("assistant", turn.calls)>>, "stream", "outcome", << >>)
                \/ /\ Moves("stream", "outcome", << >>) /\ Quiet /\ UNCHANGED <<running, account, counts>>
                   /\ turn.calls = << >>
  <2>1. Moves("stream", "outcome", << >>) /\ turn'.calls = turn.calls
    BY <1>1, <1>4, StepMoves
  <2>2. CASE messages' = Append(messages, Message("assistant", turn.calls))
    <3>1. messages' = messages \o <<Message("assistant", turn.calls)>>
      BY <1>1, <1>2, <2>2, Appended
    <3>2. Grown(<<Message("assistant", turn.calls)>>, "stream", "outcome", << >>)
      BY <1>4, <2>1, <3>1 DEF StreamAborted, Grown, Prompting, Looping
    <3> QED
      BY <2>1, <3>2
  <2>3. CASE turn.calls = << >> /\ messages' = messages
    BY <1>4, <2>1, <2>3 DEF StreamAborted, Quiet
  <2> QED
    BY <1>4, <2>2, <2>3 DEF StreamAborted
<1>5. ASSUME NEW place \in {"outcome", "tools"}, Skip(place)
      PROVE  Grown(Results(turn.calls), place, "mark", [i \in DOMAIN turn.calls |-> "result"])
  <2>1. Moves(place, "mark", [i \in DOMAIN turn.calls |-> "result"])
    BY <1>1, <1>5, ToolMoves
  <2>2. place \in Prompting /\ "mark" \in Prompting
    BY <1>5 DEF Prompting, Looping, Leaving
  <2> QED
    BY <1>5, <2>1, <2>2 DEF Skip, Grown
<1>6. ASSUME ToolReturns
      PROVE  /\ turn.calls # << >> /\ Result(Head(turn.calls)) \in Msgs
             /\ turn'.calls = Tail(turn.calls)
             /\ Grown(<<Result(Head(turn.calls))>>, "tool", "tools", <<"result">>)
  <2>1. turn.calls # << >>
    BY <1>1, <1>6 DEF ToolReturns, At, Placed
  <2>2. Head(turn.calls) \in Nat
    BY <1>1, <2>1
  <2>3. Result(Head(turn.calls)) \in Msgs
    BY <2>2, MessageTypes
  <2>4. Moves("tool", "tools", <<"result">>) /\ turn'.calls = Tail(turn.calls)
    BY <1>1, <1>6, <2>1, ToolMoves
  <2>5. messages' = messages \o <<Result(Head(turn.calls))>>
    BY <1>1, <1>6, <2>3, Appended DEF ToolReturns
  <2> QED
    BY <1>6, <2>1, <2>3, <2>4, <2>5 DEF ToolReturns, Grown, Prompting, Looping
<1>7. ASSUME Mark
      PROVE  Grown(<<Marker>>, "mark", "end", <<"aborted">>)
  <2>1. Moves("mark", "end", <<"aborted">>)
    BY <1>1, <1>7, ToolMoves
  <2>2. messages' = messages \o <<Marker>>
    BY <1>1, <1>7, MessageTypes, Appended DEF Mark
  <2> QED
    BY <1>7, <2>1, <2>2 DEF Mark, Grown, Prompting, Leaving
<1> QED
  BY <1>2, <1>3, <1>4, <1>5, <1>6, <1>7

LEMMA GrowingKeeps ==
  ASSUME Good, StreamDone \/ StreamAborted \/ OutcomeAborted \/ ToolsAborted \/ ToolReturns \/ Mark
  PROVE  Good'
<1>1. /\ Typed /\ Placed /\ Loyal /\ turn \in Turns /\ account \in Accounts /\ counts \in Counts
      /\ messages \in Seq(Msgs) /\ turn.calls \in Seq(Nat)
  BY DEF Good, Typed, Turns
<1>2. UNCHANGED identity
  BY DEF StreamDone, StreamAborted, OutcomeAborted, ToolsAborted, ToolReturns, Mark, Skip
<1>3. \A m \in Msgs : <<m>> \in Seq(Msgs)
  OBVIOUS
<1>4. CASE StreamDone
  <2>1. turn'.first = turn.first /\ turn.at = "stream"
    BY <1>1, <1>4, StepMoves DEF Moves
  <2>2. turn'.first => turn'.auth = identity
    BY <1>1, <2>1, InUse
  <2> QED
    BY <1>2, <1>3, <1>4, <2>2, GrownBy, GrownKeeps DEF Looping
<1>5. CASE StreamAborted
  <2>1. turn'.first = turn.first /\ turn.at = "stream"
    BY <1>1, <1>5, StepMoves DEF Moves
  <2>2. turn'.first => turn'.auth = identity
    BY <1>1, <2>1, InUse
  <2>3. CASE Grown(<<Message("assistant", turn.calls)>>, "stream", "outcome", << >>)
    BY <1>2, <1>3, <1>5, <2>2, <2>3, GrownBy, GrownKeeps DEF Looping
  <2>4. CASE Moves("stream", "outcome", << >>) /\ Quiet /\ UNCHANGED <<running, account, counts>>
    <3>1. Moved("stream", "outcome", << >>)
      BY <1>1, <2>2, <2>4 DEF Moved, Prompting, Looping
    <3> QED
      BY <3>1, MovedKeeps
  <2> QED
    BY <1>5, <2>3, <2>4, GrownBy
<1>6. CASE OutcomeAborted \/ ToolsAborted
  <2>1. PICK place \in {"outcome", "tools"} : Skip(place)
    BY <1>6 DEF OutcomeAborted, ToolsAborted
  <2>2. PICK y : Grown(Results(turn.calls), place, "mark", y)
    BY <2>1, GrownBy
  <2>3. Results(turn.calls) \in Seq(Msgs)
    BY <1>1, ResultsTypes
  <2> QED
    BY <1>2, <2>2, <2>3, GrownKeeps DEF Looping
<1>7. CASE ToolReturns
  <2>1. turn.calls # << >> /\ Result(Head(turn.calls)) \in Msgs
        /\ Grown(<<Result(Head(turn.calls))>>, "tool", "tools", <<"result">>)
    BY <1>7, GrownBy
  <2>2. turn'.first = turn.first /\ turn'.auth = turn.auth /\ turn.at = "tool"
    BY <1>1, <1>7, <2>1, ToolMoves DEF Moves
  <2>3. turn'.first => turn'.auth = identity
    BY <1>1, <2>2, InUse DEF Looping
  <2> QED
    BY <1>2, <1>3, <2>1, <2>3, GrownKeeps DEF Looping
<1>8. CASE Mark
  BY <1>2, <1>3, <1>8, MessageTypes, GrownBy, GrownKeeps DEF Looping
<1> QED
  BY <1>4, <1>5, <1>6, <1>7, <1>8

-----------------------------------------------------------------------------
(* Steps that write the log.                                               *)

LEMMA PayloadsTypes ==
  ASSUME Typed, NEW y
  PROVE  /\ Payloads(y) \in Seq(Records) /\ Len(Payloads(y)) \in Nat
         /\ SubSeq(Payloads(y), 1, Len(Payloads(y))) = Payloads(y)
<1>1. PICK a \in Seq(Plain), b \in Seq(Conversation) : Payloads(y) = a \o b
  BY PayloadParts
<1>2. a \in Seq(Records) /\ b \in Seq(Records)
  <2>1. Plain \subseteq Records /\ Conversation \subseteq Records
    BY DEF Records
  <2> QED
    BY <2>1
<1>3. Payloads(y) \in Seq(Records)
  BY <1>1, <1>2, ConcatItems
<1> QED
  BY <1>3

\* The whole payload.
LEMMA LogRecorded ==
  ASSUME Typed, Rebuilt, turn.at # "down", NEW y, log' = log \o Payloads(y)
  PROVE  /\ log' \in Seq(Records)
         /\ Projected(log') \in Seq(Conversation) /\ Numbered(Projected(log'), Entries')
         /\ Named(log) \subseteq Named(log') /\ Named(log') \subseteq Named(log) \cup {identity}
         /\ Bare(Projected(log')) = messages
         /\ identity # NoAccount => identity \in Named(log')
<1>1. PICK n : n = Len(Payloads(y))
  OBVIOUS
<1>2. n \in 0 .. Len(Payloads(y)) /\ log' = log \o SubSeq(Payloads(y), 1, n)
  BY <1>1, PayloadsTypes
<1> QED
  BY <1>1, <1>2, LogWritten

LEMMA RecordMoves ==
  ASSUME turn \in Turns, Record
  PROVE  /\ turn' \in Turns /\ turn'.at = turn.at /\ turn'.yields = Tail(turn.yields)
         /\ turn'.cut = turn.cut /\ turn'.calls = turn.calls /\ turn'.first = turn.first
         /\ turn'.auth = turn.auth /\ turn'.aborted = turn.aborted /\ turn.yields # << >>
<1>1. PICK f, t : f = Failure(Head(turn.yields)) /\ t = Tail(turn.yields)
  OBVIOUS
<1>2. f \in {"none", "aborted", "error"} /\ turn.yields # << >>
  BY <1>1, FailureTypes DEF Record
<1>3. t \in Seq(Yields)
  BY <1>1, <1>2 DEF Turns
<1>4. turn' = [turn EXCEPT !.yields = t, !.failure = f]
  BY <1>1, Zenon DEF Record
<1> QED
  BY <1>1, <1>2, <1>3, <1>4 DEF Turns

LEMMA RecordKeeps ==
  ASSUME Good, Record
  PROVE  Good'
<1>1. /\ Typed /\ Placed /\ Loyal /\ Rebuilt /\ turn \in Turns
      /\ messages \in Seq(Msgs)
  BY DEF Good, Typed
<1>2. /\ turn' \in Turns /\ turn'.at = turn.at /\ turn'.yields = Tail(turn.yields)
      /\ turn'.cut = turn.cut /\ turn'.calls = turn.calls /\ turn'.first = turn.first
      /\ turn'.auth = turn.auth /\ turn.yields # << >>
  BY <1>1, RecordMoves
<1>3. PICK y : log' = log \o Payloads(y)
  BY DEF Record
<1>4. persisted' = Len(messages) /\ UNCHANGED <<running, messages, identity, account, counts>>
  BY DEF Record
<1>5. turn.at \notin {"down", "idle"}
  BY <1>1, <1>2 DEF Placed
<1>6. /\ log' \in Seq(Records)
      /\ Projected(log') \in Seq(Conversation) /\ Numbered(Projected(log'), Entries')
      /\ Named(log) \subseteq Named(log') /\ Named(log') \subseteq Named(log) \cup {identity}
      /\ Bare(Projected(log')) = messages
      /\ identity # NoAccount => identity \in Named(log')
  BY <1>1, <1>3, <1>5, LogRecorded
<1>7. Len(messages) \in Nat /\ SubSeq(messages, 1, Len(messages)) = messages
  BY <1>1
<1>8. Typed'
  BY <1>1, <1>2, <1>4, <1>6, <1>7 DEF Typed
<1>9. Placed'
  BY <1>1, <1>2, <1>4, <1>5 DEF Placed
<1>10. Rebuilt'
  BY <1>4, <1>6, <1>7 DEF Rebuilt
<1>11. Loyal'
  <2>1. Named(log) \subseteq {identity}
    BY <1>1, <1>5 DEF Loyal
  <2>2. Named(log') \subseteq {identity} /\ (identity # NoAccount => Named(log') = {identity})
    BY <1>6, <2>1
  <2> QED
    BY <1>1, <1>2, <1>4, <2>2 DEF Loyal
<1> QED
  BY <1>8, <1>9, <1>10, <1>11 DEF Good

LEMMA EndTurnKeeps ==
  ASSUME Good, EndTurn
  PROVE  Good'
<1>1. /\ Typed /\ Placed /\ Loyal /\ Rebuilt /\ turn \in Turns
      /\ messages \in Seq(Msgs) /\ Len(messages) \in Nat /\ SubSeq(messages, 1, Len(messages)) = messages
  BY DEF Good, Typed
<1>2. turn' \in Turns /\ turn'.at = "idle" /\ turn'.yields = << >> /\ running' = "none"
  <2>1. "idle" \in Places /\ 0 \in Nat
    BY Names
  <2> QED
    BY <2>1, RestingTypes DEF EndTurn
<1>3. turn.at # "down" /\ UNCHANGED <<messages, identity, account, counts>>
  BY DEF EndTurn
<1>4. Placed'
  BY <1>2 DEF Placed, Compacting
<1>5. CASE log' = log \o Payloads("aborted") /\ persisted' = Len(messages)
  <2>1. /\ log' \in Seq(Records)
        /\ Projected(log') \in Seq(Conversation) /\ Numbered(Projected(log'), Entries')
        /\ Named(log') \subseteq Named(log) \cup {identity}
        /\ Bare(Projected(log')) = messages
    BY <1>1, <1>3, <1>5, LogRecorded
  <2>2. Typed'
    BY <1>1, <1>2, <1>3, <1>5, <2>1 DEF Typed
  <2>3. Rebuilt'
    BY <1>1, <1>3, <1>5, <2>1 DEF Rebuilt
  <2>4. Named(log') \subseteq {identity}
    BY <1>1, <1>3, <2>1 DEF Loyal
  <2>5. Loyal'
    BY <1>2, <1>3, <2>4 DEF Loyal, Looping
  <2> QED
    BY <1>4, <2>2, <2>3, <2>5 DEF Good
<1>6. CASE log' = log /\ persisted' = persisted
  <2>1. Typed' /\ Rebuilt'
    BY <1>1, <1>2, <1>3, <1>6, QuietRebuilt DEF Quiet, Typed
  <2>2. Loyal'
    BY <1>1, <1>2, <1>3, <1>6 DEF Loyal, Looping
  <2> QED
    BY <1>4, <2>1, <2>2 DEF Good
<1> QED
  BY <1>5, <1>6 DEF EndTurn

LEMMA CrashKeeps ==
  ASSUME Good, Crash
  PROVE  /\ Good' /\ turn'.at = "down" /\ counts'.failed = counts.failed /\ counts'.calls = counts.calls
         /\ \E m \in persisted .. Len(messages) : Bare(Projected(log')) = SubSeq(messages, 1, m)
<1>1. /\ Typed /\ Placed /\ Loyal /\ Rebuilt /\ turn \in Turns
      /\ messages \in Seq(Msgs) /\ log \in Seq(Records) /\ persisted \in 0 .. Len(messages)
      /\ Len(messages) \in Nat
  BY DEF Good, Typed
<1>2. turn' \in Turns /\ turn'.at = "down" /\ turn'.yields = << >>
  <2>1. "down" \in Places /\ 0 \in Nat
    BY Names
  <2> QED
    BY <2>1, RestingTypes DEF Crash
<1>3. /\ turn.at # "down" /\ messages' = << >> /\ persisted' = 0 /\ identity' = NoAccount
      /\ UNCHANGED <<running, account>> /\ counts' \in Counts
      /\ counts'.failed = counts.failed /\ counts'.calls = counts.calls
  BY <1>1, CountsTypes DEF Crash, Typed
<1>4. /\ log' \in Seq(Records)
      /\ Projected(log') \in Seq(Conversation) /\ Numbered(Projected(log'), Entries')
      /\ Named(log') \subseteq Named(log) \cup {identity}
      /\ \E m \in persisted .. Len(messages) : Bare(Projected(log')) = SubSeq(messages, 1, m)
  <2>1. CASE turn.yields = << >>
    <3>1. \A n \in 0 .. Len(<< >>) : log \o SubSeq(<< >>, 1, n) = log
      <4>1. \A n \in 0 .. Len(<< >>) : SubSeq(<< >>, 1, n) = << >>
        OBVIOUS
      <4> QED
        BY <1>1, <4>1, ConcatEmptySeq
    <3>2. log' = log
      BY <2>1, <3>1 DEF Crash
    <3>3. Entries' = Entries
      BY <3>2 DEF Entries, OfType
    <3>4. persisted \in persisted .. Len(messages)
      BY <1>1
    <3>5. /\ Projected(log) \in Seq(Conversation) /\ Numbered(Projected(log), Entries)
          /\ Bare(Projected(log)) = SubSeq(messages, 1, persisted)
      BY <1>1, <1>3 DEF Rebuilt
    <3> QED
      BY <1>1, <3>2, <3>3, <3>4, <3>5
  <2>2. CASE turn.yields # << >>
    <3>1. PICK y : \E n \in 0 .. Len(Payloads(y)) : log' = log \o SubSeq(Payloads(y), 1, n)
      BY <2>2 DEF Crash
    <3>2. PICK n \in 0 .. Len(Payloads(y)) : log' = log \o SubSeq(Payloads(y), 1, n)
      BY <3>1
    <3> QED
      BY <1>1, <1>3, <3>2, LogWritten
  <2> QED
    BY <2>1, <2>2
<1>5. Typed'
  <2>1. << >> \in Seq(Msgs) /\ 0 \in 0 .. Len(<< >>)
    OBVIOUS
  <2> QED
    BY <1>1, <1>2, <1>3, <1>4, <2>1 DEF Typed
<1>6. Placed'
  BY <1>2, <1>3 DEF Placed, Compacting
<1>7. Rebuilt'
  BY <1>2, <1>4 DEF Rebuilt
<1>8. Loyal'
  <2>1. Named(log') \subseteq {identity}
    BY <1>1, <1>3, <1>4 DEF Loyal
  <2> QED
    BY <1>2, <2>1 DEF Loyal, Looping
<1> QED
  BY <1>2, <1>3, <1>4, <1>5, <1>6, <1>7, <1>8 DEF Good

\* A change of the history is no entry.
LEMMA ChangeLogged ==
  ASSUME log \in Seq(Records), NEW r \in Changes, log' = Append(log, r)
  PROVE  /\ log' \in Seq(Records) /\ Named(log') = Named(log) /\ Entries' = Entries
         /\ Projected(log') = Project(Projected(log), r)
<1>1. r \in Records /\ r.type \notin {"conversation", "identity"}
  BY DEF Records, Changes
<1>2. <<r>> \in Seq(Records) /\ log' = log \o <<r>>
  <2>1. <<r>> \in Seq(Records)
    BY <1>1
  <2> QED
    BY <1>1, <2>1, ConcatShort
<1>3. PICK s : s = <<r>>
  OBVIOUS
<1>4. DOMAIN s = {1} /\ s[1] = r
  BY <1>3
<1>5. Kind(s, "conversation") = {} /\ Kind(s, "identity") = {}
  BY <1>1, <1>4 DEF Kind
<1>6. Named(s) = {}
  BY <1>5 DEF Named
<1>7. Named(log') = Named(log) /\ Recorded(log') = Recorded(log)
  <2>1. Named(log \o s) = Named(log) \cup Named(s)
    <3>1. log \in Seq(Records) /\ s \in Seq(Records)
      BY <1>2, <1>3
    <3> QED
      BY <3>1, NamedJoined
  <2>2. Recorded(log \o s) = Recorded(log)
    BY <1>2, <1>3, <1>5, CountJoined
  <2> QED
    BY <1>2, <1>3, <1>6, <2>1, <2>2
<1>8. Entries' = Recorded(log')
  BY DEF Entries, OfType, Recorded, Kind
<1>9. Entries' = Entries
  BY <1>7, <1>8, EntriesIs
<1>10. Projected(log') = Project(Projected(log), r)
  BY <1>1, ProjectedAppend
<1>11. log' \in Seq(Records)
  BY <1>1
<1> QED
  BY <1>7, <1>9, <1>10, <1>11

LEMMA PrunedItems ==
  ASSUME NEW h \in Seq(Msgs), NEW ids
  PROVE  /\ ApplyPrune(h, ids) \in Seq(Msgs) /\ Len(ApplyPrune(h, ids)) = Len(h)
         /\ DOMAIN ApplyPrune(h, ids) = 1 .. Len(h)
         /\ \A i \in 1 .. Len(h) : /\ ApplyPrune(h, ids)[i].role = h[i].role
                                   /\ ApplyPrune(h, ids)[i].ids = h[i].ids
<1>1. PICK g : g = ApplyPrune(h, ids)
  OBVIOUS
<1>2. g = [i \in 1 .. Len(h) |-> IF h[i].role = "tool" /\ h[i].ids[1] \in ids
                                 THEN [h[i] EXCEPT !.pruned = TRUE] ELSE h[i]]
  BY <1>1 DEF ApplyPrune
<1>3. \A i \in 1 .. Len(h) : h[i] \in Msgs
  OBVIOUS
<1>4. \A i \in 1 .. Len(h) : /\ g[i] \in Msgs
                             /\ g[i].role = h[i].role /\ g[i].ids = h[i].ids
  <2> TAKE i \in 1 .. Len(h)
  <2>1. PICK m \in Msgs : m = h[i]
    BY <1>3
  <2>2. g[i] = [m EXCEPT !.pruned = TRUE] \/ g[i] = m
    BY <1>2, <2>1
  <2>3. [m EXCEPT !.pruned = TRUE] \in Msgs /\ [m EXCEPT !.pruned = TRUE].role = m.role
        /\ [m EXCEPT !.pruned = TRUE].ids = m.ids
    BY DEF Msgs
  <2> QED
    BY <2>1, <2>2, <2>3
<1>5. g \in Seq(Msgs) /\ Len(g) = Len(h) /\ DOMAIN g = 1 .. Len(h)
  BY <1>2, <1>4
<1> QED
  BY <1>1, <1>4, <1>5

LEMMA PruneKeeps ==
  ASSUME Good, Prune
  PROVE  /\ Good' /\ UNCHANGED <<turn, running>> /\ turn.at = "idle"
         /\ counts'.failed = counts.failed /\ counts'.calls = counts.calls
         /\ persisted' = Len(messages') /\ \E ids : messages' = ApplyPrune(messages, ids)
<1>1. /\ Typed /\ Placed /\ Loyal /\ Rebuilt /\ turn \in Turns
      /\ messages \in Seq(Msgs) /\ log \in Seq(Records) /\ persisted = Len(messages)
      /\ Len(messages) \in Nat
  BY DEF Good, Typed, Prune
<1>2. /\ turn.at = "idle" /\ UNCHANGED <<running, persisted, identity, account, turn>>
      /\ counts' \in Counts /\ counts'.failed = counts.failed /\ counts'.calls = counts.calls
  BY <1>1, CountsTypes DEF Prune, Typed
<1>3. PICK ids : /\ ids \subseteq Nat /\ messages' = ApplyPrune(messages, ids)
                 /\ log' = Append(log, PruneRecord(ids))
  <2>1. PICK last \in Prunable :
          LET ids == {messages[i].ids[1] : i \in {j \in Prunable : j <= last}} IN
          messages' = ApplyPrune(messages, ids) /\ log' = Append(log, PruneRecord(ids))
    BY DEF Prune
  <2>2. PICK ids : ids = {messages[i].ids[1] : i \in {j \in Prunable : j <= last}}
    OBVIOUS
  <2>3. \A i \in Prunable : messages[i].ids[1] \in Nat
    <3> TAKE i \in Prunable
    <3>1. messages[i] \in Msgs /\ messages[i].role = "tool"
      BY <1>1 DEF Prunable
    <3>2. messages[i].ids \in Seq(Nat) /\ messages[i].ids # << >>
      BY <3>1 DEF Msgs
    <3> QED
      BY <3>2
  <2>4. ids \subseteq Nat
    BY <2>2, <2>3
  <2> QED
    BY <2>1, <2>2, <2>4
<1>4. PICK r \in Changes : r = PruneRecord(ids) /\ r.type = "prune" /\ r.ids = ids
  <2>1. PruneRecord(ids) \in Changes
    BY <1>3 DEF PruneRecord, Changes
  <2> QED
    BY <2>1 DEF PruneRecord
<1>5. /\ log' \in Seq(Records) /\ Named(log') = Named(log) /\ Entries' = Entries
      /\ Projected(log') = Project(Projected(log), r)
  BY <1>1, <1>3, <1>4, ChangeLogged
<1>6. PICK p, g, q : /\ p = Projected(log) /\ g = ApplyPrune(Bare(p), ids)
                     /\ q = [i \in DOMAIN p |-> [p[i] EXCEPT !.message = g[i]]]
  OBVIOUS
<1>7. p \in Seq(Conversation) /\ Numbered(p, Entries) /\ Bare(p) = messages
  <2>1. SubSeq(messages, 1, Len(messages)) = messages
    BY <1>1
  <2> QED
    BY <1>1, <1>2, <1>6, <2>1 DEF Rebuilt
<1>8. g = messages' /\ g \in Seq(Msgs) /\ Len(g) = Len(p) /\ DOMAIN g = 1 .. Len(p)
  BY <1>1, <1>3, <1>6, <1>7, BareItems, PrunedItems
<1>9. Projected(log') = q
  BY <1>4, <1>5, <1>6 DEF Project
<1>10. /\ q \in Seq(Conversation) /\ Len(q) = Len(p) /\ DOMAIN q = 1 .. Len(p)
       /\ \A i \in 1 .. Len(p) : q[i].entry = p[i].entry /\ q[i].message = g[i]
  <2>1. \A i \in 1 .. Len(p) : p[i] \in Conversation /\ g[i] \in Msgs
    BY <1>7, <1>8
  <2>2. \A i \in 1 .. Len(p) : /\ [p[i] EXCEPT !.message = g[i]] \in Conversation
                               /\ [p[i] EXCEPT !.message = g[i]].entry = p[i].entry
                               /\ [p[i] EXCEPT !.message = g[i]].message = g[i]
    BY <2>1 DEF Conversation
  <2>3. q = [i \in 1 .. Len(p) |-> [p[i] EXCEPT !.message = g[i]]] /\ Len(p) \in Nat
    BY <1>6, <1>7
  <2>4. \A i \in 1 .. Len(p) : q[i] \in Conversation /\ q[i].entry = p[i].entry /\ q[i].message = g[i]
    BY <2>2, <2>3
  <2>5. q \in Seq(Conversation) /\ Len(q) = Len(p) /\ DOMAIN q = 1 .. Len(p)
    <3>1. q \in [1 .. Len(p) -> Conversation]
      BY <2>3, <2>4, Zenon
    <3> QED
      BY <2>3, <3>1
  <2> QED
    BY <2>4, <2>5
<1>11. Bare(q) = g
  <2>1. Bare(q) \in Seq(Msgs) /\ Len(Bare(q)) = Len(q) /\ \A i \in 1 .. Len(q) : Bare(q)[i] = q[i].message
    BY <1>10, BareItems
  <2>2. \A i \in 1 .. Len(Bare(q)) : Bare(q)[i] = g[i]
    BY <1>10, <2>1
  <2> QED
    BY <1>8, <1>10, <2>1, <2>2, SeqEqual
<1>12. Numbered(q, Entries)
  <2>1. DOMAIN p = 1 .. Len(p)
    BY <1>7
  <2> QED
    BY <1>7, <1>10, <2>1 DEF Numbered
<1>13. persisted' = Len(messages') /\ messages' \in Seq(Msgs)
       /\ SubSeq(messages', 1, persisted') = messages'
  <2>1. Len(messages') = Len(messages) /\ messages' \in Seq(Msgs)
    BY <1>1, <1>3, PrunedItems
  <2>2. persisted' = Len(messages')
    BY <1>1, <1>2, <2>1
  <2> QED
    BY <2>1, <2>2
<1>14. Typed'
  BY <1>1, <1>2, <1>5, <1>13 DEF Typed
<1>15. Placed'
  BY <1>1, <1>2 DEF Placed, Compacting
<1>16. Rebuilt'
  BY <1>5, <1>8, <1>9, <1>10, <1>11, <1>12, <1>13 DEF Rebuilt
<1>17. Loyal'
  BY <1>1, <1>2, <1>5 DEF Loyal, Looping
<1> QED
  BY <1>2, <1>3, <1>13, <1>14, <1>15, <1>16, <1>17 DEF Good

LEMMA CompactKeeps ==
  ASSUME Good, Compact
  PROVE  /\ Good' /\ turn'.at = "idle" /\ turn'.yields = << >> /\ UNCHANGED counts
         /\ turn.cut \in 2 .. Len(messages) /\ IsCutMessage(messages[turn.cut])
         /\ messages' = <<Summary>> \o SubSeq(messages, turn.cut, Len(messages))
         /\ persisted' = Len(messages') /\ turn.at = "summarised"
<1>1. /\ Typed /\ Placed /\ Loyal /\ Rebuilt /\ turn \in Turns
      /\ messages \in Seq(Msgs) /\ log \in Seq(Records) /\ Len(messages) \in Nat
  BY DEF Good, Typed
<1>2. /\ turn.at = "summarised" /\ persisted = Len(messages)
      /\ turn.cut \in 2 .. Len(messages) /\ IsCutMessage(messages[turn.cut])
  BY <1>1 DEF Compact, At, Placed, Compacting
<1>3. turn' \in Turns /\ turn'.at = "idle" /\ turn'.yields = << >>
  <2>1. "idle" \in Places /\ 0 \in Nat
    BY Names
  <2> QED
    BY <2>1, RestingTypes DEF Compact
<1>4. PICK h, p, c, n, e : /\ h = messages /\ p = Projected(log) /\ c = turn.cut /\ n = Len(messages)
                           /\ e = Entries
  OBVIOUS
<1>5. h \in Seq(Msgs) /\ n \in Nat /\ c \in 2 .. n /\ e \in Nat /\ c \in Nat
  BY <1>1, <1>2, <1>4, EntriesIs, CountJoined
<1>6. p \in Seq(Conversation) /\ Numbered(p, e) /\ Bare(p) = h /\ Len(p) = n /\ DOMAIN p = 1 .. n
  <2>1. SubSeq(messages, 1, Len(messages)) = messages
    BY <1>1
  <2>2. p \in Seq(Conversation) /\ Numbered(p, e) /\ Bare(p) = h
    BY <1>1, <1>2, <1>4, <2>1 DEF Rebuilt
  <2>3. Len(p) = n
    BY <1>4, <2>2, BareItems
  <2> QED
    BY <2>2, <2>3
<1>7. FirstKept = e - n + c
  <2>1. Len(SubSeq(h, c, n)) = n - c + 1
    BY <1>4, <1>5
  <2>2. Len(Kept) = n - c + 1
    BY <1>4, <2>1 DEF Kept
  <2>3. FirstKept = e - (n - c + 1) + 1
    BY <1>4, <2>2, Zenon DEF FirstKept
  <2>4. e - (n - c + 1) + 1 = e - n + c
    BY <1>5
  <2> QED
    BY <2>3, <2>4, Zenon
<1>8. n <= e + 1 /\ \A i \in 1 .. n : p[i].entry = e - n + i \/ (i = 1 /\ p[i].entry = 0)
  BY <1>6 DEF Numbered
<1>9. {i \in DOMAIN p : p[i].entry = FirstKept} = {c}
  <2>1. c \in 1 .. n /\ p[c].entry = e - n + c
    BY <1>5, <1>8
  <2>2. ASSUME NEW i \in 1 .. n, p[i].entry = e - n + c
        PROVE  i = c
    <3>1. CASE p[i].entry = e - n + i
      BY <1>5, <2>2, <3>1
    <3>2. CASE p[i].entry = 0
      BY <1>5, <1>8, <2>2, <3>2
    <3> QED
      BY <1>8, <3>1, <3>2
  <2> QED
    BY <1>6, <1>7, <2>1, <2>2
<1>10. Min({c}) = c
  <2>1. {c} \subseteq 0 .. c /\ c \in {c}
    BY <1>5
  <2>2. Min({c}) \in {c}
    BY <1>5, <2>1, BoundedEnds
  <2> QED
    BY <2>2
<1>11. PICK r \in Changes : r = CompactionRecord(FirstKept) /\ r.type = "compaction" /\ r.firstKept = FirstKept
  <2>1. CompactionRecord(FirstKept) \in Changes
    BY <1>5, <1>7 DEF CompactionRecord, Changes
  <2> QED
    BY <2>1 DEF CompactionRecord
<1>12. /\ log' \in Seq(Records) /\ Named(log') = Named(log) /\ Entries' = Entries
       /\ Projected(log') = Project(p, r)
  <2>1. log' = Append(log, r)
    BY <1>11 DEF Compact
  <2> QED
    BY <1>1, <1>4, <2>1, ChangeLogged
<1>13. PICK s, t, u, q : /\ s = SubSeq(p, c, n) /\ t = SubSeq(h, c, n)
                         /\ u = <<ConversationRecord(0, Summary)>> /\ q = u \o s
  OBVIOUS
<1>14. Projected(log') = q
  <2>1. Project(p, r) = <<ConversationRecord(0, Summary)>> \o SubSeq(p, Min({c}), Len(p))
    BY <1>9, <1>11 DEF Project
  <2> QED
    BY <1>6, <1>10, <1>12, <1>13, <2>1
<1>15. /\ s \in Seq(Conversation) /\ Len(s) = n - c + 1
       /\ \A i \in 1 .. n - c + 1 : s[i] = p[c + i - 1] /\ c + i - 1 \in 1 .. n
  <2>1. p \in Seq(Conversation) /\ c \in 1 .. Len(p) /\ Len(p) = n
    BY <1>5, <1>6
  <2>2. /\ s \in Seq(Conversation) /\ Len(s) = n - c + 1
        /\ \A i \in 1 .. n - c + 1 : s[i] = p[c + i - 1]
    BY <1>13, <2>1, EndItems
  <2>3. \A i \in 1 .. n - c + 1 : c + i - 1 \in 1 .. n
    BY <1>5
  <2> QED
    BY <2>2, <2>3
<1>16. /\ t \in Seq(Msgs) /\ Len(t) = n - c + 1
       /\ \A i \in 1 .. n - c + 1 : t[i] = h[c + i - 1]
  <2>1. h \in Seq(Msgs) /\ c \in 1 .. Len(h) /\ Len(h) = n
    BY <1>4, <1>5
  <2> QED
    BY <1>13, <2>1, EndItems
<1>17. Bare(s) = t
  <2>1. Bare(s) \in Seq(Msgs) /\ Len(Bare(s)) = Len(s) /\ \A i \in 1 .. Len(s) : Bare(s)[i] = s[i].message
    BY <1>15, BareItems
  <2>2. \A i \in 1 .. n : h[i] = p[i].message
    BY <1>6, BareItems
  <2>3. \A i \in 1 .. Len(Bare(s)) : Bare(s)[i] = t[i]
    BY <1>15, <1>16, <2>1, <2>2
  <2> QED
    BY <1>15, <1>16, <2>1, <2>3, SeqEqual
<1>18. u \in Seq(Conversation) /\ Bare(u) = <<Summary>> /\ Len(u) = 1 /\ u[1].entry = 0
  <2>1. ConversationRecord(0, Summary) \in Conversation /\ ConversationRecord(0, Summary).entry = 0
        /\ ConversationRecord(0, Summary).message = Summary
    BY MessageTypes DEF ConversationRecord, Conversation
  <2>2. u \in Seq(Conversation) /\ Len(u) = 1 /\ u[1] = ConversationRecord(0, Summary)
    BY <1>13, <2>1
  <2>3. Bare(u) \in Seq(Msgs) /\ Len(Bare(u)) = 1 /\ Bare(u)[1] = Summary
    <3>1. Bare(u) \in Seq(Msgs) /\ Len(Bare(u)) = Len(u)
          /\ \A i \in 1 .. Len(u) : Bare(u)[i] = u[i].message
      BY <2>2, BareItems
    <3> QED
      BY <2>1, <2>2, <3>1
  <2>4. Bare(u) = <<Summary>>
    BY <2>3
  <2> QED
    BY <2>1, <2>2, <2>4
<1>19. q \in Seq(Conversation) /\ Bare(q) = <<Summary>> \o t
  <2>1. u \in Seq(Conversation) /\ s \in Seq(Conversation)
    BY <1>15, <1>18
  <2>2. u \o s \in Seq(Conversation) /\ Bare(u \o s) = Bare(u) \o Bare(s)
    BY <2>1, ConcatItems, BareJoined
  <2> QED
    BY <1>13, <1>17, <1>18, <2>2
<1>20. Numbered(q, e)
  <2>1. /\ Len(q) = n - c + 2 /\ q[1] = u[1]
        /\ \A i \in 1 .. n - c + 2 : i # 1 => i - 1 \in 1 .. n - c + 1 /\ q[i] = s[i - 1]
    <3>1. u \in Seq(Conversation) /\ s \in Seq(Conversation)
      BY <1>15, <1>18
    <3>2. /\ Len(u \o s) = Len(u) + Len(s)
          /\ \A i \in 1 .. Len(u) : (u \o s)[i] = u[i]
          /\ \A i \in 1 .. Len(u) + Len(s) :
               ~(i <= Len(u)) => i - Len(u) \in 1 .. Len(s) /\ (u \o s)[i] = s[i - Len(u)]
      BY <3>1, ConcatItems
    <3>3. Len(u) = 1 /\ Len(s) = n - c + 1 /\ q = u \o s /\ 1 + (n - c + 1) = n - c + 2
      BY <1>5, <1>13, <1>15, <1>18
    <3> QED
      BY <1>5, <3>2, <3>3
  <2>2. DOMAIN q = 1 .. n - c + 2
    BY <1>19, <2>1
  <2>3. ASSUME NEW i \in 1 .. n - c + 2
        PROVE  q[i].entry = e - (n - c + 2) + i \/ (i = 1 /\ q[i].entry = 0)
    <3>1. CASE i = 1
      BY <1>18, <2>1, <3>1
    <3>2. CASE i # 1
      <4>1. i - 1 \in 1 .. n - c + 1 /\ q[i] = s[i - 1]
        BY <2>1, <3>2
      <4>2. s[i - 1] = p[c + (i - 1) - 1] /\ c + (i - 1) - 1 \in 1 .. n /\ c + (i - 1) - 1 # 1
        <5>1. s[i - 1] = p[c + (i - 1) - 1] /\ c + (i - 1) - 1 \in 1 .. n
          BY <1>15, <4>1
        <5>2. c + (i - 1) - 1 # 1
          BY <1>5, <3>2
        <5> QED
          BY <5>1, <5>2
      <4>3. p[c + (i - 1) - 1].entry = e - n + (c + (i - 1) - 1)
        BY <1>8, <4>2
      <4>4. e - n + (c + (i - 1) - 1) = e - (n - c + 2) + i
        BY <1>5
      <4> QED
        BY <4>1, <4>2, <4>3, <4>4
    <3> QED
      BY <3>1, <3>2
  <2>4. n - c + 2 <= e + 1
    BY <1>5, <1>8
  <2> QED
    BY <2>1, <2>2, <2>3, <2>4 DEF Numbered
<1>21. messages' = <<Summary>> \o t /\ persisted' = Len(messages')
       /\ UNCHANGED <<identity, account, counts>> /\ running' = "none"
  BY <1>4, <1>13 DEF Compact, Kept
<1>22. messages' \in Seq(Msgs) /\ Len(messages') \in Nat /\ SubSeq(messages', 1, Len(messages')) = messages'
  <2>1. messages' \in Seq(Msgs)
    BY <1>19, <1>21, BareItems
  <2> QED
    BY <2>1
<1>23. Typed'
  BY <1>1, <1>3, <1>12, <1>21, <1>22 DEF Typed
<1>24. Placed'
  BY <1>3, <1>21 DEF Placed, Compacting
<1>25. Rebuilt'
  BY <1>4, <1>12, <1>14, <1>19, <1>20, <1>21, <1>22 DEF Rebuilt
<1>26. Loyal'
  BY <1>1, <1>2, <1>3, <1>12, <1>21 DEF Loyal, Looping
<1> QED
  BY <1>2, <1>3, <1>4, <1>13, <1>21, <1>23, <1>24, <1>25, <1>26 DEF Good

-----------------------------------------------------------------------------
(* What a restart repairs.                                                 *)

\* There is an n-th of some positions, and that of an interval is known.
LEMMA NthIs ==
  ASSUME NEW m \in Nat, NEW S, S \subseteq 1 .. m, NEW n \in 1 .. Cardinality(S)
  PROVE  Nth(S, n) \in S
<1> DEFINE upto(k) == {j \in S : j <= k}
           T == {x \in Nat : x <= Cardinality(S) =>
                   \E k \in Nat : (k \in S \/ (k = 0 /\ x = 0)) /\ Cardinality(upto(k)) = x}
<1>1. IsFiniteSet(S) /\ Cardinality(S) \in Nat
  <2>1. IsFiniteSet(1 .. m)
    BY FS_Interval
  <2> QED
    BY <2>1, FS_Subset, FS_CardinalityType
<1>6. \A j \in S : j \in Nat /\ j > 0
  OBVIOUS
<1>2. 0 \in T
  <2>1. upto(0) = {}
    <3>1. \A j \in S : ~(j <= 0)
      BY <1>6
    <3> QED
      BY <3>1, Zenon
  <2>2. Cardinality(upto(0)) = 0
    <3>1. Cardinality({}) = 0
      BY FS_EmptySet
    <3> HIDE DEF upto
    <3> QED
      BY <2>1, <3>1
  <2> HIDE DEF upto
  <2> QED
    BY <2>2
<1>3. ASSUME NEW x \in Nat, x \in T
      PROVE  x + 1 \in T
  <2> SUFFICES ASSUME x + 1 <= Cardinality(S)
               PROVE  \E k \in Nat : k \in S /\ Cardinality(upto(k)) = x + 1
    OBVIOUS
  <2>1. PICK k \in Nat : Cardinality(upto(k)) = x
    BY <1>1, <1>3
  <2>2. PICK R : R = {j \in S : ~(j <= k)}
    OBVIOUS
  <2>3. R # {}
    <3>1. R = {} => upto(k) = S
      BY <2>2
    <3> HIDE DEF upto, T
    <3>2. x # Cardinality(S)
      BY <1>1
    <3> QED
      BY <2>1, <3>1, <3>2
  <2>4. R \subseteq Nat
    <3>1. S \subseteq Nat
      BY <1>6, Zenon
    <3>2. R \subseteq S
      BY <2>2, Zenon
    <3> QED
      BY <3>1, <3>2
  <2>5. PICK r \in R : \A j \in R : r <= j
    BY <2>3, <2>4, LeastNatural
  <2>6. upto(r) = upto(k) \cup {r} /\ r \notin upto(k) /\ r \in S /\ r \in Nat
    <3>1. r \in S /\ r \in Nat /\ ~(r <= k)
      BY <1>6, <2>2, <2>5
    <3>2. \A j \in S : (j <= r) <=> (j <= k \/ j = r)
      <4> TAKE j \in S
      <4>1. j \in Nat /\ (~(j <= k) => r <= j)
        BY <1>6, <2>2, <2>5
      <4> QED
        BY <3>1, <4>1
    <3> QED
      BY <3>1, <3>2
  <2>7. IsFiniteSet(upto(k))
    <3>1. upto(k) \subseteq S
      OBVIOUS
    <3> QED
      BY <1>1, <3>1, FS_Subset
  <2> HIDE DEF upto
  <2>8. Cardinality(upto(r)) = x + 1
    BY <2>1, <2>6, <2>7, FS_AddElement
  <2> QED
    BY <2>6, <2>8
<1>4. n \in T
  <2> HIDE DEF T
  <2>1. n \in Nat
    BY <1>1
  <2> QED
    BY <1>2, <1>3, <2>1, SetInduction
<1>5. \E k \in S : Cardinality({j \in S : j <= k}) = n
  BY <1>1, <1>4
<1> QED
  BY <1>5 DEF Nth

LEMMA NthOfInterval ==
  ASSUME NEW lo \in Nat, NEW hi \in Nat, 0 < lo, NEW n \in 1 .. Cardinality(lo .. hi)
  PROVE  Nth(lo .. hi, n) = lo + n - 1
<1>1. PICK k : k = Nth(lo .. hi, n)
  OBVIOUS
<1>2. k \in lo .. hi
  <2>1. lo .. hi \subseteq 1 .. hi
    OBVIOUS
  <2> QED
    BY <1>1, <2>1, NthIs
<1>3. Cardinality({j \in lo .. hi : j <= k}) = n
  <2>1. \E i \in lo .. hi : Cardinality({j \in lo .. hi : j <= i}) = n
    <3>1. PICK i : i = lo + n - 1
      OBVIOUS
    <3>2. Cardinality(lo .. hi) = IF lo > hi THEN 0 ELSE hi - lo + 1
      BY FS_Interval
    <3>3. i \in lo .. hi /\ i \in Int /\ lo \in Int
      BY <3>1, <3>2
    <3>4. {j \in lo .. hi : j <= i} = lo .. i
      BY <3>3
    <3>5. Cardinality(lo .. i) = IF lo > i THEN 0 ELSE i - lo + 1
      BY <3>3, FS_Interval
    <3>6. i - lo + 1 = n /\ ~(lo > i)
      BY <3>1, <3>3
    <3> QED
      BY <3>3, <3>4, <3>5, <3>6
  <2> QED
    BY <1>1, <2>1 DEF Nth
<1>4. {j \in lo .. hi : j <= k} = lo .. k /\ k \in Int /\ lo \in Int
  BY <1>2
<1>5. Cardinality(lo .. k) = IF lo > k THEN 0 ELSE k - lo + 1
  BY <1>4, FS_Interval
<1>6. n \in Nat /\ n > 0 /\ k - lo + 1 = n
  <2>1. Cardinality(lo .. hi) \in Nat
    BY FS_Interval, FS_CardinalityType
  <2>2. n \in Nat /\ n > 0 /\ ~(lo > k)
    BY <1>2, <2>1
  <2> QED
    BY <1>3, <1>4, <1>5, <2>2
<1>7. k \in Nat
  BY <1>2
<1> QED
  BY <1>1, <1>6, <1>7

LEMMA OutstandingTypes ==
  ASSUME NEW h \in Seq(Msgs)
  PROVE  Outstanding(h) \in Seq(Nat)
<1>1. PICK assistants : assistants = {i \in DOMAIN h : h[i].role = "assistant"}
  OBVIOUS
<1>2. PICK answered : answered = UNION {ToSet(h[i].ids) : i \in {j \in DOMAIN h : h[j].role = "tool"}}
  OBVIOUS
<1>3. CASE assistants = {}
  <2>1. Outstanding(h) = << >>
    BY <1>1, <1>3 DEF Outstanding
  <2> QED
    BY <2>1
<1>4. CASE assistants # {}
  <2>1. PICK calls : calls = h[Max(assistants)].ids
    OBVIOUS
  <2>2. PICK open : open = {k \in DOMAIN calls : calls[k] \notin answered}
    OBVIOUS
  <2>3. Outstanding(h) = [n \in 1 .. Cardinality(open) |-> calls[Nth(open, n)]]
    BY <1>1, <1>2, <1>4, <2>1, <2>2 DEF Outstanding
  <2>4. calls \in Seq(Nat)
    <3>1. assistants \subseteq 0 .. Len(h) /\ Len(h) \in Nat
      BY <1>1
    <3>2. Max(assistants) \in assistants
      BY <1>4, <3>1, BoundedEnds
    <3>3. h[Max(assistants)] \in Msgs
      BY <1>1, <3>2
    <3> QED
      BY <2>1, <3>3 DEF Msgs
  <2>5. open \subseteq 1 .. Len(calls) /\ Len(calls) \in Nat
    BY <2>2, <2>4
  <2>6. Cardinality(open) \in Nat
    <3>1. IsFiniteSet(1 .. Len(calls))
      BY <2>5, FS_Interval
    <3> QED
      BY <2>5, <3>1, FS_Subset, FS_CardinalityType
  <2>7. \A n \in 1 .. Cardinality(open) : calls[Nth(open, n)] \in Nat
    <3> TAKE n \in 1 .. Cardinality(open)
    <3>1. Nth(open, n) \in open
      BY <2>5, NthIs
    <3>2. Nth(open, n) \in 1 .. Len(calls)
      BY <2>5, <3>1, Zenon
    <3> QED
      BY <2>4, <3>2
  <2>8. Outstanding(h) \in [1 .. Cardinality(open) -> Nat]
    BY <2>3, <2>7, Zenon
  <2> QED
    BY <2>6, <2>8
<1> QED
  BY <1>3, <1>4

LEMMA RepairTypes ==
  ASSUME NEW h \in Seq(Msgs)
  PROVE  Repair(h) \in Seq(Msgs)
<1>1. PICK r : r = Results(Outstanding(h))
  OBVIOUS
<1>2. r \in Seq(Msgs)
  BY <1>1, OutstandingTypes, ResultsTypes
<1>3. Append(r, Marker) \in Seq(Msgs) /\ << >> \in Seq(Msgs)
  BY <1>2, MessageTypes
<1> QED
  BY <1>1, <1>3 DEF Repair

\* The entries of a repair, or of its beginning.
LEMMA RepairedIs ==
  ASSUME log \in Seq(Records), NEW r \in Seq(Msgs), NEW n \in 0 .. Len(r)
  PROVE  /\ Len(Repaired(r)) = Len(r) /\ SubSeq(Repaired(r), 1, Len(r)) = Repaired(r)
         /\ SubSeq(Repaired(r), 1, n) \in Seq(Conversation)
         /\ \A i \in DOMAIN SubSeq(Repaired(r), 1, n) :
              SubSeq(Repaired(r), 1, n)[i].entry = Recorded(log) + i
         /\ Bare(SubSeq(Repaired(r), 1, n)) = SubSeq(r, 1, n)
<1>1. PICK c, b, s, t : /\ c = Entries /\ b = Repaired(r) /\ s = SubSeq(b, 1, n) /\ t = SubSeq(r, 1, n)
  OBVIOUS
<1>2. c \in Nat /\ c = Recorded(log) /\ Len(r) \in Nat /\ n \in Nat /\ n <= Len(r)
  BY <1>1, EntriesIs, CountJoined
<1>3. b = [i \in 1 .. Len(r) |-> ConversationRecord(c + i, r[i])]
  BY <1>1 DEF Repaired
<1>4. \A i \in 1 .. Len(r) : ConversationRecord(c + i, r[i]) \in Conversation
  <2>1. \A i \in 1 .. Len(r) : r[i] \in Msgs /\ c + i \in Nat
    BY <1>2
  <2> QED
    BY <2>1 DEF ConversationRecord, Conversation
<1>5. b \in Seq(Conversation) /\ Len(b) = Len(r)
  BY <1>2, <1>3, <1>4
<1>6. \A i \in 1 .. Len(r) : b[i].entry = c + i /\ b[i].message = r[i]
  BY <1>3 DEF ConversationRecord
<1>7. s \in Seq(Conversation) /\ Len(s) = n /\ DOMAIN s = 1 .. n /\ \A i \in 1 .. n : s[i] = b[i]
  BY <1>1, <1>2, <1>5
<1>8. \A i \in 1 .. n : i \in 1 .. Len(r) /\ s[i].entry = c + i /\ s[i].message = r[i]
  <2>1. \A i \in 1 .. n : i \in 1 .. Len(r)
    BY <1>2
  <2> QED
    BY <1>6, <1>7, <2>1
<1>9. t \in Seq(Msgs) /\ Len(t) = n /\ \A i \in 1 .. n : t[i] = r[i]
  BY <1>1, <1>2
<1>10. Bare(s) \in Seq(Msgs) /\ Len(Bare(s)) = n /\ \A i \in 1 .. n : Bare(s)[i] = s[i].message
  BY <1>7, BareItems
<1>11. Bare(s) = t
  <2>1. \A i \in 1 .. Len(t) : Bare(s)[i] = t[i]
    BY <1>8, <1>9, <1>10
  <2> QED
    BY <1>9, <1>10, <2>1, SeqEqual
<1>12. SubSeq(b, 1, Len(b)) = b
  BY <1>5
<1> QED
  BY <1>1, <1>2, <1>5, <1>7, <1>8, <1>11, <1>12

LEMMA LogRepaired ==
  ASSUME Typed, Rebuilt, NEW r \in Seq(Msgs), NEW n \in 0 .. Len(r),
         log' = log \o SubSeq(Repaired(r), 1, n)
  PROVE  /\ log' \in Seq(Records) /\ Named(log') = Named(log)
         /\ Projected(log') \in Seq(Conversation) /\ Numbered(Projected(log'), Entries')
         /\ Bare(Projected(log')) = Replay(log) \o SubSeq(r, 1, n)
         /\ Replay(log) \in Seq(Msgs)
<1>1. log \in Seq(Records) /\ Projected(log) \in Seq(Conversation)
      /\ Numbered(Projected(log), Recorded(log))
  BY EntriesIs DEF Typed, Rebuilt
<1>2. PICK b : b = SubSeq(Repaired(r), 1, n)
  OBVIOUS
<1>3. /\ b \in Seq(Conversation) /\ \A i \in DOMAIN b : b[i].entry = Recorded(log) + i
      /\ Bare(b) = SubSeq(r, 1, n)
  BY <1>1, <1>2, RepairedIs
<1>4. << >> \in Seq(Plain) /\ << >> \o b = b
  BY <1>3, ConcatEmptySeq
<1>5. /\ log \o (<< >> \o b) \in Seq(Records)
      /\ Projected(log \o (<< >> \o b)) \in Seq(Conversation)
      /\ Numbered(Projected(log \o (<< >> \o b)), Recorded(log \o (<< >> \o b)))
      /\ Bare(Projected(log \o (<< >> \o b))) = Bare(Projected(log)) \o Bare(b)
      /\ Named(log \o (<< >> \o b)) = Named(log) \cup Named(<< >>)
  BY <1>1, <1>3, <1>4, LogGrows
<1>6. log \o (<< >> \o b) = log'
  BY <1>2, <1>4
<1>7. Entries' = Recorded(log')
  BY DEF Entries, OfType, Recorded, Kind
<1>8. Named(log') = Named(log)
  BY <1>5, <1>6, ShortNamed
<1>9. Replay(log) \in Seq(Msgs) /\ Replay(log) = Bare(Projected(log))
  BY <1>1, BareItems DEF Replay
<1> QED
  BY <1>3, <1>5, <1>6, <1>7, <1>8, <1>9

LEMMA RecoverFailsKeeps ==
  ASSUME Good, RecoverFails
  PROVE  /\ Good' /\ UNCHANGED <<turn, running>> /\ turn.at = "down"
         /\ counts'.failed = counts.failed /\ counts'.calls = counts.calls
         /\ Replay(log) \in Seq(Msgs) /\ Repair(Replay(log)) \in Seq(Msgs)
         /\ \E n \in 0 .. Len(Repair(Replay(log))) :
              Bare(Projected(log')) = Replay(log) \o SubSeq(Repair(Replay(log)), 1, n)
<1>1. /\ Typed /\ Placed /\ Loyal /\ Rebuilt /\ log \in Seq(Records)
  BY DEF Good, Typed
<1>2. Replay(log) \in Seq(Msgs)
  BY <1>1, BareItems DEF Rebuilt, Replay
<1>3. PICK r : r = Repair(Replay(log))
  OBVIOUS
<1>4. r \in Seq(Msgs) /\ 0 \in 0 .. Len(r)
  BY <1>2, <1>3, RepairTypes
<1>5. PICK n \in 0 .. Len(r) : log' = log \o SubSeq(Repaired(r), 1, n)
  <2>1. Len(Repaired(r)) = Len(r)
    BY <1>1, <1>4, RepairedIs
  <2> QED
    BY <1>3, <2>1 DEF RecoverFails
<1>6. /\ log' \in Seq(Records) /\ Named(log') = Named(log)
      /\ Projected(log') \in Seq(Conversation) /\ Numbered(Projected(log'), Entries')
      /\ Bare(Projected(log')) = Replay(log) \o SubSeq(r, 1, n)
  BY <1>1, <1>4, <1>5, LogRepaired
<1>7. /\ UNCHANGED <<running, messages, persisted, identity, account, turn>> /\ turn.at = "down"
      /\ counts' \in Counts /\ counts'.failed = counts.failed /\ counts'.calls = counts.calls
  BY <1>1, CountsTypes DEF RecoverFails, Typed
<1>8. Typed' /\ Placed'
  BY <1>1, <1>6, <1>7 DEF Typed, Placed
<1>9. Rebuilt'
  BY <1>6, <1>7 DEF Rebuilt
<1>10. Loyal'
  BY <1>1, <1>6, <1>7 DEF Loyal
<1> QED
  BY <1>2, <1>3, <1>4, <1>6, <1>7, <1>8, <1>9, <1>10 DEF Good

LEMMA RecoverKeeps ==
  ASSUME Good, Recover
  PROVE  /\ Good' /\ turn'.at = "idle" /\ turn'.yields = << >> /\ turn.at = "down" /\ UNCHANGED counts
         /\ Replay(log) \in Seq(Msgs) /\ Repair(Replay(log)) \in Seq(Msgs)
         /\ messages' = Replay(log) \o Repair(Replay(log)) /\ persisted' = Len(messages')
<1>1. /\ Typed /\ Placed /\ Loyal /\ Rebuilt /\ log \in Seq(Records)
  BY DEF Good, Typed
<1>2. Replay(log) \in Seq(Msgs)
  BY <1>1, BareItems DEF Rebuilt, Replay
<1>3. PICK r : r = Repair(Replay(log))
  OBVIOUS
<1>4. r \in Seq(Msgs) /\ Len(r) \in 0 .. Len(r) /\ SubSeq(r, 1, Len(r)) = r
  BY <1>2, <1>3, RepairTypes
<1>5. log' = log \o SubSeq(Repaired(r), 1, Len(r))
  <2>1. SubSeq(Repaired(r), 1, Len(r)) = Repaired(r)
    BY <1>1, <1>4, RepairedIs
  <2> QED
    BY <1>3, <2>1 DEF Recover
<1>6. /\ log' \in Seq(Records) /\ Named(log') = Named(log)
      /\ Projected(log') \in Seq(Conversation) /\ Numbered(Projected(log'), Entries')
      /\ Bare(Projected(log')) = Replay(log) \o SubSeq(r, 1, Len(r))
  BY <1>1, <1>4, <1>5, LogRepaired
<1>7. /\ messages' = Replay(log) \o r /\ persisted' = Len(messages') /\ identity' = Stored
      /\ running' = "none" /\ UNCHANGED <<account, counts>> /\ turn.at = "down"
  BY <1>3 DEF Recover
<1>8. messages' \in Seq(Msgs) /\ Len(messages') \in Nat /\ SubSeq(messages', 1, Len(messages')) = messages'
  <2>1. messages' \in Seq(Msgs)
    BY <1>2, <1>4, <1>7, ConcatItems
  <2> QED
    BY <2>1
<1>9. turn' \in Turns /\ turn'.at = "idle" /\ turn'.yields = << >>
  <2>1. "idle" \in Places /\ 0 \in Nat
    BY Names
  <2> QED
    BY <2>1, RestingTypes DEF Recover
<1>10. /\ Stored \in Accounts \cup {NoAccount} /\ Named(log) \subseteq {Stored}
  <2>1. \A a, b \in Named(log) : a = b
    BY <1>1 DEF Loyal
  <2> QED
    BY <1>1, <2>1, StoredIs
<1>11. Typed'
  BY <1>1, <1>6, <1>7, <1>8, <1>9, <1>10 DEF Typed
<1>12. Placed'
  BY <1>7, <1>9 DEF Placed, Compacting
<1>13. Rebuilt'
  BY <1>4, <1>6, <1>7, <1>8 DEF Rebuilt
<1>14. Loyal'
  BY <1>6, <1>7, <1>9, <1>10 DEF Loyal, Looping
<1> QED
  BY <1>2, <1>3, <1>4, <1>7, <1>9, <1>11, <1>12, <1>13, <1>14 DEF Good

-----------------------------------------------------------------------------
(* Types, places, accounts and the log: every step keeps them.             *)

LEMMA StutterKeeps ==
  ASSUME Good, UNCHANGED vars
  PROVE  Good'
<1>1. /\ UNCHANGED <<running, account, turn, counts>> /\ Quiet
      /\ Typed /\ Placed /\ Loyal /\ Rebuilt
  BY DEF Good, vars, Quiet
<1>2. Typed' /\ Placed' /\ Loyal'
  BY <1>1 DEF Typed, Placed, Loyal, Quiet
<1>3. Entries' = Entries
  BY <1>1 DEF Entries, OfType, Quiet
<1>4. Rebuilt'
  BY <1>1, <1>3 DEF Rebuilt, Quiet
<1> QED
  BY <1>2, <1>4 DEF Good

LEMMA GoodKept ==
  ASSUME Good, [Next]_vars
  PROVE  Good'
<1>1. CASE \/ SendAborted \/ SendRefused \/ Attempt \/ AttemptAborted \/ StreamText \/ StreamCall
           \/ StreamStopped \/ StreamRetried \/ Wake \/ OutcomeDone \/ Stopped \/ RunTool \/ NextStep
           \/ Summarise \/ SummaryRetried \/ SummaryStopped \/ SummaryDone
  BY <1>1, QuietMoves
<1>2. CASE Submit \/ RecordFails \/ BeginCompaction \/ GiveUp \/ Abort \/ SwitchAccount
  BY <1>2, OtherQuiet
<1>3. CASE Send
  BY <1>3, SendKeeps
<1>4. CASE StreamDone \/ StreamAborted \/ OutcomeAborted \/ ToolsAborted \/ ToolReturns \/ Mark
  BY <1>4, GrowingKeeps
<1>5. CASE Record
  BY <1>5, RecordKeeps
<1>6. CASE EndTurn
  BY <1>6, EndTurnKeeps
<1>7. CASE Prune
  BY <1>7, PruneKeeps
<1>8. CASE Compact
  BY <1>8, CompactKeeps
<1>9. CASE Crash
  BY <1>9, CrashKeeps
<1>10. CASE RecoverFails
  BY <1>10, RecoverFailsKeeps
<1>11. CASE Recover
  BY <1>11, RecoverKeeps
<1>12. CASE UNCHANGED vars
  BY <1>12, StutterKeeps
<1> QED
  BY <1>1, <1>2, <1>3, <1>4, <1>5, <1>6, <1>7, <1>8, <1>9, <1>10, <1>11, <1>12, Zenon DEF Next

LEMMA GoodAtFirst ==
  ASSUME Init
  PROVE  Good
<1>1. /\ log = << >> /\ running = "none" /\ messages = << >> /\ persisted = 0
      /\ identity = NoAccount /\ account \in Accounts /\ turn = Resting
  BY DEF Init
<1>2. counts \in Counts
  BY DEF Init, Counts
<1>3. turn \in Turns /\ turn.at = "idle" /\ turn.yields = << >>
  <2>1. "idle" \in Places /\ 0 \in Nat
    BY Names
  <2> QED
    BY <1>1, <2>1, RestingTypes
<1>4. Typed
  <2>1. << >> \in Seq(Records) /\ << >> \in Seq(Msgs) /\ 0 \in 0 .. Len(<< >>)
    OBVIOUS
  <2> QED
    BY <1>1, <1>2, <1>3, <2>1 DEF Typed
<1>5. Placed
  BY <1>1, <1>3 DEF Placed, Compacting
<1>6. Loyal
  BY <1>1, <1>3, ShortNamed DEF Loyal, Looping
<1>7. Rebuilt
  <2>1. Projected(log) = << >>
    BY <1>1, ProjectedEmpty
  <2>2. << >> \in Seq(Conversation)
    OBVIOUS
  <2>3. Entries = 0
    <3>1. OfType("conversation") = {}
      BY <1>1 DEF OfType
    <3> QED
      BY <3>1, FS_EmptySet DEF Entries
  <2>4. Numbered(<< >>, 0)
    <3>1. Len(<< >>) = 0 /\ DOMAIN << >> = 1 .. 0
      OBVIOUS
    <3> QED
      BY <3>1 DEF Numbered
  <2>5. Bare(<< >>) = << >>
    <3>1. Bare(<< >>) \in Seq(Msgs) /\ Len(Bare(<< >>)) = Len(<< >>)
      BY <2>2, BareItems
    <3> QED
      BY <3>1
  <2>6. SubSeq(messages, 1, persisted) = << >>
    BY <1>1
  <2> QED
    BY <2>1, <2>2, <2>3, <2>4, <2>5, <2>6 DEF Rebuilt
<1> QED
  BY <1>4, <1>5, <1>6, <1>7 DEF Good

\* A session stays with the account it began with: the agent's requests and the summaries are made
\* with the credentials of the account the log names, and the log never names two (resolveAuth and
\* the identity records of #appendPayloads).
THEOREM OneAccountHolds == Spec => []OneAccount
<1>1. Init => Good
  BY GoodAtFirst
<1>2. Good /\ [Next]_vars => Good'
  BY GoodKept
<1>3. Good => OneAccount
  <2> SUFFICES ASSUME Good
               PROVE  OneAccount
    OBVIOUS
  <2>1. Loyal /\ log \in Seq(Records)
    BY DEF Good, Typed
  <2>2. /\ Named(log) = {} => Stored = NoAccount
        /\ Named(log) # {} => Stored \in Named(log)
        /\ Named(log) \subseteq Accounts /\ NoAccount \notin Accounts
    BY <2>1, StoredIs, HarnessAssumption
  <2>3. turn.at = "stream" => turn.auth = Stored
    <3>1. turn.at = "stream" => Named(log) = {identity} /\ turn.auth = identity
      BY <2>1 DEF Loyal, Looping
    <3> QED
      BY <2>2, <3>1
  <2>4. turn.at = "summarising" => Stored \in {NoAccount, turn.auth}
    <3>1. turn.at = "summarising" =>
            Named(log) \subseteq {identity} /\ identity \in {NoAccount, turn.auth}
      BY <2>1 DEF Loyal
    <3> QED
      BY <2>2, <3>1
  <2>5. Cardinality(Named(log)) <= 1
    <3>1. CASE Named(log) = {}
      <4>1. Cardinality({}) = 0
        BY FS_EmptySet
      <4> QED
        BY <3>1, <4>1
    <3>2. CASE Named(log) # {}
      <4>1. PICK a : Named(log) = {a}
        BY <2>1, <3>2 DEF Loyal
      <4>2. Cardinality({a}) = 1
        BY FS_Singleton
      <4> QED
        BY <4>1, <4>2
    <3> QED
      BY <3>1, <3>2
  <2> QED
    BY <2>3, <2>4, <2>5 DEF OneAccount, Named, Kind
<1> QED
  BY <1>1, <1>2, <1>3, PTL DEF Spec

\* The history in memory, as far as it is recorded, is what projectMessages makes of the log, through
\* every compaction, prune, failed append, crash and repair.
THEOREM ReplayAgreesHolds == Spec => []ReplayAgrees
<1>1. Init => Good
  BY GoodAtFirst
<1>2. Good /\ [Next]_vars => Good'
  BY GoodKept
<1>3. Good => ReplayAgrees
  BY DEF Good, Rebuilt, ReplayAgrees, Replay
<1> QED
  BY <1>1, <1>2, <1>3, PTL DEF Spec

-----------------------------------------------------------------------------
(* Histories in which the results follow their calls.                      *)

LEMMA HistoryTypes ==
  ASSUME NEW h \in Seq(Msgs)
  PROVE  /\ Len(h) \in Nat /\ DOMAIN h = 1 .. Len(h)
         /\ \A i \in 1 .. Len(h) :
              /\ h[i] \in Msgs /\ h[i].ids \in Seq(Nat) /\ Len(h[i].ids) \in Nat
              /\ DOMAIN h[i].ids = 1 .. Len(h[i].ids)
              /\ \A k \in 1 .. Len(h[i].ids) : h[i].ids[k] \in Nat
<1>1. Len(h) \in Nat /\ DOMAIN h = 1 .. Len(h) /\ \A i \in 1 .. Len(h) : h[i] \in Msgs
  OBVIOUS
<1>2. \A m \in Msgs : m.ids \in Seq(Nat)
  BY DEF Msgs
<1>3. \A ids \in Seq(Nat) : /\ Len(ids) \in Nat /\ DOMAIN ids = 1 .. Len(ids)
                            /\ \A k \in 1 .. Len(ids) : ids[k] \in Nat
  OBVIOUS
<1> QED
  BY <1>1, <1>2, <1>3, Zenon

\* A response is not among the results of another.
LEMMA ResponsesApart ==
  ASSUME NEW h \in Seq(Msgs), NEW n, Shape(h, n), NEW i \in DOMAIN h, NEW j \in DOMAIN h,
         Asks(h, i), Asks(h, j), i < j
  PROVE  i + Len(h[i].ids) < j
<1> SUFFICES ASSUME ~(i + Len(h[i].ids) < j)
             PROVE  FALSE
  OBVIOUS
<1>1. i \in Nat /\ j \in Nat /\ Len(h[i].ids) \in Nat /\ DOMAIN h[i].ids = 1 .. Len(h[i].ids)
  BY HistoryTypes
<1>2. j - i \in 1 .. Len(h[i].ids) /\ i + (j - i) = j
  BY <1>1
<1>3. h[j].role = "tool"
  <2>1. \A k \in DOMAIN h[i].ids : i + k \in DOMAIN h => h[i + k].role = "tool"
    BY DEF Shape
  <2>2. h[i + (j - i)].role = "tool"
    BY <1>1, <1>2, <2>1
  <2> QED
    BY <1>2, <2>2
<1> QED
  BY <1>3 DEF Asks

LEMMA ResultHere ==
  ASSUME NEW h, NEW n, Shape(h, n), NEW i \in DOMAIN h, Asks(h, i), NEW k \in DOMAIN h[i].ids,
         i + k \in DOMAIN h
  PROVE  h[i + k].role = "tool" /\ h[i + k].ids = <<h[i].ids[k]>>
  BY DEF Shape

LEMMA CallsApart ==
  ASSUME NEW h, NEW n, Shape(h, n), NEW i \in DOMAIN h, NEW j \in DOMAIN h, Asks(h, i), Asks(h, j),
         NEW k \in DOMAIN h[i].ids, NEW l \in DOMAIN h[j].ids, h[i].ids[k] = h[j].ids[l]
  PROVE  i = j /\ k = l
  BY DEF Shape

LEMMA ResultAsked ==
  ASSUME NEW h, NEW n, Shape(h, n), NEW j \in DOMAIN h, h[j].role = "tool"
  PROVE  \E i \in DOMAIN h : Asks(h, i) /\ \E k \in DOMAIN h[i].ids : j = i + k
  BY DEF Shape

LEMMA ShapePrefix ==
  ASSUME NEW h \in Seq(Msgs), NEW n, Shape(h, n), NEW m \in 0 .. Len(h)
  PROVE  Shape(SubSeq(h, 1, m), n) /\ SubSeq(h, 1, m) \in Seq(Msgs)
<1>1. PICK g : g = SubSeq(h, 1, m)
  OBVIOUS
<1>2. g \in Seq(Msgs) /\ DOMAIN g = 1 .. m /\ m \in Nat /\ \A i \in 1 .. m : g[i] = h[i]
  BY <1>1
<1>3. /\ Len(h) \in Nat /\ DOMAIN h = 1 .. Len(h)
      /\ \A i \in 1 .. Len(h) : DOMAIN h[i].ids = 1 .. Len(h[i].ids) /\ Len(h[i].ids) \in Nat
  BY HistoryTypes
<1>4. \A i \in 1 .. m : i \in 1 .. Len(h)
  BY <1>3
<1>5. ASSUME NEW i \in 1 .. m, Asks(g, i), NEW k \in DOMAIN g[i].ids, i + k \in 1 .. m
      PROVE  g[i + k].role = "tool" /\ g[i + k].ids = <<g[i].ids[k]>>
  <2>1. /\ i \in DOMAIN h /\ g[i] = h[i] /\ Asks(h, i)
        /\ i + k \in DOMAIN h /\ g[i + k] = h[i + k]
    BY <1>2, <1>3, <1>4, <1>5 DEF Asks
  <2>2. h[i + k].role = "tool" /\ h[i + k].ids = <<h[i].ids[k]>>
    BY <1>5, <2>1, ResultHere
  <2> QED
    BY <2>1, <2>2
<1>6. ASSUME NEW j \in 1 .. m, g[j].role = "tool"
      PROVE  \E i \in 1 .. m : Asks(g, i) /\ \E k \in DOMAIN g[i].ids : j = i + k
  <2>1. PICK i \in 1 .. Len(h) : Asks(h, i) /\ \E k \in DOMAIN h[i].ids : j = i + k
    <3>1. j \in DOMAIN h /\ h[j].role = "tool"
      BY <1>2, <1>3, <1>4, <1>6
    <3>2. \E i \in DOMAIN h : Asks(h, i) /\ \E k \in DOMAIN h[i].ids : j = i + k
      BY <3>1, ResultAsked, Zenon
    <3> QED
      BY <1>3, <3>2
  <2>2. PICK k \in DOMAIN h[i].ids : j = i + k
    BY <2>1
  <2>3. i \in 1 .. m
    BY <1>2, <1>3, <2>2
  <2> QED
    BY <1>2, <2>1, <2>2, <2>3 DEF Asks
<1>7. ASSUME NEW i \in 1 .. m, NEW j \in 1 .. m, Asks(g, i), Asks(g, j),
             NEW k \in DOMAIN g[i].ids, NEW l \in DOMAIN g[j].ids, g[i].ids[k] = g[j].ids[l]
      PROVE  i = j /\ k = l
  <2>1. /\ i \in DOMAIN h /\ g[i] = h[i] /\ Asks(h, i)
        /\ j \in DOMAIN h /\ g[j] = h[j] /\ Asks(h, j)
    BY <1>2, <1>3, <1>4, <1>7 DEF Asks
  <2> QED
    BY <1>7, <2>1, CallsApart
<1>8. ASSUME NEW i \in 1 .. m, NEW k \in DOMAIN g[i].ids
      PROVE  g[i].ids[k] <= n
  BY <1>2, <1>3, <1>4 DEF Shape
<1> QED
  <2>1. \A i \in DOMAIN g : Asks(g, i) =>
          \A k \in DOMAIN g[i].ids : i + k \in DOMAIN g =>
            g[i + k].role = "tool" /\ g[i + k].ids = <<g[i].ids[k]>>
    BY <1>2, <1>5
  <2>2. \A j \in DOMAIN g : g[j].role = "tool" =>
          \E i \in DOMAIN g : Asks(g, i) /\ \E k \in DOMAIN g[i].ids : j = i + k
    BY <1>2, <1>6
  <2>3. \A i, j \in DOMAIN g : Asks(g, i) /\ Asks(g, j) =>
          \A k \in DOMAIN g[i].ids, l \in DOMAIN g[j].ids :
            g[i].ids[k] = g[j].ids[l] => i = j /\ k = l
    BY <1>2, <1>7
  <2>4. \A i \in DOMAIN g : \A k \in DOMAIN g[i].ids : g[i].ids[k] <= n
    BY <1>2, <1>8
  <2>5. Shape(g, n)
    BY <2>1, <2>2, <2>3, <2>4 DEF Shape
  <2> QED
    BY <1>1, <1>2, <2>5

LEMMA ShapeMore ==
  ASSUME NEW h \in Seq(Msgs), NEW n \in Nat, NEW m \in Nat, n <= m, Shape(h, n)
  PROVE  Shape(h, m)
<1>1. \A i \in DOMAIN h : \A k \in DOMAIN h[i].ids : h[i].ids[k] <= m
  <2> TAKE i \in DOMAIN h
  <2> TAKE k \in DOMAIN h[i].ids
  <2>1. h[i].ids[k] \in Nat
    BY HistoryTypes
  <2>2. h[i].ids[k] <= n
    BY DEF Shape
  <2> QED
    BY <2>1, <2>2
<1> QED
  BY <1>1 DEF Shape

\* A message is added that neither asks nor answers.
LEMMA ShapeOther ==
  ASSUME NEW h \in Seq(Msgs), NEW n, Shape(h, n), Answered(h), NEW m \in Msgs,
         m.role \notin {"assistant", "tool"}, m.ids = << >>
  PROVE  Shape(h \o <<m>>, n) /\ Answered(h \o <<m>>)
<1>1. PICK g, z : g = h \o <<m>> /\ z = Len(h) + 1
  OBVIOUS
<1>2. /\ Len(h) \in Nat /\ DOMAIN h = 1 .. Len(h)
      /\ \A i \in 1 .. Len(h) : DOMAIN h[i].ids = 1 .. Len(h[i].ids) /\ Len(h[i].ids) \in Nat
  BY HistoryTypes
<1>3. /\ DOMAIN g = 1 .. z /\ Len(g) = z /\ g[z] = m /\ z \in Nat
      /\ \A i \in 1 .. z : i # z => i \in 1 .. Len(h) /\ g[i] = h[i]
  BY <1>1
<1>4. DOMAIN m.ids = {} /\ ~Asks(g, z) /\ g[z].role # "tool"
  BY <1>3 DEF Asks
<1>5. ASSUME NEW i \in 1 .. z, Asks(g, i)
      PROVE  i \in 1 .. Len(h) /\ g[i] = h[i] /\ Asks(h, i) /\ i + Len(h[i].ids) < z
  <2>1. i \in 1 .. Len(h) /\ g[i] = h[i]
    BY <1>3, <1>4, <1>5
  <2>2. Asks(h, i)
    BY <1>5, <2>1 DEF Asks
  <2>3. i + Len(h[i].ids) <= Len(h)
    BY <1>2, <2>1, <2>2 DEF Answered
  <2> QED
    BY <1>1, <1>2, <2>1, <2>2, <2>3
<1>6. ASSUME NEW i \in 1 .. z, Asks(g, i), NEW k \in DOMAIN g[i].ids
      PROVE  g[i + k].role = "tool" /\ g[i + k].ids = <<g[i].ids[k]>>
  <2>1. i \in 1 .. Len(h) /\ g[i] = h[i] /\ Asks(h, i) /\ i + Len(h[i].ids) < z
    BY <1>5, <1>6
  <2>2. i + k \in 1 .. z /\ i + k # z
    BY <1>2, <1>3, <2>1
  <2>3. i + k \in 1 .. Len(h) /\ g[i + k] = h[i + k]
    BY <1>3, <2>2
  <2> QED
    <3>1. i \in DOMAIN h /\ k \in DOMAIN h[i].ids /\ i + k \in DOMAIN h
      BY <1>2, <1>6, <2>1, <2>3
    <3>2. h[i + k].role = "tool" /\ h[i + k].ids = <<h[i].ids[k]>>
      BY <2>1, <3>1, ResultHere
    <3> QED
      BY <2>1, <2>3, <3>2, Zenon
<1>7. ASSUME NEW j \in 1 .. z, g[j].role = "tool"
      PROVE  \E i \in 1 .. z : Asks(g, i) /\ \E k \in DOMAIN g[i].ids : j = i + k
  <2>1. j \in 1 .. Len(h) /\ h[j].role = "tool"
    BY <1>3, <1>4, <1>7
  <2>2. PICK i \in 1 .. Len(h) : Asks(h, i) /\ \E k \in DOMAIN h[i].ids : j = i + k
    BY <1>2, <2>1 DEF Shape
  <2>3. i \in 1 .. z /\ g[i] = h[i]
    BY <1>1, <1>2, <1>3, <2>2
  <2> QED
    BY <2>2, <2>3 DEF Asks
<1>8. ASSUME NEW i \in 1 .. z, NEW j \in 1 .. z, Asks(g, i), Asks(g, j),
             NEW k \in DOMAIN g[i].ids, NEW l \in DOMAIN g[j].ids, g[i].ids[k] = g[j].ids[l]
      PROVE  i = j /\ k = l
  <2>1. i \in 1 .. Len(h) /\ g[i] = h[i] /\ Asks(h, i)
    BY <1>5, <1>8
  <2>2. j \in 1 .. Len(h) /\ g[j] = h[j] /\ Asks(h, j)
    BY <1>5, <1>8
  <2>3. i \in DOMAIN h /\ j \in DOMAIN h /\ k \in DOMAIN h[i].ids /\ l \in DOMAIN h[j].ids
        /\ h[i].ids[k] = h[j].ids[l]
    BY <1>2, <1>8, <2>1, <2>2
  <2> QED
    BY <2>1, <2>2, <2>3, CallsApart
<1>9. ASSUME NEW i \in 1 .. z, NEW k \in DOMAIN g[i].ids
      PROVE  g[i].ids[k] <= n
  <2>1. i \in 1 .. Len(h) /\ g[i] = h[i]
    BY <1>3, <1>4
  <2> QED
    BY <1>2, <2>1 DEF Shape
<1>10. \A i \in 1 .. z : Asks(g, i) => i + Len(g[i].ids) <= z
  <2> TAKE i \in 1 .. z
  <2> HAVE Asks(g, i)
  <2>1. i \in 1 .. Len(h) /\ g[i] = h[i] /\ i + Len(h[i].ids) < z
    BY <1>5
  <2> QED
    BY <1>2, <1>3, <2>1
<1> QED
  <2>1. DOMAIN g = 1 .. z
    BY <1>3
  <2>2. \A i \in DOMAIN g : Asks(g, i) =>
          \A k \in DOMAIN g[i].ids : i + k \in DOMAIN g =>
            g[i + k].role = "tool" /\ g[i + k].ids = <<g[i].ids[k]>>
    BY <1>6, <2>1
  <2>3. \A j \in DOMAIN g : g[j].role = "tool" =>
          \E i \in DOMAIN g : Asks(g, i) /\ \E k \in DOMAIN g[i].ids : j = i + k
    BY <1>7, <2>1
  <2>4. \A i, j \in DOMAIN g : Asks(g, i) /\ Asks(g, j) =>
          \A k \in DOMAIN g[i].ids, l \in DOMAIN g[j].ids :
            g[i].ids[k] = g[j].ids[l] => i = j /\ k = l
    BY <1>8, <2>1
  <2>5. \A i \in DOMAIN g : \A k \in DOMAIN g[i].ids : g[i].ids[k] <= n
    BY <1>9, <2>1
  <2>6. Shape(g, n)
    BY <2>2, <2>3, <2>4, <2>5 DEF Shape
  <2> QED
    BY <1>1, <1>3, <1>10, <2>6 DEF Answered

\* A response is added whose calls are new.
LEMMA ShapeAsks ==
  ASSUME NEW h \in Seq(Msgs), NEW n, Shape(h, n), Answered(h), NEW calls \in Seq(Nat), Fresh(h, calls, n)
  PROVE  /\ Shape(h \o <<Message("assistant", calls)>>, n)
         /\ Open(h \o <<Message("assistant", calls)>>, calls)
<1>1. PICK g, z, m : g = h \o <<m>> /\ z = Len(h) + 1 /\ m = Message("assistant", calls)
  OBVIOUS
<1>2. /\ Len(h) \in Nat /\ DOMAIN h = 1 .. Len(h)
      /\ \A i \in 1 .. Len(h) : DOMAIN h[i].ids = 1 .. Len(h[i].ids) /\ Len(h[i].ids) \in Nat
  BY HistoryTypes
<1>3. /\ DOMAIN g = 1 .. z /\ Len(g) = z /\ g[z] = m /\ z \in Nat
      /\ \A i \in 1 .. z : i # z => i \in 1 .. Len(h) /\ g[i] = h[i]
      /\ \A i \in 1 .. Len(h) : i \in 1 .. z /\ i # z
  <2>1. m \in Msgs
    BY <1>1, MessageTypes
  <2> QED
    BY <1>1, <2>1
<1>4. /\ m.ids = calls /\ DOMAIN calls = 1 .. Len(calls) /\ Len(calls) \in Nat
      /\ Asks(g, z) /\ g[z].role # "tool" /\ g[z].ids = calls
  BY <1>1, <1>3 DEF Asks, Message
<1>5. ASSUME NEW i \in 1 .. z, Asks(g, i), i # z
      PROVE  i \in 1 .. Len(h) /\ g[i] = h[i] /\ Asks(h, i) /\ i + Len(h[i].ids) < z
  <2>1. i \in 1 .. Len(h) /\ g[i] = h[i]
    BY <1>3, <1>5
  <2>2. Asks(h, i)
    BY <1>5, <2>1 DEF Asks
  <2>3. i + Len(h[i].ids) <= Len(h)
    BY <1>2, <2>1, <2>2 DEF Answered
  <2> QED
    BY <1>1, <1>2, <2>1, <2>2, <2>3
<1>6. ASSUME NEW i \in 1 .. z, Asks(g, i), NEW k \in DOMAIN g[i].ids, i + k \in 1 .. z
      PROVE  g[i + k].role = "tool" /\ g[i + k].ids = <<g[i].ids[k]>>
  <2>1. i # z
    BY <1>3, <1>4, <1>6
  <2>2. i \in 1 .. Len(h) /\ g[i] = h[i] /\ Asks(h, i) /\ i + Len(h[i].ids) < z
    BY <1>5, <1>6, <2>1
  <2>3. i + k # z
    BY <1>2, <1>3, <2>2
  <2>4. i + k \in 1 .. Len(h) /\ g[i + k] = h[i + k]
    BY <1>3, <1>6, <2>3
  <2>5. i \in DOMAIN h /\ k \in DOMAIN h[i].ids /\ i + k \in DOMAIN h
    BY <1>2, <2>2, <2>4
  <2>6. h[i + k].role = "tool" /\ h[i + k].ids = <<h[i].ids[k]>>
    BY <2>2, <2>5, ResultHere
  <2> QED
    BY <2>2, <2>4, <2>6
<1>7. ASSUME NEW j \in 1 .. z, g[j].role = "tool"
      PROVE  \E i \in 1 .. z : Asks(g, i) /\ \E k \in DOMAIN g[i].ids : j = i + k
  <2>1. j \in 1 .. Len(h) /\ h[j].role = "tool"
    BY <1>3, <1>4, <1>7
  <2>2. PICK i \in 1 .. Len(h) : Asks(h, i) /\ \E k \in DOMAIN h[i].ids : j = i + k
    BY <1>2, <2>1 DEF Shape
  <2>3. i \in 1 .. z /\ g[i] = h[i]
    BY <1>3, <2>2
  <2> QED
    BY <2>2, <2>3 DEF Asks
<1>8. ASSUME NEW i \in 1 .. z, NEW j \in 1 .. z, Asks(g, i), Asks(g, j),
             NEW k \in DOMAIN g[i].ids, NEW l \in DOMAIN g[j].ids, g[i].ids[k] = g[j].ids[l]
      PROVE  i = j /\ k = l
  <2>1. \A c \in DOMAIN calls : \A a \in 1 .. Len(h) : \A b \in DOMAIN h[a].ids : h[a].ids[b] # calls[c]
    BY <1>2 DEF Fresh
  <2>2. i # z => i \in 1 .. Len(h) /\ g[i] = h[i] /\ Asks(h, i)
    BY <1>5, <1>8
  <2>3. j # z => j \in 1 .. Len(h) /\ g[j] = h[j] /\ Asks(h, j)
    BY <1>5, <1>8
  <2>4. CASE i # z /\ j # z
    <3>1. i \in DOMAIN h /\ j \in DOMAIN h /\ Asks(h, i) /\ Asks(h, j)
          /\ k \in DOMAIN h[i].ids /\ l \in DOMAIN h[j].ids /\ h[i].ids[k] = h[j].ids[l]
      BY <1>2, <1>8, <2>2, <2>3, <2>4
    <3> QED
      BY <3>1, CallsApart
  <2>5. CASE i = z /\ j = z
    <3>1. k \in DOMAIN calls /\ l \in DOMAIN calls /\ calls[k] = calls[l]
      BY <1>4, <1>8, <2>5
    <3> QED
      BY <2>5, <3>1 DEF Fresh, IsInjective
  <2>6. CASE i = z /\ j # z
    <3>1. k \in DOMAIN calls /\ j \in 1 .. Len(h) /\ l \in DOMAIN h[j].ids /\ h[j].ids[l] = calls[k]
      BY <1>4, <1>8, <2>3, <2>6
    <3> QED
      BY <2>1, <3>1
  <2>7. CASE i # z /\ j = z
    <3>1. l \in DOMAIN calls /\ i \in 1 .. Len(h) /\ k \in DOMAIN h[i].ids /\ h[i].ids[k] = calls[l]
      BY <1>4, <1>8, <2>2, <2>7
    <3> QED
      BY <2>1, <3>1
  <2> QED
    BY <2>4, <2>5, <2>6, <2>7
<1>9. ASSUME NEW i \in 1 .. z, NEW k \in DOMAIN g[i].ids
      PROVE  g[i].ids[k] <= n
  <2>1. CASE i = z
    BY <1>4, <2>1 DEF Fresh
  <2>2. CASE i # z
    <3>1. i \in 1 .. Len(h) /\ g[i] = h[i]
      BY <1>3, <2>2
    <3> QED
      BY <1>2, <3>1 DEF Shape
  <2> QED
    BY <2>1, <2>2
<1>10. Open(g, calls)
  <2>1. CASE calls = << >>
    <3>1. \A i \in 1 .. z : Asks(g, i) => i + Len(g[i].ids) <= z
      <4> TAKE i \in 1 .. z
      <4> HAVE Asks(g, i)
      <4>1. CASE i = z
        <5>1. Len(calls) = 0
          BY <2>1
        <5> QED
          BY <1>3, <1>4, <4>1, <5>1
      <4>2. CASE i # z
        <5>1. i \in 1 .. Len(h) /\ g[i] = h[i] /\ i + Len(h[i].ids) < z
          BY <1>5, <4>2
        <5> QED
          BY <1>2, <1>3, <5>1
      <4> QED
        BY <4>1, <4>2
    <3> QED
      BY <1>3, <2>1, <3>1 DEF Open, Answered
  <2>2. CASE calls # << >>
    <3>1. z \in DOMAIN g /\ Asks(g, z) /\ Len(g) - z + 1 = 1 /\ g[z].ids = calls
      <4>1. z > 0 /\ z \in Nat
        BY <1>1, <1>2
      <4>2. z \in 1 .. z /\ z - z + 1 = 1
        BY <4>1
      <4> QED
        BY <1>3, <1>4, <4>2
    <3>2. Len(calls) > 0 /\ SubSeq(calls, 1, Len(calls)) = calls
      <4>1. Len(calls) > 0
        BY <2>2
      <4>2. SubSeq(calls, 1, Len(calls)) = calls
        OBVIOUS
      <4> QED
        BY <4>1, <4>2
    <3>3. Len(g) < z + Len(g[z].ids)
      BY <1>3, <1>4, <3>1, <3>2
    <3> QED
      BY <3>1, <3>2, <3>3 DEF Open
  <2> QED
    BY <2>1, <2>2
<1> QED
  <2>1. \A i \in DOMAIN g : Asks(g, i) =>
          \A k \in DOMAIN g[i].ids : i + k \in DOMAIN g =>
            g[i + k].role = "tool" /\ g[i + k].ids = <<g[i].ids[k]>>
    BY <1>3, <1>6
  <2>2. \A j \in DOMAIN g : g[j].role = "tool" =>
          \E i \in DOMAIN g : Asks(g, i) /\ \E k \in DOMAIN g[i].ids : j = i + k
    <3>1. DOMAIN g = 1 .. z
      BY <1>3
    <3> QED
      BY <1>7, <3>1, Zenon
  <2>3. \A i, j \in DOMAIN g : Asks(g, i) /\ Asks(g, j) =>
          \A k \in DOMAIN g[i].ids, l \in DOMAIN g[j].ids :
            g[i].ids[k] = g[j].ids[l] => i = j /\ k = l
    BY <1>3, <1>8
  <2>4. \A i \in DOMAIN g : \A k \in DOMAIN g[i].ids : g[i].ids[k] <= n
    BY <1>3, <1>9
  <2>5. Shape(g, n)
    BY <2>1, <2>2, <2>3, <2>4 DEF Shape
  <2> QED
    BY <1>1, <1>10, <2>5

\* The result of the first call that has none is added.
LEMMA ShapeAnswer ==
  ASSUME NEW h \in Seq(Msgs), NEW n, Shape(h, n), NEW calls \in Seq(Nat), Open(h, calls), calls # << >>
  PROVE  Shape(h \o <<Result(Head(calls))>>, n) /\ Open(h \o <<Result(Head(calls))>>, Tail(calls))
<1>1. PICK g, z, m : g = h \o <<m>> /\ z = Len(h) + 1 /\ m = Result(Head(calls))
  OBVIOUS
<1>2. /\ Len(h) \in Nat /\ DOMAIN h = 1 .. Len(h)
      /\ \A i \in 1 .. Len(h) :
           DOMAIN h[i].ids = 1 .. Len(h[i].ids) /\ Len(h[i].ids) \in Nat /\ h[i].ids \in Seq(Nat)
  BY HistoryTypes
<1>3. /\ DOMAIN g = 1 .. z /\ Len(g) = z /\ g[z] = m /\ z \in Nat
      /\ \A i \in 1 .. z : i # z => i \in 1 .. Len(h) /\ g[i] = h[i]
      /\ \A i \in 1 .. Len(h) : i \in 1 .. z /\ i # z
  <2>1. m \in Msgs
    BY <1>1, MessageTypes, TailElements
  <2> QED
    BY <1>1, <2>1
<1>4. PICK w \in 1 .. Len(h) : /\ Asks(h, w) /\ Len(h) < w + Len(h[w].ids)
                               /\ calls = SubSeq(h[w].ids, Len(h) - w + 1, Len(h[w].ids))
  BY <1>2 DEF Open
<1>5. PICK t, x : t = h[w].ids /\ x = z - w
  OBVIOUS
<1>6. /\ t \in Seq(Nat) /\ x \in 1 .. Len(t) /\ DOMAIN t = 1 .. Len(t) /\ Len(t) \in Nat
      /\ w + x = z /\ x \in Nat /\ Len(h) - w + 1 = x /\ w \in Nat
  BY <1>1, <1>2, <1>4, <1>5
<1>7. Head(calls) = t[x] /\ Tail(calls) = SubSeq(t, x + 1, Len(t))
  <2>1. PICK y, l : y = x - 1 /\ l = Len(t)
    OBVIOUS
  <2>2. x \in 1 .. l /\ l \in Nat
    BY <1>6, <2>1
  <2>3. y \in 0 .. l /\ y # l /\ y + 1 = x
    BY <2>1, <2>2
  <2>4. t \in Seq(Nat) /\ y \in 0 .. Len(t) /\ y # Len(t)
    BY <1>6, <2>1, <2>3
  <2>5. /\ Head(SubSeq(t, y + 1, Len(t))) = t[y + 1]
        /\ Tail(SubSeq(t, y + 1, Len(t))) = SubSeq(t, (y + 1) + 1, Len(t))
    BY <2>4, RestHead, Zenon
  <2>6. calls = SubSeq(t, y + 1, Len(t))
    BY <1>4, <1>5, <1>6, <2>3
  <2> QED
    BY <2>3, <2>5, <2>6
<1>8. m.role = "tool" /\ m.ids = <<t[x]>> /\ ~Asks(g, z)
  BY <1>1, <1>3, <1>7 DEF Asks, Result, Message
<1>9. ASSUME NEW i \in 1 .. z, Asks(g, i)
      PROVE  /\ i \in 1 .. Len(h) /\ g[i] = h[i] /\ Asks(h, i)
             /\ i # w => i + Len(h[i].ids) < z
  <2>1. i \in 1 .. Len(h) /\ g[i] = h[i]
    BY <1>3, <1>8, <1>9
  <2>2. Asks(h, i)
    BY <1>9, <2>1 DEF Asks
  <2>3. CASE i < w
    <3>1. i + Len(h[i].ids) < w
      BY <1>2, <1>4, <2>1, <2>2, <2>3, ResponsesApart
    <3> QED
      BY <1>1, <1>2, <1>4, <2>1, <2>2, <3>1
  <2>4. CASE w < i
    <3>1. w + Len(h[w].ids) < i
      BY <1>2, <1>4, <2>1, <2>2, <2>4, ResponsesApart
    <3> QED
      BY <1>2, <1>4, <2>1, <3>1
  <2> QED
    BY <1>2, <1>4, <2>1, <2>2, <2>3, <2>4
<1>10. ASSUME NEW i \in 1 .. z, Asks(g, i), NEW k \in DOMAIN g[i].ids, i + k \in 1 .. z
       PROVE  g[i + k].role = "tool" /\ g[i + k].ids = <<g[i].ids[k]>>
  <2>1. i \in 1 .. Len(h) /\ g[i] = h[i] /\ Asks(h, i) /\ (i # w => i + Len(h[i].ids) < z)
    BY <1>9, <1>10
  <2>2. CASE i + k = z
    <3>1. k \in 1 .. Len(h[i].ids) /\ Len(h[i].ids) \in Nat
      BY <1>2, <2>1
    <3>2. i = w
      BY <1>3, <2>1, <2>2, <3>1
    <3>3. k = x
      BY <1>3, <1>6, <2>1, <2>2, <3>1, <3>2
    <3>4. g[i + k] = m /\ g[i].ids[k] = t[x]
      BY <1>3, <1>5, <2>1, <2>2, <3>2, <3>3
    <3> QED
      BY <1>8, <3>4
  <2>3. CASE i + k # z
    <3>1. i + k \in DOMAIN h /\ g[i + k] = h[i + k]
      BY <1>2, <1>3, <1>10, <2>3
    <3>2. i \in DOMAIN h /\ k \in DOMAIN h[i].ids
      BY <1>2, <2>1
    <3>3. h[i + k].role = "tool" /\ h[i + k].ids = <<h[i].ids[k]>>
      BY <2>1, <3>1, <3>2, ResultHere
    <3> QED
      BY <2>1, <3>1, <3>3
  <2> QED
    BY <2>2, <2>3
<1>11. ASSUME NEW j \in 1 .. z, g[j].role = "tool"
       PROVE  \E i \in 1 .. z : Asks(g, i) /\ \E k \in DOMAIN g[i].ids : j = i + k
  <2>1. CASE j = z
    <3>1. w \in 1 .. z /\ g[w] = h[w] /\ x \in DOMAIN g[w].ids
      BY <1>3, <1>4, <1>5, <1>6
    <3>2. Asks(g, w)
      BY <1>4, <3>1 DEF Asks
    <3> QED
      BY <1>6, <2>1, <3>1, <3>2
  <2>2. CASE j # z
    <3>1. j \in 1 .. Len(h) /\ h[j].role = "tool"
      BY <1>3, <1>11, <2>2
    <3>2. PICK i \in 1 .. Len(h) : Asks(h, i) /\ \E k \in DOMAIN h[i].ids : j = i + k
      BY <1>2, <3>1 DEF Shape
    <3>3. i \in 1 .. z /\ g[i] = h[i]
      BY <1>3, <3>2
    <3> QED
      BY <3>2, <3>3 DEF Asks
  <2> QED
    BY <2>1, <2>2
<1>12. ASSUME NEW i \in 1 .. z, NEW j \in 1 .. z, Asks(g, i), Asks(g, j),
              NEW k \in DOMAIN g[i].ids, NEW l \in DOMAIN g[j].ids, g[i].ids[k] = g[j].ids[l]
       PROVE  i = j /\ k = l
  <2>1. i \in 1 .. Len(h) /\ g[i] = h[i] /\ Asks(h, i)
    BY <1>9, <1>12
  <2>2. j \in 1 .. Len(h) /\ g[j] = h[j] /\ Asks(h, j)
    BY <1>9, <1>12
  <2>3. i \in DOMAIN h /\ j \in DOMAIN h /\ k \in DOMAIN h[i].ids /\ l \in DOMAIN h[j].ids
        /\ h[i].ids[k] = h[j].ids[l]
    BY <1>2, <1>12, <2>1, <2>2
  <2> QED
    BY <2>1, <2>2, <2>3, CallsApart
<1>13. ASSUME NEW i \in 1 .. z, NEW k \in DOMAIN g[i].ids
       PROVE  g[i].ids[k] <= n
  <2>1. CASE i = z
    <3>1. k = 1 /\ g[i].ids[k] = t[x]
      BY <1>3, <1>8, <2>1
    <3>2. h[w].ids[x] <= n
      BY <1>2, <1>5, <1>6 DEF Shape
    <3> QED
      BY <1>5, <3>1, <3>2
  <2>2. CASE i # z
    <3>1. i \in 1 .. Len(h) /\ g[i] = h[i]
      BY <1>3, <2>2
    <3> QED
      BY <1>2, <3>1 DEF Shape
  <2> QED
    BY <2>1, <2>2
<1>14. Open(g, Tail(calls))
  <2>1. w \in 1 .. z /\ g[w] = h[w]
    BY <1>3, <1>4
  <2>2. Asks(g, w) /\ g[w].ids = t
    BY <1>4, <1>5, <2>1 DEF Asks
  <2>3. CASE z < w + Len(t)
    <3>1. Len(g) - w + 1 = x + 1
      BY <1>3, <1>5, <1>6
    <3> QED
      BY <1>3, <1>7, <2>1, <2>2, <2>3, <3>1 DEF Open
  <2>4. CASE ~(z < w + Len(t))
    <3>1. x = Len(t) /\ w + Len(t) = z
      <4>1. PICK l : l = Len(t)
        OBVIOUS
      <4>2. x \in 1 .. l /\ l \in Nat /\ w \in Nat /\ w + x = z /\ ~(z < w + l)
        BY <1>6, <2>4, <4>1
      <4>3. x = l
        BY <4>2
      <4> QED
        BY <4>1, <4>2, <4>3
    <3>2. Tail(calls) = << >>
      <4>1. SubSeq(t, Len(t) + 1, Len(t)) = << >>
        BY <1>6
      <4> QED
        BY <1>7, <3>1, <4>1
    <3>3. \A i \in 1 .. z : Asks(g, i) => i + Len(g[i].ids) <= z
      <4> TAKE i \in 1 .. z
      <4> HAVE Asks(g, i)
      <4>1. i \in 1 .. Len(h) /\ g[i] = h[i] /\ (i # w => i + Len(h[i].ids) < z)
        BY <1>9
      <4> QED
        BY <1>2, <1>3, <1>5, <3>1, <4>1
    <3> QED
      BY <1>3, <3>2, <3>3 DEF Open, Answered
  <2> QED
    BY <2>3, <2>4
<1> QED
  <2>1. \A i \in DOMAIN g : Asks(g, i) =>
          \A k \in DOMAIN g[i].ids : i + k \in DOMAIN g =>
            g[i + k].role = "tool" /\ g[i + k].ids = <<g[i].ids[k]>>
    BY <1>3, <1>10
  <2>2. \A j \in DOMAIN g : g[j].role = "tool" =>
          \E i \in DOMAIN g : Asks(g, i) /\ \E k \in DOMAIN g[i].ids : j = i + k
    <3>1. DOMAIN g = 1 .. z
      BY <1>3
    <3> QED
      BY <1>11, <3>1, Zenon
  <2>3. \A i, j \in DOMAIN g : Asks(g, i) /\ Asks(g, j) =>
          \A k \in DOMAIN g[i].ids, l \in DOMAIN g[j].ids :
            g[i].ids[k] = g[j].ids[l] => i = j /\ k = l
    BY <1>3, <1>12
  <2>4. \A i \in DOMAIN g : \A k \in DOMAIN g[i].ids : g[i].ids[k] <= n
    BY <1>3, <1>13
  <2>5. Shape(g, n)
    BY <2>1, <2>2, <2>3, <2>4 DEF Shape
  <2> QED
    BY <1>1, <1>14, <2>5

\* The results of some of the calls that have none are added.
LEMMA ShapeAnswering ==
  ASSUME NEW h \in Seq(Msgs), NEW n, Shape(h, n), NEW calls \in Seq(Nat), Open(h, calls),
         NEW m \in 0 .. Len(calls)
  PROVE  /\ Shape(h \o SubSeq(Results(calls), 1, m), n)
         /\ Open(h \o SubSeq(Results(calls), 1, m), SubSeq(calls, m + 1, Len(calls)))
<1> DEFINE after(x) == h \o SubSeq(Results(calls), 1, x)
           left(x) == SubSeq(calls, x + 1, Len(calls))
           S == {x \in Nat : x <= Len(calls) => Shape(after(x), n) /\ Open(after(x), left(x))}
<1>1. /\ Results(calls) \in Seq(Msgs) /\ Len(Results(calls)) = Len(calls) /\ Len(calls) \in Nat
      /\ \A i \in 1 .. Len(calls) : Results(calls)[i] = Result(calls[i])
  BY ResultsTypes
<1>2. 0 \in S
  <2>1. SubSeq(Results(calls), 1, 0) = << >> /\ h \o << >> = h /\ SubSeq(calls, 1, Len(calls)) = calls
    BY <1>1, ConcatEmptySeq
  <2>2. after(0) = h /\ left(0) = calls
    BY <2>1
  <2> HIDE DEF after, left
  <2> QED
    BY <2>2
<1>3. ASSUME NEW x \in Nat, x \in S
      PROVE  x + 1 \in S
  <2> SUFFICES ASSUME x + 1 <= Len(calls)
               PROVE  Shape(after(x + 1), n) /\ Open(after(x + 1), left(x + 1))
    OBVIOUS
  <2>1. PICK g, t : g = after(x) /\ t = left(x)
    OBVIOUS
  <2>2. Shape(g, n) /\ Open(g, t)
    <3>1. x <= Len(calls)
      BY <1>1
    <3> HIDE DEF after, left
    <3> QED
      BY <1>3, <2>1, <3>1
  <2>3. t \in Seq(Nat) /\ t # << >> /\ Head(t) = calls[x + 1] /\ Tail(t) = left(x + 1)
    <3>1. x \in 0 .. Len(calls) /\ x # Len(calls)
      BY <1>1
    <3>2. /\ SubSeq(calls, x + 1, Len(calls)) \in Seq(Nat)
          /\ SubSeq(calls, x + 1, Len(calls)) # << >>
          /\ Head(SubSeq(calls, x + 1, Len(calls))) = calls[x + 1]
          /\ Tail(SubSeq(calls, x + 1, Len(calls))) = SubSeq(calls, (x + 1) + 1, Len(calls))
      BY <3>1, RestItems, RestHead, Zenon
    <3> QED
      BY <2>1, <3>2, Zenon
  <2>4. after(x + 1) = Append(g, Results(calls)[x + 1]) /\ g \in Seq(Msgs)
    <3>1. x \in 0 .. Len(Results(calls)) - 1
      BY <1>1
    <3>2. after(x + 1) = Append(g, Results(calls)[x + 1])
      BY <1>1, <2>1, <3>1, PrefixNext
    <3>3. SubSeq(Results(calls), 1, x) \in Seq(Msgs)
      BY <1>1, <3>1
    <3> QED
      BY <2>1, <3>2, <3>3, ConcatItems
  <2>5. Results(calls)[x + 1] = Result(Head(t)) /\ Result(Head(t)) \in Msgs
    <3>1. x + 1 \in 1 .. Len(calls) /\ calls[x + 1] \in Nat
      BY <1>1
    <3> QED
      BY <1>1, <2>3, <3>1, MessageTypes
  <2>6. after(x + 1) = g \o <<Result(Head(t))>>
    <3>1. Append(g, Result(Head(t))) = g \o <<Result(Head(t))>>
      BY <2>4, <2>5, AppendIsConcat
    <3> HIDE DEF after
    <3> QED
      BY <2>4, <2>5, <3>1
  <2>7. Shape(g \o <<Result(Head(t))>>, n) /\ Open(g \o <<Result(Head(t))>>, Tail(t))
    BY <2>2, <2>3, <2>4, ShapeAnswer
  <2> HIDE DEF after, left
  <2> QED
    BY <2>3, <2>6, <2>7
<1>4. m \in S
  <2> HIDE DEF S
  <2>1. m \in Nat
    BY <1>1
  <2> QED
    BY <1>2, <1>3, <2>1, SetInduction
<1>5. m <= Len(calls)
  BY <1>1
<1> HIDE DEF after, left
<1>6. Shape(after(m), n) /\ Open(after(m), left(m))
  BY <1>4, <1>5
<1> QED
  BY <1>6 DEF after, left

LEMMA OpenNone ==
  ASSUME NEW h \in Seq(Msgs)
  PROVE  Open(h, << >>) <=> Answered(h)
<1>1. Answered(h) => Open(h, << >>)
  BY DEF Open
<1>2. ASSUME NEW i \in DOMAIN h, Len(h) < i + Len(h[i].ids),
             << >> = SubSeq(h[i].ids, Len(h) - i + 1, Len(h[i].ids))
      PROVE  FALSE
  <2>1. PICK t, x : t = h[i].ids /\ x = Len(h) - i + 1
    OBVIOUS
  <2>2. t \in Seq(Nat) /\ x \in Nat /\ x > 0 /\ x <= Len(t)
    BY <1>2, <2>1, HistoryTypes
  <2>3. x \in 1 .. Len(t)
    BY <2>2
  <2>4. Len(SubSeq(t, x, Len(t))) = Len(t) - x + 1
    BY <2>2, <2>3, EndItems
  <2>5. Len(SubSeq(t, x, Len(t))) # 0
    BY <2>2, <2>4
  <2> QED
    BY <1>2, <2>1, <2>5
<1> QED
  BY <1>1, <1>2 DEF Open

\* The results of all of them are added.
LEMMA ShapeAnswered ==
  ASSUME NEW h \in Seq(Msgs), NEW n, Shape(h, n), NEW calls \in Seq(Nat), Open(h, calls)
  PROVE  /\ h \o Results(calls) \in Seq(Msgs)
         /\ Shape(h \o Results(calls), n) /\ Answered(h \o Results(calls))
<1>1. PICK r : r = Results(calls)
  OBVIOUS
<1>2. r \in Seq(Msgs) /\ Len(r) = Len(calls) /\ Len(calls) \in 0 .. Len(calls) /\ SubSeq(r, 1, Len(calls)) = r
  BY <1>1, ResultsTypes
<1>3. Shape(h \o r, n) /\ Open(h \o r, SubSeq(calls, Len(calls) + 1, Len(calls)))
  BY <1>1, <1>2, ShapeAnswering
<1>4. SubSeq(calls, Len(calls) + 1, Len(calls)) = << >>
  OBVIOUS
<1>5. h \o r \in Seq(Msgs)
  BY <1>2, ConcatItems
<1> QED
  BY <1>1, <1>3, <1>4, <1>5, OpenNone

\* The length and the shift of a sequence cut at c, with one item put before.
LEMMA CutLengths ==
  ASSUME NEW l \in Nat, NEW c \in 1 .. l
  PROVE  /\ l - c + 2 = 1 + (l - c + 1) /\ l - c + 2 \in Nat
         /\ c - 2 \in Int /\ (c - 2) + (l - c + 2) = l
  OBVIOUS

\* The place of an item after the cut: from the new sequence to the old one, and back.
LEMMA CutPlaces ==
  ASSUME NEW l \in Nat, NEW c \in 1 .. l
  PROVE  /\ \A i \in 1 .. l - c + 2 : i # 1 => (c - 2) + i \in c .. l /\ (c - 2) + i \in 1 .. l
         /\ \A i \in Nat : c <= i /\ i <= l => (i - c) + 2 \in 1 .. (l - c) + 2 /\ (i - c) + 2 # 1
  OBVIOUS

\* The beginning is replaced by its summary.
LEMMA ShapeCut ==
  ASSUME NEW h \in Seq(Msgs), NEW n, Shape(h, n), Answered(h), NEW c \in DOMAIN h, IsCutMessage(h[c])
  PROVE  /\ Shape(<<Summary>> \o SubSeq(h, c, Len(h)), n)
         /\ Answered(<<Summary>> \o SubSeq(h, c, Len(h)))
<1>1. PICK g, z, d : g = <<Summary>> \o SubSeq(h, c, Len(h)) /\ z = Len(h) - c + 2 /\ d = c - 2
  OBVIOUS
<1>2. /\ Len(h) \in Nat /\ DOMAIN h = 1 .. Len(h) /\ c \in 1 .. Len(h)
      /\ \A i \in 1 .. Len(h) : DOMAIN h[i].ids = 1 .. Len(h[i].ids) /\ Len(h[i].ids) \in Nat
  BY HistoryTypes
<1>3. /\ DOMAIN g = 1 .. z /\ Len(g) = z /\ g[1] = Summary /\ z \in Nat /\ d \in Int /\ d + z = Len(h)
      /\ \A i \in 1 .. z : i # 1 => d + i \in c .. Len(h) /\ d + i \in 1 .. Len(h) /\ g[i] = h[d + i]
  <2>1. PICK s : s = SubSeq(h, c, Len(h))
    OBVIOUS
  <2>2. /\ s \in Seq(Msgs) /\ Len(s) = Len(h) - c + 1
        /\ \A i \in 1 .. Len(h) - c + 1 : s[i] = h[c + i - 1]
    BY <1>2, <2>1
  <2>3. <<Summary>> \in Seq(Msgs) /\ Len(<<Summary>>) = 1 /\ <<Summary>>[1] = Summary
    BY MessageTypes
  <2>4. /\ g \in Seq(Msgs) /\ Len(g) = 1 + Len(s) /\ g[1] = Summary
        /\ \A i \in 1 .. 1 + Len(s) : ~(i <= 1) => i - 1 \in 1 .. Len(s) /\ g[i] = s[i - 1]
    <3>1. PICK p : p = <<Summary>>
      OBVIOUS
    <3>2. Len(p) = 1 /\ p[1] = Summary /\ g = p \o s
      BY <1>1, <2>1, <2>3, <3>1, Zenon
    <3>3. p \in Seq(Msgs) /\ s \in Seq(Msgs)
      BY <2>2, <2>3, <3>1, Zenon
    <3>4. /\ p \o s \in Seq(Msgs) /\ Len(p \o s) = Len(p) + Len(s)
          /\ \A i \in 1 .. Len(p) : (p \o s)[i] = p[i]
          /\ \A i \in 1 .. Len(p) + Len(s) : ~(i <= Len(p)) =>
               i - Len(p) \in 1 .. Len(s) /\ (p \o s)[i] = s[i - Len(p)]
      BY <3>3
    <3>5. 1 \in 1 .. 1
      OBVIOUS
    <3> QED
      BY <3>2, <3>4, <3>5
  <2>5. z = 1 + Len(s) /\ z \in Nat /\ d \in Int /\ d + z = Len(h)
    <3>1. PICK l, k : l = Len(h) /\ k = Len(s)
      OBVIOUS
    <3>2. l \in Nat /\ c \in 1 .. l /\ k = l - c + 1 /\ z = l - c + 2 /\ d = c - 2
      BY <1>1, <1>2, <2>2, <3>1
    <3>3. z = 1 + k /\ z \in Nat /\ d \in Int /\ d + z = l
      BY <3>2, CutLengths, Zenon
    <3> QED
      BY <3>1, <3>3, Zenon
  <2>6. DOMAIN g = 1 .. z
    BY <2>4, <2>5
  <2>7. ASSUME NEW i \in 1 .. z, i # 1
        PROVE  d + i \in c .. Len(h) /\ d + i \in 1 .. Len(h) /\ g[i] = h[d + i]
    <3>1. i - 1 \in 1 .. Len(s) /\ g[i] = s[i - 1]
      BY <2>4, <2>5, <2>7
    <3>2. s[i - 1] = h[c + (i - 1) - 1] /\ c + (i - 1) - 1 = d + i
      <4>1. i - 1 \in 1 .. Len(h) - c + 1
        BY <2>2, <3>1
      <4>2. c + (i - 1) - 1 = d + i
        BY <1>1, <1>2
      <4> QED
        BY <2>2, <4>1, <4>2
    <3>3. d + i \in c .. Len(h) /\ d + i \in 1 .. Len(h)
      <4>1. PICK l : l = Len(h)
        OBVIOUS
      <4>2. l \in Nat /\ c \in 1 .. l /\ z = l - c + 2 /\ d = c - 2
        BY <1>1, <1>2, <4>1
      <4>3. d + i \in c .. l /\ d + i \in 1 .. l
        BY <2>7, <4>2, CutPlaces, Zenon
      <4> QED
        BY <4>1, <4>3, Zenon
    <3> QED
      BY <3>1, <3>2, <3>3
  <2> QED
    BY <2>4, <2>5, <2>6, <2>7
<1>4. /\ ~Asks(g, 1) /\ g[1].role # "tool" /\ DOMAIN g[1].ids = {}
      /\ h[c].role # "tool"
  BY <1>3 DEF Asks, Summary, Message, IsCutMessage
<1>5. ASSUME NEW i \in 1 .. z, Asks(g, i)
      PROVE  /\ i # 1 /\ d + i \in c .. Len(h) /\ d + i \in 1 .. Len(h) /\ g[i] = h[d + i] /\ Asks(h, d + i)
             /\ d + i + Len(g[i].ids) <= Len(h)
  <2>1. i # 1 /\ d + i \in c .. Len(h) /\ d + i \in 1 .. Len(h) /\ g[i] = h[d + i]
    BY <1>3, <1>4, <1>5
  <2>2. Asks(h, d + i)
    BY <1>5, <2>1 DEF Asks
  <2>3. d + i + Len(h[d + i].ids) <= Len(h)
    BY <1>2, <2>1, <2>2 DEF Answered
  <2> QED
    BY <2>1, <2>2, <2>3
<1>6. ASSUME NEW i \in 1 .. z, Asks(g, i), NEW k \in DOMAIN g[i].ids, i + k \in 1 .. z
      PROVE  g[i + k].role = "tool" /\ g[i + k].ids = <<g[i].ids[k]>>
  <2>1. /\ i # 1 /\ d + i \in 1 .. Len(h) /\ g[i] = h[d + i] /\ Asks(h, d + i)
    BY <1>5, <1>6
  <2>2. i + k # 1 /\ d + (i + k) = (d + i) + k
    <3>1. i \in Nat \ {0} /\ k \in Nat \ {0} /\ d \in Int
      BY <1>2, <1>3, <2>1
    <3> QED
      BY <3>1
  <2>3. (d + i) + k \in 1 .. Len(h) /\ g[i + k] = h[(d + i) + k]
    BY <1>3, <1>6, <2>2
  <2> QED
    BY <1>2, <2>1, <2>3 DEF Shape
<1>7. ASSUME NEW j \in 1 .. z, g[j].role = "tool"
      PROVE  \E i \in 1 .. z : Asks(g, i) /\ \E k \in DOMAIN g[i].ids : j = i + k
  <2>1. j # 1 /\ d + j \in c .. Len(h) /\ d + j \in 1 .. Len(h) /\ h[d + j].role = "tool"
    BY <1>3, <1>4, <1>7
  <2>2. PICK i \in 1 .. Len(h) : Asks(h, i) /\ \E k \in DOMAIN h[i].ids : d + j = i + k
    BY <1>2, <2>1 DEF Shape
  <2>3. PICK k \in DOMAIN h[i].ids : d + j = i + k
    BY <2>2
  <2>4. i >= c
    <3> SUFFICES ASSUME ~(i >= c)
                 PROVE  FALSE
      OBVIOUS
    <3>1. c - i \in DOMAIN h[i].ids /\ i + (c - i) = c
      BY <1>2, <1>3, <2>1, <2>3
    <3>2. \A x \in DOMAIN h[i].ids : i + x \in 1 .. Len(h) => h[i + x].role = "tool"
      BY <1>2, <2>2 DEF Shape
    <3>3. h[i + (c - i)].role = "tool"
      BY <1>2, <3>1, <3>2
    <3> QED
      BY <1>4, <3>1, <3>3
  <2>5. i - d \in 1 .. z /\ i - d # 1 /\ d + (i - d) = i /\ j = (i - d) + k
    <3>1. i \in Nat /\ c \in Nat /\ k \in Nat /\ j \in Nat /\ c <= i /\ i <= Len(h)
      BY <1>2, <2>4
    <3>2. i - d = (i - c) + 2 /\ z = (Len(h) - c) + 2
      BY <1>1, <1>2, <3>1
    <3>3. i - d \in 1 .. z /\ i - d # 1
      BY <1>2, <3>1, <3>2, CutPlaces, Zenon
    <3>4. d + (i - d) = i /\ j = (i - d) + k
      BY <1>3, <2>3, <3>1
    <3> QED
      BY <3>3, <3>4
  <2>6. g[i - d] = h[i]
    BY <1>3, <2>5
  <2>7. Asks(g, i - d) /\ k \in DOMAIN g[i - d].ids
    BY <2>2, <2>6 DEF Asks
  <2> QED
    BY <2>5, <2>7
<1>8. ASSUME NEW i \in 1 .. z, NEW j \in 1 .. z, Asks(g, i), Asks(g, j),
             NEW k \in DOMAIN g[i].ids, NEW l \in DOMAIN g[j].ids, g[i].ids[k] = g[j].ids[l]
      PROVE  i = j /\ k = l
  <2>1. d + i \in 1 .. Len(h) /\ g[i] = h[d + i] /\ Asks(h, d + i)
    BY <1>5, <1>8
  <2>2. d + j \in 1 .. Len(h) /\ g[j] = h[d + j] /\ Asks(h, d + j)
    BY <1>5, <1>8
  <2>3. d + i = d + j /\ k = l
    BY <1>2, <1>8, <2>1, <2>2 DEF Shape
  <2> QED
    BY <1>3, <2>3
<1>9. ASSUME NEW i \in 1 .. z, NEW k \in DOMAIN g[i].ids
      PROVE  g[i].ids[k] <= n
  <2>1. d + i \in 1 .. Len(h) /\ g[i] = h[d + i]
    BY <1>3, <1>4
  <2> QED
    BY <1>2, <2>1 DEF Shape
<1>10. \A i \in 1 .. z : Asks(g, i) => i + Len(g[i].ids) <= z
  <2> TAKE i \in 1 .. z
  <2> HAVE Asks(g, i)
  <2>1. d + i \in 1 .. Len(h) /\ g[i] = h[d + i] /\ d + i + Len(g[i].ids) <= Len(h)
    BY <1>5
  <2>2. PICK y : y = Len(g[i].ids)
    OBVIOUS
  <2>3. y \in Nat /\ d + i + y <= d + z /\ d \in Int /\ i \in Nat /\ z \in Nat
    <3>1. y \in Nat
      BY <1>2, <2>1, <2>2
    <3>2. d + z = Len(h) /\ d \in Int /\ z \in Nat
      BY <1>3
    <3>3. i \in Nat
      BY <3>2
    <3> QED
      BY <2>1, <2>2, <3>1, <3>2, <3>3
  <2>4. i + y <= z
    BY <2>3
  <2> QED
    BY <2>2, <2>4
<1> QED
  <2>1. DOMAIN g = 1 .. z
    BY <1>3
  <2>2. \A i \in DOMAIN g : Asks(g, i) =>
          \A k \in DOMAIN g[i].ids : i + k \in DOMAIN g =>
            g[i + k].role = "tool" /\ g[i + k].ids = <<g[i].ids[k]>>
    BY <1>6, <2>1
  <2>3. \A j \in DOMAIN g : g[j].role = "tool" =>
          \E i \in DOMAIN g : Asks(g, i) /\ \E k \in DOMAIN g[i].ids : j = i + k
    BY <1>7, <2>1
  <2>4. \A i, j \in DOMAIN g : Asks(g, i) /\ Asks(g, j) =>
          \A k \in DOMAIN g[i].ids, l \in DOMAIN g[j].ids :
            g[i].ids[k] = g[j].ids[l] => i = j /\ k = l
    BY <1>8, <2>1
  <2>5. \A i \in DOMAIN g : \A k \in DOMAIN g[i].ids : g[i].ids[k] <= n
    BY <1>9, <2>1
  <2>6. Shape(g, n)
    BY <2>2, <2>3, <2>4, <2>5 DEF Shape
  <2> QED
    BY <1>1, <1>3, <1>10, <2>6 DEF Answered

\* Old outputs are replaced.
LEMMA ShapePruned ==
  ASSUME NEW h \in Seq(Msgs), NEW n, Shape(h, n), Answered(h), NEW ids
  PROVE  Shape(ApplyPrune(h, ids), n) /\ Answered(ApplyPrune(h, ids))
<1>1. PICK g : g = ApplyPrune(h, ids)
  OBVIOUS
<1>2. /\ DOMAIN g = DOMAIN h /\ Len(g) = Len(h) /\ Len(h) \in Nat /\ DOMAIN h = 1 .. Len(h)
      /\ \A i \in DOMAIN h : g[i].role = h[i].role /\ g[i].ids = h[i].ids
  BY <1>1, PrunedItems
<1>3. \A i \in DOMAIN h : Asks(g, i) <=> Asks(h, i)
  BY <1>2 DEF Asks
<1>4. Answered(g)
  BY <1>2, <1>3 DEF Answered
<1>5. \A i \in DOMAIN g : Asks(g, i) =>
        \A k \in DOMAIN g[i].ids : i + k \in DOMAIN g =>
          g[i + k].role = "tool" /\ g[i + k].ids = <<g[i].ids[k]>>
  BY <1>2, <1>3 DEF Shape
<1>6. \A j \in DOMAIN g : g[j].role = "tool" =>
        \E i \in DOMAIN g : Asks(g, i) /\ \E k \in DOMAIN g[i].ids : j = i + k
  <2> TAKE j \in DOMAIN g
  <2> HAVE g[j].role = "tool"
  <2>1. PICK i \in DOMAIN h : Asks(h, i) /\ \E k \in DOMAIN h[i].ids : j = i + k
    BY <1>2 DEF Shape
  <2> QED
    BY <1>2, <1>3, <2>1
<1>7. \A i, j \in DOMAIN g : Asks(g, i) /\ Asks(g, j) =>
        \A k \in DOMAIN g[i].ids, l \in DOMAIN g[j].ids :
          g[i].ids[k] = g[j].ids[l] => i = j /\ k = l
  BY <1>2, <1>3 DEF Shape
<1>8. \A i \in DOMAIN g : \A k \in DOMAIN g[i].ids : g[i].ids[k] <= n
  BY <1>2 DEF Shape
<1>9. Shape(g, n)
  BY <1>5, <1>6, <1>7, <1>8 DEF Shape
<1> QED
  BY <1>1, <1>4, <1>9

\* What #recoverRunning finds without a result is what the last response is missing.
LEMMA OutstandingOpen ==
  ASSUME NEW h \in Seq(Msgs), NEW n, Shape(h, n)
  PROVE  Open(h, Outstanding(h))
<1>1. PICK assistants : assistants = {i \in DOMAIN h : h[i].role = "assistant"}
  OBVIOUS
<1>2. PICK answered : answered = UNION {ToSet(h[i].ids) : i \in {j \in DOMAIN h : h[j].role = "tool"}}
  OBVIOUS
<1>3. /\ Len(h) \in Nat /\ DOMAIN h = 1 .. Len(h)
      /\ \A i \in 1 .. Len(h) :
           DOMAIN h[i].ids = 1 .. Len(h[i].ids) /\ Len(h[i].ids) \in Nat /\ h[i].ids \in Seq(Nat)
  BY HistoryTypes
<1>4. \A i \in DOMAIN h : i \in assistants <=> Asks(h, i)
  BY <1>1 DEF Asks
<1>5. CASE assistants = {}
  <2>1. Outstanding(h) = << >>
    BY <1>1, <1>5 DEF Outstanding
  <2>2. Answered(h)
    BY <1>4, <1>5 DEF Answered
  <2> QED
    BY <2>1, <2>2 DEF Open
<1>6. CASE assistants # {}
  <2>1. PICK w : w = Max(assistants)
    OBVIOUS
  <2>2. w \in DOMAIN h /\ Asks(h, w) /\ w \in Nat /\ \A i \in assistants : i <= w
    <3>1. assistants \subseteq 0 .. Len(h)
      BY <1>1, <1>3
    <3>2. Max(assistants) \in assistants /\ \A i \in assistants : i <= Max(assistants)
      BY <1>3, <1>6, <3>1, BoundedEnds
    <3> QED
      BY <1>1, <1>3, <1>4, <2>1, <3>2
  <2>3. PICK t, x, open : /\ t = h[w].ids /\ x = Len(h) - w + 1
                          /\ open = {k \in DOMAIN t : t[k] \notin answered}
    OBVIOUS
  <2>4. /\ t \in Seq(Nat) /\ DOMAIN t = 1 .. Len(t) /\ Len(t) \in Nat /\ x \in Nat /\ x > 0
        /\ w + x = Len(h) + 1 /\ Len(h) \in Nat
    <3>1. w \in 1 .. Len(h) /\ Len(h) \in Nat
      BY <1>3, <2>2
    <3>2. t \in Seq(Nat) /\ DOMAIN t = 1 .. Len(t) /\ Len(t) \in Nat
      BY <1>3, <2>3, <3>1
    <3>3. x \in Nat /\ x > 0 /\ w + x = Len(h) + 1
      <4>1. /\ Len(h) - w + 1 \in Nat /\ Len(h) - w + 1 > 0
            /\ w + (Len(h) - w + 1) = Len(h) + 1
        BY <3>1, RestLength
      <4> QED
        BY <2>3, <4>1
    <3> QED
      BY <3>1, <3>2, <3>3
  <2>5. Outstanding(h) = [m \in 1 .. Cardinality(open) |-> t[Nth(open, m)]]
    BY <1>1, <1>2, <1>6, <2>1, <2>3 DEF Outstanding
  <2>6. ASSUME NEW k \in 1 .. Len(t), k < x
        PROVE  t[k] \in answered
    <3>1. w + k \in DOMAIN h /\ k \in DOMAIN h[w].ids
      BY <1>3, <2>2, <2>3, <2>4, <2>6
    <3>2. h[w + k].role = "tool" /\ h[w + k].ids = <<t[k]>>
      BY <2>2, <2>3, <3>1, ResultHere
    <3>3. ToSet(h[w + k].ids) = {t[k]}
      BY <3>2, ShortSequences
    <3> QED
      BY <1>2, <3>1, <3>2, <3>3
  <2>7. ASSUME NEW k \in 1 .. Len(t), ~(k < x)
        PROVE  t[k] \notin answered
    <3> SUFFICES ASSUME t[k] \in answered
                 PROVE  FALSE
      OBVIOUS
    <3>1. PICK j \in DOMAIN h : h[j].role = "tool" /\ t[k] \in ToSet(h[j].ids)
      BY <1>2
    <3>2. PICK i \in DOMAIN h : Asks(h, i) /\ \E l \in DOMAIN h[i].ids : j = i + l
      BY <3>1 DEF Shape
    <3>3. PICK l \in DOMAIN h[i].ids : j = i + l
      BY <3>2
    <3>4. h[j].ids = <<h[i].ids[l]>>
      BY <3>1, <3>2, <3>3, ResultHere
    <3>5. h[w].ids[k] = h[i].ids[l]
      BY <2>3, <3>1, <3>4, ShortSequences
    <3>6. k \in DOMAIN h[w].ids
      BY <2>3, <2>4
    <3>7. w = i /\ k = l
      BY <2>2, <3>2, <3>3, <3>5, <3>6, CallsApart
    <3>8. w + k \in 1 .. Len(h)
      BY <1>3, <3>1, <3>3, <3>7
    <3>9. k \in Nat /\ w + k <= Len(h) /\ ~(k < x)
      BY <2>7, <3>8
    <3> QED
      BY <2>2, <2>4, <3>9
  <2>8. open = x .. Len(t)
    <3>1. \A k \in 1 .. Len(t) : k \in open <=> ~(k < x)
      BY <2>3, <2>4, <2>6, <2>7
    <3>2. open \subseteq 1 .. Len(t)
      BY <2>3, <2>4
    <3>3. \A k : k \in x .. Len(t) <=> k \in 1 .. Len(t) /\ ~(k < x)
      BY <2>4
    <3> QED
      BY <3>1, <3>2, <3>3, Zenon
  <2>9. CASE x <= Len(t)
    <3>1. Cardinality(open) = Len(t) - x + 1
      BY <2>4, <2>8, <2>9, FS_Interval
    <3>2. \A m \in 1 .. Len(t) - x + 1 : Nth(open, m) = x + m - 1
      <4>1. \A m \in 1 .. Cardinality(x .. Len(t)) : Nth(x .. Len(t), m) = x + m - 1
        BY <2>4, NthOfInterval
      <4> QED
        BY <2>8, <3>1, <4>1
    <3>3. PICK a, b : a = Outstanding(h) /\ b = SubSeq(t, x, Len(t))
      OBVIOUS
    <3>4. a \in Seq(Nat) /\ Len(a) = Len(t) - x + 1 /\ \A m \in 1 .. Len(t) - x + 1 : a[m] = t[x + m - 1]
      <4>1. a \in Seq(Nat)
        BY <3>3, OutstandingTypes
      <4>2. a = [m \in 1 .. Len(t) - x + 1 |-> t[Nth(open, m)]]
        BY <2>5, <3>1, <3>3
      <4>3. Len(a) = Len(t) - x + 1
        BY <2>4, <2>9, <4>1, <4>2
      <4> QED
        BY <3>2, <4>1, <4>2, <4>3
    <3>5. b \in Seq(Nat) /\ Len(b) = Len(t) - x + 1 /\ \A m \in 1 .. Len(t) - x + 1 : b[m] = t[x + m - 1]
      <4>1. x \in 1 .. Len(t)
        BY <2>4, <2>9
      <4>2. b \in Seq(Nat)
        BY <2>4, <3>3, <4>1
      <4>3. Len(b) = Len(t) - x + 1
        BY <2>4, <3>3, <4>1
      <4>4. \A m \in 1 .. Len(t) - x + 1 : b[m] = t[x + m - 1]
        BY <2>4, <3>3, <4>1
      <4> QED
        BY <4>2, <4>3, <4>4
    <3>6. a = b
      BY <3>4, <3>5, SeqEqual
    <3>7. Len(h) < w + Len(h[w].ids)
      BY <1>3, <2>2, <2>3, <2>4, <2>9
    <3> QED
      BY <2>2, <2>3, <3>3, <3>6, <3>7 DEF Open
  <2>10. CASE ~(x <= Len(t))
    <3>1. open = {}
      BY <2>4, <2>8, <2>10
    <3>2. Cardinality(open) = 0
      <4>1. Cardinality({}) = 0
        BY FS_EmptySet
      <4> QED
        BY <3>1, <4>1
    <3>3. Outstanding(h) = << >>
      <4>1. Outstanding(h) \in Seq(Nat)
        BY OutstandingTypes
      <4>2. DOMAIN Outstanding(h) = 1 .. 0
        BY <2>5, <3>2
      <4>3. Len(Outstanding(h)) = 0
        BY <4>1, <4>2
      <4> QED
        BY <4>1, <4>3
    <3>4. Answered(h)
      <4> SUFFICES ASSUME NEW i \in DOMAIN h, Asks(h, i)
                   PROVE  i + Len(h[i].ids) <= Len(h)
        BY DEF Answered
      <4>1. i <= w /\ i \in Nat /\ Len(h[i].ids) \in Nat /\ w <= Len(h)
        BY <1>3, <1>4, <2>2
      <4>2. CASE i = w
        BY <1>3, <2>2, <2>3, <2>4, <2>10, <4>2
      <4>3. CASE i < w
        <5>1. i + Len(h[i].ids) < w
          BY <2>2, <4>3, ResponsesApart
        <5> QED
          BY <1>3, <2>2, <4>1, <5>1
      <4> QED
        BY <2>2, <4>1, <4>2, <4>3
    <3> QED
      BY <3>3, <3>4 DEF Open
  <2> QED
    BY <2>9, <2>10
<1> QED
  BY <1>5, <1>6

LEMMA RepairShape ==
  ASSUME NEW h \in Seq(Msgs), NEW n, Shape(h, n), running # "prompt" => Answered(h)
  PROVE  /\ h \o Repair(h) \in Seq(Msgs) /\ Shape(h \o Repair(h), n) /\ Answered(h \o Repair(h))
         /\ running # "prompt" => Repair(h) = << >>
<1>1. PICK calls, r : calls = Outstanding(h) /\ r = Results(calls)
  OBVIOUS
<1>2. /\ calls \in Seq(Nat) /\ Open(h, calls)
      /\ r \in Seq(Msgs) /\ h \o r \in Seq(Msgs) /\ Shape(h \o r, n) /\ Answered(h \o r)
  BY <1>1, OutstandingTypes, OutstandingOpen, ShapeAnswered, ResultsTypes
<1>3. CASE Repair(h) = << >>
  <2>1. Answered(h)
    <3>1. CASE running # "prompt"
      BY <3>1
    <3>2. CASE running = "prompt"
      <4>1. r = << >>
        <5>1. Append(r, Marker) # << >>
          BY <1>2, MessageTypes, AppendNonempty
        <5> QED
          BY <1>1, <1>3, <3>2, <5>1 DEF Repair
      <4>2. h \o r = h
        BY <4>1, ConcatEmptySeq
      <4> QED
        BY <1>2, <4>2
    <3> QED
      BY <3>1, <3>2
  <2>2. h \o << >> = h
    BY ConcatEmptySeq
  <2> QED
    BY <1>3, <2>1, <2>2
<1>4. CASE Repair(h) # << >>
  <2>1. Repair(h) = Append(r, Marker) /\ running = "prompt"
    BY <1>1, <1>4 DEF Repair
  <2>2. PICK g : g = h \o r
    OBVIOUS
  <2>3. Marker \in Msgs /\ Marker.role \notin {"assistant", "tool"} /\ Marker.ids = << >>
    BY MessageTypes DEF Marker, Message
  <2>4. Shape(g \o <<Marker>>, n) /\ Answered(g \o <<Marker>>)
    BY <1>2, <2>2, <2>3, ShapeOther
  <2>5. h \o Append(r, Marker) = g \o <<Marker>>
    <3>1. Append(r, Marker) = r \o <<Marker>>
      BY <1>2, <2>3, AppendIsConcat
    <3>2. <<Marker>> \in Seq(Msgs)
      BY <2>3
    <3>3. (h \o r) \o <<Marker>> = h \o (r \o <<Marker>>)
      BY <1>2, <3>2, ConcatAssociative
    <3> QED
      BY <2>2, <3>1, <3>3
  <2>6. g \o <<Marker>> \in Seq(Msgs)
    <3>1. g \in Seq(Msgs) /\ <<Marker>> \in Seq(Msgs)
      BY <1>2, <2>2, <2>3
    <3> QED
      BY <3>1, ConcatItems
  <2> QED
    BY <1>4, <2>1, <2>4, <2>5, <2>6
<1> QED
  BY <1>3, <1>4

\* The provider accepts such a history when every call is answered.
LEMMA ShapeAcceptable ==
  ASSUME NEW h \in Seq(Msgs), NEW n, Shape(h, n), Answered(h)
  PROVE  Acceptable(h)
<1>1. /\ Len(h) \in Nat /\ DOMAIN h = 1 .. Len(h)
      /\ \A i \in 1 .. Len(h) : /\ h[i] \in Msgs
                                /\ DOMAIN h[i].ids = 1 .. Len(h[i].ids) /\ Len(h[i].ids) \in Nat
  BY HistoryTypes
<1>2. ASSUME NEW i \in DOMAIN h, h[i].role = "assistant", NEW c \in ToSet(h[i].ids)
      PROVE  Cardinality({j \in i + 1 .. Len(h) :
               h[j] \in {Result(c), [Result(c) EXCEPT !.pruned = TRUE]}}) = 1
  <2>1. PICK k \in DOMAIN h[i].ids : c = h[i].ids[k]
    BY <1>2 DEF ToSet
  <2>2. Asks(h, i)
    BY <1>2 DEF Asks
  <2>3. i + k \in i + 1 .. Len(h) /\ i + k \in DOMAIN h
    <3>1. i + Len(h[i].ids) <= Len(h)
      BY <2>2 DEF Answered
    <3> QED
      BY <1>1, <3>1
  <2>4. h[i + k].role = "tool" /\ h[i + k].ids = <<c>>
    BY <2>1, <2>2, <2>3, ResultHere
  <2>5. \A m \in Msgs : m \in {Result(c), [Result(c) EXCEPT !.pruned = TRUE]}
                          <=> m.role = "tool" /\ m.ids = <<c>>
    <3> TAKE m \in Msgs
    <3>1. m = [role |-> m.role, ids |-> m.ids, pruned |-> m.pruned] /\ m.pruned \in BOOLEAN
      BY DEF Msgs
    <3>2. Result(c) = [role |-> "tool", ids |-> <<c>>, pruned |-> FALSE]
      BY DEF Result, Message
    <3>3. [Result(c) EXCEPT !.pruned = TRUE] = [role |-> "tool", ids |-> <<c>>, pruned |-> TRUE]
      <4>1. PICK x : x = <<c>>
        OBVIOUS
      <4>2. PICK r : r = [role |-> "tool", ids |-> x, pruned |-> FALSE]
        OBVIOUS
      <4>3. [r EXCEPT !.pruned = TRUE] = [role |-> "tool", ids |-> x, pruned |-> TRUE]
        <5>1. r \in [role : {"tool"}, ids : {x}, pruned : BOOLEAN]
          BY <4>2
        <5>2. [r EXCEPT !.pruned = TRUE] \in [role : {"tool"}, ids : {x}, pruned : {TRUE}]
          BY <5>1
        <5>3. PICK e \in [role : {"tool"}, ids : {x}, pruned : {TRUE}] : e = [r EXCEPT !.pruned = TRUE]
          BY <5>2
        <5>4. e = [role |-> e.role, ids |-> e.ids, pruned |-> e.pruned]
          OBVIOUS
        <5>5. e.role = "tool" /\ e.ids = x /\ e.pruned = TRUE
          OBVIOUS
        <5> QED
          BY <5>3, <5>4, <5>5
      <4>4. Result(c) = r
        BY <3>2, <4>1, <4>2
      <4> QED
        BY <4>1, <4>3, <4>4
    <3>4. m.role = "tool" /\ m.ids = <<c>> /\ m.pruned = FALSE => m = Result(c)
      BY <3>1, <3>2
    <3>5. m.role = "tool" /\ m.ids = <<c>> /\ m.pruned = TRUE => m = [Result(c) EXCEPT !.pruned = TRUE]
      BY <3>1, <3>3
    <3>6. m = Result(c) => m.role = "tool" /\ m.ids = <<c>>
      BY <3>2
    <3>7. m = [Result(c) EXCEPT !.pruned = TRUE] => m.role = "tool" /\ m.ids = <<c>>
      BY <3>3
    <3> QED
      BY <3>1, <3>4, <3>5, <3>6, <3>7, Zenon
  <2>6. ASSUME NEW j \in i + 1 .. Len(h), h[j].role = "tool", h[j].ids = <<c>>
        PROVE  j = i + k
    <3>1. j \in DOMAIN h
      BY <1>1
    <3>2. PICK w \in DOMAIN h : Asks(h, w) /\ \E l \in DOMAIN h[w].ids : j = w + l
      BY <2>6, <3>1 DEF Shape
    <3>3. PICK l \in DOMAIN h[w].ids : j = w + l
      BY <3>2
    <3>4. h[j].ids = <<h[w].ids[l]>>
      BY <3>1, <3>2, <3>3, ResultHere
    <3>5. h[w].ids[l] = h[i].ids[k]
      BY <2>1, <2>6, <3>4, ShortSequences
    <3>6. w = i /\ l = k
      BY <2>2, <3>2, <3>3, <3>5, CallsApart
    <3> QED
      BY <3>3, <3>6
  <2>7. \A j \in i + 1 .. Len(h) :
          h[j] \in {Result(c), [Result(c) EXCEPT !.pruned = TRUE]} <=> j = i + k
    <3> TAKE j \in i + 1 .. Len(h)
    <3>1. h[j] \in Msgs
      BY <1>1
    <3>2. h[j] \in {Result(c), [Result(c) EXCEPT !.pruned = TRUE]}
            <=> h[j].role = "tool" /\ h[j].ids = <<c>>
      BY <2>5, <3>1
    <3> QED
      BY <2>4, <2>6, <3>2
  <2>8. {j \in i + 1 .. Len(h) : h[j] \in {Result(c), [Result(c) EXCEPT !.pruned = TRUE]}} = {i + k}
    BY <2>3, <2>7
  <2>9. Cardinality({i + k}) = 1
    BY FS_Singleton
  <2> QED
    BY <2>8, <2>9
<1>3. ASSUME NEW i \in DOMAIN h, h[i].role = "tool"
      PROVE  \E j \in 1 .. i - 1 : h[j].role = "assistant" /\ h[i].ids[1] \in ToSet(h[j].ids)
  <2>1. PICK j \in DOMAIN h : Asks(h, j) /\ \E k \in DOMAIN h[j].ids : i = j + k
    BY <1>3 DEF Shape
  <2>2. PICK k \in DOMAIN h[j].ids : i = j + k
    BY <2>1
  <2>3. h[i].ids = <<h[j].ids[k]>>
    BY <2>1, <2>2, ResultHere
  <2>4. h[i].ids[1] = h[j].ids[k]
    BY <2>3
  <2>5. h[j].ids[k] \in ToSet(h[j].ids) /\ h[j].role = "assistant"
    BY <2>1 DEF ToSet, Asks
  <2>6. j \in 1 .. i - 1
    BY <1>1, <2>2
  <2> QED
    BY <2>4, <2>5, <2>6
<1> QED
  BY <1>2, <1>3 DEF Acceptable

-----------------------------------------------------------------------------
(* Every step keeps the history sound.                                     *)

\* A step of the generator that adds nothing to the history.
LEMMA QuietSound ==
  ASSUME Typed, Sound, Quiet, NEW from, NEW to, NEW yields, Moves(from, to, yields),
         counts'.calls \in Nat, counts.calls <= counts'.calls, to \notin {"failed", "down"},
         IF to \in Acting THEN Open(messages, turn'.calls) ELSE Answered(messages),
         to = "stream" => Fresh(messages, turn'.calls, counts'.calls),
         from # "mark", from # "outcome" \/ ~turn.aborted
  PROVE  Sound'
<1>1. /\ messages \in Seq(Msgs) /\ counts.calls \in Nat /\ messages' = messages /\ persisted' = persisted
      /\ turn.at = from /\ turn.yields = << >> /\ turn'.at = to /\ turn'.aborted = turn.aborted
  BY DEF Typed, Counts, Quiet, Moves
<1>2. Shape(messages, counts'.calls)
  BY <1>1, ShapeMore DEF Sound
<1>3. persisted = Len(messages)
  BY <1>1 DEF Sound
<1>4. Shape(messages', counts'.calls)
  BY <1>1, <1>2
<1>5. IF turn'.at \in Acting THEN Open(messages', turn'.calls) ELSE Answered(messages')
  BY <1>1
<1>6. turn'.at = "stream" => Fresh(messages', turn'.calls, counts'.calls)
  BY <1>1
<1> QED
  BY <1>1, <1>3, <1>4, <1>5, <1>6 DEF Sound

LEMMA FreshCalls ==
  ASSUME NEW h \in Seq(Msgs), NEW n \in Nat, Shape(h, n)
  PROVE  /\ Fresh(h, << >>, n)
         /\ \A calls \in Seq(Nat) : Fresh(h, calls, n) => Fresh(h, Append(calls, n + 1), n + 1)
<1>1. Fresh(h, << >>, n)
  BY DEF Fresh, IsInjective
<1>2. ASSUME NEW calls \in Seq(Nat), Fresh(h, calls, n)
      PROVE  Fresh(h, Append(calls, n + 1), n + 1)
  <2>1. PICK t, l : t = Append(calls, n + 1) /\ l = Len(calls)
    OBVIOUS
  <2>2. /\ l \in Nat /\ DOMAIN calls = 1 .. l /\ DOMAIN t = 1 .. l + 1 /\ t[l + 1] = n + 1
        /\ \A k \in 1 .. l : t[k] = calls[k] /\ calls[k] \in Nat
    <3>1. PICK m \in Nat : m = n + 1
      OBVIOUS
    <3>2. calls \in Seq(Nat) /\ t = Append(calls, m)
      BY <2>1, <3>1
    <3>3. l \in Nat /\ DOMAIN calls = 1 .. l /\ \A k \in 1 .. l : calls[k] \in Nat
      BY <2>1
    <3>4. DOMAIN t = 1 .. l + 1 /\ t[l + 1] = m /\ \A k \in 1 .. l : t[k] = calls[k]
      BY <2>1, <3>2
    <3> QED
      BY <3>1, <3>3, <3>4
  <2>3. \A k \in 1 .. l : calls[k] <= n
    BY <1>2, <2>2 DEF Fresh
  <2>4. IsInjective(t)
    <3>1. \A k, x \in 1 .. l : calls[k] = calls[x] => k = x
      BY <1>2, <2>2 DEF Fresh, IsInjective
    <3>2. \A k, x \in 1 .. l + 1 : t[k] = t[x] => k = x
      <4> TAKE k, x \in 1 .. l + 1
      <4> HAVE t[k] = t[x]
      <4>1. CASE k \in 1 .. l /\ x \in 1 .. l
        BY <2>2, <3>1, <4>1
      <4>2. CASE k \in 1 .. l /\ x = l + 1
        <5>1. t[k] <= n /\ t[k] \in Nat /\ t[x] = n + 1
          BY <2>2, <2>3, <4>2
        <5> QED
          BY <5>1
      <4>3. CASE k = l + 1 /\ x \in 1 .. l
        <5>1. t[x] <= n /\ t[x] \in Nat /\ t[k] = n + 1
          BY <2>2, <2>3, <4>3
        <5> QED
          BY <5>1
      <4>4. \A y \in 1 .. l + 1 : y \in 1 .. l \/ y = l + 1
        BY <2>2
      <4> QED
        BY <4>1, <4>2, <4>3, <4>4
    <3> QED
      BY <2>2, <3>2 DEF IsInjective
  <2>5. ASSUME NEW k \in DOMAIN t
        PROVE  t[k] <= n + 1 /\ \A i \in DOMAIN h : \A x \in DOMAIN h[i].ids : h[i].ids[x] # t[k]
    <3>1. CASE k \in 1 .. l
      <4>1. t[k] = calls[k] /\ calls[k] \in Nat /\ calls[k] <= n /\ k \in DOMAIN calls
        BY <2>2, <2>3, <3>1
      <4>2. \A i \in DOMAIN h : \A x \in DOMAIN h[i].ids : h[i].ids[x] # calls[k]
        BY <1>2, <4>1 DEF Fresh
      <4>3. t[k] <= n + 1
        BY <4>1
      <4> QED
        BY <4>1, <4>2, <4>3
    <3>2. CASE k = l + 1
      <4>1. t[k] = n + 1
        BY <2>2, <3>2
      <4>2. \A i \in DOMAIN h : \A x \in DOMAIN h[i].ids : h[i].ids[x] \in Nat /\ h[i].ids[x] <= n
        BY HistoryTypes DEF Shape
      <4> QED
        BY <4>1, <4>2
    <3> QED
      BY <2>2, <2>5, <3>1, <3>2
  <2>6. Fresh(h, t, n + 1)
    BY <2>4, <2>5 DEF Fresh
  <2> QED
    BY <2>1, <2>6
<1> QED
  BY <1>1, <1>2

LEMMA QuietStepsSound ==
  ASSUME Good, Sound,
         \/ SendAborted \/ SendRefused \/ Attempt \/ AttemptAborted \/ StreamText \/ StreamCall
         \/ StreamStopped \/ StreamRetried \/ Wake \/ OutcomeDone \/ Stopped \/ RunTool \/ NextStep
         \/ Summarise \/ SummaryRetried \/ SummaryStopped \/ SummaryDone
  PROVE  Sound'
<1>1. /\ Typed /\ turn \in Turns /\ messages \in Seq(Msgs) /\ account \in Accounts
      /\ counts \in Counts /\ counts.calls \in Nat /\ turn.calls \in Seq(Nat)
  BY DEF Good, Typed, Counts, Turns
<1>2. /\ Shape(messages, counts.calls)
      /\ turn.at \in Acting => Open(messages, turn.calls)
      /\ turn.at \notin Acting => Answered(messages)
      /\ turn.at = "stream" => Fresh(messages, turn.calls, counts.calls)
  BY DEF Sound
<1>3. Open(messages, << >>) <=> Answered(messages)
  BY <1>1, OpenNone
<1>4. counts'.calls = counts.calls => counts'.calls \in Nat /\ counts.calls <= counts'.calls
  BY <1>1
<1>5. CASE SendAborted \/ SendRefused
  <2>1. Quiet /\ counts'.calls = counts.calls
    BY <1>5 DEF SendAborted, SendRefused, Quiet
  <2>2. Moves("send", "end", <<"aborted">>) \/ Moves("send", "end", <<"error">>)
    BY <1>1, <1>5, SendMoves
  <2>3. Answered(messages)
    BY <1>2, <2>2 DEF Moves, Acting
  <2>5. CASE Moves("send", "end", <<"aborted">>)
    BY <1>1, <1>4, <2>1, <2>3, <2>5, QuietSound DEF Acting
  <2>6. CASE Moves("send", "end", <<"error">>)
    BY <1>1, <1>4, <2>1, <2>3, <2>6, QuietSound DEF Acting
  <2> QED
    BY <2>2, <2>5, <2>6
<1>6. CASE Attempt
  <2>1. Quiet /\ counts'.calls = counts.calls
    BY <1>6 DEF Attempt, Quiet
  <2>2. \/ Moves("step", "stream", << >>) /\ turn'.calls = << >>
        \/ Moves("step", "stopped", <<"error">>)
    BY <1>1, <1>6, StepMoves
  <2>3. Answered(messages)
    BY <1>2, <2>2 DEF Moves, Acting
  <2>4. Fresh(messages, << >>, counts'.calls)
    BY <1>1, <1>2, <2>1, FreshCalls
  <2>5. CASE Moves("step", "stream", << >>) /\ turn'.calls = << >>
    BY <1>1, <1>4, <2>1, <2>3, <2>4, <2>5, QuietSound DEF Acting
  <2>6. CASE Moves("step", "stopped", <<"error">>)
    BY <1>1, <1>4, <2>1, <2>3, <2>4, <2>6, QuietSound DEF Acting
  <2> QED
    BY <2>2, <2>5, <2>6
<1>7. CASE AttemptAborted
  <2>1. Quiet /\ counts'.calls = counts.calls
    BY <1>7 DEF AttemptAborted, Quiet
  <2>2. Moves("step", "outcome", << >>) /\ turn'.calls = << >>
    BY <1>1, <1>7, StepMoves
  <2>3. Open(messages, turn'.calls)
    BY <1>2, <1>3, <2>2 DEF Moves, Acting
  <2> QED
    BY <1>1, <1>4, <2>1, <2>2, <2>3, QuietSound DEF Acting
<1>8. CASE StreamText
  <2>1. Quiet /\ counts'.calls = counts.calls
    BY <1>8 DEF StreamText, Quiet
  <2>2. Moves("stream", "stream", << >>) /\ turn'.calls = turn.calls
    BY <1>1, <1>8, StepMoves DEF Keeps
  <2>3. Answered(messages) /\ Fresh(messages, turn'.calls, counts'.calls)
    BY <1>2, <2>1, <2>2 DEF Moves, Acting
  <2> QED
    BY <1>1, <1>4, <2>1, <2>2, <2>3, QuietSound DEF Acting
<1>9. CASE StreamCall
  <2>1. Quiet
    BY <1>9 DEF StreamCall, Quiet
  <2>2. counts'.calls = counts.calls + 1
    BY <1>1, <1>9, CountsTypes DEF StreamCall
  <2>3. Moves("stream", "stream", <<"tool_call">>) /\ turn'.calls = Append(turn.calls, counts.calls + 1)
    BY <1>1, <1>9, StepMoves
  <2>4. Answered(messages) /\ Fresh(messages, turn.calls, counts.calls)
    BY <1>2, <2>3 DEF Moves, Acting
  <2>5. Fresh(messages, turn'.calls, counts'.calls)
    BY <1>1, <1>2, <2>2, <2>3, <2>4, FreshCalls
  <2>6. counts'.calls \in Nat /\ counts.calls <= counts'.calls
    BY <1>1, <2>2
  <2> QED
    BY <1>1, <2>1, <2>3, <2>4, <2>5, <2>6, QuietSound DEF Acting
<1>10. CASE StreamStopped \/ StreamRetried
  <2>1. Quiet /\ counts'.calls = counts.calls
    BY <1>10 DEF StreamStopped, StreamRetried, Quiet
  <2>2. Moves("stream", "stopped", <<"error">>) \/ Moves("stream", "sleep", <<"retry">>)
    BY <1>1, <1>10, StepMoves
  <2>3. Answered(messages)
    BY <1>2, <2>2 DEF Moves, Acting
  <2>5. CASE Moves("stream", "stopped", <<"error">>)
    BY <1>1, <1>4, <2>1, <2>3, <2>5, QuietSound DEF Acting
  <2>6. CASE Moves("stream", "sleep", <<"retry">>)
    BY <1>1, <1>4, <2>1, <2>3, <2>6, QuietSound DEF Acting
  <2> QED
    BY <2>2, <2>5, <2>6
<1>11. CASE Wake
  <2>1. Quiet /\ counts'.calls = counts.calls
    BY <1>11 DEF Wake, Quiet
  <2>2. Moves("sleep", "step", << >>)
    BY <1>1, <1>11, StepMoves
  <2>3. Answered(messages)
    BY <1>2, <2>2 DEF Moves, Acting
  <2> QED
    BY <1>1, <1>4, <2>1, <2>2, <2>3, QuietSound DEF Acting
<1>12. CASE OutcomeDone
  <2>1. Quiet /\ counts'.calls = counts.calls
    BY <1>12 DEF OutcomeDone, Quiet
  <2>2. /\ Moves("outcome", IF turn.calls = << >> THEN "end" ELSE "tools", << >>) /\ ~turn.aborted
        /\ turn'.calls = turn.calls
    BY <1>1, <1>12, ToolMoves DEF Keeps
  <2>3. Open(messages, turn.calls)
    BY <1>2, <2>2 DEF Moves, Acting
  <2>4. CASE turn.calls = << >>
    <3>1. Moves("outcome", "end", << >>) /\ Answered(messages)
      BY <1>3, <2>2, <2>3, <2>4
    <3> QED
      BY <1>1, <1>4, <2>1, <2>2, <3>1, QuietSound DEF Acting
  <2>5. CASE turn.calls # << >>
    <3>1. Moves("outcome", "tools", << >>) /\ Open(messages, turn'.calls)
      BY <2>2, <2>3, <2>5
    <3> QED
      BY <1>1, <1>4, <2>1, <2>2, <3>1, QuietSound DEF Acting
  <2> QED
    BY <2>4, <2>5
<1>13. CASE Stopped
  <2>1. Quiet /\ counts'.calls = counts.calls
    BY <1>13 DEF Stopped, Quiet
  <2>2. Moves("stopped", "mark", << >>) \/ Moves("stopped", "end", << >>)
    BY <1>1, <1>13, ToolMoves
  <2>3. Answered(messages)
    BY <1>2, <2>2 DEF Moves, Acting
  <2>5. CASE Moves("stopped", "mark", << >>)
    BY <1>1, <1>4, <2>1, <2>3, <2>5, QuietSound DEF Acting
  <2>6. CASE Moves("stopped", "end", << >>)
    BY <1>1, <1>4, <2>1, <2>3, <2>6, QuietSound DEF Acting
  <2> QED
    BY <2>2, <2>5, <2>6
<1>14. CASE RunTool
  <2>1. Quiet /\ counts'.calls = counts.calls
    BY <1>14 DEF RunTool, Quiet
  <2>2. Moves("tools", "tool", << >>) /\ turn'.calls = turn.calls
    BY <1>1, <1>14, ToolMoves DEF Keeps
  <2>3. Open(messages, turn'.calls)
    BY <1>2, <2>2 DEF Moves, Acting
  <2> QED
    BY <1>1, <1>4, <2>1, <2>2, <2>3, QuietSound DEF Acting
<1>15. CASE NextStep
  <2>1. Quiet /\ counts'.calls = counts.calls
    BY <1>15 DEF NextStep, Quiet
  <2>2. Moves("tools", "step", << >>) /\ turn.calls = << >>
    BY <1>1, <1>15, ToolMoves
  <2>3. Answered(messages)
    BY <1>2, <1>3, <2>2 DEF Moves, Acting
  <2> QED
    BY <1>1, <1>4, <2>1, <2>2, <2>3, QuietSound DEF Acting
<1>16. CASE Summarise \/ SummaryRetried \/ SummaryStopped \/ SummaryDone
  <2>1. Quiet /\ counts'.calls = counts.calls
    BY <1>16 DEF Summarise, SummaryRetried, SummaryStopped, SummaryDone, Quiet
  <2>2. \/ Moves("summary", "summarising", << >>) \/ Moves("summary", "given up", <<"error">>)
        \/ Moves("summarising", "summary", <<"retry">>) \/ Moves("summarising", "given up", <<"error">>)
        \/ Moves("summarising", "summarised", << >>)
    BY <1>1, <1>16, SummaryMoves
  <2>3. Answered(messages)
    BY <1>2, <2>2 DEF Moves, Acting
  <2>5. CASE Moves("summary", "summarising", << >>)
    BY <1>1, <1>4, <2>1, <2>3, <2>5, QuietSound DEF Acting
  <2>6. CASE Moves("summary", "given up", <<"error">>)
    <3>1. PICK from, to, yields : from = "summary" /\ to = "given up" /\ yields = <<"error">>
      OBVIOUS
    <3>2. /\ from \notin {"mark", "outcome"} /\ to \notin {"failed", "down"} /\ to \notin Acting
          /\ to # "stream" /\ Moves(from, to, yields)
      BY <2>6, <3>1 DEF Acting
    <3> QED
      BY <1>1, <1>4, <2>1, <2>3, <3>2, QuietSound
  <2>7. CASE Moves("summarising", "summary", <<"retry">>)
    BY <1>1, <1>4, <2>1, <2>3, <2>7, QuietSound DEF Acting
  <2>8. CASE Moves("summarising", "given up", <<"error">>)
    <3>1. PICK from, to, yields : from = "summarising" /\ to = "given up" /\ yields = <<"error">>
      OBVIOUS
    <3>2. /\ from \notin {"mark", "outcome"} /\ to \notin {"failed", "down"} /\ to \notin Acting
          /\ to # "stream" /\ Moves(from, to, yields)
      BY <2>8, <3>1 DEF Acting
    <3> QED
      BY <1>1, <1>4, <2>1, <2>3, <3>2, QuietSound
  <2>9. CASE Moves("summarising", "summarised", << >>)
    BY <1>1, <1>4, <2>1, <2>3, <2>9, QuietSound DEF Acting
  <2> QED
    BY <2>2, <2>5, <2>6, <2>7, <2>8, <2>9
<1> QED
  BY <1>5, <1>6, <1>7, <1>8, <1>9, <1>10, <1>11, <1>12, <1>13, <1>14, <1>15, <1>16, Zenon

LEMMA OtherStepsSound ==
  ASSUME Good, Sound, Submit \/ BeginCompaction \/ GiveUp \/ Abort \/ SwitchAccount
  PROVE  Sound'
<1>1. /\ Typed /\ Placed /\ turn \in Turns /\ counts \in Counts
      /\ Shape(messages, counts.calls)
      /\ turn.at \notin Acting => Answered(messages)
  BY DEF Good, Typed, Sound
<1>2. ASSUME Submit \/ BeginCompaction \/ GiveUp
      PROVE  Sound'
  <2>1. /\ messages' = messages /\ persisted' = persisted /\ counts'.calls = counts.calls
        /\ turn.at \in {"idle", "given up", "summarised", "summary", "summarising"}
        /\ turn.yields = << >>
    <3>1. CASE Submit
      BY <1>1, <3>1, CountsTypes DEF Submit, Placed
    <3>2. CASE BeginCompaction
      BY <1>1, <3>2, CountsTypes DEF BeginCompaction, Placed
    <3>3. CASE GiveUp
      BY <3>3 DEF GiveUp, At
    <3> QED
      BY <1>2, <3>1, <3>2, <3>3
  <2>2. turn'.at \in {"send", "summary", "idle"}
    <3>1. "send" \in Places /\ "summary" \in Places /\ "idle" \in Places /\ 0 \in Nat
      BY Names
    <3>2. CASE Submit
      BY <3>1, <3>2, RestingTypes DEF Submit
    <3>3. CASE BeginCompaction
      <4>1. PICK cut : turn' = [Resting EXCEPT !.at = "summary", !.cut = cut]
        BY <3>3 DEF BeginCompaction
      <4> QED
        BY <4>1 DEF Resting
    <3>4. CASE GiveUp
      BY <3>1, <3>4, RestingTypes DEF GiveUp
    <3> QED
      BY <1>2, <3>2, <3>3, <3>4
  <2>3. persisted = Len(messages) /\ Answered(messages)
    BY <1>1, <2>1 DEF Sound, Acting
  <2> QED
    BY <1>1, <2>1, <2>2, <2>3 DEF Sound, Acting
<1>3. ASSUME Abort
      PROVE  Sound'
  <2>1. /\ turn'.at = turn.at /\ turn'.yields = turn.yields /\ turn'.calls = turn.calls /\ ~turn.aborted
        /\ messages' = messages /\ persisted' = persisted /\ counts' = counts
    BY <1>1, <1>3 DEF Abort, Turns
  <2> QED
    BY <2>1 DEF Sound
<1>4. ASSUME SwitchAccount
      PROVE  Sound'
  <2>1. turn' = turn /\ messages' = messages /\ persisted' = persisted /\ counts'.calls = counts.calls
    BY <1>1, <1>4, CountsTypes DEF SwitchAccount
  <2> QED
    BY <2>1 DEF Sound
<1> QED
  BY <1>2, <1>3, <1>4

LEMMA GrowingSound ==
  ASSUME Good, Sound,
         \/ Send \/ StreamDone \/ StreamAborted \/ OutcomeAborted \/ ToolsAborted \/ ToolReturns \/ Mark
  PROVE  Sound'
<1>1. /\ Typed /\ turn \in Turns /\ messages \in Seq(Msgs)
      /\ counts \in Counts /\ counts.calls \in Nat /\ turn.calls \in Seq(Nat)
  BY DEF Good, Typed, Counts, Turns
<1>2. /\ Shape(messages, counts.calls)
      /\ turn.at \in Acting => Open(messages, turn.calls)
      /\ turn.at \notin Acting => Answered(messages)
      /\ turn.at = "stream" => Fresh(messages, turn.calls, counts.calls)
  BY DEF Sound
<1>3. CASE Send
  <2>1. PICK m : m = Message("user", << >>)
    OBVIOUS
  <2>2. Grown(<<m>>, "send", "step", <<"delivered">>)
    BY <1>3, <2>1, SendKeeps
  <2>3. m \in Msgs /\ m.role \notin {"assistant", "tool"} /\ m.ids = << >>
    BY <2>1, MessageTypes DEF Message
  <2>4. Answered(messages)
    BY <1>2, <2>2 DEF Grown, Moves, Acting
  <2>5. Shape(messages \o <<m>>, counts.calls) /\ Answered(messages \o <<m>>)
    BY <1>1, <1>2, <2>3, <2>4, ShapeOther
  <2>6. <<"delivered">> # << >>
    OBVIOUS
  <2> QED
    BY <2>2, <2>5, <2>6 DEF Grown, Moves, Sound, Acting
<1>4. CASE StreamDone \/ StreamAborted
  <2>1. PICK m : m = Message("assistant", turn.calls)
    OBVIOUS
  <2>2. /\ turn'.calls = turn.calls
        /\ \/ Grown(<<m>>, "stream", "outcome", <<"completed">>)
           \/ Grown(<<m>>, "stream", "outcome", << >>) /\ turn.aborted
           \/ /\ Moves("stream", "outcome", << >>) /\ Quiet /\ UNCHANGED counts
              /\ turn.calls = << >> /\ turn.aborted
    <3>1. CASE StreamDone
      BY <2>1, <3>1, GrownBy
    <3>2. CASE StreamAborted
      <4>1. turn.aborted
        BY <3>2 DEF StreamAborted
      <4> QED
        BY <2>1, <3>2, <4>1, GrownBy
    <3> QED
      BY <1>4, <3>1, <3>2
  <2>3. turn.at = "stream"
    BY <2>2 DEF Grown, Moves
  <2>4. Answered(messages) /\ Fresh(messages, turn.calls, counts.calls)
    BY <1>2, <2>3 DEF Acting
  <2>5. Shape(messages \o <<m>>, counts.calls) /\ Open(messages \o <<m>>, turn.calls)
    BY <1>1, <1>2, <2>1, <2>4, ShapeAsks
  <2>6. <<"completed">> # << >>
    OBVIOUS
  <2>7. CASE Grown(<<m>>, "stream", "outcome", <<"completed">>)
    BY <2>2, <2>5, <2>6, <2>7 DEF Grown, Moves, Sound, Acting
  <2>8. CASE Grown(<<m>>, "stream", "outcome", << >>) /\ turn.aborted
    BY <2>2, <2>5, <2>8 DEF Grown, Moves, Sound, Acting
  <2>9. CASE /\ Moves("stream", "outcome", << >>) /\ Quiet /\ UNCHANGED counts
             /\ turn.calls = << >> /\ turn.aborted
    <3>1. Open(messages, turn.calls)
      BY <1>1, <2>4, <2>9, OpenNone
    <3> QED
      BY <1>2, <2>2, <2>9, <3>1 DEF Moves, Quiet, Sound, Acting
  <2> QED
    BY <2>2, <2>7, <2>8, <2>9
<1>5. CASE OutcomeAborted \/ ToolsAborted
  <2>1. PICK place \in {"outcome", "tools"} : Skip(place)
    BY <1>5 DEF OutcomeAborted, ToolsAborted
  <2>2. Grown(Results(turn.calls), place, "mark", [i \in DOMAIN turn.calls |-> "result"])
    BY <2>1, GrownBy
  <2>3. Open(messages, turn.calls)
    BY <1>2, <2>2 DEF Grown, Moves, Acting
  <2>4. Shape(messages \o Results(turn.calls), counts.calls) /\ Answered(messages \o Results(turn.calls))
    BY <1>1, <1>2, <2>3, ShapeAnswered
  <2> QED
    BY <2>2, <2>4 DEF Grown, Moves, Sound, Acting
<1>6. CASE ToolReturns
  <2>1. /\ turn.calls # << >> /\ turn'.calls = Tail(turn.calls)
        /\ Grown(<<Result(Head(turn.calls))>>, "tool", "tools", <<"result">>)
    BY <1>6, GrownBy
  <2>2. Open(messages, turn.calls)
    BY <1>2, <2>1 DEF Grown, Moves, Acting
  <2>3. /\ Shape(messages \o <<Result(Head(turn.calls))>>, counts.calls)
        /\ Open(messages \o <<Result(Head(turn.calls))>>, Tail(turn.calls))
    BY <1>1, <1>2, <2>1, <2>2, ShapeAnswer
  <2>4. <<"result">> # << >>
    OBVIOUS
  <2> QED
    BY <2>1, <2>3, <2>4 DEF Grown, Moves, Sound, Acting
<1>7. CASE Mark
  <2>1. Grown(<<Marker>>, "mark", "end", <<"aborted">>)
    BY <1>7, GrownBy
  <2>2. Marker \in Msgs /\ Marker.role \notin {"assistant", "tool"} /\ Marker.ids = << >>
    BY MessageTypes DEF Marker, Message
  <2>3. Answered(messages)
    BY <1>2, <2>1 DEF Grown, Moves, Acting
  <2>4. Shape(messages \o <<Marker>>, counts.calls) /\ Answered(messages \o <<Marker>>)
    BY <1>1, <1>2, <2>2, <2>3, ShapeOther
  <2>5. <<"aborted">> # << >>
    OBVIOUS
  <2> QED
    BY <2>1, <2>4, <2>5 DEF Grown, Moves, Sound, Acting
<1> QED
  BY <1>3, <1>4, <1>5, <1>6, <1>7

LEMMA RecordedSound ==
  ASSUME Good, Sound, Record \/ EndTurn \/ Prune \/ Compact
  PROVE  Sound'
<1>1. /\ Typed /\ turn \in Turns /\ messages \in Seq(Msgs)
      /\ Shape(messages, counts.calls) /\ (turn.at \notin Acting => Answered(messages))
  BY DEF Good, Typed, Sound
<1>2. CASE Record
  <2>1. turn'.at = turn.at /\ turn'.calls = turn.calls
    BY <1>1, <1>2, RecordMoves
  <2>2. messages' = messages /\ counts' = counts /\ persisted' = Len(messages')
    BY <1>2 DEF Record
  <2> QED
    BY <2>1, <2>2 DEF Sound
<1>3. CASE EndTurn
  <2>1. turn'.at = "idle"
    <3>1. "idle" \in Places /\ 0 \in Nat
      BY Names
    <3> QED
      BY <1>3, <3>1, RestingTypes DEF EndTurn
  <2>2. turn.at = "end" /\ turn.yields = << >> /\ messages' = messages /\ counts' = counts
    BY <1>3 DEF EndTurn, Sound
  <2>3. persisted' = Len(messages)
    <3>1. persisted = Len(messages)
      BY <2>2 DEF Sound
    <3> QED
      BY <1>3, <3>1 DEF EndTurn
  <2> QED
    BY <1>1, <2>1, <2>2, <2>3 DEF Sound, Acting
<1>4. CASE Prune
  <2>1. /\ UNCHANGED <<turn, running>> /\ turn.at = "idle" /\ counts'.calls = counts.calls
        /\ persisted' = Len(messages')
    BY <1>4, PruneKeeps
  <2>2. PICK ids : messages' = ApplyPrune(messages, ids)
    BY <1>4, PruneKeeps
  <2>3. Shape(messages', counts.calls) /\ Answered(messages')
    BY <1>1, <2>1, <2>2, ShapePruned DEF Acting
  <2> QED
    BY <2>1, <2>3 DEF Sound, Acting
<1>5. CASE Compact
  <2>1. /\ turn'.at = "idle" /\ UNCHANGED counts
        /\ turn.cut \in 2 .. Len(messages) /\ IsCutMessage(messages[turn.cut])
        /\ messages' = <<Summary>> \o SubSeq(messages, turn.cut, Len(messages))
        /\ persisted' = Len(messages') /\ turn.at = "summarised"
    BY <1>5, CompactKeeps
  <2>2. turn.cut \in DOMAIN messages
    <3>1. Len(messages) \in Nat /\ DOMAIN messages = 1 .. Len(messages)
      BY <1>1
    <3> QED
      BY <2>1, <3>1
  <2>3. Shape(messages', counts.calls) /\ Answered(messages')
    BY <1>1, <2>1, <2>2, ShapeCut DEF Acting
  <2> QED
    BY <2>1, <2>3 DEF Sound, Acting
<1> QED
  BY <1>2, <1>3, <1>4, <1>5

LEMMA CrashRestorable ==
  ASSUME Good, Sound, Crash
  PROVE  Restorable' /\ turn'.at = "down"
<1>1. /\ Typed /\ Placed /\ messages \in Seq(Msgs) /\ Len(messages) \in Nat /\ persisted \in 0 .. Len(messages)
      /\ Shape(messages, counts.calls)
  BY DEF Good, Typed, Sound
<1>2. turn'.at = "down" /\ counts'.calls = counts.calls
  BY CrashKeeps
<1>3. PICK m \in persisted .. Len(messages) : Bare(Projected(log')) = SubSeq(messages, 1, m)
  BY CrashKeeps
<1>4. Replay(log') = SubSeq(messages, 1, m) /\ m \in 0 .. Len(messages)
  BY <1>1, <1>3 DEF Replay
<1>5. Shape(SubSeq(messages, 1, m), counts.calls)
  BY <1>1, <1>4, ShapePrefix
<1>6. running' = running /\ turn.at # "down"
  BY DEF Crash
<1>7. ASSUME running # "prompt"
      PROVE  Answered(SubSeq(messages, 1, m))
  <2>1. turn.at \in {"idle"} \cup Compacting
    BY <1>1, <1>6, <1>7 DEF Placed, Typed
  <2>2. persisted = Len(messages)
    <3>1. CASE turn.at = "idle"
      BY <1>1, <3>1 DEF Placed, Sound
    <3>2. CASE turn.at \in Compacting
      BY <1>1, <3>2 DEF Placed
    <3> QED
      BY <2>1, <3>1, <3>2
  <2>3. m = Len(messages)
    BY <1>1, <2>2
  <2>4. SubSeq(messages, 1, m) = messages
    BY <1>1, <2>3
  <2>5. Answered(messages)
    BY <2>1 DEF Sound, Acting, Compacting
  <2> QED
    BY <2>4, <2>5
<1> QED
  BY <1>2, <1>4, <1>5, <1>6, <1>7 DEF Restorable

LEMMA RestartSound ==
  ASSUME Good, Restorable
  PROVE  /\ RecoverFails => Restorable' /\ turn'.at = "down"
         /\ Recover => Sound' /\ turn'.at = "idle"
<1>1. PICK h, n, r : h = Replay(log) /\ n = counts.calls /\ r = Repair(h)
  OBVIOUS
<1>2. Shape(h, n) /\ (running # "prompt" => Answered(h))
  BY <1>1 DEF Restorable
<1>3. ASSUME RecoverFails
      PROVE  Restorable' /\ turn'.at = "down"
  <2>1. /\ turn' = turn /\ running' = running /\ turn.at = "down" /\ counts'.calls = n
        /\ h \in Seq(Msgs) /\ r \in Seq(Msgs)
    BY <1>1, <1>3, RecoverFailsKeeps
  <2>2. PICK m \in 0 .. Len(r) : Bare(Projected(log')) = h \o SubSeq(r, 1, m)
    BY <1>1, <1>3, RecoverFailsKeeps
  <2>3. /\ h \o r \in Seq(Msgs) /\ Shape(h \o r, n) /\ Answered(h \o r)
        /\ running # "prompt" => r = << >>
    BY <1>1, <1>2, <2>1, RepairShape
  <2>4. PICK g, x : g = h \o r /\ x = Len(h) + m
    OBVIOUS
  <2>5. x \in 0 .. Len(g) /\ SubSeq(g, 1, x) = h \o SubSeq(r, 1, m)
    <3>1. Len(h) \in Nat /\ Len(r) \in Nat /\ m \in Nat /\ m <= Len(r) /\ Len(g) = Len(h) + Len(r)
      <4>1. Len(h \o r) = Len(h) + Len(r)
        BY <2>1, ConcatItems
      <4> QED
        BY <2>1, <2>4, <4>1
    <3>2. x \in 0 .. Len(h) + Len(r)
      BY <2>4, <3>1
    <3>3. SubSeq(h \o r, 1, x) = SubSeq(h, 1, IF x <= Len(h) THEN x ELSE Len(h))
                                   \o SubSeq(r, 1, IF x <= Len(h) THEN 0 ELSE x - Len(h))
      BY <2>1, <3>2, ConcatPrefix
    <3>4. SubSeq(h, 1, Len(h)) = h
      BY <2>1
    <3>5. (IF x <= Len(h) THEN x ELSE Len(h)) = Len(h) /\ (IF x <= Len(h) THEN 0 ELSE x - Len(h)) = m
      BY <2>4, <3>1
    <3> QED
      BY <2>4, <3>1, <3>2, <3>3, <3>4, <3>5
  <2>6. Shape(SubSeq(g, 1, x), n)
    BY <2>3, <2>4, <2>5, ShapePrefix
  <2>7. Replay(log') = SubSeq(g, 1, x)
    BY <2>2, <2>5 DEF Replay
  <2>8. ASSUME running # "prompt"
        PROVE  Answered(Replay(log'))
    <3>1. r = << >>
      BY <2>3, <2>8
    <3>2. SubSeq(r, 1, m) = << >>
      BY <2>2, <3>1
    <3>3. h \o << >> = h
      BY <2>1, ConcatEmptySeq
    <3>4. Replay(log') = h
      BY <2>2, <3>2, <3>3 DEF Replay
    <3> QED
      BY <1>2, <2>8, <3>4
  <2> QED
    BY <2>1, <2>6, <2>7, <2>8 DEF Restorable
<1>4. ASSUME Recover
      PROVE  Sound' /\ turn'.at = "idle"
  <2>1. /\ turn'.at = "idle" /\ turn'.yields = << >> /\ UNCHANGED counts /\ h \in Seq(Msgs)
        /\ messages' = h \o r /\ persisted' = Len(messages')
    BY <1>1, <1>4, RecoverKeeps
  <2>2. Shape(h \o r, n) /\ Answered(h \o r)
    BY <1>1, <1>2, <2>1, RepairShape
  <2> QED
    BY <1>1, <2>1, <2>2 DEF Sound, Acting
<1> QED
  BY <1>3, <1>4

-----------------------------------------------------------------------------
(* The invariant, and what follows from it.                                *)

\* After a crash there is only the restart.
LEMMA DownSteps ==
  ASSUME Good, turn.at = "down", Next
  PROVE  SwitchAccount \/ RecoverFails \/ Recover
<1>1. turn.yields = << >> /\ \A place : At(place) => place = "down"
  BY DEF Good, Placed, At
<1>2. ~(Submit \/ Record \/ RecordFails \/ EndTurn \/ Prune \/ BeginCompaction \/ Abort \/ Crash)
  BY <1>1 DEF Submit, Record, RecordFails, EndTurn, Prune, BeginCompaction, Abort, Crash
<1>3. ~(SendAborted \/ SendRefused \/ Send \/ Attempt \/ AttemptAborted \/ StreamText \/ StreamCall)
  BY <1>1 DEF SendAborted, SendRefused, Send, Attempt, AttemptAborted, StreamText, StreamCall
<1>4. ~(StreamDone \/ StreamStopped \/ StreamRetried \/ StreamAborted \/ Wake \/ OutcomeAborted)
  BY <1>1 DEF StreamDone, StreamStopped, StreamRetried, StreamAborted, Wake, OutcomeAborted, Skip
<1>5. ~(OutcomeDone \/ Stopped \/ RunTool \/ ToolReturns \/ ToolsAborted \/ NextStep \/ Mark)
  BY <1>1 DEF OutcomeDone, Stopped, RunTool, ToolReturns, ToolsAborted, Skip, NextStep, Mark
<1>6. ~(Summarise \/ SummaryRetried \/ SummaryStopped \/ SummaryDone \/ Compact \/ GiveUp)
  BY <1>1 DEF Summarise, SummaryRetried, SummaryStopped, SummaryDone, Compact, GiveUp
<1> QED
  BY <1>2, <1>3, <1>4, <1>5, <1>6, Zenon DEF Next

LEMMA DownKept ==
  ASSUME Good, turn.at = "down", Restorable, [Next]_vars
  PROVE  IF turn'.at = "down" THEN Restorable' ELSE Sound'
<1>1. counts \in Counts
  BY DEF Good, Typed
<1>2. CASE SwitchAccount \/ UNCHANGED vars
  <2>1. UNCHANGED <<log, running, turn>> /\ counts'.calls = counts.calls
    BY <1>1, <1>2, CountsTypes DEF SwitchAccount, vars
  <2> QED
    BY <2>1 DEF Restorable
<1>3. CASE RecoverFails
  BY <1>3, RestartSound
<1>4. CASE Recover
  <2>1. Sound' /\ turn'.at = "idle"
    BY <1>4, RestartSound
  <2> QED
    BY <2>1
<1> QED
  BY <1>2, <1>3, <1>4, DownSteps

LEMMA SoundKept ==
  ASSUME Good, Sound, [Next]_vars, counts'.failed = counts.failed
  PROVE  IF turn'.at = "down" THEN Restorable' ELSE Sound'
<1>1. Sound' => turn'.at # "down"
  BY DEF Sound
<1>2. turn.at # "down" /\ counts.failed \in Nat
  BY DEF Sound, Good, Typed, Counts
<1>3. CASE \/ SendAborted \/ SendRefused \/ Attempt \/ AttemptAborted \/ StreamText \/ StreamCall
           \/ StreamStopped \/ StreamRetried \/ Wake \/ OutcomeDone \/ Stopped \/ RunTool \/ NextStep
           \/ Summarise \/ SummaryRetried \/ SummaryStopped \/ SummaryDone
  BY <1>1, <1>3, QuietStepsSound
<1>4. CASE Submit \/ BeginCompaction \/ GiveUp \/ Abort \/ SwitchAccount
  BY <1>1, <1>4, OtherStepsSound
<1>5. CASE \/ Send \/ StreamDone \/ StreamAborted \/ OutcomeAborted \/ ToolsAborted \/ ToolReturns
           \/ Mark
  BY <1>1, <1>5, GrowingSound
<1>6. CASE Record \/ EndTurn \/ Prune \/ Compact
  BY <1>1, <1>6, RecordedSound
<1>7. CASE RecordFails
  <2>1. counts' = [counts EXCEPT !.faults = counts.faults + 1, !.failed = counts.failed + 1]
        /\ counts \in Counts
    BY <1>7 DEF RecordFails, Good, Typed
  <2>2. counts'.failed = counts.failed + 1
    BY <2>1 DEF Counts
  <2> QED
    BY <1>2, <2>2
<1>8. CASE Crash
  BY <1>8, CrashRestorable
<1>9. CASE RecoverFails \/ Recover
  BY <1>2, <1>9 DEF RecoverFails, Recover
<1>10. CASE UNCHANGED vars
  <2>1. UNCHANGED <<messages, persisted, turn, counts>>
    BY <1>10 DEF vars
  <2>2. Sound'
    BY <2>1 DEF Sound
  <2> QED
    BY <1>1, <2>2
<1> QED
  BY <1>3, <1>4, <1>5, <1>6, <1>7, <1>8, <1>9, <1>10, Zenon DEF Next

\* An append that failed stays counted.
LEMMA FailedGrows ==
  ASSUME Good, [Next]_vars, counts'.failed = 0
  PROVE  counts.failed = 0 /\ counts'.failed = counts.failed
<1>1. counts \in Counts /\ counts.failed \in Nat
  BY DEF Good, Typed, Counts
<1>2. CASE RecordFails
  <2>1. counts' = [counts EXCEPT !.faults = counts.faults + 1, !.failed = counts.failed + 1]
    BY <1>2 DEF RecordFails
  <2>2. counts'.failed = counts.failed + 1
    BY <1>1, <2>1 DEF Counts
  <2> QED
    BY <1>1, <2>2
<1>3. CASE Submit \/ BeginCompaction \/ StreamCall \/ Prune \/ SwitchAccount \/ Crash \/ RecoverFails
  <2>1. Count("turns") \/ Count("changes") \/ Count("calls") \/ Count("faults") \/ Count("torn")
    BY <1>3 DEF Submit, BeginCompaction, StreamCall, Prune, SwitchAccount, Crash, RecoverFails
  <2>2. counts'.failed = counts.failed
    BY <1>1, <2>1, CountsTypes
  <2> QED
    BY <2>2
<1>4. CASE UNCHANGED counts
  BY <1>4
<1>5. SendAborted \/ SendRefused \/ Send \/ Attempt \/ AttemptAborted \/ StreamText => UNCHANGED counts
  BY DEF SendAborted, SendRefused, Send, Attempt, AttemptAborted, StreamText
<1>6. StreamDone \/ StreamStopped \/ StreamRetried \/ StreamAborted \/ Wake \/ OutcomeAborted
        => UNCHANGED counts
  BY DEF StreamDone, StreamStopped, StreamRetried, StreamAborted, Wake, OutcomeAborted, Skip
<1>7. OutcomeDone \/ Stopped \/ RunTool \/ ToolReturns \/ ToolsAborted \/ NextStep \/ Mark
        => UNCHANGED counts
  BY DEF OutcomeDone, Stopped, RunTool, ToolReturns, ToolsAborted, Skip, NextStep, Mark
<1>8. Summarise \/ SummaryRetried \/ SummaryStopped \/ SummaryDone \/ Compact \/ GiveUp
        => UNCHANGED counts
  BY DEF Summarise, SummaryRetried, SummaryStopped, SummaryDone, Compact, GiveUp
<1>9. Record \/ EndTurn \/ Abort \/ Recover \/ UNCHANGED vars => UNCHANGED counts
  BY DEF Record, EndTurn, Abort, Recover, vars
<1> QED
  BY <1>2, <1>3, <1>4, <1>5, <1>6, <1>7, <1>8, <1>9, Zenon DEF Next

LEMMA HarnessInvAtFirst ==
  ASSUME Init
  PROVE  HarnessInv
<1>1. Good
  BY GoodAtFirst
<1>2. messages = << >> /\ persisted = 0 /\ turn.at = "idle"
  <2>1. "idle" \in Places /\ 0 \in Nat
    BY Names
  <2> QED
    BY <2>1, RestingTypes DEF Init
<1>3. DOMAIN << >> = {} /\ Len(<< >>) = 0
  OBVIOUS
<1>4. Sound
  BY <1>2, <1>3 DEF Sound, Shape, Answered, Acting
<1> QED
  BY <1>1, <1>2, <1>4 DEF HarnessInv, Good

LEMMA HarnessInvKept ==
  ASSUME HarnessInv, [Next]_vars
  PROVE  HarnessInv'
<1>1. Good
  BY DEF HarnessInv, Good
<1>2. Typed' /\ Placed' /\ Loyal' /\ Rebuilt'
  BY <1>1, GoodKept DEF Good
<1>3. ASSUME counts'.failed = 0
      PROVE  IF turn'.at = "down" THEN Restorable' ELSE Sound'
  <2>1. counts.failed = 0 /\ counts'.failed = counts.failed
    BY <1>1, <1>3, FailedGrows
  <2>2. CASE turn.at = "down"
    <3>1. Restorable
      BY <2>1, <2>2 DEF HarnessInv
    <3> QED
      BY <1>1, <2>2, <3>1, DownKept
  <2>3. CASE turn.at # "down"
    <3>1. Sound
      BY <2>1, <2>3 DEF HarnessInv
    <3> QED
      BY <1>1, <2>1, <3>1, SoundKept
  <2> QED
    BY <2>2, <2>3
<1> QED
  BY <1>2, <1>3 DEF HarnessInv

\* What the session holds in memory and in its log: their types, the place of the generator within
\* what the queue runs, one account, the replay, and, until an append fails, results that follow
\* their calls in order, in memory and in what a restart would find.
THEOREM HarnessInvariant == Spec => []HarnessInv
<1>1. Init => HarnessInv
  BY HarnessInvAtFirst
<1>2. HarnessInv /\ [Next]_vars => HarnessInv'
  BY HarnessInvKept
<1> QED
  BY <1>1, <1>2, PTL DEF Spec

\* No history is sent to the provider in which a call lacks its result or a result its call, however
\* turns were aborted, stopped by a crash in the middle of an append, repaired, compacted or pruned.
THEOREM RequestAnsweredHolds == Spec => []RequestAnswered
<1>1. HarnessInv => RequestAnswered
  <2> SUFFICES ASSUME HarnessInv, turn.at = "stream", counts.failed = 0
               PROVE  Acceptable(messages)
    BY DEF RequestAnswered
  <2>1. Sound /\ messages \in Seq(Msgs)
    BY DEF HarnessInv, Typed
  <2>2. Shape(messages, counts.calls) /\ Answered(messages)
    BY <2>1 DEF Sound, Acting
  <2> QED
    BY <2>1, <2>2, ShapeAcceptable
<1> QED
  BY <1>1, HarnessInvariant, PTL
=============================================================================
