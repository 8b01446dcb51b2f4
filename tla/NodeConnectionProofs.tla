------------------------ MODULE NodeConnectionProofs ------------------------
(***************************************************************************)
(* Of NodeConnection, for any number of sessions, calls, connections,      *)
(* tokens and faults: the types, that a revoked node is not in the         *)
(* registry, and that a call which succeeded has its records on the plane, *)
(* unless the plane rejected a batch of its session.                       *)
(***************************************************************************)
EXTENDS NodeConnection, SequenceFacts

-----------------------------------------------------------------------------
(* The inductive invariant. *)

\* A token on the way was issued, and records on the way were written by the node, which
\* has them as long as no batch of the session was rejected.
FramesOfNode ==
  \A c \in Connections : \A m \in ToSet(toPlane[c]) :
    /\ m.type = "enroll" => m.value \in Tokens
    /\ m.type = "records" =>
         m.value.changes <= log[m.value.session] \/ m.value.session \in spoiled

\* An acknowledgement on the way is of records that the plane has, and a rejection of a
\* session that is spoiled.
Backed(m) ==
  /\ m.type = "ack" => m.value.changes <= canon[m.value.session]
  /\ m.type = "reject" => m.value.session \in spoiled

FramesOfPlane == \A c \in Connections : \A m \in ToSet(toNode[c]) : Backed(m)

\* Nothing is known of a connection before the node opens it.
Unopened ==
  /\ Attached => opened # 0
  /\ \A c \in Connections : c > opened => phase[c] = "none" /\ toNode[c] = << >>
  /\ \A i \in Calls : via[i] <= opened

\* No connection gets past a revocation that found none between hello and registration.
NoneSlipped ==
  revoked /\ ~slipped =>
    /\ registered = NoConnection
    /\ \A c \in Connections : phase[c] \notin {"hello", "draining"}

HasReady(q) == \E m \in ToSet(q) : m.type = "ready"
CallsAfterReady(q) ==
  \A j \in DOMAIN q : q[j].type = "call" => \E k \in 1 .. j - 1 : q[k].type = "ready"

(***************************************************************************)
(* The node gets a call of its connection when its link is ready: the      *)
(* frame that makes it so was sent before.  So it answers such a call with *)
(* its records flushed.                                                    *)
(***************************************************************************)
ReadyBeforeCalls ==
  Attached =>
    /\ link # "ready" => CallsAfterReady(toNode[Current])
    /\ link # "ready" /\ sock[Current] = "open" /\ phase[Current] = "ready"
         => HasReady(toNode[Current])
    /\ \A i \in handling \cup answering : via[i] = Current => link = "ready"

CallFrame(i) == Frame("call", i)
ResultFrame(i) == Frame("result", i)
Answered(i) == call[i] = "ok" \/ \E d \in Connections : ResultFrame(i) \in ToSet(toPlane[d])
CallsOnce(q) == \A j, k \in DOMAIN q : q[j].type = "call" /\ q[j] = q[k] => j = k

\* A call is in one place at most, and before its answer in none where it would be executed.
OnePlace ==
  /\ \A c \in Connections : CallsOnce(toNode[c])
  /\ \A i \in Calls : call[i] = "none" =>
       /\ i \notin handling \cup answering /\ ~Answered(i)
       /\ \A c \in Connections : CallFrame(i) \notin ToSet(toNode[c])
  /\ \A c \in Connections : \A i \in Calls : CallFrame(i) \in ToSet(toNode[c]) =>
       via[i] = c /\ i \notin handling \cup answering /\ ~Answered(i)
  /\ \A i \in handling : i \notin answering /\ ~Answered(i)

AnsweredIsDurable ==
  \A i \in Calls : Answered(i) => canon[Target[i]] >= started[i] \/ Target[i] \in spoiled

ConnectionInv ==
  /\ TypeOK /\ FramesOfNode /\ FramesOfPlane /\ Unopened /\ NoneSlipped
  /\ ReadyBeforeCalls /\ OnePlace /\ AnsweredIsDurable

-----------------------------------------------------------------------------
(* Which action changes what. *)

LEMMA Changes ==
  ASSUME Next
  PROVE  /\ \/ UNCHANGED credentials \/ Revoke
            \/ \E c \in Connections : ReceiveEnroll(c)
         /\ \/ UNCHANGED socketVars \/ Open \/ Revoke \/ PlaneStops
            \/ \E c \in Connections : ReceiveEnroll(c) \/ ReceiveAuth(c) \/ AuthTimeout(c)
                  \/ ReceiveHello(c) \/ ReceiveDrained(c) \/ PlaneNotices(c)
         /\ \/ UNCHANGED callVars \/ Revoke \/ PlaneStops
            \/ \E c \in Connections : ReceiveHello(c) \/ ReceiveResult(c)
                  \/ PlaneNotices(c)
            \/ \E i \in Calls : Call(i) \/ CallTimeout(i)
         /\ \/ UNCHANGED toPlane \/ Open \/ ReceiveWelcome \/ Drained \/ PlaneStops
            \/ \E c \in Connections : ReceiveEnroll(c) \/ ReceiveAuth(c) \/ ReceiveHello(c)
                  \/ ReceiveRecords(c) \/ ReceiveDrained(c) \/ ReceiveResult(c)
                  \/ PlaneNotices(c)
            \/ \E i \in Calls : Answer(i)
            \/ \E s \in Sessions : Flush(s)
         /\ \/ UNCHANGED toNode \/ NodeReceives \/ NodeNotices \/ Crash
            \/ \E c \in Connections : ReceiveEnroll(c) \/ ReceiveAuth(c) \/ AuthTimeout(c)
                  \/ ReceiveRecords(c) \/ ReceiveDrained(c)
            \/ \E i \in Calls : Call(i)
         /\ \/ UNCHANGED broken \/ ReceiveReject \/ NodeNotices \/ Break \/ PlaneStops
            \/ \E c \in Connections : PlaneNotices(c)
         /\ \/ UNCHANGED logVars \/ ReceiveAck \/ ReceiveReject \/ PlaneStops \/ Crash
            \/ \E t \in Tokens : EnrollAgain(t)
            \/ \E c \in Connections : ReceiveRecords(c)
            \/ \E i \in Calls : Admit(i) \/ RecoverImported(i)
            \/ \E s \in Sessions : Recover(s) \/ Finish(s)
         /\ \/ UNCHANGED linkVars \/ Open \/ ReceiveWelcome \/ ReceiveRefused \/ Drained
            \/ ReceiveReject \/ ReceiveReady \/ NodeNotices \/ Crash
            \/ \E t \in Tokens : EnrollAgain(t)
         /\ \/ UNCHANGED workVars \/ ReceiveCall \/ Crash
            \/ \E i \in Calls : Admit(i) \/ RecoverImported(i) \/ Answer(i)
            \/ \E s \in Sessions : Finish(s)
            \/ \E t \in Tokens : EnrollAgain(t)
         /\ \/ UNCHANGED taskVars \/ ReceiveAck \/ ReceiveReject \/ ReceiveReady \/ NodeNotices \/ Crash
            \/ \E s \in Sessions : Flush(s) \/ Recover(s)
         /\ \/ UNCHANGED history \/ Revoke \/ Crash \/ Break \/ PlaneStops
            \/ \E c \in Connections : AuthTimeout(c) \/ ReceiveRecords(c) \/ ReceiveDrained(c)
<1> USE DEF netVars, credentials, socketVars, callVars, planeLog, logVars, linkVars, workVars, taskVars, history
<1>1. CASE Open
  BY <1>1 DEF Open
<1>2. CASE Drained
  BY <1>2 DEF Drained
<1>3. CASE ReceiveWelcome
  BY <1>3 DEF ReceiveWelcome, NodeReceives
<1>4. CASE ReceiveRefused
  BY <1>4 DEF ReceiveRefused, NodeReceives
<1>5. CASE ReceiveAck
  BY <1>5 DEF ReceiveAck, NodeReceives
<1>6. CASE ReceiveReady
  BY <1>6 DEF ReceiveReady, NodeReceives
<1>7. CASE ReceiveCall
  BY <1>7 DEF ReceiveCall, NodeReceives
<1>8. CASE NodeNotices
  BY <1>8 DEF NodeNotices, Disconnected
<1>9. CASE Crash
  BY <1>9 DEF Crash, NewProcess
<1>10. CASE Break
  BY <1>10 DEF Break
<1>11. CASE Revoke
  BY <1>11 DEF Revoke
<1>12. CASE PlaneStops
  BY <1>12 DEF PlaneStops, Forget
<1>13. CASE \E c \in Connections : ReceiveEnroll(c)
  BY <1>13 DEF ReceiveEnroll
<1>14. CASE \E c \in Connections : ReceiveAuth(c)
  BY <1>14 DEF ReceiveAuth
<1>15. CASE \E c \in Connections : AuthTimeout(c)
  BY <1>15 DEF AuthTimeout
<1>16. CASE \E c \in Connections : ReceiveHello(c)
  BY <1>16 DEF ReceiveHello
<1>17. CASE \E c \in Connections : ReceiveRecords(c)
  BY <1>17 DEF ReceiveRecords
<1>18. CASE \E c \in Connections : ReceiveDrained(c)
  BY <1>18 DEF ReceiveDrained
<1>19. CASE \E c \in Connections : ReceiveResult(c)
  BY <1>19 DEF ReceiveResult
<1>20. CASE \E c \in Connections : PlaneNotices(c)
  BY <1>20 DEF PlaneNotices, Forget
<1>21. CASE \E i \in Calls : Call(i)
  BY <1>21 DEF Call
<1>22. CASE \E i \in Calls : CallTimeout(i)
  BY <1>22 DEF CallTimeout
<1>23. CASE \E i \in Calls : Admit(i)
  BY <1>23 DEF Admit
<1>24. CASE \E i \in Calls : RecoverImported(i)
  BY <1>24 DEF RecoverImported
<1>25. CASE \E i \in Calls : Answer(i)
  BY <1>25 DEF Answer
<1>26. CASE \E s \in Sessions : Flush(s)
  BY <1>26 DEF Flush
<1>27. CASE \E s \in Sessions : Recover(s)
  BY <1>27 DEF Recover
<1>28. CASE \E s \in Sessions : Finish(s)
  BY <1>28 DEF Finish
<1>29. CASE \E t \in Tokens : EnrollAgain(t)
  BY <1>29 DEF EnrollAgain, NewProcess
<1>30. CASE ReceiveReject
  BY <1>30 DEF ReceiveReject, NodeReceives
<1> QED BY <1>1, <1>2, <1>3, <1>4, <1>5, <1>6, <1>7, <1>8, <1>9, <1>10, <1>11, <1>12,
      <1>13, <1>14, <1>15, <1>16, <1>17, <1>18, <1>19, <1>20, <1>21, <1>22, <1>23, <1>24,
      <1>25, <1>26, <1>27, <1>28, <1>29, <1>30 DEF Next, NodeReceives, PlaneReceives

-----------------------------------------------------------------------------
(* Frames. *)

LEMMA MessageFacts ==
  ASSUME NEW m \in Messages
  PROVE  /\ m = Frame(m.type, m.value)
         /\ m.type \in {"enroll", "auth", "welcome"} => m.value \in Nat
         /\ m.type \in {"hello", "ready"} => m.value \in SUBSET Sessions
         /\ m.type \in {"records", "ack", "reject"} =>
              /\ m.value \in [session : Sessions, changes : Nat]
              /\ m.value.session \in Sessions /\ m.value.changes \in Nat
         /\ m.type \in {"call", "result"} => m.value \in Calls
         /\ m.type = "refused" =>
              m.value \in {"token_used", "token_expired", "revoked", "unauthorized", "timeout"}
  BY DEF Messages, Frame

LEMMA FrameTypes ==
  /\ \A n \in Nat : /\ Frame("enroll", n) \in Messages /\ Frame("auth", n) \in Messages
                    /\ Frame("welcome", n) \in Messages
  /\ \A w \in SUBSET Sessions : Frame("hello", w) \in Messages /\ Frame("ready", w) \in Messages
  /\ \A s \in Sessions, n \in Nat :
       /\ Frame("records", [session |-> s, changes |-> n]) \in Messages
       /\ Frame("ack", [session |-> s, changes |-> n]) \in Messages
       /\ Frame("reject", [session |-> s, changes |-> n]) \in Messages
  /\ Frame("drained", 0) \in Messages
  /\ \A i \in Calls : Frame("call", i) \in Messages /\ Frame("result", i) \in Messages
  /\ \A code \in {"token_used", "token_expired", "revoked", "unauthorized", "timeout"} :
       Frame("refused", code) \in Messages
  BY DEF Messages, Frame

LEMMA FrameParts ==
  ASSUME NEW t, NEW v
  PROVE  Frame(t, v).type = t /\ Frame(t, v).value = v
  BY DEF Frame

\* What arrives at the plane is a frame of the connection's queue, taken off it.
LEMMA Consumed ==
  ASSUME TypeOK, NEW c \in Connections, NEW type, Arrives(c, type)
  PROVE  /\ Head(toPlane[c]) \in Messages /\ Head(toPlane[c]) \in ToSet(toPlane[c])
         /\ Head(toPlane[c]).type = type
         /\ Consume(c) => /\ toPlane' \in [Connections -> Seq(Messages)]
                          /\ \A d \in Connections : ToSet(toPlane'[d]) \subseteq ToSet(toPlane[d])
<1>1. toPlane \in [Connections -> Seq(Messages)] /\ toPlane[c] \in Seq(Messages)
      /\ toPlane[c] # << >>
  BY DEF TypeOK, Arrives
<1>2. /\ Head(toPlane[c]) \in Messages /\ Tail(toPlane[c]) \in Seq(Messages)
      /\ Head(toPlane[c]) \in ToSet(toPlane[c])
      /\ ToSet(Tail(toPlane[c])) \subseteq ToSet(toPlane[c])
  BY <1>1, TailElements
<1> QED
  BY <1>1, <1>2 DEF Consume, Arrives

\* The node's frames go to the queue of its connection.
LEMMA Replied ==
  ASSUME TypeOK, NEW f \in Messages, Reply(f)
  PROVE  /\ toPlane' \in [Connections -> Seq(Messages)]
         /\ \A d \in Connections : ToSet(toPlane'[d]) \subseteq ToSet(toPlane[d]) \cup {f}
         /\ \A d \in Connections : d # Current => toPlane'[d] = toPlane[d]
<1>1. toPlane \in [Connections -> Seq(Messages)]
  BY DEF TypeOK
<1>2. CASE Current \in Connections
  <2>1. /\ Append(toPlane[Current], f) \in Seq(Messages)
        /\ ToSet(Append(toPlane[Current], f)) = ToSet(toPlane[Current]) \cup {f}
    BY <1>1, <1>2, AppendElements
  <2> QED
    BY <1>1, <1>2, <2>1 DEF Reply
<1>3. CASE Current \notin Connections
  BY <1>1, <1>3 DEF Reply
<1> QED
  BY <1>2, <1>3

LEMMA CurrentOpened ==
  ASSUME TypeOK, Unopened, Attached
  PROVE  Current \in Connections /\ opened \in Nat
  BY ConnectionAssumption DEF TypeOK, Unopened, Current, Connections

\* What the plane sends goes to the node's queue if the socket is open and the node there.
LEMMA Sent ==
  ASSUME TypeOK, NEW c \in Connections, NEW f \in Messages, Send(c, f)
  PROVE  /\ toNode' \in [Connections -> Seq(Messages)]
         /\ \A d \in Connections :
              IF d = c /\ c = Current /\ Attached /\ sock[c] = "open"
                THEN toNode'[d] = Append(toNode[d], f)
                ELSE toNode'[d] = toNode[d]
<1>1. toNode \in [Connections -> Seq(Messages)] /\ toNode[c] \in Seq(Messages)
  BY DEF TypeOK
<1>2. Append(toNode[c], f) \in Seq(Messages)
  BY <1>1, AppendElements
<1> QED
  BY <1>1, <1>2 DEF Send

\* What the node receives is taken off its queue.
LEMMA TakenOff ==
  ASSUME TypeOK, Unopened, NEW type, Delivered(type), Taken
  PROVE  /\ Current \in Connections /\ toNode[Current] \in Seq(Messages) /\ toNode[Current] # << >>
         /\ Head(toNode[Current]) \in Messages /\ Head(toNode[Current]) \in ToSet(toNode[Current])
         /\ Head(toNode[Current]).type = type
         /\ toNode' \in [Connections -> Seq(Messages)]
         /\ toNode'[Current] = Tail(toNode[Current])
         /\ \A d \in Connections : d # Current => toNode'[d] = toNode[d]
<1>1. Current \in Connections
  BY CurrentOpened DEF Delivered
<1>2. toNode \in [Connections -> Seq(Messages)] /\ toNode[Current] \in Seq(Messages)
      /\ toNode[Current] # << >>
  BY <1>1 DEF TypeOK, Delivered
<1>3. /\ Head(toNode[Current]) \in Messages /\ Tail(toNode[Current]) \in Seq(Messages)
      /\ Head(toNode[Current]) \in ToSet(toNode[Current])
  BY <1>2, TailElements
<1> QED
  BY <1>1, <1>2, <1>3 DEF Taken, Delivered

\* What a step adds to the frames on the way to the plane.
LEMMA ToPlaneNext ==
  ASSUME ConnectionInv, Next
  PROVE  /\ toPlane' \in [Connections -> Seq(Messages)]
         /\ \A c \in Connections : \A m \in ToSet(toPlane'[c]) :
              \/ m \in ToSet(toPlane[c])
              \/ m.type = "enroll" /\ m.value \in Tokens
              \/ m.type \in {"auth", "hello", "drained"}
              \/ \E s \in Sessions : Flush(s) /\ m.type = "records"
                                       /\ m.value = [session |-> s, changes |-> log[s]]
              \/ \E i \in Calls : Answer(i) /\ Attached /\ via[i] = Current /\ m = ResultFrame(i)
<1> DEFINE Kept == \A c \in Connections : ToSet(toPlane'[c]) \subseteq ToSet(toPlane[c])
           Typed == toPlane' \in [Connections -> Seq(Messages)]
<1>1. TypeOK /\ Unopened /\ toPlane \in [Connections -> Seq(Messages)]
  BY DEF ConnectionInv, TypeOK
<1>2. CASE UNCHANGED toPlane
  BY <1>1, <1>2
<1>3. CASE Open
  <2> DEFINE f == IF token # NoToken THEN Frame("enroll", token) ELSE Frame("auth", secret)
  <2>1. f \in Messages /\ (f.type = "auth" \/ (f.type = "enroll" /\ f.value \in Tokens))
    <3>1. CASE token # NoToken
      <4>1. token \in Tokens /\ token \in Nat
        BY <1>1, <3>1, ConnectionAssumption DEF TypeOK, NoToken, Tokens
      <4>2. f = Frame("enroll", token)
        BY <3>1
      <4> QED
        BY <4>1, <4>2, FrameTypes, FrameParts
    <3>2. CASE token = NoToken
      <4>1. secret \in Nat /\ f = Frame("auth", secret)
        BY <1>1, <3>2 DEF TypeOK
      <4> QED
        BY <4>1, FrameTypes, FrameParts
    <3> QED
      BY <3>1, <3>2
  <2> HIDE DEF f
  <2>2. <<f>> \in Seq(Messages) /\ ToSet(<<f>>) = {f}
    BY <2>1, ShortSequences
  <2>3. toPlane' = [toPlane EXCEPT ![opened'] = <<f>>]
    BY <1>3 DEF Open, f
  <2>4. \A c \in Connections : toPlane'[c] = toPlane[c] \/ toPlane'[c] = <<f>>
    BY <1>1, <2>3
  <2>5. Typed
    BY <1>1, <2>2, <2>3
  <2>6. ASSUME NEW c \in Connections, NEW m \in ToSet(toPlane'[c])
        PROVE  m \in ToSet(toPlane[c]) \/ m = f
    BY <2>2, <2>4
  <2> QED
    BY <2>1, <2>5, <2>6
<1>4. CASE ReceiveWelcome \/ Drained
  <2>1. PICK f \in Messages : f.type \in {"hello", "drained"} /\ Reply(f)
    <3>1. CASE ReceiveWelcome
      <4>1. working \in SUBSET Sessions /\ Reply(Frame("hello", working))
        BY <1>1, <3>1 DEF ReceiveWelcome, TypeOK
      <4> QED
        BY <4>1, FrameTypes, FrameParts
    <3>2. CASE Drained
      BY <3>2, FrameTypes, FrameParts DEF Drained
    <3> QED
      BY <1>4, <3>1, <3>2
  <2> QED
    BY <1>1, <2>1, Replied
<1>5. CASE PlaneStops \/ \E c \in Connections : PlaneNotices(c)
  <2>1. PICK cs : toPlane' = [c \in Connections |-> IF c \in cs THEN << >> ELSE toPlane[c]]
    BY <1>5 DEF PlaneStops, PlaneNotices, Forget
  <2>2. Typed
    BY <1>1, <2>1
  <2>3. \A c \in Connections : ToSet(toPlane'[c]) \subseteq ToSet(toPlane[c])
    BY <2>1 DEF ToSet
  <2> QED
    BY <2>2, <2>3
<1>6. CASE \E c \in Connections : PlaneReceives(c)
  <2>1. PICK c \in Connections : (\E type : Arrives(c, type)) /\ Consume(c)
    BY <1>6 DEF PlaneReceives, ReceiveEnroll, ReceiveAuth, ReceiveHello, ReceiveRecords,
                ReceiveDrained, ReceiveResult
  <2> QED
    BY <1>1, <2>1, Consumed
<1>7. ASSUME NEW s \in Sessions, Flush(s)
      PROVE  /\ Typed
             /\ \A c \in Connections : \A m \in ToSet(toPlane'[c]) :
                  \/ m \in ToSet(toPlane[c])
                  \/ m.type = "records" /\ m.value = [session |-> s, changes |-> log[s]]
  <2> DEFINE f == Frame("records", [session |-> s, changes |-> log[s]])
  <2>1. f \in Messages /\ f.type = "records" /\ f.value = [session |-> s, changes |-> log[s]]
    BY <1>1, FrameTypes, FrameParts DEF TypeOK
  <2>2. Reply(f)
    BY <1>7 DEF Flush
  <2> QED
    BY <1>1, <2>1, <2>2, Replied
<1>8. ASSUME NEW i \in Calls, Answer(i)
      PROVE  /\ Typed
             /\ \A c \in Connections : \A m \in ToSet(toPlane'[c]) :
                  \/ m \in ToSet(toPlane[c])
                  \/ Attached /\ via[i] = Current /\ m = ResultFrame(i)
  <2>1. CASE Attached /\ via[i] = Current /\ Reply(Frame("result", i))
    BY <1>1, <2>1, FrameTypes, Replied DEF ResultFrame
  <2>2. CASE UNCHANGED toPlane
    BY <1>1, <2>2
  <2> QED
    BY <1>8, <2>1, <2>2 DEF Answer
<1> QED
  BY <1>2, <1>3, <1>4, <1>5, <1>6, <1>7, <1>8, Changes DEF PlaneReceives

\* What a step does to the frames on the way to the node.
LEMMA ToNodeNext ==
  ASSUME ConnectionInv, Next
  PROVE  /\ toNode' \in [Connections -> Seq(Messages)]
         /\ \A c \in Connections :
              \/ toNode'[c] = toNode[c]
              \/ c = Current /\ ~Attached' /\ toNode'[c] = << >>
              \/ c = Current /\ Attached /\ NodeReceives /\ toNode[c] # << >>
                   /\ toNode'[c] = Tail(toNode[c])
              \/ /\ c = Current /\ Attached /\ sock[c] = "open"
                 /\ \E f \in Messages :
                      /\ toNode'[c] = Append(toNode[c], f)
                      /\ Backed(f)'
                      /\ f.type = "call" => c = registered /\ \E i \in Calls : Call(i) /\ f = CallFrame(i)
<1> DEFINE Typed == toNode' \in [Connections -> Seq(Messages)]
<1>1. TypeOK /\ Unopened /\ toNode \in [Connections -> Seq(Messages)]
  BY DEF ConnectionInv, TypeOK
<1>2. CASE UNCHANGED toNode
  BY <1>1, <1>2
<1>3. CASE NodeReceives
  <2>1. (Taken /\ \E type : Delivered(type)) \/ (ReceiveReject /\ Disconnected)
    BY <1>3 DEF NodeReceives, ReceiveWelcome, ReceiveRefused, ReceiveAck, ReceiveReject,
                ReceiveReady, ReceiveCall
  <2>2. CASE Taken /\ \E type : Delivered(type)
    <3>1. Attached
      BY <2>2 DEF Delivered
    <3> QED
      BY <1>1, <1>3, <2>2, <3>1, TakenOff
  <2>3. CASE ReceiveReject /\ Disconnected
    <3>1. toNode' = [toNode EXCEPT ![Current] = << >>] /\ ~Attached'
      BY <2>3 DEF Disconnected, Detach, Attached
    <3>2. << >> \in Seq(Messages)
      OBVIOUS
    <3> QED
      BY <1>1, <3>1, <3>2
  <2> QED
    BY <2>1, <2>2, <2>3
<1>4. CASE NodeNotices \/ Crash
  <2>1. \/ UNCHANGED toNode
        \/ toNode' = [toNode EXCEPT ![Current] = << >>] /\ ~Attached'
    BY <1>4 DEF NodeNotices, Crash, Disconnected, Detach, Attached
  <2>2. << >> \in Seq(Messages)
    OBVIOUS
  <2> QED
    BY <1>1, <2>1, <2>2
<1>5. ASSUME NEW c \in Connections, NEW f \in Messages, Send(c, f),
             Backed(f)',
             f.type = "call" => c = registered /\ \E i \in Calls : Call(i) /\ f = CallFrame(i)
      PROVE  /\ Typed
             /\ \A d \in Connections :
                  \/ toNode'[d] = toNode[d]
                  \/ /\ d = Current /\ Attached /\ sock[d] = "open"
                     /\ \E g \in Messages :
                          /\ toNode'[d] = Append(toNode[d], g)
                          /\ Backed(g)'
                          /\ g.type = "call" =>
                               d = registered /\ \E i \in Calls : Call(i) /\ g = CallFrame(i)
  BY <1>1, <1>5, Sent
<1>6. CASE \E c \in Connections :
             ReceiveEnroll(c) \/ ReceiveAuth(c) \/ AuthTimeout(c) \/ ReceiveDrained(c)
  <2>1. PICK c \in Connections, f \in Messages :
          Send(c, f) /\ f.type \in {"welcome", "refused", "ready"}
    <3>1. PICK c \in Connections :
            ReceiveEnroll(c) \/ ReceiveAuth(c) \/ AuthTimeout(c) \/ ReceiveDrained(c)
      BY <1>6
    <3>2. Arrives(c, "enroll") => Value(c) \in Nat /\ Value(c) \in Tokens
      <4>1. Arrives(c, "enroll") => Head(toPlane[c]) \in Messages /\ Head(toPlane[c]).type = "enroll"
                                     /\ Head(toPlane[c]) \in ToSet(toPlane[c])
        BY <1>1, Consumed
      <4> QED
        BY <4>1, MessageFacts DEF Value, ConnectionInv, FramesOfNode
    <3>3. CASE ReceiveEnroll(c)
      <4>1. ASSUME NEW code \in ConsumeToken(Value(c)) \ {"ok"}
            PROVE  code \in {"token_used", "token_expired"}
        <5>1. tokenState[Value(c)] \in {"unused", "used", "expired"}
          BY <1>1, <3>2, <3>3 DEF TypeOK, ReceiveEnroll
        <5> QED
          BY <5>1 DEF ConsumeToken
      <4> QED
        BY <3>2, <3>3, <4>1, FrameTypes, FrameParts DEF ReceiveEnroll, Welcome, Refuse
    <3>4. CASE ReceiveAuth(c)
      <4>1. VerifyNodeSecret(Value(c)) \in {"ok", "unauthorized", "revoked"} /\ NoSecret \in Nat
        BY DEF VerifyNodeSecret, NoSecret
      <4> QED
        BY <3>4, <4>1, FrameTypes, FrameParts DEF ReceiveAuth, Welcome, Refuse
    <3>5. CASE AuthTimeout(c)
      BY <3>5, FrameTypes, FrameParts DEF AuthTimeout, Refuse
    <3>6. CASE ReceiveDrained(c)
      BY <3>6, FrameTypes, FrameParts DEF ReceiveDrained, ReadySessions
    <3> QED
      BY <3>1, <3>3, <3>4, <3>5, <3>6
  <2>2. Backed(f)' /\ f.type # "call"
    BY <2>1 DEF Backed
  <2> QED
    BY <1>5, <2>1, <2>2
<1>7. CASE \E c \in Connections : ReceiveRecords(c)
  <2>1. PICK c \in Connections : ReceiveRecords(c)
    BY <1>7
  <2>2. Head(toPlane[c]) \in Messages /\ Head(toPlane[c]).type = "records"
    BY <1>1, <2>1, Consumed DEF ReceiveRecords
  <2>3. PICK s \in Sessions, n \in Nat : s = Value(c).session /\ n = Value(c).changes
    BY <2>2, MessageFacts DEF Value
  <2>4. PICK f \in Messages, g \in Messages : /\ f = Frame("ack", [session |-> s, changes |-> n])
                                              /\ g = Frame("reject", [session |-> s, changes |-> n])
    BY FrameTypes
  <2>5. /\ f.type = "ack" /\ f.value.session = s /\ f.value.changes = n
        /\ g.type = "reject" /\ g.value.session = s
        /\ (Written(s, n) /\ Send(c, f)) \/ (Send(c, g) /\ s \in spoiled')
    BY <2>1, <2>3, <2>4, FrameParts DEF ReceiveRecords, Accept, Reject
  <2>6. CASE Written(s, n) /\ Send(c, f)
    <3>1. canon'[s] >= n /\ canon'[s] \in Nat
      BY <1>1, <2>6 DEF TypeOK, Written
    <3>2. f.value.changes <= canon'[f.value.session]
      BY <2>5, <3>1
    <3>3. Backed(f)' /\ f.type # "call"
      BY <2>5, <3>2 DEF Backed
    <3> QED
      BY <1>5, <2>6, <3>3
  <2>7. CASE Send(c, g) /\ s \in spoiled'
    <3>1. Backed(g)' /\ g.type # "call"
      BY <2>5, <2>7 DEF Backed
    <3> QED
      BY <1>5, <2>7, <3>1
  <2> QED
    BY <2>5, <2>6, <2>7
<1>8. CASE \E i \in Calls : Call(i)
  <2>1. PICK i \in Calls : Call(i)
    BY <1>8
  <2>2. registered \in Connections /\ CallFrame(i) \in Messages /\ CallFrame(i).type = "call"
    BY <1>1, <2>1, FrameTypes, FrameParts DEF Call, Reachable, TypeOK, CallFrame
  <2>3. Send(registered, CallFrame(i)) /\ Backed(CallFrame(i))'
    BY <2>1, <2>2 DEF Call, CallFrame, Backed
  <2> QED
    BY <1>5, <2>1, <2>2, <2>3
<1> QED
  BY <1>2, <1>3, <1>4, <1>6, <1>7, <1>8, Changes

-----------------------------------------------------------------------------
(* Types. *)

\* The plane's log only grows.  Where no batch was rejected the node's does as well, the
\* plane's follows it, and what is acknowledged follows the plane's.
LEMMA LogsNext ==
  ASSUME ConnectionInv, Next
  PROVE  /\ canon' \in [Sessions -> Nat] /\ log' \in [Sessions -> Nat]
         /\ acked' \in [Sessions -> Nat]
         /\ spoiled \subseteq spoiled' /\ spoiled' \subseteq Sessions
         /\ unreadable' \subseteq spoiled'
         /\ \A s \in Sessions : canon[s] <= canon'[s]
         /\ \A s \in Sessions \ spoiled' :
              log[s] <= log'[s] /\ acked'[s] <= canon'[s] /\ canon'[s] <= log'[s]
<1>1. /\ TypeOK /\ Unopened /\ FramesOfNode /\ FramesOfPlane
      /\ canon \in [Sessions -> Nat] /\ log \in [Sessions -> Nat] /\ acked \in [Sessions -> Nat]
      /\ unreadable \subseteq spoiled /\ spoiled \subseteq Sessions
      /\ \A s \in Sessions \ spoiled : acked[s] <= canon[s] /\ canon[s] <= log[s]
  BY DEF ConnectionInv, TypeOK
<1>2. CASE UNCHANGED logVars
  BY <1>1, <1>2 DEF logVars, planeLog
<1>3. CASE ReceiveAck
  <2>1. /\ Head(toNode[Current]) \in Messages /\ Head(toNode[Current]).type = "ack"
        /\ Head(toNode[Current]) \in ToSet(toNode[Current]) /\ Current \in Connections
    BY <1>1, <1>3, TakenOff DEF ReceiveAck
  <2> DEFINE s == Received.session
             n == Received.changes
  <2>2. s \in Sessions /\ n \in Nat /\ n <= canon[s]
    BY <1>1, <2>1, MessageFacts DEF Received, FramesOfPlane, Backed
  <2>3. acked' = [acked EXCEPT ![s] = n] /\ UNCHANGED <<canon, unreadable, spoiled, log>>
    BY <1>3 DEF ReceiveAck, planeLog
  <2> HIDE DEF s, n
  <2> QED
    BY <1>1, <2>2, <2>3
<1>4. ASSUME NEW c \in Connections, ReceiveRecords(c)
      PROVE  /\ canon' \in [Sessions -> Nat] /\ log' = log /\ acked' = acked
             /\ spoiled \subseteq spoiled' /\ spoiled' \subseteq Sessions
             /\ unreadable' \subseteq spoiled'
             /\ \A s \in Sessions : canon[s] <= canon'[s]
             /\ \A s \in Sessions \ spoiled' : canon'[s] <= log[s]
  <2>1. Head(toPlane[c]) \in Messages /\ Head(toPlane[c]).type = "records"
        /\ Head(toPlane[c]) \in ToSet(toPlane[c])
    BY <1>1, <1>4, Consumed DEF ReceiveRecords
  <2> DEFINE s == Value(c).session
             n == Value(c).changes
  <2>2. s \in Sessions /\ n \in Nat /\ (n <= log[s] \/ s \in spoiled)
    BY <1>1, <2>1, MessageFacts DEF Value, FramesOfNode
  <2>3. /\ acked' = acked /\ log' = log
        /\ \/ Written(s, n) /\ spoiled' = spoiled /\ unreadable' \in {unreadable, unreadable \ {s}}
           \/ /\ spoiled' = spoiled \cup {s} /\ unreadable' = unreadable \cup {s}
              /\ Written(s, n) \/ UNCHANGED canon
    BY <1>4 DEF ReceiveRecords, Accept, Reject
  <2> HIDE DEF s, n
  <2>4. spoiled \subseteq spoiled' /\ spoiled' \subseteq Sessions /\ unreadable' \subseteq spoiled'
    BY <1>1, <2>2, <2>3
  <2>5. CASE UNCHANGED canon
    BY <1>1, <2>3, <2>4, <2>5
  <2>6. CASE Written(s, n)
    <3>1. canon' = [canon EXCEPT ![s] = IF @ < n THEN n ELSE @]
      BY <2>6 DEF Written
    <3>2. canon' \in [Sessions -> Nat] /\ \A r \in Sessions : canon[r] <= canon'[r]
      BY <1>1, <2>2, <3>1
    <3>3. \A r \in Sessions \ spoiled' : canon'[r] <= log[r]
      BY <1>1, <2>2, <2>4, <3>1
    <3> QED
      BY <2>3, <2>4, <3>2, <3>3
  <2> QED
    BY <2>3, <2>5, <2>6
<1>5. ASSUME NEW s, log' = [log EXCEPT ![s] = IF Running(@) THEN @ + 1 ELSE @]
                   \/ log' = [log EXCEPT ![s] = IF Running(@) THEN @ ELSE @ + 1]
      PROVE  log' \in [Sessions -> Nat] /\ \A r \in Sessions : log[r] <= log'[r]
  BY <1>1, <1>5
<1>6. CASE \/ \E i \in Calls : Admit(i) \/ RecoverImported(i)
           \/ \E s \in Sessions : Recover(s) \/ Finish(s)
  <2>1. UNCHANGED <<canon, unreadable, spoiled, acked>>
    BY <1>6 DEF Admit, RecoverImported, Recover, Finish, planeLog
  <2>2. log' \in [Sessions -> Nat] /\ \A r \in Sessions : log[r] <= log'[r]
    BY <1>5, <1>6 DEF Admit, RecoverImported, Recover, Finish
  <2>3. \A a, b, c \in Nat : a <= b /\ b <= c => a <= c
    OBVIOUS
  <2>4. \A s \in Sessions \ spoiled' : canon'[s] <= log'[s]
    BY <1>1, <2>1, <2>2, <2>3
  <2> QED
    BY <1>1, <2>1, <2>2, <2>4
\* A batch that is answered with a rejection was of a session that is spoiled.
<1>7. CASE ReceiveReject
  <2>1. /\ Head(toNode[Current]) \in Messages /\ Head(toNode[Current]).type = "reject"
        /\ Head(toNode[Current]) \in ToSet(toNode[Current]) /\ Current \in Connections
    <3>1. Delivered("reject") /\ Attached
      BY <1>7 DEF ReceiveReject, Delivered
    <3>2. Current \in Connections
      BY <1>1, <3>1, CurrentOpened
    <3>3. toNode[Current] \in Seq(Messages) /\ toNode[Current] # << >>
      BY <1>1, <3>1, <3>2 DEF Delivered, TypeOK
    <3> QED
      BY <3>1, <3>2, <3>3, TailElements DEF Delivered
  <2> DEFINE s == Received.session
  <2>2. s \in Sessions /\ s \in spoiled
    BY <1>1, <2>1, MessageFacts DEF Received, FramesOfPlane, Backed
  <2>3. UNCHANGED <<canon, unreadable, spoiled>>
    BY <1>7 DEF ReceiveReject, planeLog
  <2>4. PICK n \in {log[s], canon[s]} :
          log' = [log EXCEPT ![s] = n] /\ acked' = [acked EXCEPT ![s] = n]
    BY <1>7 DEF ReceiveReject
  <2> HIDE DEF s
  <2>5. log' \in [Sessions -> Nat] /\ acked' \in [Sessions -> Nat]
        /\ \A r \in Sessions \ spoiled : log'[r] = log[r] /\ acked'[r] = acked[r]
    BY <1>1, <2>2, <2>4
  <2> QED
    BY <1>1, <2>3, <2>5
<1>8. CASE PlaneStops
  BY <1>1, <1>8 DEF PlaneStops
<1>9. CASE NewProcess
  <2>1. UNCHANGED <<canon, unreadable, spoiled>>
    BY <1>9 DEF NewProcess, planeLog
  <2>2. log' \in [Sessions -> Nat] /\ acked' \in [Sessions -> Nat]
    BY <1>1, <1>9 DEF NewProcess
  <2>3. ASSUME NEW s \in Sessions \ spoiled
        PROVE  log'[s] = log[s] /\ acked'[s] = acked[s]
    <3>1. acked[s] \in Nat /\ canon[s] \in Nat /\ log[s] \in Nat
          /\ acked[s] <= canon[s] /\ canon[s] <= log[s]
      BY <1>1
    <3>2. acked[s] = log[s] => canon[s] = log[s]
      BY <3>1
    <3> QED
      BY <1>9, <3>2 DEF NewProcess
  <2> QED
    BY <1>1, <2>1, <2>2, <2>3
<1> QED
  BY <1>1, <1>2, <1>3, <1>4, <1>6, <1>7, <1>8, <1>9, Changes DEF Crash, EnrollAgain

LEMMA CredentialsNext ==
  ASSUME ConnectionInv, Next
  PROVE  /\ secretHash' \in Nat /\ revoked' \in BOOLEAN
         /\ tokenState' \in [Tokens -> {"unused", "used", "expired"}]
<1>1. /\ TypeOK /\ secretHash \in Nat /\ revoked \in BOOLEAN
      /\ tokenState \in [Tokens -> {"unused", "used", "expired"}]
  BY DEF ConnectionInv, TypeOK
<1>2. CASE UNCHANGED credentials
  BY <1>1, <1>2 DEF credentials
<1>3. CASE Revoke
  BY <1>1, <1>3 DEF Revoke
<1>4. ASSUME NEW c \in Connections, ReceiveEnroll(c)
      PROVE  /\ secretHash' \in Nat /\ revoked' \in BOOLEAN
             /\ tokenState' \in [Tokens -> {"unused", "used", "expired"}]
  <2>1. Value(c) \in Nat
    BY <1>1, <1>4, Consumed, MessageFacts DEF ReceiveEnroll, Value
  <2>2. (secretHash' = Value(c) /\ revoked' = FALSE) \/ UNCHANGED <<secretHash, revoked>>
    BY <1>4 DEF ReceiveEnroll
  <2>3. \/ tokenState' = [tokenState EXCEPT ![Value(c)] = "used"]
        \/ tokenState' = [tokenState EXCEPT ![Value(c)] = "expired"]
        \/ tokenState' = [tokenState EXCEPT ![Value(c)] = @]
    BY <1>4 DEF ReceiveEnroll
  <2>4. tokenState' \in [Tokens -> {"unused", "used", "expired"}]
    BY <1>1, <2>3
  <2> QED
    BY <1>1, <2>1, <2>2, <2>4
<1> QED
  BY <1>2, <1>3, <1>4, Changes

\* The registered connection has finished its handshake and its socket is not gone.
Registration ==
  registered # NoConnection => phase[registered] = "ready" /\ sock[registered] # "closed"

LEMMA SocketNext ==
  ASSUME ConnectionInv, Next
  PROVE  /\ phase' \in [Connections -> {"none", "first", "hello", "draining", "ready"}]
         /\ sock' \in [Connections -> {"open", "closing", "closed"}]
         /\ remote' \in [Connections -> {"none", "live", "closed"}]
         /\ announced' \in [Connections -> SUBSET Sessions]
         /\ registered' \in Connections \cup {NoConnection}
         /\ Registration'
<1> DEFINE Phases == [Connections -> {"none", "first", "hello", "draining", "ready"}]
           Socks == [Connections -> {"open", "closing", "closed"}]
           Remotes == [Connections -> {"none", "live", "closed"}]
           Announced == [Connections -> SUBSET Sessions]
<1>1. /\ TypeOK /\ Unopened /\ Registration
      /\ phase \in Phases /\ sock \in Socks /\ remote \in Remotes /\ announced \in Announced
      /\ registered \in Connections \cup {NoConnection} /\ NoConnection \notin Connections
  BY DEF ConnectionInv, TypeOK, Registration, NoConnection, Connections
<1>2. CASE UNCHANGED socketVars
  BY <1>1, <1>2 DEF socketVars, Registration
<1>3. CASE Open
  <2>1. opened \in Nat /\ opened' = opened + 1 /\ opened' \in Connections
    BY <1>1, <1>3, ConnectionAssumption DEF TypeOK, Open, Connections
  <2>2. phase[opened'] = "none"
    BY <1>1, <2>1 DEF Unopened
  <2>3. /\ phase' = [phase EXCEPT ![opened'] = "first"] /\ sock' = [sock EXCEPT ![opened'] = "open"]
        /\ UNCHANGED <<remote, announced, registered>>
    BY <1>3 DEF Open
  <2> QED
    BY <1>1, <2>1, <2>2, <2>3 DEF Registration
<1>4. ASSUME NEW c \in Connections,
             ReceiveEnroll(c) \/ ReceiveAuth(c) \/ AuthTimeout(c)
      PROVE  /\ phase' \in Phases /\ sock' \in Socks /\ Registration'
             /\ UNCHANGED <<remote, announced, registered>>
  <2>1. /\ phase[c] = "first" /\ UNCHANGED <<remote, announced, registered>>
        /\ \/ phase' = [phase EXCEPT ![c] = "hello"] /\ UNCHANGED sock
           \/ /\ sock' = [sock EXCEPT ![c] = IF @ = "open" THEN "closing" ELSE @]
              /\ UNCHANGED phase
    BY <1>4 DEF ReceiveEnroll, ReceiveAuth, AuthTimeout, Welcome, Refuse
  <2> QED
    BY <1>1, <2>1 DEF Registration
<1>5. ASSUME NEW c \in Connections, ReceiveHello(c)
      PROVE  /\ phase' \in Phases /\ sock' \in Socks /\ remote' \in Remotes
             /\ announced' \in Announced /\ UNCHANGED registered /\ Registration'
  <2>1. Value(c) \in SUBSET Sessions
    BY <1>1, <1>5, Consumed, MessageFacts DEF ReceiveHello, Value
  <2>2. /\ phase[c] = "hello" /\ phase' = [phase EXCEPT ![c] = "draining"]
        /\ announced' = [announced EXCEPT ![c] = Value(c)] /\ UNCHANGED registered
        /\ \/ remote' = [remote EXCEPT ![c] = "live"] /\ UNCHANGED sock
           \/ /\ remote' = [remote EXCEPT ![c] = "live", ![registered] = "closed"]
              /\ sock' = [sock EXCEPT ![registered] = IF @ = "open" THEN "closing" ELSE @]
    BY <1>5 DEF ReceiveHello
  <2>3. remote' \in Remotes /\ announced' \in Announced /\ phase' \in Phases
    BY <1>1, <2>1, <2>2
  <2>4. sock' \in Socks /\ \A d \in Connections : sock[d] # "closed" => sock'[d] # "closed"
    BY <1>1, <2>2
  <2> QED
    BY <1>1, <2>2, <2>3, <2>4 DEF Registration
<1>6. ASSUME NEW c \in Connections, ReceiveDrained(c)
      PROVE  /\ phase' \in Phases /\ registered' = c /\ Registration'
             /\ UNCHANGED <<sock, remote, announced>>
  <2>1. /\ sock[c] # "closed" /\ phase' = [phase EXCEPT ![c] = "ready"] /\ registered' = c
        /\ UNCHANGED <<sock, remote, announced>>
    BY <1>6 DEF ReceiveDrained, Arrives
  <2> QED
    BY <1>1, <2>1 DEF Registration
<1>7. ASSUME NEW cs, Forget(cs), registered' = NoConnection \/ registered' = registered,
             registered' # NoConnection => registered' \notin cs
      PROVE  /\ phase' \in Phases /\ sock' \in Socks /\ remote' \in Remotes
             /\ announced' \in Announced /\ Registration'
  BY <1>1, <1>7 DEF Forget, Registration
<1>8. ASSUME NEW c \in Connections, PlaneNotices(c)
      PROVE  /\ phase' \in Phases /\ sock' \in Socks /\ remote' \in Remotes
             /\ announced' \in Announced /\ Registration'
             /\ registered' \in Connections \cup {NoConnection}
  <2>1. /\ Forget({c}) /\ registered' = IF registered = c THEN NoConnection ELSE registered
    BY <1>8 DEF PlaneNotices, Unregister
  <2>2. registered' \in {NoConnection, registered} /\ registered' # c
    BY <1>1, <2>1
  <2> QED
    BY <1>1, <1>7, <2>1, <2>2
<1>9. CASE PlaneStops
  BY <1>1, <1>7, <1>9 DEF PlaneStops
<1>10. CASE Revoke
  <2>1. /\ registered' = NoConnection /\ UNCHANGED <<phase, announced>>
        /\ \/ UNCHANGED <<sock, remote>>
           \/ /\ remote' = [remote EXCEPT ![registered] = "closed"]
              /\ sock' = [sock EXCEPT ![registered] = IF @ = "open" THEN "closing" ELSE @]
    BY <1>10 DEF Revoke, Disconnect
  <2> QED
    BY <1>1, <2>1 DEF Registration
<1> QED
  BY <1>1, <1>2, <1>3, <1>4, <1>5, <1>6, <1>8, <1>9, <1>10, Changes

LEMMA CallsNext ==
  ASSUME ConnectionInv, Next
  PROVE  /\ call' \in [Calls -> {"none", "pending", "ok", "failed"}]
         /\ via' \in [Calls -> Connections \cup {NoConnection}]
<1> DEFINE States == [Calls -> {"none", "pending", "ok", "failed"}]
<1>1. /\ TypeOK /\ call \in States /\ via \in [Calls -> Connections \cup {NoConnection}]
      /\ registered \in Connections \cup {NoConnection}
  BY DEF ConnectionInv, TypeOK
<1>2. CASE UNCHANGED callVars
  BY <1>1, <1>2 DEF callVars
<1>3. CASE Revoke \/ PlaneStops \/ \E c \in Connections :
             ReceiveHello(c) \/ ReceiveResult(c) \/ PlaneNotices(c)
  <2>1. /\ UNCHANGED via
        /\ \/ UNCHANGED call
           \/ \E c : call' = FailedCalls(c)
           \/ call' = [i \in Calls |-> IF call[i] = "pending" THEN "failed" ELSE call[i]]
           \/ \E i : call' = [call EXCEPT ![i] = IF @ = "pending" THEN "ok" ELSE @]
    BY <1>3 DEF Revoke, PlaneStops, ReceiveHello, ReceiveResult, PlaneNotices, Disconnect
  <2> QED
    BY <1>1, <2>1 DEF FailedCalls
<1>4. CASE \E i \in Calls : Call(i) \/ CallTimeout(i)
  BY <1>1, <1>4 DEF Call, CallTimeout
<1> QED
  BY <1>2, <1>3, <1>4, Changes

LEMMA NodeNext ==
  ASSUME ConnectionInv, Next
  PROVE  /\ secret' \in Nat /\ token' \in Tokens \cup {NoToken} /\ opened' \in 0 .. MaxConnections
         /\ link' \in {"down", "sent", "draining", "drained", "ready", "refused"}
         /\ working' \subseteq Sessions /\ handling' \cup answering' \subseteq Calls
         /\ started' \in [Calls -> Nat] /\ awaiting' \in [Sessions -> Nat]
         /\ recovering' \subseteq Sessions
<1>1. /\ TypeOK /\ Unopened /\ log' \in [Sessions -> Nat] /\ log \in [Sessions -> Nat]
      /\ secret \in Nat /\ token \in Tokens \cup {NoToken} /\ opened \in 0 .. MaxConnections
      /\ link \in {"down", "sent", "draining", "drained", "ready", "refused"}
      /\ working \subseteq Sessions /\ handling \subseteq Calls /\ answering \subseteq Calls
      /\ started \in [Calls -> Nat] /\ awaiting \in [Sessions -> Nat]
      /\ recovering \subseteq Sessions
  BY LogsNext DEF ConnectionInv, TypeOK
<1>2. /\ secret' \in Nat /\ token' \in Tokens \cup {NoToken} /\ opened' \in 0 .. MaxConnections
      /\ link' \in {"down", "sent", "draining", "drained", "ready", "refused"}
  <2>1. CASE UNCHANGED linkVars
    BY <1>1, <2>1 DEF linkVars
  <2>2. CASE ReceiveWelcome
    <3>1. Received \in Nat
      BY <1>1, <2>2, TakenOff, MessageFacts DEF ReceiveWelcome, Received
    <3> QED
      BY <1>1, <2>2, <3>1 DEF ReceiveWelcome
  <2>3. CASE Open
    BY <1>1, <2>3, ConnectionAssumption DEF Open
  <2>4. CASE \/ ReceiveRefused \/ Drained \/ ReceiveReady \/ NodeNotices \/ Crash
             \/ \E t \in Tokens : EnrollAgain(t)
    BY <1>1, <2>4 DEF ReceiveRefused, Drained, ReceiveReady, NodeNotices, Disconnected, Crash,
                      EnrollAgain
  <2>5. CASE ReceiveReject
    BY <1>1, <2>5 DEF ReceiveReject, Disconnected, linkVars
  <2> QED
    BY <2>1, <2>2, <2>3, <2>4, <2>5, Changes
<1>3. /\ working' \subseteq Sessions /\ handling' \subseteq Calls /\ answering' \subseteq Calls
      /\ started' \in [Calls -> Nat]
  <2>1. CASE UNCHANGED workVars
    BY <1>1, <2>1 DEF workVars
  <2>2. CASE ReceiveCall
    <3>1. Received \in Calls
      BY <1>1, <2>2, TakenOff, MessageFacts DEF ReceiveCall, Received
    <3> QED
      BY <1>1, <2>2, <3>1 DEF ReceiveCall
  <2>3. ASSUME NEW i \in Calls, Admit(i) \/ RecoverImported(i) \/ Answer(i)
        PROVE  /\ working' \subseteq Sessions /\ handling' \subseteq Calls
               /\ answering' \subseteq Calls /\ started' \in [Calls -> Nat]
    <3>1. Target[i] \in Sessions
      BY ConnectionAssumption
    <3>2. log'[Target[i]] \in Nat
      BY <1>1, <3>1
    <3> QED
      BY <1>1, <2>3, <3>1, <3>2 DEF Admit, RecoverImported, Answer
  <2>4. CASE Crash \/ (\E s \in Sessions : Finish(s)) \/ \E t \in Tokens : EnrollAgain(t)
    BY <1>1, <2>4 DEF Crash, Finish, EnrollAgain, NewProcess
  <2> QED
    BY <2>1, <2>2, <2>3, <2>4, Changes
<1>4. awaiting' \in [Sessions -> Nat] /\ recovering' \subseteq Sessions
  <2>1. CASE UNCHANGED taskVars
    BY <1>1, <2>1 DEF taskVars
  <2>2. CASE ReceiveAck
    BY <1>1, <2>2 DEF ReceiveAck, Settled
  <2>3. CASE ReceiveReady
    <3>1. Received \in SUBSET Sessions
      BY <1>1, <2>3, TakenOff, MessageFacts DEF ReceiveReady, Received
    <3> QED
      BY <1>1, <2>3, <3>1 DEF ReceiveReady
  <2>4. CASE NodeNotices \/ Crash
    BY <1>1, <2>4 DEF NodeNotices, Disconnected, Crash, Detach, taskVars
  <2>5. CASE \E s \in Sessions : Flush(s) \/ Recover(s)
    BY <1>1, <2>5 DEF Flush, Recover
  <2>6. CASE ReceiveReject
    BY <1>1, <2>6 DEF ReceiveReject, Disconnected, Detach, Settled
  <2> QED
    BY <2>1, <2>2, <2>3, <2>4, <2>5, <2>6, Changes
<1> QED
  BY <1>2, <1>3, <1>4

LEMMA HistoryNext ==
  ASSUME ConnectionInv, Next
  PROVE  /\ slipped' \in BOOLEAN /\ overtaken' \in BOOLEAN /\ faults' \in 0 .. MaxFaults
         /\ broken' \in [Connections -> BOOLEAN]
<1>1. /\ TypeOK /\ slipped \in BOOLEAN /\ overtaken \in BOOLEAN /\ faults \in 0 .. MaxFaults
      /\ broken \in [Connections -> BOOLEAN] /\ MaxFaults \in Nat
  BY ConnectionAssumption DEF ConnectionInv, TypeOK
<1>2. slipped' \in BOOLEAN /\ overtaken' \in BOOLEAN
  <2>1. CASE UNCHANGED history
    BY <1>1, <2>1 DEF history
  <2>2. CASE \/ Revoke \/ Crash \/ Break \/ PlaneStops
             \/ \E c \in Connections : AuthTimeout(c) \/ ReceiveRecords(c) \/ ReceiveDrained(c)
    BY <1>1, <2>2 DEF Revoke, Crash, Break, PlaneStops, AuthTimeout, ReceiveRecords, Accept,
                      Reject, ReceiveDrained
  <2> QED
    BY <2>1, <2>2, Changes
<1>3. faults' \in 0 .. MaxFaults
  <2>1. CASE UNCHANGED history
    BY <1>1, <2>1 DEF history
  <2>2. CASE \/ Revoke \/ Crash \/ Break \/ PlaneStops
             \/ \E c \in Connections : AuthTimeout(c) \/ ReceiveDrained(c)
    BY <1>1, <2>2 DEF Revoke, Crash, Break, PlaneStops, AuthTimeout, ReceiveDrained
  <2>3. CASE \E c \in Connections : ReceiveRecords(c)
    <3>1. UNCHANGED faults \/ (faults < MaxFaults /\ faults' = faults + 1)
      BY <2>3 DEF ReceiveRecords, Accept, Reject
    <3> QED
      BY <1>1, <3>1
  <2> QED
    BY <2>1, <2>2, <2>3, Changes
<1>4. broken' \in [Connections -> BOOLEAN]
  <2>1. CASE UNCHANGED broken \/ ReceiveReject \/ NodeNotices \/ Break
    BY <1>1, <2>1 DEF ReceiveReject, NodeNotices, Disconnected, Break
  <2>2. CASE PlaneStops \/ \E c \in Connections : PlaneNotices(c)
    <3>1. PICK cs : broken' = [c \in Connections |-> c \notin cs /\ broken[c]]
      BY <2>2 DEF PlaneStops, PlaneNotices, Forget
    <3> QED
      BY <1>1, <3>1
  <2> QED
    BY <2>1, <2>2, Changes
<1> QED
  BY <1>2, <1>3, <1>4

LEMMA TypesNext ==
  ASSUME ConnectionInv, Next
  PROVE  TypeOK'
  BY LogsNext, CredentialsNext, SocketNext, CallsNext, NodeNext, HistoryNext, ToPlaneNext,
     ToNodeNext DEF TypeOK, Registration

-----------------------------------------------------------------------------
(* The parts of the invariant. *)

LEMMA FramesNext ==
  ASSUME ConnectionInv, Next
  PROVE  FramesOfNode' /\ FramesOfPlane'
<1>1. /\ TypeOK /\ FramesOfNode /\ FramesOfPlane
      /\ toPlane \in [Connections -> Seq(Messages)] /\ toNode \in [Connections -> Seq(Messages)]
      /\ log \in [Sessions -> Nat] /\ canon \in [Sessions -> Nat]
      /\ log' \in [Sessions -> Nat] /\ canon' \in [Sessions -> Nat]
      /\ spoiled \subseteq spoiled'
      /\ \A s \in Sessions : canon[s] <= canon'[s] /\ (s \in spoiled' \/ log[s] <= log'[s])
  BY LogsNext DEF ConnectionInv, TypeOK
<1>2. \A a, b, c \in Nat : a <= b /\ b <= c => a <= c
  OBVIOUS
<1>3. \A c \in Connections : ToSet(toPlane[c]) \subseteq Messages /\ ToSet(toNode[c]) \subseteq Messages
  BY <1>1 DEF ToSet
<1>4. ASSUME NEW c \in Connections, NEW m \in ToSet(toPlane'[c])
      PROVE  /\ m.type = "enroll" => m.value \in Tokens
             /\ m.type = "records" =>
                  m.value.changes <= log'[m.value.session] \/ m.value.session \in spoiled'
  <2>1. CASE m \in ToSet(toPlane[c])
    <3>1. m.type = "records" =>
            /\ m.value.session \in Sessions /\ m.value.changes \in Nat
            /\ m.value.changes <= log[m.value.session] \/ m.value.session \in spoiled
      BY <1>1, <1>3, <2>1, MessageFacts DEF FramesOfNode
    <3>2. m.type = "records" =>
            m.value.changes <= log'[m.value.session] \/ m.value.session \in spoiled'
      BY <1>1, <1>2, <3>1
    <3> QED
      BY <1>1, <2>1, <3>2 DEF FramesOfNode
  <2>2. ASSUME NEW s \in Sessions, m.type = "records",
               m.value = [session |-> s, changes |-> log[s]]
        PROVE  m.value.changes <= log'[m.value.session] \/ m.value.session \in spoiled'
    BY <1>1, <2>2
  <2>3. ASSUME NEW i, m = ResultFrame(i)
        PROVE  m.type = "result"
    BY <2>3, FrameParts DEF ResultFrame
  <2> QED
    BY <2>1, <2>2, <2>3, ToPlaneNext
<1>5. ASSUME NEW c \in Connections, NEW m \in ToSet(toNode'[c])
      PROVE  Backed(m)'
  <2>1. CASE m \in ToSet(toNode[c])
    <3>1. /\ Backed(m)
          /\ m.type \in {"ack", "reject"} =>
               m.value.session \in Sessions /\ m.value.changes \in Nat
      BY <1>1, <1>3, <2>1, MessageFacts DEF FramesOfPlane
    <3>2. m.type = "ack" => m.value.changes <= canon'[m.value.session]
      BY <1>1, <1>2, <3>1 DEF Backed
    <3> QED
      BY <1>1, <3>1, <3>2 DEF Backed
  <2>2. CASE toNode'[c] = << >>
    BY <1>5, <2>2 DEF ToSet
  <2>3. CASE toNode[c] # << >> /\ toNode'[c] = Tail(toNode[c])
    <3>1. ToSet(Tail(toNode[c])) \subseteq ToSet(toNode[c])
      BY <1>1, <2>3, TailElements
    <3> QED
      BY <1>5, <2>1, <2>3, <3>1
  <2>4. ASSUME NEW f \in Messages, toNode'[c] = Append(toNode[c], f), Backed(f)'
        PROVE  Backed(m)'
    <3>1. ToSet(toNode'[c]) = ToSet(toNode[c]) \cup {f}
      BY <1>1, <2>4, AppendElements
    <3> QED
      BY <1>5, <2>1, <2>4, <3>1
  <2> QED
    BY <1>5, <2>1, <2>2, <2>3, <2>4, ToNodeNext
<1> QED
  BY <1>4, <1>5 DEF FramesOfNode, FramesOfPlane

\* A link that was opened before goes on, and one that is ready stays so.
LEMMA LinkNext ==
  ASSUME ConnectionInv, Next, Attached', ~Open
  PROVE  Attached /\ UNCHANGED opened /\ (link = "ready" => link' = "ready")
<1>1. CASE UNCHANGED linkVars
  BY <1>1 DEF linkVars, Attached
<1>2. CASE \/ ReceiveWelcome \/ ReceiveRefused \/ Drained \/ ReceiveReady \/ NodeNotices \/ Crash
           \/ \E t \in Tokens : EnrollAgain(t)
  BY <1>2 DEF ReceiveWelcome, ReceiveRefused, Drained, ReceiveReady, NodeNotices, Disconnected,
              Crash, EnrollAgain, Attached, Delivered
<1>3. CASE ReceiveReject
  BY <1>3 DEF ReceiveReject, Disconnected, Attached, Delivered, linkVars
<1> QED
  BY <1>1, <1>2, <1>3, Changes

LEMMA UnopenedNext ==
  ASSUME ConnectionInv, Next
  PROVE  Unopened'
<1>1. /\ TypeOK /\ Unopened /\ opened \in Nat /\ opened' \in Nat
      /\ phase \in [Connections -> {"none", "first", "hello", "draining", "ready"}]
      /\ via \in [Calls -> Connections \cup {NoConnection}]
      /\ link \in {"down", "sent", "draining", "drained", "ready", "refused"}
  <2>1. MaxConnections \in Nat
    BY ConnectionAssumption
  <2>2. opened \in 0 .. MaxConnections /\ TypeOK /\ Unopened
    BY DEF ConnectionInv, TypeOK
  <2>3. opened' \in 0 .. MaxConnections
    BY NodeNext, Zenon
  <2>4. opened \in Nat /\ opened' \in Nat
    BY <2>1, <2>2, <2>3
  <2> QED
    BY <2>2, <2>4 DEF TypeOK
<1>2. opened <= opened' /\ (UNCHANGED opened \/ Open)
  <2>1. CASE UNCHANGED linkVars
    BY <1>1, <2>1 DEF linkVars
  <2>2. CASE Open
    BY <1>1, <2>2 DEF Open
  <2>3. CASE \/ ReceiveWelcome \/ ReceiveRefused \/ Drained \/ ReceiveReady \/ NodeNotices \/ Crash
             \/ \E t \in Tokens : EnrollAgain(t)
    BY <1>1, <2>3 DEF ReceiveWelcome, ReceiveRefused, Drained, ReceiveReady, NodeNotices,
                      Disconnected, Crash, EnrollAgain
  <2>4. CASE ReceiveReject
    BY <1>1, <2>4 DEF ReceiveReject, Disconnected, linkVars
  <2> QED
    BY <2>1, <2>2, <2>3, <2>4, Changes
<1>3. Attached' => opened' # 0
  <2>1. Attached' => Attached \/ Open
    BY LinkNext
  <2>2. Open => opened' = opened + 1
    BY DEF Open
  <2> QED
    BY <1>1, <1>2, <2>1, <2>2 DEF Unopened
<1>4. ASSUME NEW c \in Connections, c > opened'
      PROVE  phase'[c] = "none" /\ toNode'[c] = << >>
  <2>1. c \in Nat /\ c > opened /\ c # Current /\ phase[c] = "none" /\ toNode[c] = << >>
    BY <1>1, <1>2, <1>4 DEF Unopened, Current, Connections
  <2>2. toNode'[c] = << >>
    BY <2>1, ToNodeNext
  <2>3. CASE UNCHANGED socketVars
    BY <2>1, <2>2, <2>3 DEF socketVars
  <2>4. CASE Open
    <3>1. phase' = [phase EXCEPT ![opened'] = "first"]
      BY <2>4 DEF Open
    <3>2. c # opened'
      BY <1>1, <1>4, <2>1
    <3> QED
      BY <1>1, <2>1, <2>2, <3>1, <3>2
  <2>5. ASSUME NEW d \in Connections, \/ ReceiveEnroll(d) \/ ReceiveAuth(d) \/ AuthTimeout(d)
                                      \/ ReceiveHello(d) \/ ReceiveDrained(d)
        PROVE  phase'[c] = "none"
    <3>1. phase[d] # "none" /\ \E x : phase' \in {phase, [phase EXCEPT ![d] = x]}
      BY <2>5 DEF ReceiveEnroll, ReceiveAuth, AuthTimeout, ReceiveHello, ReceiveDrained, Welcome,
                  Refuse
    <3> QED
      BY <1>1, <2>1, <3>1
  <2>6. CASE Revoke \/ PlaneStops \/ \E d \in Connections : PlaneNotices(d)
    <3>1. \/ UNCHANGED phase
          \/ \E cs : phase' = [d \in Connections |-> IF d \in cs THEN "none" ELSE phase[d]]
      BY <2>6 DEF Revoke, PlaneStops, PlaneNotices, Forget
    <3> QED
      BY <2>1, <2>2, <3>1
  <2> QED
    BY <2>2, <2>3, <2>4, <2>5, <2>6, Changes
<1>5. ASSUME NEW i \in Calls
      PROVE  via'[i] <= opened'
  <2>1. via[i] \in Nat /\ via[i] <= opened'
    BY <1>1, <1>2 DEF Unopened, Connections, NoConnection
  <2>2. UNCHANGED via \/ \E k \in Calls : Call(k)
    BY Changes DEF callVars, Revoke, PlaneStops, ReceiveHello, ReceiveResult, PlaneNotices, CallTimeout
  <2>3. ASSUME NEW k \in Calls, Call(k) PROVE via'[i] <= opened'
    <3>1. registered \in Connections /\ phase[registered] = "ready"
      BY <1>1, <2>3 DEF Call, Reachable, TypeOK
    <3>2. registered \in Nat /\ registered <= opened
      BY <1>1, <3>1 DEF Unopened, Connections
    <3>3. via' = [via EXCEPT ![k] = registered]
      BY <2>3 DEF Call
    <3> QED
      BY <1>1, <1>2, <2>1, <3>2, <3>3
  <2> QED
    BY <2>1, <2>2, <2>3
<1> QED
  BY <1>3, <1>4, <1>5 DEF Unopened

\* A revocation is lifted by an enrollment only, and verified before a welcome.
LEMMA SlippedNext ==
  ASSUME ConnectionInv, Next
  PROVE  NoneSlipped'
<1> SUFFICES ASSUME revoked', ~slipped'
             PROVE  registered' = NoConnection
                    /\ \A c \in Connections : phase'[c] \notin {"hello", "draining"}
  BY DEF NoneSlipped
<1>1. /\ TypeOK /\ NoneSlipped /\ NoConnection \notin Connections
      /\ phase \in [Connections -> {"none", "first", "hello", "draining", "ready"}]
      /\ registered \in Connections \cup {NoConnection}
      /\ registered # NoConnection => phase[registered] = "ready"
  BY DEF ConnectionInv, TypeOK, NoConnection, Connections
<1>2. CASE Revoke
  BY <1>1, <1>2 DEF Revoke, Unreached
<1>3. CASE ~Revoke
  <2>1. ~slipped
    <3>1. UNCHANGED slipped
      BY <1>3, Changes DEF history, Crash, Break, PlaneStops, AuthTimeout, ReceiveRecords,
                           ReceiveDrained
    <3> QED
      BY <3>1
  <2>2. ASSUME NEW c \in Connections, ReceiveEnroll(c) PROVE revoked /\ UNCHANGED phase
    BY <2>2 DEF ReceiveEnroll, Refuse
  <2>3. revoked
    BY <1>3, <2>2, Changes DEF credentials
  <2>4. registered = NoConnection /\ \A c \in Connections : phase[c] \notin {"hello", "draining"}
    BY <2>1, <2>3, <1>1 DEF NoneSlipped
  <2>5. CASE UNCHANGED socketVars
    BY <2>4, <2>5 DEF socketVars
  <2>6. CASE Open
    BY <1>1, <2>4, <2>6 DEF Open
  <2>7. CASE PlaneStops \/ \E c \in Connections : PlaneNotices(c)
    BY <1>1, <2>4, <2>7 DEF PlaneStops, PlaneNotices, Forget, Unregister
  <2>8. ASSUME NEW c \in Connections, ReceiveEnroll(c) PROVE UNCHANGED <<phase, registered>>
    BY <2>2, <2>8 DEF ReceiveEnroll
  <2>9. ASSUME NEW c \in Connections, ReceiveAuth(c) PROVE UNCHANGED <<phase, registered>>
    <3>1. VerifyNodeSecret(Value(c)) # "ok"
      BY <2>3 DEF VerifyNodeSecret
    <3> QED
      BY <2>9, <3>1 DEF ReceiveAuth, Refuse
  <2>10. ASSUME NEW c \in Connections, AuthTimeout(c) PROVE UNCHANGED <<phase, registered>>
    BY <2>10 DEF AuthTimeout, Refuse
  <2>11. \A c \in Connections : ~ReceiveHello(c) /\ ~ReceiveDrained(c)
    BY <2>4 DEF ReceiveHello, ReceiveDrained
  <2> QED
    BY <1>3, <2>4, <2>5, <2>6, <2>7, <2>8, <2>9, <2>10, <2>11, Changes
<1> QED
  BY <1>2, <1>3

\* Queues in which a ready frame comes before the calls, and in which no call comes twice.
LEMMA QueueTail ==
  ASSUME NEW q \in Seq(Messages), q # << >>
  PROVE  /\ Head(q).type # "ready" =>
              /\ CallsAfterReady(q) => CallsAfterReady(Tail(q))
              /\ HasReady(q) => HasReady(Tail(q))
         /\ CallsAfterReady(q) => Head(q).type # "call"
         /\ CallsOnce(q) =>
              CallsOnce(Tail(q)) /\ (Head(q).type = "call" => Head(q) \notin ToSet(Tail(q)))
<1>1. /\ Len(q) \in Nat \ {0} /\ DOMAIN q = 1 .. Len(q) /\ Head(q) = q[1]
      /\ DOMAIN Tail(q) = 1 .. Len(q) - 1 /\ \A i \in 1 .. Len(q) - 1 : Tail(q)[i] = q[i + 1]
  OBVIOUS
<1> DEFINE r == Tail(q)
<1> HIDE DEF r
<1>2. ASSUME Head(q).type # "ready", CallsAfterReady(q)
      PROVE  CallsAfterReady(r)
  <2> SUFFICES ASSUME NEW j \in DOMAIN r, r[j].type = "call"
               PROVE  \E k \in 1 .. j - 1 : r[k].type = "ready"
    BY DEF CallsAfterReady
  <2>1. j \in 1 .. Len(q) - 1 /\ j + 1 \in DOMAIN q /\ q[j + 1].type = "call"
    BY <1>1 DEF r
  <2>2. PICK k \in 1 .. (j + 1) - 1 : q[k].type = "ready"
    BY <1>2, <2>1 DEF CallsAfterReady
  <2>3. k # 1 /\ k - 1 \in 1 .. j - 1 /\ k - 1 \in 1 .. Len(q) - 1 /\ (k - 1) + 1 = k
    BY <1>1, <1>2, <2>1, <2>2
  <2>4. r[k - 1].type = "ready"
    BY <1>1, <2>2, <2>3 DEF r
  <2> QED
    BY <2>3, <2>4
<1>3. ASSUME Head(q).type # "ready", HasReady(q)
      PROVE  HasReady(r)
  BY <1>3, TailElements DEF HasReady, r
<1>4. CallsAfterReady(q) => Head(q).type # "call"
  BY <1>1 DEF CallsAfterReady
<1>5. ASSUME CallsOnce(q)
      PROVE  CallsOnce(r) /\ (Head(q).type = "call" => Head(q) \notin ToSet(r))
  <2>1. CallsOnce(r)
    <3> SUFFICES ASSUME NEW j \in DOMAIN r, NEW k \in DOMAIN r, r[j].type = "call", r[j] = r[k]
                 PROVE  j = k
      BY DEF CallsOnce
    <3>1. /\ j \in Nat /\ k \in Nat /\ j + 1 \in DOMAIN q /\ k + 1 \in DOMAIN q
          /\ q[j + 1] = r[j] /\ q[k + 1] = r[k]
      BY <1>1 DEF r
    <3>2. j + 1 = k + 1
      BY <1>5, <3>1 DEF CallsOnce
    <3> QED
      BY <3>1, <3>2
  <2>2. ASSUME Head(q).type = "call", NEW j \in DOMAIN r, r[j] = Head(q)
        PROVE  FALSE
    <3>1. j \in Nat /\ j # 0 /\ j + 1 \in DOMAIN q /\ 1 \in DOMAIN q /\ q[j + 1] = q[1]
      BY <1>1, <2>2 DEF r
    <3>2. j + 1 = 1
      BY <1>1, <1>5, <2>2, <3>1 DEF CallsOnce
    <3> QED
      BY <3>1, <3>2
  <2> QED
    BY <2>1, <2>2 DEF ToSet
<1> QED
  BY <1>2, <1>3, <1>4, <1>5 DEF r

LEMMA QueueAppend ==
  ASSUME NEW q \in Seq(Messages), NEW f \in Messages
  PROVE  /\ CallsAfterReady(q) /\ (f.type = "call" => HasReady(q)) => CallsAfterReady(Append(q, f))
         /\ HasReady(q) \/ f.type = "ready" => HasReady(Append(q, f))
         /\ CallsOnce(q) /\ (f.type = "call" => f \notin ToSet(q)) => CallsOnce(Append(q, f))
<1> DEFINE r == Append(q, f)
<1>1. /\ Len(q) \in Nat /\ DOMAIN q = 1 .. Len(q) /\ DOMAIN r = 1 .. Len(q) + 1
      /\ \A i \in 1 .. Len(q) : r[i] = q[i]
      /\ r[Len(q) + 1] = f
  OBVIOUS
<1>2. ToSet(r) = ToSet(q) \cup {f}
  BY AppendElements
<1> HIDE DEF r
<1>3. ASSUME CallsAfterReady(q), f.type = "call" => HasReady(q)
      PROVE  CallsAfterReady(r)
  <2> SUFFICES ASSUME NEW j \in DOMAIN r, r[j].type = "call"
               PROVE  \E k \in 1 .. j - 1 : r[k].type = "ready"
    BY DEF CallsAfterReady
  <2>1. PICK k \in 1 .. j - 1 : k \in 1 .. Len(q) /\ q[k].type = "ready"
    <3>1. CASE j \in 1 .. Len(q)
      <4>1. \E k \in 1 .. j - 1 : q[k].type = "ready"
        BY <1>1, <1>3, <3>1 DEF CallsAfterReady
      <4> QED
        BY <1>1, <3>1, <4>1
    <3>2. CASE j = Len(q) + 1
      <4>1. \E k \in 1 .. Len(q) : q[k].type = "ready"
        BY <1>1, <1>3, <3>2 DEF HasReady, ToSet
      <4> QED
        BY <1>1, <3>2, <4>1
    <3> QED
      BY <1>1, <3>1, <3>2
  <2> QED
    BY <1>1, <2>1
<1>4. HasReady(q) \/ f.type = "ready" => HasReady(r)
  BY <1>2 DEF HasReady
<1>5. ASSUME CallsOnce(q), f.type = "call" => f \notin ToSet(q)
      PROVE  CallsOnce(r)
  <2> SUFFICES ASSUME NEW j \in DOMAIN r, NEW k \in DOMAIN r, r[j].type = "call", r[j] = r[k]
               PROVE  j = k
    BY DEF CallsOnce
  <2>1. ASSUME NEW n \in 1 .. Len(q), f.type = "call"
        PROVE  r[n] # f
    BY <1>1, <1>5, <2>1 DEF ToSet
  <2>2. CASE j \in 1 .. Len(q) /\ k \in 1 .. Len(q)
    BY <1>1, <1>5, <2>2 DEF CallsOnce
  <2>3. CASE j = Len(q) + 1 \/ k = Len(q) + 1
    <3>1. r[j] = f /\ r[k] = f /\ f.type = "call"
      BY <1>1, <2>3
    <3>2. j \notin 1 .. Len(q) /\ k \notin 1 .. Len(q)
      BY <2>1, <3>1
    <3> QED
      BY <1>1, <3>2
  <2> QED
    BY <1>1, <2>2, <2>3
<1> QED
  BY <1>3, <1>4, <1>5 DEF r

-----------------------------------------------------------------------------
(* Where a call is. *)

\* A call is made once, and who made it sent it to the registered connection.
LEMMA CallNext ==
  ASSUME ConnectionInv, Next, NEW i \in Calls
  PROVE  /\ call'[i] = "none" => call[i] = "none" /\ ~Call(i)
         /\ ~Call(i) => via'[i] = via[i]
         /\ Call(i) => call[i] = "none" /\ via'[i] = registered
<1>1. /\ TypeOK /\ call \in [Calls -> {"none", "pending", "ok", "failed"}]
      /\ via \in [Calls -> Connections \cup {NoConnection}]
  BY DEF ConnectionInv, TypeOK
<1>2. CASE UNCHANGED callVars
  <2>1. ~Call(i)
    BY <1>1, <1>2 DEF Call, callVars
  <2> QED
    BY <1>2, <2>1 DEF callVars
<1>3. CASE Revoke \/ PlaneStops \/ \E c \in Connections :
             ReceiveHello(c) \/ ReceiveResult(c) \/ PlaneNotices(c)
  <2>1. /\ UNCHANGED via
        /\ \/ UNCHANGED call
           \/ \E c : call' = FailedCalls(c)
           \/ call' = [k \in Calls |-> IF call[k] = "pending" THEN "failed" ELSE call[k]]
           \/ \E k : call' = [call EXCEPT ![k] = IF @ = "pending" THEN "ok" ELSE @]
    BY <1>3 DEF Revoke, PlaneStops, ReceiveHello, ReceiveResult, PlaneNotices, Disconnect
  <2>2. ~Call(i)
    BY <1>1, <2>1 DEF Call, FailedCalls
  <2>3. call'[i] = "none" => call[i] = "none"
    BY <1>1, <2>1 DEF FailedCalls
  <2> QED
    BY <2>1, <2>2, <2>3
<1>4. ASSUME NEW k \in Calls, Call(k)
      PROVE  /\ call'[i] = "none" => call[i] = "none" /\ ~Call(i)
             /\ ~Call(i) => via'[i] = via[i]
             /\ Call(i) => call[i] = "none" /\ via'[i] = registered
  BY <1>1, <1>4 DEF Call
<1>5. ASSUME NEW k \in Calls, CallTimeout(k)
      PROVE  /\ call'[i] = "none" => call[i] = "none" /\ ~Call(i)
             /\ ~Call(i) => via'[i] = via[i]
             /\ Call(i) => call[i] = "none" /\ via'[i] = registered
  BY <1>1, <1>5 DEF Call, CallTimeout
<1> QED
  BY <1>2, <1>3, <1>4, <1>5, Changes

\* A call is answered only by the node, over the connection it came from.
LEMMA AnsweredNext ==
  ASSUME ConnectionInv, Next, NEW i \in Calls, Answered(i)'
  PROVE  Answered(i) \/ (Answer(i) /\ Attached /\ via[i] = Current)
<1>1. /\ TypeOK /\ call \in [Calls -> {"none", "pending", "ok", "failed"}]
  BY DEF ConnectionInv, TypeOK
<1>2. CASE call'[i] = "ok"
  <2>1. CASE UNCHANGED callVars
    BY <1>2, <2>1 DEF callVars, Answered
  <2>2. CASE Revoke \/ PlaneStops \/ \E c \in Connections : ReceiveHello(c) \/ PlaneNotices(c)
    <3>1. \/ UNCHANGED call
          \/ \E c : call' = FailedCalls(c)
          \/ call' = [k \in Calls |-> IF call[k] = "pending" THEN "failed" ELSE call[k]]
      BY <2>2 DEF Revoke, PlaneStops, ReceiveHello, PlaneNotices, Disconnect
    <3> QED
      BY <1>2, <3>1 DEF FailedCalls, Answered
  <2>3. ASSUME NEW c \in Connections, ReceiveResult(c)
        PROVE  Answered(i)
    <3>1. /\ Head(toPlane[c]) \in Messages /\ Head(toPlane[c]).type = "result"
          /\ Head(toPlane[c]) \in ToSet(toPlane[c])
      BY <1>1, <2>3, Consumed DEF ReceiveResult
    <3>2. Head(toPlane[c]) = ResultFrame(Value(c))
      BY <3>1, MessageFacts DEF ResultFrame, Value
    <3>3. call' = [call EXCEPT ![Value(c)] = IF @ = "pending" THEN "ok" ELSE @]
      BY <2>3 DEF ReceiveResult
    <3> QED
      BY <1>1, <1>2, <3>1, <3>2, <3>3 DEF Answered
  <2>4. CASE \E k \in Calls : Call(k) \/ CallTimeout(k)
    BY <1>1, <1>2, <2>4 DEF Call, CallTimeout, Answered
  <2> QED
    BY <2>1, <2>2, <2>3, <2>4, Changes
<1>3. ASSUME NEW d \in Connections, ResultFrame(i) \in ToSet(toPlane'[d])
      PROVE  Answered(i) \/ (Answer(i) /\ Attached /\ via[i] = Current)
  <2>1. ResultFrame(i).type = "result" /\ \A k : ResultFrame(i) = ResultFrame(k) => i = k
    BY FrameParts DEF ResultFrame
  <2> QED
    BY <1>3, <2>1, ToPlaneNext DEF Answered
<1> QED
  BY <1>2, <1>3 DEF Answered

\* A call comes to the node's queue when it is made, and leaves it when it is received.
LEMMA CallFrameNext ==
  ASSUME ConnectionInv, Next, NEW c \in Connections
  PROVE  /\ \A i \in Calls : CallFrame(i) \in ToSet(toNode'[c]) =>
              CallFrame(i) \in ToSet(toNode[c]) \/ (Call(i) /\ c = registered)
         /\ CallsOnce(toNode'[c])
<1>1. /\ TypeOK /\ toNode \in [Connections -> Seq(Messages)] /\ toNode[c] \in Seq(Messages)
      /\ CallsOnce(toNode[c])
      /\ \A k \in Calls : call[k] = "none" => CallFrame(k) \notin ToSet(toNode[c])
  BY DEF ConnectionInv, TypeOK, OnePlace
<1>2. CASE toNode'[c] = toNode[c]
  BY <1>1, <1>2
<1>3. CASE toNode'[c] = << >>
  BY <1>3 DEF ToSet, CallsOnce
<1>4. CASE toNode[c] # << >> /\ toNode'[c] = Tail(toNode[c])
  <2>1. ToSet(Tail(toNode[c])) \subseteq ToSet(toNode[c]) /\ CallsOnce(Tail(toNode[c]))
    BY <1>1, <1>4, TailElements, QueueTail
  <2> QED
    BY <1>4, <2>1
<1>5. ASSUME NEW f \in Messages, toNode'[c] = Append(toNode[c], f),
             f.type = "call" => c = registered /\ \E k \in Calls : Call(k) /\ f = CallFrame(k)
      PROVE  /\ \A i \in Calls : CallFrame(i) \in ToSet(toNode'[c]) =>
                  CallFrame(i) \in ToSet(toNode[c]) \/ (Call(i) /\ c = registered)
             /\ CallsOnce(toNode'[c])
  <2>1. ToSet(toNode'[c]) = ToSet(toNode[c]) \cup {f}
    BY <1>1, <1>5, AppendElements
  <2>2. \A i : CallFrame(i).type = "call" /\ \A k : CallFrame(i) = CallFrame(k) => i = k
    BY FrameParts DEF CallFrame
  <2>3. f.type = "call" => f \notin ToSet(toNode[c])
    BY <1>1, <1>5 DEF Call
  <2>4. CallsOnce(toNode'[c])
    BY <1>1, <1>5, <2>3, QueueAppend
  <2>5. ASSUME NEW i \in Calls, CallFrame(i) \in ToSet(toNode'[c])
        PROVE  CallFrame(i) \in ToSet(toNode[c]) \/ (Call(i) /\ c = registered)
    BY <1>5, <2>1, <2>2, <2>5
  <2> QED
    BY <2>4, <2>5
<1> QED
  BY <1>2, <1>3, <1>4, <1>5, ToNodeNext

\* The node handles what it received, once, and answers what it handled.
LEMMA HandlingNext ==
  ASSUME ConnectionInv, Next, NEW i \in Calls
  PROVE  /\ i \in handling' =>
              \/ i \in handling
              \/ /\ ReceiveCall /\ Attached /\ Current \in Connections
                 /\ CallFrame(i) \in ToSet(toNode[Current])
                 /\ CallFrame(i) \notin ToSet(toNode'[Current])
                 /\ ~CallsAfterReady(toNode[Current])
         /\ i \in answering' => i \in answering \/ (i \in handling /\ i \notin handling')
         /\ started'[i] # started[i] => i \in handling
<1>1. /\ TypeOK /\ Unopened /\ OnePlace /\ started \in [Calls -> Nat]
  BY DEF ConnectionInv, TypeOK
<1>2. CASE UNCHANGED workVars
  BY <1>2 DEF workVars
<1>3. CASE ReceiveCall
  <2>1. /\ Current \in Connections /\ toNode[Current] \in Seq(Messages) /\ toNode[Current] # << >>
        /\ Head(toNode[Current]) \in Messages /\ Head(toNode[Current]).type = "call"
        /\ Head(toNode[Current]) \in ToSet(toNode[Current])
        /\ toNode'[Current] = Tail(toNode[Current])
    BY <1>1, <1>3, TakenOff DEF ReceiveCall
  <2>2. Head(toNode[Current]) = CallFrame(Received)
    BY <2>1, MessageFacts DEF CallFrame, Received
  <2>3. /\ ~CallsAfterReady(toNode[Current])
        /\ Head(toNode[Current]) \notin ToSet(Tail(toNode[Current]))
    BY <1>1, <2>1, QueueTail DEF OnePlace
  <2>4. Attached /\ handling' = handling \cup {Received} /\ UNCHANGED <<answering, started>>
    BY <1>3 DEF ReceiveCall, Delivered
  <2> QED
    BY <1>3, <2>1, <2>2, <2>3, <2>4
<1>4. CASE \E k \in Calls : Admit(k) \/ RecoverImported(k) \/ Answer(k)
  BY <1>1, <1>4 DEF Admit, RecoverImported, Answer
<1>5. CASE Crash \/ (\E s \in Sessions : Finish(s)) \/ \E t \in Tokens : EnrollAgain(t)
  BY <1>5 DEF Crash, Finish, EnrollAgain, NewProcess
<1> QED
  BY <1>2, <1>3, <1>4, <1>5, Changes

LEMMA OnePlaceNext ==
  ASSUME ConnectionInv, Next
  PROVE  OnePlace'
<1>1. TypeOK /\ OnePlace
  BY DEF ConnectionInv
<1>2. \A c \in Connections : CallsOnce(toNode'[c])
  BY CallFrameNext
<1>3. ASSUME NEW i \in Calls, call'[i] = "none"
      PROVE  /\ i \notin handling' \cup answering' /\ ~Answered(i)'
             /\ \A c \in Connections : CallFrame(i) \notin ToSet(toNode'[c])
  <2>1. /\ ~Call(i) /\ i \notin handling /\ i \notin answering /\ ~Answered(i)
        /\ \A c \in Connections : CallFrame(i) \notin ToSet(toNode[c])
    BY <1>1, <1>3, CallNext DEF OnePlace
  <2> QED
    BY <2>1, HandlingNext, AnsweredNext, CallFrameNext DEF Answer
<1>4. ASSUME NEW c \in Connections, NEW i \in Calls, CallFrame(i) \in ToSet(toNode'[c])
      PROVE  via'[i] = c /\ i \notin handling' \cup answering' /\ ~Answered(i)'
  <2>1. CASE CallFrame(i) \in ToSet(toNode[c])
    <3>1. /\ via[i] = c /\ i \notin handling /\ i \notin answering /\ ~Answered(i)
          /\ \A d \in Connections : CallFrame(i) \in ToSet(toNode[d]) => d = c
          /\ call[i] # "none"
      BY <1>1, <2>1 DEF OnePlace
    <3>2. i \notin handling'
      BY <1>4, <3>1, HandlingNext
    <3> QED
      BY <3>1, <3>2, HandlingNext, AnsweredNext, CallNext DEF Answer
  <2>2. CASE Call(i) /\ c = registered
    <3>1. /\ call[i] = "none" /\ via'[i] = c
      BY <2>2, CallNext
    <3>2. /\ i \notin handling /\ i \notin answering /\ ~Answered(i)
          /\ \A d \in Connections : CallFrame(i) \notin ToSet(toNode[d])
      BY <1>1, <3>1 DEF OnePlace
    <3> QED
      BY <3>1, <3>2, HandlingNext, AnsweredNext DEF Answer
  <2> QED
    BY <1>4, <2>1, <2>2, CallFrameNext
<1>5. ASSUME NEW i \in Calls, i \in handling'
      PROVE  i \notin answering' /\ ~Answered(i)'
  <2>1. i \notin answering /\ ~Answered(i)
    BY <1>1, <1>5, HandlingNext DEF OnePlace
  <2> QED
    BY <1>5, <2>1, HandlingNext, AnsweredNext DEF Answer
<1>6. handling' \subseteq Calls
  BY NodeNext
<1> QED
  BY <1>2, <1>3, <1>4, <1>5, <1>6 DEF OnePlace

\* The node has its link ready before the first call of its connection comes to it.
LEMMA ReadyNext ==
  ASSUME ConnectionInv, Next
  PROVE  ReadyBeforeCalls'
<1> SUFFICES ASSUME Attached'
             PROVE  /\ link' # "ready" => CallsAfterReady(toNode'[Current'])
                    /\ link' # "ready" /\ sock'[Current'] = "open" /\ phase'[Current'] = "ready"
                         => HasReady(toNode'[Current'])
                    /\ \A i \in handling' \cup answering' : via'[i] = Current' => link' = "ready"
  BY DEF ReadyBeforeCalls
<1>1. /\ TypeOK /\ Unopened /\ OnePlace /\ ReadyBeforeCalls /\ opened \in Nat
      /\ phase \in [Connections -> {"none", "first", "hello", "draining", "ready"}]
      /\ sock \in [Connections -> {"open", "closing", "closed"}]
      /\ toNode \in [Connections -> Seq(Messages)]
      /\ handling \cup answering \subseteq Calls /\ handling' \cup answering' \subseteq Calls
      /\ via \in [Calls -> Connections \cup {NoConnection}]
  BY NodeNext, ConnectionAssumption DEF ConnectionInv, TypeOK
<1>2. CASE Open
  <2>1. /\ opened' = opened + 1 /\ opened' \in Connections
        /\ phase' = [phase EXCEPT ![opened'] = "first"]
        /\ UNCHANGED <<toNode, via, handling, answering>>
    BY <1>1, <1>2, ConnectionAssumption DEF Open, callVars, workVars, Connections
  <2>2. phase'[Current'] = "first" /\ toNode'[Current'] = << >>
    BY <1>1, <2>1 DEF Current, Unopened
  <2>3. \A i \in Calls : via'[i] # Current'
    <3>1. \A i \in Calls : via[i] \in Nat /\ via[i] <= opened
      BY <1>1 DEF Unopened, Connections, NoConnection
    <3> QED
      BY <1>1, <2>1, <3>1 DEF Current
  <2> QED
    BY <1>1, <2>2, <2>3 DEF CallsAfterReady
<1>3. CASE ~Open
  <2> DEFINE q == toNode[Current]
  <2>1. Attached /\ Current' = Current /\ (link = "ready" => link' = "ready")
    BY <1>3, LinkNext DEF Current
  <2>2. /\ Current \in Connections /\ q \in Seq(Messages)
        /\ link # "ready" => CallsAfterReady(q)
        /\ link # "ready" /\ sock[Current] = "open" /\ phase[Current] = "ready" => HasReady(q)
        /\ \A i \in handling \cup answering : via[i] = Current => link = "ready"
    BY <1>1, <2>1, CurrentOpened DEF ReadyBeforeCalls
  <2>3. \/ toNode'[Current] = q
        \/ NodeReceives /\ q # << >> /\ toNode'[Current] = Tail(q)
        \/ /\ sock[Current] = "open"
           /\ \E f \in Messages : /\ toNode'[Current] = Append(q, f)
                                  /\ f.type = "call" => Current = registered
    BY <2>2, ToNodeNext
  <2>4. ASSUME NodeReceives, link' # "ready"
        PROVE  Head(q).type # "ready"
    BY <2>4 DEF NodeReceives, ReceiveWelcome, ReceiveRefused, ReceiveAck, ReceiveReject,
                ReceiveReady, ReceiveCall, Delivered
  <2>5. link' # "ready" => CallsAfterReady(toNode'[Current])
    <3> SUFFICES ASSUME link' # "ready" PROVE CallsAfterReady(toNode'[Current])
      OBVIOUS
    <3>1. CallsAfterReady(q)
      BY <2>1, <2>2
    <3>2. ASSUME sock[Current] = "open", Current = registered PROVE HasReady(q)
      BY <1>1, <2>1, <2>2, <3>2 DEF TypeOK, NoConnection, Connections
    <3> QED
      BY <2>2, <2>3, <2>4, <3>1, <3>2, QueueTail, QueueAppend
  <2>6. ASSUME link' # "ready", sock'[Current] = "open", phase'[Current] = "ready"
        PROVE  HasReady(toNode'[Current])
    <3>1. CASE ReceiveDrained(Current)
      <4>1. sock[Current] = "open" /\ ReadySessions(Current) \in SUBSET Sessions
            /\ Send(Current, Frame("ready", ReadySessions(Current)))
        BY <2>6, <3>1 DEF ReceiveDrained, ReadySessions
      <4>2. Frame("ready", ReadySessions(Current)) \in Messages
            /\ Frame("ready", ReadySessions(Current)).type = "ready"
        BY <4>1, FrameTypes, FrameParts
      <4>3. toNode'[Current] = Append(q, Frame("ready", ReadySessions(Current)))
        BY <1>1, <2>1, <2>2, <4>1, <4>2, Sent
      <4> QED
        BY <2>2, <4>2, <4>3, QueueAppend
    <3>2. CASE ~ReceiveDrained(Current)
      <4>1. sock[Current] = "open" /\ phase[Current] = "ready"
        <5>1. CASE UNCHANGED socketVars
          BY <2>6, <5>1 DEF socketVars
        <5>2. CASE Revoke
          BY <1>1, <2>2, <2>6, <5>2 DEF Revoke, Disconnect
        <5>3. CASE PlaneStops \/ \E c \in Connections : PlaneNotices(c)
          <6>1. \E cs : /\ sock' = [c \in Connections |-> IF c \in cs THEN "closed" ELSE sock[c]]
                        /\ phase' = [c \in Connections |-> IF c \in cs THEN "none" ELSE phase[c]]
            BY <5>3 DEF PlaneStops, PlaneNotices, Forget
          <6> QED
            BY <2>2, <2>6, <6>1
        <5>4. ASSUME NEW c \in Connections, ReceiveEnroll(c) \/ ReceiveAuth(c) \/ AuthTimeout(c)
              PROVE  sock[Current] = "open" /\ phase[Current] = "ready"
          <6>1. /\ phase' \in {phase, [phase EXCEPT ![c] = "hello"]}
                /\ sock' \in {sock, [sock EXCEPT ![c] = IF @ = "open" THEN "closing" ELSE @]}
            BY <5>4 DEF ReceiveEnroll, ReceiveAuth, AuthTimeout, Welcome, Refuse
          <6> QED
            BY <1>1, <2>2, <2>6, <6>1
        <5>5. ASSUME NEW c \in Connections, ReceiveHello(c)
              PROVE  sock[Current] = "open" /\ phase[Current] = "ready"
          <6>1. /\ phase' = [phase EXCEPT ![c] = "draining"]
                /\ \E r : sock' \in {sock, [sock EXCEPT ![r] = IF @ = "open" THEN "closing" ELSE @]}
            BY <5>5 DEF ReceiveHello
          <6> QED
            BY <1>1, <2>2, <2>6, <6>1
        <5>6. ASSUME NEW c \in Connections, ReceiveDrained(c)
              PROVE  sock[Current] = "open" /\ phase[Current] = "ready"
          BY <1>1, <2>2, <2>6, <3>2, <5>6 DEF ReceiveDrained
        <5> QED
          BY <1>3, <5>1, <5>2, <5>3, <5>4, <5>5, <5>6, Changes
      <4>2. HasReady(q)
        BY <2>1, <2>2, <2>6, <4>1
      <4> QED
        BY <2>2, <2>3, <2>4, <2>6, <4>2, QueueTail, QueueAppend
    <3> QED
      BY <3>1, <3>2
  <2>7. ASSUME NEW i \in handling' \cup answering', via'[i] = Current
        PROVE  link' = "ready"
    <3>1. i \in Calls
      BY <1>1
    <3>2. CASE i \in handling \cup answering
      <4>1. ~Call(i)
        BY <1>1, <3>1, <3>2, CallNext DEF OnePlace
      <4> QED
        BY <2>1, <2>2, <2>7, <3>1, <3>2, <4>1, CallNext
    <3>3. CASE i \notin handling \cup answering
      BY <2>1, <2>2, <2>7, <3>1, <3>3, HandlingNext
    <3> QED
      BY <3>2, <3>3
  <2> QED
    BY <2>1, <2>5, <2>6, <2>7
<1> QED
  BY <1>2, <1>3

\* An answer over a connection is sent when the plane has all that the call wrote, unless a
\* batch of its session was rejected.
LEMMA DurableNext ==
  ASSUME ConnectionInv, Next
  PROVE  AnsweredIsDurable'
<1> SUFFICES ASSUME NEW i \in Calls, Answered(i)', Target[i] \notin spoiled'
             PROVE  canon'[Target[i]] >= started'[i]
  BY DEF AnsweredIsDurable
<1>1. /\ TypeOK /\ ReadyBeforeCalls /\ AnsweredIsDurable /\ OnePlace
      /\ started \in [Calls -> Nat] /\ acked \in [Sessions -> Nat] /\ canon \in [Sessions -> Nat]
      /\ canon' \in [Sessions -> Nat] /\ Target[i] \in Sessions /\ Target[i] \notin spoiled
      /\ canon[Target[i]] <= canon'[Target[i]] /\ acked[Target[i]] <= canon[Target[i]]
  BY LogsNext, ConnectionAssumption DEF ConnectionInv, TypeOK
<1>2. CASE Answered(i)
  <2>1. i \notin handling /\ canon[Target[i]] >= started[i]
    BY <1>1, <1>2 DEF OnePlace, AnsweredIsDurable
  <2>2. started'[i] = started[i]
    BY <2>1, HandlingNext
  <2> QED
    BY <1>1, <2>1, <2>2
<1>3. CASE Answer(i) /\ Attached /\ via[i] = Current
  <2>1. link = "ready" /\ started'[i] = started[i]
    BY <1>1, <1>3 DEF ReadyBeforeCalls, Answer
  <2>2. acked[Target[i]] >= started[i]
    BY <1>3, <2>1 DEF Answer, Flushed
  <2> QED
    BY <1>1, <2>1, <2>2
<1> QED
  BY <1>2, <1>3, AnsweredNext

-----------------------------------------------------------------------------
(* The theorems. *)

LEMMA ConnectionInit ==
  Init => ConnectionInv
<1> SUFFICES ASSUME Init PROVE ConnectionInv
  OBVIOUS
<1>1. TypeOK
  <2>1. << >> \in Seq(Messages) /\ 1 \in Tokens /\ 0 \in 0 .. MaxConnections /\ 0 \in 0 .. MaxFaults
    BY ConnectionAssumption DEF Tokens
  <2>2. /\ toPlane \in [Connections -> Seq(Messages)] /\ toNode \in [Connections -> Seq(Messages)]
        /\ registered = NoConnection
    BY <2>1 DEF Init
  <2>3. /\ secretHash \in Nat /\ revoked \in BOOLEAN
        /\ tokenState \in [Tokens -> {"unused", "used", "expired"}]
        /\ canon \in [Sessions -> Nat] /\ log \in [Sessions -> Nat] /\ acked \in [Sessions -> Nat]
        /\ unreadable \subseteq spoiled /\ spoiled \subseteq Sessions
        /\ \A s \in Sessions \ spoiled : acked[s] <= canon[s] /\ canon[s] <= log[s]
    <3>1. secretHash \in Nat /\ revoked \in BOOLEAN
      BY DEF Init, NoSecret
    <3>2. tokenState \in [Tokens -> {"unused", "used", "expired"}]
      BY DEF Init
    <3>3. /\ canon = [s \in Sessions |-> 0] /\ log = [s \in Sessions |-> 0] /\ acked = log
          /\ unreadable = {} /\ spoiled = {}
      BY DEF Init
    <3> QED
      BY <3>1, <3>2, <3>3
  <2>4. /\ phase \in [Connections -> {"none", "first", "hello", "draining", "ready"}]
        /\ sock \in [Connections -> {"open", "closing", "closed"}]
        /\ remote \in [Connections -> {"none", "live", "closed"}]
        /\ announced \in [Connections -> SUBSET Sessions]
        /\ broken \in [Connections -> BOOLEAN]
    BY DEF Init
  <2>5. /\ call \in [Calls -> {"none", "pending", "ok", "failed"}]
        /\ via \in [Calls -> Connections \cup {NoConnection}]
        /\ started \in [Calls -> Nat] /\ awaiting \in [Sessions -> Nat]
    BY DEF Init
  <2>6. /\ secret \in Nat /\ token \in Tokens \cup {NoToken} /\ opened \in 0 .. MaxConnections
        /\ link \in {"down", "sent", "draining", "drained", "ready", "refused"}
        /\ working \subseteq Sessions /\ handling \cup answering \subseteq Calls
        /\ recovering \subseteq Sessions
        /\ slipped \in BOOLEAN /\ overtaken \in BOOLEAN /\ faults \in 0 .. MaxFaults
    BY <2>1 DEF Init, NoSecret
  <2> QED
    BY <2>2, <2>3, <2>4, <2>5, <2>6 DEF TypeOK
<1>2. \A c \in Connections : ToSet(toPlane[c]) = {} /\ ToSet(toNode[c]) = {} /\ CallsOnce(toNode[c])
  BY DEF Init, ToSet, CallsOnce
<1>3. FramesOfNode /\ FramesOfPlane
  BY <1>2 DEF FramesOfNode, FramesOfPlane
<1>4. Unopened /\ NoneSlipped /\ ReadyBeforeCalls
  BY DEF Init, Unopened, NoneSlipped, ReadyBeforeCalls, Attached, NoConnection
<1>5. \A i \in Calls : ~Answered(i)
  BY <1>2 DEF Init, Answered
<1>6. OnePlace /\ AnsweredIsDurable
  BY <1>2, <1>5 DEF Init, OnePlace, AnsweredIsDurable
<1> QED
  BY <1>1, <1>3, <1>4, <1>6 DEF ConnectionInv

LEMMA ConnectionStutter ==
  ASSUME ConnectionInv, UNCHANGED vars
  PROVE  ConnectionInv'
<1> USE DEF vars, credentials, socketVars, callVars, netVars, planeLog, logVars, linkVars, workVars,
            taskVars, history
<1>1. TypeOK'
  BY DEF ConnectionInv, TypeOK
<1>2. FramesOfNode' /\ FramesOfPlane' /\ Unopened' /\ NoneSlipped'
  BY DEF ConnectionInv, FramesOfNode, FramesOfPlane, Backed, Unopened, NoneSlipped, Attached
<1>3. ReadyBeforeCalls'
  BY DEF ConnectionInv, ReadyBeforeCalls, Attached, Current
<1>4. OnePlace' /\ AnsweredIsDurable'
  BY DEF ConnectionInv, OnePlace, AnsweredIsDurable, Answered
<1> QED
  BY <1>1, <1>2, <1>3, <1>4 DEF ConnectionInv

\* The invariant of a node's connections, of which the properties below are consequences.
THEOREM ConnectionInvariant == Spec => []ConnectionInv
<1>1. ConnectionInv /\ [Next]_vars => ConnectionInv'
  BY TypesNext, FramesNext, UnopenedNext, SlippedNext, ReadyNext, OnePlaceNext, DurableNext,
     ConnectionStutter DEF ConnectionInv
<1> QED
  BY <1>1, ConnectionInit, PTL DEF Spec

\* The types of the connection's state, and that nothing is acknowledged which the plane has
\* not, as long as no batch of the session was rejected.
THEOREM ConnectionTypes == Spec => []TypeOK
<1>1. ConnectionInv => TypeOK
  BY DEF ConnectionInv
<1> QED
  BY <1>1, ConnectionInvariant, PTL

(***************************************************************************)
(* A revoked node is not in the registry, unless the revocation came while *)
(* one of its connections was past the verification and not yet            *)
(* registered.                                                             *)
(***************************************************************************)
THEOREM RevocationHoldsAlways == Spec => []RevocationHolds
<1>1. ConnectionInv => RevocationHolds
  BY DEF ConnectionInv, NoneSlipped, RevocationHolds, TypeOK
<1> QED
  BY <1>1, ConnectionInvariant, PTL

(***************************************************************************)
(* What a call wrote is in the plane's log when its caller hears that it   *)
(* succeeded, through lost connections, crashes and stops: until the plane *)
(* rejects a batch of the session, from which on success says nothing of   *)
(* the log.                                                                *)
(***************************************************************************)
THEOREM AnswerIsDurableHolds == Spec => []AnswerIsDurable
<1>1. ConnectionInv => AnswerIsDurable
  BY DEF ConnectionInv, AnsweredIsDurable, Answered, AnswerIsDurable
<1> QED
  BY <1>1, ConnectionInvariant, PTL
=============================================================================
