--------------------------- MODULE NodeConnection ---------------------------
(***************************************************************************)
(* How a remote node becomes, and stays, reachable from the plane:         *)
(* handleConnection in packages/server/src/socket.ts, NodeRegistry and     *)
(* RemoteNode in nodes.ts, the credentials of nodes in catalog.ts, calls   *)
(* and revocation in plane.ts, and Link in packages/node/src/link.ts.      *)
(*                                                                         *)
(* The connections of one node are numbered in the order it opens them.    *)
(* Each has a frame queue in either direction.  A broken connection is     *)
(* noticed by its two ends in any order and at any time, so that the plane *)
(* may serve two connections of the node; until it notices, frames on the  *)
(* way may still arrive.                                                   *)
(*                                                                         *)
(* A session's log is the number of its status changes: a turn runs while  *)
(* it is odd.  Records themselves, which batches continue a log and what   *)
(* becomes of a log and a spool that disagree, are Replication's subject.  *)
(***************************************************************************)
EXTENDS Naturals, FiniteSets, Sequences

CONSTANTS
  Sessions,        \* sessions of the node
  Prompts,         \* calls of the plane that admit a prompt: they time out
  Recoveries,      \* its calls that recover an imported session: they do not
  Target,          \* the session each call is for
  MaxConnections,  \* bound: connections the node opens
  MaxTokens,       \* bound: enrollment tokens issued
  MaxFaults        \* bound: broken connections, late first frames, revocations, stops, and
                   \* sessions of which a batch is rejected

Calls == Prompts \cup Recoveries

ASSUME ConnectionAssumption ==
  /\ Target \in [Calls -> Sessions]
  /\ MaxConnections \in Nat /\ MaxTokens \in Nat \ {0} /\ MaxFaults \in Nat

Connections == 1 .. MaxConnections
Tokens == 1 .. MaxTokens
NoConnection == 0
NoSecret == 0                  \* secrets are numbered; this is the absent one
NoToken == 0

VARIABLES
  \* The plane's catalog.
  secretHash, revoked,
  tokenState,   \* of each token: "unused", "used", "expired"
  canon,        \* of each session: the changes in the canonical log
  unreadable,   \* sessions whose row says that their log cannot be read
  \* The plane's connections.
  phase,        \* "none", "first", "hello", "draining", "ready"
  sock,         \* of each connection at the plane: "open", "closing", "closed"
  remote,       \* of its RemoteNode: "none", "live", "closed"
  announced,    \* the running sessions its hello named
  registered,   \* the connection whose RemoteNode is in the registry
  call,         \* of each call: "none", "pending", "ok", "failed"
  via,          \* the connection it was sent on
  \* The network.
  toPlane, toNode, broken,
  \* The node's disk.
  secret,       \* in node.json
  log, acked,   \* changes written and, of them, acknowledged: the rest is the spool
  \* The node process.
  token,        \* the token it was started with, until it is exchanged
  link,         \* "down", "sent", "draining", "drained", "ready", "refused"
  opened,       \* the number of connections opened: the latest is the current one
  working,      \* sessions with a turn that executes
  handling,     \* calls received and not yet executed
  answering,    \* calls executed and not yet answered
  started,      \* of each call: the log after it was executed
  awaiting,     \* of each session: the change whose acknowledgement a flush awaits, or 0
  recovering,   \* sessions left of the ready frame's list
  \* History and bounds.
  cause,        \* why the node was refused
  slipped,      \* a handshake went on over a revocation
  overtaken,    \* a connection was registered after a later one
  spoiled,      \* sessions of which a batch was rejected
  faults

credentials == <<secretHash, revoked, tokenState>>
socketVars == <<phase, sock, remote, announced, registered>>
callVars == <<call, via>>
netVars == <<toPlane, toNode, broken>>
planeLog == <<canon, unreadable, spoiled>>
logVars == <<planeLog, log, acked>>
linkVars == <<secret, token, link, opened, cause>>
workVars == <<working, handling, answering, started>>
taskVars == <<awaiting, recovering>>
history == <<slipped, overtaken, faults>>
vars == <<credentials, socketVars, callVars, netVars, logVars, linkVars, workVars, taskVars,
           history>>

Frame(type, value) == [type |-> type, value |-> value]
Running(changes) == changes % 2 = 1

Init ==
  /\ secretHash = NoSecret /\ revoked = FALSE
  /\ tokenState = [t \in Tokens |-> "unused"]
  /\ canon = [s \in Sessions |-> 0] /\ unreadable = {} /\ spoiled = {}
  /\ phase = [c \in Connections |-> "none"]
  /\ sock = [c \in Connections |-> "closed"]
  /\ remote = [c \in Connections |-> "none"]
  /\ announced = [c \in Connections |-> {}]
  /\ registered = NoConnection
  /\ call = [i \in Calls |-> "none"] /\ via = [i \in Calls |-> NoConnection]
  /\ toPlane = [c \in Connections |-> << >>] /\ toNode = [c \in Connections |-> << >>]
  /\ broken = [c \in Connections |-> FALSE]
  /\ secret = NoSecret /\ log = [s \in Sessions |-> 0] /\ acked = log
  /\ token = 1 /\ link = "down" /\ opened = 0
  /\ working = {} /\ handling = {} /\ answering = {} /\ started = [i \in Calls |-> 0]
  /\ awaiting = [s \in Sessions |-> 0] /\ recovering = {}
  /\ cause = "none" /\ slipped = FALSE /\ overtaken = FALSE /\ faults = 0

-----------------------------------------------------------------------------
(* Frames. *)

Arrives(c, type) == toPlane[c] # << >> /\ Head(toPlane[c]).type = type /\ sock[c] # "closed"
Consume(c) == toPlane' = [toPlane EXCEPT ![c] = Tail(@)]
Value(c) == Head(toPlane[c]).value

Current == opened
Attached == link \notin {"down", "refused"}

\* What is sent over a socket that is not open, or that the node has left, gets nowhere.
Send(c, frame) ==
  toNode' = IF sock[c] = "open" /\ c = Current /\ Attached
              THEN [toNode EXCEPT ![c] = Append(@, frame)] ELSE toNode

Delivered(type) == Attached /\ toNode[Current] # << >> /\ Head(toNode[Current]).type = type
Taken == toNode' = [toNode EXCEPT ![Current] = Tail(@)]
Received == Head(toNode[Current]).value
Reply(frame) == toPlane' = [toPlane EXCEPT ![Current] = Append(@, frame)]

-----------------------------------------------------------------------------
(* Credentials, in the catalog. *)

\* The answers that a token may get: whether its fifteen minutes are over is not known.
ConsumeToken(t) ==
  CASE tokenState[t] = "unused" -> {"ok", "token_expired"}
    [] tokenState[t] = "used" -> {"token_used"}
    [] tokenState[t] = "expired" -> {"token_expired"}

\* Faulty: a revoked node's secret still verifies.
VerifyRevoked(s) == IF s # NoSecret /\ s = secretHash THEN "ok" ELSE "unauthorized"

VerifyNodeSecret(s) ==
  CASE secretHash = NoSecret -> "unauthorized"
    [] revoked -> "revoked"
    [] s # secretHash -> "unauthorized"
    [] OTHER -> "ok"

-----------------------------------------------------------------------------
(* The node opens a connection. *)

Open ==
  /\ link = "down" /\ opened < MaxConnections
  /\ opened' = opened + 1
  /\ phase' = [phase EXCEPT ![opened'] = "first"]
  /\ sock' = [sock EXCEPT ![opened'] = "open"]
  /\ toPlane' = [toPlane EXCEPT ![opened'] =
       <<IF token # NoToken THEN Frame("enroll", token) ELSE Frame("auth", secret)>>]
  /\ link' = "sent"
  /\ UNCHANGED <<credentials, remote, announced, registered, callVars, toNode, broken, logVars,
                 secret, token, cause, workVars, taskVars, history>>

\* The socket is closed, and the node never tries again.
Refuse(c, code) ==
  /\ Send(c, Frame("refused", code))
  /\ sock' = [sock EXCEPT ![c] = IF @ = "open" THEN "closing" ELSE @]
  /\ UNCHANGED phase

Welcome(c, s) ==
  /\ Send(c, Frame("welcome", s))
  /\ phase' = [phase EXCEPT ![c] = "hello"]
  /\ UNCHANGED sock

(***************************************************************************)
(* A token is exchanged for a secret: it is consumed, and the new secret   *)
(* replaces an older one and lifts a revocation, before the answer is      *)
(* sent.                                                                   *)
(***************************************************************************)
ReceiveEnroll(c) ==
  /\ Arrives(c, "enroll") /\ phase[c] = "first"
  /\ Consume(c)
  /\ \/ /\ "ok" \in ConsumeToken(Value(c))
        /\ tokenState' = [tokenState EXCEPT ![Value(c)] = "used"]
        /\ secretHash' = Value(c) /\ revoked' = FALSE
        /\ Welcome(c, Value(c))
     \/ \E code \in ConsumeToken(Value(c)) \ {"ok"} :
        /\ tokenState' = [tokenState EXCEPT ![Value(c)] =
             IF code = "token_expired" THEN "expired" ELSE @]
        /\ Refuse(c, code)
        /\ UNCHANGED <<secretHash, revoked>>
  /\ UNCHANGED <<remote, announced, registered, callVars, broken, logVars, linkVars, workVars,
                 taskVars, history>>

ReceiveAuth(c) ==
  /\ Arrives(c, "auth") /\ phase[c] = "first"
  /\ Consume(c)
  /\ \/ VerifyNodeSecret(Value(c)) = "ok" /\ Welcome(c, NoSecret)
     \/ VerifyNodeSecret(Value(c)) # "ok" /\ Refuse(c, VerifyNodeSecret(Value(c)))
  /\ UNCHANGED <<credentials, remote, announced, registered, callVars, broken, logVars,
                 linkVars, workVars, taskVars, history>>

(***************************************************************************)
(* Five seconds pass: the frame may be on its way, or wait for the plane   *)
(* to be initialized.                                                      *)
(***************************************************************************)
AuthTimeout(c) ==
  /\ phase[c] = "first" /\ sock[c] = "open" /\ faults < MaxFaults
  /\ faults' = faults + 1
  /\ Refuse(c, "timeout")
  /\ UNCHANGED <<credentials, remote, announced, registered, callVars, toPlane, broken, logVars,
                 linkVars, workVars, taskVars, slipped, overtaken>>

-----------------------------------------------------------------------------
(* The plane's side of the rest of the handshake. *)

\* Faulty: the calls in flight are forgotten.
FailedForgotten(c) == call

\* RemoteNode.close: the calls that wait for an answer fail, those without a timeout too.
FailedCalls(c) == [i \in Calls |-> IF call[i] = "pending" /\ via[i] = c THEN "failed" ELSE call[i]]

\* RemoteNode.disconnect: the socket is closed as well.
Disconnect(c) ==
  /\ remote' = [remote EXCEPT ![c] = "closed"]
  /\ call' = FailedCalls(c)
  /\ sock' = [sock EXCEPT ![c] = IF @ = "open" THEN "closing" ELSE @]

\* The hello makes the connection's RemoteNode; it replaces a registered one.
ReceiveHello(c) ==
  /\ Arrives(c, "hello") /\ phase[c] = "hello"
  /\ Consume(c)
  /\ announced' = [announced EXCEPT ![c] = Value(c)]
  /\ phase' = [phase EXCEPT ![c] = "draining"]
  /\ \/ /\ registered = NoConnection
        /\ remote' = [remote EXCEPT ![c] = "live"]
        /\ UNCHANGED <<sock, call>>
     \/ /\ registered # NoConnection
        /\ remote' = [remote EXCEPT ![c] = "live", ![registered] = "closed"]
        /\ call' = FailedCalls(registered)
        /\ sock' = [sock EXCEPT ![registered] = IF @ = "open" THEN "closing" ELSE @]
  /\ UNCHANGED <<credentials, registered, via, toNode, broken, logVars, linkVars, workVars,
                 taskVars, history>>

\* The batch is in the log, in whole; written are the changes that it did not have.
Written(s, n) == canon' = [canon EXCEPT ![s] = IF @ < n THEN n ELSE @]

\* Records the log has already are acknowledged like new ones.  A row that said the log
\* cannot be read is corrected by what was written.
Accept(c, s, n) ==
  /\ Written(s, n)
  /\ unreadable' = IF canon[s] < n THEN unreadable \ {s} ELSE unreadable
  /\ Send(c, Frame("ack", [session |-> s, changes |-> n]))
  /\ UNCHANGED <<spoiled, faults>>

(***************************************************************************)
(* appendRecords fails, in the write or in what follows it; so may, from   *)
(* then on, any batch of the session, whose log and spool disagree.        *)
(***************************************************************************)
Reject(c, s, n) ==
  /\ \/ s \in spoiled /\ UNCHANGED faults
     \/ s \notin spoiled /\ faults < MaxFaults /\ faults' = faults + 1
  /\ Written(s, n) \/ UNCHANGED canon
  /\ unreadable' = unreadable \cup {s} /\ spoiled' = spoiled \cup {s}
  /\ Send(c, Frame("reject", [session |-> s, changes |-> n]))

ReceiveRecords(c) ==
  /\ Arrives(c, "records") /\ phase[c] \in {"draining", "ready"}
  /\ Consume(c)
  /\ \/ Accept(c, Value(c).session, Value(c).changes)
     \/ Reject(c, Value(c).session, Value(c).changes)
  /\ UNCHANGED <<credentials, socketVars, callVars, broken, log, acked, linkVars, workVars,
                 taskVars, slipped, overtaken>>

\* A row has one status: a log that cannot be read is not busy.
Busy(s) == Running(canon[s]) /\ s \notin unreadable

\* Faulty: the sessions that the node announced are recovered.
ReadyAnnounced(c) == {s \in announced[c] : Busy(s)}

\* readySessions: the busy sessions the hello did not name.
ReadySessions(c) == {s \in Sessions : Busy(s) /\ s \notin announced[c]}

\* The connection is registered, over whichever is.
ReceiveDrained(c) ==
  /\ Arrives(c, "drained") /\ phase[c] = "draining"
  /\ Consume(c)
  /\ phase' = [phase EXCEPT ![c] = "ready"]
  /\ registered' = c
  /\ overtaken' = (overtaken \/ registered > c)
  /\ Send(c, Frame("ready", ReadySessions(c)))
  /\ UNCHANGED <<credentials, sock, remote, announced, callVars, broken, logVars, linkVars,
                 workVars, taskVars, slipped, faults>>

\* RemoteNode.resolve: an answer to a call that was given up is ignored.
ReceiveResult(c) ==
  /\ Arrives(c, "result") /\ phase[c] = "ready"
  /\ Consume(c)
  /\ call' = [call EXCEPT ![Value(c)] = IF @ = "pending" THEN "ok" ELSE @]
  /\ UNCHANGED <<credentials, socketVars, via, toNode, broken, logVars, linkVars, workVars,
                 taskVars, history>>

\* Faulty: the registration of the node is dropped, whichever connection it is.
UnregisterAny(c) == NoConnection

\* Faulty: a connection that closes stays in the registry.
UnregisterNone(c) == registered

Unregister(c) == IF registered = c THEN NoConnection ELSE registered

\* Nothing is left of a connection whose socket has closed.
Forget(cs) ==
  /\ sock' = [c \in Connections |-> IF c \in cs THEN "closed" ELSE sock[c]]
  /\ phase' = [c \in Connections |-> IF c \in cs THEN "none" ELSE phase[c]]
  /\ remote' = [c \in Connections |-> IF c \in cs THEN "none" ELSE remote[c]]
  /\ announced' = [c \in Connections |-> IF c \in cs THEN {} ELSE announced[c]]
  /\ toPlane' = [c \in Connections |-> IF c \in cs THEN << >> ELSE toPlane[c]]
  /\ broken' = [c \in Connections |-> c \notin cs /\ broken[c]]

(***************************************************************************)
(* The plane's socket closes: the node closed its end, the plane's close   *)
(* was answered, or two pongs were missed.  What had not arrived is lost.  *)
(***************************************************************************)
PlaneNotices(c) ==
  /\ sock[c] # "closed"
  /\ broken[c] \/ sock[c] = "closing" \/ c # Current \/ ~Attached
  /\ Forget({c})
  /\ call' = FailedCalls(c)
  /\ registered' = Unregister(c)
  /\ UNCHANGED <<credentials, via, toNode, logVars, linkVars, workVars, taskVars, history>>

-----------------------------------------------------------------------------
(* Calls and revocation. *)

Reachable == registered # NoConnection /\ remote[registered] = "live"

(***************************************************************************)
(* #route and RemoteNode.#call: a call needs a registered handle that is   *)
(* not closed, and a prompt a row that is not unreadable.  Without them    *)
(* the caller is told so and nothing changes.                              *)
(***************************************************************************)
Call(i) ==
  /\ call[i] = "none" /\ Reachable /\ (i \in Prompts => Target[i] \notin unreadable)
  /\ call' = [call EXCEPT ![i] = "pending"]
  /\ via' = [via EXCEPT ![i] = registered]
  /\ Send(registered, Frame("call", i))
  /\ UNCHANGED <<credentials, socketVars, toPlane, broken, logVars, linkVars, workVars,
                 taskVars, history>>

\* Thirty seconds pass without an answer.
CallTimeout(i) ==
  /\ i \in Prompts /\ call[i] = "pending"
  /\ call' = [call EXCEPT ![i] = "failed"]
  /\ UNCHANGED <<credentials, socketVars, via, netVars, logVars, linkVars, workVars, taskVars,
                 history>>

\* Connections that are authenticated and not registered: no revocation reaches them.
Unreached == {c \in Connections \ {registered} : phase[c] \in {"hello", "draining"}}

\* revokeNode: the registered handle is disconnected.
Revoke ==
  /\ secretHash # NoSecret /\ ~revoked /\ faults < MaxFaults
  /\ faults' = faults + 1
  /\ revoked' = TRUE
  /\ slipped' = (slipped \/ Unreached # {})
  /\ registered' = NoConnection
  /\ \/ registered # NoConnection /\ Disconnect(registered)
     \/ registered = NoConnection /\ UNCHANGED <<sock, remote, call>>
  /\ UNCHANGED <<secretHash, tokenState, phase, announced, via, netVars, logVars, linkVars,
                 workVars, taskVars, overtaken>>

\* The plane stops and starts again: its sockets are closed, its clients get no answer, and
\* the rows are made again from the logs that can be read.
PlaneStops ==
  /\ faults < MaxFaults
  /\ faults' = faults + 1
  /\ Forget(Connections)
  /\ registered' = NoConnection
  /\ call' = [i \in Calls |-> IF call[i] = "pending" THEN "failed" ELSE call[i]]
  /\ \E rows \in SUBSET unreadable : unreadable' = rows
  /\ UNCHANGED <<credentials, via, toNode, canon, spoiled, log, acked, linkVars, workVars,
                 taskVars, slipped, overtaken>>

-----------------------------------------------------------------------------
(* The node's side. *)

\* The secret of an enrollment is saved and the token forgotten; then the hello.
ReceiveWelcome ==
  /\ Delivered("welcome") /\ link = "sent"
  /\ Taken
  /\ \/ Received # NoSecret /\ secret' = Received /\ token' = NoToken
     \/ Received = NoSecret /\ UNCHANGED <<secret, token>>
  /\ Reply(Frame("hello", working))
  /\ link' = "draining"
  /\ UNCHANGED <<credentials, socketVars, callVars, broken, logVars, opened, cause, workVars,
                 taskVars, history>>

\* The connect loop ends for good.
ReceiveRefused ==
  /\ Delivered("refused")
  /\ Taken
  /\ link' = "refused" /\ cause' = Received
  /\ UNCHANGED <<credentials, socketVars, callVars, toPlane, broken, logVars, secret, token,
                 opened, workVars, taskVars, history>>

\* A flush of the spool; the next one awaits its acknowledgement.
Flush(s) ==
  /\ link \in {"draining", "ready"} /\ acked[s] < log[s] /\ awaiting[s] = 0
  /\ awaiting' = [awaiting EXCEPT ![s] = log[s]]
  /\ Reply(Frame("records", [session |-> s, changes |-> log[s]]))
  /\ UNCHANGED <<credentials, socketVars, callVars, toNode, broken, logVars, linkVars, workVars,
                 recovering, history>>

\* The flush that waits for the answer to a batch is told.
Settled(s) == awaiting' = [awaiting EXCEPT ![s] = 0]

ReceiveAck ==
  /\ Delivered("ack")
  /\ Taken
  /\ acked' = [acked EXCEPT ![Received.session] = Received.changes]
  /\ Settled(Received.session)
  /\ UNCHANGED <<credentials, socketVars, callVars, toPlane, broken, planeLog, log,
                 linkVars, workVars, recovering, history>>

\* #connect ends: whoever waits for an acknowledgement or a history is told.
Detach ==
  /\ toNode' = [toNode EXCEPT ![Current] = << >>]
  /\ awaiting' = [s \in Sessions |-> 0]
  /\ recovering' = {}

\* The node's socket is closed.
Disconnected ==
  /\ link' = "down"
  /\ Detach
  /\ broken' = [broken EXCEPT ![Current] = FALSE]
  /\ UNCHANGED <<secret, token, opened, cause>>

(***************************************************************************)
(* The session's spool is dropped and its turn aborted, whose end is       *)
(* Finish.  Link.append swallows the rejection; a drain, also the one      *)
(* behind the recovery, fails and closes the socket.  A process that has   *)
(* not loaded the session takes its history from the canonical log; one    *)
(* that runs it or answers for it goes on with what it had.                *)
(***************************************************************************)
Loaded(s) == s \in working \/ \E i \in answering : Target[i] = s

ReceiveReject ==
  /\ Delivered("reject")
  /\ LET s == Received.session IN
     \E changes \in {log[s]} \cup IF Loaded(s) THEN {} ELSE {canon[s]} :
        /\ log' = [log EXCEPT ![s] = changes]
        /\ acked' = [acked EXCEPT ![s] = changes]
  /\ \/ Disconnected
     \/ /\ link # "draining"
        /\ Taken
        /\ Settled(Received.session)
        /\ UNCHANGED <<broken, linkVars, recovering>>
  /\ UNCHANGED <<credentials, socketVars, callVars, toPlane, planeLog, workVars, history>>

\* #drain ends when no session has anything pending.
Drained ==
  /\ link = "draining" /\ acked = log
  /\ link' = "drained"
  /\ Reply(Frame("drained", 0))
  /\ UNCHANGED <<credentials, socketVars, callVars, toNode, broken, logVars, secret, token,
                 opened, cause, workVars, taskVars, history>>

ReceiveReady ==
  /\ Delivered("ready") /\ link = "drained"
  /\ Taken
  /\ link' = "ready" /\ recovering' = Received
  /\ UNCHANGED <<credentials, socketVars, callVars, toPlane, broken, logVars, secret, token,
                 opened, cause, workVars, awaiting, history>>

(***************************************************************************)
(* #recoverSession: a turn that the log leaves open is settled.  It is not *)
(* compared with what the process executes.                                *)
(***************************************************************************)
Recover(s) ==
  /\ link = "ready" /\ s \in recovering
  /\ recovering' = recovering \ {s}
  /\ log' = [log EXCEPT ![s] = IF Running(@) THEN @ + 1 ELSE @]
  /\ UNCHANGED <<credentials, socketVars, callVars, netVars, planeLog, acked, linkVars, workVars,
                 awaiting, history>>

\* The call that recovers a session of an imported archive.
RecoverImported(i) ==
  /\ i \in handling \cap Recoveries
  /\ handling' = handling \ {i} /\ answering' = answering \cup {i}
  /\ LET s == Target[i] IN
     /\ log' = [log EXCEPT ![s] = IF Running(@) THEN @ + 1 ELSE @]
     /\ started' = [started EXCEPT ![i] = log'[s]]
  /\ UNCHANGED <<credentials, socketVars, callVars, netVars, planeLog, acked, linkVars, working,
                 taskVars, history>>

ReceiveCall ==
  /\ Delivered("call")
  /\ Taken
  /\ handling' = handling \cup {Received}
  /\ UNCHANGED <<credentials, socketVars, callVars, toPlane, broken, logVars, linkVars, working,
                 answering, started, taskVars, history>>

\* A prompt is admitted: it runs, or waits in the queue, which is SessionQueue's subject.
Admit(i) ==
  /\ i \in handling \cap Prompts
  /\ handling' = handling \ {i} /\ answering' = answering \cup {i}
  /\ LET s == Target[i] IN
     /\ log' = [log EXCEPT ![s] = IF Running(@) THEN @ ELSE @ + 1]
     /\ started' = [started EXCEPT ![i] = log'[s]]
     /\ working' = IF Running(log[s]) THEN working ELSE working \cup {s}
  /\ UNCHANGED <<credentials, socketVars, callVars, netVars, planeLog, acked, linkVars, taskVars,
                 history>>

\* Faulty: the answer is sent before what the call wrote.
FlushesDone(i) == TRUE

\* A session's append is flushed, and #handleCall awaits the flushes under way.
Flushed(i) ==
  \/ link # "ready"
  \/ acked[Target[i]] >= started[i] /\ \A s \in Sessions : awaiting[s] = 0

(***************************************************************************)
(* The answer goes to the connection of the call; when that one is gone it *)
(* is dropped.                                                             *)
(***************************************************************************)
Answer(i) ==
  /\ i \in answering /\ Flushed(i)
  /\ answering' = answering \ {i}
  /\ \/ Attached /\ via[i] = Current /\ Reply(Frame("result", i))
     \/ ~(Attached /\ via[i] = Current) /\ UNCHANGED toPlane
  /\ UNCHANGED <<credentials, socketVars, callVars, toNode, broken, logVars, linkVars, working,
                 handling, started, taskVars, history>>

\* The turn ends.  A log that a recovery closed meanwhile stays closed.
Finish(s) ==
  /\ s \in working
  /\ working' = working \ {s}
  /\ log' = [log EXCEPT ![s] = IF Running(@) THEN @ + 1 ELSE @]
  /\ UNCHANGED <<credentials, socketVars, callVars, netVars, planeLog, acked, linkVars, handling,
                 answering, started, taskVars, history>>

-----------------------------------------------------------------------------
(* The connection is lost, and the node's process stops. *)

Break ==
  /\ Attached /\ ~broken[Current] /\ faults < MaxFaults
  /\ faults' = faults + 1
  /\ broken' = [broken EXCEPT ![Current] = TRUE]
  /\ UNCHANGED <<credentials, socketVars, callVars, toPlane, toNode, logVars, linkVars,
                 workVars, taskVars, slipped, overtaken>>

\* The node's socket closes: by the watchdog, or behind the plane's last frame.
NodeNotices ==
  /\ Attached
  /\ \/ broken[Current] \/ sock[Current] = "closed"
     \/ sock[Current] = "closing" /\ toNode[Current] = << >>
  /\ Disconnected
  /\ UNCHANGED <<credentials, socketVars, callVars, toPlane, logVars, workVars, history>>

\* A new process takes the history of a session that has nothing pending from the plane,
\* which has all of it unless a batch was rejected.
NewProcess ==
  /\ working' = {} /\ handling' = {} /\ answering' = {}
  /\ log' = [s \in Sessions |-> IF acked[s] = log[s] THEN canon[s] ELSE log[s]]
  /\ acked' = [s \in Sessions |-> IF acked[s] = log[s] THEN canon[s] ELSE acked[s]]
  /\ UNCHANGED <<planeLog, started>>

\* The next process has the token only as long as there is no secret.
Crash ==
  /\ faults < MaxFaults
  /\ faults' = faults + 1
  /\ link' = "down" /\ cause' = "none"
  /\ NewProcess
  /\ token' = IF secret = NoSecret THEN token ELSE NoToken
  /\ \/ Attached /\ Detach
     \/ ~Attached /\ UNCHANGED <<toNode, taskVars>>
  /\ UNCHANGED <<credentials, socketVars, callVars, toPlane, broken, secret, opened, slipped,
                 overtaken>>

\* A node that was refused is started again with a new token.
EnrollAgain(t) ==
  /\ link = "refused" /\ t \in Tokens /\ \A u \in 1 .. t - 1 : tokenState[u] # "unused"
  /\ tokenState[t] = "unused"
  /\ link' = "down" /\ token' = t /\ cause' = "none"
  /\ NewProcess
  /\ UNCHANGED <<credentials, socketVars, callVars, netVars, secret, opened, taskVars, history>>

-----------------------------------------------------------------------------
PlaneReceives(c) ==
  \/ ReceiveEnroll(c) \/ ReceiveAuth(c) \/ ReceiveHello(c) \/ ReceiveRecords(c)
  \/ ReceiveDrained(c) \/ ReceiveResult(c)

NodeReceives ==
  \/ ReceiveWelcome \/ ReceiveRefused \/ ReceiveAck \/ ReceiveReject \/ ReceiveReady \/ ReceiveCall

Next ==
  \/ Open \/ Drained \/ NodeReceives \/ NodeNotices \/ Crash \/ Break \/ Revoke \/ PlaneStops
  \/ \E c \in Connections : PlaneReceives(c) \/ PlaneNotices(c) \/ AuthTimeout(c)
  \/ \E i \in Calls : Call(i) \/ CallTimeout(i) \/ Admit(i) \/ RecoverImported(i) \/ Answer(i)
  \/ \E s \in Sessions : Flush(s) \/ Recover(s) \/ Finish(s)
  \/ \E t \in Tokens : EnrollAgain(t)

\* What happens by itself: frames are handled, closed sockets noticed, timers fire, and
\* the node retries, drains, recovers and answers.
Proceed ==
  \/ Open \/ Drained \/ NodeReceives \/ NodeNotices
  \/ \E c \in Connections : PlaneReceives(c) \/ PlaneNotices(c)
  \/ \E i \in Calls : CallTimeout(i) \/ Admit(i) \/ RecoverImported(i) \/ Answer(i)
  \/ \E s \in Sessions : Flush(s) \/ Recover(s)

(***************************************************************************)
(* Something due is eventually done.  Every connection, call and turn is   *)
(* finite here, so this weak assumption leaves nothing undone for ever.    *)
(* Nobody must call, break, stop or revoke anything, or end a turn.        *)
(***************************************************************************)
Spec == Init /\ [][Next]_vars /\ WF_vars(Proceed)

-----------------------------------------------------------------------------
(* Properties. *)

Messages ==
  [type : {"enroll", "auth", "welcome"}, value : Nat]
  \cup [type : {"hello", "ready"}, value : SUBSET Sessions]
  \cup [type : {"records", "ack", "reject"}, value : [session : Sessions, changes : Nat]]
  \cup [type : {"drained"}, value : {0}] \cup [type : {"call", "result"}, value : Calls]
  \cup [type : {"refused"},
         value : {"token_used", "token_expired", "revoked", "unauthorized", "timeout"}]

(***************************************************************************)
(* The types, and what ties them: the registered connection finished its   *)
(* handshake and has a socket that the plane has not seen closed, and      *)
(* the plane has what was acknowledged and nothing that the node did not   *)
(* write, unless a batch of the session was rejected.                      *)
(***************************************************************************)
TypeOK ==
  /\ secretHash \in Nat /\ revoked \in BOOLEAN
  /\ tokenState \in [Tokens -> {"unused", "used", "expired"}]
  /\ canon \in [Sessions -> Nat]
  /\ phase \in [Connections -> {"none", "first", "hello", "draining", "ready"}]
  /\ sock \in [Connections -> {"open", "closing", "closed"}]
  /\ remote \in [Connections -> {"none", "live", "closed"}]
  /\ announced \in [Connections -> SUBSET Sessions]
  /\ registered \in Connections \cup {NoConnection}
  /\ call \in [Calls -> {"none", "pending", "ok", "failed"}]
  /\ via \in [Calls -> Connections \cup {NoConnection}]
  /\ toPlane \in [Connections -> Seq(Messages)] /\ toNode \in [Connections -> Seq(Messages)]
  /\ broken \in [Connections -> BOOLEAN]
  /\ secret \in Nat /\ log \in [Sessions -> Nat] /\ acked \in [Sessions -> Nat]
  /\ token \in Tokens \cup {NoToken} /\ opened \in 0 .. MaxConnections
  /\ link \in {"down", "sent", "draining", "drained", "ready", "refused"}
  /\ working \subseteq Sessions /\ handling \cup answering \subseteq Calls
  /\ started \in [Calls -> Nat] /\ awaiting \in [Sessions -> Nat]
  /\ recovering \subseteq Sessions
  /\ unreadable \subseteq spoiled /\ spoiled \subseteq Sessions
  /\ slipped \in BOOLEAN /\ overtaken \in BOOLEAN /\ faults \in 0 .. MaxFaults
  /\ registered # NoConnection => phase[registered] = "ready" /\ sock[registered] # "closed"
  /\ \A s \in Sessions \ spoiled : acked[s] <= canon[s] /\ canon[s] <= log[s]

(***************************************************************************)
(* A revoked node is not in the registry, whatever it had in flight        *)
(* (revokeNode, verifyNodeSecret), unless it was revoked between the       *)
(* verification of its credential and the end of its drain: nothing looks  *)
(* at the revocation again (socket.ts:180).                                *)
(***************************************************************************)
RevocationHolds == revoked /\ registered # NoConnection => slipped

(***************************************************************************)
(* When the plane's caller hears that its call succeeded, the records the  *)
(* call wrote are in the canonical log (#handleCall awaits the flushes),   *)
(* as long as no batch of the session was rejected.  From then on success  *)
(* says nothing of the log: append swallows the rejection and the call is  *)
(* answered all the same (link.ts:121, 343).                               *)
(***************************************************************************)
AnswerIsDurable ==
  \A i \in Calls :
    call[i] = "ok" => canon[Target[i]] >= started[i] \/ Target[i] \in spoiled

(***************************************************************************)
(* A call that waits for an answer gets one or fails, also one without a   *)
(* timeout, whichever connections are lost, replaced or revoked.           *)
(***************************************************************************)
EveryCallSettles == \A i \in Calls : call[i] = "pending" ~> call[i] \in {"ok", "failed"}

\* The node is not going to be served: it was refused, or an older connection took its place.
GaveUp == link = "refused" \/ overtaken \/ (link = "down" /\ opened = MaxConnections)

(***************************************************************************)
(* When nothing breaks any more the node ends up served: its link is ready *)
(* and the registry holds that very connection, open.  A frame of an older *)
(* connection that arrives late may register that one instead, and what    *)
(* follows when it closes is no registration at all (socket.ts:182, 253).  *)
(***************************************************************************)
NodeServed ==
  <>[](\/ GaveUp
       \/ link = "ready" /\ registered = Current /\ sock[Current] = "open")

(***************************************************************************)
(* A session that the plane takes for busy while nothing executes it does  *)
(* not stay so: the next connection recovers it (readySessions), whatever  *)
(* ran when its hello was sent.  After a rejected batch it may: the        *)
(* process recovers its own copy of the log, which may show no turn.       *)
(***************************************************************************)
StaleSettled ==
  \A s \in Sessions :
    []<>~(Busy(s) /\ s \notin working) \/ <>[](GaveUp \/ s \in spoiled)
=============================================================================
