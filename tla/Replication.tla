----------------------------- MODULE Replication -----------------------------
(***************************************************************************)
(* How the records of a session get from a remote node to the plane        *)
(* (packages/node/src/link.ts and spool.ts, packages/server/src/socket.ts  *)
(* and plane.ts, SessionLog in packages/store/src/index.ts).               *)
(*                                                                         *)
(* A node writes a record to its spool file, then sends the whole pending  *)
(* spool and waits for the acknowledgement of its last record, which       *)
(* removes the acknowledged prefix.  The plane appends what continues its  *)
(* log, skips what it has and rejects the rest.  The connection may be     *)
(* lost, with frames and acknowledgements in flight; the plane may still   *)
(* process a frame of a lost connection.  Either process may stop, also in *)
(* the middle of a write.                                                  *)
(*                                                                         *)
(* A record is its place in the order of writing; record 1 is the session  *)
(* record.  Both sides handle the frames of a connection one at a time.    *)
(***************************************************************************)
EXTENDS Naturals, FiniteSets, SequencesExt

CONSTANTS
  MaxRecords,   \* bound: records written
  MaxDrops,     \* bound: connections lost while both processes go on
  MaxCrashes,   \* bound: stops of the node process
  MaxRestarts,  \* bound: stops of the plane
  MaxFaults,    \* bound: writes of the plane that fail
  Tears         \* whether a crash may interrupt the rewriting of a spool file

ASSUME ReplicationAssumption ==
  /\ MaxRecords \in Nat /\ MaxDrops \in Nat /\ MaxCrashes \in Nat
  /\ MaxRestarts \in Nat /\ MaxFaults \in Nat
  /\ Tears \in BOOLEAN

Records == 1 .. MaxRecords
Nothing == 0                   \* the null of previousRecordId
SessionRecord == 1

F(type, records) == [type |-> type, records |-> records]

VARIABLES
  previous,     \* previousRecordId of each record written
  issued,       \* how many records were written
  \* The node's disk.
  file,         \* the session's spool file: the pending records
  fragment,     \* the file ends in a torn line
  \* The node process.
  spool,        \* whether the spool of the session is open, and its log's lastRecordId
  session,      \* the cached session state: "absent", "loading", "cached"
  link,         \* "down", "welcomed", "draining", "drained", "ready"
  awaiting,     \* the record whose acknowledgement the flush under way awaits
  wanted,       \* a flush is chained behind it
  \* The connection.
  toPlane, toNode,
  late,         \* records frames of lost connections that the plane may still process
  \* The plane.
  canon,        \* the canonical log
  known,        \* whether the plane has the session: "no", "yes", "unreadable"
  \* Bounds.
  drops, crashes, restarts, faults

diskVars == <<previous, issued, file, fragment>>
nodeVars == <<spool, session, link, awaiting, wanted>>
planeVars == <<canon, known>>
bounds == <<drops, crashes, restarts, faults>>
vars == <<diskVars, nodeVars, toPlane, toNode, late, planeVars, bounds>>

LastOf(s) == IF s = << >> THEN Nothing ELSE Last(s)
Pending == IF spool.open THEN file ELSE << >>
Closed == [open |-> FALSE, last |-> Nothing]

Init ==
  /\ previous = [r \in Records |-> Nothing]
  /\ issued = 0
  /\ file = << >> /\ fragment = FALSE
  /\ spool = Closed /\ session = "absent"
  /\ link = "down" /\ awaiting = Nothing /\ wanted = FALSE
  /\ toPlane = << >> /\ toNode = << >> /\ late = {}
  /\ canon = << >> /\ known = "no"
  /\ drops = 0 /\ crashes = 0 /\ restarts = 0 /\ faults = 0

-----------------------------------------------------------------------------
(* The node writes records. *)

\* Faulty: two records get the same identity.
WriteSameRecord ==
  /\ issued < MaxRecords
  /\ previous' = [previous EXCEPT ![issued + 1] = spool.last]
  /\ file' = Append(file, issued + 1)
  /\ spool' = [open |-> TRUE, last |-> issued + 1]
  /\ wanted' = (wanted \/ link = "ready")
  /\ UNCHANGED <<issued, fragment, link, awaiting, toPlane, toNode, late, planeVars, bounds>>

(***************************************************************************)
(* Spool.append, then the flush that Link.append requests when the link is *)
(* ready.  A spool that is not open is opened on an empty chain.           *)
(***************************************************************************)
WriteRecord ==
  /\ issued < MaxRecords
  /\ issued' = issued + 1
  /\ previous' = [previous EXCEPT ![issued'] = spool.last]
  /\ file' = Append(file, issued')
  /\ spool' = [open |-> TRUE, last |-> issued']
  /\ wanted' = (wanted \/ link = "ready")
  /\ UNCHANGED <<fragment, link, awaiting, toPlane, toNode, late, planeVars, bounds>>

\* The plane calls createSession.
CreateSession ==
  /\ link = "ready" /\ issued = 0
  /\ WriteRecord
  /\ session' = "cached"

\* Everything else is appended to a session in the cache.
AppendRecord ==
  /\ session = "cached"
  /\ WriteRecord
  /\ UNCHANGED session

(***************************************************************************)
(* A flush sends all that is pending and awaits the acknowledgement of the *)
(* last record.  Flushes of a session are chained; the drain of a new      *)
(* connection flushes until nothing is pending.                            *)
(***************************************************************************)
Flush ==
  /\ link = "draining" \/ (link = "ready" /\ wanted)
  /\ Pending # << >> /\ awaiting = Nothing
  /\ toPlane' = Append(toPlane, F("records", Pending))
  /\ awaiting' = Last(Pending)
  /\ wanted' = FALSE
  /\ UNCHANGED <<diskVars, spool, session, link, toNode, late, planeVars, bounds>>

-----------------------------------------------------------------------------
(* The node connects. *)

Connect ==
  /\ link = "down"
  /\ link' = "welcomed"
  /\ UNCHANGED <<diskVars, spool, session, awaiting, wanted, toPlane, toNode, late, planeVars,
                 bounds>>

(***************************************************************************)
(* The drain reads the spool file, unless the spool is open already.  A    *)
(* torn last line is cut off.  A file without any complete line cannot be  *)
(* read, and the connection is closed.                                     *)
(***************************************************************************)
Unreadable == fragment /\ file = << >>

ReadSpool ==
  /\ link = "welcomed"
  /\ spool.open \/ ~Unreadable
  /\ link' = "draining"
  /\ fragment' = FALSE
  /\ spool' = IF spool.open \/ file = << >> THEN spool ELSE [open |-> TRUE, last |-> Last(file)]
  /\ UNCHANGED <<previous, issued, file, session, awaiting, wanted, toPlane, toNode, late,
                 planeVars, bounds>>

SpoolUnreadable ==
  /\ link = "welcomed"
  /\ ~spool.open /\ Unreadable
  /\ link' = "down"
  /\ UNCHANGED <<diskVars, spool, session, awaiting, wanted, toPlane, toNode, late, planeVars,
                 bounds>>

SendDrained ==
  /\ link = "draining"
  /\ Pending = << >> /\ awaiting = Nothing
  /\ link' = "drained"
  /\ toPlane' = Append(toPlane, F("drained", << >>))
  /\ UNCHANGED <<diskVars, spool, session, awaiting, wanted, toNode, late, planeVars, bounds>>

\* A call of the plane needs a session this process has not loaded.
Load ==
  /\ link = "ready" /\ session = "absent" /\ known # "no"
  /\ session' = "loading"
  /\ toPlane' = Append(toPlane, F("load", << >>))
  /\ UNCHANGED <<diskVars, spool, link, awaiting, wanted, toNode, late, planeVars, bounds>>

-----------------------------------------------------------------------------
(* The plane handles a frame. *)

Has(r) == r \in ToSet(canon)

\* The records without the prefix that a log has already.
Missing(records, log) ==
  LET had == {k \in DOMAIN records : \A i \in 1 .. k : records[i] \in ToSet(log)}
  IN SubSeq(records, Cardinality(had) + 1, Len(records))

\* Faulty: records that were stored before are not skipped.
FreshOrNot(records) == records

(***************************************************************************)
(* SessionLog.appendRecords skips the records it has and appends the rest, *)
(* which must continue the chain.  A spool holds one chain and so does the *)
(* log: the records of a batch that the plane has are a prefix of it.      *)
(***************************************************************************)
Fresh(records) == Missing(records, canon)

\* Faulty: a batch may begin anywhere.
ContinuesItself(records) ==
  LET fresh == Fresh(records)
  IN \A k \in DOMAIN fresh : k > 1 => previous[fresh[k]] = fresh[k - 1]

Continues(records) ==
  LET fresh == Fresh(records)
  IN \A k \in DOMAIN fresh :
       previous[fresh[k]] = IF k = 1 THEN LastOf(canon) ELSE fresh[k - 1]

\* The first batch of a session must begin with its session record.
Admissible(records) ==
  known = "yes" \/ (known = "no" /\ Head(records) = SessionRecord)

Accepts(records) == Admissible(records) /\ Continues(records)

Store(records) ==
  IF Accepts(records)
  THEN canon' = canon \o Fresh(records) /\ known' = "yes"
  ELSE UNCHANGED planeVars

Receive(type) == toPlane # << >> /\ Head(toPlane).type = type /\ toPlane' = Tail(toPlane)

HandleRecords ==
  /\ Receive("records")
  /\ LET records == Head(toPlane).records
     IN /\ Store(records)
        /\ toNode' = Append(toNode, F(IF Accepts(records) THEN "ack" ELSE "reject",
                                      <<Last(records)>>))
  /\ UNCHANGED <<diskVars, nodeVars, late, bounds>>

\* The write fails, or what follows it; the batch is rejected.
WriteFails ==
  /\ Receive("records")
  /\ faults < MaxFaults /\ faults' = faults + 1
  /\ LET records == Head(toPlane).records
     IN /\ Accepts(records) /\ Fresh(records) # << >>
        /\ canon' \in {canon, canon \o Fresh(records)}
        /\ toNode' = Append(toNode, F("reject", <<Last(records)>>))
  /\ known' = "yes"
  /\ UNCHANGED <<diskVars, nodeVars, late, drops, crashes, restarts>>

HandleDrained ==
  /\ Receive("drained")
  /\ toNode' = Append(toNode, F("ready", << >>))
  /\ UNCHANGED <<diskVars, nodeVars, late, planeVars, bounds>>

HandleLoad ==
  /\ Receive("load")
  /\ toNode' = Append(toNode, IF known = "unreadable" THEN F("unavailable", << >>)
                                                     ELSE F("history", canon))
  /\ UNCHANGED <<diskVars, nodeVars, late, planeVars, bounds>>

\* A frame of a lost connection; nobody reads the answer.
HandleLate ==
  /\ \E records \in late : Store(records) /\ late' = late \ {records}
  /\ UNCHANGED <<diskVars, nodeVars, toPlane, toNode, bounds>>

-----------------------------------------------------------------------------
(* The node receives a frame. *)

Answer(type) == toNode # << >> /\ Head(toNode).type = type /\ toNode' = Tail(toNode)

\* What remains pending when id and what precedes it is acknowledged.
After(records, id) ==
  IF id \in ToSet(records)
  THEN SubSeq(records, (CHOOSE k \in DOMAIN records : records[k] = id) + 1, Len(records))
  ELSE records

Awaits(id) == IF awaiting = id THEN Nothing ELSE awaiting

ReceiveAck ==
  /\ Answer("ack")
  /\ LET id == Head(Head(toNode).records)
     IN /\ file' = IF spool.open THEN After(file, id) ELSE file
        /\ awaiting' = Awaits(id)
  /\ UNCHANGED <<previous, issued, fragment, spool, session, link, wanted, toPlane, late,
                 planeVars, bounds>>

\* Every frame and every waiter of the connection is lost.
Unlink ==
  /\ link' = "down" /\ awaiting' = Nothing /\ wanted' = FALSE
  /\ toPlane' = << >> /\ toNode' = << >>

\* What the plane received before and has yet to process.
InFlight == {toPlane[k].records : k \in {i \in DOMAIN toPlane : toPlane[i].type = "records"}}
LeaveFrames == \E S \in SUBSET InFlight : late' = late \cup S

NoLongerLoading == IF session = "loading" THEN "absent" ELSE session

(***************************************************************************)
(* The spool of the session is dropped and its chain forgotten.  A drain   *)
(* that awaited the batch fails and closes the connection: always the one  *)
(* before `drained`, sometimes the one after `ready`.                      *)
(***************************************************************************)
ReceiveReject ==
  /\ link = "ready"
  /\ Answer("reject")
  /\ file' = << >> /\ fragment' = FALSE /\ spool' = Closed
  /\ awaiting' = Awaits(Head(Head(toNode).records))
  /\ UNCHANGED <<previous, issued, session, link, wanted, toPlane, late, planeVars, bounds>>

ReceiveRejectDraining ==
  /\ link \in {"draining", "ready"}
  /\ toNode # << >> /\ Head(toNode).type = "reject"
  /\ file' = << >> /\ fragment' = FALSE /\ spool' = Closed
  /\ Unlink /\ LeaveFrames /\ session' = NoLongerLoading
  /\ UNCHANGED <<previous, issued, planeVars, bounds>>

\* Faulty: what was written after `drained` is not drained.
ReceiveReadyOnly ==
  /\ Answer("ready")
  /\ link' = "ready"
  /\ UNCHANGED <<diskVars, spool, session, awaiting, wanted, toPlane, late, planeVars, bounds>>

\* The spool is drained again: records may have been written after `drained`.
ReceiveReady ==
  /\ Answer("ready")
  /\ link' = "ready" /\ wanted' = TRUE
  /\ UNCHANGED <<diskVars, spool, session, awaiting, toPlane, late, planeVars, bounds>>

\* Faulty: the chain of the spool is not moved to the end of the history.
OpenOnNothing(pending, history) == [open |-> TRUE, last |-> LastOf(pending)]

\* Spool.open continues the plane's chain, or what is still pending of it.
OpenOn(pending, history) ==
  [open |-> TRUE, last |-> IF pending = << >> THEN LastOf(history) ELSE Last(pending)]

(***************************************************************************)
(* Link.load removes the pending prefix that the history has, then opens   *)
(* the spool at the end of the history.  What is still pending must        *)
(* continue it, and a history must begin with the session record.          *)
(***************************************************************************)
ReceiveHistory ==
  /\ session = "loading"
  /\ Answer("history")
  /\ LET history == Head(toNode).records
         pending == Missing(Pending, history)
         continues == pending = << >> \/ previous[Head(pending)] = LastOf(history)
         begins == history # << >> /\ Head(history) = SessionRecord
     IN /\ file' = pending
        /\ spool' = IF continues THEN OpenOn(pending, history) ELSE spool
        /\ session' = IF continues /\ begins THEN "cached" ELSE "absent"
  /\ UNCHANGED <<previous, issued, fragment, link, awaiting, wanted, toPlane, late, planeVars,
                 bounds>>

ReceiveUnavailable ==
  /\ session = "loading"
  /\ Answer("unavailable")
  /\ session' = "absent"
  /\ UNCHANGED <<diskVars, spool, link, awaiting, wanted, toPlane, late, planeVars, bounds>>

-----------------------------------------------------------------------------
(* Failures. *)

Disconnect ==
  /\ link # "down"
  /\ drops < MaxDrops /\ drops' = drops + 1
  /\ Unlink /\ LeaveFrames /\ session' = NoLongerLoading
  /\ UNCHANGED <<diskVars, spool, planeVars, crashes, restarts, faults>>

\* The node process stops and is started again.
NodeStops ==
  /\ crashes < MaxCrashes /\ crashes' = crashes + 1
  /\ Unlink /\ LeaveFrames
  /\ spool' = Closed /\ session' = "absent"
  /\ UNCHANGED <<previous, issued, planeVars, drops, restarts, faults>>

NodeCrash == NodeStops /\ UNCHANGED <<file, fragment>>

\* It stops while it appends a record to the spool file.
TearAppend ==
  /\ session = "cached" \/ (link = "ready" /\ issued = 0)
  /\ NodeStops
  /\ fragment' = TRUE
  /\ UNCHANGED file

\* It stops while it rewrites the file with what remains after an acknowledgement.
TearRewrite ==
  /\ Tears
  /\ toNode # << >> /\ Head(toNode).type = "ack"
  /\ LET id == Head(Head(toNode).records)
         remaining == After(Pending, id)
     IN /\ id \in ToSet(Pending)
        /\ \E k \in 1 .. Len(remaining) : file' = SubSeq(remaining, 1, k - 1)
  /\ fragment' \in BOOLEAN
  /\ NodeStops

(***************************************************************************)
(* The plane stops and is started again: its connections are gone, of a    *)
(* batch that it was writing a prefix may be in the log.  A log that does  *)
(* not begin with the session record is not loaded.                        *)
(***************************************************************************)
PlaneStops ==
  /\ restarts < MaxRestarts /\ restarts' = restarts + 1
  /\ \/ UNCHANGED canon
     \/ \E records \in InFlight \cup late :
          /\ Accepts(records)
          /\ \E k \in 1 .. Len(Fresh(records)) : canon' = canon \o SubSeq(Fresh(records), 1, k)
  /\ known' = IF canon' = << >> THEN "no"
              ELSE IF Head(canon') = SessionRecord THEN "yes" ELSE "unreadable"
  /\ Unlink /\ late' = {} /\ session' = NoLongerLoading
  /\ UNCHANGED <<diskVars, spool, drops, crashes, faults>>

-----------------------------------------------------------------------------
Writing == CreateSession \/ AppendRecord

Link ==
  \/ Flush \/ Connect \/ ReadSpool \/ SpoolUnreadable \/ SendDrained
  \/ ReceiveAck \/ ReceiveReject \/ ReceiveRejectDraining \/ ReceiveReady
  \/ ReceiveHistory \/ ReceiveUnavailable

Plane == HandleRecords \/ HandleDrained \/ HandleLoad

Failures ==
  \/ WriteFails \/ HandleLate \/ Disconnect \/ NodeCrash \/ TearAppend \/ TearRewrite
  \/ PlaneStops

Next == Writing \/ Link \/ Load \/ Plane \/ Failures

Spec == Init /\ [][Next]_vars

\* Frames of a live connection are handled, and a lost connection is made again.
FairSpec == Spec /\ WF_vars(Link) /\ WF_vars(Plane)

-----------------------------------------------------------------------------
(* Properties. *)

Frame ==
  [type: {"records", "drained", "load", "ack", "reject", "ready", "history", "unavailable"},
   records: Seq(1 .. issued)]

\* Every variable has its type; ids are those of records written.
TypeOK ==
  /\ issued \in 0 .. MaxRecords
  /\ previous \in [Records -> 0 .. issued]
  /\ file \in Seq(1 .. issued) /\ canon \in Seq(1 .. issued)
  /\ fragment \in BOOLEAN
  /\ spool \in [open: BOOLEAN, last: 0 .. issued]
  /\ session \in {"absent", "loading", "cached"}
  /\ link \in {"down", "welcomed", "draining", "drained", "ready"}
  /\ awaiting \in 0 .. issued
  /\ wanted \in BOOLEAN /\ known \in {"no", "yes", "unreadable"}
  /\ toPlane \in Seq(Frame) /\ toNode \in Seq(Frame)
  /\ late \in SUBSET Seq(1 .. issued)
  /\ drops \in 0 .. MaxDrops /\ crashes \in 0 .. MaxCrashes
  /\ restarts \in 0 .. MaxRestarts /\ faults \in 0 .. MaxFaults

(***************************************************************************)
(* Unless a write of the plane failed before, the plane never takes what   *)
(* one node wrote for a fork: neither records that are sent again because  *)
(* their acknowledgement was lost, nor those that an old connection        *)
(* delivers late, nor those written after a reload or after the loss of    *)
(* the end of a torn spool file.                                           *)
(***************************************************************************)
NothingRejected == faults = 0 => \A k \in DOMAIN toNode : toNode[k].type # "reject"

(***************************************************************************)
(* Every record on the plane was written as the successor of the one       *)
(* before it: no late, repeated, rejected or interrupted batch leaves a    *)
(* gap or joins two branches, also when the node has forgotten its chain.  *)
(***************************************************************************)
ChainUnbroken ==
  \A k \in DOMAIN canon : previous[canon[k]] = IF k = 1 THEN Nothing ELSE canon[k - 1]

\* Every record written reaches the plane.
EverythingStored ==
  \A r \in Records : r <= issued ~> Has(r)

(***************************************************************************)
(* The records on the plane followed by those it does not have yet are the *)
(* log of the session.                                                     *)
(***************************************************************************)
Log == INSTANCE CanonicalLog WITH
  Record <- Records,
  log <- canon \o Fresh(file),
  stored <- Len(canon)

\* The plane's log is a growing prefix of what the node wrote.
ImplementsCanonicalLog == Log!Spec

(***************************************************************************)
(* What docs/node-protocol.md says of the first batch: the log of a        *)
(* session begins with its session record.                                 *)
(***************************************************************************)
BeginsWithSession == canon # << >> => Head(canon) = SessionRecord

\* What the comment at readRecords says: a torn final fragment is discarded.
FragmentDiscarded == fragment ~> ~fragment
=============================================================================
