----------------------------- MODULE LiveEvents -----------------------------
(***************************************************************************)
(* What a client sees of a session: SessionProjection in                   *)
(* packages/server/src/projection.ts, the projections kept by plane.ts,    *)
(* the event stream in http.ts, attach in packages/client/src/index.ts     *)
(* with the TranscriptStore of the browser interface (a "viewer"), and     *)
(* runMonitor, runPrompt and the Renderer of packages/cli/src/index.ts (a  *)
(* "monitor" and a "prompt").                                              *)
(*                                                                         *)
(* A remote node streams one turn: messages of Thoughts reasoning deltas   *)
(* and then Chunks text deltas, each a chunk named by its number.  Record  *)
(* m completes message m and holds its text; a last one ends the turn.     *)
(* Deltas are never stored, and get lost when the link is down.            *)
(***************************************************************************)
EXTENDS Naturals, Sequences, FiniteSets

CONSTANTS
  Kinds,         \* the kinds of client that may watch
  LastMessage,   \* bound: messages of the turn
  Thoughts,      \* bound: reasoning deltas of a message
  Chunks,        \* bound: text deltas of a message
  TailSize,      \* events a projection keeps for replay
  MaxWire,       \* bound: deltas on the way to the plane
  MaxFaults      \* bound: links and streams broken, restarts, evictions

ASSUME LiveAssumption ==
  /\ Kinds \subseteq {"viewer", "monitor", "prompt"}
  /\ LastMessage \in Nat \ {0} /\ Thoughts \in Nat /\ Chunks \in Nat \ {0}
  /\ TailSize \in Nat \ {0} /\ MaxWire \in Nat \ {0} /\ MaxFaults \in Nat

Messages == 1 .. LastMessage
EndOfTurn == LastMessage + 1
Text == [k \in 1 .. Chunks |-> k]

VARIABLES
  made,        \* records the node has written
  produced,    \* deltas of the message it streams
  link,        \* "up", "down", "draining"
  wire,        \* frames on the way to the plane
  plane,       \* "up" or "down"
  stored,      \* records in the canonical log
  projection,  \* the projection in memory; its epoch is 0 when there is none
  epochs,      \* projections made
  client,      \* its kind, phase and cursor; whether its prompt is sent, and errors are caught
  inbox,       \* events for the client: replayed, or written to the stream
  pending,     \* events held back until the stream is active
  view,        \* what the client shows
  torn,        \* messages of which a delta was lost, or their projection
  faults

nodeVars == <<made, produced, link, wire>>
planeVars == <<plane, stored, projection, epochs>>
clientVars == <<client, inbox, pending, view>>
vars == <<nodeVars, planeVars, clientVars, torn, faults>>

NoText == [m \in Messages |-> << >>]
NoProjection == [epoch |-> 0, sequence |-> 0, applied |-> 0, active |-> 0, text |-> << >>,
                 tail |-> << >>]
NoView == [shown |-> NoText, thought |-> [m \in Messages |-> 0], done |-> {}, ended |-> FALSE]

Init ==
  /\ made = 0 /\ produced = 0 /\ link = "up" /\ wire = << >>
  /\ plane = "up" /\ stored = 0 /\ projection = NoProjection /\ epochs = 0
  /\ client \in {[kind |-> k, phase |-> "new", epoch |-> 0, sequence |-> 0,
                  submitted |-> k # "prompt", spare |-> k = "prompt"] : k \in Kinds}
  /\ inbox = << >> /\ pending = << >> /\ view = NoView
  /\ torn = {} /\ faults = 0

Streaming == made + 1            \* the message the node streams
Loaded == projection.epoch # 0
Subscribed == client.phase \in {"opening", "live"} /\ client.epoch = projection.epoch

-----------------------------------------------------------------------------
(* The projection. *)

\* Of a message it is not in the midst of, a projection takes any delta for the beginning.
Contiguous(p, m, offset) == p.active = m => offset = Len(p.text)

\* A delta of a message that is complete changes nothing.
ApplyMessageDelta(p, m, chunk) ==
  IF m <= p.applied THEN p
  ELSE [p EXCEPT !.active = m, !.text = IF p.active = m THEN Append(@, chunk) ELSE <<chunk>>]

Publish(p, event) ==
  [p EXCEPT !.sequence = @ + 1,
            !.tail = LET all == Append(@, [sequence |-> p.sequence + 1, event |-> event]) IN
                     IF Len(all) > TailSize THEN Tail(all) ELSE all]

\* Faulty: the text of a complete message stays active.
ApplyRecordKeeps(p, r) ==
  Publish([p EXCEPT !.applied = r], [type |-> "completed", message |-> r, chunk |-> 0])

\* The record of a message ends its active text; its event follows.
ApplyRecord(p, r) ==
  Publish([p EXCEPT !.applied = r, !.active = IF @ = r THEN 0 ELSE @,
                    !.text = IF p.active = r THEN << >> ELSE @],
          [type |-> "completed", message |-> r, chunk |-> 0])

\* What a publication adds to a stream: kept back until the replay is written.
Deliver(before, after) ==
  LET envelope == after.tail[Len(after.tail)] IN
  IF ~Subscribed \/ after.sequence = before.sequence THEN UNCHANGED <<inbox, pending>>
  ELSE \/ client.phase = "live" /\ inbox' = Append(inbox, envelope) /\ UNCHANGED pending
       \/ client.phase = "opening" /\ pending' = Append(pending, envelope) /\ UNCHANGED inbox

\* SessionProjection.load: the stored records, and nothing of the message under way.
Load == [NoProjection EXCEPT !.epoch = epochs + 1, !.applied = stored]
Projected == IF Loaded THEN projection ELSE Load
CountLoad == epochs' = IF Loaded THEN epochs ELSE epochs + 1

-----------------------------------------------------------------------------
(* The node.  It waits for the acknowledgement of a record while the link is up. *)

Ready == made < EndOfTurn /\ client.submitted /\ (link # "up" \/ stored = made)

Delta ==
  /\ Ready /\ Streaming \in Messages /\ produced < Thoughts + Chunks
  /\ link = "up" => Len(wire) < MaxWire
  /\ produced' = produced + 1
  /\ LET text == produced >= Thoughts
         chunk == IF text THEN produced' - Thoughts ELSE produced' IN
     \/ /\ link = "up"
        /\ wire' = Append(wire, [type |-> IF text THEN "text" ELSE "thought",
                                 message |-> Streaming, chunk |-> chunk])
        /\ UNCHANGED torn
     \/ /\ link # "up"
        /\ torn' = torn \cup {Streaming}
        /\ UNCHANGED wire
  /\ UNCHANGED <<made, link, planeVars, clientVars, faults>>

\* The record of a message, or of the end of the turn, goes to the spool and, if the link
\* is ready, to the plane.
Record ==
  /\ Ready /\ (Streaming \in Messages => produced = Thoughts + Chunks)
  /\ made' = made + 1 /\ produced' = 0
  /\ wire' = IF link = "up" THEN Append(wire, [type |-> "record", message |-> made', chunk |-> 0])
             ELSE wire
  /\ UNCHANGED <<link, planeVars, clientVars, torn, faults>>

\* Deltas on the way, like those that follow, are gone.
LinkLost ==
  /\ link' = "down" /\ wire' = << >>
  /\ torn' = torn \cup ({wire[i].message : i \in DOMAIN wire} \cap Messages)

Reconnect ==
  /\ link = "down" /\ plane = "up"
  /\ link' = "draining"
  /\ UNCHANGED <<made, produced, wire, planeVars, clientVars, torn, faults>>

LinkReady ==
  /\ link = "draining" /\ stored = made
  /\ link' = "up"
  /\ UNCHANGED <<made, produced, wire, planeVars, clientVars, torn, faults>>

-----------------------------------------------------------------------------
(* The plane. *)

\* appendRecords: a projection in memory applies the record, one loaded now has it already.
Store(r) ==
  /\ stored' = r
  /\ \/ /\ Loaded
        /\ projection' = ApplyRecord(projection, r)
        /\ Deliver(projection, projection')
     \/ /\ ~Loaded
        /\ projection' = [Load EXCEPT !.applied = r]
        /\ UNCHANGED <<inbox, pending>>
  /\ CountLoad

ReceiveRecord ==
  /\ wire # << >> /\ Head(wire).type = "record"
  /\ wire' = Tail(wire)
  /\ Store(Head(wire).message)
  /\ UNCHANGED <<made, produced, link, plane, client, view, torn, faults>>

\* The spool is drained a record at a time.
ReceiveSpooled ==
  /\ link = "draining" /\ stored < made
  /\ Store(stored + 1)
  /\ UNCHANGED <<nodeVars, plane, client, view, torn, faults>>

\* publishDelta: what is not contiguous is an error, and the socket is closed.
ReceiveDelta ==
  /\ wire # << >> /\ Head(wire).type # "record"
  /\ LET delta == Head(wire)
         p == Projected
         text == delta.type = "text"
         next == IF text THEN ApplyMessageDelta(p, delta.message, delta.chunk) ELSE p IN
     \/ /\ text => delta.message <= p.applied \/ Contiguous(p, delta.message, delta.chunk - 1)
        /\ projection' = Publish(next, delta)
        /\ Deliver(p, projection')
        /\ torn' = IF text /\ p.active # delta.message /\ delta.chunk # 1
                     THEN torn \cup {delta.message} ELSE torn
        /\ wire' = Tail(wire) /\ UNCHANGED link
     \/ /\ text /\ delta.message > p.applied
        /\ ~Contiguous(p, delta.message, delta.chunk - 1)
        /\ projection' = p
        /\ LinkLost
        /\ UNCHANGED <<inbox, pending>>
  /\ CountLoad
  /\ UNCHANGED <<made, produced, plane, stored, client, view, faults>>

\* The eviction timer fires: nobody watches.
Evict ==
  /\ Loaded /\ ~Subscribed /\ faults < MaxFaults
  /\ faults' = faults + 1
  /\ projection' = NoProjection
  /\ torn' = IF projection.active # 0 THEN torn \cup {projection.active} ELSE torn
  /\ UNCHANGED <<nodeVars, plane, stored, epochs, clientVars>>

\* The plane's process stops; streams and the node's connection go with it.
PlaneStops ==
  /\ plane = "up" /\ faults < MaxFaults
  /\ faults' = faults + 1
  /\ plane' = "down" /\ projection' = NoProjection
  /\ link' = "down" /\ wire' = << >>
  /\ torn' = torn \cup (({wire[i].message : i \in DOMAIN wire} \cup {projection.active})
                         \cap Messages)
  /\ UNCHANGED <<made, produced, stored, epochs, clientVars>>

PlaneStarts ==
  /\ plane = "down"
  /\ plane' = "up"
  /\ UNCHANGED <<nodeVars, stored, projection, epochs, clientVars, torn, faults>>

BreakLink ==
  /\ link = "up" /\ faults < MaxFaults
  /\ faults' = faults + 1
  /\ LinkLost
  /\ UNCHANGED <<made, produced, planeVars, clientVars>>

-----------------------------------------------------------------------------
(* The client's view. *)

\* Text at an offset: what is seen already is skipped, and a gap is an error.
Gap(v, m, offset) == offset > Len(v.shown[m])

\* Faulty: text that begins before what was seen is shown again.
ShowAgain(v, m, offset, text) ==
  IF offset + Len(text) <= Len(v.shown[m]) THEN v ELSE [v EXCEPT !.shown[m] = @ \o text]

Show(v, m, offset, text) ==
  LET seen == Len(v.shown[m]) IN
  IF offset + Len(text) <= seen THEN v
  ELSE [v EXCEPT !.shown[m] = @ \o SubSeq(text, seen - offset + 1, Len(text))]

\* What a snapshot has of a message: its text if it is complete, or what is active of it.
TextIn(p, m) == IF m <= p.applied THEN Text ELSE IF p.active = m THEN p.text ELSE << >>

\* A viewer starts afresh.  A snapshot has no reasoning of a message under way.
Reset(p) ==
  [shown |-> [m \in Messages |-> TextIn(p, m)],
   thought |-> [m \in Messages |-> IF m <= p.applied THEN Thoughts ELSE 0],
   done |-> 1 .. p.applied \cap Messages, ended |-> p.applied = EndOfTurn]

\* The terminal has printed what it has printed, and no reasoning.
PrintMissing(v, p) ==
  [v EXCEPT !.shown = [m \in Messages |-> Show(v, m, 0, TextIn(p, m)).shown[m]],
            !.done = 1 .. p.applied \cap Messages, !.ended = p.applied = EndOfTurn]

ShowSnapshot(v, p) == IF client.kind = "viewer" THEN Reset(p) ELSE PrintMissing(v, p)

\* Whether an event cannot be shown.  The terminal omits reasoning.
Unshowable(v, event) ==
  \/ event.type = "text" /\ Gap(v, event.message, event.chunk - 1)
  \/ event.type = "thought" /\ client.kind = "viewer" /\ event.chunk - 1 > v.thought[event.message]

\* An event that completes a message has no text.
ShowEvent(v, event) ==
  CASE event.type = "text" -> Show(v, event.message, event.chunk - 1, <<event.chunk>>)
    [] event.type = "thought" -> [v EXCEPT !.thought[event.message] =
                                    IF client.kind = "viewer" /\ @ < event.chunk THEN event.chunk ELSE @]
    [] OTHER -> IF event.message = EndOfTurn THEN [v EXCEPT !.ended = TRUE]
                ELSE [v EXCEPT !.done = @ \cup {event.message}]

-----------------------------------------------------------------------------
(* The client's requests. *)

Streamless == inbox' = << >> /\ pending' = << >>

\* Faulty: a turn that ended while the stream was broken goes unnoticed.
SettledNever(kind, v) == "have"

\* The run of a prompt is over when a snapshot has its turn at the end.
Settled(kind, v) == IF kind = "prompt" /\ v.ended THEN "returned" ELSE "have"

(***************************************************************************)
(* What an error leads to.  A viewer and a monitor try again for ever once *)
(* they have had a snapshot; the run of a prompt catches an error only in  *)
(* its loop, and not one in the handler of an error.  `spare' says whether *)
(* an error would be caught, or a first refused subscription repeated.     *)
(***************************************************************************)
AfterError ==
  [client EXCEPT !.phase = IF client.spare /\ client.submitted THEN "retry" ELSE "failed",
                 !.spare = client.kind # "prompt" /\ @]

\* 410: another snapshot.  The run of a prompt in its loop takes it for a broken stream.
AfterRefusal ==
  IF client.kind = "prompt"
    THEN [client EXCEPT !.phase = IF client.submitted THEN "retry" ELSE IF @ = "have" /\ client.spare
                                    THEN "new" ELSE "failed",
                        !.spare = FALSE]
    ELSE [client EXCEPT !.phase = "new"]

\* GET of the snapshot.  A monitor asks for one at first and when its cursor is refused.
Snapshot ==
  /\ client.phase \in {"new", "retry"} /\ plane = "up"
  /\ client.phase = "retry" => client.kind # "monitor"
  /\ projection' = Projected /\ CountLoad
  /\ view' = ShowSnapshot(view, projection')
  /\ client' = [client EXCEPT !.epoch = projection'.epoch, !.sequence = projection'.sequence,
                              !.phase = Settled(client.kind, view'),
                              !.spare = client.kind # "prompt" \/ @]
  /\ UNCHANGED <<nodeVars, plane, stored, inbox, pending, torn, faults>>

\* The plane does not answer.
RequestFails ==
  /\ plane = "down"
  /\ \/ client.phase \in {"new", "have"} \/ (client.phase = "retry" /\ client.kind = "prompt")
     \/ client.phase = "live" /\ ~client.submitted
  /\ client' = AfterError
  /\ Streamless
  /\ UNCHANGED <<nodeVars, planeVars, view, torn, faults>>

\* Faulty: a cursor before the tail is accepted.
ReplayableAny(p) == client.epoch = p.epoch /\ client.sequence <= p.sequence

\* subscribe: the cursor is of this projection and the tail reaches back to it.
Replayable(p) ==
  /\ client.epoch = p.epoch /\ client.sequence <= p.sequence
  /\ client.sequence >= p.sequence - Len(p.tail)

\* The events after the cursor: the tail is in the order of their numbers.
Replay(p) ==
  LET seen == {i \in DOMAIN p.tail : p.tail[i].sequence <= client.sequence} IN
  SubSeq(p.tail, Cardinality(seen) + 1, Len(p.tail))

\* GET of the events after the cursor.  A monitor resumes with the one it has.
Subscribe ==
  /\ client.phase = "have" \/ (client.phase = "retry" /\ client.kind = "monitor")
  /\ plane = "up"
  /\ projection' = Projected /\ CountLoad
  /\ \/ /\ Replayable(projection')
        /\ client' = [client EXCEPT !.phase = "opening"]
        /\ inbox' = Replay(projection') /\ pending' = << >>
     \/ /\ ~Replayable(projection')
        /\ client' = AfterRefusal
        /\ Streamless
  /\ UNCHANGED <<nodeVars, plane, stored, view, torn, faults>>

\* The request's handler goes on: the replay is written, and what was held back since.
Activate ==
  /\ client.phase = "opening" /\ Subscribed
  /\ client' = [client EXCEPT !.phase = "live"]
  /\ inbox' = inbox \o pending /\ pending' = << >>
  /\ UNCHANGED <<nodeVars, planeVars, view, torn, faults>>

\* The prompt is sent once the stream is open; its turn is the one the node runs.
Submit ==
  /\ client.phase = "live" /\ ~client.submitted /\ plane = "up"
  /\ client' = [client EXCEPT !.submitted = TRUE]
  /\ UNCHANGED <<nodeVars, planeVars, inbox, pending, view, torn, faults>>

(***************************************************************************)
(* An event is shown and the cursor moved.  One that cannot be shown ends  *)
(* a viewer's loop with an error; the terminal takes it for a broken       *)
(* stream.                                                                 *)
(***************************************************************************)
Receive ==
  /\ client.phase = "live" /\ client.submitted /\ inbox # << >>
  /\ LET e == Head(inbox) IN
     \/ /\ ~Unshowable(view, e.event)
        /\ view' = ShowEvent(view, e.event)
        /\ client' = [client EXCEPT !.sequence = e.sequence,
                        !.phase = IF client.kind = "prompt" /\ view'.ended THEN "returned" ELSE @]
        /\ inbox' = IF client'.phase = "live" THEN Tail(inbox) ELSE << >>
        /\ pending' = << >>
     \/ /\ Unshowable(view, e.event)
        /\ client' = [client EXCEPT !.sequence = e.sequence, !.spare = client.kind # "prompt",
                        !.phase = IF client.kind = "viewer" THEN "failed" ELSE "retry"]
        /\ Streamless
        /\ UNCHANGED view
  /\ UNCHANGED <<nodeVars, planeVars, torn, faults>>

StreamLost ==
  /\ client.phase \in {"opening", "live"} /\ (client.submitted \/ client.phase = "opening")
  /\ \/ client.phase = "opening" /\ client' = AfterError
     \/ /\ client.phase = "live"
        /\ \E spare \in BOOLEAN :
             /\ client.kind # "prompt" => spare
             /\ client' = [client EXCEPT !.phase = "retry", !.spare = spare]
  /\ Streamless
  /\ UNCHANGED <<nodeVars, planeVars, view, torn>>

\* The stream of a plane that stopped, or of one that did not: with an error or without.
StreamEnds == ~Subscribed /\ StreamLost /\ UNCHANGED faults
BreakStream == Subscribed /\ StreamLost /\ faults < MaxFaults /\ faults' = faults + 1

-----------------------------------------------------------------------------
\* What happens by itself: the model answers, frames and events are handled, a stopped plane
\* is started again, and a client asks and asks again.
Proceed ==
  \/ Delta \/ Record \/ Reconnect \/ LinkReady
  \/ ReceiveRecord \/ ReceiveSpooled \/ ReceiveDelta \/ PlaneStarts
  \/ Snapshot \/ RequestFails \/ Subscribe \/ Activate \/ Submit \/ Receive
  \/ StreamEnds

Next == Proceed \/ Evict \/ PlaneStops \/ BreakLink \/ BreakStream

\* Everything is finite here, so nothing due is put off for ever.
Spec == Init /\ [][Next]_vars /\ WF_vars(Proceed)

-----------------------------------------------------------------------------
(* Properties. *)

Envelopes ==
  [sequence : Nat,
   event : [type : {"text", "thought", "completed"}, message : 1 .. EndOfTurn, chunk : Nat]]

(***************************************************************************)
(* The types, and what ties them: a projection in memory has exactly the   *)
(* records of the log, and its active message is the next one.             *)
(***************************************************************************)
TypeOK ==
  /\ made \in 0 .. EndOfTurn /\ produced \in 0 .. Thoughts + Chunks
  /\ link \in {"up", "down", "draining"} /\ plane \in {"up", "down"}
  /\ wire \in Seq([type : {"text", "thought", "record"}, message : 1 .. EndOfTurn, chunk : Nat])
  /\ stored \in 0 .. made /\ epochs \in Nat
  /\ projection.epoch \in 0 .. epochs /\ projection.tail \in Seq(Envelopes)
  /\ client \in [kind : Kinds, phase : {"new", "have", "opening", "live", "retry", "failed",
                                        "returned"},
                  epoch : 0 .. epochs, sequence : Nat, submitted : BOOLEAN, spare : BOOLEAN]
  /\ inbox \in Seq(Envelopes) /\ pending \in Seq(Envelopes)
  /\ DOMAIN view.shown = Messages /\ view.done \subseteq Messages /\ view.ended \in BOOLEAN
  /\ torn \subseteq Messages /\ faults \in 0 .. MaxFaults
  /\ Loaded => /\ projection.applied = stored /\ Len(projection.tail) <= TailSize
               /\ projection.active \in {0, stored + 1}

(***************************************************************************)
(* The events that a subscribed client has not seen yet are all on their   *)
(* way to it, once each and in order: those replayed from the tail, those  *)
(* held back while the subscription was set up, and those written after    *)
(* (http.ts:480, projection.ts:78).  A cursor never reaches into another   *)
(* projection, whose numbers begin again.                                  *)
(***************************************************************************)
NoEventSkipped ==
  Subscribed =>
    LET coming == inbox \o pending IN
    /\ client.sequence + Len(coming) = projection.sequence
    /\ \A i \in DOMAIN coming : coming[i].sequence = client.sequence + i

(***************************************************************************)
(* A client shows a beginning of what the model wrote, nothing twice, and  *)
(* the whole of a message it calls complete, across broken streams,        *)
(* restarts and evictions.  Not of a message some of whose deltas were     *)
(* lost, or with the projection: the event of its completion has no text   *)
(* (node-protocol.md, "Live deltas are not spooled").                      *)
(***************************************************************************)
TextTrue ==
  \A m \in Messages \ torn :
    /\ Len(view.shown[m]) <= Chunks /\ view.shown[m] = SubSeq(Text, 1, Len(view.shown[m]))
    /\ m \in view.done => view.shown[m] = Text

(***************************************************************************)
(* A client that is not given up comes to see the turn's end and every     *)
(* message complete, and the run of the prompt returns, whatever was       *)
(* missed meanwhile.                                                       *)
(***************************************************************************)
CaughtUp ==
  /\ view.ended /\ view.done = Messages
  /\ client.kind = "prompt" => client.phase = "returned"

CatchesUp == <>[](client.phase = "failed" \/ CaughtUp)
=============================================================================
