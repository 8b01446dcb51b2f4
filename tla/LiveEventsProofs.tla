-------------------------- MODULE LiveEventsProofs --------------------------
(***************************************************************************)
(* Of LiveEvents, for any number of messages, deltas and faults and any    *)
(* sizes of the tail and the wire: the types; that no event is skipped or  *)
(* repeated on the way to a subscribed client; and that what a client      *)
(* shows of a message of which no delta was lost is a beginning of its     *)
(* text, and the whole text once the message is shown as complete.         *)
(***************************************************************************)
EXTENDS LiveEvents, SequenceFacts, FiniteSetTheorems

-----------------------------------------------------------------------------
(* The inductive invariant. *)

\* The events and frames that are made: a text delta has a chunk of a message.
Sound(e) ==
  /\ e.type \in {"text", "thought"} => e.message \in Messages
  /\ e.type = "text" => e.chunk \in 1 .. Chunks
Events ==
  {e \in [type : {"text", "thought", "completed"}, message : 1 .. EndOfTurn, chunk : Nat] : Sound(e)}
Frames ==
  {f \in [type : {"text", "thought", "record"}, message : 1 .. EndOfTurn, chunk : Nat] : Sound(f)}
Numbered == [sequence : Nat, event : Events]

Projections ==
  [epoch : Nat, sequence : Nat, applied : 0 .. EndOfTurn, active : {0} \cup Messages,
   text : Seq(1 .. Chunks), tail : Seq(Numbered)]
Views ==
  [shown : [Messages -> Seq(1 .. Chunks)], thought : [Messages -> Nat], done : SUBSET Messages,
   ended : BOOLEAN]

Precise ==
  /\ wire \in Seq(Frames) /\ projection \in Projections /\ view \in Views
  /\ inbox \in Seq(Numbered) /\ pending \in Seq(Numbered)

\* What is on the way is of the first message that the plane has no record of.
OnTheWay ==
  /\ link # "up" => wire = << >>
  /\ \A i \in DOMAIN wire : /\ wire[i].message = stored + 1
                            /\ wire[i].type = "record" => i = Len(wire) /\ made = stored + 1
  /\ link = "up" /\ made # stored => wire # << >> /\ wire[Len(wire)].type = "record"

\* The tail holds the last events, numbered up to the projection's own number.
TailOrdered(p) ==
  /\ Len(p.tail) <= TailSize /\ Len(p.tail) <= p.sequence
  /\ \A i \in DOMAIN p.tail : p.tail[i].sequence = p.sequence - Len(p.tail) + i

\* A cursor is of a projection that is or was, and events are held back for an opening stream.
Cursor ==
  /\ client.phase \in {"opening", "live"} => client.epoch # 0
  /\ pending # << >> => client.phase = "opening"

LiveInv ==
  /\ TypeOK /\ Precise /\ OnTheWay /\ TailOrdered(projection) /\ Cursor /\ NoEventSkipped

-----------------------------------------------------------------------------
(* Which action changes what. *)

LEMMA Changes ==
  ASSUME Next
  PROVE  /\ UNCHANGED <<made, produced>> \/ Delta \/ Record
         /\ UNCHANGED link \/ Reconnect \/ LinkReady \/ ReceiveDelta \/ PlaneStops
                 \/ BreakLink
         /\ UNCHANGED wire \/ Delta \/ Record \/ ReceiveRecord \/ ReceiveDelta
                 \/ PlaneStops \/ BreakLink
         /\ UNCHANGED plane \/ PlaneStops \/ PlaneStarts
         /\ UNCHANGED stored \/ ReceiveRecord \/ ReceiveSpooled
         /\ UNCHANGED <<projection, epochs>> \/ ReceiveRecord \/ ReceiveSpooled
                 \/ ReceiveDelta \/ Snapshot \/ Subscribe \/ Evict \/ PlaneStops
         /\ UNCHANGED client \/ Snapshot \/ RequestFails \/ Subscribe \/ Activate
                 \/ Submit \/ Receive \/ StreamEnds \/ BreakStream
         /\ UNCHANGED <<inbox, pending>> \/ ReceiveRecord \/ ReceiveSpooled
                 \/ ReceiveDelta \/ RequestFails \/ Subscribe \/ Activate \/ Receive
                 \/ StreamEnds \/ BreakStream
         /\ UNCHANGED view \/ Snapshot \/ Receive
         /\ UNCHANGED torn \/ Delta \/ ReceiveDelta \/ Evict \/ PlaneStops \/ BreakLink
         /\ UNCHANGED faults \/ Evict \/ PlaneStops \/ BreakLink \/ BreakStream
<1> USE DEF nodeVars, planeVars, clientVars
<1>1. CASE Delta
  BY <1>1 DEF Delta
<1>2. CASE Record
  BY <1>2 DEF Record
<1>3. CASE Reconnect
  BY <1>3 DEF Reconnect
<1>4. CASE LinkReady
  BY <1>4 DEF LinkReady
<1>5. CASE ReceiveRecord
  BY <1>5 DEF ReceiveRecord, Store
<1>6. CASE ReceiveSpooled
  BY <1>6 DEF ReceiveSpooled, Store
<1>7. CASE ReceiveDelta
  BY <1>7 DEF ReceiveDelta
<1>8. CASE PlaneStarts
  BY <1>8 DEF PlaneStarts
<1>9. CASE Snapshot
  BY <1>9 DEF Snapshot
<1>10. CASE RequestFails
  BY <1>10 DEF RequestFails
<1>11. CASE Subscribe
  BY <1>11 DEF Subscribe
<1>12. CASE Activate
  BY <1>12 DEF Activate
<1>13. CASE Submit
  BY <1>13 DEF Submit
<1>14. CASE Receive
  BY <1>14 DEF Receive
<1>15. CASE StreamEnds
  BY <1>15 DEF StreamEnds, StreamLost
<1>16. CASE BreakStream
  BY <1>16 DEF BreakStream, StreamLost
<1>17. CASE Evict
  BY <1>17 DEF Evict
<1>18. CASE PlaneStops
  BY <1>18 DEF PlaneStops
<1>19. CASE BreakLink
  BY <1>19 DEF BreakLink, LinkLost
<1> QED BY <1>1, <1>2, <1>3, <1>4, <1>5, <1>6, <1>7, <1>8, <1>9, <1>10, <1>11, <1>12,
      <1>13, <1>14, <1>15, <1>16, <1>17, <1>18, <1>19 DEF Next, Proceed

-----------------------------------------------------------------------------
(* Projections. *)

LEMMA Numbers ==
  /\ EndOfTurn \in Nat /\ LastMessage \in Nat \ {0} /\ EndOfTurn \notin Messages
  /\ Messages = 1 .. LastMessage /\ 1 .. EndOfTurn = Messages \cup {EndOfTurn}
  /\ \A n : n \in Messages <=> n \in 1 .. EndOfTurn /\ n # EndOfTurn
  /\ Chunks \in Nat \ {0} /\ Thoughts \in Nat /\ TailSize \in Nat \ {0} /\ MaxFaults \in Nat
  BY LiveAssumption DEF Messages, EndOfTurn

LEMMA EventTypes ==
  /\ \A e \in Events : /\ e.type \in {"text", "thought", "completed"}
                       /\ e.message \in 1 .. EndOfTurn /\ e.chunk \in Nat /\ Sound(e)
  /\ \A f \in Frames : /\ f.type \in {"text", "thought", "record"}
                       /\ f.message \in 1 .. EndOfTurn /\ f.chunk \in Nat /\ Sound(f)
                       /\ f.type # "record" => f \in Events
  /\ \A r \in 1 .. EndOfTurn :
       /\ [type |-> "completed", message |-> r, chunk |-> 0] \in Events
       /\ [type |-> "record", message |-> r, chunk |-> 0] \in Frames
  /\ Numbered \subseteq Envelopes /\ Seq(Numbered) \subseteq Seq(Envelopes)
  /\ \A n \in Numbered : n.sequence \in Nat /\ n.event \in Events
<1>1. \A e \in Events : /\ e.type \in {"text", "thought", "completed"}
                        /\ e.message \in 1 .. EndOfTurn /\ e.chunk \in Nat /\ Sound(e)
  BY DEF Events
<1>2. \A f \in Frames : /\ f.type \in {"text", "thought", "record"}
                        /\ f.message \in 1 .. EndOfTurn /\ f.chunk \in Nat /\ Sound(f)
                        /\ f.type # "record" => f \in Events
  BY DEF Events, Frames
<1>3. \A r \in 1 .. EndOfTurn :
        /\ [type |-> "completed", message |-> r, chunk |-> 0] \in Events
        /\ [type |-> "record", message |-> r, chunk |-> 0] \in Frames
  BY DEF Events, Frames, Sound
<1>4. Numbered \subseteq Envelopes
  BY DEF Numbered, Envelopes, Events
<1>5. \A s \in Seq(Numbered) : s \in Seq(Envelopes)
  BY <1>4
<1> QED
  BY <1>1, <1>2, <1>3, <1>4, <1>5 DEF Numbered

\* An event is published under the next number, at the end of the tail.
LEMMA Published ==
  ASSUME NEW p \in Projections, TailOrdered(p), NEW e \in Events
  PROVE  /\ Publish(p, e) \in Projections /\ TailOrdered(Publish(p, e))
         /\ Publish(p, e).sequence = p.sequence + 1
         /\ Publish(p, e).tail[Len(Publish(p, e).tail)] = [sequence |-> p.sequence + 1, event |-> e]
         /\ [sequence |-> p.sequence + 1, event |-> e] \in Numbered
         /\ Publish(p, e).epoch = p.epoch /\ Publish(p, e).applied = p.applied
         /\ Publish(p, e).active = p.active /\ Publish(p, e).text = p.text
<1> DEFINE n == [sequence |-> p.sequence + 1, event |-> e]
           all == Append(p.tail, n)
           tail == IF Len(all) > TailSize THEN Tail(all) ELSE all
<1>1. p.sequence \in Nat /\ p.tail \in Seq(Numbered) /\ n \in Numbered /\ n.sequence = p.sequence + 1
  BY DEF Projections, Numbered
<1> HIDE DEF n
<1>2. /\ all \in Seq(Numbered) /\ Len(all) = Len(p.tail) + 1 /\ Len(p.tail) \in Nat
      /\ \A i \in 1 .. Len(p.tail) : all[i] = p.tail[i]
      /\ all[Len(p.tail) + 1] = n
  BY <1>1
<1>3. /\ Len(p.tail) <= TailSize /\ Len(p.tail) <= p.sequence
      /\ \A i \in 1 .. Len(p.tail) : p.tail[i].sequence = p.sequence - Len(p.tail) + i
  BY <1>1 DEF TailOrdered
<1>4. \A i \in 1 .. Len(p.tail) + 1 : all[i].sequence = p.sequence - Len(p.tail) + i
  <2> TAKE i \in 1 .. Len(p.tail) + 1
  <2> HIDE DEF all
  <2>1. CASE i \in 1 .. Len(p.tail)
    BY <1>2, <1>3, <2>1, Zenon
  <2>2. CASE i = Len(p.tail) + 1
    <3>1. all[i].sequence = p.sequence + 1
      BY <1>1, <1>2, <2>2, Zenon
    <3>2. p.sequence + 1 = p.sequence - Len(p.tail) + i
      BY <1>1, <1>2, <2>2
    <3> QED
      BY <3>1, <3>2, Zenon
  <2>3. i \in 1 .. Len(p.tail) \/ i = Len(p.tail) + 1
    BY <1>2
  <2> QED
    BY <2>1, <2>2, <2>3
<1> HIDE DEF all
<1>5. /\ tail \in Seq(Numbered) /\ Len(tail) \in Nat \ {0} /\ tail[Len(tail)] = n
      /\ Len(tail) <= TailSize /\ Len(tail) <= p.sequence + 1
      /\ \A i \in 1 .. Len(tail) : tail[i].sequence = (p.sequence + 1) - Len(tail) + i
  <2>1. CASE Len(all) > TailSize
    <3>1. /\ tail = Tail(all) /\ Tail(all) \in Seq(Numbered) /\ Len(Tail(all)) = Len(p.tail)
          /\ Len(p.tail) = TailSize
          /\ \A i \in 1 .. Len(p.tail) : Tail(all)[i] = all[i + 1]
      BY <1>2, <1>3, <2>1, Numbers
    <3> HIDE DEF tail
    <3>2. tail[Len(tail)] = n /\ Len(tail) \in Nat \ {0}
      BY <1>2, <3>1, Numbers
    <3>3. ASSUME NEW i \in 1 .. Len(tail)
          PROVE  tail[i].sequence = (p.sequence + 1) - Len(tail) + i
      <4>1. i \in Nat /\ i + 1 \in 1 .. Len(p.tail) + 1 /\ tail[i] = all[i + 1]
        BY <1>2, <3>1
      <4>2. tail[i].sequence = p.sequence - Len(p.tail) + (i + 1)
        BY <1>4, <4>1
      <4>3. Len(tail) = Len(p.tail)
        BY <3>1
      <4>4. p.sequence - Len(p.tail) + (i + 1) = (p.sequence + 1) - Len(p.tail) + i
        <5>1. \A a, b, j \in Nat : a - b + (j + 1) = (a + 1) - b + j
          OBVIOUS
        <5> QED
          BY <1>1, <1>2, <4>1, <5>1
      <4> QED
        BY <4>2, <4>3, <4>4
    <3>4. Len(tail) <= TailSize /\ Len(tail) <= p.sequence + 1 /\ tail \in Seq(Numbered)
      BY <1>1, <1>2, <1>3, <3>1, Numbers
    <3> QED
      BY <3>2, <3>3, <3>4
  <2>2. CASE ~(Len(all) > TailSize)
    <3>1. tail = all
      BY <2>2
    <3> HIDE DEF tail
    <3>2. Len(tail) = Len(p.tail) + 1 /\ Len(tail) <= TailSize /\ Len(tail) <= p.sequence + 1
      BY <1>1, <1>2, <1>3, <2>2, <3>1, Numbers
    <3>3. p.sequence - Len(p.tail) = (p.sequence + 1) - Len(tail)
      BY <1>1, <1>2, <3>2
    <3> QED
      BY <1>2, <1>4, <3>1, <3>2, <3>3
  <2> QED
    BY <2>1, <2>2
<1>6. Publish(p, e) = [p EXCEPT !.sequence = p.sequence + 1, !.tail = tail]
  BY DEF Publish, tail, all, n, Projections
<1> HIDE DEF tail
<1>7. /\ Publish(p, e).sequence = p.sequence + 1 /\ Publish(p, e).tail = tail
      /\ Publish(p, e).epoch = p.epoch /\ Publish(p, e).applied = p.applied
      /\ Publish(p, e).active = p.active /\ Publish(p, e).text = p.text
  BY <1>6 DEF Projections
<1>8. Publish(p, e) \in Projections
  <2>1. tail \in Seq(Numbered) /\ p.sequence + 1 \in Nat
    BY <1>1, <1>5
  <2> QED
    BY <1>6, <2>1 DEF Projections
<1>9. TailOrdered(Publish(p, e))
  BY <1>5, <1>7 DEF TailOrdered
<1> QED
  BY <1>1, <1>5, <1>7, <1>8, <1>9 DEF n

\* The events of a projection's tail after a number that the tail reaches back to.
After(p, n) == SubSeq(p.tail, n - (p.sequence - Len(p.tail)) + 1, Len(p.tail))

LEMMA AfterItems ==
  ASSUME NEW p \in Projections, TailOrdered(p), NEW n \in Nat, n <= p.sequence,
         n >= p.sequence - Len(p.tail)
  PROVE  /\ After(p, n) \in Seq(Numbered) /\ Len(After(p, n)) = p.sequence - n
         /\ \A i \in 1 .. p.sequence - n :
              /\ After(p, n)[i] = p.tail[n - (p.sequence - Len(p.tail)) + i]
              /\ After(p, n)[i].sequence = n + i
<1>1. /\ p.tail \in Seq(Numbered) /\ Len(p.tail) \in Nat /\ p.sequence \in Nat
      /\ Len(p.tail) <= p.sequence
      /\ \A i \in 1 .. Len(p.tail) : p.tail[i].sequence = p.sequence - Len(p.tail) + i
  BY DEF Projections, TailOrdered
<1> DEFINE k == n - (p.sequence - Len(p.tail))
<1>2. k \in Nat /\ k <= Len(p.tail) /\ Len(p.tail) - k = p.sequence - n
  BY <1>1
<1>3. /\ After(p, n) \in Seq(Numbered) /\ Len(After(p, n)) = Len(p.tail) - k
      /\ \A i \in 1 .. Len(p.tail) - k : After(p, n)[i] = p.tail[k + i]
  <2> HIDE DEF k
  <2>1. /\ SubSeq(p.tail, k + 1, Len(p.tail)) \in Seq(Numbered)
        /\ Len(SubSeq(p.tail, k + 1, Len(p.tail))) = Len(p.tail) - k
        /\ \A i \in 1 .. Len(p.tail) - k : SubSeq(p.tail, k + 1, Len(p.tail))[i] = p.tail[k + i]
    BY <1>1, <1>2
  <2> QED
    BY <2>1 DEF After, k
<1>4. ASSUME NEW i \in 1 .. p.sequence - n
      PROVE  p.tail[k + i].sequence = n + i
  <2>1. k + i \in 1 .. Len(p.tail)
    BY <1>1, <1>2
  <2>2. p.tail[k + i].sequence = p.sequence - Len(p.tail) + (k + i)
    BY <1>1, <2>1
  <2> QED
    BY <1>1, <2>2
<1> QED
  BY <1>2, <1>3, <1>4

\* That is what a subscription has replayed.
LEMMA ReplayIsAfter ==
  ASSUME NEW p \in Projections, TailOrdered(p), client.sequence \in Nat, Replayable(p)
  PROVE  Replay(p) = After(p, client.sequence)
<1> DEFINE n == client.sequence
           k == n - (p.sequence - Len(p.tail))
           seen == {i \in DOMAIN p.tail : p.tail[i].sequence <= n}
<1>1. /\ p.tail \in Seq(Numbered) /\ Len(p.tail) \in Nat /\ p.sequence \in Nat
      /\ DOMAIN p.tail = 1 .. Len(p.tail) /\ Len(p.tail) <= p.sequence
      /\ \A i \in 1 .. Len(p.tail) : p.tail[i].sequence = p.sequence - Len(p.tail) + i
      /\ n <= p.sequence /\ n >= p.sequence - Len(p.tail)
  BY DEF Projections, TailOrdered, Replayable
<1>2. k \in Nat /\ k <= Len(p.tail)
  BY <1>1
<1>3. seen = 1 .. k
  <2>1. \A i \in 1 .. Len(p.tail) : p.tail[i].sequence <= n <=> i <= k
    BY <1>1, <1>2
  <2> QED
    BY <1>1, <1>2, <2>1
<1>4. Cardinality(1 .. k) = k
  <2> HIDE DEF k
  <2> QED
    BY <1>2, FS_Interval
<1>5. Replay(p) = SubSeq(p.tail, Cardinality(seen) + 1, Len(p.tail))
  BY DEF Replay
<1> QED
  BY <1>3, <1>4, <1>5 DEF After

LEMMA AppliedAt ==
  ASSUME NEW p \in Projections, NEW r \in 0 .. EndOfTurn
  PROVE  /\ [p EXCEPT !.applied = r] \in Projections
         /\ [p EXCEPT !.applied = r].applied = r /\ [p EXCEPT !.applied = r].epoch = p.epoch
         /\ [p EXCEPT !.applied = r].sequence = p.sequence
         /\ [p EXCEPT !.applied = r].active = p.active
         /\ [p EXCEPT !.applied = r].text = p.text /\ [p EXCEPT !.applied = r].tail = p.tail
         /\ TailOrdered(p) => TailOrdered([p EXCEPT !.applied = r])
  BY DEF Projections, TailOrdered

LEMMA LoadFacts ==
  ASSUME LiveInv
  PROVE  /\ Load \in Projections /\ TailOrdered(Load) /\ Load.epoch = epochs + 1
         /\ Load.applied = stored /\ Load.active = 0 /\ Load.sequence = 0
         /\ Load.text = << >> /\ Load.tail = << >>
         /\ NoProjection \in Projections /\ TailOrdered(NoProjection) /\ NoProjection.epoch = 0
         /\ \A r \in 0 .. EndOfTurn :
              /\ [Load EXCEPT !.applied = r] \in Projections
              /\ TailOrdered([Load EXCEPT !.applied = r])
              /\ [Load EXCEPT !.applied = r].epoch = epochs + 1
              /\ [Load EXCEPT !.applied = r].applied = r /\ [Load EXCEPT !.applied = r].active = 0
<1>1. epochs \in Nat /\ stored \in 0 .. EndOfTurn /\ EndOfTurn \in Nat
  BY Numbers DEF LiveInv, TypeOK
<1>2. << >> \in Seq(1 .. Chunks) /\ << >> \in Seq(Numbered) /\ Len(<< >>) = 0
  OBVIOUS
<1>3. NoProjection \in Projections
  BY <1>1, <1>2 DEF NoProjection, Projections
<1>4. /\ NoProjection.sequence = 0 /\ NoProjection.applied = 0 /\ NoProjection.active = 0
      /\ NoProjection.text = << >> /\ NoProjection.tail = << >> /\ NoProjection.epoch = 0
  BY DEF NoProjection
<1>5. \A q : q.tail = << >> /\ q.sequence = 0 => TailOrdered(q)
  BY Numbers DEF TailOrdered
<1> DEFINE p == [NoProjection EXCEPT !.epoch = epochs + 1]
<1>6. /\ p \in Projections /\ p.epoch = epochs + 1 /\ p.sequence = 0 /\ p.active = 0
      /\ p.text = << >> /\ p.tail = << >>
  <2>1. epochs + 1 \in Nat
    BY <1>1
  <2> QED
    BY <1>3, <1>4, <2>1 DEF Projections
<1>7. Load = [p EXCEPT !.applied = stored]
  BY <1>3 DEF Load, Projections
<1> HIDE DEF p
<1>8. /\ Load \in Projections /\ Load.applied = stored /\ Load.sequence = 0 /\ Load.active = 0
      /\ Load.text = << >> /\ Load.tail = << >> /\ Load.epoch = epochs + 1
  BY <1>1, <1>6, <1>7, AppliedAt
<1>9. TailOrdered(Load) /\ TailOrdered(NoProjection)
  BY <1>4, <1>5, <1>8
<1> QED
  BY <1>3, <1>4, <1>8, <1>9, AppliedAt

\* What a projection does with a delta that continues its text, and with the next record.
LEMMA DeltaFacts ==
  ASSUME NEW p \in Projections, NEW m \in Messages, NEW c \in 1 .. Chunks,
         m > p.applied
  PROVE  /\ ApplyMessageDelta(p, m, c) \in Projections
         /\ ApplyMessageDelta(p, m, c).active = m
         /\ ApplyMessageDelta(p, m, c).text = IF p.active = m THEN Append(p.text, c) ELSE <<c>>
         /\ ApplyMessageDelta(p, m, c).epoch = p.epoch
         /\ ApplyMessageDelta(p, m, c).applied = p.applied
         /\ ApplyMessageDelta(p, m, c).sequence = p.sequence
         /\ ApplyMessageDelta(p, m, c).tail = p.tail
<1> DEFINE text == IF p.active = m THEN Append(p.text, c) ELSE <<c>>
<1>1. p.text \in Seq(1 .. Chunks) /\ p.applied \in Nat /\ m \in Nat
  BY Numbers DEF Projections
<1>2. text \in Seq(1 .. Chunks)
  <2>1. Append(p.text, c) \in Seq(1 .. Chunks) /\ <<c>> \in Seq(1 .. Chunks)
    BY <1>1
  <2> QED
    BY <2>1
<1>3. ApplyMessageDelta(p, m, c) = [p EXCEPT !.active = m, !.text = text]
  BY <1>1 DEF ApplyMessageDelta, Projections
<1> HIDE DEF text
<1>4. /\ [p EXCEPT !.active = m, !.text = text] \in Projections
      /\ [p EXCEPT !.active = m, !.text = text].active = m
      /\ [p EXCEPT !.active = m, !.text = text].text = text
      /\ [p EXCEPT !.active = m, !.text = text].epoch = p.epoch
      /\ [p EXCEPT !.active = m, !.text = text].applied = p.applied
      /\ [p EXCEPT !.active = m, !.text = text].sequence = p.sequence
      /\ [p EXCEPT !.active = m, !.text = text].tail = p.tail
  BY <1>2 DEF Projections
<1> QED
  BY <1>3, <1>4 DEF text

LEMMA RecordFacts ==
  ASSUME NEW p \in Projections, TailOrdered(p), NEW r \in 1 .. EndOfTurn
  PROVE  \E q \in Projections, e \in Events :
           /\ ApplyRecord(p, r) = Publish(q, e) /\ TailOrdered(q)
           /\ e = [type |-> "completed", message |-> r, chunk |-> 0]
           /\ q.epoch = p.epoch /\ q.applied = r /\ q.active = IF p.active = r THEN 0 ELSE p.active
           /\ q.text = IF p.active = r THEN << >> ELSE p.text
           /\ q.sequence = p.sequence /\ q.tail = p.tail
<1> DEFINE e == [type |-> "completed", message |-> r, chunk |-> 0]
           text == IF p.active = r THEN << >> ELSE p.text
           active == IF p.active = r THEN 0 ELSE p.active
           q == [p EXCEPT !.applied = r, !.active = active, !.text = text]
<1>1. text \in Seq(1 .. Chunks) /\ active \in {0} \cup Messages /\ r \in 0 .. EndOfTurn
  <2>1. << >> \in Seq(1 .. Chunks) /\ p.text \in Seq(1 .. Chunks)
        /\ p.active \in {0} \cup Messages
    BY DEF Projections
  <2>2. text \in Seq(1 .. Chunks)
    BY <2>1
  <2>3. active \in {0} \cup Messages
    BY <2>1
  <2>4. r \in 0 .. EndOfTurn
    BY Numbers
  <2> QED
    BY <2>2, <2>3, <2>4
<1>2. ApplyRecord(p, r) = Publish(q, e)
  BY DEF ApplyRecord, Projections
<1> HIDE DEF text, active
<1>3. /\ q \in Projections /\ q.epoch = p.epoch /\ q.applied = r /\ q.active = active
      /\ q.text = text /\ q.sequence = p.sequence /\ q.tail = p.tail
  BY <1>1 DEF Projections
<1> HIDE DEF q
<1>4. TailOrdered(q)
  BY <1>3 DEF TailOrdered
<1> QED
  BY <1>2, <1>3, <1>4, EventTypes DEF text, active

-----------------------------------------------------------------------------
(* The node, and its frames. *)

\* The first frame on the way: a record comes last, and is of the message under way.
LEMMA HeadFacts ==
  ASSUME LiveInv, wire # << >>
  PROVE  /\ Head(wire) \in Frames /\ Tail(wire) \in Seq(Frames)
         /\ Head(wire).message = stored + 1 /\ stored + 1 \in 1 .. EndOfTurn
         /\ Head(wire).type = "record" => Tail(wire) = << >> /\ made = stored + 1
         /\ Head(wire).type # "record" => Head(wire).message \in Messages
<1>1. /\ wire \in Seq(Frames) /\ OnTheWay
  BY DEF LiveInv, Precise
<1>2. /\ Head(wire) = wire[1] /\ 1 \in DOMAIN wire /\ Len(wire) \in Nat \ {0}
      /\ Head(wire) \in Frames /\ Tail(wire) \in Seq(Frames) /\ Len(Tail(wire)) = Len(wire) - 1
  BY <1>1
<1>3. /\ Head(wire).message = stored + 1
      /\ Head(wire).type = "record" => 1 = Len(wire) /\ made = stored + 1
  BY <1>1, <1>2 DEF OnTheWay
<1>4. Head(wire).message \in 1 .. EndOfTurn
      /\ (Head(wire).type # "record" => Head(wire).message \in Messages)
  BY <1>2, EventTypes DEF Sound
<1>5. Len(wire) = 1 => Tail(wire) = << >>
  <2>1. \A s \in Seq(Frames) : Len(s) = 0 => s = << >>
    OBVIOUS
  <2>2. PICK t : t = Tail(wire)
    OBVIOUS
  <2>3. t \in Seq(Frames) /\ (Len(wire) = 1 => Len(t) = 0)
    BY <1>2, <2>2
  <2> QED
    BY <2>1, <2>2, <2>3, Zenon
<1> QED
  BY <1>2, <1>3, <1>4, <1>5

LEMMA WireNext ==
  ASSUME LiveInv, Next
  PROVE  /\ made' \in 0 .. EndOfTurn /\ produced' \in 0 .. Thoughts + Chunks
         /\ link' \in {"up", "down", "draining"} /\ plane' \in {"up", "down"}
         /\ wire' \in Seq(Frames) /\ stored' \in 0 .. made' /\ OnTheWay'
         /\ stored' = stored \/ (stored' = stored + 1 /\ stored' \in 1 .. EndOfTurn)
<1> DEFINE Goal == /\ made' \in 0 .. EndOfTurn /\ produced' \in 0 .. Thoughts + Chunks
                   /\ link' \in {"up", "down", "draining"} /\ plane' \in {"up", "down"}
                   /\ wire' \in Seq(Frames) /\ stored' \in 0 .. made' /\ OnTheWay'
                   /\ stored' = stored \/ (stored' = stored + 1 /\ stored' \in 1 .. EndOfTurn)
<1>1. /\ made \in 0 .. EndOfTurn /\ produced \in 0 .. Thoughts + Chunks
      /\ link \in {"up", "down", "draining"} /\ plane \in {"up", "down"}
      /\ wire \in Seq(Frames) /\ stored \in 0 .. made /\ OnTheWay
      /\ made \in Nat /\ produced \in Nat /\ stored \in Nat
  BY Numbers DEF LiveInv, TypeOK, Precise
<1>2. << >> \in Seq(Frames) /\ DOMAIN << >> = {} /\ Len(<< >>) = 0
  OBVIOUS
<1>3. ASSUME UNCHANGED <<made, link, wire, plane, stored>>, produced' \in 0 .. Thoughts + Chunks
      PROVE  Goal
  BY <1>1, <1>3 DEF OnTheWay
<1>4. ASSUME UNCHANGED <<made, produced, stored>>, wire' = << >>, link' \in {"down", "draining"},
             plane' \in {"up", "down"}
      PROVE  Goal
  BY <1>1, <1>2, <1>4 DEF OnTheWay
<1>5. CASE Delta
  <2>1. CASE wire' = wire
    BY <1>1, <1>3, <1>5, <2>1, Numbers DEF Delta, planeVars
  <2>2. CASE wire' # wire
    <3>1. PICK f : /\ wire' = Append(wire, f)
                   /\ f = [type |-> IF produced >= Thoughts THEN "text" ELSE "thought",
                           message |-> Streaming,
                           chunk |-> IF produced >= Thoughts THEN produced' - Thoughts ELSE produced']
      BY <1>5, <2>2 DEF Delta
    <3>2. /\ link = "up" /\ stored = made /\ Streaming \in Messages /\ produced < Thoughts + Chunks
          /\ produced' = produced + 1 /\ UNCHANGED <<made, link, plane, stored>>
      BY <1>5, <2>2 DEF Delta, Ready, planeVars
    <3>3. produced' \in 0 .. Thoughts + Chunks
          /\ (produced >= Thoughts => produced' - Thoughts \in 1 .. Chunks)
      BY <1>1, <3>2, Numbers
    <3>4. f.type \in {"text", "thought"} /\ f.message = Streaming /\ f.chunk \in Nat
          /\ (f.type = "text" => f.chunk \in 1 .. Chunks)
      BY <1>1, <3>1, <3>2, <3>3
    <3>5. Streaming \in 1 .. EndOfTurn /\ Streaming = stored + 1
      BY <3>2, Numbers DEF Streaming
    <3>6. f \in Frames
      <4>1. f \in [type : {"text", "thought", "record"}, message : 1 .. EndOfTurn, chunk : Nat]
        BY <3>1, <3>4, <3>5
      <4> QED
        BY <3>2, <3>4, <4>1 DEF Frames, Sound
    <3>7. /\ wire' \in Seq(Frames) /\ Len(wire') = Len(wire) + 1 /\ Len(wire) \in Nat
          /\ \A i \in 1 .. Len(wire) : wire'[i] = wire[i]
          /\ wire'[Len(wire) + 1] = f /\ DOMAIN wire' = 1 .. Len(wire) + 1
      BY <1>1, <3>1, <3>6
    <3>8. \A i \in DOMAIN wire : wire[i].type # "record" /\ wire[i].message = stored + 1
      BY <1>1, <3>2 DEF OnTheWay
    <3>9. \A i \in DOMAIN wire' : wire'[i].type # "record" /\ wire'[i].message = stored + 1
      BY <1>1, <3>4, <3>5, <3>7, <3>8
    <3> QED
      BY <1>1, <3>2, <3>3, <3>7, <3>9 DEF OnTheWay
  <2> QED
    BY <2>1, <2>2
<1>6. CASE Record
  <2>1. /\ made' = made + 1 /\ produced' = 0 /\ UNCHANGED <<link, plane, stored>>
        /\ made < EndOfTurn /\ (link # "up" \/ stored = made)
        /\ wire' = IF link = "up" THEN Append(wire, [type |-> "record", message |-> made',
                                                     chunk |-> 0]) ELSE wire
    BY <1>6 DEF Record, Ready, planeVars
  <2>2. made' \in 0 .. EndOfTurn /\ stored' \in 0 .. made' /\ produced' \in 0 .. Thoughts + Chunks
        /\ made' \in 1 .. EndOfTurn
    BY <1>1, <2>1, Numbers
  <2>3. CASE link = "up"
    <3> DEFINE f == [type |-> "record", message |-> made', chunk |-> 0]
    <3>1. f \in Frames /\ f.type = "record" /\ f.message = stored + 1 /\ stored = made
      BY <2>1, <2>2, <2>3, EventTypes
    <3> HIDE DEF f
    <3>2. /\ wire' = Append(wire, f) /\ wire' \in Seq(Frames) /\ Len(wire') = Len(wire) + 1
          /\ Len(wire) \in Nat /\ \A i \in 1 .. Len(wire) : wire'[i] = wire[i]
          /\ wire'[Len(wire) + 1] = f /\ DOMAIN wire' = 1 .. Len(wire) + 1
      BY <1>1, <2>1, <2>3, <3>1 DEF f
    <3>3. \A i \in DOMAIN wire : wire[i].type # "record" /\ wire[i].message = stored + 1
      BY <1>1, <3>1 DEF OnTheWay
    <3>4. OnTheWay'
      <4>1. \A i \in DOMAIN wire' : /\ wire'[i].message = stored + 1
                                    /\ wire'[i].type = "record" => i = Len(wire')
        BY <1>1, <3>1, <3>2, <3>3
      <4>2. made' = stored' + 1 /\ link' = "up" /\ wire' # << >>
            /\ wire'[Len(wire')].type = "record"
        BY <2>1, <2>3, <3>1, <3>2
      <4> QED
        BY <2>1, <4>1, <4>2 DEF OnTheWay
    <3> QED
      BY <1>1, <2>1, <2>2, <3>2, <3>4
  <2>4. CASE link # "up"
    BY <1>1, <1>2, <2>1, <2>2, <2>4 DEF OnTheWay
  <2> QED
    BY <2>3, <2>4
<1>7. CASE Reconnect \/ PlaneStops \/ BreakLink
  BY <1>1, <1>4, <1>7 DEF Reconnect, PlaneStops, BreakLink, LinkLost, OnTheWay, planeVars
<1>8. CASE LinkReady
  BY <1>1, <1>2, <1>8 DEF LinkReady, OnTheWay, planeVars
<1>9. CASE ReceiveRecord
  <2>1. /\ wire # << >> /\ Head(wire).type = "record" /\ wire' = Tail(wire)
        /\ stored' = Head(wire).message /\ UNCHANGED <<made, produced, link, plane>>
    BY <1>9 DEF ReceiveRecord, Store
  <2>2. wire' = << >> /\ stored' = stored + 1 /\ made = stored' /\ stored' \in 1 .. EndOfTurn
    BY <2>1, HeadFacts
  <2> QED
    BY <1>1, <1>2, <2>1, <2>2 DEF OnTheWay
<1>10. CASE ReceiveSpooled
  <2>1. /\ link = "draining" /\ stored < made /\ stored' = stored + 1
        /\ UNCHANGED <<made, produced, link, wire, plane>>
    BY <1>10 DEF ReceiveSpooled, Store, nodeVars
  <2>2. wire = << >> /\ stored' \in 0 .. made /\ stored' \in 1 .. EndOfTurn
    BY <1>1, <2>1, Numbers DEF OnTheWay
  <2> QED
    BY <1>1, <1>2, <2>1, <2>2 DEF OnTheWay
<1>11. CASE ReceiveDelta
  <2>1. /\ wire # << >> /\ Head(wire).type # "record"
        /\ UNCHANGED <<made, produced, plane, stored>>
        /\ \/ wire' = Tail(wire) /\ UNCHANGED link
           \/ LinkLost
    BY <1>11 DEF ReceiveDelta
  <2>2. CASE LinkLost
    BY <1>4, <1>1, <2>1, <2>2 DEF LinkLost
  <2>3. CASE wire' = Tail(wire) /\ UNCHANGED link
    <3>1. /\ Tail(wire) \in Seq(Frames) /\ Len(Tail(wire)) = Len(wire) - 1
          /\ Len(wire) \in Nat \ {0} /\ DOMAIN wire = 1 .. Len(wire)
          /\ DOMAIN Tail(wire) = 1 .. Len(wire) - 1 /\ Head(wire) = wire[1]
          /\ \A i \in 1 .. Len(wire) - 1 : Tail(wire)[i] = wire[i + 1]
      BY <1>1, <2>1
    <3>2. ASSUME NEW i \in DOMAIN wire'
          PROVE  /\ wire'[i].message = stored + 1
                 /\ wire'[i].type = "record" => i = Len(wire') /\ made = stored + 1
      <4>1. i + 1 \in DOMAIN wire /\ wire'[i] = wire[i + 1] /\ i \in Nat
        BY <2>3, <3>1, <3>2
      <4>2. wire[i + 1].type = "record" => i + 1 = Len(wire) /\ made = stored + 1
        BY <1>1, <4>1 DEF OnTheWay
      <4> QED
        BY <1>1, <2>3, <3>1, <4>1, <4>2 DEF OnTheWay
    <3>3. ASSUME link = "up", made # stored
          PROVE  wire' # << >> /\ wire'[Len(wire')].type = "record"
      <4>1. wire[Len(wire)].type = "record"
        BY <1>1, <3>3 DEF OnTheWay
      <4>2. Len(wire) # 1
        BY <2>1, <3>1, <4>1
      <4>3. Len(wire) - 1 \in 1 .. Len(wire) - 1 /\ (Len(wire) - 1) + 1 = Len(wire)
        BY <3>1, <4>2
      <4>4. wire' = Tail(wire) /\ Len(wire') = Len(wire) - 1
        BY <2>3, <3>1
      <4>5. wire'[Len(wire) - 1] = wire[(Len(wire) - 1) + 1]
        BY <3>1, <4>3, <4>4
      <4>6. wire' # << >>
        <5>1. Len(wire') # 0
          BY <3>1, <4>2, <4>4
        <5>2. Len(<< >>) = 0
          OBVIOUS
        <5> QED
          BY <5>1, <5>2, Zenon
      <4> QED
        BY <4>1, <4>3, <4>4, <4>5, <4>6
    <3>4. link = "up"
      BY <1>1, <2>1 DEF OnTheWay
    <3> QED
      BY <1>1, <2>1, <2>3, <3>1, <3>2, <3>3, <3>4 DEF OnTheWay
  <2> QED
    BY <2>1, <2>2, <2>3
<1>12. CASE PlaneStarts
  BY <1>1, <1>12 DEF PlaneStarts, nodeVars, OnTheWay
<1>13. CASE \/ Snapshot \/ RequestFails \/ Subscribe \/ Activate \/ Submit \/ Receive
            \/ StreamEnds \/ BreakStream \/ Evict
  <2>1. UNCHANGED <<made, produced, link, wire, plane, stored>>
    BY <1>13, Changes DEF Snapshot, RequestFails, Subscribe, Activate, Submit, Receive,
                 StreamEnds, BreakStream, StreamLost, Evict, nodeVars, planeVars
  <2> QED
    BY <1>1, <1>3, <2>1
<1> QED
  BY <1>5, <1>6, <1>7, <1>8, <1>9, <1>10, <1>11, <1>12, <1>13 DEF Next, Proceed

-----------------------------------------------------------------------------
(* The plane, and what it writes to a subscribed client. *)

\* An event is published in the projection in memory, and written or held back.
Written ==
  /\ Loaded /\ projection'.epoch = projection.epoch
  /\ projection'.sequence = projection.sequence + 1
  /\ \E n \in Numbered :
       /\ n.sequence = projection.sequence + 1
       /\ \/ ~Subscribed /\ UNCHANGED <<inbox, pending>>
          \/ Subscribed /\ client.phase = "live" /\ inbox' = Append(inbox, n) /\ UNCHANGED pending
          \/ Subscribed /\ client.phase = "opening" /\ pending' = Append(pending, n) /\ UNCHANGED inbox

\* The projection before a record or a delta is applied.
LEMMA ProjectedFacts ==
  ASSUME LiveInv
  PROVE  /\ Projected \in Projections /\ TailOrdered(Projected) /\ Projected.applied = stored
         /\ Projected.active \in {0, stored + 1} /\ stored \in Nat /\ epochs \in Nat
         /\ Projected.epoch \in Nat \ {0}
         /\ Loaded => Projected = projection /\ projection.epoch <= epochs
         /\ ~Loaded => Projected = Load /\ Projected.epoch = epochs + 1 /\ ~Subscribed
         /\ CountLoad => epochs' \in Nat /\ epochs <= epochs' /\ Projected.epoch <= epochs'
<1>1. /\ projection \in Projections /\ TailOrdered(projection) /\ epochs \in Nat
      /\ projection.epoch \in 0 .. epochs /\ stored \in Nat
      /\ Loaded => projection.applied = stored /\ projection.active \in {0, stored + 1}
  BY Numbers DEF LiveInv, TypeOK, Precise
<1>2. /\ Load \in Projections /\ TailOrdered(Load) /\ Load.epoch = epochs + 1
      /\ Load.applied = stored /\ Load.active = 0
  BY LoadFacts
<1>3. ~Loaded => ~Subscribed
  BY DEF LiveInv, Cursor, Loaded, Subscribed
<1>4. CASE Loaded
  <2>1. Projected = projection /\ projection.epoch # 0
    BY <1>4 DEF Projected, Loaded
  <2>2. CountLoad => epochs' = epochs
    BY <1>4 DEF CountLoad
  <2> QED
    BY <1>1, <1>4, <2>1, <2>2
<1>5. CASE ~Loaded
  <2>1. Projected = Load
    BY <1>5 DEF Projected
  <2>2. CountLoad => epochs' = epochs + 1
    BY <1>5 DEF CountLoad
  <2> QED
    BY <1>1, <1>2, <1>3, <1>5, <2>1, <2>2
<1> QED
  BY <1>4, <1>5

\* What is published in the loaded projection is delivered.
LEMMA DeliverWrites ==
  ASSUME Loaded, NEW q \in Projections, TailOrdered(q), NEW e \in Events,
         q.epoch = projection.epoch, q.sequence = projection.sequence,
         projection \in Projections, projection' = Publish(q, e), Deliver(projection, projection')
  PROVE  Written
<1> DEFINE n == [sequence |-> q.sequence + 1, event |-> e]
<1>1. /\ projection'.sequence = q.sequence + 1 /\ projection'.epoch = q.epoch
      /\ projection'.tail[Len(projection'.tail)] = n /\ n \in Numbered
      /\ n.sequence = projection.sequence + 1
  BY Published
<1> HIDE DEF n
<1>2. projection.sequence \in Nat /\ projection'.sequence # projection.sequence
  BY <1>1 DEF Projections
<1>3. \/ ~Subscribed /\ UNCHANGED <<inbox, pending>>
      \/ Subscribed /\ client.phase = "live" /\ inbox' = Append(inbox, n) /\ UNCHANGED pending
      \/ Subscribed /\ client.phase = "opening" /\ pending' = Append(pending, n) /\ UNCHANGED inbox
  BY <1>1, <1>2 DEF Deliver
<1> QED
  BY <1>1, <1>3 DEF Written

\* What a step makes of the projection: nothing, nothing in memory, a new one, or one event more.
ProjectionStep ==
  /\ projection' \in Projections /\ TailOrdered(projection')
  /\ epochs' \in Nat /\ epochs <= epochs' /\ projection'.epoch <= epochs'
  /\ projection'.epoch # 0 => /\ projection'.applied = stored'
                              /\ projection'.active \in {0, stored' + 1}
  /\ \/ UNCHANGED <<projection, epochs>>
     \/ projection'.epoch = 0
     \/ ~Loaded /\ projection'.epoch = epochs + 1
     \/ Written

LEMMA StoreFacts ==
  ASSUME LiveInv, NEW r \in 1 .. EndOfTurn, r = stored + 1, Store(r)
  PROVE  /\ ProjectionStep
         /\ \/ Written
            \/ ~Loaded /\ projection'.epoch = epochs + 1 /\ UNCHANGED <<inbox, pending>>
<1>1. stored' = r /\ CountLoad
  BY DEF Store
<1>2. CASE Loaded
  <2>1. projection' = ApplyRecord(projection, r) /\ Deliver(projection, projection')
    BY <1>2 DEF Store
  <2>2. /\ projection \in Projections /\ TailOrdered(projection)
        /\ projection.active \in {0, stored + 1} /\ projection.epoch <= epochs
        /\ epochs' \in Nat /\ epochs <= epochs' /\ projection.epoch <= epochs'
    BY <1>1, <1>2, ProjectedFacts
  <2>3. PICK q \in Projections, e \in Events :
          /\ ApplyRecord(projection, r) = Publish(q, e) /\ TailOrdered(q)
          /\ q.epoch = projection.epoch /\ q.applied = r
          /\ q.active = IF projection.active = r THEN 0 ELSE projection.active
          /\ q.sequence = projection.sequence
    BY <2>2, RecordFacts
  <2>4. q.active = 0
    BY <2>2, <2>3
  <2>5. /\ projection' \in Projections /\ TailOrdered(projection')
        /\ projection'.epoch = projection.epoch /\ projection'.applied = r
        /\ projection'.active = 0
    <3>1. projection' = Publish(q, e) /\ TailOrdered(q)
      BY <2>1, <2>3
    <3>2. /\ Publish(q, e) \in Projections /\ TailOrdered(Publish(q, e))
          /\ Publish(q, e).epoch = q.epoch /\ Publish(q, e).applied = q.applied
          /\ Publish(q, e).active = q.active
      BY <3>1, Published
    <3> QED
      BY <2>3, <2>4, <3>1, <3>2
  <2>6. Written
    BY <1>2, <2>1, <2>2, <2>3, DeliverWrites
  <2> QED
    BY <1>1, <2>2, <2>5, <2>6 DEF ProjectionStep
<1>3. CASE ~Loaded
  <2>1. projection' = [Load EXCEPT !.applied = r] /\ UNCHANGED <<inbox, pending>>
    BY <1>3 DEF Store
  <2>2. r \in 0 .. EndOfTurn /\ epochs \in Nat
    BY Numbers, ProjectedFacts
  <2>3. /\ projection' \in Projections /\ TailOrdered(projection')
        /\ projection'.epoch = epochs + 1 /\ projection'.applied = r /\ projection'.active = 0
    BY <2>1, <2>2, LoadFacts
  <2>4. epochs' = epochs + 1
    BY <1>1, <1>3 DEF CountLoad
  <2> QED
    BY <1>1, <1>3, <2>1, <2>2, <2>3, <2>4 DEF ProjectionStep
<1> QED
  BY <1>2, <1>3

LEMMA ReceiveDeltaFacts ==
  ASSUME LiveInv, ReceiveDelta
  PROVE  /\ ProjectionStep
         /\ \/ Written
            \/ /\ UNCHANGED <<inbox, pending>>
               /\ UNCHANGED <<projection, epochs>> \/ (~Loaded /\ projection'.epoch = epochs + 1)
         /\ torn' \subseteq torn \cup Messages
<1> DEFINE d == Head(wire)
           p == Projected
           q == IF d.type = "text" THEN ApplyMessageDelta(p, d.message, d.chunk) ELSE p
<1>1. /\ d \in Frames /\ d.message = stored + 1 /\ d.type # "record" /\ d.message \in Messages
      /\ CountLoad /\ stored' = stored
  BY HeadFacts DEF ReceiveDelta
<1>2. /\ d \in Events /\ (d.type = "text" => d.chunk \in 1 .. Chunks)
  BY <1>1, EventTypes DEF Sound
<1>3. /\ p \in Projections /\ TailOrdered(p) /\ p.applied = stored
      /\ p.active \in {0, stored + 1} /\ stored \in Nat /\ epochs \in Nat
      /\ p.epoch # 0 /\ epochs' \in Nat /\ epochs <= epochs' /\ p.epoch <= epochs'
  BY <1>1, ProjectedFacts
<1>4. /\ q \in Projections /\ TailOrdered(q) /\ q.epoch = p.epoch /\ q.applied = stored
      /\ q.active \in {0, stored + 1} /\ q.sequence = p.sequence
  <2>1. CASE d.type = "text"
    <3>1. d.message > p.applied
      BY <1>1, <1>3
    <3>2. /\ q \in Projections /\ q.active = d.message /\ q.epoch = p.epoch
          /\ q.applied = p.applied /\ q.sequence = p.sequence /\ q.tail = p.tail
      BY <1>1, <1>2, <1>3, <2>1, <3>1, DeltaFacts, ZenonT(40)
    <3>3. TailOrdered(q)
      BY <1>3, <3>2 DEF TailOrdered
    <3> QED
      BY <1>1, <1>3, <3>2, <3>3
  <2>2. CASE d.type # "text"
    BY <1>3, <2>2
  <2> QED
    BY <2>1, <2>2
<1>5. \/ /\ projection' = Publish(q, d) /\ Deliver(p, projection')
         /\ torn' \in {torn, torn \cup {d.message}}
      \/ /\ projection' = p /\ UNCHANGED <<inbox, pending>> /\ LinkLost
  BY DEF ReceiveDelta
<1> HIDE DEF p, q, d
<1>6. CASE /\ projection' = Publish(q, d) /\ Deliver(p, projection')
           /\ torn' \in {torn, torn \cup {d.message}}
  <2>1. /\ projection' \in Projections /\ TailOrdered(projection')
        /\ projection'.epoch = p.epoch /\ projection'.applied = stored
        /\ projection'.active \in {0, stored + 1}
    BY <1>2, <1>4, <1>6, Published
  <2>2. CASE Loaded
    <3>1. p = projection
      BY <2>2, ProjectedFacts DEF p
    <3>2. Written
      BY <1>2, <1>3, <1>4, <1>6, <2>2, <3>1, DeliverWrites
    <3> QED
      BY <1>1, <1>3, <1>6, <2>1, <3>2 DEF ProjectionStep
  <2>3. CASE ~Loaded
    <3>1. p.epoch = epochs + 1 /\ ~Subscribed
      BY <2>3, ProjectedFacts DEF p
    <3>2. UNCHANGED <<inbox, pending>>
      BY <1>6, <3>1 DEF Deliver
    <3> QED
      BY <1>1, <1>3, <1>6, <2>1, <2>3, <3>1, <3>2 DEF ProjectionStep
  <2> QED
    BY <2>2, <2>3
<1>7. CASE projection' = p /\ UNCHANGED <<inbox, pending>> /\ LinkLost
  <2>1. torn' \subseteq torn \cup Messages
    BY <1>7 DEF LinkLost
  <2>2. CASE Loaded
    <3>1. p = projection /\ epochs' = epochs
      BY <1>1, <2>2, ProjectedFacts DEF p, CountLoad
    <3> QED
      BY <1>1, <1>3, <1>7, <2>1, <3>1 DEF ProjectionStep
  <2>3. CASE ~Loaded
    <3>1. p.epoch = epochs + 1
      BY <2>3, ProjectedFacts DEF p
    <3> QED
      BY <1>1, <1>3, <1>7, <2>1, <2>3, <3>1 DEF ProjectionStep
  <2> QED
    BY <2>2, <2>3
<1> QED
  BY <1>5, <1>6, <1>7

LEMMA ProjectionNext ==
  ASSUME LiveInv, Next
  PROVE  ProjectionStep
<1>1. /\ projection \in Projections /\ TailOrdered(projection) /\ epochs \in Nat
      /\ projection.epoch \in 0 .. epochs /\ stored \in Nat
      /\ projection.epoch # 0 => /\ projection.applied = stored
                                 /\ projection.active \in {0, stored + 1}
  BY Numbers DEF LiveInv, TypeOK, Precise, Loaded
<1>2. CASE ReceiveRecord
  <2>1. wire # << >> /\ Head(wire).type = "record" /\ Store(Head(wire).message)
    BY <1>2 DEF ReceiveRecord
  <2> QED
    BY <2>1, HeadFacts, StoreFacts
<1>3. CASE ReceiveSpooled
  <2>1. stored < made /\ Store(stored + 1)
    BY <1>3 DEF ReceiveSpooled
  <2>2. stored + 1 \in 1 .. EndOfTurn
    BY <1>1, <2>1, Numbers DEF LiveInv, TypeOK
  <2> QED
    BY <2>1, <2>2, StoreFacts
<1>4. CASE ReceiveDelta
  BY <1>4, ReceiveDeltaFacts
<1>5. CASE Snapshot \/ Subscribe
  <2>1. projection' = Projected /\ CountLoad /\ stored' = stored
    BY <1>5 DEF Snapshot, Subscribe
  <2>2. Loaded => UNCHANGED <<projection, epochs>>
    BY <2>1 DEF CountLoad, Projected
  <2>3. ~Loaded => projection'.epoch = epochs + 1
    BY <2>1, ProjectedFacts
  <2> QED
    BY <2>1, <2>2, <2>3, ProjectedFacts DEF ProjectionStep
<1>6. CASE Evict \/ PlaneStops
  <2>1. projection' = NoProjection /\ epochs' = epochs
    BY <1>6 DEF Evict, PlaneStops
  <2>2. NoProjection \in Projections /\ TailOrdered(NoProjection) /\ NoProjection.epoch = 0
    BY LoadFacts
  <2> QED
    BY <1>1, <2>1, <2>2 DEF ProjectionStep
<1>7. CASE /\ UNCHANGED <<projection, epochs>> /\ UNCHANGED stored
  BY <1>1, <1>7 DEF ProjectionStep
<1> QED
  BY <1>2, <1>3, <1>4, <1>5, <1>6, <1>7, Changes

-----------------------------------------------------------------------------
(* What the client shows, and where it is. *)

LEMMA ShowFacts ==
  ASSUME NEW v \in Views, NEW m \in Messages, NEW offset \in Nat, NEW text \in Seq(1 .. Chunks),
         offset <= Len(v.shown[m])
  PROVE  /\ Show(v, m, offset, text) \in Views
         /\ Show(v, m, offset, text).shown[m] \in Seq(1 .. Chunks)
<1> DEFINE seen == Len(v.shown[m])
           more == SubSeq(text, seen - offset + 1, Len(text))
<1>1. /\ v.shown \in [Messages -> Seq(1 .. Chunks)] /\ v.shown[m] \in Seq(1 .. Chunks)
      /\ seen \in Nat /\ Len(text) \in Nat
  BY DEF Views
<1>2. CASE offset + Len(text) <= seen
  BY <1>1, <1>2 DEF Show
<1>3. CASE ~(offset + Len(text) <= seen)
  <2>1. PICK k \in Nat : k = seen - offset /\ seen - offset + 1 = k + 1 /\ k <= Len(text)
    <3>1. seen - offset \in Nat /\ seen - offset <= Len(text)
      BY <1>1, <1>3
    <3> QED
      BY <3>1
  <2>2. more \in Seq(1 .. Chunks)
    <3>1. PICK S : S = 1 .. Chunks
      OBVIOUS
    <3>2. \A s \in Seq(S), j \in Nat : j <= Len(s) => SubSeq(s, j + 1, Len(s)) \in Seq(S)
      OBVIOUS
    <3>3. SubSeq(text, k + 1, Len(text)) \in Seq(1 .. Chunks)
      BY <2>1, <3>1, <3>2
    <3>4. more = SubSeq(text, k + 1, Len(text))
      BY <2>1, Zenon
    <3> QED
      BY <3>3, <3>4, Zenon
  <2> HIDE DEF more
  <2>3. v.shown[m] \o more \in Seq(1 .. Chunks)
    BY <1>1, <2>2
  <2>4. Show(v, m, offset, text) = [v EXCEPT !.shown[m] = v.shown[m] \o more]
    BY <1>3 DEF Show, more, Views
  <2>5. PICK shown \in [Messages -> Seq(1 .. Chunks)] :
          shown = [v.shown EXCEPT ![m] = v.shown[m] \o more]
    BY <1>1, <2>3
  <2>6. Show(v, m, offset, text) = [v EXCEPT !.shown = shown]
    BY <2>4, <2>5 DEF Views
  <2>7. [v EXCEPT !.shown = shown] \in Views /\ [v EXCEPT !.shown = shown].shown = shown
    BY <2>5 DEF Views
  <2> QED
    BY <2>5, <2>6, <2>7
<1> QED
  BY <1>2, <1>3

LEMMA SnapshotTypes ==
  ASSUME NEW v \in Views, NEW p \in Projections
  PROVE  ShowSnapshot(v, p) \in Views
<1>1. Text \in Seq(1 .. Chunks) /\ << >> \in Seq(1 .. Chunks) /\ p.text \in Seq(1 .. Chunks)
  <2>1. Text \in [1 .. Chunks -> 1 .. Chunks]
    BY Numbers DEF Text
  <2>2. \A S : \A n \in Nat : \A s \in [1 .. n -> S] : s \in Seq(S)
    OBVIOUS
  <2>3. Text \in Seq(1 .. Chunks) /\ p.text \in Seq(1 .. Chunks)
    BY <2>1, <2>2, Numbers DEF Projections
  <2> QED
    BY <2>3
<1>2. \A m \in Messages : TextIn(p, m) \in Seq(1 .. Chunks)
  <2>1. \A m \in Messages : TextIn(p, m) \in {Text, p.text, << >>}
    BY Zenon DEF TextIn
  <2> QED
    BY <1>1, <2>1, Zenon
<1>3. 1 .. p.applied \cap Messages \in SUBSET Messages /\ Thoughts \in Nat
  BY Numbers
<1>4. Reset(p) \in Views
  BY <1>2, <1>3 DEF Reset, Views
<1>5. \A m \in Messages : Show(v, m, 0, TextIn(p, m)).shown[m] \in Seq(1 .. Chunks)
  <2>1. \A m \in Messages : v.shown[m] \in Seq(1 .. Chunks)
    BY DEF Views
  <2>2. \A m \in Messages : 0 <= Len(v.shown[m])
    BY <2>1
  <2> QED
    BY <1>2, <2>2, ShowFacts
<1>6. PrintMissing(v, p) \in Views
  BY <1>3, <1>5 DEF PrintMissing, Views
<1> QED
  BY <1>4, <1>6 DEF ShowSnapshot

LEMMA EventShown ==
  ASSUME NEW v \in Views, NEW e \in Events, ~Unshowable(v, e)
  PROVE  ShowEvent(v, e) \in Views
<1>1. /\ e.type \in {"text", "thought", "completed"} /\ e.message \in 1 .. EndOfTurn
      /\ e.chunk \in Nat /\ (e.type \in {"text", "thought"} => e.message \in Messages)
      /\ (e.type = "text" => e.chunk \in 1 .. Chunks)
  BY EventTypes DEF Sound
<1>2. CASE e.type = "text"
  <2>1. <<e.chunk>> \in Seq(1 .. Chunks) /\ e.chunk - 1 \in Nat
    BY <1>1, <1>2
  <2>2. v.shown[e.message] \in Seq(1 .. Chunks)
    BY <1>1, <1>2 DEF Views
  <2>3. e.chunk - 1 <= Len(v.shown[e.message])
    BY <1>2, <2>1, <2>2 DEF Unshowable, Gap
  <2>4. ShowEvent(v, e) = Show(v, e.message, e.chunk - 1, <<e.chunk>>)
    BY <1>2 DEF ShowEvent
  <2> QED
    BY <1>1, <1>2, <2>1, <2>3, <2>4, ShowFacts
<1>3. CASE e.type = "thought"
  BY <1>1, <1>3 DEF ShowEvent, Views
<1>4. CASE e.type = "completed"
  <2>1. e.message # EndOfTurn => e.message \in Messages
    BY <1>1, Numbers
  <2> QED
    BY <1>4, <2>1 DEF ShowEvent, Views
<1> QED
  BY <1>1, <1>2, <1>3, <1>4

LEMMA ViewNext ==
  ASSUME LiveInv, Next, ProjectionStep
  PROVE  view' \in Views
<1>1. view \in Views /\ projection' \in Projections
  BY DEF LiveInv, Precise, ProjectionStep
<1>2. CASE Snapshot
  BY <1>1, <1>2, SnapshotTypes DEF Snapshot
<1>3. CASE Receive
  <2>1. inbox \in Seq(Numbered) /\ inbox # << >>
    BY <1>3 DEF Receive, LiveInv, Precise
  <2>2. Head(inbox) \in Numbered
    BY <2>1
  <2>3. Head(inbox).event \in Events
    BY <2>2, EventTypes
  <2> QED
    BY <1>1, <1>3, <2>3, EventShown DEF Receive
<1>4. CASE UNCHANGED view
  BY <1>1, <1>4
<1> QED
  BY <1>2, <1>3, <1>4, Changes

Clients(n) ==
  [kind : Kinds, phase : {"new", "have", "opening", "live", "retry", "failed", "returned"},
   epoch : 0 .. n, sequence : Nat, submitted : BOOLEAN, spare : BOOLEAN]

\* A request sets where the client is, and keeps the projection of its cursor or takes a new one.
LEMMA ClientNext ==
  ASSUME LiveInv, Next, ProjectionStep
  PROVE  /\ client' \in Clients(epochs')
         /\ client'.epoch = client.epoch \/ Snapshot
         /\ client'.phase \in {"opening", "live"} => client'.epoch # 0
         /\ UNCHANGED client \/ Snapshot \/ Subscribe \/ Activate \/ Submit \/ Receive
              \/ client'.phase \notin {"opening", "live"}
<1>1. /\ epochs \in Nat /\ epochs' \in Nat /\ epochs <= epochs' /\ client \in Clients(epochs)
      /\ client.phase \in {"opening", "live"} => client.epoch # 0
      /\ projection' \in Projections /\ projection'.epoch <= epochs'
  BY DEF LiveInv, TypeOK, ProjectionStep, Clients, Cursor
<1>2. client \in Clients(epochs')
  <2>1. \A n \in 0 .. epochs : n \in 0 .. epochs'
    BY <1>1
  <2> QED
    BY <1>1, <2>1 DEF Clients
<1> DEFINE Phases == {"new", "have", "opening", "live", "retry", "failed", "returned"}
<1>3. \A ph \in Phases, spare \in BOOLEAN :
        /\ [client EXCEPT !.phase = ph, !.spare = spare] \in Clients(epochs')
        /\ [client EXCEPT !.phase = ph, !.spare = spare].epoch = client.epoch
        /\ [client EXCEPT !.phase = ph, !.spare = spare].phase = ph
  BY <1>2 DEF Clients
<1>4. AfterError \in Clients(epochs') /\ AfterError.epoch = client.epoch
      /\ AfterError.phase \in {"retry", "failed"}
  <2>1. PICK ph \in {"retry", "failed"} :
          ph = IF client.spare /\ client.submitted THEN "retry" ELSE "failed"
    OBVIOUS
  <2>2. AfterError = [client EXCEPT !.phase = ph, !.spare = client.kind # "prompt" /\ client.spare]
    BY <1>2, <2>1 DEF AfterError, Clients
  <2> QED
    BY <1>3, <2>1, <2>2
<1>5. AfterRefusal \in Clients(epochs') /\ AfterRefusal.epoch = client.epoch
      /\ AfterRefusal.phase \in {"retry", "new", "failed"}
  BY <1>2 DEF AfterRefusal, Clients
<1>6. CASE Snapshot
  <2>1. PICK ph \in {"have", "returned"} : ph = Settled(client.kind, view')
    BY DEF Settled
  <2>2. client' = [client EXCEPT !.epoch = projection'.epoch, !.sequence = projection'.sequence,
                                 !.phase = ph, !.spare = client.kind # "prompt" \/ client.spare]
    BY <1>2, <1>6, <2>1 DEF Snapshot, Clients
  <2>3. projection'.epoch \in 0 .. epochs' /\ projection'.sequence \in Nat
    BY <1>1 DEF Projections
  <2>4. client' \in Clients(epochs') /\ client'.phase = ph
    BY <1>2, <2>2, <2>3 DEF Clients
  <2> QED
    BY <1>6, <2>1, <2>4
<1>7. CASE RequestFails
  <2>1. client' = AfterError
    BY <1>7 DEF RequestFails
  <2> QED
    BY <1>4, <2>1
<1>8. CASE Subscribe
  <2>1. \/ client' = [client EXCEPT !.phase = "opening"] /\ Replayable(projection')
        \/ client' = AfterRefusal
    BY <1>8 DEF Subscribe
  <2>2. CASE client' = [client EXCEPT !.phase = "opening"] /\ Replayable(projection')
    <3>1. client' \in Clients(epochs') /\ client'.epoch = client.epoch
      BY <1>2, <2>2 DEF Clients
    <3>2. projection' = Projected /\ projection'.epoch = client.epoch
      BY <1>8, <2>2 DEF Subscribe, Replayable
    <3>3. projection'.epoch # 0
      BY <3>2, ProjectedFacts
    <3> QED
      BY <1>8, <3>1, <3>2, <3>3
  <2> QED
    BY <1>5, <1>8, <2>1, <2>2
<1>9. CASE Activate
  <2>1. client' = [client EXCEPT !.phase = "live"] /\ client.phase = "opening"
    BY <1>9 DEF Activate
  <2>2. client' \in Clients(epochs') /\ client'.epoch = client.epoch
    BY <1>2, <2>1 DEF Clients
  <2> QED
    BY <1>1, <1>9, <2>1, <2>2
<1>10. CASE Submit
  <2>1. client' = [client EXCEPT !.submitted = TRUE] /\ client.phase = "live"
    BY <1>10 DEF Submit
  <2>2. client' \in Clients(epochs') /\ client'.epoch = client.epoch
    BY <1>2, <2>1 DEF Clients
  <2> QED
    BY <1>1, <1>10, <2>1, <2>2
<1>11. CASE Receive
  <2>1. inbox \in Seq(Numbered) /\ inbox # << >> /\ client.phase = "live"
    BY <1>11 DEF Receive, LiveInv, Precise
  <2>2. Head(inbox) \in Numbered
    BY <2>1
  <2>3. Head(inbox).sequence \in Nat
    BY <2>2, EventTypes
  <2>4. \/ client' = [client EXCEPT !.sequence = Head(inbox).sequence,
                        !.phase = IF client.kind = "prompt" /\ view'.ended THEN "returned" ELSE @]
        \/ client' = [client EXCEPT !.sequence = Head(inbox).sequence,
                        !.spare = client.kind # "prompt",
                        !.phase = IF client.kind = "viewer" THEN "failed" ELSE "retry"]
    BY <1>11 DEF Receive
  <2>5. client' \in Clients(epochs') /\ client'.epoch = client.epoch
    BY <1>2, <2>3, <2>4 DEF Clients
  <2> QED
    BY <1>1, <1>11, <2>1, <2>5
<1>12. CASE StreamEnds \/ BreakStream
  <2>1. \/ client' = AfterError
        \/ \E spare \in BOOLEAN : client' = [client EXCEPT !.phase = "retry", !.spare = spare]
    BY <1>12 DEF StreamEnds, BreakStream, StreamLost
  <2>2. CASE client' = AfterError
    BY <1>4, <2>2
  <2>3. CASE \E spare \in BOOLEAN : client' = [client EXCEPT !.phase = "retry", !.spare = spare]
    <3>1. PICK spare \in BOOLEAN : client' = [client EXCEPT !.phase = "retry", !.spare = spare]
      BY <2>3
    <3>2. client' \in Clients(epochs') /\ client'.epoch = client.epoch /\ client'.phase = "retry"
      BY <1>3, <3>1
    <3> QED
      BY <3>2
  <2> QED
    BY <2>1, <2>2, <2>3
<1>13. CASE UNCHANGED client
  BY <1>1, <1>2, <1>13
<1> QED
  BY <1>6, <1>7, <1>8, <1>9, <1>10, <1>11, <1>12, <1>13, Changes

-----------------------------------------------------------------------------
(* The events on their way to the client. *)

\* Events that follow the number n without a gap, the last of them numbered `last'.
Following(q, n, last) == n + Len(q) = last /\ \A i \in DOMAIN q : q[i].sequence = n + i

LEMMA FollowingQueue ==
  ASSUME NEW q \in Seq(Numbered), NEW n \in Nat, NEW last \in Nat, Following(q, n, last)
  PROVE  /\ \A e \in Numbered : e.sequence = last + 1 =>
              Append(q, e) \in Seq(Numbered) /\ Following(Append(q, e), n, last + 1)
         /\ q # << >> => /\ Head(q) \in Numbered /\ Head(q).sequence = n + 1
                         /\ Tail(q) \in Seq(Numbered) /\ Following(Tail(q), n + 1, last)
<1>1. /\ Len(q) \in Nat /\ DOMAIN q = 1 .. Len(q) /\ n + Len(q) = last
      /\ \A i \in 1 .. Len(q) : q[i].sequence = n + i
  BY DEF Following
<1>2. ASSUME NEW e \in Numbered, e.sequence = last + 1
      PROVE  Append(q, e) \in Seq(Numbered) /\ Following(Append(q, e), n, last + 1)
  <2>1. PICK a : a = Append(q, e)
    OBVIOUS
  <2>2. /\ a \in Seq(Numbered) /\ Len(a) = Len(q) + 1 /\ DOMAIN a = 1 .. Len(q) + 1
        /\ \A i \in 1 .. Len(q) : a[i] = q[i]
        /\ a[Len(q) + 1] = e
    BY <2>1
  <2>3. Following(a, n, last + 1)
    <3>1. PICK l \in Nat : l = Len(q) /\ n + l = last
      BY <1>1
    <3>2. n + Len(a) = last + 1
      <4>1. n + (l + 1) = last + 1
        BY <3>1
      <4> QED
        BY <2>2, <3>1, <4>1, Zenon
    <3>3. ASSUME NEW i \in DOMAIN a
          PROVE  a[i].sequence = n + i
      <4>1. i \in 1 .. l + 1
        BY <2>2, <3>1, Zenon
      <4>2. i \in 1 .. l \/ i = l + 1
        BY <4>1, UpToNext, Zenon
      <4>3. CASE i \in 1 .. l
        BY <1>1, <2>2, <3>1, <4>3, Zenon
      <4>4. CASE i = l + 1
        <5>1. n + i = last + 1
          BY <3>1, <4>4
        <5> QED
          BY <1>2, <2>2, <3>1, <4>4, <5>1, Zenon
      <4> QED
        BY <4>2, <4>3, <4>4
    <3> QED
      BY <3>2, <3>3 DEF Following
  <2> QED
    BY <2>1, <2>2, <2>3
<1>3. ASSUME q # << >>
      PROVE  /\ Head(q) \in Numbered /\ Head(q).sequence = n + 1
             /\ Tail(q) \in Seq(Numbered) /\ Following(Tail(q), n + 1, last)
  <2>1. PICK t : t = Tail(q)
    OBVIOUS
  <2>2. /\ t \in Seq(Numbered) /\ Len(t) = Len(q) - 1 /\ DOMAIN t = 1 .. Len(q) - 1
        /\ \A i \in 1 .. Len(q) - 1 : t[i] = q[i + 1]
        /\ Head(q) = q[1] /\ Head(q) \in Numbered /\ Len(q) \in Nat \ {0}
    BY <1>3, <2>1
  <2>3. Head(q).sequence = n + 1
    BY <1>1, <2>2
  <2>4. ASSUME NEW i \in DOMAIN t
        PROVE  t[i].sequence = (n + 1) + i
    <3>1. i \in Nat /\ i + 1 \in 1 .. Len(q) /\ t[i] = q[i + 1]
      BY <2>2
    <3>2. q[i + 1].sequence = n + (i + 1)
      BY <1>1, <3>1
    <3> QED
      BY <3>1, <3>2
  <2>5. Following(t, n + 1, last)
    <3>1. (n + 1) + Len(t) = last
      <4>1. \A a \in Nat, b \in Nat : (a + 1) + (b - 1) = a + b
        OBVIOUS
      <4>2. (n + 1) + (Len(q) - 1) = n + Len(q)
        BY <1>1, <4>1
      <4> QED
        BY <1>1, <2>2, <4>2, Zenon
    <3> QED
      BY <2>4, <3>1 DEF Following
  <2> QED
    <3>1. Tail(q) \in Seq(Numbered)
      BY <2>1, <2>2
    <3>2. Following(Tail(q), n + 1, last)
      BY <2>1, <2>5
    <3> QED
      BY <2>2, <2>3, <3>1, <3>2
<1> QED
  BY <1>2, <1>3

\* While a stream is opened, and then while it is live.
LEMMA Coming ==
  ASSUME LiveInv
  PROVE  /\ NoEventSkipped <=>
              (Subscribed => Following(inbox \o pending, client.sequence, projection.sequence))
         /\ inbox \in Seq(Numbered) /\ pending \in Seq(Numbered)
         /\ inbox \o pending \in Seq(Numbered)
         /\ client.phase # "opening" => pending = << >> /\ inbox \o pending = inbox
         /\ Subscribed => Following(inbox \o pending, client.sequence, projection.sequence)
         /\ client.sequence \in Nat /\ projection.sequence \in Nat
<1>1. inbox \in Seq(Numbered) /\ pending \in Seq(Numbered) /\ projection.sequence \in Nat
      /\ client.sequence \in Nat
  BY DEF LiveInv, Precise, Projections, TypeOK
<1>2. inbox \o pending \in Seq(Numbered)
  BY <1>1
<1>3. client.phase # "opening" => pending = << >> /\ inbox \o pending = inbox
  BY <1>1, ConcatEmptySeq DEF LiveInv, Cursor
<1>4. NoEventSkipped <=>
        (Subscribed => Following(inbox \o pending, client.sequence, projection.sequence))
  BY DEF NoEventSkipped, Following
<1> QED
  BY <1>1, <1>2, <1>3, <1>4 DEF LiveInv

LEMMA ComingNext ==
  ASSUME LiveInv, Next, ProjectionStep
  PROVE  inbox' \in Seq(Numbered) /\ pending' \in Seq(Numbered) /\ Cursor' /\ NoEventSkipped'
<1> DEFINE Goal == /\ inbox' \in Seq(Numbered) /\ pending' \in Seq(Numbered)
                   /\ Cursor' /\ NoEventSkipped'
<1>1. /\ inbox \in Seq(Numbered) /\ pending \in Seq(Numbered)
      /\ inbox \o pending \in Seq(Numbered)
      /\ client.phase # "opening" => pending = << >> /\ inbox \o pending = inbox
      /\ Subscribed => Following(inbox \o pending, client.sequence, projection.sequence)
      /\ client.sequence \in Nat /\ projection.sequence \in Nat
  BY Coming
<1>2. /\ client'.epoch = client.epoch \/ Snapshot
      /\ client'.phase \in {"opening", "live"} => client'.epoch # 0
      /\ UNCHANGED client \/ Snapshot \/ Subscribe \/ Activate \/ Submit \/ Receive
           \/ client'.phase \notin {"opening", "live"}
  BY ClientNext
<1>3. /\ client.epoch \in 0 .. epochs /\ epochs \in Nat
      /\ client.phase \in {"opening", "live"} => client.epoch # 0
  BY DEF LiveInv, TypeOK, Cursor
<1>4. ASSUME /\ inbox' \in Seq(Numbered) /\ pending' \in Seq(Numbered)
             /\ pending' # << >> => client'.phase = "opening"
             /\ Subscribed' =>
                  Following(inbox' \o pending', client'.sequence, projection'.sequence)
      PROVE  Goal
  BY <1>2, <1>4 DEF Cursor, NoEventSkipped, Following
<1>5. << >> \in Seq(Numbered)
  OBVIOUS
\* No projection in memory, or another, has the events that the client waits for.
<1>6. ASSUME UNCHANGED client, projection'.epoch = 0 \/ (~Loaded /\ projection'.epoch = epochs + 1)
      PROVE  ~Subscribed'
  BY <1>3, <1>6 DEF Subscribed
<1>7. CASE ReceiveRecord \/ ReceiveSpooled \/ ReceiveDelta
  <2>1. UNCHANGED client
    BY <1>7, Changes DEF ReceiveRecord, ReceiveSpooled, ReceiveDelta, clientVars
  <2>2. \/ Written
        \/ /\ UNCHANGED <<inbox, pending>>
           /\ UNCHANGED projection \/ (~Loaded /\ projection'.epoch = epochs + 1)
    <3>1. CASE ReceiveDelta
      BY <3>1, ReceiveDeltaFacts
    <3>2. CASE ReceiveRecord
      <4>1. wire # << >> /\ Head(wire).type = "record" /\ Store(Head(wire).message)
        BY <3>2 DEF ReceiveRecord
      <4>2. Head(wire).message = stored + 1 /\ stored + 1 \in 1 .. EndOfTurn
        BY <4>1, HeadFacts
      <4>3. PICK r \in 1 .. EndOfTurn : r = stored + 1 /\ Store(r)
        BY <4>1, <4>2
      <4> QED
        BY <4>3, StoreFacts
    <3>3. CASE ReceiveSpooled
      <4>1. stored < made /\ Store(stored + 1)
        BY <3>3 DEF ReceiveSpooled
      <4>2. stored + 1 \in 1 .. EndOfTurn
        <5>1. stored \in Nat /\ made \in 0 .. EndOfTurn /\ EndOfTurn \in Nat
          BY Numbers DEF LiveInv, TypeOK
        <5> QED
          BY <4>1, <5>1
      <4>3. PICK r \in 1 .. EndOfTurn : r = stored + 1 /\ Store(r)
        BY <4>1, <4>2
      <4> QED
        BY <4>3, StoreFacts
    <3> QED
      BY <1>7, <3>1, <3>2, <3>3
  <2>3. CASE Written
    <3>1. PICK n \in Numbered :
            /\ n.sequence = projection.sequence + 1
            /\ \/ ~Subscribed /\ UNCHANGED <<inbox, pending>>
               \/ Subscribed /\ client.phase = "live" /\ inbox' = Append(inbox, n)
                    /\ UNCHANGED pending
               \/ Subscribed /\ client.phase = "opening" /\ pending' = Append(pending, n)
                    /\ UNCHANGED inbox
      BY <2>3 DEF Written
    <3>2. /\ projection'.epoch = projection.epoch
          /\ projection'.sequence = projection.sequence + 1
      BY <2>3 DEF Written
    <3>3. Subscribed' <=> Subscribed
      BY <2>1, <3>2 DEF Subscribed
    <3>4. CASE ~Subscribed /\ UNCHANGED <<inbox, pending>>
      BY <1>1, <1>4, <2>1, <3>3, <3>4 DEF LiveInv, Cursor
    <3>5. ASSUME Subscribed, inbox' \in Seq(Numbered), pending' \in Seq(Numbered),
                 pending' # << >> => client.phase = "opening",
                 inbox' \o pending' = Append(inbox \o pending, n)
          PROVE  Goal
      <4>1. Following(Append(inbox \o pending, n), client.sequence, projection.sequence + 1)
        BY <1>1, <3>1, <3>5, FollowingQueue
      <4> QED
        BY <1>4, <2>1, <3>2, <3>5, <4>1
    <3>6. CASE Subscribed /\ client.phase = "live" /\ inbox' = Append(inbox, n)
                 /\ UNCHANGED pending
      <4>1. Append(inbox, n) \in Seq(Numbered)
        BY <1>1
      <4>2. Append(inbox, n) \o << >> = Append(inbox, n)
        BY <4>1, ConcatEmptySeq
      <4> QED
        BY <1>1, <3>5, <3>6, <4>1, <4>2
    <3>7. CASE Subscribed /\ client.phase = "opening" /\ pending' = Append(pending, n)
                 /\ UNCHANGED inbox
      <4>1. Append(pending, n) \in Seq(Numbered)
        BY <1>1
      <4>2. inbox \o Append(pending, n) = Append(inbox \o pending, n)
        BY <1>1
      <4> QED
        BY <1>1, <3>5, <3>7, <4>1, <4>2
    <3> QED
      BY <3>1, <3>4, <3>6, <3>7
  <2>4. CASE UNCHANGED <<inbox, pending, projection>>
    <3>1. Subscribed' <=> Subscribed
      BY <2>1, <2>4 DEF Subscribed
    <3> QED
      BY <1>1, <1>4, <2>1, <2>4, <3>1 DEF LiveInv, Cursor
  <2>5. CASE UNCHANGED <<inbox, pending>> /\ ~Loaded /\ projection'.epoch = epochs + 1
    BY <1>1, <1>4, <1>6, <2>1, <2>5 DEF LiveInv, Cursor
  <2> QED
    BY <2>2, <2>3, <2>4, <2>5
<1>8. CASE Snapshot
  <2>1. /\ client'.phase \in {"have", "returned"} /\ client.phase \in {"new", "retry"}
        /\ UNCHANGED <<inbox, pending>>
    <3>1. client' = [client EXCEPT !.epoch = projection'.epoch, !.sequence = projection'.sequence,
                                   !.phase = Settled(client.kind, view'),
                                   !.spare = client.kind # "prompt" \/ @]
      BY <1>8 DEF Snapshot
    <3>2. Settled(client.kind, view') \in {"have", "returned"}
      BY DEF Settled
    <3>3. client'.phase = Settled(client.kind, view')
      BY <3>1 DEF LiveInv, TypeOK
    <3> QED
      BY <1>8, <3>2, <3>3 DEF Snapshot
  <2>2. pending = << >>
    BY <1>1, <2>1
  <2>3. ~Subscribed'
    BY <2>1 DEF Subscribed
  <2> QED
    BY <1>1, <1>4, <2>1, <2>2, <2>3
<1>9. CASE Streamless /\ client'.phase \notin {"opening", "live"}
  <2>1. ~Subscribed' /\ inbox' = << >> /\ pending' = << >>
    BY <1>9 DEF Subscribed, Streamless
  <2> QED
    BY <1>4, <1>5, <2>1
<1>10. CASE RequestFails \/ StreamEnds \/ BreakStream
  <2>1. Streamless
    BY <1>10 DEF RequestFails, StreamEnds, BreakStream, StreamLost
  <2>2. client'.phase \notin {"opening", "live"}
    <3>1. \/ client' = AfterError
          \/ \E spare \in BOOLEAN : client' = [client EXCEPT !.phase = "retry", !.spare = spare]
      BY <1>10 DEF RequestFails, StreamEnds, BreakStream, StreamLost
    <3>2. client \in Clients(epochs)
      BY DEF LiveInv, TypeOK, Clients
    <3> QED
      BY <3>1, <3>2 DEF AfterError, Clients
  <2> QED
    BY <1>9, <2>1, <2>2
<1>11. CASE Subscribe
  <2>1. CASE /\ Replayable(projection') /\ client' = [client EXCEPT !.phase = "opening"]
             /\ inbox' = Replay(projection') /\ pending' = << >>
    <3>1. /\ projection' \in Projections /\ TailOrdered(projection')
          /\ projection'.sequence \in Nat
      BY DEF ProjectionStep, Projections
    <3>2. /\ client.sequence <= projection'.sequence
          /\ client.sequence >= projection'.sequence - Len(projection'.tail)
      BY <2>1 DEF Replayable
    <3>3. inbox' = After(projection', client.sequence)
      BY <1>1, <2>1, <3>1, ReplayIsAfter
    <3>4. /\ inbox' \in Seq(Numbered) /\ Len(inbox') = projection'.sequence - client.sequence
          /\ \A i \in 1 .. projection'.sequence - client.sequence :
               inbox'[i].sequence = client.sequence + i
      BY <1>1, <3>1, <3>2, <3>3, AfterItems
    <3>5. Following(inbox', client.sequence, projection'.sequence)
      <4>1. DOMAIN inbox' = 1 .. Len(inbox')
        BY <3>4
      <4> QED
        BY <1>1, <3>1, <3>4, <4>1 DEF Following
    <3>6. inbox' \o pending' = inbox'
      BY <2>1, <3>4, ConcatEmptySeq
    <3>7. client'.sequence = client.sequence /\ client'.phase = "opening"
      BY <2>1 DEF LiveInv, TypeOK
    <3> QED
      BY <1>4, <1>5, <2>1, <3>4, <3>5, <3>6, <3>7
  <2>2. CASE client' = AfterRefusal /\ Streamless
    <3>1. client'.phase \notin {"opening", "live"}
      BY <2>2 DEF AfterRefusal, LiveInv, TypeOK
    <3> QED
      BY <1>9, <2>2, <3>1
  <2> QED
    BY <1>11, <2>1, <2>2 DEF Subscribe
<1>12. CASE Activate
  <2>1. /\ client' = [client EXCEPT !.phase = "live"] /\ client.phase = "opening" /\ Subscribed
        /\ inbox' = inbox \o pending /\ pending' = << >> /\ UNCHANGED projection
    BY <1>12 DEF Activate, planeVars
  <2>2. client'.sequence = client.sequence
    BY <2>1 DEF LiveInv, TypeOK
  <2>3. inbox' \o pending' = inbox \o pending
    BY <1>1, <2>1, ConcatEmptySeq
  <2> QED
    BY <1>1, <1>4, <1>5, <2>1, <2>2, <2>3
<1>13. CASE Submit
  <2>1. /\ client' = [client EXCEPT !.submitted = TRUE]
        /\ UNCHANGED <<projection, inbox, pending>>
    BY <1>13 DEF Submit, planeVars
  <2>2. /\ client'.sequence = client.sequence /\ client'.phase = client.phase
        /\ client'.epoch = client.epoch
    BY <2>1 DEF LiveInv, TypeOK
  <2>3. Subscribed' <=> Subscribed
    BY <2>1, <2>2 DEF Subscribed
  <2> QED
    BY <1>1, <1>4, <2>1, <2>2, <2>3 DEF LiveInv, Cursor
<1>14. CASE Receive
  <2> DEFINE e == Head(inbox)
  <2>1. /\ client.phase = "live" /\ inbox # << >> /\ UNCHANGED projection
        /\ \/ /\ client' = [client EXCEPT !.sequence = e.sequence,
                        !.phase = IF client.kind = "prompt" /\ view'.ended THEN "returned" ELSE @]
              /\ inbox' = IF client'.phase = "live" THEN Tail(inbox) ELSE << >>
              /\ pending' = << >>
           \/ /\ client' = [client EXCEPT !.sequence = e.sequence, !.spare = client.kind # "prompt",
                        !.phase = IF client.kind = "viewer" THEN "failed" ELSE "retry"]
              /\ Streamless
    BY <1>14 DEF Receive, planeVars
  <2>2. client'.sequence = e.sequence /\ client'.epoch = client.epoch
    BY <2>1 DEF LiveInv, TypeOK
  <2>3. CASE client'.phase = "live"
    <3>1. inbox' = Tail(inbox) /\ pending' = << >>
      BY <2>1, <2>3 DEF LiveInv, TypeOK
    <3>2. Tail(inbox) \in Seq(Numbered)
      BY <1>1, <2>1
    <3>3. inbox' \o pending' = Tail(inbox)
      BY <3>1, <3>2, ConcatEmptySeq
    <3>4. Subscribed' => Subscribed
      BY <2>1, <2>2 DEF Subscribed
    <3>5. Subscribed => /\ e.sequence = client.sequence + 1
                        /\ Following(Tail(inbox), client.sequence + 1, projection.sequence)
      BY <1>1, <2>1, FollowingQueue
    <3> QED
      BY <1>4, <1>5, <2>1, <2>2, <3>1, <3>2, <3>3, <3>4, <3>5
  <2>4. CASE client'.phase # "live"
    <3>1. Streamless /\ client'.phase # "opening"
      BY <2>1, <2>4 DEF LiveInv, TypeOK, Streamless
    <3> QED
      BY <1>9, <2>4, <3>1
  <2> QED
    BY <2>3, <2>4
<1>15. CASE Evict \/ PlaneStops
  <2>1. UNCHANGED <<client, inbox, pending>> /\ projection'.epoch = 0
    BY <1>15 DEF Evict, PlaneStops, clientVars, NoProjection
  <2> QED
    BY <1>1, <1>4, <1>6, <2>1 DEF LiveInv, Cursor
<1>16. CASE UNCHANGED <<client, inbox, pending, projection>>
  <2>1. Subscribed' <=> Subscribed
    BY <1>16 DEF Subscribed
  <2> QED
    BY <1>1, <1>4, <1>16, <2>1 DEF LiveInv, Cursor
<1> QED
  BY <1>7, <1>8, <1>10, <1>11, <1>12, <1>13, <1>14, <1>15, <1>16, Changes

-----------------------------------------------------------------------------
(* The invariant. *)

LEMMA FaultsNext ==
  ASSUME LiveInv, Next
  PROVE  torn' \subseteq Messages /\ faults' \in 0 .. MaxFaults
<1>1. /\ torn \subseteq Messages /\ faults \in 0 .. MaxFaults /\ MaxFaults \in Nat
      /\ projection \in Projections
  BY Numbers DEF LiveInv, TypeOK, Precise
<1>2. torn' \subseteq Messages
  <2>1. CASE Delta
    BY <1>1, <2>1 DEF Delta
  <2>2. CASE ReceiveDelta
    BY <1>1, <2>2, ReceiveDeltaFacts
  <2>3. CASE Evict
    <3>1. projection.active \in {0} \cup Messages
      BY <1>1 DEF Projections
    <3> QED
      BY <1>1, <2>3, <3>1 DEF Evict
  <2>4. CASE PlaneStops
    BY <1>1, <2>4 DEF PlaneStops
  <2>5. CASE BreakLink
    BY <1>1, <2>5 DEF BreakLink, LinkLost
  <2> QED
    BY <1>1, <2>1, <2>2, <2>3, <2>4, <2>5, Changes
<1>3. faults' \in 0 .. MaxFaults
  <2>1. faults' = faults \/ (faults < MaxFaults /\ faults' = faults + 1)
    BY Changes DEF Evict, PlaneStops, BreakLink, BreakStream
  <2> QED
    BY <1>1, <2>1
<1> QED
  BY <1>2, <1>3

\* The types of the model's own invariant follow from the precise ones.
Typed ==
  /\ made \in 0 .. EndOfTurn /\ produced \in 0 .. Thoughts + Chunks
  /\ link \in {"up", "down", "draining"} /\ plane \in {"up", "down"}
  /\ stored \in 0 .. made /\ epochs \in Nat /\ projection.epoch <= epochs
  /\ client \in Clients(epochs) /\ torn \subseteq Messages /\ faults \in 0 .. MaxFaults
  /\ Precise /\ TailOrdered(projection)
  /\ Loaded => projection.applied = stored /\ projection.active \in {0, stored + 1}

LEMMA TypesOfPrecise == Typed => TypeOK
<1> SUFFICES ASSUME Typed PROVE TypeOK
  OBVIOUS
<1>1. wire \in Seq([type : {"text", "thought", "record"}, message : 1 .. EndOfTurn, chunk : Nat])
  <2>1. PICK F : F = [type : {"text", "thought", "record"}, message : 1 .. EndOfTurn, chunk : Nat]
    OBVIOUS
  <2>2. Frames \subseteq F
    BY <2>1 DEF Frames
  <2>3. wire \in Seq(Frames)
    BY DEF Typed, Precise
  <2>4. wire \in Seq(F)
    BY <2>2, <2>3
  <2> QED
    BY <2>1, <2>4
<1>2. /\ projection.epoch \in 0 .. epochs /\ projection.tail \in Seq(Envelopes)
      /\ Len(projection.tail) <= TailSize
  BY EventTypes DEF Typed, Precise, Projections, TailOrdered
<1>3. inbox \in Seq(Envelopes) /\ pending \in Seq(Envelopes)
  BY EventTypes DEF Typed, Precise
<1>4. DOMAIN view.shown = Messages /\ view.done \subseteq Messages /\ view.ended \in BOOLEAN
  BY DEF Typed, Precise, Views
<1> QED
  BY <1>1, <1>2, <1>3, <1>4 DEF Typed, TypeOK, Clients

LEMMA InvariantInit ==
  ASSUME Init
  PROVE  LiveInv
<1>1. << >> \in Seq(Frames) /\ << >> \in Seq(Numbered) /\ << >> \in Seq(1 .. Chunks)
  OBVIOUS
<1>2. /\ made = 0 /\ produced = 0 /\ link = "up" /\ wire = << >> /\ plane = "up" /\ stored = 0
      /\ projection = NoProjection /\ epochs = 0 /\ inbox = << >> /\ pending = << >>
      /\ view = NoView /\ torn = {} /\ faults = 0
  BY DEF Init
<1>3. NoProjection \in Projections /\ NoProjection.epoch = 0 /\ TailOrdered(NoProjection)
  BY <1>1, Numbers DEF NoProjection, Projections, TailOrdered
<1>4. NoView \in Views
  BY <1>1, Numbers DEF NoView, NoText, Views
<1>5. client \in Clients(epochs) /\ client.phase = "new"
  <2>1. PICK k \in Kinds : client = [kind |-> k, phase |-> "new", epoch |-> 0, sequence |-> 0,
                                     submitted |-> k # "prompt", spare |-> k = "prompt"]
    BY DEF Init
  <2>2. PICK s \in BOOLEAN, t \in BOOLEAN : s = (k # "prompt") /\ t = (k = "prompt")
    OBVIOUS
  <2>3. client = [kind |-> k, phase |-> "new", epoch |-> 0, sequence |-> 0, submitted |-> s,
                  spare |-> t]
    BY <2>1, <2>2, Zenon
  <2>4. 0 \in 0 .. epochs
    BY <1>2
  <2> QED
    BY <2>3, <2>4 DEF Clients
<1>6. Precise
  <2>1. wire \in Seq(Frames) /\ inbox \in Seq(Numbered) /\ pending \in Seq(Numbered)
    BY <1>1, <1>2, Zenon
  <2>2. projection \in Projections /\ view \in Views
    BY <1>2, <1>3, <1>4, Zenon
  <2> QED
    BY <2>1, <2>2 DEF Precise
<1>7. OnTheWay
  BY <1>2 DEF OnTheWay
<1>8. Cursor /\ NoEventSkipped
  BY <1>2, <1>5 DEF Cursor, NoEventSkipped, Subscribed
<1>9. ~Loaded
  BY <1>2, <1>3 DEF Loaded
<1>10. /\ made \in 0 .. EndOfTurn /\ produced \in 0 .. Thoughts + Chunks /\ stored \in 0 .. made
       /\ epochs \in Nat /\ projection.epoch <= epochs
       /\ torn \subseteq Messages /\ faults \in 0 .. MaxFaults
  BY <1>2, <1>3, Numbers
<1>11. TypeOK
  BY <1>2, <1>3, <1>5, <1>6, <1>9, <1>10, TypesOfPrecise DEF Typed
<1> QED
  BY <1>2, <1>3, <1>6, <1>7, <1>8, <1>11 DEF LiveInv

LEMMA InvariantStutter ==
  ASSUME LiveInv, UNCHANGED vars
  PROVE  LiveInv'
<1>1. /\ UNCHANGED <<made, produced, link, wire, plane, stored, projection, epochs>>
      /\ UNCHANGED <<client, inbox, pending, view, torn, faults>>
  BY DEF vars, nodeVars, planeVars, clientVars
<1>2. TypeOK'
  BY <1>1 DEF LiveInv, TypeOK, Loaded
<1>3. Precise' /\ OnTheWay'
  BY <1>1 DEF LiveInv, Precise, OnTheWay
<1>4. TailOrdered(projection)' /\ Cursor'
  BY <1>1 DEF LiveInv, TailOrdered, Cursor
<1>5. NoEventSkipped'
  BY <1>1 DEF LiveInv, NoEventSkipped, Subscribed
<1> QED
  BY <1>2, <1>3, <1>4, <1>5 DEF LiveInv

LEMMA InvariantNext ==
  ASSUME LiveInv, Next
  PROVE  LiveInv'
<1>1. ProjectionStep
  BY ProjectionNext
<1>2. /\ projection' \in Projections /\ TailOrdered(projection')
      /\ epochs' \in Nat /\ projection'.epoch <= epochs'
      /\ projection'.epoch # 0 => /\ projection'.applied = stored'
                                  /\ projection'.active \in {0, stored' + 1}
  BY <1>1 DEF ProjectionStep
<1>3. /\ made' \in 0 .. EndOfTurn /\ produced' \in 0 .. Thoughts + Chunks
      /\ link' \in {"up", "down", "draining"} /\ plane' \in {"up", "down"}
      /\ wire' \in Seq(Frames) /\ stored' \in 0 .. made' /\ OnTheWay'
  BY WireNext
<1>4. client' \in Clients(epochs')
  BY <1>1, ClientNext
<1>5. inbox' \in Seq(Numbered) /\ pending' \in Seq(Numbered) /\ Cursor' /\ NoEventSkipped'
  BY <1>1, ComingNext
<1>6. torn' \subseteq Messages /\ faults' \in 0 .. MaxFaults
  BY FaultsNext
<1>7. view' \in Views
  BY <1>1, ViewNext
<1>8. Precise'
  BY <1>2, <1>3, <1>5, <1>7 DEF Precise
<1>9. TailOrdered(projection)'
  BY <1>2
<1>10. TypeOK'
  <2>1. Loaded' => projection'.applied = stored' /\ projection'.active \in {0, stored' + 1}
    BY <1>2 DEF Loaded
  <2>2. Typed'
    BY <1>2, <1>3, <1>4, <1>6, <1>8, <1>9, <2>1 DEF Typed, Clients
  <2> QED
    BY <2>2, TypesOfPrecise, PTL
<1> QED
  BY <1>3, <1>5, <1>8, <1>9, <1>10 DEF LiveInv

(***************************************************************************)
(* The invariant that the others follow from: besides the types, what is   *)
(* on the way is of the first message without a record, a tail is numbered *)
(* up to its projection's number, events are held back for a stream that   *)
(* is being opened only, and a cursor is of a projection that was made.    *)
(***************************************************************************)
THEOREM LiveInvariant == Spec => []LiveInv
<1>1. LiveInv /\ [Next]_vars => LiveInv'
  BY InvariantNext, InvariantStutter
<1> QED
  BY <1>1, InvariantInit, PTL DEF Spec

\* A projection in memory has exactly the records of the log, its active message is the next
\* one, and its tail is never longer than it may be (projection.ts:147).
THEOREM LiveTypes == Spec => []TypeOK
<1>1. LiveInv => TypeOK
  BY DEF LiveInv
<1> QED
  BY <1>1, LiveInvariant, PTL

\* Whatever is published while a stream is being opened or is open, and whenever it was replayed,
\* held back or written: a subscribed client gets every event after its cursor, once, in order.
THEOREM NoEventSkippedHolds == Spec => []NoEventSkipped
<1>1. LiveInv => NoEventSkipped
  BY DEF LiveInv
<1> QED
  BY <1>1, LiveInvariant, PTL

-----------------------------------------------------------------------------
(* That what is shown is true: the invariant.                              *)

\* Messages of which no delta was lost; a beginning of a text, the whole of which is Chunks long.
Untorn == Messages \ torn
Prefix(t) == Len(t) <= Chunks /\ \A i \in 1 .. Len(t) : t[i] = i

\* The text of the first message without a record: what the node has produced of it, and what
\* the plane has got, here of any message.
Produced == IF made > stored THEN Chunks ELSE IF produced > Thoughts THEN produced - Thoughts ELSE 0
Got(m) ==
  IF m <= stored THEN Chunks ELSE IF projection.active = m THEN Len(projection.text) ELSE 0

(***************************************************************************)
(* What the plane has not got of an untorn message is on the way, the last *)
(* delta too; of a message that the node began while the plane still       *)
(* lacked another a delta is lost, or there was none yet.                  *)
(***************************************************************************)
Sending ==
  /\ made # stored => produced = 0 \/ Streaming \in torn
  /\ \A m \in Messages : stored + 1 < m /\ m <= made => m \in torn
  /\ \A m \in Untorn : m = stored + 1 =>
       \/ Produced <= Got(m)
       \/ \E i \in DOMAIN wire : /\ wire[i].type = "text" /\ wire[i].message = m
                                 /\ wire[i].chunk = Produced
  /\ projection.active \in Untorn => Prefix(projection.text)
  /\ ~Loaded => projection.active = 0

Showing ==
  \A m \in Untorn : /\ Prefix(view.shown[m])
                    /\ m \in view.done => Len(view.shown[m]) = Chunks

\* The events a client has still to see: those on its stream, else those its cursor would have
\* replayed, if the projection is the one it knows and the tail reaches back to the cursor.
OnStream == client.phase \in {"opening", "live"}
Ahead ==
  IF OnStream THEN ToSet(inbox \o pending)
  ELSE {e \in ToSet(projection.tail) : e.sequence > client.sequence}
Reached ==
  /\ Loaded /\ client.epoch = projection.epoch
  /\ OnStream \/ client.sequence >= projection.sequence - Len(projection.tail)

IsText(e, m, k) == e.event.type = "text" /\ e.event.message = m /\ e.event.chunk = k

\* Of events C ahead, to a client that shows s chunks of message m: no chunk comes before the
\* one that it follows, and the completion not before the last one.
Flows(C, m, s) ==
  \A e \in C :
    /\ e.event.type = "text" /\ e.event.message = m =>
         \/ e.event.chunk <= s + 1
         \/ \E d \in C : IsText(d, m, e.event.chunk - 1) /\ d.sequence < e.sequence
    /\ e.event.type = "completed" /\ e.event.message = m =>
         s = Chunks \/ \E d \in C : IsText(d, m, Chunks) /\ d.sequence < e.sequence
\* And the last chunk that the plane has got is shown or comes.
Meets(C, m, s, q) == q <= s \/ \E d \in C : IsText(d, m, q)

Watching ==
  /\ OnStream => \A i \in DOMAIN (inbox \o pending) :
                   (inbox \o pending)[i].sequence = client.sequence + i
  /\ Subscribed => \A e \in ToSet(inbox \o pending), d \in ToSet(projection.tail) :
                     e.sequence = d.sequence => e = d
  /\ Loaded /\ client.epoch = projection.epoch => client.sequence <= projection.sequence
  /\ \A m \in Untorn :
       /\ OnStream \/ Reached => Flows(Ahead, m, Len(view.shown[m]))
       /\ Reached => Meets(Ahead, m, Len(view.shown[m]), Got(m))

TextInv == LiveInv /\ Sending /\ Showing /\ Watching

-----------------------------------------------------------------------------
(* Events ahead: one is published, and the first one is received.          *)

LEMMA FlowsPublished ==
  ASSUME NEW C, NEW n, NEW m, NEW s \in Nat, NEW q \in Nat, s <= Chunks,
         Flows(C, m, s), Meets(C, m, s, q), \A d \in C : d.sequence < n.sequence,
         n.event.type = "text" /\ n.event.message = m => n.event.chunk = q + 1,
         n.event.type = "completed" /\ n.event.message = m => q = Chunks
  PROVE  /\ Flows(C \cup {n}, m, s)
         /\ n.event.type = "text" /\ n.event.message = m => Meets(C \cup {n}, m, s, q + 1)
         /\ Meets(C \cup {n}, m, s, q)
<1>1. Meets(C \cup {n}, m, s, q)
  BY DEF Meets
<1>2. n.event.type = "text" /\ n.event.message = m => Meets(C \cup {n}, m, s, q + 1)
  BY DEF Meets, IsText
<1>3. ASSUME NEW e \in C, e.event.type = "text", e.event.message = m
      PROVE  \/ e.event.chunk <= s + 1
             \/ \E d \in C \cup {n} : IsText(d, m, e.event.chunk - 1) /\ d.sequence < e.sequence
  BY <1>3 DEF Flows
<1>4. ASSUME NEW e \in C, e.event.type = "completed", e.event.message = m
      PROVE  s = Chunks \/ \E d \in C \cup {n} : IsText(d, m, Chunks) /\ d.sequence < e.sequence
  BY <1>4 DEF Flows
<1>5. ASSUME n.event.type = "text", n.event.message = m
      PROVE  \/ n.event.chunk <= s + 1
             \/ \E d \in C \cup {n} : IsText(d, m, n.event.chunk - 1) /\ d.sequence < n.sequence
  <2>1. n.event.chunk = q + 1 /\ n.event.chunk - 1 = q
    BY <1>5
  <2>2. CASE q <= s
    BY <2>1, <2>2
  <2>3. CASE ~(q <= s)
    <3>1. PICK d \in C : IsText(d, m, q)
      BY <2>3 DEF Meets
    <3> QED
      BY <2>1, <3>1
  <2> QED
    BY <2>2, <2>3
<1>6. ASSUME n.event.type = "completed", n.event.message = m
      PROVE  s = Chunks \/ \E d \in C \cup {n} : IsText(d, m, Chunks) /\ d.sequence < n.sequence
  <2>1. q = Chunks
    BY <1>6
  <2>2. CASE q <= s
    BY <2>1, <2>2
  <2>3. CASE ~(q <= s)
    <3>1. PICK d \in C : IsText(d, m, q)
      BY <2>3 DEF Meets
    <3> QED
      BY <2>1, <3>1
  <2> QED
    BY <2>2, <2>3
<1>7. Flows(C \cup {n}, m, s)
  BY <1>3, <1>4, <1>5, <1>6, Zenon DEF Flows
<1> QED
  BY <1>1, <1>2, <1>7

LEMMA FlowsReceived ==
  ASSUME NEW C, C \subseteq Numbered, NEW h \in C, NEW m, NEW s \in Nat, NEW t \in Nat, s <= t, t <= Chunks,
         Flows(C, m, s), \A k \in Nat : IsText(h, m, k) => k <= t
  PROVE  /\ Flows(C \ {h}, m, t)
         /\ \A q \in Nat : Meets(C, m, s, q) => Meets(C \ {h}, m, t, q)
<1>1. \A e \in C : e.event.chunk \in Nat /\ (e.event.type = "text" => e.event.chunk \in 1 .. Chunks)
  BY EventTypes DEF Sound
<1>2. Chunks \in Nat
  BY Numbers
<1>3. ASSUME NEW e \in C \ {h}, e.event.type = "text", e.event.message = m
      PROVE  \/ e.event.chunk <= t + 1
             \/ \E d \in C \ {h} : IsText(d, m, e.event.chunk - 1) /\ d.sequence < e.sequence
  <2>1. e.event.chunk \in Nat /\ e.event.chunk - 1 \in Nat
    BY <1>1, <1>3
  <2>2. CASE e.event.chunk <= s + 1
    BY <2>1, <2>2
  <2>3. ASSUME NEW d \in C, IsText(d, m, e.event.chunk - 1), d.sequence < e.sequence
        PROVE  \/ e.event.chunk <= t + 1
               \/ \E x \in C \ {h} : IsText(x, m, e.event.chunk - 1) /\ x.sequence < e.sequence
    <3>1. CASE d = h
      <4>1. e.event.chunk - 1 <= t
        BY <2>1, <2>3, <3>1
      <4> QED
        BY <2>1, <4>1
    <3>2. CASE d # h
      BY <2>3, <3>2
    <3> QED
      BY <3>1, <3>2
  <2> QED
    BY <1>3, <2>2, <2>3 DEF Flows
<1>4. ASSUME NEW e \in C \ {h}, e.event.type = "completed", e.event.message = m
      PROVE  t = Chunks \/ \E d \in C \ {h} : IsText(d, m, Chunks) /\ d.sequence < e.sequence
  <2>1. CASE s = Chunks
    BY <1>2, <2>1
  <2>2. ASSUME NEW d \in C, IsText(d, m, Chunks), d.sequence < e.sequence
        PROVE  t = Chunks \/ \E x \in C \ {h} : IsText(x, m, Chunks) /\ x.sequence < e.sequence
    <3>1. CASE d = h
      BY <1>2, <2>2, <3>1
    <3>2. CASE d # h
      BY <2>2, <3>2
    <3> QED
      BY <3>1, <3>2
  <2> QED
    BY <1>4, <2>1, <2>2 DEF Flows
<1>5. ASSUME NEW q \in Nat, Meets(C, m, s, q)
      PROVE  Meets(C \ {h}, m, t, q)
  BY <1>5 DEF Meets
<1>6. Flows(C \ {h}, m, t)
  BY <1>3, <1>4, Zenon DEF Flows
<1> QED
  BY <1>5, <1>6

\* The events after a cursor, in the tail to which one more is published.
LEMMA PublishedItems ==
  ASSUME NEW p \in Projections, TailOrdered(p), NEW e \in Events, NEW n \in Numbered,
         n = [sequence |-> p.sequence + 1, event |-> e]
  PROVE  /\ ToSet(Publish(p, e).tail) \subseteq ToSet(p.tail) \cup {n}
         /\ \A d \in ToSet(p.tail) : d \in Numbered /\ d.sequence <= p.sequence
         /\ \A c \in Nat :
              c <= p.sequence /\ c >= Publish(p, e).sequence - Len(Publish(p, e).tail) =>
                /\ c >= p.sequence - Len(p.tail)
                /\ {d \in ToSet(Publish(p, e).tail) : d.sequence > c} =
                     {d \in ToSet(p.tail) : d.sequence > c} \cup {n}
<1> DEFINE all == Append(p.tail, n)
           q == Publish(p, e)
<1>1. /\ p.sequence \in Nat /\ p.tail \in Seq(Numbered) /\ n.sequence = p.sequence + 1
      /\ Len(p.tail) \in Nat /\ Len(p.tail) <= p.sequence /\ Len(p.tail) <= TailSize
      /\ DOMAIN p.tail = 1 .. Len(p.tail)
      /\ \A i \in 1 .. Len(p.tail) : p.tail[i].sequence = p.sequence - Len(p.tail) + i
  BY DEF Projections, TailOrdered
<1>2. /\ all \in Seq(Numbered) /\ ToSet(all) = ToSet(p.tail) \cup {n}
      /\ Len(all) = Len(p.tail) + 1
      /\ \A i \in 1 .. Len(p.tail) : all[i] = p.tail[i]
  <2>1. all \in Seq(Numbered) /\ ToSet(all) = ToSet(p.tail) \cup {n}
    BY <1>1, AppendElements
  <2> QED
    BY <1>1, <2>1
<1>3. q.sequence = p.sequence + 1 /\ q.tail = IF Len(all) > TailSize THEN Tail(all) ELSE all
  <2>1. q = [p EXCEPT !.sequence = p.sequence + 1,
                      !.tail = IF Len(all) > TailSize THEN Tail(all) ELSE all]
    BY DEF Publish, Projections
  <2> QED
    BY <2>1 DEF Projections
<1>4. \A d \in ToSet(p.tail) : d \in Numbered /\ d.sequence <= p.sequence
  <2>1. ASSUME NEW i \in 1 .. Len(p.tail)
        PROVE  p.tail[i] \in Numbered /\ p.tail[i].sequence <= p.sequence
    BY <1>1
  <2> QED
    BY <1>1, <2>1 DEF ToSet
<1> HIDE DEF q, all
<1>5. CASE ~(Len(all) > TailSize)
  <2>1. q.tail = all
    BY <1>3, <1>5
  <2>2. q.sequence - Len(q.tail) = p.sequence - Len(p.tail)
    <3>1. \A a, b \in Nat : (a + 1) - (b + 1) = a - b
      OBVIOUS
    <3>2. q.sequence = p.sequence + 1 /\ Len(q.tail) = Len(p.tail) + 1
      BY <1>2, <1>3, <2>1
    <3> QED
      BY <1>1, <3>1, <3>2
  <2>3. ASSUME NEW c \in Nat, c <= p.sequence
        PROVE  {d \in ToSet(all) : d.sequence > c} =
                 {d \in ToSet(p.tail) : d.sequence > c} \cup {n}
    <3>1. n.sequence > c
      BY <1>1, <2>3
    <3> QED
      BY <1>2, <3>1
  <2> QED
    BY <1>2, <1>4, <2>1, <2>2, <2>3 DEF q
<1>6. CASE Len(all) > TailSize
  <2>1. q.tail = Tail(all) /\ all # << >> /\ Len(p.tail) = TailSize /\ 1 \in 1 .. Len(p.tail)
    BY <1>1, <1>2, <1>3, <1>6, Numbers
  <2>2. /\ Head(all) = all[1] /\ Len(Tail(all)) = Len(p.tail)
        /\ ToSet(Tail(all)) \subseteq ToSet(all)
        /\ ToSet(all) \subseteq {Head(all)} \cup ToSet(Tail(all))
    BY <1>1, <1>2, <2>1, TailElements
  <2>3. Head(all).sequence = p.sequence - Len(p.tail) + 1
    BY <1>1, <1>2, <2>1, <2>2
  <2>4. ASSUME NEW c \in Nat, c <= p.sequence, c >= q.sequence - Len(q.tail)
        PROVE  /\ c >= p.sequence - Len(p.tail)
               /\ {d \in ToSet(q.tail) : d.sequence > c} =
                    {d \in ToSet(p.tail) : d.sequence > c} \cup {n}
    <3>1. c >= p.sequence - Len(p.tail) + 1
      BY <1>1, <1>3, <2>1, <2>2, <2>4
    <3>2. ~(Head(all).sequence > c)
      BY <1>1, <2>3, <3>1
    <3>3. {d \in ToSet(Tail(all)) : d.sequence > c} = {d \in ToSet(all) : d.sequence > c}
      BY <2>2, <3>2
    <3>4. n.sequence > c
      BY <1>1, <2>4
    <3>5. {d \in ToSet(all) : d.sequence > c} = {d \in ToSet(p.tail) : d.sequence > c} \cup {n}
      BY <1>2, <3>4
    <3> QED
      BY <1>1, <2>1, <3>1, <3>3, <3>5
  <2> QED
    BY <1>2, <1>4, <2>1, <2>2, <2>4 DEF q
<1> QED
  BY <1>5, <1>6

\* Events that follow a cursor to which the tail reaches back, if they are those of the tail.
LEMMA SameEvents ==
  ASSUME NEW s \in Seq(Numbered), NEW p \in Projections, TailOrdered(p), NEW c \in Nat,
         Following(s, c, p.sequence), c >= p.sequence - Len(p.tail),
         \A e \in ToSet(s), d \in ToSet(p.tail) : e.sequence = d.sequence => e = d
  PROVE  ToSet(s) = {d \in ToSet(p.tail) : d.sequence > c}
<1>1. PICK t \in Seq(Numbered), last \in Nat, k \in Nat :
        t = p.tail /\ last = p.sequence /\ k = p.sequence - Len(p.tail)
  BY DEF Projections, TailOrdered
<1>2. /\ k + Len(t) = last /\ k <= c /\ c <= last /\ Len(t) \in Nat /\ DOMAIN t = 1 .. Len(t)
      /\ \A i \in 1 .. Len(t) : t[i].sequence = k + i
  BY <1>1, SMTT(30) DEF Projections, TailOrdered, Following
<1>3. /\ Len(s) \in Nat /\ DOMAIN s = 1 .. Len(s) /\ c + Len(s) = last
      /\ \A i \in 1 .. Len(s) : s[i].sequence = c + i
  BY <1>1 DEF Following
<1>4. ASSUME NEW i \in 1 .. Len(s), NEW j \in 1 .. Len(t), s[i].sequence = t[j].sequence
      PROVE  s[i] = t[j]
  <2>1. s[i] \in ToSet(s) /\ t[j] \in ToSet(p.tail)
    BY <1>1, <1>2, <1>3, Zenon DEF ToSet
  <2> QED
    BY <1>4, <2>1
<1>5. ASSUME NEW i \in 1 .. Len(s)
      PROVE  \E j \in 1 .. Len(t) : s[i] = t[j] /\ t[j].sequence > c
  <2>1. PICK j \in 1 .. Len(t) : k + j = c + i
    <3>1. PICK d \in Nat : c = k + d
      <4>1. c - k \in Nat /\ c = k + (c - k)
        BY <1>2
      <4> QED
        BY <4>1
    <3>2. d + i \in 1 .. Len(t) /\ k + (d + i) = c + i
      <4>1. \A a, x, y, n, z \in Nat : (a + x) + n = a + z /\ y \in 1 .. n =>
              x + y \in 1 .. z /\ a + (x + y) = (a + x) + y
        OBVIOUS
      <4>2. (k + d) + Len(s) = k + Len(t)
        BY <1>2, <1>3, <3>1
      <4>3. i \in Nat /\ i \in 1 .. Len(s)
        BY <1>3
      <4> QED
        BY <1>2, <1>3, <3>1, <4>1, <4>2, <4>3
    <3> QED
      BY <3>2
  <2>2. t[j].sequence = c + i /\ s[i].sequence = c + i
    BY <1>2, <1>3, <2>1
  <2>3. t[j].sequence > c
    BY <2>2
  <2> QED
    BY <1>4, <2>1, <2>2, <2>3, ZenonT(30)
<1>6. ASSUME NEW j \in 1 .. Len(t), t[j].sequence > c
      PROVE  \E i \in 1 .. Len(s) : s[i] = t[j]
  <2>1. PICK i \in 1 .. Len(s) : k + j = c + i
    <3>1. k + j > c /\ k + j <= last
      BY <1>2, <1>6
    <3>2. PICK d \in Nat : k + j = c + d
      BY <3>1
    <3>3. d \in 1 .. Len(s)
      BY <1>3, <3>1, <3>2
    <3> QED
      BY <3>2, <3>3
  <2>2. s[i].sequence = t[j].sequence
    BY <1>2, <1>3, <2>1
  <2> QED
    BY <1>4, <2>2
<1>7. \A x : x \in ToSet(s) <=> x \in ToSet(t) /\ x.sequence > c
  <2>1. ASSUME NEW x \in ToSet(s)
        PROVE  x \in ToSet(t) /\ x.sequence > c
    <3>1. PICK i \in 1 .. Len(s) : x = s[i]
      BY <1>3, Zenon DEF ToSet
    <3>2. PICK j \in 1 .. Len(t) : s[i] = t[j] /\ t[j].sequence > c
      BY <1>5
    <3> QED
      BY <1>2, <3>1, <3>2, Zenon DEF ToSet
  <2>2. ASSUME NEW x \in ToSet(t), x.sequence > c
        PROVE  x \in ToSet(s)
    <3>1. PICK j \in 1 .. Len(t) : x = t[j]
      BY <1>2, Zenon DEF ToSet
    <3>2. PICK i \in 1 .. Len(s) : s[i] = t[j]
      BY <1>6, <2>2, <3>1
    <3> QED
      BY <1>3, <3>1, <3>2, Zenon DEF ToSet
  <2> QED
    BY <2>1, <2>2
<1> QED
  BY <1>1, <1>7

-----------------------------------------------------------------------------
(* What a client has still to see, after each kind of step.                *)

LEMMA TextTypes ==
  ASSUME LiveInv
  PROVE  /\ made \in Nat /\ produced \in Nat /\ stored \in Nat /\ stored <= made
         /\ projection \in Projections /\ projection.active \in {0} \cup Messages
         /\ projection.text \in Seq(1 .. Chunks) /\ Len(projection.text) \in Nat
         /\ TailOrdered(projection) /\ projection.sequence \in Nat
         /\ Loaded => /\ projection.applied = stored /\ projection.active \in {0, stored + 1}
                      /\ projection.epoch <= epochs
         /\ Subscribed => Loaded /\ OnStream
         /\ OnStream /\ ~Subscribed => client.epoch # projection.epoch
         /\ client \in Clients(epochs) /\ client.epoch \in 0 .. epochs /\ epochs \in Nat
         /\ wire \in Seq(Frames) /\ torn \subseteq Messages
         /\ \A m \in Messages : /\ view.shown[m] \in Seq(1 .. Chunks) /\ Len(view.shown[m]) \in Nat
                                /\ Got(m) \in Nat
<1>1. /\ made \in Nat /\ produced \in Nat /\ stored \in Nat /\ stored <= made
      /\ Loaded => /\ projection.applied = stored /\ projection.active \in {0, stored + 1}
                   /\ projection.epoch <= epochs
  BY Numbers DEF LiveInv, TypeOK
<1>2. /\ projection \in Projections /\ projection.active \in {0} \cup Messages
      /\ projection.text \in Seq(1 .. Chunks) /\ Len(projection.text) \in Nat
      /\ TailOrdered(projection) /\ projection.sequence \in Nat
  BY DEF LiveInv, Precise, Projections
<1>3. /\ Subscribed => Loaded /\ OnStream
      /\ OnStream /\ ~Subscribed => client.epoch # projection.epoch
  BY DEF LiveInv, Cursor, Subscribed, Loaded, OnStream
<1>4. /\ client \in Clients(epochs) /\ client.epoch \in 0 .. epochs /\ epochs \in Nat
      /\ wire \in Seq(Frames) /\ torn \subseteq Messages
  BY DEF LiveInv, TypeOK, Precise, Clients
<1>5. \A m \in Messages : /\ view.shown[m] \in Seq(1 .. Chunks) /\ Len(view.shown[m]) \in Nat
                          /\ Got(m) \in Nat
  <2>1. view \in Views /\ Chunks \in Nat
    BY Numbers DEF LiveInv, Precise
  <2>2. \A m \in Messages : view.shown[m] \in Seq(1 .. Chunks) /\ Len(view.shown[m]) \in Nat
    BY <2>1 DEF Views
  <2>3. \A m \in Messages : Got(m) \in Nat
    BY <1>2, <2>1 DEF Got
  <2> QED
    BY <2>2, <2>3
<1> QED
  BY <1>1, <1>2, <1>3, <1>4, <1>5

\* An event is published: the next chunk of the text, or a completion once all of it is there.
LEMMA WatchingPublished ==
  ASSUME TextInv, Loaded, NEW q \in Projections, TailOrdered(q), NEW e \in Events,
         q.epoch = projection.epoch, q.sequence = projection.sequence, q.tail = projection.tail,
         projection' = Publish(q, e), Deliver(projection, projection'),
         UNCHANGED <<client, view>>, torn \subseteq torn',
         \A m \in Messages \ torn' :
           /\ e.type = "text" /\ e.message = m => e.chunk = Got(m) + 1 /\ Got(m)' = Got(m) + 1
           /\ ~(e.type = "text" /\ e.message = m) => Got(m)' = Got(m)
           /\ e.type = "completed" /\ e.message = m => Got(m) = Chunks
  PROVE  Watching'
<1> DEFINE coming == inbox \o pending
           c == client.sequence
           now == projection.sequence
<1>1. PICK n \in Numbered : n = [sequence |-> now + 1, event |-> e]
  BY Published
<1>2. /\ LiveInv /\ Watching /\ Showing
      /\ projection'.sequence = now + 1 /\ projection'.epoch = projection.epoch
      /\ projection'.tail[Len(projection'.tail)] = n
      /\ ToSet(projection'.tail) \subseteq ToSet(projection.tail) \cup {n}
      /\ n.sequence = now + 1 /\ n.event = e
      /\ \A d \in ToSet(projection.tail) : d \in Numbered /\ d.sequence <= now
  BY <1>1, Published, PublishedItems DEF TextInv
<1>3. \A k \in Nat : k <= now /\ k >= projection'.sequence - Len(projection'.tail) =>
        /\ k >= now - Len(projection.tail)
        /\ {d \in ToSet(projection'.tail) : d.sequence > k} =
             {d \in ToSet(projection.tail) : d.sequence > k} \cup {n}
  BY <1>1, PublishedItems
<1>4. /\ coming \in Seq(Numbered) /\ inbox \in Seq(Numbered) /\ pending \in Seq(Numbered)
      /\ client.phase # "opening" => pending = << >>
      /\ Subscribed => Following(coming, c, now)
      /\ c \in Nat /\ now \in Nat
  BY <1>2, Coming
<1>5. /\ Subscribed' <=> Subscribed
      /\ OnStream' <=> OnStream
      /\ Loaded' /\ (Subscribed => OnStream) /\ (OnStream /\ ~Subscribed => client.epoch # projection.epoch)
  BY <1>2, TextTypes DEF Subscribed, OnStream, Loaded
<1>6. /\ Subscribed => (inbox \o pending)' = Append(coming, n)
      /\ ~Subscribed => (inbox \o pending)' = coming
  <2>1. now + 1 # now
    BY <1>4
  <2>2. \/ ~Subscribed /\ UNCHANGED <<inbox, pending>>
        \/ Subscribed /\ client.phase = "live" /\ inbox' = Append(inbox, n) /\ UNCHANGED pending
        \/ Subscribed /\ client.phase = "opening" /\ pending' = Append(pending, n) /\ UNCHANGED inbox
    BY <1>2, <2>1 DEF Deliver
  <2>3. pending = << >> => Append(inbox, n) \o pending = Append(inbox \o pending, n)
    <3>1. Append(inbox, n) \in Seq(Numbered)
      BY <1>4
    <3> QED
      BY <1>4, <3>1, ConcatEmptySeq
  <2>4. inbox \o Append(pending, n) = Append(inbox \o pending, n)
    BY <1>4
  <2> QED
    BY <1>4, <2>2, <2>3, <2>4
<1>7. Subscribed => /\ ToSet(Append(coming, n)) = ToSet(coming) \cup {n}
                    /\ Following(Append(coming, n), c, now + 1)
                    /\ Append(coming, n) \in Seq(Numbered)
  <2>1. ToSet(Append(coming, n)) = ToSet(coming) \cup {n} /\ Append(coming, n) \in Seq(Numbered)
    <3> HIDE DEF coming
    <3> QED
      BY <1>4, AppendElements
  <2>2. ASSUME Subscribed
        PROVE  Following(Append(coming, n), c, now + 1)
    <3>1. /\ coming \in Seq(Numbered) /\ c \in Nat /\ now \in Nat /\ Following(coming, c, now)
          /\ n.sequence = now + 1
      BY <1>2, <1>4, <2>2
    <3> HIDE DEF coming, c, now
    <3> QED
      BY <3>1, FollowingQueue
  <2> QED
    BY <2>1, <2>2
<1>8. ASSUME Subscribed, NEW d \in ToSet(coming)
      PROVE  d \in Numbered /\ d.sequence <= now
  <2>1. PICK i \in DOMAIN coming : d = coming[i]
    BY Zenon DEF ToSet
  <2>2. /\ DOMAIN coming = 1 .. Len(coming) /\ c + Len(coming) = now /\ coming[i].sequence = c + i
        /\ Len(coming) \in Nat
    BY <1>4, <1>8 DEF Following
  <2> QED
    BY <1>4, <2>1, <2>2
<1> HIDE DEF coming
<1>9. OnStream' => \A i \in DOMAIN (inbox \o pending)' : (inbox \o pending)'[i].sequence = client'.sequence + i
  <2>1. CASE Subscribed
    BY <1>5, <1>6, <1>7, <2>1 DEF Following
  <2>2. CASE ~Subscribed
    BY <1>2, <1>5, <1>6, <2>2 DEF Watching, coming
  <2> QED
    BY <2>1, <2>2
<1>10. Subscribed' => \A x \in ToSet(inbox \o pending)', d \in ToSet(projection.tail)' :
                        x.sequence = d.sequence => x = d
  <2> SUFFICES ASSUME Subscribed, NEW x \in ToSet(coming) \cup {n},
                      NEW d \in ToSet(projection.tail) \cup {n}, x.sequence = d.sequence
               PROVE  x = d
    BY <1>2, <1>5, <1>6, <1>7, ZenonT(40)
  <2>1. CASE x \in ToSet(coming) /\ d \in ToSet(projection.tail)
    BY <1>2, <2>1 DEF Watching, coming
  <2>2. CASE x = n
    BY <1>2, <1>4, <2>2
  <2>3. CASE d = n
    BY <1>2, <1>4, <1>8, <2>3
  <2> QED
    BY <2>1, <2>2, <2>3
<1>11. client'.epoch = projection'.epoch => client'.sequence <= projection'.sequence
  BY <1>2, <1>4 DEF Watching
<1>12. ASSUME NEW m \in Messages, m \notin torn'
       PROVE  /\ (OnStream \/ Reached)' => Flows(Ahead, m, Len(view.shown[m]))'
              /\ Reached' => Meets(Ahead, m, Len(view.shown[m]), Got(m))'
  <2> DEFINE s == Len(view.shown[m])
  <2>1. /\ s \in Nat /\ s <= Chunks /\ Got(m) \in Nat /\ m \in Untorn /\ m \notin torn
    BY <1>2, <1>12, TextTypes DEF Showing, Prefix, Untorn
  <2>2. /\ OnStream \/ Reached => Flows(Ahead, m, s)
        /\ Reached => Meets(Ahead, m, s, Got(m))
    BY <1>2, <2>1 DEF Watching
  <2>3. ASSUME Reached, Ahead' = Ahead \cup {n}, \A d \in Ahead : d.sequence <= now
        PROVE  Flows(Ahead', m, s) /\ Meets(Ahead', m, s, Got(m)')
    <3>1. \A d \in Ahead : d \in Numbered => d.sequence < n.sequence
      BY <1>2, <1>4, <2>3 DEF Numbered
    <3>2. \A d \in Ahead : d \in Numbered
      <4>1. CASE OnStream
        <5>1. Subscribed
          BY <2>3, <4>1 DEF Reached, Subscribed, OnStream
        <5>2. Ahead = ToSet(coming)
          BY <4>1 DEF Ahead, coming
        <5> QED
          BY <1>8, <5>1, <5>2
      <4>2. CASE ~OnStream
        BY <1>2, <4>2 DEF Ahead
      <4> QED
        BY <4>1, <4>2
    <3>3. Flows(Ahead, m, s) /\ Meets(Ahead, m, s, Got(m))
      BY <2>2, <2>3
    <3>4. /\ n.event.type = "text" /\ n.event.message = m => n.event.chunk = Got(m) + 1
          /\ n.event.type = "completed" /\ n.event.message = m => Got(m) = Chunks
      BY <1>2, <1>12
    <3>5. /\ Flows(Ahead \cup {n}, m, s)
          /\ n.event.type = "text" /\ n.event.message = m => Meets(Ahead \cup {n}, m, s, Got(m) + 1)
          /\ Meets(Ahead \cup {n}, m, s, Got(m))
      BY <2>1, <3>1, <3>2, <3>3, <3>4, FlowsPublished
    <3>6. Meets(Ahead \cup {n}, m, s, Got(m)')
      BY <1>2, <1>12, <3>5
    <3> QED
      BY <2>3, <3>5, <3>6
  <2>4. CASE Subscribed
    <3>1. Reached /\ Ahead = ToSet(coming) /\ Ahead' = Ahead \cup {n}
      BY <1>5, <1>6, <1>7, <2>4 DEF Reached, Ahead, Subscribed, coming
    <3> QED
      BY <1>8, <2>3, <2>4, <3>1
  <2>5. CASE OnStream /\ ~Subscribed
    <3>1. ~Reached' /\ Ahead' = Ahead
      BY <1>2, <1>5, <1>6, <2>5 DEF Reached, Ahead, coming
    <3> QED
      BY <2>2, <2>5, <3>1
  <2>6. CASE ~OnStream /\ Reached'
    <3>1. /\ client.epoch = projection.epoch /\ c <= now
          /\ c >= projection'.sequence - Len(projection'.tail)
      BY <1>2, <1>5, <2>6 DEF Reached, Watching
    <3>2. Reached
      BY <1>3, <1>4, <3>1 DEF Reached
    <3>3. Ahead' = Ahead \cup {n}
      BY <1>3, <1>4, <1>5, <2>6, <3>1 DEF Ahead
    <3>4. \A d \in Ahead : d.sequence <= now
      BY <1>2, <2>6 DEF Ahead
    <3> QED
      BY <2>3, <3>2, <3>3, <3>4
  <2> QED
    BY <1>5, <2>4, <2>5, <2>6
<1> QED
  BY <1>9, <1>10, <1>11, <1>12 DEF Watching, Untorn

\* Nothing that the client has or waits for changes, though it may be in another phase.
LEMMA WatchingKept ==
  ASSUME TextInv, UNCHANGED <<projection, stored, view>>, torn \subseteq torn',
         client'.epoch = client.epoch, client'.sequence = client.sequence,
         OnStream' <=> OnStream, (inbox \o pending)' = inbox \o pending
  PROVE  Watching'
<1>1. Subscribed' <=> Subscribed
  BY DEF Subscribed, OnStream
<1>2. Watching /\ Ahead' = Ahead /\ (Reached' <=> Reached) /\ (Loaded' <=> Loaded)
  BY DEF TextInv, Ahead, Reached, Loaded
<1>3. \A m \in Untorn' : m \in Untorn
  BY DEF Untorn
<1>4. \A m : Got(m)' = Got(m)
  BY DEF Got
<1>5. \A m \in Untorn' :
        /\ (OnStream \/ Reached)' => Flows(Ahead, m, Len(view.shown[m]))'
        /\ Reached' => Meets(Ahead, m, Len(view.shown[m]), Got(m))'
  <2> TAKE m \in Untorn'
  <2>1. /\ OnStream \/ Reached => Flows(Ahead, m, Len(view.shown[m]))
        /\ Reached => Meets(Ahead, m, Len(view.shown[m]), Got(m))
    BY <1>2, <1>3 DEF Watching
  <2> QED
    BY <1>2, <1>4, <2>1
<1> QED
  BY <1>1, <1>2, <1>5 DEF Watching

\* The projection is gone, or it is a new one.
LEMMA WatchingFresh ==
  ASSUME TextInv, projection'.epoch = 0 \/ projection'.epoch = epochs + 1,
         UNCHANGED view, torn \subseteq torn',
         client'.epoch = client.epoch, client'.sequence = client.sequence,
         ~OnStream' \/ (OnStream /\ (inbox \o pending)' = inbox \o pending)
  PROVE  Watching'
<1>1. /\ Watching /\ client.epoch \in 0 .. epochs /\ epochs \in Nat
      /\ OnStream => client.epoch # 0
  BY TextTypes DEF TextInv, LiveInv, Cursor, OnStream
<1>2. ~Reached' /\ ~Subscribed' /\ ~(Loaded' /\ client'.epoch = projection'.epoch)
  BY <1>1 DEF Reached, Subscribed, Loaded, OnStream
<1>3. ASSUME OnStream'
      PROVE  /\ OnStream /\ Ahead' = Ahead
             /\ \A i \in DOMAIN (inbox \o pending)' :
                  (inbox \o pending)'[i].sequence = client'.sequence + i
  BY <1>1, <1>3 DEF Ahead, Watching
<1>4. \A m \in Untorn' : OnStream' => Flows(Ahead, m, Len(view.shown[m]))'
  BY <1>1, <1>3 DEF Watching, Untorn
<1> QED
  BY <1>2, <1>3, <1>4 DEF Watching

\* The stream is broken, or what was asked for is refused.
LEMMA WatchingLeft ==
  ASSUME TextInv, UNCHANGED <<projection, stored, view, torn>>,
         client'.epoch = client.epoch, client'.sequence = client.sequence, ~OnStream'
  PROVE  Watching'
<1>1. /\ Watching /\ inbox \o pending \in Seq(Numbered) /\ client.sequence \in Nat
      /\ Subscribed => Following(inbox \o pending, client.sequence, projection.sequence)
      /\ projection \in Projections /\ TailOrdered(projection)
  BY Coming, TextTypes DEF TextInv
<1>2. ~Subscribed' /\ (Loaded' <=> Loaded)
  BY DEF Subscribed, OnStream, Loaded
<1>3. Reached' => Reached /\ Ahead' = Ahead
  <2> SUFFICES ASSUME Reached' PROVE Reached /\ Ahead' = Ahead
    OBVIOUS
  <2>1. /\ Reached /\ client.sequence >= projection.sequence - Len(projection.tail)
        /\ Loaded /\ client.epoch = projection.epoch
    BY <1>2 DEF Reached
  <2>2. Ahead' = {d \in ToSet(projection.tail) : d.sequence > client.sequence}
    BY DEF Ahead
  <2>3. CASE OnStream
    <3>1. Subscribed
      BY <2>1, <2>3 DEF Subscribed, OnStream
    <3>2. ToSet(inbox \o pending) = {d \in ToSet(projection.tail) : d.sequence > client.sequence}
      BY <1>1, <2>1, <3>1, SameEvents DEF Watching
    <3> QED
      BY <2>1, <2>2, <2>3, <3>2 DEF Ahead
  <2>4. CASE ~OnStream
    BY <2>1, <2>2, <2>4 DEF Ahead
  <2> QED
    BY <2>3, <2>4
<1>4. \A m \in Untorn' :
        /\ Reached' => Flows(Ahead, m, Len(view.shown[m]))'
        /\ Reached' => Meets(Ahead, m, Len(view.shown[m]), Got(m))'
  <2> TAKE m \in Untorn'
  <2>1. m \in Untorn /\ Got(m)' = Got(m)
    BY DEF Untorn, Got
  <2>2. Reached => /\ Flows(Ahead, m, Len(view.shown[m]))
                   /\ Meets(Ahead, m, Len(view.shown[m]), Got(m))
    BY <1>1, <2>1 DEF Watching
  <2> QED
    BY <1>3, <2>1, <2>2
<1> QED
  BY <1>1, <1>2, <1>4 DEF Watching

\* The stream is opened: what is replayed is what the tail has after the cursor.
LEMMA WatchingOpened ==
  ASSUME TextInv, ~OnStream, Subscribe, Replayable(projection'),
         client' = [client EXCEPT !.phase = "opening"], inbox' = Replay(projection'),
         pending' = << >>
  PROVE  Watching'
<1> DEFINE c == client.sequence
<1>1. /\ Watching /\ c \in Nat /\ client \in Clients(epochs) /\ client.epoch \in 0 .. epochs
      /\ epochs \in Nat /\ projection \in Projections /\ TailOrdered(projection)
      /\ projection.sequence \in Nat
  BY Coming, TextTypes DEF TextInv
<1>2. /\ projection' = Projected /\ UNCHANGED <<stored, view, torn>>
      /\ client'.epoch = client.epoch /\ client'.sequence = c /\ OnStream'
  BY <1>1 DEF Subscribe, Clients, OnStream
<1>3. Loaded /\ projection' = projection
  BY <1>1, <1>2, ProjectedFacts DEF TextInv, Replayable
<1>4. /\ client.epoch = projection.epoch /\ c <= projection.sequence
      /\ c >= projection.sequence - Len(projection.tail)
  BY <1>3 DEF Replayable
<1>5. inbox' = After(projection, c)
  BY <1>1, <1>3, ReplayIsAfter
<1>6. /\ inbox' \in Seq(Numbered) /\ Len(inbox') = projection.sequence - c
      /\ DOMAIN inbox' = 1 .. projection.sequence - c
      /\ \A i \in 1 .. projection.sequence - c :
           /\ inbox'[i] = projection.tail[c - (projection.sequence - Len(projection.tail)) + i]
           /\ inbox'[i].sequence = c + i
  <2>1. /\ After(projection, c) \in Seq(Numbered) /\ Len(After(projection, c)) = projection.sequence - c
        /\ \A i \in 1 .. projection.sequence - c :
             /\ After(projection, c)[i] =
                  projection.tail[c - (projection.sequence - Len(projection.tail)) + i]
             /\ After(projection, c)[i].sequence = c + i
    BY <1>1, <1>4, AfterItems
  <2> QED
    BY <1>5, <2>1
<1>7. Following(inbox', c, projection.sequence)
  BY <1>1, <1>4, <1>6 DEF Following
<1>8. (inbox \o pending)' = inbox'
  BY <1>6, ConcatEmptySeq
<1>9. /\ DOMAIN projection.tail = 1 .. Len(projection.tail) /\ Len(projection.tail) \in Nat
      /\ \A j \in 1 .. Len(projection.tail) :
           projection.tail[j].sequence = projection.sequence - Len(projection.tail) + j
  BY <1>1 DEF TailOrdered, Projections
<1>10. \A x \in ToSet(inbox'), d \in ToSet(projection.tail) : x.sequence = d.sequence => x = d
  <2>1. PICK k \in Nat : k = projection.sequence - Len(projection.tail) /\ c >= k
    BY <1>1, <1>4, <1>9 DEF TailOrdered
  <2>2. ASSUME NEW i \in DOMAIN inbox', NEW j \in DOMAIN projection.tail,
               inbox'[i].sequence = projection.tail[j].sequence
        PROVE  inbox'[i] = projection.tail[j]
    <3>1. i \in 1 .. projection.sequence - c /\ j \in 1 .. Len(projection.tail)
      BY <1>6, <1>9
    <3>2. inbox'[i] = projection.tail[c - k + i] /\ inbox'[i].sequence = c + i
      BY <1>6, <2>1, <3>1
    <3>3. projection.tail[j].sequence = k + j
      BY <1>9, <2>1, <3>1
    <3>4. i \in Nat /\ j \in Nat /\ c + i = k + j
      BY <2>2, <3>1, <3>2, <3>3
    <3>5. c - k + i = j
      <4>1. \A a, b, x, y \in Nat : a + x = b + y => a - b + x = y
        OBVIOUS
      <4> QED
        BY <1>1, <2>1, <3>4, <4>1
    <3> QED
      BY <3>2, <3>5
  <2>3. ASSUME NEW x \in ToSet(inbox'), NEW d \in ToSet(projection.tail), x.sequence = d.sequence
        PROVE  x = d
    <3>1. PICK i \in DOMAIN inbox' : x = inbox'[i]
      BY Zenon DEF ToSet
    <3>2. PICK j \in DOMAIN projection.tail : d = projection.tail[j]
      BY Zenon DEF ToSet
    <3> QED
      BY <2>2, <2>3, <3>1, <3>2
  <2> QED
    BY <2>3
<1>11. ToSet(inbox') = {d \in ToSet(projection.tail) : d.sequence > c}
  BY <1>1, <1>4, <1>6, <1>7, <1>10, SameEvents, ZenonT(40)
<1>12. Reached /\ Ahead' = Ahead
  BY <1>2, <1>3, <1>4, <1>8, <1>11 DEF Reached, Ahead
<1>13. \A m \in Untorn' :
         /\ Flows(Ahead, m, Len(view.shown[m]))'
         /\ Meets(Ahead, m, Len(view.shown[m]), Got(m))'
  <2> TAKE m \in Untorn'
  <2>1. m \in Untorn /\ Got(m)' = Got(m)
    BY <1>2, <1>3 DEF Untorn, Got
  <2>2. Flows(Ahead, m, Len(view.shown[m])) /\ Meets(Ahead, m, Len(view.shown[m]), Got(m))
    BY <1>1, <1>12, <2>1 DEF Watching
  <2> QED
    BY <1>2, <1>12, <2>1, <2>2
<1>14. \A i \in DOMAIN (inbox \o pending)' : (inbox \o pending)'[i].sequence = client'.sequence + i
  BY <1>2, <1>6, <1>8
<1> QED
  BY <1>2, <1>3, <1>4, <1>8, <1>10, <1>13, <1>14 DEF Watching

-----------------------------------------------------------------------------
(* What the client shows. *)

LEMMA ShowText ==
  ASSUME NEW v \in Views, NEW m \in Messages, NEW offset \in Nat, NEW text \in Seq(1 .. Chunks),
         offset <= Len(v.shown[m]), Prefix(v.shown[m]), offset + Len(text) <= Chunks,
         \A i \in 1 .. Len(text) : text[i] = offset + i
  PROVE  /\ Prefix(Show(v, m, offset, text).shown[m])
         /\ Len(Show(v, m, offset, text).shown[m]) =
              IF offset + Len(text) <= Len(v.shown[m]) THEN Len(v.shown[m]) ELSE offset + Len(text)
         /\ \A x \in Messages \ {m} : Show(v, m, offset, text).shown[x] = v.shown[x]
         /\ Show(v, m, offset, text).done = v.done
<1> DEFINE seen == Len(v.shown[m])
           more == SubSeq(text, seen - offset + 1, Len(text))
<1>1. /\ v.shown \in [Messages -> Seq(1 .. Chunks)] /\ v.shown[m] \in Seq(1 .. Chunks)
      /\ seen \in Nat /\ Len(text) \in Nat /\ Chunks \in Nat
  <2>1. v.shown \in [Messages -> Seq(1 .. Chunks)]
    BY DEF Views
  <2>2. v.shown[m] \in Seq(1 .. Chunks)
    BY <2>1
  <2>3. seen \in Nat /\ Len(text) \in Nat
    BY <2>2
  <2> QED
    BY <2>1, <2>2, <2>3, Numbers
<1>2. CASE offset + Len(text) <= seen
  BY <1>1, <1>2 DEF Show
<1>3. CASE ~(offset + Len(text) <= seen)
  <2>1. PICK k \in Nat : k = seen - offset /\ k <= Len(text)
    <3>1. seen - offset \in Nat /\ seen - offset <= Len(text)
      BY <1>1, <1>3
    <3> QED
      BY <3>1
  <2>2. /\ more \in Seq(1 .. Chunks) /\ Len(more) = Len(text) - k
        /\ \A i \in 1 .. Len(text) - k : more[i] = text[k + i]
    <3>1. PICK S : S = 1 .. Chunks
      OBVIOUS
    <3>2. \A s \in Seq(S), j \in Nat : j <= Len(s) =>
            /\ SubSeq(s, j + 1, Len(s)) \in Seq(S) /\ Len(SubSeq(s, j + 1, Len(s))) = Len(s) - j
            /\ \A i \in 1 .. Len(s) - j : SubSeq(s, j + 1, Len(s))[i] = s[j + i]
      OBVIOUS
    <3>3. more = SubSeq(text, k + 1, Len(text))
      BY <2>1, Zenon
    <3>4. text \in Seq(S)
      BY <3>1
    <3> QED
      BY <2>1, <3>1, <3>2, <3>3, <3>4
  <2>3. ASSUME NEW i \in 1 .. Len(text) - k
        PROVE  more[i] = seen + i
    <3>1. k + i \in 1 .. Len(text) /\ i \in Nat
      BY <1>1, <2>1
    <3>2. more[i] = offset + (k + i)
      BY <2>2, <3>1
    <3> QED
      BY <1>1, <2>1, <3>1, <3>2
  <2> HIDE DEF more
  <2>4. PICK t \in Seq(1 .. Chunks) : t = v.shown[m] \o more
    <3>1. more \in Seq(1 .. Chunks)
      BY <2>2
    <3>2. v.shown[m] \o more \in Seq(1 .. Chunks)
      BY <1>1, <3>1
    <3> QED
      BY <3>2
  <2>5. /\ Len(t) = seen + Len(more)
        /\ \A i \in 1 .. seen : t[i] = v.shown[m][i]
        /\ \A i \in 1 .. Len(more) : t[seen + i] = more[i]
    <3>1. \A S : \A x, y \in Seq(S) :
            /\ Len(x \o y) = Len(x) + Len(y) /\ \A i \in 1 .. Len(x) : (x \o y)[i] = x[i]
            /\ \A i \in 1 .. Len(y) : (x \o y)[Len(x) + i] = y[i]
      OBVIOUS
    <3>2. v.shown[m] \in Seq(1 .. Chunks) /\ more \in Seq(1 .. Chunks)
      BY <1>1, <2>2
    <3>3. /\ Len(v.shown[m] \o more) = Len(v.shown[m]) + Len(more)
          /\ \A i \in 1 .. Len(v.shown[m]) : (v.shown[m] \o more)[i] = v.shown[m][i]
          /\ \A i \in 1 .. Len(more) : (v.shown[m] \o more)[Len(v.shown[m]) + i] = more[i]
      BY <3>1, <3>2
    <3> QED
      BY <2>4, <3>3
  <2>6. Len(t) = offset + Len(text)
    <3>1. Len(t) = seen + (Len(text) - k)
      BY <2>2, <2>5
    <3> QED
      BY <1>1, <2>1, <3>1
  <2>7. ASSUME NEW i \in 1 .. Len(t)
        PROVE  t[i] = i
    <3>1. CASE i <= seen
      <4>1. i \in 1 .. seen
        BY <1>1, <3>1
      <4> QED
        BY <2>5, <4>1 DEF Prefix
    <3>2. CASE ~(i <= seen)
      <4>1. PICK j \in 1 .. Len(text) - k : i = seen + j
        <5>1. i - seen \in 1 .. Len(text) - k /\ i = seen + (i - seen)
          BY <1>1, <2>1, <2>2, <2>5, <3>2
        <5> QED
          BY <5>1
      <4> QED
        BY <2>2, <2>3, <2>5, <4>1
    <3> QED
      BY <3>1, <3>2
  <2>8. Show(v, m, offset, text) = [v EXCEPT !.shown[m] = t]
    BY <1>3, <2>4 DEF Show, more, Views
  <2>9. /\ Show(v, m, offset, text).shown[m] = t /\ Show(v, m, offset, text).done = v.done
        /\ \A x \in Messages \ {m} : Show(v, m, offset, text).shown[x] = v.shown[x]
    BY <1>1, <2>8 DEF Views
  <2> QED
    BY <1>3, <2>6, <2>7, <2>9 DEF Prefix
<1> QED
  BY <1>2, <1>3

LEMMA EventText ==
  ASSUME NEW v \in Views, NEW e \in Events, ~Unshowable(v, e), NEW m \in Messages,
         Prefix(v.shown[m])
  PROVE  /\ Prefix(ShowEvent(v, e).shown[m])
         /\ Len(v.shown[m]) <= Len(ShowEvent(v, e).shown[m])
         /\ e.type = "text" /\ e.message = m => e.chunk <= Len(ShowEvent(v, e).shown[m])
         /\ m \in ShowEvent(v, e).done =>
              m \in v.done \/ (e.type = "completed" /\ e.message = m)
<1>1. /\ e.type \in {"text", "thought", "completed"} /\ e.message \in 1 .. EndOfTurn
      /\ e.chunk \in Nat /\ (e.type \in {"text", "thought"} => e.message \in Messages)
      /\ (e.type = "text" => e.chunk \in 1 .. Chunks)
      /\ v.shown[m] \in Seq(1 .. Chunks) /\ Len(v.shown[m]) \in Nat
  BY EventTypes DEF Sound, Views
<1>2. CASE e.type = "text"
  <2>1. PICK offset \in Nat : offset = e.chunk - 1
    BY <1>1, <1>2
  <2>2. /\ <<e.chunk>> \in Seq(1 .. Chunks) /\ Len(<<e.chunk>>) = 1
        /\ offset + Len(<<e.chunk>>) = e.chunk
        /\ \A i \in 1 .. Len(<<e.chunk>>) : <<e.chunk>>[i] = offset + i
    BY <1>1, <1>2, <2>1
  <2>3. offset <= Len(v.shown[e.message])
    <3>1. v.shown[e.message] \in Seq(1 .. Chunks) /\ ~Gap(v, e.message, offset)
      BY <1>1, <1>2, <2>1 DEF Views, Unshowable
    <3> QED
      BY <3>1 DEF Gap
  <2>4. ShowEvent(v, e) = Show(v, e.message, offset, <<e.chunk>>)
    BY <1>2, <2>1 DEF ShowEvent
  <2>5. CASE e.message = m
    <3>1. e.chunk <= Chunks
      BY <1>1, <1>2, Numbers
    <3>2. /\ ShowEvent(v, e) = Show(v, m, offset, <<e.chunk>>) /\ offset <= Len(v.shown[m])
          /\ offset + Len(<<e.chunk>>) <= Chunks
      BY <2>2, <2>3, <2>4, <2>5, <3>1
    <3>3. /\ Prefix(Show(v, m, offset, <<e.chunk>>).shown[m])
          /\ Show(v, m, offset, <<e.chunk>>).done = v.done
          /\ Len(Show(v, m, offset, <<e.chunk>>).shown[m]) =
               IF offset + Len(<<e.chunk>>) <= Len(v.shown[m]) THEN Len(v.shown[m])
               ELSE offset + Len(<<e.chunk>>)
      BY <2>2, <3>2, ShowText
    <3>4. /\ Prefix(ShowEvent(v, e).shown[m]) /\ ShowEvent(v, e).done = v.done
          /\ Len(ShowEvent(v, e).shown[m]) =
               IF e.chunk <= Len(v.shown[m]) THEN Len(v.shown[m]) ELSE e.chunk
      BY <2>2, <3>2, <3>3, Zenon
    <3> QED
      BY <1>1, <3>4
  <2>6. CASE e.message # m
    <3>1. ShowEvent(v, e).shown[m] = v.shown[m] /\ ShowEvent(v, e).done = v.done
      BY <1>1, <1>2, <2>4, <2>6 DEF Show, Views
    <3> QED
      BY <1>1, <2>6, <3>1
  <2> QED
    BY <2>5, <2>6
<1>3. CASE e.type = "thought"
  <2>1. ShowEvent(v, e).shown = v.shown /\ ShowEvent(v, e).done = v.done
    BY <1>3 DEF ShowEvent, Views
  <2> QED
    BY <1>1, <1>3, <2>1
<1>4. CASE e.type = "completed"
  <2>1. ShowEvent(v, e).shown = v.shown /\ ShowEvent(v, e).done \subseteq v.done \cup {e.message}
    BY <1>4 DEF ShowEvent, Views
  <2> QED
    BY <1>1, <1>4, <2>1
<1> QED
  BY <1>1, <1>2, <1>3, <1>4

\* The first event that comes is shown, or if it cannot be is of a message some of which is lost.
LEMMA ReceiveText ==
  ASSUME TextInv, LiveInv', Receive
  PROVE  Showing' /\ Watching'
<1> DEFINE h == Head(inbox)
           c == client.sequence
<1>1. /\ Watching /\ Showing /\ inbox \in Seq(Numbered) /\ inbox # << >>
      /\ c \in Nat /\ client \in Clients(epochs) /\ client.phase = "live" /\ OnStream
      /\ pending = << >> /\ inbox \o pending = inbox /\ view \in Views
      /\ projection \in Projections /\ TailOrdered(projection) /\ projection.sequence \in Nat
      /\ UNCHANGED <<projection, stored, torn>>
      /\ Subscribed => Following(inbox, c, projection.sequence)
  BY Coming, TextTypes DEF TextInv, Receive, planeVars, LiveInv, Precise, OnStream
<1>2. PICK t \in Seq(Numbered) : t = Tail(inbox)
  BY <1>1, TailElements
<1>3. /\ h \in Numbered /\ h.event \in Events /\ h.sequence \in Nat /\ h \in ToSet(inbox)
      /\ ToSet(t) \subseteq ToSet(inbox) /\ ToSet(inbox) \subseteq {h} \cup ToSet(t)
  BY <1>1, <1>2, TailElements, EventTypes
<1>4. /\ h.sequence = c + 1 /\ \A i \in DOMAIN t : t[i].sequence = (c + 1) + i
  <2>1. /\ \A i \in 1 .. Len(inbox) : inbox[i].sequence = c + i
        /\ h = inbox[1] /\ Len(inbox) \in Nat \ {0} /\ Len(t) = Len(inbox) - 1
        /\ DOMAIN t = 1 .. Len(t) /\ \A i \in 1 .. Len(t) : t[i] = inbox[i + 1]
    BY <1>1, <1>2 DEF Watching
  <2>2. ASSUME NEW i \in DOMAIN t
        PROVE  t[i].sequence = (c + 1) + i
    <3>1. i \in Nat /\ i + 1 \in 1 .. Len(inbox) /\ t[i] = inbox[i + 1]
      BY <2>1
    <3>2. t[i].sequence = c + (i + 1)
      BY <2>1, <3>1
    <3>3. c + (i + 1) = (c + 1) + i
      BY <1>1, <3>1, PlusNext, Zenon
    <3> QED
      BY <3>2, <3>3, Zenon
  <2> QED
    BY <2>1, <2>2
<1>5. ToSet(t) = ToSet(inbox) \ {h} /\ \A d \in ToSet(inbox) : ~(d.sequence < h.sequence)
  <2>1. \A d \in ToSet(t) : d.sequence > h.sequence
    <3>1. ASSUME NEW i \in DOMAIN t
          PROVE  t[i].sequence > h.sequence
      BY <1>1, <1>2, <1>4
    <3> QED
      BY <3>1 DEF ToSet
  <2>2. h \notin ToSet(t)
    BY <1>3, <2>1
  <2>3. \A d \in ToSet(t) : d \in Numbered
    BY <1>2 DEF ToSet
  <2> QED
    BY <1>3, <2>1, <2>2, <2>3 DEF Numbered
<1> HIDE DEF h, c
<1>6. /\ client'.sequence = h.sequence /\ client'.epoch = client.epoch
      /\ client'.phase = "live" => inbox' = t /\ pending' = << >>
      /\ client'.phase # "live" => ~OnStream'
      /\ \/ ~Unshowable(view, h.event) /\ view' = ShowEvent(view, h.event)
         \/ Unshowable(view, h.event) /\ view' = view
  BY <1>1, <1>2 DEF Receive, Clients, OnStream, h
<1>7. Reached' => Reached
  BY <1>1, <1>3, <1>6 DEF Reached, Loaded
<1>8. OnStream' \/ Reached' => Ahead' = ToSet(inbox) \ {h}
  <2>1. CASE OnStream'
    <3>1. (inbox \o pending)' = t
      BY <1>2, <1>6, <2>1, ConcatEmptySeq
    <3> QED
      BY <1>5, <2>1, <3>1 DEF Ahead
  <2>2. CASE ~OnStream' /\ Reached'
    <3>1. Subscribed
      BY <1>1, <1>7, <2>2 DEF Reached, Subscribed
    <3>2. Following(inbox, c, projection.sequence)
      BY <1>1, <3>1 DEF c
    <3>3. Following(t, c + 1, projection.sequence)
      BY <1>1, <1>2, <3>2, FollowingQueue DEF c
    <3>4. c + 1 \in Nat /\ c + 1 >= projection.sequence - Len(projection.tail)
      BY <1>1, <1>4, <1>6, <2>2 DEF Reached, c
    <3>5. \A x \in ToSet(t), d \in ToSet(projection.tail) : x.sequence = d.sequence => x = d
      BY <1>1, <1>3, <3>1 DEF Watching
    <3>6. ToSet(t) = {d \in ToSet(projection.tail) : d.sequence > c + 1}
      BY <1>1, <3>3, <3>4, <3>5, SameEvents
    <3> QED
      BY <1>1, <1>4, <1>5, <1>6, <2>2, <3>6 DEF Ahead
  <2> QED
    BY <2>1, <2>2
<1>9. ASSUME NEW m \in Untorn'
      PROVE  /\ Prefix(view'.shown[m]) /\ (m \in view'.done => Len(view'.shown[m]) = Chunks)
             /\ OnStream' \/ Reached' => Flows(Ahead', m, Len(view'.shown[m]))
             /\ Reached' => Meets(Ahead', m, Len(view'.shown[m]), Got(m)')
  <2> DEFINE s == Len(view.shown[m])
             u == Len(view'.shown[m])
  <2>1. /\ m \in Untorn /\ m \in Messages /\ m \notin torn /\ s \in Nat /\ Got(m) \in Nat
        /\ Got(m)' = Got(m) /\ u \in Nat
        /\ Prefix(view.shown[m]) /\ (m \in view.done => s = Chunks)
    <3>1. m \in Untorn /\ m \in Messages /\ m \notin torn /\ Got(m)' = Got(m)
      BY <1>1 DEF Untorn, Got
    <3>2. view'.shown[m] \in Seq(1 .. Chunks)
      BY <3>1 DEF LiveInv, Precise, Views
    <3>3. view.shown[m] \in Seq(1 .. Chunks) /\ Got(m) \in Nat
      BY <3>1, TextTypes DEF TextInv, LiveInv, Precise, Views
    <3>4. Prefix(view.shown[m]) /\ (m \in view.done => s = Chunks)
      BY <1>1, <3>1 DEF Showing
    <3>5. s \in Nat /\ u \in Nat
      BY <3>2, <3>3
    <3> QED
      BY <3>1, <3>3, <3>4, <3>5
  <2>2. Flows(ToSet(inbox), m, s) /\ (Reached => Meets(ToSet(inbox), m, s, Got(m)))
    BY <1>1, <2>1 DEF Watching, Ahead
  <2>3. /\ h.event.type = "text" /\ h.event.message = m => h.event.chunk <= s + 1
        /\ h.event.type = "completed" /\ h.event.message = m => s = Chunks
    BY <1>3, <1>5, <2>2, Zenon DEF Flows
  <2>4. /\ Prefix(view'.shown[m]) /\ s <= u
        /\ h.event.type = "text" /\ h.event.message = m => h.event.chunk <= u
        /\ m \in view'.done => u = Chunks
    <3>1. CASE ~Unshowable(view, h.event) /\ view' = ShowEvent(view, h.event)
      <4>1. /\ Prefix(view'.shown[m]) /\ s <= u
            /\ h.event.type = "text" /\ h.event.message = m => h.event.chunk <= u
            /\ m \in view'.done => \/ m \in view.done
                                   \/ h.event.type = "completed" /\ h.event.message = m
        BY <1>1, <1>3, <2>1, <3>1, EventText
      <4> QED
        BY <2>1, <2>3, <4>1, Numbers DEF Prefix
    <3>2. CASE Unshowable(view, h.event) /\ view' = view
      <4>1. ~(h.event.type = "text" /\ h.event.message = m)
        <5> SUFFICES ASSUME h.event.type = "text", h.event.message = m PROVE FALSE
          OBVIOUS
        <5>1. h.event.chunk \in Nat /\ h.event.chunk - 1 > s
          BY <1>3, <3>2, EventTypes DEF Unshowable, Gap
        <5> QED
          BY <2>1, <2>3, <5>1
      <4> QED
        BY <2>1, <3>2, <4>1
    <3> QED
      BY <1>6, <3>1, <3>2
  <2>5. /\ Flows(ToSet(inbox) \ {h}, m, u)
        /\ \A q \in Nat : Meets(ToSet(inbox), m, s, q) => Meets(ToSet(inbox) \ {h}, m, u, q)
    <3>1. \A k \in Nat : IsText(h, m, k) => k <= u
      BY <2>4 DEF IsText
    <3>2. ToSet(inbox) \subseteq Numbered
      BY <1>1 DEF ToSet
    <3>3. u <= Chunks
      BY <2>4 DEF Prefix
    <3> HIDE DEF s, u
    <3> QED
      BY <1>3, <2>1, <2>2, <2>4, <3>1, <3>2, <3>3, FlowsReceived
  <2> QED
    BY <1>7, <1>8, <2>1, <2>2, <2>4, <2>5
<1>10. OnStream' => \A i \in DOMAIN (inbox \o pending)' :
                      (inbox \o pending)'[i].sequence = client'.sequence + i
  <2> SUFFICES ASSUME OnStream'
               PROVE  \A i \in DOMAIN (inbox \o pending)' :
                        (inbox \o pending)'[i].sequence = client'.sequence + i
    OBVIOUS
  <2>1. (inbox \o pending)' = t
    BY <1>2, <1>6, ConcatEmptySeq
  <2> QED
    BY <1>4, <1>6, <2>1
<1>11. Subscribed' => \A x \in ToSet(inbox \o pending)', d \in ToSet(projection.tail)' :
                        x.sequence = d.sequence => x = d
  <2> SUFFICES ASSUME Subscribed'
               PROVE  \A x \in ToSet(inbox \o pending)', d \in ToSet(projection.tail)' :
                        x.sequence = d.sequence => x = d
    OBVIOUS
  <2>1. OnStream' /\ Subscribed
    BY <1>1, <1>6 DEF Subscribed, OnStream
  <2>2. (inbox \o pending)' = t
    BY <1>2, <1>6, <2>1, ConcatEmptySeq
  <2> QED
    BY <1>1, <1>3, <2>1, <2>2 DEF Watching
<1>12. Loaded' /\ client'.epoch = projection'.epoch => client'.sequence <= projection'.sequence
  <2> SUFFICES ASSUME Loaded', client'.epoch = projection'.epoch
               PROVE  client'.sequence <= projection'.sequence
    OBVIOUS
  <2>1. Following(inbox, c, projection.sequence)
    BY <1>1, <1>6 DEF Subscribed, c
  <2>2. Len(inbox) \in Nat \ {0} /\ c \in Nat
    BY <1>1 DEF c
  <2> QED
    BY <1>1, <1>4, <1>6, <2>1, <2>2 DEF Following
<1> QED
  BY <1>9, <1>10, <1>11, <1>12 DEF Showing, Watching

\* A projection that is loaded has as much of every message as there was of it before.
LEMMA ProjectedText ==
  ASSUME LiveInv, Sending
  PROVE  /\ \A m \in Messages : /\ TextIn(Projected, m) \in Seq(1 .. Chunks)
                                /\ Len(TextIn(Projected, m)) = Got(m)
         /\ \A m \in Untorn : Prefix(TextIn(Projected, m))
         /\ \A m \in Messages : m \in 1 .. Projected.applied => Got(m) = Chunks
         /\ projection' = Projected /\ UNCHANGED stored =>
              /\ \A m \in Messages : Got(m)' = Got(m)
              /\ projection'.active = projection.active
              /\ projection.active # 0 => projection'.text = projection.text
<1>1. /\ stored \in Nat /\ projection \in Projections /\ projection.text \in Seq(1 .. Chunks)
      /\ Projected.applied = stored
      /\ Loaded => Projected = projection
      /\ ~Loaded => Projected.active = 0 /\ projection.active = 0
  BY TextTypes, ProjectedFacts, LoadFacts DEF Sending
<1>2. \A m \in Messages : m \in Nat /\ m # 0 /\ (m <= stored <=> m \in 1 .. stored)
  BY <1>1, Numbers
<1>3. Text \in Seq(1 .. Chunks) /\ Len(Text) = Chunks /\ \A k \in 1 .. Chunks : Text[k] = k
  <2>1. Text \in [1 .. Chunks -> 1 .. Chunks] /\ \A k \in 1 .. Chunks : Text[k] = k
    BY Numbers DEF Text
  <2>2. \A S : \A n \in Nat : \A s \in [1 .. n -> S] : s \in Seq(S) /\ Len(s) = n
    OBVIOUS
  <2> QED
    BY <2>1, <2>2, Numbers
<1>4. << >> \in Seq(1 .. Chunks) /\ Len(<< >>) = 0 /\ Prefix(<< >>) /\ Prefix(Text)
  BY <1>3, Numbers DEF Prefix
<1>5. ASSUME NEW m \in Messages
      PROVE  /\ TextIn(Projected, m) \in Seq(1 .. Chunks)
             /\ Len(TextIn(Projected, m)) = Got(m)
             /\ m \notin torn => Prefix(TextIn(Projected, m))
             /\ m \in 1 .. Projected.applied => Got(m) = Chunks
  <2>1. CASE m <= stored
    BY <1>1, <1>2, <1>3, <1>4, <2>1 DEF TextIn, Got
  <2>2. CASE ~(m <= stored) /\ projection.active = m
    <3>1. Projected = projection
      BY <1>1, <1>2, <2>2
    <3>2. TextIn(Projected, m) = projection.text /\ Got(m) = Len(projection.text)
      BY <1>1, <2>2, <3>1 DEF TextIn, Got
    <3>3. m \notin torn => Prefix(projection.text)
      BY <2>2 DEF Sending, Untorn
    <3> QED
      BY <1>1, <1>2, <2>2, <3>2, <3>3
  <2>3. CASE ~(m <= stored) /\ projection.active # m
    <3>1. Projected.active # m
      BY <1>1, <1>2, <2>3
    <3>2. TextIn(Projected, m) = << >> /\ Got(m) = 0
      BY <1>1, <2>3, <3>1 DEF TextIn, Got
    <3> QED
      BY <1>1, <1>2, <1>4, <2>3, <3>2
  <2> QED
    BY <2>1, <2>2, <2>3
<1>6. ASSUME projection' = Projected, UNCHANGED stored
      PROVE  /\ \A m \in Messages : Got(m)' = Got(m)
             /\ projection'.active = projection.active
             /\ projection.active # 0 => projection'.text = projection.text
  BY <1>1, <1>2, <1>6 DEF Got
<1> QED
  BY <1>5, <1>6 DEF Untorn

LEMMA SnapshotText ==
  ASSUME TextInv, LiveInv', Snapshot
  PROVE  Showing' /\ Watching'
<1>1. /\ LiveInv /\ Sending /\ Showing /\ view \in Views /\ client \in Clients(epochs)
      /\ projection' = Projected /\ UNCHANGED <<stored, torn>>
      /\ projection' \in Projections /\ TailOrdered(projection')
      /\ view' = ShowSnapshot(view, projection')
  BY TextTypes DEF TextInv, Snapshot, LiveInv, Precise
<1>2. /\ client'.epoch = projection'.epoch /\ client'.sequence = projection'.sequence
      /\ ~OnStream'
  <2>1. client' = [client EXCEPT !.epoch = projection'.epoch, !.sequence = projection'.sequence,
                                 !.phase = Settled(client.kind, view'),
                                 !.spare = client.kind # "prompt" \/ @]
    BY DEF Snapshot
  <2>2. Settled(client.kind, view') \in {"have", "returned"}
    BY DEF Settled
  <2>3. /\ client'.epoch = projection'.epoch /\ client'.sequence = projection'.sequence
        /\ client'.phase = Settled(client.kind, view')
    BY <1>1, <2>1 DEF Clients
  <2> QED
    BY <2>2, <2>3 DEF OnStream
<1>3. ASSUME NEW m \in Untorn'
      PROVE  /\ Prefix(view'.shown[m]) /\ (m \in view'.done => Len(view'.shown[m]) = Chunks)
             /\ Got(m)' <= Len(view'.shown[m])
  <2> DEFINE text == TextIn(projection', m)
  <2>1. /\ m \in Messages /\ m \in Untorn /\ text \in Seq(1 .. Chunks) /\ Len(text) = Got(m)
        /\ Prefix(text) /\ Got(m)' = Got(m)
        /\ m \in 1 .. projection'.applied => Got(m) = Chunks
    BY <1>1, ProjectedText DEF Untorn
  <2>2. view'.done = 1 .. projection'.applied \cap Messages
    BY <1>1 DEF ShowSnapshot, Reset, PrintMissing, Views
  <2>3. CASE client.kind = "viewer"
    <3>1. view'.shown[m] = text
      BY <1>1, <2>1, <2>3 DEF ShowSnapshot, Reset
    <3> HIDE DEF text
    <3> QED
      BY <2>1, <2>2, <3>1
  <2>4. CASE client.kind # "viewer"
    <3>1. view'.shown[m] = Show(view, m, 0, text).shown[m]
      BY <1>1, <2>1, <2>4 DEF ShowSnapshot, PrintMissing, Views
    <3> HIDE DEF text
    <3>2. /\ view.shown[m] \in Seq(1 .. Chunks) /\ Prefix(view.shown[m]) /\ Chunks \in Nat
          /\ Len(view.shown[m]) \in Nat /\ Len(text) \in Nat
      BY <1>1, <2>1, Numbers DEF Showing, Views
    <3>3. /\ 0 <= Len(view.shown[m]) /\ 0 + Len(text) <= Chunks
          /\ \A i \in 1 .. Len(text) : text[i] = 0 + i
      BY <2>1, <3>2 DEF Prefix
    <3>4. /\ Prefix(Show(view, m, 0, text).shown[m])
          /\ Len(Show(view, m, 0, text).shown[m]) =
               IF 0 + Len(text) <= Len(view.shown[m]) THEN Len(view.shown[m]) ELSE 0 + Len(text)
      BY <1>1, <2>1, <3>2, <3>3, ShowText
    <3>5. Len(view.shown[m]) <= Chunks
      BY <3>2 DEF Prefix
    <3> QED
      BY <2>1, <2>2, <3>1, <3>2, <3>4, <3>5
  <2> QED
    BY <2>3, <2>4
<1>4. Ahead' = {}
  <2>1. \A i \in DOMAIN projection'.tail : ~(projection'.tail[i].sequence > projection'.sequence)
    <3>1. /\ DOMAIN projection'.tail = 1 .. Len(projection'.tail) /\ Len(projection'.tail) \in Nat
          /\ projection'.sequence \in Nat
          /\ \A i \in DOMAIN projection'.tail :
               projection'.tail[i].sequence = projection'.sequence - Len(projection'.tail) + i
      BY <1>1 DEF Projections, TailOrdered
    <3> QED
      BY <3>1
  <2> QED
    BY <1>2, <2>1 DEF Ahead, ToSet
<1>5. client'.sequence <= projection'.sequence
  BY <1>1, <1>2 DEF Projections
<1>6. Showing'
  BY <1>3 DEF Showing
<1>7. \A m \in Untorn' : /\ Flows(Ahead, m, Len(view.shown[m]))'
                         /\ Meets(Ahead, m, Len(view.shown[m]), Got(m))'
  BY <1>3, <1>4 DEF Flows, Meets
<1>8. ~Subscribed'
  BY <1>2 DEF Subscribed, OnStream
<1> QED
  BY <1>2, <1>5, <1>6, <1>7, <1>8 DEF Watching

-----------------------------------------------------------------------------
(* What the plane has got, and what is on the way to it. *)

\* Nothing is written or produced; the last chunk is still on the way, or got, or it is lost.
LEMMA SendingKept ==
  ASSUME TextInv, UNCHANGED <<made, produced, stored>>, torn \subseteq torn', torn' \subseteq Messages,
         \A m \in Untorn' : m = stored + 1 =>
           /\ Got(m)' \in Nat /\ Got(m) <= Got(m)'
           /\ \A i \in DOMAIN wire :
                wire[i].type = "text" /\ wire[i].message = m /\ wire[i].chunk = Produced =>
                  Produced <= Got(m)' \/ \E j \in DOMAIN wire' : wire'[j] = wire[i],
         projection'.active \in Untorn' => Prefix(projection'.text),
         ~Loaded' => projection'.active = 0
  PROVE  Sending'
<1>1. Sending /\ made \in Nat /\ stored \in Nat /\ produced \in Nat /\ Thoughts \in Nat /\ Chunks \in Nat
  BY TextTypes, Numbers DEF TextInv
<1>2. /\ made' # stored' => produced' = 0 \/ Streaming' \in torn'
      /\ \A m \in Messages : stored' + 1 < m /\ m <= made' => m \in torn'
  BY <1>1 DEF Sending, Streaming
<1>3. Produced' = Produced /\ Produced \in Nat
  BY <1>1 DEF Produced
<1>4. ASSUME NEW m \in Untorn', m = stored + 1
      PROVE  \/ Produced <= Got(m)'
             \/ \E j \in DOMAIN wire' : /\ wire'[j].type = "text" /\ wire'[j].message = m
                                        /\ wire'[j].chunk = Produced
  <2>1. m \in Untorn /\ Got(m) \in Nat
    BY <1>4, TextTypes DEF Untorn, TextInv
  <2>2. CASE Produced <= Got(m)
    BY <1>3, <1>4, <2>1, <2>2
  <2>3. ASSUME NEW i \in DOMAIN wire, wire[i].type = "text", wire[i].message = m,
               wire[i].chunk = Produced
        PROVE  \/ Produced <= Got(m)'
               \/ \E j \in DOMAIN wire' : /\ wire'[j].type = "text" /\ wire'[j].message = m
                                          /\ wire'[j].chunk = Produced
    BY <1>4, <2>3
  <2> QED
    BY <1>1, <1>4, <2>1, <2>2, <2>3 DEF Sending
<1>5. \A m \in Untorn' : m = stored' + 1 =>
        \/ Produced' <= Got(m)'
        \/ \E i \in DOMAIN wire' : /\ wire'[i].type = "text" /\ wire'[i].message = m
                                   /\ wire'[i].chunk = Produced'
  BY <1>3, <1>4
<1> QED
  BY <1>2, <1>5 DEF Sending

\* A delta is produced: it is on the way, or its message is torn.
LEMMA DeltaText ==
  ASSUME TextInv, Delta
  PROVE  Sending'
<1>1. /\ Sending /\ made \in Nat /\ stored \in Nat /\ stored <= made /\ produced \in Nat
      /\ Thoughts \in Nat /\ Chunks \in Nat /\ wire \in Seq(Frames) /\ Len(wire) \in Nat
      /\ DOMAIN wire = 1 .. Len(wire)
  BY TextTypes, Numbers DEF TextInv
<1>2. /\ made < EndOfTurn /\ (link # "up" \/ stored = made) /\ Streaming \in Messages
      /\ produced' = produced + 1 /\ UNCHANGED <<made, stored, projection>>
  BY DEF Delta, Ready, planeVars
<1>3. \A m \in Messages : Got(m)' = Got(m) /\ Got(m) \in Nat
  BY <1>2, TextTypes DEF Got, TextInv
<1>4. CASE link = "up"
  <2>1. stored = made /\ UNCHANGED torn /\ Untorn' = Untorn
    BY <1>2, <1>4 DEF Delta, Untorn
  <2>2. PICK f : /\ wire' = Append(wire, f)
                 /\ f = [type |-> IF produced >= Thoughts THEN "text" ELSE "thought",
                         message |-> Streaming,
                         chunk |-> IF produced >= Thoughts THEN produced' - Thoughts ELSE produced']
    BY <1>4 DEF Delta
  <2>3. /\ DOMAIN wire' = 1 .. Len(wire) + 1 /\ wire'[Len(wire) + 1] = f
    BY <1>1, <2>2
  <2>4. Produced' = IF produced >= Thoughts THEN produced' - Thoughts ELSE 0
    BY <1>1, <1>2, <2>1 DEF Produced
  <2>5. stored + 1 = Streaming
    BY <2>1 DEF Streaming
  <2>6. ASSUME NEW m \in Untorn, m = stored + 1
        PROVE  \/ Produced' <= Got(m)'
               \/ \E i \in DOMAIN wire' : /\ wire'[i].type = "text" /\ wire'[i].message = m
                                          /\ wire'[i].chunk = Produced'
    <3>1. CASE produced >= Thoughts
      <4>1. f.type = "text" /\ f.message = m /\ f.chunk = Produced'
        BY <2>2, <2>4, <2>5, <2>6, <3>1
      <4>2. Len(wire) + 1 \in DOMAIN wire'
        BY <1>1, <2>3
      <4> QED
        BY <2>3, <4>1, <4>2
    <3>2. CASE ~(produced >= Thoughts)
      BY <1>2, <1>3, <2>4, <2>6, <3>2 DEF Untorn
    <3> QED
      BY <3>1, <3>2
  <2>7. \A m \in Messages : stored + 1 < m /\ m <= made => m \in torn
    BY <1>1 DEF Sending
  <2>8. made' = stored'
    BY <1>2, <2>1
  <2>9. /\ projection'.active \in Untorn' => Prefix(projection'.text)
        /\ ~Loaded' => projection'.active = 0
    BY <1>1, <1>2, <2>1 DEF Sending, Loaded
  <2> QED
    BY <1>2, <2>1, <2>6, <2>7, <2>8, <2>9 DEF Sending
<1>5. CASE link # "up"
  <2>1. torn' = torn \cup {Streaming} /\ wire' = wire
    BY <1>5 DEF Delta
  <2>2. \A m \in Untorn' : m \in Untorn /\ m # Streaming
    BY <2>1 DEF Untorn
  <2>3. Streaming' \in torn'
    BY <1>2, <2>1 DEF Streaming
  <2>4. ASSUME NEW m \in Untorn', m = stored + 1
        PROVE  m \in Untorn /\ Produced' = Produced /\ m \in Messages
    <3>1. made > stored
      BY <1>1, <2>2, <2>4 DEF Streaming
    <3> QED
      BY <1>2, <2>2, <2>4, <3>1 DEF Produced, Untorn
  <2>5. ASSUME NEW m \in Untorn', m = stored + 1
        PROVE  \/ Produced' <= Got(m)'
               \/ \E i \in DOMAIN wire' : /\ wire'[i].type = "text" /\ wire'[i].message = m
                                          /\ wire'[i].chunk = Produced'
    BY <1>1, <1>3, <2>1, <2>4, <2>5 DEF Sending
  <2>6. \A m \in Messages : stored + 1 < m /\ m <= made => m \in torn'
    BY <1>1, <2>1 DEF Sending
  <2>7. /\ projection'.active \in Untorn' => Prefix(projection'.text)
        /\ ~Loaded' => projection'.active = 0
    BY <1>1, <1>2, <2>2 DEF Sending, Loaded
  <2> QED
    BY <1>2, <2>3, <2>5, <2>6, <2>7 DEF Sending
<1> QED
  BY <1>4, <1>5

\* A record is written: all of its message's deltas were produced.
LEMMA RecordText ==
  ASSUME TextInv, Record
  PROVE  Sending'
<1>1. /\ Sending /\ made \in Nat /\ stored \in Nat /\ stored <= made /\ produced \in Nat
      /\ Thoughts \in Nat /\ Chunks \in Nat \ {0} /\ wire \in Seq(Frames) /\ Len(wire) \in Nat
      /\ DOMAIN wire = 1 .. Len(wire)
  BY TextTypes, Numbers DEF TextInv
<1>2. /\ Streaming \in Messages => produced = Thoughts + Chunks
      /\ made' = made + 1 /\ produced' = 0 /\ UNCHANGED <<stored, projection, torn>>
  BY DEF Record, planeVars
<1>3. Untorn' = Untorn /\ \A m \in Messages : Got(m)' = Got(m)
  BY <1>2 DEF Got, Untorn
<1>4. \A i \in DOMAIN wire : i \in DOMAIN wire' /\ wire'[i] = wire[i]
  <2>1. PICK f : wire' = Append(wire, f) \/ wire' = wire
    BY DEF Record
  <2> QED
    BY <1>1, <2>1
<1>5. \A m \in Messages : stored' + 1 < m /\ m <= made' => m \in torn'
  <2> SUFFICES ASSUME NEW m \in Messages, stored + 1 < m, m <= made + 1 PROVE m \in torn
    BY <1>2
  <2>1. CASE m <= made
    BY <1>1, <2>1 DEF Sending
  <2>2. CASE ~(m <= made)
    <3>1. m = Streaming /\ made # stored
      BY <1>1, <2>2, Numbers DEF Streaming
    <3>2. produced # 0
      BY <1>1, <1>2, <3>1
    <3> QED
      BY <1>1, <3>1, <3>2 DEF Sending
  <2> QED
    BY <2>1, <2>2
<1>6. ASSUME NEW m \in Untorn, m = stored + 1
      PROVE  Produced = Chunks /\ Produced' = Chunks
  <2>1. Produced' = Chunks
    BY <1>1, <1>2 DEF Produced
  <2>2. CASE made > stored
    BY <2>1, <2>2 DEF Produced
  <2>3. CASE ~(made > stored)
    <3>1. made = stored /\ Streaming \in Messages
      BY <1>1, <1>6, <2>3 DEF Streaming, Untorn
    <3>2. produced = Thoughts + Chunks
      BY <1>2, <3>1
    <3> QED
      BY <1>1, <2>1, <2>3, <3>2 DEF Produced
  <2> QED
    BY <2>2, <2>3
<1>7. ASSUME NEW m \in Untorn, m = stored + 1
      PROVE  \/ Produced' <= Got(m)'
             \/ \E i \in DOMAIN wire' : /\ wire'[i].type = "text" /\ wire'[i].message = m
                                        /\ wire'[i].chunk = Produced'
  <2>1. Got(m)' = Got(m) /\ Produced' = Produced
    BY <1>3, <1>6, <1>7 DEF Untorn
  <2>2. \/ Produced <= Got(m)
        \/ \E i \in DOMAIN wire : /\ wire[i].type = "text" /\ wire[i].message = m
                                  /\ wire[i].chunk = Produced
    BY <1>1, <1>7 DEF Sending
  <2> QED
    BY <1>4, <2>1, <2>2
<1>8. /\ projection'.active \in Untorn' => Prefix(projection'.text)
      /\ ~Loaded' => projection'.active = 0
  BY <1>1, <1>2, <1>3 DEF Sending, Loaded
<1> QED
  BY <1>2, <1>3, <1>5, <1>7, <1>8 DEF Sending

\* The plane gets a record, after every delta that is not lost.
LEMMA StoreText ==
  ASSUME TextInv, NEW r \in 1 .. EndOfTurn, r = stored + 1, r <= made, Store(r),
         UNCHANGED <<made, produced, torn, client, view>>,
         \A i \in DOMAIN wire : wire[i].type # "text"
  PROVE  Sending' /\ Watching'
<1>1. /\ LiveInv /\ Sending /\ made \in Nat /\ stored \in Nat /\ produced \in Nat
      /\ Thoughts \in Nat /\ Chunks \in Nat \ {0} /\ epochs \in Nat
      /\ projection \in Projections /\ TailOrdered(projection) /\ projection.text \in Seq(1 .. Chunks)
      /\ Loaded => projection.applied = stored /\ projection.active \in {0, stored + 1}
      /\ ~Loaded => projection.active = 0
      /\ \A m \in Messages : m \in Nat /\ m # 0
  BY TextTypes, Numbers DEF TextInv, Sending
<1>2. stored' = r /\ Untorn' = Untorn
  BY DEF Store, Untorn
<1>3. projection'.active = 0 => Sending'
  <2> SUFFICES ASSUME projection'.active = 0
               PROVE  Sending'
    OBVIOUS
  <2>1. made' # stored' => produced' = 0 \/ Streaming' \in torn'
    BY <1>1, <1>2 DEF Sending, Streaming
  <2>2. \A m \in Messages : stored' + 1 < m /\ m <= made' => m \in torn'
    BY <1>1, <1>2 DEF Sending
  <2>3. ASSUME NEW m \in Untorn, m = stored' + 1
        PROVE  Produced' <= Got(m)'
    <3>1. m \in Messages /\ m \notin torn
      BY DEF Untorn
    <3>2. made = stored'
      BY <1>1, <1>2, <2>3, <3>1 DEF Sending
    <3>3. produced' = 0
      BY <1>1, <1>2, <2>1, <2>3, <3>1, <3>2 DEF Sending, Streaming
    <3>4. Produced' = 0 /\ Got(m)' = 0
      BY <1>1, <1>2, <2>3, <3>2, <3>3 DEF Produced, Got
    <3> QED
      BY <3>4
  <2>4. projection'.active \notin Untorn'
    BY <1>1 DEF Untorn
  <2>5. \A m \in Untorn' : m = stored' + 1 => Produced' <= Got(m)'
    BY <1>2, <2>3
  <2> QED
    BY <2>1, <2>2, <2>4, <2>5 DEF Sending
<1>4. CASE Loaded
  <2>1. projection' = ApplyRecord(projection, r) /\ Deliver(projection, projection')
    BY <1>4 DEF Store
  <2>2. PICK q \in Projections, e \in Events :
          /\ ApplyRecord(projection, r) = Publish(q, e) /\ TailOrdered(q)
          /\ e = [type |-> "completed", message |-> r, chunk |-> 0]
          /\ q.epoch = projection.epoch
          /\ q.active = IF projection.active = r THEN 0 ELSE projection.active
          /\ q.sequence = projection.sequence /\ q.tail = projection.tail
    BY <1>1, RecordFacts
  <2>3. q.active = 0
    BY <1>1, <1>4, <2>2
  <2>4. projection'.active = 0 /\ projection'.epoch = projection.epoch
    <3>1. Publish(q, e).active = q.active /\ Publish(q, e).epoch = q.epoch
      BY <2>2, Published
    <3> QED
      BY <2>1, <2>2, <2>3, <3>1
  <2>5. ASSUME NEW m \in Untorn
        PROVE  Got(m)' = Got(m) /\ (m = r => Got(m) = Chunks)
    <3>1. m \in Messages
      BY DEF Untorn
    <3>2. CASE m = r
      <4>1. Produced <= Got(m) /\ Produced = Chunks
        BY <1>1, <3>2 DEF Sending, Produced
      <4>2. Got(m) <= Chunks
        <5>1. projection.active = m => Len(projection.text) <= Chunks
          BY <1>1 DEF Sending, Prefix
        <5> QED
          BY <1>1, <3>2, <5>1 DEF Got
      <4>3. Got(m) \in Nat /\ Got(m)' = Chunks
        BY <1>1, <1>2, <3>1, <3>2, TextTypes DEF Got
      <4> QED
        BY <1>1, <4>1, <4>2, <4>3
    <3>3. CASE m # r
      <4>1. projection.active # m /\ projection'.active # m
        BY <1>1, <1>4, <2>4, <3>1, <3>3
      <4>2. m <= stored <=> m <= stored'
        BY <1>1, <1>2, <3>1, <3>3
      <4> QED
        BY <3>3, <4>1, <4>2 DEF Got
    <3> QED
      BY <3>2, <3>3
  <2>6. Watching'
    <3>1. \A m \in Messages \ torn' :
            /\ e.type # "text" /\ Got(m)' = Got(m)
            /\ e.type = "completed" /\ e.message = m => Got(m) = Chunks
      BY <2>2, <2>5 DEF Untorn
    <3>2. projection' = Publish(q, e)
      BY <2>1, <2>2
    <3> QED
      BY <1>4, <2>1, <2>2, <3>1, <3>2, WatchingPublished
  <2> QED
    BY <1>3, <2>4, <2>6
<1>5. CASE ~Loaded
  <2>1. projection' = [Load EXCEPT !.applied = r] /\ UNCHANGED <<inbox, pending>>
    BY <1>5 DEF Store
  <2>2. r \in 0 .. EndOfTurn
    BY Numbers
  <2>3. projection'.active = 0 /\ projection'.epoch = epochs + 1
    BY <1>1, <2>1, <2>2, LoadFacts
  <2>4. Watching'
    <3>1. (inbox \o pending)' = inbox \o pending /\ (OnStream' <=> OnStream)
      BY <2>1 DEF OnStream
    <3> QED
      BY <2>3, <3>1, WatchingFresh
  <2> QED
    BY <1>3, <2>3, <2>4
<1> QED
  BY <1>4, <1>5

\* A delta is the next one of its message, or a delta of the message is lost.
LEMMA ReceiveDeltaText ==
  ASSUME TextInv, LiveInv', ReceiveDelta
  PROVE  Sending' /\ Watching'
<1> DEFINE d == Head(wire)
           p == Projected
           text == d.type = "text"
           next == IF text THEN ApplyMessageDelta(p, d.message, d.chunk) ELSE p
<1>1. /\ LiveInv /\ Sending /\ stored \in Nat /\ epochs \in Nat /\ Chunks \in Nat \ {0}
      /\ projection \in Projections /\ projection.text \in Seq(1 .. Chunks)
      /\ Loaded => projection.applied = stored /\ projection.active \in {0, stored + 1}
      /\ ~Loaded => projection.active = 0
      /\ \A m \in Messages : m \in Nat /\ m # 0 /\ Got(m) \in Nat
      /\ wire \in Seq(Frames) /\ Len(wire) \in Nat /\ DOMAIN wire = 1 .. Len(wire)
      /\ torn \subseteq Messages /\ torn' \subseteq Messages
  <2>1. torn' \subseteq Messages
    BY DEF LiveInv, TypeOK
  <2>2. LiveInv /\ Sending
    BY DEF TextInv
  <2>3. Len(wire) \in Nat /\ DOMAIN wire = 1 .. Len(wire)
    BY <2>2, TextTypes
  <2>4. ~Loaded => projection.active = 0
    BY <2>2 DEF Sending
  <2>5. \A m \in Messages : m \in Nat /\ m # 0
    BY Numbers
  <2>6. \A m \in Messages : Got(m) \in Nat
    BY <2>2, TextTypes
  <2>7. /\ stored \in Nat /\ epochs \in Nat /\ Chunks \in Nat \ {0}
        /\ projection \in Projections /\ projection.text \in Seq(1 .. Chunks)
        /\ Loaded => projection.applied = stored /\ projection.active \in {0, stored + 1}
        /\ wire \in Seq(Frames) /\ torn \subseteq Messages
    BY <2>2, TextTypes, Numbers
  <2> QED
    BY <2>1, <2>2, <2>3, <2>4, <2>5, <2>6, <2>7
<1>2. /\ wire # << >> /\ d \in Frames /\ d.message = stored + 1 /\ d.message \in Messages
      /\ d.type # "record" /\ UNCHANGED <<made, produced, stored, client, view>>
  BY HeadFacts DEF ReceiveDelta, TextInv
<1>3. /\ d \in Events /\ d.type \in {"text", "thought"} /\ (text => d.chunk \in 1 .. Chunks)
  BY <1>2, EventTypes DEF Sound
<1>4. /\ p \in Projections /\ TailOrdered(p) /\ p.applied = stored /\ p.active \in {0, stored + 1}
      /\ p.epoch \in Nat \ {0}
      /\ Loaded => p = projection
      /\ ~Loaded => p.epoch = epochs + 1 /\ p.active = 0 /\ ~Subscribed
  BY <1>1, ProjectedFacts, LoadFacts
<1>5. /\ next \in Projections /\ TailOrdered(next) /\ next.epoch = p.epoch
      /\ next.sequence = p.sequence /\ next.tail = p.tail /\ next.applied = p.applied
      /\ text => /\ next.active = d.message
                 /\ next.text = IF p.active = d.message THEN Append(p.text, d.chunk) ELSE <<d.chunk>>
      /\ ~text => next = p
  <2>1. CASE text
    <3>1. d.message > p.applied
      BY <1>1, <1>2, <1>4
    <3>2. /\ next \in Projections /\ next.active = d.message /\ next.epoch = p.epoch
          /\ next.applied = p.applied /\ next.sequence = p.sequence /\ next.tail = p.tail
          /\ next.text = IF p.active = d.message THEN Append(p.text, d.chunk) ELSE <<d.chunk>>
      BY <1>2, <1>3, <1>4, <2>1, <3>1, DeltaFacts
    <3>3. TailOrdered(next)
      BY <1>4, <3>2 DEF TailOrdered
    <3> QED
      BY <2>1, <3>2, <3>3
  <2>2. CASE ~text
    BY <1>4, <2>2
  <2> QED
    BY <2>1, <2>2
<1>6. \/ /\ text => d.message <= p.applied \/ Contiguous(p, d.message, d.chunk - 1)
         /\ projection' = Publish(next, d) /\ Deliver(p, projection')
         /\ torn' = IF text /\ p.active # d.message /\ d.chunk # 1
                      THEN torn \cup {d.message} ELSE torn
         /\ wire' = Tail(wire)
      \/ projection' = p /\ LinkLost /\ UNCHANGED <<inbox, pending>>
  BY DEF ReceiveDelta
<1> HIDE DEF d, p, next
<1>7. CASE projection' = p /\ LinkLost /\ UNCHANGED <<inbox, pending>>
  <2>1. /\ \A m \in Messages : Got(m)' = Got(m)
        /\ projection'.active = projection.active
        /\ projection.active # 0 => projection'.text = projection.text
        /\ \A m \in Untorn' : m \in Untorn /\ m \in Messages /\ m \notin torn'
        /\ torn \subseteq torn'
    BY <1>1, <1>2, <1>7, ProjectedText DEF p, LinkLost, Untorn
  <2>2. Sending'
    <3>1. ASSUME NEW m \in Untorn', m = stored + 1, NEW i \in DOMAIN wire, wire[i].message = m
          PROVE  FALSE
      BY <1>7, <2>1, <3>1 DEF LinkLost
    <3>2. \A m \in Untorn' : m = stored + 1 =>
            /\ Got(m)' \in Nat /\ Got(m) <= Got(m)'
            /\ \A i \in DOMAIN wire : wire[i].message # m
      BY <1>1, <2>1, <3>1
    <3>3. /\ projection'.active \in Untorn' => Prefix(projection'.text)
          /\ Loaded'
      BY <1>1, <1>4, <1>7, <2>1 DEF Sending, Loaded
    <3> QED
      BY <1>1, <1>2, <2>1, <3>2, <3>3, SendingKept
  <2>3. (inbox \o pending)' = inbox \o pending /\ (OnStream' <=> OnStream)
    BY <1>2, <1>7 DEF OnStream
  <2>4. CASE Loaded
    <3>1. UNCHANGED <<projection, stored, view>> /\ torn \subseteq torn'
          /\ client'.epoch = client.epoch /\ client'.sequence = client.sequence
      BY <1>2, <1>4, <1>7, <2>1, <2>4
    <3> QED
      BY <2>2, <2>3, <3>1, WatchingKept
  <2>5. CASE ~Loaded
    <3>1. projection'.epoch = epochs + 1 /\ UNCHANGED view /\ torn \subseteq torn'
          /\ client'.epoch = client.epoch /\ client'.sequence = client.sequence
      BY <1>2, <1>4, <1>7, <2>1, <2>5
    <3> QED
      BY <2>2, <2>3, <3>1, WatchingFresh
  <2> QED
    BY <2>2, <2>4, <2>5
<1>8. CASE /\ text => d.message <= p.applied \/ Contiguous(p, d.message, d.chunk - 1)
           /\ projection' = Publish(next, d) /\ Deliver(p, projection')
           /\ torn' = IF text /\ p.active # d.message /\ d.chunk # 1
                        THEN torn \cup {d.message} ELSE torn
           /\ wire' = Tail(wire)
  <2>1. /\ projection'.active = next.active /\ projection'.text = next.text
        /\ projection'.epoch = p.epoch
    BY <1>3, <1>5, <1>8, Published
  <2>2. \A m \in Untorn' : m \in Untorn /\ m \in Messages /\ m \notin torn'
    BY <1>8 DEF Untorn
  <2>3. ASSUME text, d.message \in Untorn'
        PROVE  /\ d.chunk = Got(d.message) + 1 /\ Len(projection'.text) = d.chunk
               /\ Prefix(projection'.text)
    <3>1. ~(d.message <= stored) /\ d.message # 0
      BY <1>1, <1>2
    <3>2. CASE p.active = d.message
      <4>1. p = projection /\ projection.active = d.message
        BY <1>4, <3>1, <3>2
      <4>2. Got(d.message) = Len(projection.text)
        BY <3>1, <4>1 DEF Got
      <4>3. d.chunk - 1 = Len(projection.text)
        BY <1>2, <1>4, <1>8, <2>3, <3>1, <3>2, <4>1 DEF Contiguous
      <4>4. Prefix(projection.text)
        BY <1>1, <2>2, <2>3, <4>1 DEF Sending
      <4>5. projection'.text = Append(projection.text, d.chunk)
        BY <1>5, <2>1, <2>3, <3>2, <4>1
      <4>6. Len(projection.text) \in Nat /\ d.chunk = Len(projection.text) + 1 /\ d.chunk <= Chunks
        <5>1. Len(projection.text) \in Nat /\ d.chunk \in 1 .. Chunks /\ Chunks \in Nat
          BY <1>1, <1>3, <2>3
        <5> QED
          BY <4>3, <5>1
      <4>7. /\ Len(projection'.text) = Len(projection.text) + 1
            /\ \A i \in 1 .. Len(projection.text) : projection'.text[i] = projection.text[i]
            /\ projection'.text[Len(projection.text) + 1] = d.chunk
        BY <1>1, <4>5
      <4>8. Prefix(projection'.text)
        BY <4>4, <4>6, <4>7 DEF Prefix
      <4> QED
        BY <4>2, <4>6, <4>7, <4>8
    <3>3. CASE p.active # d.message
      <4>1. d.chunk = 1
        BY <1>8, <2>2, <2>3, <3>3
      <4>2. projection.active # d.message
        BY <1>1, <1>4, <3>1, <3>3
      <4>3. Got(d.message) = 0
        BY <3>1, <4>2 DEF Got
      <4>4. projection'.text = <<1>>
        BY <1>5, <2>1, <2>3, <3>3, <4>1
      <4>5. Len(projection'.text) = 1 /\ projection'.text[1] = 1
        BY <4>4
      <4> QED
        BY <1>1, <4>1, <4>3, <4>5 DEF Prefix
    <3> QED
      BY <3>2, <3>3
  <2>4. ASSUME NEW m \in Untorn'
        PROVE  IF text /\ d.message = m THEN d.chunk = Got(m) + 1 /\ Got(m)' = Got(m) + 1
               ELSE Got(m)' = Got(m)
    <3>1. m \in Messages /\ m \in Nat /\ m # 0
      BY <1>1, <2>2
    <3>2. CASE text /\ d.message = m
      <4>1. ~(m <= stored') /\ projection'.active = m
        BY <1>1, <1>2, <1>5, <2>1, <3>2
      <4>2. Got(m)' = Len(projection'.text)
        BY <4>1 DEF Got
      <4> QED
        BY <2>3, <3>2, <4>2
    <3>3. CASE ~text
      <4>1. projection'.active = p.active /\ projection'.text = p.text
        BY <1>5, <2>1, <3>3
      <4>2. CASE Loaded
        BY <1>2, <1>4, <3>3, <4>1, <4>2 DEF Got
      <4>3. CASE ~Loaded
        BY <1>1, <1>2, <1>4, <3>1, <3>3, <4>1, <4>3 DEF Got
      <4> QED
        BY <4>2, <4>3
    <3>4. CASE text /\ d.message # m
      <4>1. (projection'.active # m /\ projection.active # m) \/ m <= stored
        BY <1>1, <1>2, <1>5, <2>1, <3>1, <3>4
      <4> QED
        BY <1>2, <3>4, <4>1 DEF Got
    <3> QED
      BY <3>2, <3>3, <3>4
  <2>5. torn \subseteq torn'
    BY <1>8
  <2>6. Sending'
    <3>1. /\ Len(wire) \in Nat \ {0} /\ d = wire[1] /\ DOMAIN wire' = 1 .. Len(wire) - 1
          /\ \A i \in 1 .. Len(wire) - 1 : wire'[i] = wire[i + 1]
      BY <1>1, <1>2, <1>8 DEF d
    <3>2. ASSUME NEW m \in Untorn', m = stored + 1, NEW i \in DOMAIN wire, wire[i].type = "text",
                 wire[i].message = m, wire[i].chunk = Produced
          PROVE  Produced <= Got(m)' \/ \E j \in DOMAIN wire' : wire'[j] = wire[i]
      <4>1. CASE i = 1
        <5>1. text /\ d.message = m /\ d.chunk = Produced
          BY <3>1, <3>2, <4>1
        <5>2. Got(m)' = Produced /\ Produced \in Nat
          BY <1>3, <2>4, <5>1
        <5> QED
          BY <5>2
      <4>2. CASE i # 1
        <5>1. i - 1 \in DOMAIN wire' /\ wire'[i - 1] = wire[i]
          BY <1>1, <3>1, <4>2
        <5> QED
          BY <5>1
      <4> QED
        BY <4>1, <4>2
    <3>3. \A m \in Untorn' : Got(m)' \in Nat /\ Got(m) <= Got(m)'
      BY <1>1, <2>2, <2>4
    <3>4. projection'.active \in Untorn' => Prefix(projection'.text)
      <4>1. CASE text
        BY <1>5, <2>1, <2>3, <4>1
      <4>2. CASE ~text
        <5> SUFFICES ASSUME projection'.active \in Untorn' PROVE Prefix(projection'.text)
          OBVIOUS
        <5>1. p = projection /\ projection'.active = projection.active
              /\ projection'.text = projection.text
          BY <1>1, <1>4, <1>5, <2>1, <2>2, <4>2
        <5> QED
          BY <1>1, <2>2, <5>1 DEF Sending
      <4> QED
        BY <4>1, <4>2
    <3>5. Loaded'
      BY <1>4, <2>1 DEF Loaded
    <3>6. \A m \in Untorn' : m = stored + 1 =>
            /\ Got(m)' \in Nat /\ Got(m) <= Got(m)'
            /\ \A i \in DOMAIN wire :
                 wire[i].type = "text" /\ wire[i].message = m /\ wire[i].chunk = Produced =>
                   Produced <= Got(m)' \/ \E j \in DOMAIN wire' : wire'[j] = wire[i]
      BY <3>2, <3>3
    <3> QED
      BY <1>1, <1>2, <2>5, <3>4, <3>5, <3>6, SendingKept
  <2>7. CASE Loaded
    <3>1. /\ projection' = Publish(next, d) /\ Deliver(projection, projection')
          /\ next.epoch = projection.epoch /\ next.sequence = projection.sequence
          /\ next.tail = projection.tail
      BY <1>4, <1>5, <1>8, <2>7
    <3>2. \A m \in Messages \ torn' :
            /\ text /\ d.message = m => d.chunk = Got(m) + 1 /\ Got(m)' = Got(m) + 1
            /\ ~(text /\ d.message = m) => Got(m)' = Got(m)
            /\ d.type = "completed" /\ d.message = m => Got(m) = Chunks
      BY <1>3, <2>4 DEF Untorn
    <3>3. Watching'
      BY <1>2, <1>3, <1>5, <2>5, <2>7, <3>1, <3>2, WatchingPublished
    <3> QED
      BY <2>6, <3>3
  <2>8. CASE ~Loaded
    <3>1. UNCHANGED <<inbox, pending>> /\ projection'.epoch = epochs + 1
      BY <1>4, <1>8, <2>1, <2>8 DEF Deliver
    <3>2. (inbox \o pending)' = inbox \o pending /\ (OnStream' <=> OnStream)
      BY <1>2, <3>1 DEF OnStream
    <3>3. Watching'
      BY <1>2, <2>5, <3>1, <3>2, WatchingFresh
    <3> QED
      BY <2>6, <3>3
  <2> QED
    BY <2>7, <2>8
<1> QED
  BY <1>6, <1>7, <1>8

LEMMA SendingSame ==
  ASSUME TextInv, LiveInv', UNCHANGED <<made, produced, stored, wire, torn>>,
         projection' = projection \/ projection' = Projected
  PROVE  Sending'
<1>1. /\ LiveInv /\ Sending /\ torn' \subseteq Messages /\ Untorn' = Untorn
      /\ \A m \in Messages : Got(m) \in Nat
  BY TextTypes DEF TextInv, LiveInv, TypeOK, Untorn
<1>2. /\ \A m \in Messages : Got(m)' = Got(m)
      /\ projection'.active = projection.active
      /\ projection.active # 0 => projection'.text = projection.text
  <2>1. CASE projection' = projection
    BY <2>1 DEF Got
  <2>2. CASE projection' = Projected
    BY <1>1, <2>2, ProjectedText
  <2> QED
    BY <2>1, <2>2
<1>3. projection'.active \in Untorn' => Prefix(projection'.text)
  <2>1. 0 \notin Untorn
    BY Numbers DEF Untorn
  <2> QED
    BY <1>1, <1>2, <2>1 DEF Sending
<1>4. ~Loaded' => projection'.active = 0
  <2>1. Loaded => Loaded'
    BY <1>1, ProjectedFacts DEF Loaded
  <2> QED
    BY <1>1, <1>2, <2>1 DEF Sending
<1>5. \A m \in Untorn' : m = stored + 1 =>
        /\ Got(m)' \in Nat /\ Got(m) <= Got(m)'
        /\ \A i \in DOMAIN wire : \E j \in DOMAIN wire' : wire'[j] = wire[i]
  <2>1. \A m \in Untorn' : m \in Messages
    BY DEF Untorn
  <2>2. \A m \in Messages : Got(m)' \in Nat /\ Got(m) <= Got(m)'
    BY <1>1, <1>2
  <2> QED
    BY <2>1, <2>2
<1> QED
  BY <1>1, <1>3, <1>4, <1>5, SendingKept

\* A link, or the plane or a projection, is gone: what was on the way or in memory is lost.
LEMMA SendingLost ==
  ASSUME TextInv, LiveInv', UNCHANGED <<made, produced, stored>>, torn \subseteq torn',
         wire' = wire \/ {wire[i].message : i \in DOMAIN wire} \cap Messages \subseteq torn',
         \/ projection' = projection
         \/ projection' = NoProjection /\ {projection.active} \cap Messages \subseteq torn'
  PROVE  Sending'
<1>1. /\ LiveInv /\ Sending /\ torn' \subseteq Messages
      /\ \A m \in Untorn' : m \in Untorn /\ m \in Messages /\ m \notin torn' /\ m # 0
      /\ \A m \in Messages : Got(m) \in Nat
  <2>1. torn' \subseteq Messages /\ LiveInv /\ Sending
    BY DEF TextInv, LiveInv, TypeOK
  <2>2. \A m \in Untorn' : m \in Untorn /\ m \in Messages /\ m \notin torn' /\ m # 0
    BY Numbers DEF Untorn
  <2> QED
    BY <2>1, <2>2, TextTypes
<1>2. ASSUME NEW m \in Untorn'
      PROVE  Got(m)' = Got(m)
  <2>1. CASE projection' = projection
    BY <2>1 DEF Got
  <2>2. CASE projection' = NoProjection /\ {projection.active} \cap Messages \subseteq torn'
    <3>1. projection.active # m /\ projection'.active # m
      BY <1>1, <1>2, <2>2 DEF NoProjection
    <3> QED
      BY <3>1 DEF Got
  <2> QED
    BY <2>1, <2>2
<1>3. ASSUME NEW m \in Untorn', NEW i \in DOMAIN wire, wire[i].message = m
      PROVE  \E j \in DOMAIN wire' : wire'[j] = wire[i]
  <2>1. CASE wire' = wire
    BY <2>1
  <2>2. CASE {wire[k].message : k \in DOMAIN wire} \cap Messages \subseteq torn'
    BY <1>1, <1>3, <2>2
  <2> QED
    BY <2>1, <2>2
<1>4. projection'.active \in Untorn' => Prefix(projection'.text)
  <2>1. NoProjection.active \notin Untorn'
    BY <1>1 DEF NoProjection
  <2> QED
    BY <1>1, <2>1 DEF Sending
<1>5. ~Loaded' => projection'.active = 0
  BY <1>1 DEF Sending, Loaded, NoProjection
<1>6. \A m \in Untorn' : m = stored + 1 =>
        /\ Got(m)' \in Nat /\ Got(m) <= Got(m)'
        /\ \A i \in DOMAIN wire : wire[i].message = m => \E j \in DOMAIN wire' : wire'[j] = wire[i]
  BY <1>1, <1>2, <1>3
<1> QED
  BY <1>1, <1>4, <1>5, <1>6, SendingKept

-----------------------------------------------------------------------------
(* That what is shown is true: the steps. *)

LEMMA TextInit ==
  ASSUME Init
  PROVE  TextInv
<1>1. /\ LiveInv /\ made = 0 /\ produced = 0 /\ stored = 0 /\ projection = NoProjection
      /\ view = NoView /\ client.phase = "new" /\ torn = {}
  BY InvariantInit DEF Init
<1>2. Thoughts \in Nat /\ Chunks \in Nat /\ 0 \notin Messages /\ \A m \in Messages : m \in Nat /\ m # 0
  BY Numbers
<1>3. projection.active = 0 /\ projection.epoch = 0
  BY <1>1 DEF NoProjection
<1>4. Produced = 0 /\ \A m \in Messages : Got(m) = 0
  BY <1>1, <1>2, <1>3 DEF Produced, Got
<1>5. Sending
  BY <1>1, <1>2, <1>3, <1>4 DEF Sending, Untorn
<1>6. Showing
  <2>1. \A m \in Messages : view.shown[m] = << >> /\ m \notin view.done
    BY <1>1 DEF NoView, NoText
  <2>2. Prefix(<< >>)
    BY <1>2 DEF Prefix
  <2> QED
    BY <2>1, <2>2 DEF Showing, Untorn
<1>7. Watching
  BY <1>1, <1>3 DEF Watching, OnStream, Subscribed, Reached, Loaded
<1> QED
  BY <1>1, <1>5, <1>6, <1>7 DEF TextInv

LEMMA ShowingKept ==
  ASSUME TextInv, UNCHANGED view, torn \subseteq torn'
  PROVE  Showing'
  BY DEF TextInv, Showing, Untorn

LEMMA TextStutter ==
  ASSUME TextInv, UNCHANGED vars
  PROVE  TextInv'
<1>1. /\ UNCHANGED <<made, produced, stored, wire, torn, projection, view, client, inbox, pending>>
      /\ LiveInv'
  BY InvariantStutter DEF TextInv, vars, nodeVars, planeVars, clientVars
<1>2. Sending' /\ Showing'
  BY <1>1, SendingSame, ShowingKept
<1>3. Watching'
  <2>1. (OnStream' <=> OnStream) /\ (inbox \o pending)' = inbox \o pending
    BY <1>1 DEF OnStream
  <2> QED
    BY <1>1, <2>1, WatchingKept
<1> QED
  BY <1>1, <1>2, <1>3 DEF TextInv

\* What the node, its link and the plane do.
LEMMA PlaneText ==
  ASSUME TextInv, LiveInv',
         \/ Delta \/ Record \/ Reconnect \/ LinkReady \/ PlaneStarts \/ BreakLink \/ PlaneStops
         \/ Evict \/ ReceiveRecord \/ ReceiveSpooled \/ ReceiveDelta
  PROVE  Sending' /\ Showing' /\ Watching'
<1>1. UNCHANGED <<client, view>>
  BY DEF Delta, Record, Reconnect, LinkReady, PlaneStarts, BreakLink, PlaneStops, Evict,
         ReceiveRecord, ReceiveSpooled, ReceiveDelta, clientVars
<1>2. torn \subseteq torn'
  BY DEF Delta, Record, Reconnect, LinkReady, PlaneStarts, BreakLink, PlaneStops, Evict,
         ReceiveRecord, ReceiveSpooled, ReceiveDelta, LinkLost
<1>3. Showing'
  BY <1>1, <1>2, ShowingKept
<1>4. LiveInv
  BY DEF TextInv
<1>5. ASSUME UNCHANGED <<inbox, pending>>
      PROVE  (inbox \o pending)' = inbox \o pending /\ (OnStream' <=> OnStream)
  BY <1>1, <1>5 DEF OnStream
<1>6. CASE Delta \/ Record \/ Reconnect \/ LinkReady \/ PlaneStarts \/ BreakLink
  <2>1. UNCHANGED <<projection, stored, inbox, pending>>
    BY <1>6 DEF Delta, Record, Reconnect, LinkReady, PlaneStarts, BreakLink, planeVars, clientVars
  <2>2. Watching'
    BY <1>1, <1>2, <1>5, <2>1, WatchingKept
  <2>3. CASE Delta \/ Record
    BY <1>3, <2>2, <2>3, DeltaText, RecordText
  <2>4. CASE Reconnect \/ LinkReady \/ PlaneStarts
    <3>1. UNCHANGED <<made, produced, wire, torn>>
      BY <2>4 DEF Reconnect, LinkReady, PlaneStarts, nodeVars
    <3>2. Sending'
      BY <2>1, <3>1, SendingSame
    <3> QED
      BY <1>3, <2>2, <3>2
  <2>5. CASE BreakLink
    <3>1. /\ UNCHANGED <<made, produced>>
          /\ {wire[i].message : i \in DOMAIN wire} \cap Messages \subseteq torn'
      BY <2>5 DEF BreakLink, LinkLost
    <3>2. Sending'
      BY <1>2, <2>1, <3>1, SendingLost
    <3> QED
      BY <1>3, <2>2, <3>2
  <2> QED
    BY <1>6, <2>3, <2>4, <2>5
<1>7. CASE PlaneStops \/ Evict
  <2>1. /\ UNCHANGED <<made, produced, stored, inbox, pending>> /\ projection' = NoProjection
        /\ wire' = wire \/ {wire[i].message : i \in DOMAIN wire} \cap Messages \subseteq torn'
        /\ {projection.active} \cap Messages \subseteq torn'
    <3>1. CASE PlaneStops
      BY <3>1 DEF PlaneStops, clientVars
    <3>2. CASE Evict
      BY <3>2, Numbers DEF Evict, nodeVars, clientVars
    <3> QED
      BY <1>7, <3>1, <3>2
  <2>2. Sending'
    BY <1>2, <2>1, SendingLost
  <2>3. projection'.epoch = 0
    BY <2>1 DEF NoProjection
  <2>4. Watching'
    BY <1>1, <1>2, <1>5, <2>1, <2>3, WatchingFresh
  <2> QED
    BY <1>3, <2>2, <2>4
<1>8. CASE ReceiveDelta
  BY <1>3, <1>8, ReceiveDeltaText
<1>9. CASE ReceiveRecord
  <2>1. /\ wire # << >> /\ Head(wire).type = "record" /\ Store(Head(wire).message)
        /\ UNCHANGED <<made, produced, torn>>
    BY <1>9 DEF ReceiveRecord
  <2>2. /\ Head(wire).message = stored + 1 /\ stored + 1 \in 1 .. EndOfTurn
        /\ Tail(wire) = << >> /\ made = stored + 1
    BY <1>4, <2>1, HeadFacts
  <2>3. \A i \in DOMAIN wire : wire[i].type # "text"
    <3>1. wire \in Seq(Frames)
      BY <1>4, TextTypes
    <3>2. Len(Tail(wire)) = Len(wire) - 1 /\ DOMAIN wire = 1 .. Len(wire) /\ Head(wire) = wire[1]
          /\ Len(wire) \in Nat
      BY <2>1, <3>1
    <3>3. Len(wire) = 1
      <4>1. Len(Tail(wire)) = 0
        <5>1. \A s : s = << >> => Len(s) = 0
          OBVIOUS
        <5>2. Tail(wire) = << >>
          BY <2>2
        <5> QED
          BY <5>1, <5>2
      <4> QED
        BY <3>2, <4>1
    <3>4. wire[1].type = "record" /\ DOMAIN wire = 1 .. 1
      BY <2>1, <3>2, <3>3
    <3>5. \A i \in 1 .. 1 : i = 1
      OBVIOUS
    <3> QED
      BY <3>4, <3>5
  <2>4. PICK r \in 1 .. EndOfTurn : r = stored + 1 /\ r <= made /\ Store(r)
    BY <2>1, <2>2
  <2>5. Sending' /\ Watching'
    BY <1>1, <2>1, <2>3, <2>4, StoreText
  <2> QED
    BY <1>3, <2>5
<1>10. CASE ReceiveSpooled
  <2>1. /\ link = "draining" /\ stored < made /\ Store(stored + 1)
        /\ UNCHANGED <<made, produced, torn>>
    BY <1>10 DEF ReceiveSpooled, nodeVars
  <2>2. \A i \in DOMAIN wire : wire[i].type # "text"
    <3>1. wire = << >>
      BY <1>4, <2>1 DEF LiveInv, OnTheWay
    <3> QED
      BY <3>1
  <2>3. stored + 1 \in 1 .. EndOfTurn /\ stored + 1 <= made
    BY <1>4, <2>1, Numbers DEF LiveInv, TypeOK
  <2>4. PICK r \in 1 .. EndOfTurn : r = stored + 1 /\ r <= made /\ Store(r)
    BY <2>1, <2>3
  <2>5. Sending' /\ Watching'
    BY <1>1, <2>1, <2>2, <2>4, StoreText
  <2> QED
    BY <1>3, <2>5
<1> QED
  BY <1>6, <1>7, <1>8, <1>9, <1>10

\* What the client does.
LEMMA ClientText ==
  ASSUME TextInv, LiveInv', Next,
         \/ Snapshot \/ RequestFails \/ Subscribe \/ Activate \/ Submit \/ Receive
         \/ StreamEnds \/ BreakStream
  PROVE  Sending' /\ Showing' /\ Watching'
<1>1. /\ UNCHANGED <<made, produced, stored, wire, torn>>
      /\ projection' = projection \/ projection' = Projected
      /\ projection' = projection \/ Snapshot \/ Subscribe
  BY DEF Snapshot, RequestFails, Subscribe, Activate, Submit, Receive, StreamEnds, BreakStream,
         StreamLost, nodeVars, planeVars
<1>2. Sending'
  BY <1>1, SendingSame
<1>3. /\ LiveInv /\ client \in Clients(epochs) /\ inbox \in Seq(Numbered) /\ pending \in Seq(Numbered)
      /\ inbox \o pending \in Seq(Numbered)
  BY TextTypes, Coming DEF TextInv
<1>4. CASE Snapshot
  BY <1>2, <1>4, SnapshotText
<1>5. CASE Receive
  BY <1>2, <1>5, ReceiveText
<1>6. Snapshot \/ Receive \/ UNCHANGED view
  BY Changes
<1>7. UNCHANGED view => Showing'
  BY <1>1, ShowingKept
<1>8. CASE RequestFails \/ StreamEnds \/ BreakStream
  <2>1. \/ client' = AfterError
        \/ \E spare \in BOOLEAN : client' = [client EXCEPT !.phase = "retry", !.spare = spare]
    BY <1>8 DEF RequestFails, StreamEnds, BreakStream, StreamLost
  <2>2. /\ client'.epoch = client.epoch /\ client'.sequence = client.sequence
        /\ client'.phase \in {"retry", "failed"}
    BY <1>3, <2>1 DEF AfterError, Clients
  <2>3. UNCHANGED <<projection, view>>
    BY <1>8 DEF RequestFails, StreamEnds, BreakStream, StreamLost, planeVars
  <2>4. ~OnStream'
    BY <2>2 DEF OnStream
  <2>5. Watching'
    BY <1>1, <2>2, <2>3, <2>4, WatchingLeft
  <2> QED
    BY <1>2, <1>7, <2>3, <2>5
<1>9. CASE Subscribe
  <2>1. ~OnStream /\ UNCHANGED view
    BY <1>9 DEF Subscribe, OnStream
  <2>2. CASE /\ Replayable(projection') /\ client' = [client EXCEPT !.phase = "opening"]
             /\ inbox' = Replay(projection') /\ pending' = << >>
    <3>1. Watching'
      BY <1>9, <2>1, <2>2, WatchingOpened
    <3> QED
      BY <1>2, <1>7, <2>1, <3>1
  <2>3. CASE client' = AfterRefusal
    <3>1. /\ client'.epoch = client.epoch /\ client'.sequence = client.sequence
          /\ client'.phase \in {"retry", "new", "failed"}
      BY <1>3, <2>3 DEF AfterRefusal, Clients
    <3>2. ~OnStream'
      BY <3>1 DEF OnStream
    <3>3. CASE projection' = projection
      <4>1. Watching'
        BY <1>1, <2>1, <3>1, <3>2, <3>3, WatchingLeft
      <4> QED
        BY <1>2, <1>7, <2>1, <4>1
    <3>4. CASE projection' # projection
      <4>1. projection'.epoch = epochs + 1
        BY <1>1, <1>3, <3>4, ProjectedFacts
      <4>2. Watching'
        BY <1>1, <2>1, <3>1, <3>2, <4>1, WatchingFresh
      <4> QED
        BY <1>2, <1>7, <2>1, <4>2
    <3> QED
      BY <3>3, <3>4
  <2> QED
    BY <1>9, <2>2, <2>3 DEF Subscribe
<1>10. CASE Activate \/ Submit
  <2>1. /\ client'.epoch = client.epoch /\ client'.sequence = client.sequence
        /\ OnStream' <=> OnStream
    BY <1>3, <1>10 DEF Activate, Submit, Clients, OnStream
  <2>2. (inbox \o pending)' = inbox \o pending
    <3>1. CASE Activate
      <4>1. inbox' = inbox \o pending /\ pending' = << >>
        BY <3>1 DEF Activate
      <4> QED
        BY <1>3, <4>1, ConcatEmptySeq
    <3>2. CASE Submit
      BY <3>2 DEF Submit
    <3> QED
      BY <1>10, <3>1, <3>2
  <2>3. UNCHANGED <<projection, view>>
    BY <1>10 DEF Activate, Submit, planeVars
  <2>4. Watching'
    BY <1>1, <2>1, <2>2, <2>3, WatchingKept
  <2> QED
    BY <1>2, <1>7, <2>3, <2>4
<1> QED
  BY <1>4, <1>5, <1>8, <1>9, <1>10

LEMMA TextNext ==
  ASSUME TextInv, Next
  PROVE  TextInv'
<1>1. LiveInv'
  BY InvariantNext DEF TextInv
<1>2. \/ Delta \/ Record \/ Reconnect \/ LinkReady \/ PlaneStarts \/ BreakLink \/ PlaneStops
      \/ Evict \/ ReceiveRecord \/ ReceiveSpooled \/ ReceiveDelta
      \/ Snapshot \/ RequestFails \/ Subscribe \/ Activate \/ Submit \/ Receive
      \/ StreamEnds \/ BreakStream
  BY DEF Next, Proceed
<1>3. Sending' /\ Showing' /\ Watching'
  BY <1>1, <1>2, PlaneText, ClientText
<1> QED
  BY <1>1, <1>3 DEF TextInv

(***************************************************************************)
(* Whatever links, streams and processes break, a client shows a beginning *)
(* of what the model wrote, nothing twice, and the whole of a message that *)
(* it calls complete; except of a message some of whose deltas were lost.  *)
(* The numbers of the chunks do it (projection.ts:101): the plane takes    *)
(* the next one only, a client skips what it has, and the record of a      *)
(* message is sent behind all of its deltas.                               *)
(***************************************************************************)
THEOREM TextTrueHolds == Spec => []TextTrue
<1>1. Init => TextInv
  BY TextInit
<1>2. TextInv /\ [Next]_vars => TextInv'
  BY TextNext, TextStutter
<1>3. TextInv => TextTrue
  <2> SUFFICES ASSUME TextInv, NEW m \in Messages \ torn
               PROVE  /\ Len(view.shown[m]) <= Chunks
                      /\ view.shown[m] = SubSeq(Text, 1, Len(view.shown[m]))
                      /\ m \in view.done => view.shown[m] = Text
    BY DEF TextTrue
  <2> DEFINE t == view.shown[m]
  <2>1. /\ t \in Seq(1 .. Chunks) /\ Len(t) \in Nat /\ Prefix(t) /\ Chunks \in Nat
        /\ m \in view.done => Len(t) = Chunks
    BY TextTypes, Numbers DEF TextInv, Showing, Untorn
  <2> HIDE DEF t
  <2>2. Len(t) <= Chunks /\ \A i \in 1 .. Len(t) : t[i] = i
    BY <2>1 DEF Prefix
  <2>3. Text \in Seq(1 .. Chunks) /\ Len(Text) = Chunks /\ \A k \in 1 .. Chunks : Text[k] = k
    <3>1. Text \in [1 .. Chunks -> 1 .. Chunks] /\ \A k \in 1 .. Chunks : Text[k] = k
      BY Numbers DEF Text
    <3>2. \A S : \A n \in Nat : \A s \in [1 .. n -> S] : s \in Seq(S) /\ Len(s) = n
      OBVIOUS
    <3> QED
      BY <2>1, <3>1, <3>2
  <2>4. PICK u : u = SubSeq(Text, 1, Len(t))
    OBVIOUS
  <2>5. u \in Seq(1 .. Chunks) /\ Len(u) = Len(t) /\ \A i \in 1 .. Len(t) : u[i] = Text[i]
    BY <2>1, <2>2, <2>3, <2>4
  <2>6. \A a, b \in Seq(1 .. Chunks) : Len(a) = Len(b) /\ (\A i \in 1 .. Len(a) : a[i] = b[i]) => a = b
    BY SeqEqual
  <2>7. t = u
    <3>1. \A i \in 1 .. Len(t) : i \in 1 .. Chunks
      BY <2>1, <2>2
    <3>2. Len(t) = Len(u) /\ \A i \in 1 .. Len(t) : t[i] = u[i]
      BY <2>2, <2>3, <2>5, <3>1
    <3> QED
      BY <2>1, <2>5, <2>6, <3>2
  <2>8. m \in view.done => t = Text
    <3>1. SUFFICES ASSUME m \in view.done
                   PROVE  t = Text
      OBVIOUS
    <3>2. Len(t) = Len(Text)
      BY <2>1, <2>3, <3>1
    <3>3. \A i \in 1 .. Len(t) : t[i] = Text[i]
      BY <2>1, <2>2, <2>3, <3>2
    <3> QED
      BY <2>1, <2>3, <2>6, <3>2, <3>3
  <2>9. Len(t) <= Chunks /\ t = SubSeq(Text, 1, Len(t)) /\ (m \in view.done => t = Text)
    BY <2>2, <2>4, <2>7, <2>8, Zenon
  <2> QED
    BY <2>9 DEF t
<1> QED
  BY <1>1, <1>2, <1>3, PTL DEF Spec
=============================================================================
