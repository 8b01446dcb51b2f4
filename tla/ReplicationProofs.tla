------------------------- MODULE ReplicationProofs -------------------------
(***************************************************************************)
(* The plane's log of a session is one unbroken chain, for any number of   *)
(* records, lost connections, crashes, restarts and failing writes.        *)
(*                                                                         *)
(* The chain is extended only by what continues it, and writing a record   *)
(* changes the predecessor of no record on the plane: for the latter the   *)
(* records on the plane must be records that were written, and so must be  *)
(* those in the spool, in a frame and in a frame of a lost connection.     *)
(*                                                                         *)
(* Until a write of the plane fails nothing is rejected.  For this all the *)
(* copies of the records must be parts of one sequence w, the log of the   *)
(* session: the plane has its beginning, the spool file its end from a     *)
(* place that the plane has reached, and each batch on the way, of this    *)
(* connection or a lost one, a part that begins where the plane's log has  *)
(* reached.  An open spool stands at the end of w.  One batch at most is   *)
(* unanswered, it ends where everything that was sent ends, and a history  *)
(* that is on its way has what was acknowledged before it.                 *)
(*                                                                         *)
(* The same w is the log of CanonicalLog, which the link implements.       *)
(***************************************************************************)
EXTENDS Replication, SequenceFacts, FiniteSetTheorems, TLAPS

-----------------------------------------------------------------------------
(* Sequences. *)

\* The last element of a sequence is one of its elements.
LEMMA LastElement ==
  ASSUME NEW S, NEW s \in Seq(S), s # << >>
  PROVE  Last(s) \in S /\ Last(s) = s[Len(s)] /\ Head(s) \in S
  BY DEF Last

LEMMA LastOfType ==
  ASSUME NEW n \in Nat, NEW s \in Seq(1 .. n)
  PROVE  LastOf(s) \in 0 .. n
  BY DEF LastOf, Nothing, Last

LEMMA Prefix ==
  ASSUME NEW S, NEW s \in Seq(S), NEW k \in 0 .. Len(s)
  PROVE  SubSeq(s, 1, k) \in Seq(S)
  OBVIOUS

\* Records that were written stay records that were written.
LEMMA Widen ==
  ASSUME NEW m \in Nat, NEW n \in Nat, m <= n, NEW s \in Seq(1 .. m)
  PROVE  s \in Seq(1 .. n)
  OBVIOUS

LEMMA MissingType ==
  ASSUME NEW S, NEW records \in Seq(S), NEW log
  PROVE  Missing(records, log) \in Seq(S)
<1> DEFINE had == {k \in DOMAIN records : \A i \in 1 .. k : records[i] \in ToSet(log)}
<1>1. had \subseteq 1 .. Len(records) /\ Len(records) \in Nat
  OBVIOUS
<1>2. Cardinality(had) \in Nat
  <2>1. IsFiniteSet(1 .. Len(records))
    BY <1>1, FS_Interval
  <2> HIDE DEF had
  <2>2. IsFiniteSet(had)
    BY <1>1, <2>1, FS_Subset
  <2> QED BY <2>2, FS_CardinalityType
<1>3. Missing(records, log) = SubSeq(records, Cardinality(had) + 1, Len(records))
  BY DEF Missing
<1> HIDE DEF had
<1>4. ASSUME NEW n \in Nat PROVE SubSeq(records, n + 1, Len(records)) \in Seq(S)
  OBVIOUS
<1> QED BY <1>2, <1>3, <1>4

LEMMA AfterType ==
  ASSUME NEW S, NEW records \in Seq(S), NEW id
  PROVE  After(records, id) \in Seq(S)
<1>1. CASE id \in ToSet(records)
  <2> DEFINE k == CHOOSE j \in DOMAIN records : records[j] = id
  <2>1. \E j \in DOMAIN records : records[j] = id
    BY <1>1 DEF ToSet
  <2>2. k \in DOMAIN records
    BY <2>1
  <2>3. After(records, id) = SubSeq(records, k + 1, Len(records))
    BY <1>1 DEF After
  <2> HIDE DEF k
  <2> QED BY <2>2, <2>3
<1>2. CASE id \notin ToSet(records)
  BY <1>2 DEF After
<1> QED BY <1>1, <1>2

-----------------------------------------------------------------------------
(* The inductive invariant. *)

\* A batch, and an answer to one, names at least one record.
BatchesNotEmpty ==
  /\ \A k \in DOMAIN toPlane : toPlane[k].type = "records" => toPlane[k].records # << >>
  /\ \A k \in DOMAIN toNode : toNode[k].type \in {"ack", "reject"} => toNode[k].records # << >>

ChainInv == TypeOK /\ BatchesNotEmpty /\ ChainUnbroken

USE DEF Nothing, SessionRecord

\* Frames of records written stay frames of records written.
LEMMA WidenFrames ==
  ASSUME TypeOK, issued' \in Nat, issued <= issued', NEW s \in Seq(Frame)
  PROVE  s \in Seq(Frame')
<1>1. ASSUME NEW f \in Frame PROVE f \in Frame'
  <2>1. f.records \in Seq(1 .. issued')
    BY <1>1, Widen DEF TypeOK, Frame
  <2> QED BY <2>1, <1>1 DEF Frame
<1> QED BY <1>1

\* One more frame, or one less.
LEMMA SendFrame ==
  ASSUME NEW s \in Seq(Frame), NEW f \in Frame
  PROVE  /\ Append(s, f) \in Seq(Frame)
         /\ \A k \in DOMAIN Append(s, f) : Append(s, f)[k] = f \/ \E j \in DOMAIN s : Append(s, f)[k] = s[j]
<1> HIDE DEF Frame
<1> QED OBVIOUS

LEMMA TakeFrame ==
  ASSUME NEW s \in Seq(Frame), s # << >>
  PROVE  /\ Head(s) \in Frame /\ Head(s) = s[1] /\ 1 \in DOMAIN s
         /\ Tail(s) \in Seq(Frame)
         /\ \A k \in DOMAIN Tail(s) : \E j \in DOMAIN s : Tail(s)[k] = s[j]
<1>1. /\ Head(s) \in Frame /\ Head(s) = s[1] /\ Tail(s) \in Seq(Frame)
      /\ Len(s) \in Nat \ {0} /\ DOMAIN s = 1 .. Len(s)
      /\ DOMAIN Tail(s) = 1 .. Len(s) - 1
      /\ \A k \in 1 .. Len(s) - 1 : Tail(s)[k] = s[k + 1]
  OBVIOUS
<1>2. \A k \in 1 .. Len(s) - 1 : k + 1 \in DOMAIN s
  BY <1>1
<1> QED BY <1>1, <1>2

LEMMA BatchesInFlight ==
  ASSUME TypeOK
  PROVE  InFlight \subseteq Seq(1 .. issued) /\ late \subseteq Seq(1 .. issued)
<1>1. toPlane \in Seq(Frame) /\ late \in SUBSET Seq(1 .. issued)
  BY DEF TypeOK
<1>2. \A k \in DOMAIN toPlane : toPlane[k] \in Frame
  BY <1>1
<1>3. \A k \in DOMAIN toPlane : toPlane[k].records \in Seq(1 .. issued)
  BY <1>2 DEF Frame
<1> QED BY <1>1, <1>3 DEF InFlight

\* What continues the chain extends it.
LEMMA ExtendChain ==
  ASSUME canon \in Seq(1 .. issued), ChainUnbroken, NEW fresh \in Seq(1 .. issued),
         \A k \in DOMAIN fresh : previous[fresh[k]] = IF k = 1 THEN LastOf(canon) ELSE fresh[k - 1]
  PROVE  \A k \in DOMAIN (canon \o fresh) :
           previous[(canon \o fresh)[k]] = IF k = 1 THEN Nothing ELSE (canon \o fresh)[k - 1]
<1>0. \A k \in DOMAIN canon : previous[canon[k]] = IF k = 1 THEN Nothing ELSE canon[k - 1]
  BY DEF ChainUnbroken
<1> TAKE k \in DOMAIN (canon \o fresh)
<1>1. /\ Len(canon) \in Nat /\ DOMAIN canon = 1 .. Len(canon)
      /\ Len(fresh) \in Nat /\ DOMAIN fresh = 1 .. Len(fresh)
      /\ k \in 1 .. Len(canon) + Len(fresh)
      /\ \A i \in 1 .. Len(canon) : (canon \o fresh)[i] = canon[i]
      /\ \A i \in Len(canon) + 1 .. Len(canon) + Len(fresh) :
           (canon \o fresh)[i] = fresh[i - Len(canon)]
  OBVIOUS
<1>2. CASE k <= Len(canon)
  BY <1>0, <1>1, <1>2
<1>3. CASE k = Len(canon) + 1
  <2>1. previous[fresh[1]] = LastOf(canon) /\ (canon \o fresh)[k] = fresh[1]
    BY <1>1, <1>3
  <2>2. CASE canon = << >>
    BY <1>1, <1>3, <2>1, <2>2 DEF LastOf
  <2>3. CASE canon # << >>
    <3>1. LastOf(canon) = canon[Len(canon)] /\ Len(canon) \in DOMAIN canon
      BY <1>1, <2>3 DEF LastOf, Last
    <3> QED BY <1>1, <1>3, <2>1, <3>1
  <2> QED BY <2>2, <2>3
<1>4. CASE k > Len(canon) + 1
  <2>1. /\ k - Len(canon) \in DOMAIN fresh /\ k - Len(canon) # 1
        /\ (canon \o fresh)[k] = fresh[k - Len(canon)]
        /\ (canon \o fresh)[k - 1] = fresh[(k - Len(canon)) - 1]
    BY <1>1, <1>4
  <2> QED BY <1>1, <1>4, <2>1
<1> QED BY <1>1, <1>2, <1>3, <1>4

\* An accepted batch, or the prefix of it that was written, extends the chain.
LEMMA StoreExtends ==
  ASSUME TypeOK, ChainUnbroken, NEW records \in Seq(1 .. issued), Continues(records),
         NEW fresh \in Seq(1 .. issued),
         fresh = Fresh(records) \/ \E n \in Nat : fresh = SubSeq(Fresh(records), 1, n)
                                                  /\ n <= Len(Fresh(records)),
         canon' = canon \o fresh, UNCHANGED <<previous, issued>>
  PROVE  canon' \in Seq(1 .. issued) /\ ChainUnbroken'
<1> DEFINE all == Fresh(records)
<1>1. all \in Seq(1 .. issued)
  BY MissingType DEF Fresh
<1>2. \A k \in DOMAIN all : previous[all[k]] = IF k = 1 THEN LastOf(canon) ELSE all[k - 1]
  BY DEF Continues
<1>8. fresh = all \/ \E n \in Nat : fresh = SubSeq(all, 1, n) /\ n <= Len(all)
  OBVIOUS
<1> HIDE DEF all
<1>3. \A k \in DOMAIN fresh :
        k \in DOMAIN all /\ fresh[k] = all[k] /\ (k # 1 => fresh[k - 1] = all[k - 1])
  <2>1. CASE fresh = all
    BY <2>1
  <2>2. ASSUME NEW n \in Nat, fresh = SubSeq(all, 1, n), n <= Len(all)
        PROVE  \A k \in DOMAIN fresh :
                 k \in DOMAIN all /\ fresh[k] = all[k] /\ (k # 1 => fresh[k - 1] = all[k - 1])
    BY <1>1, <2>2
  <2> QED BY <1>8, <2>1, <2>2
<1>4. \A k \in DOMAIN fresh : previous[fresh[k]] = IF k = 1 THEN LastOf(canon) ELSE fresh[k - 1]
  BY <1>2, <1>3
<1>5. canon \in Seq(1 .. issued)
  BY DEF TypeOK
<1>7. \A k \in DOMAIN (canon \o fresh) :
        previous[(canon \o fresh)[k]] = IF k = 1 THEN Nothing ELSE (canon \o fresh)[k - 1]
  BY <1>4, <1>5, ExtendChain
<1>9. canon' \in Seq(1 .. issued)
  BY <1>5
<1>10. ChainUnbroken'
  BY <1>7 DEF ChainUnbroken
<1> QED BY <1>9, <1>10

LEMMA StoreKeeps ==
  ASSUME TypeOK, ChainUnbroken, NEW records \in Seq(1 .. issued), Store(records),
         UNCHANGED <<previous, issued>>
  PROVE  canon' \in Seq(1 .. issued) /\ known' \in {"no", "yes", "unreadable"} /\ ChainUnbroken'
<1>1. CASE Accepts(records)
  <2>1. Fresh(records) \in Seq(1 .. issued)
    BY MissingType DEF Fresh
  <2>2. canon' = canon \o Fresh(records) /\ known' = "yes" /\ Continues(records)
    BY <1>1 DEF Store, Accepts
  <2> QED BY <2>1, <2>2, StoreExtends
<1>2. CASE ~Accepts(records)
  BY <1>2 DEF Store, planeVars, TypeOK, ChainUnbroken
<1> QED BY <1>1, <1>2

-----------------------------------------------------------------------------
(* Every step keeps the invariant. *)

LEMMA ChainInit == Init => ChainInv
<1> SUFFICES ASSUME Init PROVE ChainInv
  OBVIOUS
<1>1. TypeOK
  <2>1. 0 \in 0 .. MaxRecords /\ 0 \in 0 .. MaxDrops /\ 0 \in 0 .. MaxCrashes
        /\ 0 \in 0 .. MaxRestarts /\ 0 \in 0 .. MaxFaults
    BY ReplicationAssumption
  <2>2. << >> \in Seq(1 .. 0) /\ << >> \in Seq(Frame) /\ {} \in SUBSET Seq(1 .. 0)
    OBVIOUS
  <2>3. previous \in [Records -> 0 .. issued] /\ spool \in [open: BOOLEAN, last: 0 .. issued]
    BY DEF Init, Closed
  <2>4. /\ file \in Seq(1 .. issued) /\ canon \in Seq(1 .. issued)
        /\ late \in SUBSET Seq(1 .. issued)
        /\ toPlane \in Seq(Frame) /\ toNode \in Seq(Frame)
    BY <2>2 DEF Init
  <2>5. issued \in 0 .. MaxRecords /\ awaiting \in 0 .. issued
    BY <2>1 DEF Init
  <2>6. /\ drops \in 0 .. MaxDrops /\ crashes \in 0 .. MaxCrashes
        /\ restarts \in 0 .. MaxRestarts /\ faults \in 0 .. MaxFaults
    BY <2>1 DEF Init
  <2>7. /\ fragment \in BOOLEAN /\ wanted \in BOOLEAN /\ known \in {"no", "yes", "unreadable"}
        /\ session \in {"absent", "loading", "cached"}
        /\ link \in {"down", "welcomed", "draining", "drained", "ready"}
    BY DEF Init
  <2> QED BY <2>3, <2>4, <2>5, <2>6, <2>7 DEF TypeOK
<1>2. BatchesNotEmpty /\ ChainUnbroken
  BY DEF Init, BatchesNotEmpty, ChainUnbroken
<1> QED BY <1>1, <1>2 DEF ChainInv

LEMMA WriteKeeps ==
  ASSUME ChainInv, WriteRecord, session' \in {"absent", "loading", "cached"}
  PROVE  ChainInv'
<1> USE ReplicationAssumption
<1>1. /\ TypeOK /\ BatchesNotEmpty /\ ChainUnbroken
      /\ issued \in 0 .. MaxRecords /\ issued' = issued + 1 /\ issued' \in 0 .. MaxRecords
      /\ UNCHANGED <<toPlane, toNode, late, canon, known>>
  BY DEF ChainInv, WriteRecord, TypeOK, planeVars
<1>2. toPlane' \in Seq(Frame') /\ toNode' \in Seq(Frame')
  BY <1>1, WidenFrames DEF TypeOK
<1>3. canon' \in Seq(1 .. issued') /\ late' \in SUBSET Seq(1 .. issued')
  BY <1>1, Widen DEF TypeOK
<1>4. file' \in Seq(1 .. issued')
  <2>1. file \in Seq(1 .. issued') /\ issued' \in 1 .. issued'
    BY <1>1, Widen DEF TypeOK
  <2> QED BY <2>1 DEF WriteRecord
<1>5. /\ previous' \in [Records -> 0 .. issued'] /\ spool' \in [open: BOOLEAN, last: 0 .. issued']
      /\ awaiting' \in 0 .. issued' /\ wanted' \in BOOLEAN
  BY <1>1 DEF WriteRecord, TypeOK, Records
<1>6. TypeOK'
  BY <1>1, <1>2, <1>3, <1>4, <1>5 DEF WriteRecord, TypeOK, bounds
<1>7. ChainUnbroken'
  <2>1. \A k \in DOMAIN canon : canon[k] \in 1 .. issued
    BY <1>1 DEF TypeOK
  <2>2. \A r \in 1 .. issued : previous'[r] = previous[r]
    BY <1>1 DEF WriteRecord, TypeOK, Records
  <2> QED BY <1>1, <2>1, <2>2 DEF ChainUnbroken
<1>8. BatchesNotEmpty'
  BY <1>1 DEF BatchesNotEmpty
<1> QED BY <1>6, <1>7, <1>8 DEF ChainInv

\* A lost connection leaves batches that were on it.
LEMMA LeaveFramesType ==
  ASSUME TypeOK, LeaveFrames
  PROVE  late' \subseteq Seq(1 .. issued)
  BY BatchesInFlight DEF LeaveFrames

\* Without a new record a frame is what it was.
LEMMA SameFrame == UNCHANGED issued => Frame' = Frame
  BY DEF Frame

\* Steps that leave the plane, the frames and what was written alone.
LEMMA LocalKeeps ==
  ASSUME ChainInv,
         UNCHANGED <<previous, issued, canon, known, toPlane, toNode, late, drops, crashes,
                     restarts, faults>>,
         file' \in Seq(1 .. issued), fragment' \in BOOLEAN,
         spool' \in [open: BOOLEAN, last: 0 .. issued],
         session' \in {"absent", "loading", "cached"},
         link' \in {"down", "welcomed", "draining", "drained", "ready"},
         awaiting' \in 0 .. issued, wanted' \in BOOLEAN
  PROVE  ChainInv'
<1>1. TypeOK'
  BY SameFrame DEF ChainInv, TypeOK
<1>2. BatchesNotEmpty' /\ ChainUnbroken'
  BY DEF ChainInv, BatchesNotEmpty, ChainUnbroken
<1> QED BY <1>1, <1>2 DEF ChainInv

\* Steps of the node that send a frame.
LEMMA SendKeeps ==
  ASSUME ChainInv, NEW f \in Frame, f.type = "records" => f.records # << >>,
         toPlane' = Append(toPlane, f),
         UNCHANGED <<previous, issued, file, fragment, spool, canon, known, toNode, late, drops,
                     crashes, restarts, faults>>,
         session' \in {"absent", "loading", "cached"},
         link' \in {"down", "welcomed", "draining", "drained", "ready"},
         awaiting' \in 0 .. issued, wanted' \in BOOLEAN
  PROVE  ChainInv'
<1>1. toPlane \in Seq(Frame) /\ Frame' = Frame
  BY SameFrame DEF ChainInv, TypeOK
<1>2. toPlane' \in Seq(Frame')
  BY <1>1, SendFrame
<1>3. TypeOK'
  BY <1>1, <1>2 DEF ChainInv, TypeOK
<1>4. ChainUnbroken'
  BY DEF ChainInv, ChainUnbroken
<1>5. ASSUME NEW k \in DOMAIN toPlane', toPlane'[k].type = "records"
      PROVE  toPlane'[k].records # << >>
  <2>1. toPlane'[k] = f \/ \E j \in DOMAIN toPlane : toPlane'[k] = toPlane[j]
    BY <1>1, <1>5, SendFrame
  <2> QED BY <1>5, <2>1 DEF ChainInv, BatchesNotEmpty
<1>6. BatchesNotEmpty'
  BY <1>5 DEF ChainInv, BatchesNotEmpty
<1> QED BY <1>3, <1>4, <1>6 DEF ChainInv

\* Steps of the plane that take a frame and answer it.
LEMMA AnswerKeeps ==
  ASSUME ChainInv, NEW f \in Frame, f.type \in {"ack", "reject"} => f.records # << >>,
         toPlane # << >>, toPlane' = Tail(toPlane), toNode' = Append(toNode, f),
         UNCHANGED <<previous, issued, file, fragment, nodeVars, late, drops, crashes, restarts>>,
         canon' \in Seq(1 .. issued), known' \in {"no", "yes", "unreadable"}, ChainUnbroken',
         faults' \in 0 .. MaxFaults
  PROVE  ChainInv'
<1>1. toPlane \in Seq(Frame) /\ toNode \in Seq(Frame) /\ Frame' = Frame
  BY SameFrame DEF ChainInv, TypeOK
<1>2. toPlane' \in Seq(Frame') /\ toNode' \in Seq(Frame')
  BY <1>1, SendFrame, TakeFrame
<1>3. TypeOK'
  BY <1>1, <1>2 DEF ChainInv, TypeOK, nodeVars
<1>4. ASSUME NEW k \in DOMAIN toNode', toNode'[k].type \in {"ack", "reject"}
      PROVE  toNode'[k].records # << >>
  <2>1. toNode'[k] = f \/ \E j \in DOMAIN toNode : toNode'[k] = toNode[j]
    BY <1>1, <1>4, SendFrame
  <2> QED BY <1>4, <2>1 DEF ChainInv, BatchesNotEmpty
<1>5. ASSUME NEW k \in DOMAIN toPlane', toPlane'[k].type = "records"
      PROVE  toPlane'[k].records # << >>
  <2>1. \E j \in DOMAIN toPlane : toPlane'[k] = toPlane[j]
    BY <1>1, <1>5, TakeFrame
  <2> QED BY <1>5, <2>1 DEF ChainInv, BatchesNotEmpty
<1>6. BatchesNotEmpty'
  BY <1>4, <1>5 DEF BatchesNotEmpty
<1> QED BY <1>3, <1>6 DEF ChainInv

\* Steps of the node that take a frame.
LEMMA ReceiveKeeps ==
  ASSUME ChainInv, toNode # << >>, toNode' = Tail(toNode),
         UNCHANGED <<previous, issued, canon, known, toPlane, late, drops, crashes, restarts,
                     faults>>,
         file' \in Seq(1 .. issued), fragment' \in BOOLEAN,
         spool' \in [open: BOOLEAN, last: 0 .. issued],
         session' \in {"absent", "loading", "cached"},
         link' \in {"down", "welcomed", "draining", "drained", "ready"},
         awaiting' \in 0 .. issued, wanted' \in BOOLEAN
  PROVE  ChainInv'
<1>1. toNode \in Seq(Frame) /\ Frame' = Frame
  BY SameFrame DEF ChainInv, TypeOK
<1>2. toNode' \in Seq(Frame')
  BY <1>1, TakeFrame
<1>3. TypeOK'
  BY <1>1, <1>2 DEF ChainInv, TypeOK
<1>4. ChainUnbroken'
  BY DEF ChainInv, ChainUnbroken
<1>5. ASSUME NEW k \in DOMAIN toNode', toNode'[k].type \in {"ack", "reject"}
      PROVE  toNode'[k].records # << >>
  <2>1. \E j \in DOMAIN toNode : toNode'[k] = toNode[j]
    BY <1>1, <1>5, TakeFrame
  <2> QED BY <1>5, <2>1 DEF ChainInv, BatchesNotEmpty
<1>6. BatchesNotEmpty'
  BY <1>5 DEF ChainInv, BatchesNotEmpty
<1> QED BY <1>3, <1>4, <1>6 DEF ChainInv

\* Steps that lose the connection.
LEMMA UnlinkKeeps ==
  ASSUME ChainInv, Unlink, late' \subseteq Seq(1 .. issued),
         UNCHANGED <<previous, issued>>,
         canon' \in Seq(1 .. issued), known' \in {"no", "yes", "unreadable"}, ChainUnbroken',
         file' \in Seq(1 .. issued), fragment' \in BOOLEAN,
         spool' \in [open: BOOLEAN, last: 0 .. issued],
         session' \in {"absent", "loading", "cached"},
         drops' \in 0 .. MaxDrops, crashes' \in 0 .. MaxCrashes,
         restarts' \in 0 .. MaxRestarts, faults' \in 0 .. MaxFaults
  PROVE  ChainInv'
<1>1. /\ link' = "down" /\ awaiting' = 0 /\ wanted' = FALSE
      /\ toPlane' = << >> /\ toNode' = << >>
  BY DEF Unlink
<1>2. << >> \in Seq(Frame')
  OBVIOUS
<1>3. awaiting' \in 0 .. issued
  BY <1>1 DEF ChainInv, TypeOK
<1>4. TypeOK'
  BY <1>1, <1>2, <1>3 DEF ChainInv, TypeOK
<1>5. BatchesNotEmpty'
  BY <1>1 DEF BatchesNotEmpty
<1> QED BY <1>4, <1>5 DEF ChainInv

LEMMA LinkSteps == ChainInv /\ Link => ChainInv'
<1> SUFFICES ASSUME ChainInv, Link PROVE ChainInv'
  OBVIOUS
<1>1. /\ previous \in [Records -> 0 .. issued] /\ issued \in Nat
      /\ file \in Seq(1 .. issued) /\ fragment \in BOOLEAN
      /\ spool \in [open: BOOLEAN, last: 0 .. issued]
      /\ session \in {"absent", "loading", "cached"}
      /\ link \in {"down", "welcomed", "draining", "drained", "ready"}
      /\ awaiting \in 0 .. issued /\ wanted \in BOOLEAN
      /\ toPlane \in Seq(Frame) /\ toNode \in Seq(Frame)
  BY DEF ChainInv, TypeOK
<1>2. Pending \in Seq(1 .. issued)
  <2>1. << >> \in Seq(1 .. issued)
    OBVIOUS
  <2> QED BY <1>1, <2>1 DEF Pending
<1>3. NoLongerLoading \in {"absent", "loading", "cached"}
  BY <1>1 DEF NoLongerLoading
<1>4. ASSUME toNode # << >>
      PROVE  Head(toNode) \in Frame /\ Head(toNode).records \in Seq(1 .. issued)
  <2>1. Head(toNode) \in Frame
    BY <1>1, <1>4, TakeFrame
  <2> QED BY <2>1 DEF Frame
<1>5. ASSUME NEW id PROVE Awaits(id) \in 0 .. issued
  BY <1>1 DEF Awaits
<1>6. Closed \in [open: BOOLEAN, last: 0 .. issued] /\ << >> \in Seq(1 .. issued)
  BY <1>1 DEF Closed
<1>7. CASE Flush
  <2>1. F("records", Pending) \in Frame /\ Last(Pending) \in 1 .. issued
    BY <1>2, <1>7, LastElement DEF Flush, F, Frame
  <2>2. F("records", Pending).records # << >>
    BY <1>7 DEF Flush, F
  <2>3. toPlane' = Append(toPlane, F("records", Pending)) /\ awaiting' \in 0 .. issued
    BY <1>1, <1>7, <2>1 DEF Flush
  <2>4. /\ wanted' = FALSE
        /\ UNCHANGED <<previous, issued, file, fragment, spool, canon, known, toNode, late,
                       drops, crashes, restarts, faults, session, link>>
    BY <1>7 DEF Flush, diskVars, planeVars, bounds
  <2> QED BY <1>1, <2>1, <2>2, <2>3, <2>4, SendKeeps
<1>8. CASE Connect
  BY <1>1, <1>8, LocalKeeps DEF Connect, diskVars, planeVars, bounds
<1>9. CASE ReadSpool
  <2>1. spool' \in [open: BOOLEAN, last: 0 .. issued]
    BY <1>1, <1>9, LastElement DEF ReadSpool
  <2> QED BY <1>1, <1>9, <2>1, LocalKeeps DEF ReadSpool, planeVars, bounds
<1>10. CASE SpoolUnreadable
  BY <1>1, <1>10, LocalKeeps DEF SpoolUnreadable, diskVars, planeVars, bounds
<1>11. CASE SendDrained
  <2>1. F("drained", << >>) \in Frame /\ F("drained", << >>).type # "records"
    BY <1>6 DEF F, Frame
  <2> QED BY <1>1, <1>11, <2>1, SendKeeps DEF SendDrained, diskVars, planeVars, bounds
<1>12. CASE ReceiveAck
  <2>1. file' \in Seq(1 .. issued) /\ awaiting' \in 0 .. issued
    BY <1>1, <1>5, <1>12, AfterType DEF ReceiveAck
  <2> QED BY <1>1, <1>12, <2>1, ReceiveKeeps DEF ReceiveAck, Answer, planeVars, bounds
<1>13. CASE ReceiveReject
  BY <1>1, <1>5, <1>6, <1>13, ReceiveKeeps DEF ReceiveReject, Answer, planeVars, bounds
<1>14. CASE ReceiveRejectDraining
  <2>1. late' \subseteq Seq(1 .. issued)
    BY <1>14, LeaveFramesType DEF ReceiveRejectDraining, ChainInv
  <2>2. canon' \in Seq(1 .. issued) /\ known' \in {"no", "yes", "unreadable"} /\ ChainUnbroken'
    BY <1>14 DEF ReceiveRejectDraining, planeVars, ChainInv, TypeOK, ChainUnbroken
  <2>3. /\ drops' \in 0 .. MaxDrops /\ crashes' \in 0 .. MaxCrashes
        /\ restarts' \in 0 .. MaxRestarts /\ faults' \in 0 .. MaxFaults
    BY <1>14 DEF ReceiveRejectDraining, bounds, ChainInv, TypeOK
  <2> QED BY <1>3, <1>6, <1>14, <2>1, <2>2, <2>3, UnlinkKeeps DEF ReceiveRejectDraining
<1>15. CASE ReceiveReady
  BY <1>1, <1>15, ReceiveKeeps DEF ReceiveReady, Answer, diskVars, planeVars, bounds
<1>16. CASE ReceiveHistory
  <2> DEFINE history == Head(toNode).records
             pending == Missing(Pending, history)
  <2>1. history \in Seq(1 .. issued)
    BY <1>4, <1>16 DEF ReceiveHistory, Answer
  <2>2. pending \in Seq(1 .. issued)
    BY <1>2, MissingType
  <2>3. /\ file' = pending
        /\ spool' \in {OpenOn(pending, history), spool}
        /\ session' \in {"cached", "absent"}
    BY <1>16 DEF ReceiveHistory
  <2> HIDE DEF history, pending
  <2>4. OpenOn(pending, history) \in [open: BOOLEAN, last: 0 .. issued]
    <3>1. LastOf(history) \in 0 .. issued
      BY <1>1, <2>1, LastOfType
    <3>2. pending # << >> => Last(pending) \in 1 .. issued
      BY <2>2, LastElement
    <3> QED BY <1>1, <3>1, <3>2 DEF OpenOn
  <2> QED BY <1>1, <1>16, <2>2, <2>3, <2>4, ReceiveKeeps
          DEF ReceiveHistory, Answer, planeVars, bounds
<1>17. CASE ReceiveUnavailable
  BY <1>1, <1>17, ReceiveKeeps DEF ReceiveUnavailable, Answer, diskVars, planeVars, bounds
<1> QED BY <1>7, <1>8, <1>9, <1>10, <1>11, <1>12, <1>13, <1>14, <1>15, <1>16, <1>17 DEF Link

LEMMA PlaneSteps == ChainInv /\ (Plane \/ WriteFails \/ HandleLate) => ChainInv'
<1> SUFFICES ASSUME ChainInv, Plane \/ WriteFails \/ HandleLate PROVE ChainInv'
  OBVIOUS
<1>1. /\ TypeOK /\ BatchesNotEmpty /\ ChainUnbroken /\ toPlane \in Seq(Frame)
      /\ canon \in Seq(1 .. issued) /\ known \in {"no", "yes", "unreadable"}
      /\ late \subseteq Seq(1 .. issued) /\ faults \in 0 .. MaxFaults
  BY DEF ChainInv, TypeOK
<1>2. ASSUME UNCHANGED <<previous, planeVars>>
      PROVE  canon' = canon /\ known' = known /\ ChainUnbroken'
  BY <1>1, <1>2 DEF planeVars, ChainUnbroken
<1>3. ASSUME Receive("records")
      PROVE  /\ Head(toPlane).records \in Seq(1 .. issued) /\ Head(toPlane).records # << >>
             /\ <<Last(Head(toPlane).records)>> \in Seq(1 .. issued)
  <2>1. Head(toPlane) \in Frame /\ Head(toPlane) = toPlane[1] /\ 1 \in DOMAIN toPlane
    BY <1>1, <1>3, TakeFrame DEF Receive
  <2>2. Head(toPlane).records \in Seq(1 .. issued) /\ Head(toPlane).records # << >>
    BY <1>1, <1>3, <2>1 DEF Receive, Frame, BatchesNotEmpty
  <2>3. Last(Head(toPlane).records) \in 1 .. issued
    BY <2>2, LastElement
  <2> QED BY <2>2, <2>3
<1>4. \A type \in {"ack", "reject", "ready", "history", "unavailable"}, r \in Seq(1 .. issued) :
        F(type, r) \in Frame /\ F(type, r).type = type /\ F(type, r).records = r
  BY DEF F, Frame
<1>5. CASE HandleRecords
  <2> DEFINE records == Head(toPlane).records
             answer == F(IF Accepts(records) THEN "ack" ELSE "reject", <<Last(records)>>)
  <2>1. /\ Receive("records") /\ Store(records) /\ toNode' = Append(toNode, answer)
        /\ UNCHANGED <<diskVars, nodeVars, late, bounds>>
    BY <1>5 DEF HandleRecords
  <2>2. answer \in Frame /\ answer.records # << >>
    <3>1. <<Last(records)>> \in Seq(1 .. issued) /\ <<Last(records)>> # << >>
      BY <1>3, <2>1
    <3>2. answer = F("ack", <<Last(records)>>) \/ answer = F("reject", <<Last(records)>>)
      OBVIOUS
    <3> HIDE DEF records, answer
    <3>3. /\ F("ack", <<Last(records)>>) \in Frame
          /\ F("ack", <<Last(records)>>).records = <<Last(records)>>
          /\ F("reject", <<Last(records)>>) \in Frame
          /\ F("reject", <<Last(records)>>).records = <<Last(records)>>
      BY <1>4, <3>1
    <3> QED BY <3>1, <3>2, <3>3
  <2>3. canon' \in Seq(1 .. issued) /\ known' \in {"no", "yes", "unreadable"} /\ ChainUnbroken'
    BY <1>1, <1>3, <2>1, StoreKeeps DEF diskVars
  <2> HIDE DEF records, answer
  <2> QED BY <1>1, <2>1, <2>2, <2>3, AnswerKeeps DEF Receive, diskVars, bounds
<1>6. CASE WriteFails
  <2> DEFINE records == Head(toPlane).records
             answer == F("reject", <<Last(records)>>)
  <2>1. /\ Receive("records") /\ toNode' = Append(toNode, answer)
        /\ Accepts(records) /\ canon' \in {canon, canon \o Fresh(records)} /\ known' = "yes"
        /\ faults < MaxFaults /\ faults' = faults + 1
        /\ UNCHANGED <<diskVars, nodeVars, late, drops, crashes, restarts>>
    BY <1>6 DEF WriteFails
  <2>2. answer \in Frame /\ answer.records # << >>
    <3>1. <<Last(records)>> \in Seq(1 .. issued) /\ <<Last(records)>> # << >>
      BY <1>3, <2>1
    <3> QED BY <1>4, <3>1
  <2>3. canon' \in Seq(1 .. issued) /\ ChainUnbroken'
    <3>1. CASE canon' = canon
      BY <1>1, <2>1, <3>1 DEF diskVars, ChainUnbroken
    <3>2. CASE canon' = canon \o Fresh(records)
      <4>1. records \in Seq(1 .. issued) /\ Fresh(records) \in Seq(1 .. issued)
        BY <1>3, <2>1, MissingType DEF Fresh
      <4>2. Continues(records) /\ UNCHANGED <<previous, issued>>
        BY <2>1 DEF Accepts, diskVars
      <4> HIDE DEF records
      <4> QED BY <1>1, <3>2, <4>1, <4>2, StoreExtends
    <3> QED BY <2>1, <3>1, <3>2
  <2>4. faults' \in 0 .. MaxFaults
    BY <1>1, <2>1, ReplicationAssumption
  <2> HIDE DEF records, answer
  <2> QED BY <1>1, <2>1, <2>2, <2>3, <2>4, AnswerKeeps DEF Receive, diskVars
<1>7. CASE HandleDrained
  <2>1. F("ready", << >>) \in Frame /\ F("ready", << >>).type = "ready"
    <3>1. << >> \in Seq(1 .. issued)
      OBVIOUS
    <3> QED BY <1>4, <3>1
  <2>2. canon' = canon /\ known' = known /\ ChainUnbroken'
    BY <1>2, <1>7 DEF HandleDrained, diskVars
  <2> QED BY <1>1, <1>7, <2>1, <2>2, AnswerKeeps DEF HandleDrained, Receive, diskVars, bounds
<1>8. CASE HandleLoad
  <2> DEFINE answer == IF known = "unreadable" THEN F("unavailable", << >>)
                                                ELSE F("history", canon)
  <2>1. answer \in Frame /\ answer.type \notin {"ack", "reject"}
    <3>1. << >> \in Seq(1 .. issued)
      OBVIOUS
    <3>2. /\ F("unavailable", << >>) \in Frame /\ F("unavailable", << >>).type = "unavailable"
          /\ F("history", canon) \in Frame /\ F("history", canon).type = "history"
      BY <1>1, <1>4, <3>1
    <3> QED BY <3>2
  <2>2. canon' = canon /\ known' = known /\ ChainUnbroken'
    BY <1>2, <1>8 DEF HandleLoad, diskVars
  <2>3. toNode' = Append(toNode, answer)
    BY <1>8 DEF HandleLoad
  <2> HIDE DEF answer
  <2> QED BY <1>1, <1>8, <2>1, <2>2, <2>3, AnswerKeeps
          DEF HandleLoad, Receive, diskVars, bounds
<1>9. CASE HandleLate
  <2>1. PICK records \in late : Store(records) /\ late' = late \ {records}
    BY <1>9 DEF HandleLate
  <2>2. UNCHANGED <<previous, issued, file, fragment, nodeVars, toPlane, toNode, bounds>>
    BY <1>9 DEF HandleLate, diskVars
  <2>3. canon' \in Seq(1 .. issued) /\ known' \in {"no", "yes", "unreadable"} /\ ChainUnbroken'
    BY <1>1, <2>1, <2>2, StoreKeeps
  <2>4. TypeOK'
    BY <1>1, <2>1, <2>2, <2>3, SameFrame DEF TypeOK, nodeVars, bounds
  <2>5. BatchesNotEmpty'
    BY <1>1, <2>2 DEF BatchesNotEmpty
  <2> QED BY <2>3, <2>4, <2>5 DEF ChainInv
<1> QED BY <1>5, <1>6, <1>7, <1>8, <1>9 DEF Plane

LEMMA FailureSteps ==
  ChainInv /\ (Disconnect \/ NodeCrash \/ TearAppend \/ TearRewrite \/ PlaneStops) => ChainInv'
<1> SUFFICES ASSUME ChainInv, Disconnect \/ NodeCrash \/ TearAppend \/ TearRewrite \/ PlaneStops
             PROVE  ChainInv'
  OBVIOUS
<1>1. /\ TypeOK /\ ChainUnbroken /\ issued \in Nat
      /\ file \in Seq(1 .. issued) /\ fragment \in BOOLEAN
      /\ spool \in [open: BOOLEAN, last: 0 .. issued]
      /\ session \in {"absent", "loading", "cached"}
      /\ canon \in Seq(1 .. issued) /\ known \in {"no", "yes", "unreadable"}
      /\ late \subseteq Seq(1 .. issued)
      /\ drops \in 0 .. MaxDrops /\ crashes \in 0 .. MaxCrashes
      /\ restarts \in 0 .. MaxRestarts /\ faults \in 0 .. MaxFaults
  BY DEF ChainInv, TypeOK
<1>2. NoLongerLoading \in {"absent", "loading", "cached"}
  BY <1>1 DEF NoLongerLoading
<1>3. ASSUME UNCHANGED <<previous, planeVars>>
      PROVE  canon' = canon /\ known' = known /\ ChainUnbroken'
  BY <1>1, <1>3 DEF planeVars, ChainUnbroken
<1>4. CASE Disconnect
  <2>1. drops' \in 0 .. MaxDrops
    BY <1>1, <1>4, ReplicationAssumption DEF Disconnect
  <2>2. late' \subseteq Seq(1 .. issued)
    BY <1>1, <1>4, LeaveFramesType DEF Disconnect
  <2>3. canon' = canon /\ known' = known /\ ChainUnbroken'
    BY <1>3, <1>4 DEF Disconnect, diskVars
  <2> QED BY <1>1, <1>2, <1>4, <2>1, <2>2, <2>3, UnlinkKeeps DEF Disconnect, diskVars
<1>5. ASSUME NodeStops, file' \in Seq(1 .. issued), fragment' \in BOOLEAN
      PROVE  ChainInv'
  <2>1. crashes' \in 0 .. MaxCrashes
    BY <1>1, <1>5, ReplicationAssumption DEF NodeStops
  <2>2. late' \subseteq Seq(1 .. issued)
    BY <1>1, <1>5, LeaveFramesType DEF NodeStops
  <2>3. canon' = canon /\ known' = known /\ ChainUnbroken'
    BY <1>3, <1>5 DEF NodeStops
  <2>4. spool' \in [open: BOOLEAN, last: 0 .. issued] /\ session' = "absent"
    BY <1>1, <1>5 DEF NodeStops, Closed
  <2> QED BY <1>1, <1>5, <2>1, <2>2, <2>3, <2>4, UnlinkKeeps DEF NodeStops
<1>6. CASE NodeCrash
  BY <1>1, <1>5, <1>6 DEF NodeCrash
<1>7. CASE TearAppend
  BY <1>1, <1>5, <1>7 DEF TearAppend
<1>8. CASE TearRewrite
  <2> DEFINE id == Head(Head(toNode).records)
             remaining == After(Pending, id)
  <2>1. Pending \in Seq(1 .. issued)
    <3>1. << >> \in Seq(1 .. issued)
      OBVIOUS
    <3> QED BY <1>1, <3>1 DEF Pending
  <2>2. remaining \in Seq(1 .. issued)
    BY <2>1, AfterType
  <2>3. NodeStops /\ fragment' \in BOOLEAN
        /\ \E k \in 1 .. Len(remaining) : file' = SubSeq(remaining, 1, k - 1)
    BY <1>8 DEF TearRewrite
  <2> HIDE DEF remaining
  <2>4. PICK k \in 1 .. Len(remaining) : file' = SubSeq(remaining, 1, k - 1)
    BY <2>3
  <2>5. k - 1 \in 0 .. Len(remaining)
    BY <2>2, <2>4
  <2>6. file' \in Seq(1 .. issued)
    BY <2>2, <2>4, <2>5, Prefix
  <2> QED BY <1>5, <2>3, <2>6
<1>9. CASE PlaneStops
  <2>1. restarts' \in 0 .. MaxRestarts
    BY <1>1, <1>9, ReplicationAssumption DEF PlaneStops
  <2>2. /\ Unlink /\ late' = {} /\ session' = NoLongerLoading
        /\ UNCHANGED <<previous, issued, file, fragment, spool, drops, crashes, faults>>
        /\ known' \in {"no", "yes", "unreadable"}
    BY <1>9 DEF PlaneStops, diskVars
  <2>3. canon' \in Seq(1 .. issued) /\ ChainUnbroken'
    <3>1. CASE canon' = canon
      BY <1>1, <2>2, <3>1 DEF ChainUnbroken
    <3>2. ASSUME NEW records \in InFlight \cup late, Accepts(records),
                 NEW k \in 1 .. Len(Fresh(records)),
                 canon' = canon \o SubSeq(Fresh(records), 1, k)
          PROVE  canon' \in Seq(1 .. issued) /\ ChainUnbroken'
      <4>1. records \in Seq(1 .. issued) /\ Continues(records)
        BY <1>1, <3>2, BatchesInFlight DEF Accepts
      <4>2. Fresh(records) \in Seq(1 .. issued)
        BY <4>1, MissingType DEF Fresh
      <4>3. /\ SubSeq(Fresh(records), 1, k) \in Seq(1 .. issued)
            /\ k \in Nat /\ k <= Len(Fresh(records))
        <5> DEFINE all == Fresh(records)
        <5>1. all \in Seq(1 .. issued) /\ k \in 1 .. Len(all)
          BY <4>2
        <5> HIDE DEF all
        <5>2. Len(all) \in Nat
          BY <5>1
        <5>3. k \in Nat /\ k <= Len(all) /\ k \in 0 .. Len(all)
          BY <5>1, <5>2
        <5>4. SubSeq(all, 1, k) \in Seq(1 .. issued)
          BY <5>1, <5>3, Prefix
        <5> QED BY <5>3, <5>4 DEF all
      <4> QED BY <1>1, <2>2, <3>2, <4>1, <4>3, StoreExtends
    <3> QED BY <1>9, <3>1, <3>2 DEF PlaneStops
  <2> QED BY <1>1, <1>2, <2>1, <2>2, <2>3, UnlinkKeeps
<1> QED BY <1>4, <1>6, <1>7, <1>8, <1>9

LEMMA ChainNext == ChainInv /\ [Next]_vars => ChainInv'
<1> SUFFICES ASSUME ChainInv, [Next]_vars PROVE ChainInv'
  OBVIOUS
<1>1. CASE CreateSession
  BY <1>1, WriteKeeps DEF CreateSession
<1>2. CASE AppendRecord
  BY <1>2, WriteKeeps DEF AppendRecord, ChainInv, TypeOK
<1>3. CASE Link
  BY <1>3, LinkSteps
<1>4. CASE Load
  <2>1. F("load", << >>) \in Frame /\ F("load", << >>).type # "records"
    <3>1. << >> \in Seq(1 .. issued)
      OBVIOUS
    <3> QED BY <3>1 DEF F, Frame
  <2>2. /\ toPlane' = Append(toPlane, F("load", << >>)) /\ session' = "loading"
        /\ UNCHANGED <<previous, issued, file, fragment, spool, canon, known, toNode, late, drops,
                       crashes, restarts, faults, link, awaiting, wanted>>
    BY <1>4 DEF Load, diskVars, planeVars, bounds
  <2>3. /\ link \in {"down", "welcomed", "draining", "drained", "ready"}
        /\ awaiting \in 0 .. issued /\ wanted \in BOOLEAN
    BY DEF ChainInv, TypeOK
  <2> QED BY <2>1, <2>2, <2>3, SendKeeps
<1>5. CASE Plane \/ WriteFails \/ HandleLate
  BY <1>5, PlaneSteps
<1>6. CASE Disconnect \/ NodeCrash \/ TearAppend \/ TearRewrite \/ PlaneStops
  BY <1>6, FailureSteps
<1>7. CASE UNCHANGED vars
  <2>1. UNCHANGED <<previous, issued, file, fragment, spool, session, link, awaiting, wanted,
                    toPlane, toNode, late, canon, known, drops, crashes, restarts, faults>>
    BY <1>7 DEF vars, diskVars, nodeVars, planeVars, bounds
  <2>2. /\ file \in Seq(1 .. issued) /\ fragment \in BOOLEAN
        /\ spool \in [open: BOOLEAN, last: 0 .. issued]
        /\ session \in {"absent", "loading", "cached"}
        /\ link \in {"down", "welcomed", "draining", "drained", "ready"}
        /\ awaiting \in 0 .. issued /\ wanted \in BOOLEAN
    BY DEF ChainInv, TypeOK
  <2> QED BY <2>1, <2>2, LocalKeeps
<1> QED BY <1>1, <1>2, <1>3, <1>4, <1>5, <1>6, <1>7 DEF Next, Writing, Failures

-----------------------------------------------------------------------------
(* Theorems. *)

\* The invariant holds of every behaviour of the link.
THEOREM ChainInvariant == Spec => []ChainInv
<1>1. Init => ChainInv
  BY ChainInit
<1>2. ChainInv /\ [Next]_vars => ChainInv'
  BY ChainNext
<1> QED BY <1>1, <1>2, PTL DEF Spec

\* Every variable of the link and the plane keeps its type.
THEOREM LinkTypeCorrect == Spec => []TypeOK
<1>1. ChainInv => TypeOK
  BY DEF ChainInv
<1> QED BY <1>1, ChainInvariant, PTL

(***************************************************************************)
(* SessionLog.appendRecords keeps the plane's log of a session one         *)
(* unbroken chain, whatever the spool of the node sends it and however     *)
(* often either side stops.                                                *)
(***************************************************************************)
THEOREM ChainUnbrokenHolds == Spec => []ChainUnbroken
<1>1. ChainInv => ChainUnbroken
  BY DEF ChainInv
<1> QED BY <1>1, ChainInvariant, PTL

-----------------------------------------------------------------------------
(* Parts of a chain. *)

\* The sequence b is what follows the first i elements of w, or a beginning of it.
Segment(b, w, i) == i + Len(b) <= Len(w) /\ \A k \in 1 .. Len(b) : b[k] = w[i + k]

LEMMA CutSegment ==
  ASSUME NEW S, NEW w \in Seq(S), NEW b \in Seq(S), NEW i \in Nat, Segment(b, w, i),
         NEW k \in 0 .. Len(b)
  PROVE  /\ SubSeq(b, 1, k) \in Seq(S) /\ Len(SubSeq(b, 1, k)) = k
         /\ Segment(SubSeq(b, 1, k), w, i)
         /\ SubSeq(b, k + 1, Len(b)) \in Seq(S) /\ Len(SubSeq(b, k + 1, Len(b))) = Len(b) - k
         /\ Segment(SubSeq(b, k + 1, Len(b)), w, i + k)
<1>1. /\ Len(b) \in Nat /\ Len(w) \in Nat /\ k \in Nat /\ k <= Len(b) /\ i + Len(b) <= Len(w)
      /\ \A j \in 1 .. Len(b) : b[j] = w[i + j]
  BY DEF Segment
<1>2. PICK s : s = SubSeq(b, 1, k)
  OBVIOUS
<1>3. s \in Seq(S) /\ Len(s) = k /\ \A j \in 1 .. k : s[j] = b[j]
  BY <1>1, <1>2
<1>4. Segment(s, w, i)
  <2>1. \A j \in 1 .. k : j \in 1 .. Len(b)
    BY <1>1
  <2>2. i + k <= Len(w)
    BY <1>1
  <2> QED
    BY <1>1, <1>3, <2>1, <2>2 DEF Segment
<1>5. PICK t : t = SubSeq(b, k + 1, Len(b))
  OBVIOUS
<1>6. t \in Seq(S) /\ Len(t) = Len(b) - k /\ \A j \in 1 .. Len(b) - k : t[j] = b[k + j]
  BY <1>1, <1>5
<1>7. Segment(t, w, i + k)
  <2>1. (i + k) + Len(t) <= Len(w)
    BY <1>1, <1>6
  <2>2. ASSUME NEW j \in 1 .. Len(t)
        PROVE  t[j] = w[(i + k) + j]
    <3>1. k + j \in 1 .. Len(b) /\ j \in Nat /\ t[j] = b[k + j]
      BY <1>1, <1>6
    <3>2. b[k + j] = w[i + (k + j)]
      BY <1>1, <3>1
    <3>3. i + (k + j) = (i + k) + j
      BY <1>1, <3>1
    <3> QED
      BY <3>1, <3>2, <3>3
  <2> QED
    BY <2>1, <2>2 DEF Segment
<1> QED
  BY <1>2, <1>3, <1>4, <1>5, <1>6, <1>7, Zenon

LEMMA JoinSegment ==
  ASSUME NEW S, NEW w \in Seq(S), NEW log \in Seq(S), Segment(log, w, 0),
         NEW m \in Seq(S), Segment(m, w, Len(log))
  PROVE  /\ log \o m \in Seq(S) /\ Len(log \o m) = Len(log) + Len(m)
         /\ Segment(log \o m, w, 0)
<1>1. /\ Len(log) \in Nat /\ Len(m) \in Nat /\ Len(w) \in Nat /\ Len(log) + Len(m) <= Len(w)
      /\ \A k \in 1 .. Len(log) : log[k] = w[0 + k]
      /\ \A k \in 1 .. Len(m) : m[k] = w[Len(log) + k]
  BY DEF Segment
<1>2. PICK c : c = log \o m
  OBVIOUS
<1>3. /\ c \in Seq(S) /\ Len(c) = Len(log) + Len(m)
      /\ \A k \in 1 .. Len(log) : c[k] = log[k]
      /\ \A k \in Len(log) + 1 .. Len(log) + Len(m) : c[k] = m[k - Len(log)]
  BY <1>2
<1>4. ASSUME NEW k \in 1 .. Len(c)
      PROVE  c[k] = w[0 + k]
  <2>1. CASE k <= Len(log)
    BY <1>1, <1>3, <2>1
  <2>2. CASE k > Len(log)
    <3>1. k - Len(log) \in 1 .. Len(m) /\ k \in Len(log) + 1 .. Len(log) + Len(m)
          /\ Len(log) + (k - Len(log)) = 0 + k
      BY <1>1, <1>3, <2>2
    <3>2. c[k] = m[k - Len(log)] /\ m[k - Len(log)] = w[Len(log) + (k - Len(log))]
      BY <1>1, <1>3, <3>1
    <3> QED
      BY <3>1, <3>2
  <2> QED
    BY <1>1, <1>3, <2>1, <2>2
<1>5. Segment(c, w, 0)
  BY <1>1, <1>3, <1>4 DEF Segment
<1> QED
  BY <1>2, <1>3, <1>5, Zenon

\* Of a part of a chain without repetitions a log that is a beginning of it misses the rest.
LEMMA MissingSegment ==
  ASSUME NEW S, NEW w \in Seq(S), \A i, j \in 1 .. Len(w) : w[i] = w[j] => i = j,
         NEW log \in Seq(S), Segment(log, w, 0),
         NEW b \in Seq(S), NEW i \in Nat, i <= Len(log), Segment(b, w, i)
  PROVE  /\ Missing(b, log) \in Seq(S) /\ Segment(Missing(b, log), w, Len(log))
         /\ IF i + Len(b) <= Len(log) THEN Missing(b, log) = << >>
            ELSE Len(log) + Len(Missing(b, log)) = i + Len(b)
         /\ \E d \in 0 .. Len(b) : Missing(b, log) = SubSeq(b, d + 1, Len(b))
<1>1. PICK n \in Nat, l \in Nat, u \in Nat : n = Len(log) /\ l = Len(b) /\ u = Len(w)
  OBVIOUS
<1>2. /\ i <= n /\ i + l <= u /\ n <= u
      /\ DOMAIN b = 1 .. l /\ DOMAIN log = 1 .. n
      /\ \A k \in 1 .. n : log[k] = w[k]
      /\ \A k \in 1 .. l : b[k] = w[i + k]
      /\ \A x, y \in 1 .. u : w[x] = w[y] => x = y
  BY <1>1 DEF Segment
<1>3. PICK d \in 0 .. l : /\ i + d <= n
                          /\ d < l => i + d = n
                          /\ i + l <= n => d = l
  <2>1. CASE i + l <= n
    BY <2>1
  <2>2. CASE ~(i + l <= n)
    <3> n - i \in 0 .. l /\ i + (n - i) = n
      BY <1>2, <2>2
    <3> WITNESS n - i \in 0 .. l
    <3> QED
      BY <2>2
  <2> QED
    BY <2>1, <2>2
<1> DEFINE had == {k \in DOMAIN b : \A j \in 1 .. k : b[j] \in ToSet(log)}
<1>4. ASSUME NEW k \in 1 .. l
      PROVE  b[k] \in ToSet(log) <=> k <= d
  <2>1. k \in Nat /\ d \in Nat /\ i + k \in 1 .. u
    BY <1>2
  <2>2. b[k] = w[i + k]
    BY <1>2
  <2>3. ASSUME k <= d PROVE b[k] \in ToSet(log)
    <3>1. i + k \in 1 .. n
      BY <1>3, <2>1, <2>3
    <3>2. log[i + k] = w[i + k]
      BY <1>2, <3>1
    <3> QED
      BY <1>2, <2>2, <3>1, <3>2 DEF ToSet
  <2>4. ASSUME b[k] \in ToSet(log) PROVE k <= d
    <3>1. PICK j \in 1 .. n : log[j] = b[k]
      BY <1>2, <2>4 DEF ToSet
    <3>2. j \in 1 .. u /\ log[j] = w[j]
      BY <1>2, <3>1
    <3>3. j = i + k
      BY <1>2, <2>1, <2>2, <3>1, <3>2
    <3>4. i + k <= n
      BY <3>1, <3>3
    <3> QED
      BY <1>3, <2>1, <3>4
  <2> QED
    BY <2>3, <2>4
<1>5. had = 1 .. d
  <2>1. ASSUME NEW k \in 1 .. l
        PROVE  (\A j \in 1 .. k : b[j] \in ToSet(log)) <=> k <= d
    <3>1. \A j \in 1 .. k : j \in 1 .. l /\ j <= k
      OBVIOUS
    <3>2. k \in 1 .. k
      OBVIOUS
    <3>3. k <= d => \A j \in 1 .. k : j <= d
      OBVIOUS
    <3> QED
      BY <1>4, <3>1, <3>2, <3>3
  <2>2. \A k : k \in 1 .. d <=> k \in 1 .. l /\ k <= d
    OBVIOUS
  <2> QED
    BY <1>2, <2>1, <2>2
<1>6. Missing(b, log) = SubSeq(b, d + 1, Len(b))
  <2>1. Cardinality(1 .. d) = d
    <3>1. Cardinality(1 .. d) = IF 1 > d THEN 0 ELSE d - 1 + 1
      BY FS_Interval
    <3> QED
      BY <3>1
  <2>2. Missing(b, log) = SubSeq(b, Cardinality(had) + 1, Len(b))
    BY DEF Missing
  <2> QED
    BY <1>5, <2>1, <2>2
<1>7. PICK m : m = Missing(b, log)
  OBVIOUS
<1>8. m \in Seq(S) /\ Len(m) = l - d /\ Segment(m, w, i + d)
  <2>1. Segment(b, w, i) /\ d \in 0 .. Len(b)
    BY <1>1
  <2> QED
    BY <1>1, <1>6, <1>7, <2>1, CutSegment
<1>9. CASE i + l <= n
  <2>1. Len(m) = 0
    BY <1>3, <1>8, <1>9
  <2>2. m = << >>
    BY <1>8, <2>1
  <2>3. Segment(m, w, n)
    BY <1>1, <1>2, <2>1 DEF Segment
  <2> QED
    BY <1>1, <1>6, <1>7, <1>8, <1>9, <2>2, <2>3
<1>10. CASE ~(i + l <= n)
  <2>1. i + d = n /\ n + (l - d) = i + l
    BY <1>3, <1>10
  <2> QED
    BY <1>1, <1>6, <1>7, <1>8, <1>10, <2>1
<1> QED
  BY <1>9, <1>10

-----------------------------------------------------------------------------
(* While no write of the plane has failed. *)

Batches == InFlight \cup late

\* The log of the session, w: the records in the order of writing, each the successor of the last.
Chained(w) ==
  /\ \A i, j \in 1 .. Len(w) : i < j => w[i] < w[j]
  /\ \A k \in 1 .. Len(w) : previous[w[k]] = IF k = 1 THEN Nothing ELSE w[k - 1]
  /\ w # << >> => w[1] = SessionRecord

\* The plane has a beginning of it, the spool file the rest after the first o records, and what
\* is on the way begins at most where the plane's log ends.
Parts(w, o) ==
  /\ Segment(canon, w, 0)
  /\ o <= Len(canon) /\ o + Len(file) = Len(w) /\ Segment(file, w, o)
  /\ \A b \in Batches : b # << >> /\ \E i \in 0 .. Len(canon) : Segment(b, w, i)

\* A spool that is open continues it, and a cached session has an open spool.
SpoolAtEnd(w) ==
  /\ spool.open => spool.last = LastOf(w)
  /\ session = "cached" => spool.open /\ w # << >>
  /\ ~spool.open /\ link \in {"draining", "drained", "ready"} => file = << >>

PlaneKnows == known = IF canon = << >> THEN "no" ELSE "yes"

Unconnected == link \in {"down", "welcomed"} => toPlane = << >> /\ toNode = << >>

\* Nothing was sent after the batch whose acknowledgement is awaited.
Awaited ==
  awaiting # Nothing => LastOf(canon) <= awaiting /\ \A b \in Batches : Last(b) <= awaiting

\* The batch awaited, or its acknowledgement, is on the way at most once, and no other is.
Outstanding(id, up, down) ==
  /\ \A k \in DOMAIN up : up[k].type = "records" =>
       /\ id # Nothing /\ Last(up[k].records) = id
       /\ \A j \in DOMAIN up : up[j].type = "records" => j = k
       /\ \A j \in DOMAIN down : down[j].type # "ack"
  /\ \A k \in DOMAIN down : down[k].type = "ack" =>
       /\ id # Nothing /\ down[k].records = <<id>>
       /\ \A j \in DOMAIN down : down[j].type = "ack" => j = k

\* What the plane says on the way down: it has what it acknowledged, and a history is of its log,
\* reaches to the o records that the spool file has no more, and has what was acknowledged before.
Told(down, log, o) ==
  \A k \in DOMAIN down :
    /\ down[k].type # "reject"
    /\ down[k].type = "ack" => Head(down[k].records) \in ToSet(log)
    /\ down[k].type = "history" =>
         /\ Segment(down[k].records, log, 0) /\ o <= Len(down[k].records)
         /\ \A j \in DOMAIN down : j < k /\ down[j].type = "ack" =>
              Head(down[j].records) \in ToSet(down[k].records)
         /\ \A j \in DOMAIN down : j < k /\ down[j].type = "history" =>
              Len(down[j].records) <= Len(down[k].records)

Healthy(w, o) ==
  /\ Chained(w) /\ Parts(w, o) /\ SpoolAtEnd(w)
  /\ PlaneKnows /\ Unconnected /\ Awaited
  /\ Outstanding(awaiting, toPlane, toNode) /\ Told(toNode, canon, o)

LinkInv ==
  /\ ChainInv
  /\ faults = 0 => \E w \in Seq(1 .. issued), o \in Nat : Healthy(w, o)

-----------------------------------------------------------------------------
(* Queues of frames. *)

LEMMA QueueItems ==
  ASSUME NEW S, NEW s \in Seq(S)
  PROVE  /\ DOMAIN s = 1 .. Len(s) /\ Len(s) \in Nat
         /\ \A x : /\ DOMAIN Append(s, x) = 1 .. Len(s) + 1
                   /\ \A k \in 1 .. Len(s) : Append(s, x)[k] = s[k]
                   /\ Append(s, x)[Len(s) + 1] = x
         /\ s # << >> => /\ Head(s) = s[1] /\ 1 \in DOMAIN s
                         /\ DOMAIN Tail(s) = 1 .. Len(s) - 1
                         /\ \A k \in 1 .. Len(s) - 1 : k + 1 \in DOMAIN s /\ Tail(s)[k] = s[k + 1]
<1>1. /\ DOMAIN s = 1 .. Len(s) /\ Len(s) \in Nat
      /\ \A x : /\ DOMAIN Append(s, x) = 1 .. Len(s) + 1
                /\ \A k \in 1 .. Len(s) : Append(s, x)[k] = s[k]
                /\ Append(s, x)[Len(s) + 1] = x
  OBVIOUS
<1>2. s # << >> => /\ Head(s) = s[1] /\ 1 \in DOMAIN s
                   /\ DOMAIN Tail(s) = 1 .. Len(s) - 1
                   /\ \A k \in 1 .. Len(s) - 1 : k + 1 \in DOMAIN s /\ Tail(s)[k] = s[k + 1]
  OBVIOUS
<1> QED
  BY <1>1, <1>2

LEMMA OutstandingKept ==
  ASSUME NEW S, NEW up \in Seq(S), NEW down \in Seq(S), NEW id, Outstanding(id, up, down)
  PROVE  /\ \A f : f.type # "records" => Outstanding(id, Append(up, f), down)
         /\ \A f : f.type # "ack" => Outstanding(id, up, Append(down, f))
         /\ up # << >> => Outstanding(id, Tail(up), down)
         /\ down # << >> => Outstanding(id, up, Tail(down))
<1>1. /\ DOMAIN up = 1 .. Len(up) /\ Len(up) \in Nat
      /\ \A x : /\ DOMAIN Append(up, x) = 1 .. Len(up) + 1
                /\ \A k \in 1 .. Len(up) : Append(up, x)[k] = up[k]
                /\ Append(up, x)[Len(up) + 1] = x
      /\ up # << >> => /\ DOMAIN Tail(up) = 1 .. Len(up) - 1
                       /\ \A k \in 1 .. Len(up) - 1 : k + 1 \in DOMAIN up /\ Tail(up)[k] = up[k + 1]
  BY QueueItems
<1>2. /\ DOMAIN down = 1 .. Len(down) /\ Len(down) \in Nat
      /\ \A x : /\ DOMAIN Append(down, x) = 1 .. Len(down) + 1
                /\ \A k \in 1 .. Len(down) : Append(down, x)[k] = down[k]
                /\ Append(down, x)[Len(down) + 1] = x
      /\ down # << >> => /\ DOMAIN Tail(down) = 1 .. Len(down) - 1
                         /\ \A k \in 1 .. Len(down) - 1 :
                              k + 1 \in DOMAIN down /\ Tail(down)[k] = down[k + 1]
  BY QueueItems
<1>3. /\ \A k \in DOMAIN up : up[k].type = "records" =>
           /\ id # Nothing /\ Last(up[k].records) = id
           /\ \A j \in DOMAIN up : up[j].type = "records" => j = k
           /\ \A j \in DOMAIN down : down[j].type # "ack"
      /\ \A k \in DOMAIN down : down[k].type = "ack" =>
           /\ id # Nothing /\ down[k].records = <<id>>
           /\ \A j \in DOMAIN down : down[j].type = "ack" => j = k
  BY DEF Outstanding
<1>4. ASSUME NEW f, f.type # "records"
      PROVE  Outstanding(id, Append(up, f), down)
  <2>1. PICK a : a = Append(up, f)
    OBVIOUS
  <2>2. /\ DOMAIN a = 1 .. Len(up) + 1 /\ \A k \in 1 .. Len(up) : a[k] = up[k]
        /\ a[Len(up) + 1] = f
    BY <1>1, <2>1
  <2>3. \A k \in DOMAIN a : a[k].type = "records" => k \in DOMAIN up /\ a[k] = up[k]
    BY <1>1, <1>4, <2>2
  <2>4. Outstanding(id, a, down)
    BY <1>3, <2>3 DEF Outstanding
  <2> QED
    BY <2>1, <2>4
<1>5. ASSUME NEW f, f.type # "ack"
      PROVE  Outstanding(id, up, Append(down, f))
  <2>1. PICK a : a = Append(down, f)
    OBVIOUS
  <2>2. /\ DOMAIN a = 1 .. Len(down) + 1 /\ \A k \in 1 .. Len(down) : a[k] = down[k]
        /\ a[Len(down) + 1] = f
    BY <1>2, <2>1
  <2>3. \A k \in DOMAIN a : a[k].type = "ack" => k \in DOMAIN down /\ a[k] = down[k]
    BY <1>2, <1>5, <2>2
  <2>4. Outstanding(id, up, a)
    BY <1>3, <2>3 DEF Outstanding
  <2> QED
    BY <2>1, <2>4
<1>6. ASSUME up # << >>
      PROVE  Outstanding(id, Tail(up), down)
  <2>1. PICK a : a = Tail(up)
    OBVIOUS
  <2>2. \A k \in DOMAIN a : k \in Nat /\ k + 1 \in DOMAIN up /\ a[k] = up[k + 1]
    BY <1>1, <1>6, <2>1
  <2>3. Outstanding(id, a, down)
    BY <1>3, <2>2 DEF Outstanding
  <2> QED
    BY <2>1, <2>3
<1>7. ASSUME down # << >>
      PROVE  Outstanding(id, up, Tail(down))
  <2>1. PICK a : a = Tail(down)
    OBVIOUS
  <2>2. \A k \in DOMAIN a : k \in Nat /\ k + 1 \in DOMAIN down /\ a[k] = down[k + 1]
    BY <1>2, <1>7, <2>1
  <2>3. Outstanding(id, up, a)
    BY <1>3, <2>2 DEF Outstanding
  <2> QED
    BY <2>1, <2>3
<1> QED
  BY <1>4, <1>5, <1>6, <1>7

\* A batch is sent, then acknowledged, then the acknowledgement received.
LEMMA OutstandingPasses ==
  ASSUME NEW S, NEW up \in Seq(S), NEW down \in Seq(S), NEW id, Outstanding(id, up, down)
  PROVE  /\ id = Nothing => \A f : f.type = "records" /\ Last(f.records) # Nothing =>
                              Outstanding(Last(f.records), Append(up, f), down)
         /\ up # << >> /\ Head(up).type = "records" =>
              /\ Last(Head(up).records) = id
              /\ \A f : f.type = "ack" /\ f.records = <<id>> =>
                   Outstanding(id, Tail(up), Append(down, f))
         /\ down # << >> /\ Head(down).type = "ack" =>
              Head(down).records = <<id>> /\ Outstanding(Nothing, up, Tail(down))
<1>1. /\ DOMAIN up = 1 .. Len(up) /\ Len(up) \in Nat
      /\ \A x : /\ DOMAIN Append(up, x) = 1 .. Len(up) + 1
                /\ \A k \in 1 .. Len(up) : Append(up, x)[k] = up[k]
                /\ Append(up, x)[Len(up) + 1] = x
      /\ up # << >> => /\ Head(up) = up[1] /\ 1 \in DOMAIN up
                       /\ DOMAIN Tail(up) = 1 .. Len(up) - 1
                       /\ \A k \in 1 .. Len(up) - 1 : k + 1 \in DOMAIN up /\ Tail(up)[k] = up[k + 1]
  BY QueueItems
<1>2. /\ DOMAIN down = 1 .. Len(down) /\ Len(down) \in Nat
      /\ \A x : /\ DOMAIN Append(down, x) = 1 .. Len(down) + 1
                /\ \A k \in 1 .. Len(down) : Append(down, x)[k] = down[k]
                /\ Append(down, x)[Len(down) + 1] = x
      /\ down # << >> => /\ Head(down) = down[1] /\ 1 \in DOMAIN down
                         /\ DOMAIN Tail(down) = 1 .. Len(down) - 1
                         /\ \A k \in 1 .. Len(down) - 1 :
                              k + 1 \in DOMAIN down /\ Tail(down)[k] = down[k + 1]
  BY QueueItems
<1>3. /\ \A k \in DOMAIN up : up[k].type = "records" =>
           /\ id # Nothing /\ Last(up[k].records) = id
           /\ \A j \in DOMAIN up : up[j].type = "records" => j = k
           /\ \A j \in DOMAIN down : down[j].type # "ack"
      /\ \A k \in DOMAIN down : down[k].type = "ack" =>
           /\ id # Nothing /\ down[k].records = <<id>>
           /\ \A j \in DOMAIN down : down[j].type = "ack" => j = k
  BY DEF Outstanding
<1>4. ASSUME id = Nothing, NEW f, f.type = "records" /\ Last(f.records) # Nothing
      PROVE  Outstanding(Last(f.records), Append(up, f), down)
  <2>1. PICK a : a = Append(up, f)
    OBVIOUS
  <2>2. /\ DOMAIN a = 1 .. Len(up) + 1 /\ \A k \in 1 .. Len(up) : a[k] = up[k]
        /\ a[Len(up) + 1] = f
    BY <1>1, <2>1
  <2>3. /\ \A k \in DOMAIN up : up[k].type # "records"
        /\ \A k \in DOMAIN down : down[k].type # "ack"
    BY <1>3, <1>4
  <2>4. \A k \in DOMAIN a : a[k].type = "records" => k = Len(up) + 1 /\ a[k] = f
    BY <1>1, <2>2, <2>3
  <2>5. Outstanding(Last(f.records), a, down)
    BY <1>4, <2>3, <2>4 DEF Outstanding
  <2> QED
    BY <2>1, <2>5
<1>5. ASSUME up # << >>, Head(up).type = "records"
      PROVE  /\ Last(Head(up).records) = id
             /\ \A f : f.type = "ack" /\ f.records = <<id>> =>
                  Outstanding(id, Tail(up), Append(down, f))
  <2>1. /\ id # Nothing /\ Last(Head(up).records) = id
        /\ \A j \in DOMAIN up : up[j].type = "records" => j = 1
        /\ \A j \in DOMAIN down : down[j].type # "ack"
    BY <1>1, <1>3, <1>5
  <2>2. ASSUME NEW f, f.type = "ack", f.records = <<id>>
        PROVE  Outstanding(id, Tail(up), Append(down, f))
    <3>1. PICK a, t : a = Append(down, f) /\ t = Tail(up)
      OBVIOUS
    <3>2. /\ DOMAIN a = 1 .. Len(down) + 1 /\ \A k \in 1 .. Len(down) : a[k] = down[k]
          /\ a[Len(down) + 1] = f
      BY <1>2, <3>1
    <3>3. \A k \in DOMAIN a : a[k].type = "ack" => k = Len(down) + 1 /\ a[k] = f
      BY <1>2, <2>1, <3>2
    <3>4. \A k \in DOMAIN t : k \in Nat /\ k + 1 \in DOMAIN up /\ k + 1 # 1 /\ t[k] = up[k + 1]
      <4>1. \A k \in DOMAIN t : k \in 1 .. Len(up) - 1
        BY <1>1, <1>5, <3>1
      <4> QED
        BY <1>1, <1>5, <3>1, <4>1
    <3>5. \A k \in DOMAIN t : t[k].type # "records"
      BY <2>1, <3>4
    <3>6. Outstanding(id, t, a)
      BY <2>1, <2>2, <3>3, <3>5 DEF Outstanding
    <3> QED
      BY <3>1, <3>6
  <2> QED
    BY <2>1, <2>2
<1>6. ASSUME down # << >>, Head(down).type = "ack"
      PROVE  Head(down).records = <<id>> /\ Outstanding(Nothing, up, Tail(down))
  <2>1. /\ Head(down).records = <<id>>
        /\ \A j \in DOMAIN down : down[j].type = "ack" => j = 1
        /\ \A j \in DOMAIN up : up[j].type # "records"
    BY <1>2, <1>3, <1>6
  <2>2. PICK t : t = Tail(down)
    OBVIOUS
  <2>3. \A k \in DOMAIN t : k \in Nat /\ k + 1 \in DOMAIN down /\ k + 1 # 1 /\ t[k] = down[k + 1]
    <3>1. \A k \in DOMAIN t : k \in 1 .. Len(down) - 1
      BY <1>2, <1>6, <2>2
    <3> QED
      BY <1>2, <1>6, <2>2, <3>1
  <2>4. \A k \in DOMAIN t : t[k].type # "ack"
    BY <2>1, <2>3
  <2>5. Outstanding(Nothing, up, t)
    BY <2>1, <2>4 DEF Outstanding
  <2> QED
    BY <2>1, <2>2, <2>5
<1> QED
  BY <1>4, <1>5, <1>6

LEMMA SegmentOfSegment ==
  ASSUME NEW S, NEW a \in Seq(S), NEW b \in Seq(S), NEW w \in Seq(S),
         Segment(a, b, 0), Segment(b, w, 0)
  PROVE  Segment(a, w, 0) /\ Len(a) <= Len(b) /\ ToSet(a) \subseteq ToSet(b)
<1>1. /\ Len(a) \in Nat /\ Len(b) \in Nat /\ Len(w) \in Nat
      /\ Len(a) <= Len(b) /\ Len(b) <= Len(w)
      /\ \A k \in 1 .. Len(a) : k \in Nat /\ k \in 1 .. Len(b)
      /\ DOMAIN a = 1 .. Len(a) /\ DOMAIN b = 1 .. Len(b)
  BY DEF Segment
<1>2. /\ \A k \in 1 .. Len(a) : a[k] = b[0 + k] /\ 0 + k = k
      /\ \A k \in 1 .. Len(b) : b[k] = w[0 + k]
  BY <1>1 DEF Segment
<1>3. \A k \in 1 .. Len(a) : a[k] = w[0 + k] /\ a[k] = b[k]
  BY <1>1, <1>2
<1>4. Segment(a, w, 0)
  BY <1>1, <1>3 DEF Segment
<1>5. ToSet(a) \subseteq ToSet(b)
  BY <1>1, <1>3 DEF ToSet
<1> QED
  BY <1>1, <1>4, <1>5

\* What the plane sends, what the node takes, and a log that grows.
LEMMA ToldKept ==
  ASSUME NEW S, NEW T, NEW down \in Seq(S), \A k \in DOMAIN down : down[k].records \in Seq(T),
         NEW log \in Seq(T), NEW o \in Nat, Told(down, log, o)
  PROVE  /\ \A f : \/ f.type \notin {"reject", "ack", "history"}
                   \/ f.type = "ack" /\ Head(f.records) \in ToSet(log)
                   \/ f.type = "history" /\ f.records = log /\ o <= Len(log)
                   => Told(Append(down, f), log, o)
         /\ \A p \in Nat :
              /\ down # << >>
              /\ \A k \in DOMAIN down : k > 1 /\ down[k].type = "history" => p <= Len(down[k].records)
              => Told(Tail(down), log, p)
         /\ \A longer \in Seq(T) : Segment(log, longer, 0) => Told(down, longer, o)
<1>1. /\ DOMAIN down = 1 .. Len(down) /\ Len(down) \in Nat
      /\ \A x : /\ DOMAIN Append(down, x) = 1 .. Len(down) + 1
                /\ \A k \in 1 .. Len(down) : Append(down, x)[k] = down[k]
                /\ Append(down, x)[Len(down) + 1] = x
      /\ down # << >> => /\ DOMAIN Tail(down) = 1 .. Len(down) - 1
                         /\ \A k \in 1 .. Len(down) - 1 :
                              k + 1 \in DOMAIN down /\ Tail(down)[k] = down[k + 1]
  BY QueueItems
<1>2. \A k \in DOMAIN down :
        /\ down[k].type # "reject"
        /\ down[k].type = "ack" => Head(down[k].records) \in ToSet(log)
        /\ down[k].type = "history" =>
             /\ Segment(down[k].records, log, 0) /\ o <= Len(down[k].records)
             /\ \A j \in DOMAIN down : j < k /\ down[j].type = "ack" =>
                  Head(down[j].records) \in ToSet(down[k].records)
             /\ \A j \in DOMAIN down : j < k /\ down[j].type = "history" =>
                  Len(down[j].records) <= Len(down[k].records)
  BY DEF Told
<1>3. ASSUME NEW f,
             \/ f.type \notin {"reject", "ack", "history"}
             \/ f.type = "ack" /\ Head(f.records) \in ToSet(log)
             \/ f.type = "history" /\ f.records = log /\ o <= Len(log)
      PROVE  Told(Append(down, f), log, o)
  <2>1. PICK a : a = Append(down, f)
    OBVIOUS
  <2>2. /\ DOMAIN a = 1 .. Len(down) + 1 /\ \A k \in 1 .. Len(down) : a[k] = down[k]
        /\ a[Len(down) + 1] = f
    BY <1>1, <2>1
  <2>3. \A j \in DOMAIN a, k \in DOMAIN down : j < k => j \in DOMAIN down /\ a[j] = down[j]
    BY <1>1, <2>2
  <2>4. \A j \in DOMAIN a : j < Len(down) + 1 => j \in DOMAIN down /\ a[j] = down[j]
    BY <1>1, <2>2
  <2>5. ASSUME f.type = "history"
        PROVE  /\ Segment(f.records, log, 0) /\ o <= Len(f.records)
               /\ \A j \in DOMAIN down : down[j].type = "history" =>
                    Len(down[j].records) <= Len(f.records)
    <3>1. f.records = log /\ o <= Len(log)
      BY <1>3, <2>5
    <3>2. Segment(log, log, 0)
      <4>1. 0 + Len(log) <= Len(log) /\ \A k \in 1 .. Len(log) : 0 + k = k
        OBVIOUS
      <4> QED
        BY <4>1 DEF Segment
    <3>3. \A j \in DOMAIN down : down[j].type = "history" => Len(down[j].records) <= Len(log)
      BY <1>2, <3>2, SegmentOfSegment
    <3> QED
      BY <3>1, <3>2, <3>3
  <2>6. ASSUME NEW k \in DOMAIN a
        PROVE  /\ a[k].type # "reject"
               /\ a[k].type = "ack" => Head(a[k].records) \in ToSet(log)
               /\ a[k].type = "history" =>
                    /\ Segment(a[k].records, log, 0) /\ o <= Len(a[k].records)
                    /\ \A j \in DOMAIN a : j < k /\ a[j].type = "ack" =>
                         Head(a[j].records) \in ToSet(a[k].records)
                    /\ \A j \in DOMAIN a : j < k /\ a[j].type = "history" =>
                         Len(a[j].records) <= Len(a[k].records)
    <3>1. CASE k \in DOMAIN down
      <4>1. a[k] = down[k]
        BY <1>1, <2>2, <3>1
      <4> QED
        BY <1>2, <2>3, <3>1, <4>1
    <3>2. CASE k = Len(down) + 1
      <4>1. a[k] = f
        BY <2>2, <3>2
      <4>2. f.type = "history" => f.records = log
        BY <1>3
      <4> QED
        BY <1>2, <1>3, <2>4, <2>5, <3>2, <4>1, <4>2
    <3> QED
      BY <1>1, <2>2, <3>1, <3>2
  <2>7. Told(a, log, o)
    BY <2>6 DEF Told
  <2> QED
    BY <2>1, <2>7
<1>4. ASSUME NEW p \in Nat, down # << >>,
             \A k \in DOMAIN down : k > 1 /\ down[k].type = "history" => p <= Len(down[k].records)
      PROVE  Told(Tail(down), log, p)
  <2>1. PICK t : t = Tail(down)
    OBVIOUS
  <2>2. \A k \in DOMAIN t : /\ k \in Nat /\ k + 1 \in DOMAIN down /\ k + 1 > 1 /\ t[k] = down[k + 1]
                            /\ \A j \in DOMAIN t : j < k => j + 1 < k + 1
    <3>1. DOMAIN t = 1 .. Len(down) - 1
      BY <1>1, <1>4, <2>1
    <3>2. \A k \in 1 .. Len(down) - 1 : k \in Nat /\ k + 1 > 1
      BY <1>1
    <3>3. \A j, k \in 1 .. Len(down) - 1 : j < k => j + 1 < k + 1
      BY <1>1
    <3> QED
      BY <1>1, <1>4, <2>1, <3>1, <3>2, <3>3
  <2>3. Told(t, log, p)
    BY <1>2, <1>4, <2>2 DEF Told
  <2> QED
    BY <2>1, <2>3
<1>5. ASSUME NEW longer \in Seq(T), Segment(log, longer, 0)
      PROVE  Told(down, longer, o)
  <2>1. ToSet(log) \subseteq ToSet(longer)
    <3>1. Segment(longer, longer, 0)
      <4>1. 0 + Len(longer) <= Len(longer) /\ \A k \in 1 .. Len(longer) : 0 + k = k
        OBVIOUS
      <4> QED
        BY <4>1 DEF Segment
    <3> QED
      BY <1>5, <3>1, SegmentOfSegment
  <2>2. \A k \in DOMAIN down : Segment(down[k].records, log, 0) => Segment(down[k].records, longer, 0)
    BY <1>5, SegmentOfSegment
  <2> QED
    BY <1>2, <2>1, <2>2 DEF Told
<1> QED
  BY <1>3, <1>4, <1>5

\* The batches on the way when a frame is sent or taken, or the connection is lost.
LEMMA BatchesChange ==
  ASSUME TypeOK
  PROVE  /\ \A f : toPlane' = Append(toPlane, f) =>
                     /\ InFlight' \subseteq InFlight \cup {f.records}
                     /\ f.type # "records" => InFlight' \subseteq InFlight
         /\ toPlane # << >> /\ toPlane' = Tail(toPlane) => InFlight' \subseteq InFlight
         /\ toPlane' = toPlane => InFlight' \subseteq InFlight
         /\ toPlane' = << >> => InFlight' = {}
         /\ toPlane # << >> /\ Head(toPlane).type = "records" => Head(toPlane).records \in InFlight
<1>1. toPlane \in Seq(Frame)
  BY DEF TypeOK
<1>2. /\ DOMAIN toPlane = 1 .. Len(toPlane) /\ Len(toPlane) \in Nat
      /\ \A x : /\ DOMAIN Append(toPlane, x) = 1 .. Len(toPlane) + 1
                /\ \A k \in 1 .. Len(toPlane) : Append(toPlane, x)[k] = toPlane[k]
                /\ Append(toPlane, x)[Len(toPlane) + 1] = x
      /\ toPlane # << >> => /\ Head(toPlane) = toPlane[1] /\ 1 \in DOMAIN toPlane
                            /\ DOMAIN Tail(toPlane) = 1 .. Len(toPlane) - 1
                            /\ \A k \in 1 .. Len(toPlane) - 1 :
                                 k + 1 \in DOMAIN toPlane /\ Tail(toPlane)[k] = toPlane[k + 1]
  BY <1>1, QueueItems
<1>3. ASSUME NEW f, toPlane' = Append(toPlane, f)
      PROVE  /\ InFlight' \subseteq InFlight \cup {f.records}
             /\ f.type # "records" => InFlight' \subseteq InFlight
  <2>1. \A k \in DOMAIN toPlane' : \/ k \in DOMAIN toPlane /\ toPlane'[k] = toPlane[k]
                                   \/ toPlane'[k] = f
    BY <1>2, <1>3
  <2> QED
    BY <2>1 DEF InFlight
<1>4. ASSUME toPlane # << >>, toPlane' = Tail(toPlane)
      PROVE  InFlight' \subseteq InFlight
  <2>1. \A k \in DOMAIN toPlane' : \E j \in DOMAIN toPlane : toPlane'[k] = toPlane[j]
    BY <1>2, <1>4
  <2> QED
    BY <2>1 DEF InFlight
<1>5. toPlane' = << >> => InFlight' = {}
  BY DEF InFlight
<1>6. toPlane' = toPlane => InFlight' \subseteq InFlight
  BY DEF InFlight
<1>7. toPlane # << >> /\ Head(toPlane).type = "records" => Head(toPlane).records \in InFlight
  BY <1>2 DEF InFlight
<1> QED
  BY <1>3, <1>4, <1>5, <1>6, <1>7

-----------------------------------------------------------------------------
(* What stays when nothing but the frames changes. *)

LEMMA PartsKept ==
  ASSUME NEW w, NEW o, Parts(w, o), UNCHANGED <<canon, file>>, Batches' \subseteq Batches
  PROVE  Parts(w, o)'
  BY DEF Parts

LEMMA AwaitedKept ==
  ASSUME Awaited, UNCHANGED <<canon, awaiting>>, Batches' \subseteq Batches
  PROVE  Awaited'
  BY DEF Awaited

LEMMA ChainedKept ==
  ASSUME NEW w, Chained(w), UNCHANGED previous
  PROVE  Chained(w)'
  BY DEF Chained

-----------------------------------------------------------------------------
(* A batch on the way, and the plane's log when it takes it. *)

\* What a step that keeps the invariant starts from.
Sound(w, o) == TypeOK /\ w \in Seq(1 .. issued) /\ o \in Nat /\ Healthy(w, o)

LEMMA ChainItems ==
  ASSUME NEW w \in Seq(1 .. issued), issued \in Nat, Chained(w)
  PROVE  /\ \A i, j \in 1 .. Len(w) : /\ w[i] \in 1 .. issued
                                      /\ i <= j <=> w[i] <= w[j]
                                      /\ w[i] = w[j] => i = j
         /\ w # << >> => LastOf(w) = w[Len(w)] /\ Last(w) = w[Len(w)] /\ Len(w) \in 1 .. Len(w)
<1>1. \A i \in 1 .. Len(w) : w[i] \in 1 .. issued /\ i \in Nat
  OBVIOUS
<1>2. \A i, j \in 1 .. Len(w) : i < j => w[i] < w[j]
  BY DEF Chained
<1>3. ASSUME NEW i \in 1 .. Len(w), NEW j \in 1 .. Len(w)
      PROVE  (i <= j <=> w[i] <= w[j]) /\ (w[i] = w[j] => i = j)
  <2>1. PICK a, b \in Nat : a = w[i] /\ b = w[j]
    BY <1>1
  <2>2. (i < j => a < b) /\ (j < i => b < a) /\ i \in Nat /\ j \in Nat
    BY <1>2, <2>1
  <2>3. (i <= j <=> a <= b) /\ (a = b => i = j)
    <3>1. CASE i = j
      BY <2>1, <3>1
    <3>2. CASE i # j
      BY <2>2, <3>2
    <3> QED
      BY <3>1, <3>2
  <2> QED
    BY <2>1, <2>3
<1>4. w # << >> => LastOf(w) = w[Len(w)] /\ Last(w) = w[Len(w)] /\ Len(w) \in 1 .. Len(w)
  BY DEF LastOf, Last
<1> QED
  BY <1>1, <1>3, <1>4

\* The end of a part of the chain.
LEMMA PartEnd ==
  ASSUME NEW w \in Seq(1 .. issued), issued \in Nat, Chained(w),
         NEW b \in Seq(1 .. issued), b # << >>, NEW i \in Nat, Segment(b, w, i)
  PROVE  /\ i + Len(b) \in 1 .. Len(w) /\ Last(b) = w[i + Len(b)]
         /\ LastOf(b) = Last(b) /\ Last(b) \in 1 .. issued /\ Head(b) = w[i + 1]
         /\ i + 1 \in 1 .. Len(w)
<1>1. /\ Len(b) \in Nat \ {0} /\ Last(b) = b[Len(b)] /\ Head(b) = b[1]
      /\ LastOf(b) = Last(b) /\ Last(b) \in 1 .. issued
  BY LastElement DEF LastOf
<1>2. /\ i + Len(b) <= Len(w) /\ b[Len(b)] = w[i + Len(b)] /\ b[1] = w[i + 1]
  BY <1>1 DEF Segment
<1>3. i + Len(b) \in 1 .. Len(w) /\ i + 1 \in 1 .. Len(w)
  <2>1. Len(b) \in 1 .. Len(b) /\ 1 \in 1 .. Len(b) /\ Len(b) \in Nat /\ Len(w) \in Nat
    BY <1>1
  <2> QED
    BY <1>2, <2>1, PartIndex, Zenon
<1> QED
  BY <1>1, <1>2, <1>3

\* Each record of m names the one before it as its predecessor, the first the last of the log.
Succeeds(log, m) ==
  \A k \in DOMAIN m : previous[m[k]] = IF k = 1 THEN LastOf(log) ELSE m[k - 1]

\* What continues a beginning of the chain does so record by record.
LEMMA PartContinues ==
  ASSUME NEW w \in Seq(1 .. issued), issued \in Nat, Chained(w),
         NEW log \in Seq(1 .. issued), Segment(log, w, 0),
         NEW m \in Seq(1 .. issued), Segment(m, w, Len(log))
  PROVE  Succeeds(log, m)
<1>1. PICK n \in Nat, l \in Nat : n = Len(log) /\ l = Len(m)
  OBVIOUS
<1>2. /\ n + l <= Len(w) /\ Len(w) \in Nat /\ DOMAIN m = 1 .. l
      /\ \A k \in 1 .. l : m[k] = w[n + k]
      /\ \A k \in 1 .. n : log[k] = w[0 + k]
  BY <1>1 DEF Segment
<1>3. LastOf(log) = IF n = 0 THEN Nothing ELSE w[n]
  BY <1>1, <1>2 DEF LastOf, Last
<1>4. ASSUME NEW k \in 1 .. l
      PROVE  previous[m[k]] = IF k = 1 THEN LastOf(log) ELSE m[k - 1]
  <2>1. n + k \in 1 .. Len(w)
    BY <1>2
  <2>2. previous[w[n + k]] = IF n + k = 1 THEN Nothing ELSE w[(n + k) - 1]
    BY <2>1 DEF Chained
  <2>3. CASE k = 1
    <3>1. (n + k) - 1 = n /\ (n + k = 1 <=> n = 0)
      BY <2>3
    <3> QED
      BY <1>2, <1>3, <2>2, <2>3, <3>1
  <2>4. CASE k # 1
    <3>1. k - 1 \in 1 .. l /\ n + (k - 1) = (n + k) - 1 /\ n + k # 1
      BY <2>4
    <3>2. m[k - 1] = w[n + (k - 1)]
      BY <1>2, <3>1
    <3> QED
      BY <1>2, <2>2, <2>4, <3>1, <3>2
  <2> QED
    BY <2>3, <2>4
<1> QED
  BY <1>2, <1>4 DEF Succeeds

\* The plane takes every batch that is on the way, and then has the last of its records.
LEMMA BatchTaken ==
  ASSUME NEW w, NEW o, Sound(w, o), NEW b \in Batches
  PROVE  /\ b \in Seq(1 .. issued) /\ b # << >> /\ Accepts(b)
         /\ Fresh(b) \in Seq(1 .. issued) /\ Segment(Fresh(b), w, Len(canon))
         /\ Last(b) \in ToSet(canon \o Fresh(b))
         /\ canon \o Fresh(b) # << >>
         /\ Fresh(b) # << >> => \E i \in Nat : /\ Len(canon) + Len(Fresh(b)) = i
                                               /\ i \in 1 .. Len(w) /\ Last(b) = w[i]
<1>1. /\ TypeOK /\ issued \in Nat /\ w \in Seq(1 .. issued) /\ o \in Nat /\ Chained(w)
      /\ canon \in Seq(1 .. issued) /\ Segment(canon, w, 0)
  BY ReplicationAssumption DEF Sound, Healthy, Parts, TypeOK
<1>2. b \in Seq(1 .. issued) /\ b # << >>
  BY <1>1, BatchesInFlight DEF Batches, Sound, Healthy, Parts
<1>3. PICK i \in 0 .. Len(canon) : Segment(b, w, i)
  BY DEF Sound, Healthy, Parts
<1>4. i \in Nat /\ i <= Len(canon)
  BY <1>1, <1>3
<1>5. \A j, k \in 1 .. Len(w) : w[j] = w[k] => j = k
  BY <1>1, ChainItems
<1>6. PICK m : m = Fresh(b)
  OBVIOUS
<1>7. /\ m \in Seq(1 .. issued) /\ Segment(m, w, Len(canon))
      /\ IF i + Len(b) <= Len(canon) THEN m = << >> ELSE Len(canon) + Len(m) = i + Len(b)
  <2>1. /\ Missing(b, canon) \in Seq(1 .. issued) /\ Segment(Missing(b, canon), w, Len(canon))
        /\ IF i + Len(b) <= Len(canon) THEN Missing(b, canon) = << >>
           ELSE Len(canon) + Len(Missing(b, canon)) = i + Len(b)
    <3>1. PICK S : S = 1 .. issued
      OBVIOUS
    <3>2. /\ w \in Seq(S) /\ canon \in Seq(S) /\ b \in Seq(S)
          /\ Segment(canon, w, 0) /\ Segment(b, w, i)
      BY <1>1, <1>2, <1>3, <3>1
    <3>3. /\ Missing(b, canon) \in Seq(S) /\ Segment(Missing(b, canon), w, Len(canon))
          /\ IF i + Len(b) <= Len(canon) THEN Missing(b, canon) = << >>
             ELSE Len(canon) + Len(Missing(b, canon)) = i + Len(b)
      BY <1>4, <1>5, <3>2, MissingSegment
    <3> QED
      BY <3>1, <3>3
  <2>2. m = Missing(b, canon)
    BY <1>6 DEF Fresh
  <2> QED
    BY <2>1, <2>2, Zenon
<1>8. /\ i + Len(b) \in 1 .. Len(w) /\ Last(b) = w[i + Len(b)] /\ Head(b) = w[i + 1]
  BY <1>1, <1>2, <1>3, <1>4, PartEnd
<1>9. PICK c : c = canon \o m
  OBVIOUS
<1>10. /\ c \in Seq(1 .. issued) /\ Len(c) = Len(canon) + Len(m) /\ Segment(c, w, 0)
  BY <1>1, <1>7, <1>9, JoinSegment
<1>11. i + Len(b) \in 1 .. Len(c)
  <2>1. CASE i + Len(b) <= Len(canon)
    BY <1>7, <1>8, <1>10, <2>1
  <2>2. CASE ~(i + Len(b) <= Len(canon))
    BY <1>7, <1>8, <1>10, <2>2
  <2> QED
    BY <2>1, <2>2
<1>12. Last(b) \in ToSet(c) /\ c # << >>
  <2>1. c[i + Len(b)] = w[0 + (i + Len(b))] /\ 0 + (i + Len(b)) = i + Len(b)
    BY <1>8, <1>10, <1>11 DEF Segment
  <2> QED
    BY <1>8, <1>10, <1>11, <2>1 DEF ToSet
<1>13. m # << >> => Len(canon) + Len(m) = i + Len(b)
  BY <1>7
<1>14. Continues(b)
  <2>1. Succeeds(canon, m)
    <3>1. /\ w \in Seq(1 .. issued) /\ issued \in Nat /\ Chained(w)
          /\ canon \in Seq(1 .. issued) /\ Segment(canon, w, 0)
          /\ m \in Seq(1 .. issued) /\ Segment(m, w, Len(canon))
      BY <1>1, <1>7, Zenon
    <3> QED
      BY <3>1, PartContinues, Zenon
  <2> QED
    BY <1>6, <2>1 DEF Continues, Succeeds
<1>15. Admissible(b)
  <2>1. CASE canon = << >>
    <3>1. i = 0 /\ w # << >>
      <4>1. Len(canon) = 0
        BY <2>1
      <4>2. Len(w) # 0
        BY <1>8
      <4> QED
        BY <1>4, <4>1, <4>2
    <3>2. w[1] = SessionRecord
      BY <1>1, <3>1 DEF Chained
    <3>3. known = "no"
      BY <2>1 DEF Sound, Healthy, PlaneKnows
    <3>4. Head(b) = w[1]
      BY <1>8, <3>1
    <3> QED
      BY <3>2, <3>3, <3>4 DEF Admissible
  <2>2. CASE canon # << >>
    BY <2>2 DEF Sound, Healthy, PlaneKnows, Admissible
  <2> QED
    BY <2>1, <2>2
<1>16. m # << >> => \E j \in Nat : /\ Len(canon) + Len(m) = j
                                   /\ j \in 1 .. Len(w) /\ Last(b) = w[j]
  <2>1. i + Len(b) \in Nat
    BY <1>8
  <2> QED
    BY <1>8, <1>13, <2>1
<1>17. Accepts(b)
  BY <1>14, <1>15 DEF Accepts
<1> HIDE DEF Fresh, Batches
<1> QED
  BY <1>2, <1>6, <1>7, <1>9, <1>12, <1>16, <1>17

\* The plane's log grows along the chain.
LEMMA LogGrows ==
  ASSUME NEW w, NEW o, Sound(w, o), NEW m \in Seq(1 .. issued), Segment(m, w, Len(canon)),
         canon' = canon \o m, UNCHANGED <<file, previous>>, Batches' \subseteq Batches
  PROVE  /\ Chained(w)' /\ Parts(w, o)' /\ Len(canon) <= Len(canon')
         /\ m # << >> => Len(canon) < Len(canon')
         /\ canon' \in Seq(1 .. issued) /\ Segment(canon, canon', 0)
         /\ m # << >> => LastOf(canon') = w[Len(canon) + Len(m)]
<1>1. /\ TypeOK /\ issued \in Nat /\ w \in Seq(1 .. issued) /\ o \in Nat /\ Chained(w)
      /\ canon \in Seq(1 .. issued) /\ Segment(canon, w, 0) /\ Parts(w, o)
  BY ReplicationAssumption DEF Sound, Healthy, Parts, TypeOK
<1>2. PICK c : c = canon \o m
  OBVIOUS
<1>3. c \in Seq(1 .. issued) /\ Len(c) = Len(canon) + Len(m) /\ Segment(c, w, 0)
  BY <1>1, <1>2, JoinSegment
<1>4. /\ Len(canon) \in Nat /\ Len(m) \in Nat /\ Len(canon) <= Len(c)
      /\ m # << >> => Len(canon) < Len(c)
  BY <1>1, <1>3
<1>5. Segment(canon, c, 0)
  <2>1. \A k \in 1 .. Len(canon) : canon[k] = w[0 + k] /\ k \in 1 .. Len(c) /\ 0 + k = k
    BY <1>1, <1>4 DEF Segment
  <2>2. \A k \in 1 .. Len(c) : c[k] = w[0 + k]
    BY <1>3 DEF Segment
  <2>3. \A k \in 1 .. Len(canon) : canon[k] = c[0 + k]
    BY <2>1, <2>2
  <2>4. 0 + Len(canon) <= Len(c)
    BY <1>4
  <2> QED
    BY <2>3, <2>4 DEF Segment
<1>6. ASSUME m # << >>
      PROVE  LastOf(c) = w[Len(canon) + Len(m)]
  <2>1. Len(c) # 0 /\ c # << >>
    BY <1>3, <1>4, <1>6
  <2>2. Last(c) = w[0 + Len(c)] /\ LastOf(c) = Last(c)
    BY <1>1, <1>3, <2>1, PartEnd, SMTT(20)
  <2> QED
    BY <1>3, <1>4, <2>2
<1>7. Parts(w, o)'
  <2>1. \A b \in Batches' : b # << >> /\ \E i \in 0 .. Len(c) : Segment(b, w, i)
    <3> TAKE b \in Batches'
    <3>1. b # << >>
      BY <1>1 DEF Parts
    <3>2. PICK i \in 0 .. Len(canon) : Segment(b, w, i)
      BY <1>1 DEF Parts
    <3>3. i \in 0 .. Len(c)
      BY <1>3, <1>4, <3>2
    <3> QED
      BY <3>1, <3>2, <3>3
  <2>2. canon' = c /\ file' = file
    BY <1>2
  <2>3. o <= Len(c) /\ o + Len(file) = Len(w) /\ Segment(file, w, o)
    <3>1. o <= Len(canon) /\ o + Len(file) = Len(w) /\ Segment(file, w, o)
      BY <1>1 DEF Parts
    <3>2. o <= Len(c)
      BY <1>1, <1>3, <1>4, <3>1
    <3> QED
      BY <3>1, <3>2
  <2> QED
    BY <1>3, <2>1, <2>2, <2>3 DEF Parts
<1>8. Chained(w)'
  BY <1>1, ChainedKept
<1> QED
  BY <1>2, <1>3, <1>4, <1>5, <1>6, <1>7, <1>8

-----------------------------------------------------------------------------
(* Steps that leave the log of the session as it is. *)

LEMMA SoundFacts ==
  ASSUME NEW w, NEW o, Sound(w, o)
  PROVE  /\ TypeOK /\ issued \in Nat /\ w \in Seq(1 .. issued) /\ o \in Nat
         /\ Chained(w) /\ Parts(w, o) /\ SpoolAtEnd(w) /\ PlaneKnows /\ Unconnected /\ Awaited
         /\ Outstanding(awaiting, toPlane, toNode) /\ Told(toNode, canon, o)
         /\ toPlane \in Seq(Frame) /\ toNode \in Seq(Frame)
         /\ \A k \in DOMAIN toNode : toNode[k].records \in Seq(1 .. issued)
         /\ canon \in Seq(1 .. issued) /\ file \in Seq(1 .. issued)
         /\ Segment(canon, w, 0) /\ Segment(file, w, o) /\ o <= Len(canon)
         /\ o + Len(file) = Len(w)
         /\ \A b \in Batches : b \in Seq(1 .. issued) /\ b # << >>
                               /\ \E i \in 0 .. Len(canon) : Segment(b, w, i)
<1>1. /\ TypeOK /\ issued \in Nat /\ w \in Seq(1 .. issued) /\ o \in Nat /\ Healthy(w, o)
      /\ toPlane \in Seq(Frame) /\ toNode \in Seq(Frame)
      /\ canon \in Seq(1 .. issued) /\ file \in Seq(1 .. issued)
  BY ReplicationAssumption DEF Sound, TypeOK
<1>2. \A k \in DOMAIN toNode : toNode[k].records \in Seq(1 .. issued)
  <2>1. \A k \in DOMAIN toNode : toNode[k] \in Frame
    BY <1>1
  <2> QED
    BY <2>1 DEF Frame
<1>3. \A b \in Batches : b \in Seq(1 .. issued)
  BY <1>1, BatchesInFlight DEF Batches
<1> QED
  BY <1>1, <1>2, <1>3 DEF Healthy, Parts

LEMMA SameLog ==
  ASSUME NEW w, NEW o, Sound(w, o), UNCHANGED <<previous, file, canon, known>>,
         Batches' \subseteq Batches, SpoolAtEnd(w)', Unconnected', Awaited',
         Outstanding(awaiting', toPlane', toNode'), Told(toNode', canon, o)
  PROVE  Healthy(w, o)'
<1>1. Chained(w)' /\ Parts(w, o)'
  BY SoundFacts, ChainedKept, PartsKept
<1>2. PlaneKnows'
  BY SoundFacts DEF PlaneKnows
<1>3. canon' = canon
  OBVIOUS
<1> QED
  BY <1>1, <1>2, <1>3 DEF Healthy

\* The frames are the same.
LEMMA SameFrames ==
  ASSUME NEW w, NEW o, Sound(w, o), SpoolAtEnd(w)',
         UNCHANGED <<previous, file, canon, known, awaiting, toPlane, toNode, late>>,
         link' \in {"down", "welcomed"} => link \in {"down", "welcomed"}
  PROVE  Healthy(w, o)'
<1>1. Batches' \subseteq Batches
  BY SoundFacts, BatchesChange DEF Batches
<1>2. Unconnected' /\ Awaited'
  BY <1>1, SoundFacts, AwaitedKept DEF Unconnected
<1>3. Outstanding(awaiting', toPlane', toNode') /\ Told(toNode', canon, o)
  BY SoundFacts
<1> QED
  BY <1>1, <1>2, <1>3, SameLog

\* The node sends a frame that is no batch.
LEMMA NodeSends ==
  ASSUME NEW w, NEW o, Sound(w, o), SpoolAtEnd(w)', NEW f, f.type # "records",
         toPlane' = Append(toPlane, f),
         UNCHANGED <<previous, file, canon, known, awaiting, toNode, late>>,
         link' \notin {"down", "welcomed"}
  PROVE  Healthy(w, o)'
<1>1. Batches' \subseteq Batches
  BY SoundFacts, BatchesChange DEF Batches
<1>2. Unconnected' /\ Awaited'
  BY <1>1, SoundFacts, AwaitedKept DEF Unconnected
<1>3. Outstanding(awaiting', toPlane', toNode') /\ Told(toNode', canon, o)
  BY SoundFacts, OutstandingKept
<1> QED
  BY <1>1, <1>2, <1>3, SameLog

\* The plane answers a frame that is no batch.
LEMMA PlaneAnswers ==
  ASSUME NEW w, NEW o, Sound(w, o), NEW f,
         \/ f.type \notin {"reject", "ack", "history"}
         \/ f.type = "history" /\ f.records = canon,
         toPlane # << >>, toPlane' = Tail(toPlane), toNode' = Append(toNode, f),
         UNCHANGED <<previous, file, canon, known, awaiting, late, spool, session, link>>
  PROVE  Healthy(w, o)'
<1>1. Batches' \subseteq Batches
  BY SoundFacts, BatchesChange DEF Batches
<1>2. Unconnected' /\ Awaited' /\ SpoolAtEnd(w)'
  BY <1>1, SoundFacts, AwaitedKept DEF Unconnected, SpoolAtEnd
<1>3. Outstanding(awaiting', toPlane', toNode')
  <2>1. Outstanding(awaiting, Tail(toPlane), toNode)
    BY SoundFacts, OutstandingKept
  <2>2. Tail(toPlane) \in Seq(Frame)
    BY SoundFacts, TakeFrame
  <2>3. f.type # "ack"
    OBVIOUS
  <2>4. Outstanding(awaiting, Tail(toPlane), Append(toNode, f))
    BY <2>1, <2>2, <2>3, SoundFacts, OutstandingKept
  <2> QED
    BY <2>4
<1>4. Told(toNode', canon, o)
  <2>1. \/ f.type \notin {"reject", "ack", "history"}
        \/ f.type = "ack" /\ Head(f.records) \in ToSet(canon)
        \/ f.type = "history" /\ f.records = canon /\ o <= Len(canon)
    BY SoundFacts
  <2>2. Told(Append(toNode, f), canon, o)
    BY <2>1, SoundFacts, ToldKept
  <2> QED
    BY <2>2
<1> QED
  BY <1>1, <1>2, <1>3, <1>4, SameLog

\* The node takes a frame that is no acknowledgement.
LEMMA NodeTakes ==
  ASSUME NEW w, NEW o, Sound(w, o), SpoolAtEnd(w)',
         toNode # << >>, toNode' = Tail(toNode),
         UNCHANGED <<previous, file, canon, known, awaiting, late, toPlane>>,
         link' \notin {"down", "welcomed"}
  PROVE  Healthy(w, o)'
<1>1. Batches' \subseteq Batches
  BY SoundFacts, BatchesChange DEF Batches
<1>2. Unconnected' /\ Awaited'
  BY <1>1, SoundFacts, AwaitedKept DEF Unconnected
<1>3. Outstanding(awaiting', toPlane', toNode')
  BY SoundFacts, OutstandingKept
<1>4. Told(toNode', canon, o)
  <2>1. \A k \in DOMAIN toNode : k > 1 /\ toNode[k].type = "history" => o <= Len(toNode[k].records)
    BY SoundFacts DEF Told
  <2>2. Told(Tail(toNode), canon, o)
    BY <2>1, SoundFacts, ToldKept
  <2> QED
    BY <2>2
<1> QED
  BY <1>1, <1>2, <1>3, <1>4, SameLog

\* The connection is lost, and what was sent may still arrive.
LEMMA ConnectionLost ==
  ASSUME NEW w, NEW o, Sound(w, o), SpoolAtEnd(w)', Unlink, LeaveFrames,
         UNCHANGED <<previous, file, canon, known>>
  PROVE  Healthy(w, o)'
<1>1. toPlane' = << >> /\ toNode' = << >> /\ awaiting' = Nothing
  BY DEF Unlink
<1>2. Batches' \subseteq Batches
  <2>1. InFlight' = {}
    BY <1>1, SoundFacts, BatchesChange
  <2> QED
    BY <2>1 DEF LeaveFrames, Batches
<1>3. Unconnected' /\ Awaited'
  BY <1>1 DEF Unconnected, Awaited
<1>4. Outstanding(awaiting', toPlane', toNode') /\ Told(toNode', canon, o)
  BY <1>1 DEF Outstanding, Told
<1> QED
  BY <1>2, <1>3, <1>4, SameLog

LEMMA QuietSteps ==
  ASSUME NEW w, NEW o, Sound(w, o), faults = 0, faults' = 0,
         \/ Connect \/ ReadSpool \/ SpoolUnreadable \/ SendDrained \/ Load
         \/ HandleDrained \/ HandleLoad \/ ReceiveReady \/ ReceiveUnavailable
         \/ Disconnect \/ NodeCrash \/ TearAppend \/ UNCHANGED vars
  PROVE  Healthy(w, o)' /\ canon' = canon
<1> USE SoundFacts DEF diskVars, planeVars, bounds
<1>1. CASE Connect
  <2>1. link = "down" /\ link' = "welcomed" /\ UNCHANGED <<spool, session>>
    BY <1>1 DEF Connect
  <2>2. SpoolAtEnd(w)'
    BY <2>1 DEF SpoolAtEnd
  <2>3. UNCHANGED <<previous, file, canon, known, awaiting, toPlane, toNode, late>>
    BY <1>1 DEF Connect
  <2> QED
    BY <2>1, <2>2, <2>3, SameFrames
<1>2. CASE ReadSpool
  <2>1. /\ link = "welcomed" /\ link' = "draining"
        /\ UNCHANGED <<session, previous, file, canon, known, awaiting, toPlane, toNode, late>>
        /\ spool' = IF spool.open \/ file = << >> THEN spool ELSE [open |-> TRUE, last |-> Last(file)]
    BY <1>2 DEF ReadSpool
  <2>2. SpoolAtEnd(w)'
    <3>1. CASE spool.open \/ file = << >>
      BY <2>1, <3>1 DEF SpoolAtEnd
    <3>2. CASE ~(spool.open \/ file = << >>)
      <4>1. spool'.open /\ spool'.last = Last(file)
        BY <2>1, <3>2
      <4>2. Last(file) = w[o + Len(file)] /\ o + Len(file) = Len(w) /\ o + Len(file) \in 1 .. Len(w)
        BY <3>2, PartEnd, SMTT(20)
      <4>3. w # << >>
        BY <4>2
      <4>4. LastOf(w) = Last(file)
        BY <4>2, <4>3 DEF LastOf, Last
      <4>5. session' = "cached" => w # << >>
        BY <4>3
      <4> QED
        BY <4>1, <4>4, <4>5 DEF SpoolAtEnd
    <3> QED
      BY <3>1, <3>2
  <2> QED
    BY <2>1, <2>2, SameFrames
<1>3. CASE SpoolUnreadable
  <2>1. /\ link = "welcomed" /\ link' = "down" /\ UNCHANGED <<spool, session>>
        /\ UNCHANGED <<previous, file, canon, known, awaiting, toPlane, toNode, late>>
    BY <1>3 DEF SpoolUnreadable
  <2>2. SpoolAtEnd(w)'
    BY <2>1 DEF SpoolAtEnd
  <2> QED
    BY <2>1, <2>2, SameFrames
<1>4. CASE SendDrained
  <2>1. /\ link = "draining" /\ link' = "drained" /\ UNCHANGED <<spool, session>>
        /\ toPlane' = Append(toPlane, F("drained", << >>))
        /\ UNCHANGED <<previous, file, canon, known, awaiting, toNode, late>>
    BY <1>4 DEF SendDrained
  <2>2. SpoolAtEnd(w)'
    BY <2>1 DEF SpoolAtEnd
  <2>3. F("drained", << >>).type # "records"
    BY DEF F
  <2> QED
    BY <2>1, <2>2, <2>3, NodeSends
<1>5. CASE Load
  <2>1. /\ link = "ready" /\ link' = link /\ session' = "loading" /\ UNCHANGED spool
        /\ toPlane' = Append(toPlane, F("load", << >>))
        /\ UNCHANGED <<previous, file, canon, known, awaiting, toNode, late>>
    BY <1>5 DEF Load
  <2>2. SpoolAtEnd(w)'
    BY <2>1 DEF SpoolAtEnd
  <2>3. F("load", << >>).type # "records"
    BY DEF F
  <2> QED
    BY <2>1, <2>2, <2>3, NodeSends
<1>6. CASE HandleDrained
  <2>1. /\ toPlane # << >> /\ toPlane' = Tail(toPlane)
        /\ toNode' = Append(toNode, F("ready", << >>))
        /\ UNCHANGED <<previous, file, canon, known, awaiting, late, spool, session, link>>
    BY <1>6 DEF HandleDrained, Receive, nodeVars
  <2>2. F("ready", << >>).type \notin {"reject", "ack", "history"}
    BY DEF F
  <2> QED
    BY <2>1, <2>2, PlaneAnswers
<1>7. CASE HandleLoad
  <2>1. /\ toPlane # << >> /\ toPlane' = Tail(toPlane)
        /\ UNCHANGED <<previous, file, canon, known, awaiting, late, spool, session, link>>
        /\ toNode' = Append(toNode, IF known = "unreadable" THEN F("unavailable", << >>)
                                                             ELSE F("history", canon))
    BY <1>7 DEF HandleLoad, Receive, nodeVars
  <2>2. toNode' = Append(toNode, F("history", canon))
    BY <2>1 DEF PlaneKnows
  <2>3. F("history", canon).type = "history" /\ F("history", canon).records = canon
    BY DEF F
  <2> QED
    BY <2>1, <2>2, <2>3, PlaneAnswers
<1>8. CASE ReceiveReady
  <2>1. /\ toNode # << >> /\ toNode' = Tail(toNode) /\ link' = "ready"
        /\ UNCHANGED <<previous, file, canon, known, awaiting, late, toPlane, spool, session>>
    BY <1>8 DEF ReceiveReady, Answer
  <2>2. link \in {"draining", "drained", "ready"}
    BY <2>1 DEF Unconnected, TypeOK
  <2>3. SpoolAtEnd(w)'
    BY <2>1, <2>2 DEF SpoolAtEnd
  <2> QED
    BY <2>1, <2>3, NodeTakes
<1>9. CASE ReceiveUnavailable
  <2>1. /\ toNode # << >> /\ toNode' = Tail(toNode) /\ session' = "absent"
        /\ UNCHANGED <<previous, file, canon, known, awaiting, late, toPlane, spool, link>>
    BY <1>9 DEF ReceiveUnavailable, Answer
  <2>2. link \in {"draining", "drained", "ready"}
    BY <2>1 DEF Unconnected, TypeOK
  <2>3. SpoolAtEnd(w)'
    BY <2>1, <2>2 DEF SpoolAtEnd
  <2> QED
    BY <2>1, <2>2, <2>3, NodeTakes
<1>10. CASE Disconnect
  <2>1. /\ Unlink /\ LeaveFrames /\ session' = NoLongerLoading /\ link' = "down"
        /\ UNCHANGED <<previous, file, canon, known, spool>>
    BY <1>10 DEF Disconnect, Unlink
  <2>2. session' = "cached" => session = "cached"
    BY <2>1 DEF NoLongerLoading
  <2>3. SpoolAtEnd(w)'
    BY <2>1, <2>2 DEF SpoolAtEnd
  <2> QED
    BY <2>1, <2>3, ConnectionLost
<1>11. ASSUME NodeStops, file' = file
       PROVE  Healthy(w, o)' /\ canon' = canon
  <2>1. /\ Unlink /\ LeaveFrames /\ session' = "absent" /\ link' = "down" /\ spool' = Closed
        /\ UNCHANGED <<previous, file, canon, known>>
    BY <1>11 DEF NodeStops, Unlink
  <2>2. SpoolAtEnd(w)'
    BY <2>1 DEF SpoolAtEnd, Closed
  <2> QED
    BY <2>1, <2>2, ConnectionLost
<1>12. CASE NodeCrash
  BY <1>11, <1>12 DEF NodeCrash
<1>13. CASE TearAppend
  BY <1>11, <1>13 DEF TearAppend
<1>14. CASE UNCHANGED vars
  <2>1. UNCHANGED <<previous, file, canon, known, awaiting, toPlane, toNode, late, spool, session, link>>
    BY <1>14 DEF vars, nodeVars
  <2>2. SpoolAtEnd(w)'
    BY <2>1 DEF SpoolAtEnd
  <2> QED
    BY <2>1, <2>2, SameFrames
<1> QED
  BY <1>1, <1>2, <1>3, <1>4, <1>5, <1>6, <1>7, <1>8, <1>9, <1>10, <1>12, <1>13, <1>14

LEMMA FlushStep ==
  ASSUME NEW w, NEW o, Sound(w, o), Flush
  PROVE  Healthy(w, o)' /\ canon' = canon
<1>0. /\ issued \in Nat /\ w \in Seq(1 .. issued) /\ o \in Nat /\ TypeOK
      /\ Chained(w) /\ Parts(w, o) /\ SpoolAtEnd(w) /\ PlaneKnows
      /\ Outstanding(awaiting, toPlane, toNode) /\ Told(toNode, canon, o)
      /\ toPlane \in Seq(Frame) /\ toNode \in Seq(Frame)
      /\ canon \in Seq(1 .. issued) /\ file \in Seq(1 .. issued)
      /\ Segment(canon, w, 0) /\ Segment(file, w, o) /\ o <= Len(canon)
      /\ o + Len(file) = Len(w)
      /\ \A b \in Batches : b \in Seq(1 .. issued) /\ b # << >>
                            /\ \E i \in 0 .. Len(canon) : Segment(b, w, i)
  BY SoundFacts
<1>1. /\ link \notin {"down", "welcomed"} /\ awaiting = Nothing /\ Pending # << >>
      /\ toPlane' = Append(toPlane, F("records", Pending)) /\ awaiting' = Last(Pending)
      /\ UNCHANGED <<previous, file, canon, known, spool, session, link, toNode, late>>
  BY DEF Flush, diskVars, planeVars
<1>2. Pending = file /\ file # << >>
  BY <1>0, <1>1 DEF Pending
<1>3. /\ o + Len(file) \in 1 .. Len(w) /\ Last(file) = w[o + Len(file)]
      /\ Last(file) \in 1 .. issued /\ issued \in Nat
  BY <1>0, <1>2, PartEnd
<1>12. Last(file) # Nothing /\ 0 <= Last(file)
  <2>1. \A n \in Nat : \A x \in 1 .. n : x # 0 /\ 0 <= x
    OBVIOUS
  <2> QED
    BY <1>3, <2>1, Zenon
<1>4. F("records", file).type = "records" /\ F("records", file).records = file
  BY DEF F
<1>5. Batches' \subseteq Batches \cup {file}
  <2>1. InFlight' \subseteq InFlight \cup {file}
    BY <1>0, <1>1, <1>2, <1>4, BatchesChange
  <2> QED
    BY <1>0, <1>1, <2>1 DEF Batches
<1>6. Chained(w)'
  BY <1>0, <1>1, ChainedKept
<1>7. Parts(w, o)'
  <2>1. o \in 0 .. Len(canon)
    BY <1>0
  <2>2. \A b \in Batches' : b # << >> /\ \E i \in 0 .. Len(canon) : Segment(b, w, i)
    BY <1>0, <1>2, <1>5, <2>1
  <2> QED
    BY <1>0, <1>1, <2>2 DEF Parts
<1>8. SpoolAtEnd(w)' /\ PlaneKnows' /\ Unconnected'
  BY <1>0, <1>1 DEF SpoolAtEnd, PlaneKnows, Unconnected
<1>9. Awaited'
  <2>1. Last(file) = w[Len(w)] /\ Len(w) \in 1 .. Len(w)
    BY <1>0, <1>3
  <2>2. \A k \in 1 .. Len(w) : w[k] <= Last(file)
    <3>1. \A k \in 1 .. Len(w) : k <= Len(w)
      BY <1>0, <2>1
    <3>2. \A i, j \in 1 .. Len(w) : i <= j => w[i] <= w[j]
      BY <1>0, ChainItems
    <3> QED
      BY <2>1, <3>1, <3>2
  <2>3. LastOf(canon) <= Last(file)
    <3>1. CASE canon = << >>
      <4>1. LastOf(canon) = 0
        BY <1>0, <3>1 DEF LastOf
      <4> QED
        BY <1>0, <1>12, <4>1
    <3>2. CASE canon # << >>
      <4>1. 0 + Len(canon) \in 1 .. Len(w) /\ LastOf(canon) = w[0 + Len(canon)]
        BY <1>0, <3>2, PartEnd
      <4> QED
        BY <1>0, <2>2, <4>1
    <3> QED
      BY <1>0, <3>1, <3>2
  <2>4. \A b \in Batches \cup {file} : Last(b) <= Last(file)
    <3> TAKE b \in Batches \cup {file}
    <3>1. b \in Seq(1 .. issued) /\ b # << >>
      BY <1>0, <1>2
    <3>2. PICK i \in 0 .. Len(canon) : Segment(b, w, i)
      <4>1. o \in 0 .. Len(canon)
        BY <1>0
      <4> QED
        BY <1>0, <4>1
    <3>3. i \in Nat
      BY <1>0, <3>2
    <3>4. i + Len(b) \in 1 .. Len(w) /\ Last(b) = w[i + Len(b)]
      BY <1>0, <3>1, <3>2, <3>3, PartEnd, Zenon
    <3> QED
      BY <1>0, <2>2, <3>4
  <2> QED
    BY <1>0, <1>1, <1>2, <1>5, <2>3, <2>4 DEF Awaited
<1>10. Outstanding(awaiting', toPlane', toNode')
  <2>1. Last(file) # Nothing
    BY <1>0, <1>12
  <2>2. Outstanding(awaiting, toPlane, toNode) /\ awaiting = Nothing
    BY <1>0, <1>1
  <2>3. PICK f : f = F("records", file)
    OBVIOUS
  <2>4. f.type = "records" /\ Last(f.records) # Nothing /\ f.records = file
    BY <1>0, <1>4, <2>1, <2>3
  <2>5. Outstanding(Last(f.records), Append(toPlane, f), toNode)
    BY <1>0, <2>2, <2>4, OutstandingPasses
  <2> QED
    BY <1>0, <1>1, <1>2, <2>3, <2>4, <2>5
<1>11. Told(toNode', canon', o)
  BY <1>0, <1>1
<1> QED
  BY <1>0, <1>1, <1>6, <1>7, <1>8, <1>9, <1>10, <1>11 DEF Healthy

\* The plane has what it takes of a batch, and the node awaits no earlier record.
LEMMA TakenAwaited ==
  ASSUME NEW w, NEW o, Sound(w, o), NEW b \in Batches, canon' = canon \o Fresh(b),
         UNCHANGED <<file, previous, awaiting>>, Batches' \subseteq Batches, known' = "yes"
  PROVE  /\ Chained(w)' /\ Parts(w, o)' /\ Awaited' /\ PlaneKnows' /\ Told(toNode, canon', o)
         /\ Last(b) \in ToSet(canon') /\ canon' \in Seq(1 .. issued)
         /\ canon' = canon \/ Len(canon) < Len(canon')
<1> USE SoundFacts
<1>1. PICK m : m = Fresh(b)
  OBVIOUS
<1>2. /\ m \in Seq(1 .. issued) /\ Segment(m, w, Len(canon)) /\ canon' = canon \o m
      /\ Last(b) \in ToSet(canon') /\ canon' # << >>
      /\ m # << >> => \E i \in Nat : Len(canon) + Len(m) = i /\ Last(b) = w[i]
  BY <1>1, BatchTaken
<1>3. /\ Chained(w)' /\ Parts(w, o)' /\ Len(canon) <= Len(canon')
      /\ m # << >> => Len(canon) < Len(canon')
      /\ canon' \in Seq(1 .. issued) /\ Segment(canon, canon', 0)
      /\ m # << >> => LastOf(canon') = w[Len(canon) + Len(m)]
  BY <1>2, LogGrows
<1>4. m = << >> => canon' = canon
  BY <1>2, ConcatEmptySeq
<1>5. Awaited'
  <2>1. CASE m = << >>
    BY <1>4, <2>1, AwaitedKept
  <2>2. CASE m # << >>
    <3>1. LastOf(canon') = Last(b)
      BY <1>2, <1>3, <2>2
    <3> QED
      BY <3>1 DEF Awaited
  <2> QED
    BY <2>1, <2>2
<1>6. PlaneKnows'
  BY <1>2 DEF PlaneKnows
<1>7. Told(toNode, canon', o)
  BY <1>3, ToldKept
<1> QED
  BY <1>2, <1>3, <1>4, <1>5, <1>6, <1>7

LEMMA RecordsStep ==
  ASSUME NEW w, NEW o, Sound(w, o), HandleRecords
  PROVE  Healthy(w, o)' /\ (canon' = canon \/ Len(canon) < Len(canon'))
<1> USE SoundFacts
<1>1. PICK b : b = Head(toPlane).records
  OBVIOUS
<1>2. /\ toPlane # << >> /\ Head(toPlane).type = "records" /\ toPlane' = Tail(toPlane)
      /\ Store(b)
      /\ toNode' = Append(toNode, F(IF Accepts(b) THEN "ack" ELSE "reject", <<Last(b)>>))
      /\ UNCHANGED <<previous, file, awaiting, late, spool, session, link>>
  BY <1>1 DEF HandleRecords, Receive, diskVars, nodeVars
<1>3. b \in Batches /\ Accepts(b)
  <2>1. b \in Batches
    BY <1>1, <1>2, BatchesChange DEF Batches
  <2> QED
    BY <2>1, BatchTaken
<1>4. Batches' \subseteq Batches
  BY <1>2, BatchesChange DEF Batches
<1>5. canon' = canon \o Fresh(b) /\ known' = "yes"
  BY <1>2, <1>3 DEF Store
<1>6. /\ Chained(w)' /\ Parts(w, o)' /\ Awaited' /\ PlaneKnows' /\ Told(toNode, canon', o)
      /\ Last(b) \in ToSet(canon') /\ canon' \in Seq(1 .. issued)
      /\ canon' = canon \/ Len(canon) < Len(canon')
  BY <1>2, <1>3, <1>4, <1>5, TakenAwaited
<1>7. PICK f : f = F("ack", <<Last(b)>>)
  OBVIOUS
<1>8. /\ f.type = "ack" /\ f.records = <<Last(b)>> /\ Head(f.records) = Last(b)
      /\ toNode' = Append(toNode, f)
  BY <1>2, <1>3, <1>7 DEF F
<1>9. Outstanding(awaiting', toPlane', toNode')
  <2>1. /\ Last(b) = awaiting
        /\ \A g : g.type = "ack" /\ g.records = <<awaiting>> =>
             Outstanding(awaiting, Tail(toPlane), Append(toNode, g))
    BY <1>1, <1>2, OutstandingPasses
  <2> QED
    BY <1>2, <1>8, <2>1
<1>10. Told(toNode', canon', o)
  <2>1. Told(Append(toNode, f), canon', o)
    BY <1>6, <1>8, ToldKept
  <2> QED
    BY <1>8, <2>1
<1>11. SpoolAtEnd(w)' /\ Unconnected'
  BY <1>2 DEF SpoolAtEnd, Unconnected
<1> QED
  BY <1>6, <1>9, <1>10, <1>11 DEF Healthy

LEMMA LateStep ==
  ASSUME NEW w, NEW o, Sound(w, o), HandleLate
  PROVE  Healthy(w, o)' /\ (canon' = canon \/ Len(canon) < Len(canon'))
<1> USE SoundFacts
<1>1. PICK b \in late : Store(b) /\ late' = late \ {b}
  BY DEF HandleLate
<1>2. UNCHANGED <<previous, file, awaiting, spool, session, link, toPlane, toNode>>
  BY DEF HandleLate, diskVars, nodeVars
<1>3. b \in Batches /\ Accepts(b)
  <2>1. b \in Batches
    BY <1>1 DEF Batches
  <2> QED
    BY <2>1, BatchTaken
<1>4. Batches' \subseteq Batches
  <2>1. InFlight' \subseteq InFlight
    BY <1>2, BatchesChange
  <2> QED
    BY <1>1, <2>1 DEF Batches
<1>5. canon' = canon \o Fresh(b) /\ known' = "yes"
  BY <1>1, <1>3 DEF Store
<1>6. /\ Chained(w)' /\ Parts(w, o)' /\ Awaited' /\ PlaneKnows' /\ Told(toNode, canon', o)
      /\ canon' = canon \/ Len(canon) < Len(canon')
  BY <1>2, <1>3, <1>4, <1>5, TakenAwaited
<1>7. SpoolAtEnd(w)' /\ Unconnected'
  BY <1>2 DEF SpoolAtEnd, Unconnected
<1>8. Outstanding(awaiting', toPlane', toNode') /\ Told(toNode', canon', o)
  BY <1>2, <1>6
<1> QED
  BY <1>6, <1>7, <1>8 DEF Healthy

LEMMA PlaneStopsStep ==
  ASSUME NEW w, NEW o, Sound(w, o), PlaneStops
  PROVE  Healthy(w, o)' /\ (canon' = canon \/ Len(canon) < Len(canon'))
<1> USE SoundFacts
<1>1. /\ toPlane' = << >> /\ toNode' = << >> /\ awaiting' = Nothing /\ late' = {}
      /\ link' = "down" /\ session' = NoLongerLoading
      /\ UNCHANGED <<previous, file, spool>>
      /\ known' = IF canon' = << >> THEN "no"
                  ELSE IF Head(canon') = SessionRecord THEN "yes" ELSE "unreadable"
  BY DEF PlaneStops, Unlink, diskVars
<1>2. Batches' = {}
  <2>1. InFlight' = {}
    BY <1>1, BatchesChange
  <2> QED
    BY <1>1, <2>1 DEF Batches
<1>3. PICK m : m \in Seq(1 .. issued) /\ Segment(m, w, Len(canon)) /\ canon' = canon \o m
  <2>1. CASE canon' = canon
    <3>1. << >> \in Seq(1 .. issued) /\ canon \o << >> = canon
      BY ConcatEmptySeq
    <3>2. Segment(<< >>, w, Len(canon))
      <4>1. Len(canon) + 0 <= Len(w)
        BY DEF Segment
      <4> QED
        BY <4>1 DEF Segment
    <3> QED
      BY <2>1, <3>1, <3>2
  <2>2. ASSUME NEW b \in Batches, NEW k \in 1 .. Len(Fresh(b)),
               canon' = canon \o SubSeq(Fresh(b), 1, k)
        PROVE  \E m : m \in Seq(1 .. issued) /\ Segment(m, w, Len(canon)) /\ canon' = canon \o m
    <3>1. PICK all : all = Fresh(b)
      OBVIOUS
    <3>2. all \in Seq(1 .. issued) /\ Segment(all, w, Len(canon))
      BY <3>1, BatchTaken
    <3>3. k \in 0 .. Len(all) /\ Len(canon) \in Nat
      BY <2>2, <3>1, <3>2
    <3>4. SubSeq(all, 1, k) \in Seq(1 .. issued) /\ Segment(SubSeq(all, 1, k), w, Len(canon))
      BY <3>2, <3>3, CutSegment
    <3> QED
      BY <2>2, <3>1, <3>4
  <2>3. \/ canon' = canon
        \/ \E b \in Batches : \E k \in 1 .. Len(Fresh(b)) : canon' = canon \o SubSeq(Fresh(b), 1, k)
    BY DEF PlaneStops, Batches
  <2> QED
    BY <2>1, <2>2, <2>3
<1>4. /\ Chained(w)' /\ Parts(w, o)' /\ Len(canon) <= Len(canon')
      /\ m # << >> => Len(canon) < Len(canon')
      /\ canon' \in Seq(1 .. issued)
  BY <1>1, <1>2, <1>3, LogGrows
<1>5. m = << >> => canon' = canon
  BY <1>3, ConcatEmptySeq
<1>6. PlaneKnows'
  <2>1. CASE canon' = << >>
    BY <1>1, <2>1 DEF PlaneKnows
  <2>2. CASE canon' # << >>
    <3>1. PICK c : c = canon'
      OBVIOUS
    <3>2. Segment(c, w, 0) /\ c \in Seq(1 .. issued) /\ c # << >>
      BY <1>4, <2>2, <3>1 DEF Parts
    <3>3. Head(c) = w[0 + 1] /\ 0 + 1 \in 1 .. Len(w)
      BY <3>2, PartEnd
    <3>4. w # << >>
      BY <3>3
    <3>5. w[1] = SessionRecord
      BY <3>4 DEF Chained
    <3> QED
      BY <1>1, <2>2, <3>1, <3>3, <3>5 DEF PlaneKnows
  <2> QED
    BY <2>1, <2>2
<1>7. SpoolAtEnd(w)'
  BY <1>1 DEF SpoolAtEnd, NoLongerLoading
<1>8. Unconnected' /\ Awaited'
  BY <1>1 DEF Unconnected, Awaited
<1>9. Outstanding(awaiting', toPlane', toNode') /\ Told(toNode', canon', o)
  BY <1>1 DEF Outstanding, Told
<1> QED
  BY <1>4, <1>5, <1>6, <1>7, <1>8, <1>9 DEF Healthy

LEMMA SegmentItem ==
  ASSUME NEW S, NEW b \in Seq(S), NEW w \in Seq(S), Segment(b, w, 0), NEW j \in 1 .. Len(b)
  PROVE  j \in 1 .. Len(w) /\ j \in Nat /\ b[j] = w[j]
<1>1. 0 + Len(b) <= Len(w) /\ Len(b) \in Nat /\ Len(w) \in Nat /\ b[j] = w[0 + j]
  BY DEF Segment
<1>2. j \in 1 .. Len(w) /\ 0 + j = j
  BY <1>1
<1> QED
  BY <1>1, <1>2

\* Where the file holds a record that a log has, the log reaches beyond it.
LEMMA AcknowledgedRest ==
  ASSUME NEW w, NEW o, Sound(w, o), NEW id, id \in ToSet(canon)
  PROVE  \E p \in Nat :
           /\ o <= p /\ p <= Len(canon)
           /\ After(file, id) \in Seq(1 .. issued)
           /\ p + Len(After(file, id)) = Len(w) /\ Segment(After(file, id), w, p)
           /\ \/ p = o /\ id \notin ToSet(file)
              \/ p \in 1 .. Len(w) /\ w[p] = id /\ id \in ToSet(file)
<1>1. /\ issued \in Nat /\ w \in Seq(1 .. issued) /\ o \in Nat /\ Chained(w)
      /\ canon \in Seq(1 .. issued) /\ file \in Seq(1 .. issued)
      /\ Segment(canon, w, 0) /\ Segment(file, w, o) /\ o <= Len(canon)
      /\ o + Len(file) = Len(w)
  BY SoundFacts
<1>2. CASE id \notin ToSet(file)
  <2>1. After(file, id) = file
    BY <1>2 DEF After
  <2>2. o <= o
    BY <1>1
  <2> QED
    BY <1>1, <1>2, <2>1, <2>2
<1>3. CASE id \in ToSet(file)
  <2> DEFINE at == CHOOSE j \in DOMAIN file : file[j] = id
  <2>1. \E j \in DOMAIN file : file[j] = id
    BY <1>3 DEF ToSet
  <2>2. at \in DOMAIN file /\ file[at] = id
    BY <2>1
  <2>3. After(file, id) = SubSeq(file, at + 1, Len(file))
    BY <1>3 DEF After
  <2> HIDE DEF at
  <2>4. PICK k \in 1 .. Len(file) : k = at
    BY <1>1, <2>2
  <2>5. /\ o + k \in 1 .. Len(w) /\ w[o + k] = id /\ k \in 0 .. Len(file) /\ o + k \in Nat
        /\ o <= o + k
    <3>1. o + Len(file) <= Len(w) /\ file[k] = w[o + k]
      BY <1>1 DEF Segment
    <3>2. Len(file) \in Nat /\ Len(w) \in Nat /\ o \in Nat
      BY <1>1
    <3> QED
      BY <2>2, <2>4, <3>1, <3>2, PartIndex, Zenon
  <2>6. o + k <= Len(canon)
    <3>1. PICK j \in 1 .. Len(canon) : canon[j] = id
      <4>1. DOMAIN canon = 1 .. Len(canon)
        BY <1>1
      <4> QED
        BY <4>1, Zenon DEF ToSet
    <3>2. j \in 1 .. Len(w) /\ w[j] = id
      BY <1>1, <3>1, SegmentItem
    <3>3. j = o + k
      BY <1>1, <2>5, <3>2, ChainItems
    <3> QED
      BY <3>1, <3>3
  <2>7. PICK r : r = SubSeq(file, k + 1, Len(file))
    OBVIOUS
  <2>8. r \in Seq(1 .. issued) /\ Len(r) = Len(file) - k /\ Segment(r, w, o + k)
    <3>1. PICK S : S = 1 .. issued
      OBVIOUS
    <3>2. w \in Seq(S) /\ file \in Seq(S) /\ Segment(file, w, o) /\ o \in Nat
      BY <1>1, <3>1
    <3>3. /\ SubSeq(file, k + 1, Len(file)) \in Seq(S)
          /\ Len(SubSeq(file, k + 1, Len(file))) = Len(file) - k
          /\ Segment(SubSeq(file, k + 1, Len(file)), w, o + k)
      BY <2>5, <3>2, CutSegment
    <3> QED
      BY <2>7, <3>1, <3>3
  <2>9. (o + k) + Len(r) = Len(w)
    <3>1. \A x, y \in Nat : (o + k) + (x - k) = o + x
      BY <1>1, <2>5
    <3>2. Len(file) \in Nat
      BY <1>1
    <3> QED
      BY <1>1, <2>8, <3>1, <3>2
  <2>10. After(file, id) = r
    BY <2>3, <2>4, <2>7
  <2> QED
    BY <1>3, <2>5, <2>6, <2>8, <2>9, <2>10
<1> QED
  BY <1>2, <1>3

LEMMA AckStep ==
  ASSUME NEW w, NEW o, Sound(w, o), ReceiveAck
  PROVE  (\E p \in Nat : Healthy(w, p)') /\ canon' = canon
<1>1. /\ issued \in Nat /\ w \in Seq(1 .. issued) /\ o \in Nat /\ TypeOK
      /\ Chained(w) /\ Parts(w, o) /\ SpoolAtEnd(w) /\ PlaneKnows /\ Unconnected
      /\ Outstanding(awaiting, toPlane, toNode) /\ Told(toNode, canon, o)
      /\ toPlane \in Seq(Frame) /\ toNode \in Seq(Frame)
      /\ \A k \in DOMAIN toNode : toNode[k].records \in Seq(1 .. issued)
      /\ canon \in Seq(1 .. issued) /\ file \in Seq(1 .. issued)
      /\ o + Len(file) = Len(w)
  BY SoundFacts
<1>2. /\ toNode # << >> /\ Head(toNode).type = "ack" /\ toNode' = Tail(toNode)
      /\ file' = IF spool.open THEN After(file, Head(Head(toNode).records)) ELSE file
      /\ awaiting' = Awaits(Head(Head(toNode).records))
      /\ UNCHANGED <<previous, spool, session, link, toPlane, late, canon, known>>
  BY DEF ReceiveAck, Answer, planeVars
<1>3. Head(toNode).records = <<awaiting>> /\ Outstanding(Nothing, toPlane, Tail(toNode))
  BY <1>1, <1>2, OutstandingPasses
<1>4. Head(Head(toNode).records) = awaiting /\ awaiting' = Nothing
  BY <1>2, <1>3 DEF Awaits
<1>5. /\ 1 \in DOMAIN toNode /\ toNode[1] = Head(toNode)
      /\ toNode[1].type = "ack" /\ Head(toNode[1].records) = awaiting
  BY <1>1, <1>2, <1>4, TakeFrame
<1>6. awaiting \in ToSet(canon)
  BY <1>1, <1>5 DEF Told
<1>7. Batches' \subseteq Batches
  BY <1>1, <1>2, BatchesChange DEF Batches
<1>8. PICK p \in Nat : /\ o <= p /\ p <= Len(canon) /\ p + Len(file') = Len(w)
                       /\ file' \in Seq(1 .. issued) /\ Segment(file', w, p)
                       /\ p = o \/ (p \in 1 .. Len(w) /\ w[p] = awaiting)
                       /\ spool.open \/ file' = file
  <2>1. CASE spool.open
    <3>1. file' = After(file, awaiting)
      BY <1>2, <1>4, <2>1
    <3> QED
      <4>1. PICK p \in Nat :
              /\ o <= p /\ p <= Len(canon)
              /\ After(file, awaiting) \in Seq(1 .. issued)
              /\ p + Len(After(file, awaiting)) = Len(w) /\ Segment(After(file, awaiting), w, p)
              /\ \/ p = o /\ awaiting \notin ToSet(file)
                 \/ p \in 1 .. Len(w) /\ w[p] = awaiting /\ awaiting \in ToSet(file)
        BY <1>6, AcknowledgedRest
      <4> WITNESS p \in Nat
      <4> QED
        BY <2>1, <3>1, <4>1
  <2>2. CASE ~spool.open
    <3>1. file' = file /\ o <= Len(canon) /\ Segment(file, w, o)
      BY <1>1, <1>2, <2>2 DEF Parts
    <3>2. /\ o <= o /\ o \in Nat /\ o + Len(file') = Len(w) /\ file' \in Seq(1 .. issued)
          /\ Segment(file', w, o) /\ o <= Len(canon)
      BY <1>1, <3>1
    <3> QED
      BY <3>1, <3>2
  <2> QED
    BY <2>1, <2>2
<1>9. ASSUME NEW k \in DOMAIN toNode, k > 1, toNode[k].type = "history"
      PROVE  p <= Len(toNode[k].records)
  <2>1. PICK h : h = toNode[k].records
    OBVIOUS
  <2>2. h \in Seq(1 .. issued) /\ Segment(h, canon, 0) /\ o <= Len(h) /\ awaiting \in ToSet(h)
    BY <1>1, <1>5, <1>9, <2>1 DEF Told
  <2>3. CASE p = o
    BY <2>1, <2>2, <2>3
  <2>4. CASE p \in 1 .. Len(w) /\ w[p] = awaiting
    <3>1. PICK j \in 1 .. Len(h) : h[j] = awaiting
      BY <2>2 DEF ToSet
    <3>2. Segment(h, w, 0)
      BY <1>1, <2>2, SegmentOfSegment DEF Parts
    <3>3. h[j] = w[j] /\ j \in 1 .. Len(w) /\ j <= Len(h)
      <4>1. w \in Seq(1 .. issued) /\ Len(h) \in Nat
        BY <1>1, <2>2
      <4> QED
        BY <2>2, <3>1, <3>2, <4>1, SegmentItem
    <3>4. j = p
      <4>1. \A x, y \in 1 .. Len(w) : w[x] = w[y] => x = y
        BY <1>1, ChainItems
      <4> QED
        BY <2>4, <3>1, <3>3, <4>1
    <3> QED
      BY <2>1, <3>3, <3>4
  <2> QED
    BY <1>8, <2>3, <2>4
<1>10. Told(toNode', canon', p)
  <2>1. Told(Tail(toNode), canon, p)
    BY <1>1, <1>2, <1>9, ToldKept
  <2> QED
    BY <1>2, <2>1
<1>11. Chained(w)' /\ Unconnected'
  BY <1>1, <1>2, ChainedKept DEF Unconnected
<1>12. Parts(w, p)'
  BY <1>1, <1>2, <1>7, <1>8 DEF Parts
<1>13. SpoolAtEnd(w)' /\ PlaneKnows' /\ Awaited'
  BY <1>1, <1>2, <1>4, <1>8 DEF SpoolAtEnd, PlaneKnows, Awaited
<1>14. Outstanding(awaiting', toPlane', toNode')
  BY <1>2, <1>3, <1>4
<1> QED
  BY <1>2, <1>10, <1>11, <1>12, <1>13, <1>14 DEF Healthy

\* The history the node is told is a beginning of the log, and reaches to what the file holds.
LEMMA HistoryStep ==
  ASSUME NEW w, NEW o, Sound(w, o), ReceiveHistory
  PROVE  (\E p \in Nat : Healthy(w, p)') /\ canon' = canon
<1>1. /\ issued \in Nat /\ w \in Seq(1 .. issued) /\ o \in Nat /\ TypeOK
      /\ Chained(w) /\ Parts(w, o) /\ SpoolAtEnd(w) /\ PlaneKnows /\ Unconnected /\ Awaited
      /\ Outstanding(awaiting, toPlane, toNode) /\ Told(toNode, canon, o)
      /\ toPlane \in Seq(Frame) /\ toNode \in Seq(Frame)
      /\ \A k \in DOMAIN toNode : toNode[k].records \in Seq(1 .. issued)
      /\ canon \in Seq(1 .. issued) /\ file \in Seq(1 .. issued)
      /\ Segment(canon, w, 0) /\ Segment(file, w, o) /\ o + Len(file) = Len(w)
  BY SoundFacts
<1>2. PICK h, pending : h = Head(toNode).records /\ pending = Missing(Pending, h)
  OBVIOUS
<1>3. /\ session = "loading" /\ toNode # << >> /\ Head(toNode).type = "history"
      /\ toNode' = Tail(toNode) /\ file' = pending
      /\ UNCHANGED <<previous, link, awaiting, toPlane, late, canon, known>>
      /\ LET continues == pending = << >> \/ previous[Head(pending)] = LastOf(h)
             begins == h # << >> /\ Head(h) = SessionRecord
         IN /\ spool' = IF continues THEN OpenOn(pending, h) ELSE spool
            /\ session' = IF continues /\ begins THEN "cached" ELSE "absent"
  BY <1>2 DEF ReceiveHistory, Answer, planeVars
<1>4. 1 \in DOMAIN toNode /\ toNode[1] = Head(toNode)
  BY <1>1, <1>3, TakeFrame
<1>5. h \in Seq(1 .. issued) /\ Segment(h, canon, 0) /\ o <= Len(h) /\ Len(h) \in Nat
  <2>1. /\ toNode[1].records \in Seq(1 .. issued) /\ Segment(toNode[1].records, canon, 0)
        /\ o <= Len(toNode[1].records)
    BY <1>1, <1>3, <1>4 DEF Told
  <2>2. h = toNode[1].records
    BY <1>2, <1>4
  <2> QED
    BY <2>1, <2>2
<1>6. Segment(h, w, 0) /\ Len(h) <= Len(canon)
  BY <1>1, <1>5, SegmentOfSegment
<1>7. Pending = file /\ link \in {"draining", "drained", "ready"}
  <2>1. link \in {"draining", "drained", "ready"}
    BY <1>1, <1>3 DEF Unconnected, TypeOK
  <2> QED
    BY <1>1, <2>1 DEF Pending, SpoolAtEnd
<1>8. /\ pending \in Seq(1 .. issued) /\ Segment(pending, w, Len(h))
      /\ Len(h) + Len(pending) = Len(w)
  <2>1. PICK S : S = 1 .. issued
    OBVIOUS
  <2>2. /\ w \in Seq(S) /\ h \in Seq(S) /\ file \in Seq(S) /\ o \in Nat
        /\ Segment(h, w, 0) /\ Segment(file, w, o) /\ o <= Len(h)
    BY <1>1, <1>5, <1>6, <2>1
  <2>3. \A j, k \in 1 .. Len(w) : w[j] = w[k] => j = k
    BY <1>1, ChainItems
  <2>4. /\ Missing(file, h) \in Seq(S) /\ Segment(Missing(file, h), w, Len(h))
        /\ IF o + Len(file) <= Len(h) THEN Missing(file, h) = << >>
           ELSE Len(h) + Len(Missing(file, h)) = o + Len(file)
    BY <2>2, <2>3, MissingSegment
  <2>5. pending = Missing(file, h)
    BY <1>2, <1>7
  <2>6. CASE o + Len(file) <= Len(h)
    <3>1. Len(pending) = 0 /\ Len(w) <= Len(h)
      BY <1>1, <2>4, <2>5, <2>6
    <3>2. Len(h) <= Len(w)
      BY <1>5, <1>6 DEF Segment
    <3> QED
      BY <1>1, <1>5, <2>1, <2>4, <2>5, <3>1, <3>2
  <2>7. CASE ~(o + Len(file) <= Len(h))
    BY <1>1, <2>1, <2>4, <2>5, <2>7
  <2> QED
    BY <2>6, <2>7
<1>9. pending # << >> => /\ previous[Head(pending)] = LastOf(h) /\ Last(pending) = LastOf(w)
  <2> HAVE pending # << >>
  <2>1. Succeeds(h, pending)
    <3>1. /\ w \in Seq(1 .. issued) /\ issued \in Nat /\ Chained(w)
          /\ h \in Seq(1 .. issued) /\ Segment(h, w, 0)
          /\ pending \in Seq(1 .. issued) /\ Segment(pending, w, Len(h))
      BY <1>1, <1>5, <1>6, <1>8
    <3> QED
      BY <3>1, PartContinues
  <2>2. 1 \in DOMAIN pending /\ Head(pending) = pending[1]
    BY <1>8
  <2>3. Len(h) + Len(pending) \in 1 .. Len(w) /\ Last(pending) = w[Len(h) + Len(pending)]
    BY <1>1, <1>5, <1>8, PartEnd
  <2>4. w # << >> /\ Last(pending) = w[Len(w)]
    BY <1>8, <2>3
  <2>5. previous[pending[1]] = LastOf(h)
    BY <2>1, <2>2 DEF Succeeds
  <2> QED
    BY <2>2, <2>4, <2>5 DEF LastOf, Last
<1>10. pending = << >> => LastOf(h) = LastOf(w)
  <2> HAVE pending = << >>
  <2>1. Len(h) = Len(w)
    BY <1>5, <1>8
  <2>2. CASE h = << >>
    <3>1. w = << >>
      BY <1>1, <2>1, <2>2
    <3> QED
      BY <2>2, <3>1
  <2>3. CASE h # << >>
    <3>1. LastOf(h) = w[Len(w)] /\ Len(w) \in 1 .. Len(w)
      <4>1. w \in Seq(1 .. issued) /\ issued \in Nat /\ Chained(w)
        BY <1>1
      <4>2. LastOf(h) = w[0 + Len(h)] /\ 0 + Len(h) \in 1 .. Len(w)
        BY <1>5, <1>6, <2>3, <4>1, PartEnd
      <4>3. 0 + Len(h) = Len(w)
        BY <1>5, <2>1
      <4> QED
        BY <4>2, <4>3
    <3>2. w # << >>
      BY <3>1
    <3> QED
      BY <3>1, <3>2 DEF LastOf, Last
  <2> QED
    BY <2>2, <2>3
<1>11. SpoolAtEnd(w)'
  <2>1. spool' = OpenOn(pending, h) /\ (session' = "cached" => h # << >>)
    BY <1>3, <1>9
  <2>2. spool'.open /\ spool'.last = LastOf(w)
    BY <1>9, <1>10, <2>1 DEF OpenOn
  <2>3. h # << >> => w # << >>
    <3>1. h # << >> => 0 + Len(h) \in 1 .. Len(w)
      BY <1>1, <1>5, <1>6, PartEnd
    <3> QED
      BY <3>1
  <2> QED
    BY <2>1, <2>2, <2>3 DEF SpoolAtEnd
<1>12. Batches' \subseteq Batches
  BY <1>1, <1>3, BatchesChange DEF Batches
<1>13. Parts(w, Len(h))'
  BY <1>1, <1>3, <1>6, <1>8, <1>12 DEF Parts
<1>14. Chained(w)' /\ PlaneKnows' /\ Unconnected' /\ Awaited'
  BY <1>1, <1>3, <1>7, <1>12, ChainedKept, AwaitedKept DEF PlaneKnows, Unconnected
<1>15. Outstanding(awaiting', toPlane', toNode')
  BY <1>1, <1>3, OutstandingKept
<1>16. Told(toNode', canon', Len(h))
  <2>1. \A k \in DOMAIN toNode : k > 1 /\ toNode[k].type = "history" => Len(h) <= Len(toNode[k].records)
    BY <1>1, <1>2, <1>3, <1>4 DEF Told
  <2>2. Told(Tail(toNode), canon, Len(h))
    BY <1>1, <1>3, <1>5, <2>1, ToldKept
  <2> QED
    BY <1>3, <2>2
<1>17. Healthy(w, Len(h))'
  BY <1>11, <1>13, <1>14, <1>15, <1>16 DEF Healthy
<1> QED
  BY <1>3, <1>5, <1>17

\* No rejection is on the way.
LEMMA RejectStep ==
  ASSUME NEW w, NEW o, Sound(w, o), ReceiveReject \/ ReceiveRejectDraining
  PROVE  FALSE
<1>1. toNode \in Seq(Frame) /\ Told(toNode, canon, o)
  BY SoundFacts
<1>2. toNode # << >> /\ Head(toNode).type = "reject"
  BY DEF ReceiveReject, ReceiveRejectDraining, Answer
<1>3. 1 \in DOMAIN toNode /\ toNode[1] = Head(toNode)
  BY <1>1, <1>2, TakeFrame
<1> QED
  BY <1>1, <1>2, <1>3 DEF Told

\* The records lost from a file that was being rewritten come after all that was sent.
LEMMA TornStep ==
  ASSUME NEW w, NEW o, Sound(w, o), TearRewrite
  PROVE  /\ \E v \in Seq(1 .. issued), p \in Nat : Healthy(v, p)'
         /\ canon' = canon
<1>1. /\ issued \in Nat /\ w \in Seq(1 .. issued) /\ o \in Nat /\ TypeOK
      /\ Chained(w) /\ Parts(w, o) /\ SpoolAtEnd(w) /\ PlaneKnows /\ Awaited
      /\ Outstanding(awaiting, toPlane, toNode) /\ Told(toNode, canon, o)
      /\ toPlane \in Seq(Frame) /\ toNode \in Seq(Frame)
      /\ canon \in Seq(1 .. issued) /\ file \in Seq(1 .. issued)
      /\ Segment(canon, w, 0)
  BY SoundFacts
<1>2. /\ toNode # << >> /\ Head(toNode).type = "ack"
      /\ Head(Head(toNode).records) \in ToSet(Pending)
      /\ \E k \in 1 .. Len(After(Pending, Head(Head(toNode).records))) :
           file' = SubSeq(After(Pending, Head(Head(toNode).records)), 1, k - 1)
      /\ Unlink /\ LeaveFrames /\ spool' = Closed /\ session' = "absent"
      /\ UNCHANGED <<previous, canon, known>>
  BY DEF TearRewrite, NodeStops, planeVars
<1>3. Head(Head(toNode).records) = awaiting /\ awaiting # Nothing
  <2>1. Head(toNode).records = <<awaiting>>
    BY <1>1, <1>2, OutstandingPasses
  <2>2. 1 \in DOMAIN toNode /\ toNode[1] = Head(toNode)
    BY <1>1, <1>2, TakeFrame
  <2> QED
    BY <1>1, <1>2, <2>1, <2>2 DEF Outstanding
<1>4. Pending = file /\ awaiting \in ToSet(file)
  <2>1. spool.open
    BY <1>2 DEF Pending, ToSet
  <2> QED
    BY <1>2, <1>3, <2>1 DEF Pending
<1>5. awaiting \in ToSet(canon)
  <2>1. 1 \in DOMAIN toNode /\ toNode[1] = Head(toNode)
    BY <1>1, <1>2, TakeFrame
  <2> QED
    <3>1. toNode[1].type = "ack" => Head(toNode[1].records) \in ToSet(canon)
      BY <1>1, <2>1 DEF Told
    <3> QED
      BY <1>2, <1>3, <2>1, <3>1, Zenon
<1>6. canon # << >>
  BY <1>5 DEF ToSet
<1>7. PICK n \in 1 .. Len(w) : n = Len(canon) /\ w[n] = LastOf(canon) /\ w[n] <= awaiting
  <2>1. w \in Seq(1 .. issued) /\ issued \in Nat /\ Chained(w)
    BY <1>1
  <2>2. 0 + Len(canon) \in 1 .. Len(w) /\ LastOf(canon) = w[0 + Len(canon)]
    BY <1>1, <1>6, <2>1, PartEnd
  <2>3. 0 + Len(canon) = Len(canon) /\ LastOf(canon) <= awaiting
    BY <1>1, <1>3 DEF Awaited
  <2> QED
    BY <2>2, <2>3
<1>8. w[n] = awaiting
  <2>1. PICK j \in 1 .. Len(canon) : canon[j] = awaiting
    <3>1. DOMAIN canon = 1 .. Len(canon)
      BY <1>1
    <3> QED
      BY <1>5, <3>1 DEF ToSet
  <2>2. j \in 1 .. Len(w) /\ w[j] = awaiting /\ j <= n
    <3>1. w \in Seq(1 .. issued) /\ canon \in Seq(1 .. issued) /\ Segment(canon, w, 0)
      BY <1>1
    <3>2. j \in 1 .. Len(w) /\ canon[j] = w[j]
      BY <2>1, <3>1, SegmentItem
    <3> QED
      BY <1>7, <2>1, <3>2
  <2>3. \A x, y \in 1 .. Len(w) : /\ w[x] \in 1 .. issued
                                  /\ x <= y <=> w[x] <= w[y]
                                  /\ w[x] = w[y] => x = y
    BY <1>1, ChainItems
  <2>4. n <= j
    BY <1>7, <2>2, <2>3
  <2>5. \A x, y \in 1 .. Len(w) : x <= y /\ y <= x => x = y
    OBVIOUS
  <2> QED
    BY <2>2, <2>4, <2>5
<1>9. PICK rest : rest = After(file, awaiting)
  OBVIOUS
<1>10. rest \in Seq(1 .. issued) /\ Segment(rest, w, n)
  <2>1. PICK p \in Nat :
          /\ o <= p /\ p <= Len(canon)
          /\ After(file, awaiting) \in Seq(1 .. issued)
          /\ p + Len(After(file, awaiting)) = Len(w) /\ Segment(After(file, awaiting), w, p)
          /\ \/ p = o /\ awaiting \notin ToSet(file)
             \/ p \in 1 .. Len(w) /\ w[p] = awaiting /\ awaiting \in ToSet(file)
    BY <1>5, AcknowledgedRest
  <2>2. p = n
    <3>1. \A x, y \in 1 .. Len(w) : w[x] = w[y] => x = y
      BY <1>1, ChainItems
    <3>2. CASE p \in 1 .. Len(w) /\ w[p] = awaiting
      BY <1>8, <3>1, <3>2
    <3> QED
      BY <1>4, <2>1, <3>2
  <2> QED
    BY <1>9, <2>1, <2>2
<1>11. PICK k \in 0 .. Len(rest) : file' = SubSeq(rest, 1, k)
  <2>1. PICK j \in 1 .. Len(rest) : file' = SubSeq(rest, 1, j - 1)
    BY <1>2, <1>3, <1>4, <1>9
  <2>2. j - 1 \in 0 .. Len(rest)
    BY <1>10, <2>1
  <2> QED
    BY <2>1, <2>2
<1>12. PICK m : m = SubSeq(rest, 1, k)
  OBVIOUS
<1>13. m \in Seq(1 .. issued) /\ Len(m) = k /\ Segment(m, w, n) /\ file' = m /\ n \in Nat
  <2>1. PICK S : S = 1 .. issued
    OBVIOUS
  <2>2. w \in Seq(S) /\ rest \in Seq(S) /\ n \in Nat
    BY <1>1, <1>7, <1>10, <2>1
  <2>3. SubSeq(rest, 1, k) \in Seq(S) /\ Len(SubSeq(rest, 1, k)) = k /\ Segment(SubSeq(rest, 1, k), w, n)
    BY <1>10, <2>2, CutSegment
  <2> QED
    BY <1>11, <1>12, <2>1, <2>2, <2>3
<1>14. n + k \in 0 .. Len(w) /\ n <= n + k /\ k \in Nat
  <2>1. n + k <= Len(w)
    BY <1>13 DEF Segment
  <2>2. n \in Nat /\ k \in Nat /\ Len(w) \in Nat
    BY <1>1, <1>10, <1>13
  <2> QED
    BY <2>1, <2>2
<1>15. PICK v : v = SubSeq(w, 1, n + k)
  OBVIOUS
<1>16. /\ v \in Seq(1 .. issued) /\ Len(v) = n + k
       /\ \A j \in 1 .. n + k : v[j] = w[j] /\ j \in 1 .. Len(w)
  <2>1. PICK x \in 0 .. Len(w) : x = n + k
    BY <1>14
  <2>2. /\ SubSeq(w, 1, x) \in Seq(1 .. issued) /\ Len(SubSeq(w, 1, x)) = x
        /\ \A j \in 1 .. x : SubSeq(w, 1, x)[j] = w[j] /\ j \in 1 .. Len(w)
    BY <1>1, FirstItems, Zenon
  <2> QED
    BY <1>15, <2>1, <2>2
<1>17. ASSUME NEW b \in Seq(1 .. issued), NEW i \in Nat, Segment(b, w, i), i + Len(b) <= n + k
       PROVE  Segment(b, v, i)
  <2>1. \A j \in 1 .. Len(b) : b[j] = w[i + j] /\ i + j \in 1 .. n + k
    BY <1>14, <1>17 DEF Segment
  <2> QED
    BY <1>16, <1>17, <2>1 DEF Segment
<1>18. Chained(v)'
  <2>1. \A i, j \in 1 .. Len(v) : i < j => v[i] < v[j]
    BY <1>1, <1>16 DEF Chained
  <2>2. \A j \in 1 .. Len(v) : previous'[v[j]] = IF j = 1 THEN Nothing ELSE v[j - 1]
    <3> TAKE j \in 1 .. Len(v)
    <3>1. j \in 1 .. n + k /\ (j # 1 => j - 1 \in 1 .. n + k)
      BY <1>14, <1>16
    <3>2. previous[w[j]] = IF j = 1 THEN Nothing ELSE w[j - 1]
      BY <1>1, <1>16, <3>1 DEF Chained
    <3> QED
      BY <1>2, <1>16, <3>1, <3>2
  <2>3. v # << >> => v[1] = SessionRecord
    <3>1. 1 \in 1 .. n + k /\ w # << >>
      BY <1>7, <1>14
    <3> QED
      BY <1>1, <1>16, <3>1 DEF Chained
  <2> QED
    BY <2>1, <2>2, <2>3 DEF Chained
<1>19. Parts(v, n)'
  <2>1. Segment(canon, v, 0)
    <3>1. 0 + Len(canon) <= n + k
      BY <1>7, <1>14
    <3> QED
      BY <1>1, <1>17, <3>1
  <2>2. Segment(m, v, n) /\ n + Len(m) = Len(v)
    BY <1>13, <1>14, <1>16, <1>17
  <2>3. \A b \in Batches : b # << >> /\ \E i \in 0 .. Len(canon) : Segment(b, v, i)
    <3> TAKE b \in Batches
    <3>1. b \in Seq(1 .. issued) /\ b # << >> /\ Last(b) <= awaiting
      BY <1>1, <1>3, SoundFacts DEF Awaited
    <3>2. PICK i \in 0 .. Len(canon) : Segment(b, w, i)
      BY <1>1 DEF Parts
    <3>3. i \in Nat
      BY <3>2
    <3>4. i + Len(b) \in 1 .. Len(w) /\ Last(b) = w[i + Len(b)]
      BY <1>1, <3>1, <3>2, <3>3, PartEnd
    <3>5. \A x, y \in 1 .. Len(w) : x <= y <=> w[x] <= w[y]
      BY <1>1, ChainItems
    <3>6. i + Len(b) <= n
      BY <1>7, <1>8, <3>1, <3>4, <3>5
    <3>7. i + Len(b) <= n + k
      BY <1>7, <1>14, <3>4, <3>6
    <3> QED
      BY <1>17, <3>1, <3>2, <3>3, <3>7
  <2>4. Batches' \subseteq Batches
    <3>1. InFlight' = {}
      BY <1>1, <1>2, BatchesChange DEF Unlink
    <3> QED
      BY <1>2, <3>1 DEF LeaveFrames, Batches
  <2>5. n <= Len(canon)
    BY <1>7
  <2> QED
    BY <1>2, <1>13, <2>1, <2>2, <2>3, <2>4, <2>5 DEF Parts
<1>20. SpoolAtEnd(v)' /\ PlaneKnows' /\ Unconnected' /\ Awaited'
  BY <1>1, <1>2 DEF SpoolAtEnd, Closed, PlaneKnows, Unconnected, Unlink, Awaited
<1>21. Outstanding(awaiting', toPlane', toNode') /\ Told(toNode', canon', n)
  BY <1>2 DEF Unlink, Outstanding, Told
<1>22. Healthy(v, n)'
  BY <1>18, <1>19, <1>20, <1>21 DEF Healthy
<1> QED
  BY <1>2, <1>7, <1>16, <1>22

\* A record written continues the log.
LEMMA WriteStep ==
  ASSUME NEW w, NEW o, Sound(w, o), CreateSession \/ AppendRecord
  PROVE  /\ \E v \in Seq(1 .. issued') : v = Append(w, issued + 1) /\ Healthy(v, o)'
         /\ canon' = canon /\ issued + 1 \in Records
<1>1. /\ issued \in Nat /\ w \in Seq(1 .. issued) /\ o \in Nat /\ TypeOK
      /\ Chained(w) /\ Parts(w, o) /\ SpoolAtEnd(w) /\ PlaneKnows /\ Unconnected /\ Awaited
      /\ Outstanding(awaiting, toPlane, toNode) /\ Told(toNode, canon, o)
      /\ canon \in Seq(1 .. issued) /\ file \in Seq(1 .. issued)
      /\ Segment(canon, w, 0) /\ Segment(file, w, o) /\ o <= Len(canon)
      /\ o + Len(file) = Len(w)
  BY SoundFacts
<1>2. PICK n \in Nat : n = issued + 1
  BY <1>1
<1>3. /\ issued < MaxRecords /\ issued' = n
      /\ previous' = [previous EXCEPT ![n] = spool.last]
      /\ file' = Append(file, n)
      /\ spool' = [open |-> TRUE, last |-> n]
      /\ UNCHANGED <<link, awaiting, toPlane, toNode, late, canon, known>>
      /\ session' = "cached"
  BY <1>2 DEF CreateSession, AppendRecord, WriteRecord, planeVars
<1>4. spool.last = LastOf(w) /\ (w = << >> => n = 1)
  <2>1. CASE CreateSession
    <3>1. issued = 0
      BY <2>1 DEF CreateSession
    <3>2. w = << >>
      BY <1>1, <3>1
    <3>3. spool.last = 0
      BY <1>1, <3>1 DEF TypeOK
    <3> QED
      BY <1>2, <3>1, <3>2, <3>3 DEF LastOf
  <2>2. CASE AppendRecord
    BY <1>1, <2>2 DEF AppendRecord, SpoolAtEnd
  <2> QED
    BY <2>1, <2>2
<1>5. PICK l \in Nat : l = Len(w)
  BY <1>1
<1>6. PICK v : v = Append(w, n)
  OBVIOUS
<1>7. /\ v \in Seq(1 .. n) /\ Len(v) = l + 1 /\ v # << >> /\ v[l + 1] = n
      /\ \A j \in 1 .. l : v[j] = w[j] /\ w[j] \in 1 .. issued /\ w[j] # n /\ w[j] < n
  <2>1. \A j \in 1 .. l : w[j] \in 1 .. issued
    BY <1>1, <1>5
  <2>2. \A x \in 1 .. issued : x # n /\ x < n /\ x \in 1 .. n
    BY <1>1, <1>2
  <2>3. w \in Seq(1 .. n) /\ n \in 1 .. n
    <3>1. issued <= n /\ n \in 1 .. n
      BY <1>1, <1>2
    <3> QED
      BY <1>1, <3>1, Widen
  <2>4. v \in Seq(1 .. n) /\ Len(v) = l + 1 /\ v[l + 1] = n /\ \A j \in 1 .. l : v[j] = w[j]
    BY <1>5, <1>6, <2>3
  <2>5. v # << >>
    BY <2>4
  <2> QED
    BY <2>1, <2>2, <2>4, <2>5
<1>8. Last(v) = n /\ LastOf(v) = n
  BY <1>7 DEF Last, LastOf
<1>9. ASSUME NEW b \in Seq(1 .. issued), NEW i \in Nat, Segment(b, w, i)
      PROVE  Segment(b, v, i)
  <2>1. /\ i + Len(b) <= l + 1 /\ \A j \in 1 .. Len(b) : b[j] = w[i + j] /\ i + j \in 1 .. l
    BY <1>5, <1>9 DEF Segment
  <2> QED
    BY <1>7, <2>1 DEF Segment
<1>10. Chained(v)'
  <2>1. ASSUME NEW i \in 1 .. l + 1, NEW j \in 1 .. l + 1, i < j
        PROVE  v[i] < v[j]
    <3>1. i \in 1 .. l
      BY <2>1
    <3>2. CASE j = l + 1
      BY <1>7, <3>1, <3>2
    <3>3. CASE j # l + 1
      <4>1. j \in 1 .. l
        BY <3>3
      <4> QED
        BY <1>1, <1>5, <1>7, <2>1, <3>1, <4>1 DEF Chained
    <3> QED
      BY <3>2, <3>3
  <2>2. ASSUME NEW j \in 1 .. l + 1
        PROVE  previous'[v[j]] = IF j = 1 THEN Nothing ELSE v[j - 1]
    <3>1. CASE j = l + 1
      <4>1. previous'[n] = LastOf(w)
        <5>1. n \in DOMAIN previous
          BY <1>1, <1>2, <1>3, ReplicationAssumption DEF TypeOK, Records
        <5> QED
          BY <1>3, <1>4, <5>1
      <4>2. CASE l = 0
        <5>1. w = << >> /\ j = 1
          <6>1. Len(w) = 0 /\ w \in Seq(1 .. issued)
            BY <1>1, <1>5, <4>2
          <6> QED
            BY <3>1, <4>2, <6>1
        <5>2. LastOf(w) = 0
          BY <5>1 DEF LastOf
        <5> QED
          BY <1>7, <3>1, <4>1, <5>1, <5>2
      <4>3. CASE l # 0
        <5>1. l \in 1 .. l /\ w # << >> /\ j # 1 /\ j - 1 = l
          BY <1>5, <3>1, <4>3
        <5>2. LastOf(w) = w[l]
          BY <1>5, <5>1 DEF LastOf, Last
        <5> QED
          BY <1>7, <3>1, <4>1, <5>1, <5>2
      <4> QED
        BY <4>2, <4>3
    <3>2. CASE j # l + 1
      <4>1. j \in 1 .. l /\ (j # 1 => j - 1 \in 1 .. l)
        BY <3>2
      <4>2. previous[w[j]] = IF j = 1 THEN Nothing ELSE w[j - 1]
        BY <1>1, <1>5, <4>1 DEF Chained
      <4>3. previous'[w[j]] = previous[w[j]]
        BY <1>3, <1>7, <4>1
      <4> QED
        BY <1>7, <4>1, <4>2, <4>3
    <3> QED
      BY <3>1, <3>2
  <2>3. v[1] = SessionRecord
    <3>1. CASE w = << >>
      <4>1. l = 0
        BY <1>5, <3>1
      <4> QED
        BY <1>4, <1>7, <3>1, <4>1
    <3>2. CASE w # << >>
      <4>1. 1 \in 1 .. l
        BY <1>1, <1>5, <3>2
      <4> QED
        BY <1>1, <1>7, <3>2, <4>1 DEF Chained
    <3> QED
      BY <3>1, <3>2
  <2> QED
    BY <1>7, <2>1, <2>2, <2>3 DEF Chained
<1>11. Parts(v, o)'
  <2>1. Segment(canon, v, 0)
    BY <1>1, <1>9
  <2>2. PICK f : f = Append(file, n)
    OBVIOUS
  <2>3. o + Len(f) = Len(v) /\ Segment(f, v, o)
    <3>1. PICK u \in Nat : u = Len(file)
      BY <1>1
    <3>2. /\ Len(f) = u + 1 /\ f[u + 1] = n /\ o + u = l
          /\ \A j \in 1 .. u : f[j] = file[j] /\ file[j] = w[o + j]
      BY <1>1, <1>5, <2>2, <3>1 DEF Segment
    <3>3. o + (u + 1) = l + 1 /\ \A j \in 1 .. u : o + j \in 1 .. l
      BY <1>1, <3>2
    <3>4. \A j \in 1 .. u + 1 : f[j] = v[o + j]
      <4> TAKE j \in 1 .. u + 1
      <4>1. CASE j = u + 1
        BY <1>7, <3>2, <3>3, <4>1
      <4>2. CASE j # u + 1
        <5>1. j \in 1 .. u
          BY <4>2
        <5> QED
          BY <1>7, <3>2, <3>3, <5>1
      <4> QED
        BY <4>1, <4>2
    <3> QED
      BY <1>7, <3>2, <3>3, <3>4 DEF Segment
  <2>4. \A b \in Batches : b # << >> /\ \E i \in 0 .. Len(canon) : Segment(b, v, i)
    <3> TAKE b \in Batches
    <3>1. b \in Seq(1 .. issued) /\ b # << >>
      BY SoundFacts
    <3>2. PICK i \in 0 .. Len(canon) : Segment(b, w, i)
      BY <1>1 DEF Parts
    <3>3. i \in Nat
      BY <3>2
    <3> QED
      BY <1>9, <3>1, <3>2, <3>3
  <2>5. Batches' \subseteq Batches
    BY <1>1, <1>3, BatchesChange DEF Batches
  <2> QED
    BY <1>1, <1>3, <2>1, <2>2, <2>3, <2>4, <2>5 DEF Parts
<1>12. SpoolAtEnd(v)' /\ PlaneKnows' /\ Unconnected' /\ Awaited'
  <2>1. Batches' \subseteq Batches
    BY <1>1, <1>3, BatchesChange DEF Batches
  <2>2. spool'.open /\ spool'.last = n
    BY <1>3
  <2> QED
    BY <1>1, <1>3, <1>7, <1>8, <2>1, <2>2, AwaitedKept DEF SpoolAtEnd, PlaneKnows, Unconnected
<1>13. Outstanding(awaiting', toPlane', toNode') /\ Told(toNode', canon', o)
  BY <1>1, <1>3
<1>14. Healthy(v, o)'
  BY <1>10, <1>11, <1>12, <1>13 DEF Healthy
<1>15. n \in Records
  BY <1>1, <1>2, <1>3, ReplicationAssumption DEF Records
<1> QED
  <2>1. canon' = canon /\ issued' = n
    BY <1>3
  <2>2. v \in Seq(1 .. issued') /\ v = Append(w, issued + 1) /\ issued + 1 \in Records
    BY <1>2, <1>6, <1>7, <1>15, <2>1
  <2> QED
    BY <1>14, <2>1, <2>2

-----------------------------------------------------------------------------
(* Every step. *)

\* While no write of the plane fails, a step leaves the log of the session as it is and the
\* plane has no less of it, or it writes the next record; or the end of a torn file is lost.
LEMMA HealthyNext ==
  ASSUME ChainInv, [Next]_vars, faults = 0, faults' = 0,
         NEW w \in Seq(1 .. issued), NEW o \in Nat, Healthy(w, o)
  PROVE  \E v \in Seq(1 .. issued'), p \in Nat :
           /\ Healthy(v, p)'
           /\ \/ v = w /\ (canon' = canon \/ Len(canon) < Len(canon'))
              \/ v = Append(w, issued + 1) /\ canon' = canon /\ issued + 1 \in Records
              \/ TearRewrite
<1>1. Sound(w, o)
  BY DEF Sound, ChainInv
<1>2. CASE CreateSession \/ AppendRecord
  BY <1>1, <1>2, WriteStep
<1>3. ASSUME UNCHANGED issued, \E p \in Nat : Healthy(w, p)',
             canon' = canon \/ Len(canon) < Len(canon')
      PROVE  \E v \in Seq(1 .. issued'), p \in Nat :
               Healthy(v, p)' /\ v = w /\ (canon' = canon \/ Len(canon) < Len(canon'))
  BY <1>3
<1>4. CASE \/ Connect \/ ReadSpool \/ SpoolUnreadable \/ SendDrained \/ Load
           \/ HandleDrained \/ HandleLoad \/ ReceiveReady \/ ReceiveUnavailable
           \/ Disconnect \/ NodeCrash \/ TearAppend \/ UNCHANGED vars
  <2>1. Healthy(w, o)' /\ canon' = canon
    BY <1>1, <1>4, QuietSteps
  <2>2. UNCHANGED issued
    BY <1>4 DEF Connect, ReadSpool, SpoolUnreadable, SendDrained, Load, HandleDrained, HandleLoad,
                ReceiveReady, ReceiveUnavailable, Disconnect, NodeCrash, TearAppend, NodeStops,
                vars, diskVars
  <2> QED
    BY <1>3, <2>1, <2>2
<1>5. CASE Flush
  BY <1>1, <1>3, <1>5, FlushStep DEF Flush, diskVars
<1>6. CASE HandleRecords
  BY <1>1, <1>3, <1>6, RecordsStep DEF HandleRecords, diskVars
<1>7. CASE HandleLate
  BY <1>1, <1>3, <1>7, LateStep DEF HandleLate, diskVars
<1>8. CASE PlaneStops
  BY <1>1, <1>3, <1>8, PlaneStopsStep DEF PlaneStops, diskVars
<1>9. CASE ReceiveAck
  BY <1>1, <1>3, <1>9, AckStep DEF ReceiveAck
<1>10. CASE ReceiveHistory
  BY <1>1, <1>3, <1>10, HistoryStep DEF ReceiveHistory
<1>11. CASE ReceiveReject \/ ReceiveRejectDraining
  BY <1>1, <1>11, RejectStep
<1>12. CASE TearRewrite
  <2>1. issued' = issued
    BY <1>12 DEF TearRewrite, NodeStops
  <2> QED
    BY <1>1, <1>12, <2>1, TornStep
<1>13. ~WriteFails
  BY DEF WriteFails
<1> QED
  BY <1>2, <1>3, <1>4, <1>5, <1>6, <1>7, <1>8, <1>9, <1>10, <1>11, <1>12, <1>13
     DEF Next, Writing, Link, Plane, Failures

LEMMA FaultsCount == ChainInv /\ [Next]_vars /\ faults' = 0 => faults = 0
<1> SUFFICES ASSUME ChainInv, [Next]_vars, faults' = 0 PROVE faults = 0
  OBVIOUS
<1>1. faults \in Nat
  BY ReplicationAssumption DEF ChainInv, TypeOK
<1>2. UNCHANGED faults \/ faults' = faults + 1
  BY DEF Next, Writing, Link, Plane, Failures, CreateSession, AppendRecord, WriteRecord, Flush,
         Connect, ReadSpool, SpoolUnreadable, SendDrained, ReceiveAck, ReceiveReject,
         ReceiveRejectDraining, ReceiveReady, ReceiveHistory, ReceiveUnavailable, Load,
         HandleRecords, HandleDrained, HandleLoad, WriteFails, HandleLate, Disconnect, NodeCrash,
         TearAppend, TearRewrite, NodeStops, PlaneStops, vars, bounds
<1> QED
  BY <1>1, <1>2

LEMMA HealthyInit == Init => Healthy(<< >>, 0)
<1> SUFFICES ASSUME Init PROVE Healthy(<< >>, 0)
  OBVIOUS
<1>1. /\ canon = << >> /\ file = << >> /\ toPlane = << >> /\ toNode = << >> /\ late = {}
      /\ spool = Closed /\ session = "absent" /\ link = "down" /\ awaiting = Nothing /\ known = "no"
  BY DEF Init
<1>2. Batches = {}
  BY <1>1 DEF Batches, InFlight
<1>3. Segment(<< >>, << >>, 0)
  BY DEF Segment
<1>4. Chained(<< >>) /\ Parts(<< >>, 0)
  BY <1>1, <1>2, <1>3 DEF Chained, Parts
<1>5. SpoolAtEnd(<< >>) /\ PlaneKnows /\ Unconnected /\ Awaited
  BY <1>1 DEF SpoolAtEnd, Closed, PlaneKnows, Unconnected, Awaited
<1>6. Outstanding(awaiting, toPlane, toNode) /\ Told(toNode, canon, 0)
  BY <1>1 DEF Outstanding, Told
<1> QED
  BY <1>4, <1>5, <1>6 DEF Healthy

\* The invariant of the link, with what holds while no write of the plane failed.
THEOREM LinkInvariant == Spec => []LinkInv
<1>1. Init => LinkInv
  <2> SUFFICES ASSUME Init PROVE LinkInv
    OBVIOUS
  <2>1. Healthy(<< >>, 0) /\ << >> \in Seq(1 .. issued) /\ 0 \in Nat
    BY HealthyInit
  <2> QED
    BY <2>1, ChainInit DEF LinkInv
<1>2. LinkInv /\ [Next]_vars => LinkInv'
  <2> SUFFICES ASSUME LinkInv, [Next]_vars PROVE LinkInv'
    OBVIOUS
  <2>1. ChainInv /\ ChainInv'
    BY ChainNext DEF LinkInv
  <2>2. ASSUME faults' = 0
        PROVE  \E v \in Seq(1 .. issued'), p \in Nat : Healthy(v, p)'
    <3>1. faults = 0
      BY <2>1, <2>2, FaultsCount
    <3>2. PICK w \in Seq(1 .. issued), o \in Nat : Healthy(w, o)
      BY <3>1 DEF LinkInv
    <3> QED
      BY <2>1, <2>2, <3>1, <3>2, HealthyNext
  <2> QED
    BY <2>1, <2>2 DEF LinkInv
<1> QED
  BY <1>1, <1>2, PTL DEF Spec

(***************************************************************************)
(* Until a write of the plane fails, no record that the node wrote is      *)
(* taken for a fork: not one sent again, not one of an old connection, not *)
(* one written after a reload or after the end of a torn file was lost.    *)
(***************************************************************************)
THEOREM NothingRejectedHolds == Spec => []NothingRejected
<1>1. LinkInv => NothingRejected
  <2> SUFFICES ASSUME LinkInv, faults = 0, NEW k \in DOMAIN toNode PROVE toNode[k].type # "reject"
    BY DEF NothingRejected
  <2>1. PICK w \in Seq(1 .. issued), o \in Nat : Healthy(w, o)
    BY DEF LinkInv
  <2> QED
    BY <2>1 DEF Healthy, Told
<1> QED
  BY <1>1, LinkInvariant, PTL

-----------------------------------------------------------------------------
(* The refinement of the canonical log. *)

\* The log of the session is what the plane has, followed by what it lacks of the spool file.
WholeLog ==
  \A w \in Seq(1 .. issued), o \in Nat : Healthy(w, o) => canon \o Missing(file, canon) = w

LEMMA LogIsWhole == TypeOK => WholeLog
<1> SUFFICES ASSUME TypeOK, NEW w \in Seq(1 .. issued), NEW o \in Nat, Healthy(w, o)
             PROVE  canon \o Missing(file, canon) = w
  BY DEF WholeLog
<1> Sound(w, o)
  BY DEF Sound
<1>1. /\ issued \in Nat /\ w \in Seq(1 .. issued) /\ o \in Nat /\ Chained(w)
      /\ canon \in Seq(1 .. issued) /\ file \in Seq(1 .. issued)
      /\ Segment(canon, w, 0) /\ Segment(file, w, o) /\ o <= Len(canon)
      /\ o + Len(file) = Len(w)
  BY SoundFacts
<1>2. PICK S : S = 1 .. issued
  OBVIOUS
<1>3. /\ w \in Seq(S) /\ canon \in Seq(S) /\ file \in Seq(S) /\ o \in Nat
      /\ Segment(canon, w, 0) /\ Segment(file, w, o) /\ o <= Len(canon)
  BY <1>1, <1>2
<1>4. \A i, j \in 1 .. Len(w) : w[i] = w[j] => i = j
  BY <1>1, ChainItems
<1>5. PICK m : m = Missing(file, canon)
  OBVIOUS
<1>6. /\ m \in Seq(S) /\ Segment(m, w, Len(canon))
      /\ IF o + Len(file) <= Len(canon) THEN m = << >>
         ELSE Len(canon) + Len(m) = o + Len(file)
  <2>1. /\ Missing(file, canon) \in Seq(S) /\ Segment(Missing(file, canon), w, Len(canon))
        /\ IF o + Len(file) <= Len(canon) THEN Missing(file, canon) = << >>
           ELSE Len(canon) + Len(Missing(file, canon)) = o + Len(file)
    BY <1>3, <1>4, MissingSegment
  <2> QED
    BY <1>5, <2>1
<1>7. PICK c : c = canon \o m
  OBVIOUS
<1>8. c \in Seq(S) /\ Len(c) = Len(canon) + Len(m) /\ Segment(c, w, 0)
  BY <1>3, <1>6, <1>7, JoinSegment
<1>9. Len(c) = Len(w)
  <2>1. Len(canon) <= Len(w)
    <3>1. 0 + Len(canon) <= Len(w) /\ Len(canon) \in Nat
      BY <1>3 DEF Segment
    <3> QED
      BY <3>1
  <2>2. CASE o + Len(file) <= Len(canon)
    <3>1. Len(m) = 0 /\ Len(w) <= Len(canon)
      BY <1>1, <1>6, <2>2
    <3>2. Len(w) \in Nat /\ Len(canon) \in Nat
      BY <1>3
    <3> QED
      BY <1>8, <2>1, <3>1, <3>2
  <2>3. CASE ~(o + Len(file) <= Len(canon))
    BY <1>1, <1>6, <1>8, <2>3
  <2> QED
    BY <2>2, <2>3
<1>10. \A k \in 1 .. Len(c) : c[k] = w[k]
  BY <1>3, <1>8, SegmentItem, SMTT(20)
<1>11. c = w
  BY <1>3, <1>8, <1>9, <1>10, SeqEqual
<1> QED
  BY <1>5, <1>7, <1>11

(***************************************************************************)
(* If no write of the plane fails and no crash tears a file that is being  *)
(* rewritten, what the node writes is a log that only grows at its end,    *)
(* and what the plane has is a prefix of it that only grows.  (Either of   *)
(* the two loses records that were written: of a torn file those of its    *)
(* end, and with a rejected batch the node drops its whole spool.)         *)
(***************************************************************************)
THEOREM LogImplementsCanonicalLog ==
  ASSUME Tears = FALSE, MaxFaults = 0
  PROVE  Spec => ImplementsCanonicalLog
<1>1. Init => Log!Init
  <2> SUFFICES ASSUME Init PROVE Log!Init
    OBVIOUS
  <2>1. Healthy(<< >>, 0) /\ << >> \in Seq(1 .. issued) /\ 0 \in Nat /\ TypeOK
    BY HealthyInit, ChainInit DEF ChainInv
  <2>2. canon \o Fresh(file) = << >>
    BY <2>1, LogIsWhole DEF WholeLog, Fresh
  <2>3. Len(canon) = 0
    BY DEF Init
  <2> QED
    BY <2>2, <2>3 DEF Log!Init
<1>2. LinkInv /\ LinkInv' /\ [Next]_vars => [Log!Next]_<<canon \o Missing(file, canon), Len(canon)>>
  <2> SUFFICES ASSUME LinkInv, LinkInv', [Next]_vars
               PROVE  [Log!Next]_<<canon \o Missing(file, canon), Len(canon)>>
    OBVIOUS
  <2>1. ChainInv /\ ChainInv' /\ faults = 0 /\ faults' = 0
    <3>1. ChainInv /\ ChainInv' /\ faults \in 0 .. MaxFaults /\ faults' \in 0 .. MaxFaults
      BY DEF LinkInv, ChainInv, TypeOK
    <3> QED
      BY <3>1
  <2>2. PICK w \in Seq(1 .. issued), o \in Nat : Healthy(w, o)
    BY <2>1 DEF LinkInv
  <2>3. PICK v \in Seq(1 .. issued'), p \in Nat :
          /\ Healthy(v, p)'
          /\ \/ v = w /\ (canon' = canon \/ Len(canon) < Len(canon'))
             \/ v = Append(w, issued + 1) /\ canon' = canon /\ issued + 1 \in Records
             \/ TearRewrite
    BY <2>1, <2>2, HealthyNext
  <2>4. Sound(w, o)
    BY <2>1, <2>2 DEF Sound, ChainInv
  <2>5. canon \o Missing(file, canon) = w
    BY <2>2, <2>4, LogIsWhole DEF Sound, WholeLog
  <2>6. (canon \o Missing(file, canon))' = v
    <3>1. TypeOK' => WholeLog'
      BY LogIsWhole, PTL
    <3>2. WholeLog'
      BY <2>1, <3>1 DEF ChainInv
    <3> QED
      BY <2>3, <3>2 DEF WholeLog
  <2>7. CASE v = w /\ canon' = canon
    BY <2>5, <2>6, <2>7
  <2>8. CASE v = w /\ Len(canon) < Len(canon')
    <3>1. Len(canon') \in Len(canon) + 1 .. Len(w)
      <4>1. PICK c : c = canon'
        OBVIOUS
      <4>2. Segment(c, v, 0) /\ c \in Seq(1 .. issued')
        BY <2>1, <2>3, <4>1 DEF Healthy, Parts, ChainInv, TypeOK
      <4>3. 0 + Len(c) <= Len(v) /\ Len(c) \in Nat /\ Len(v) \in Nat /\ Len(canon) \in Nat
        <5>1. canon \in Seq(1 .. issued)
          BY <2>1 DEF ChainInv, TypeOK
        <5> QED
          BY <4>2, <5>1 DEF Segment
      <4> QED
        BY <2>8, <4>1, <4>3
    <3>2. Log!Store
      BY <2>5, <2>6, <2>8, <3>1 DEF Log!Store, Fresh
    <3> QED
      BY <3>2 DEF Log!Next
  <2>9. CASE v = Append(w, issued + 1) /\ canon' = canon /\ issued + 1 \in Records
    <3>1. \A k \in DOMAIN w : w[k] # issued + 1
      <4>1. issued \in Nat
        BY <2>4, SoundFacts
      <4>2. \A x \in 1 .. issued : x # issued + 1
        BY <4>1
      <4> QED
        <5>1. \A S : w \in Seq(S) => \A k \in DOMAIN w : w[k] \in S
          OBVIOUS
        <5> QED
          BY <2>2, <4>2, <5>1
    <3>2. PICK n \in Records : (\A k \in DOMAIN w : w[k] # n) /\ v = Append(w, n)
      <4>1. PICK n \in Records : n = issued + 1
        BY <2>9
      <4>2. (\A k \in DOMAIN w : w[k] # n) /\ v = Append(w, n)
        BY <2>9, <3>1, <4>1
      <4> QED
        BY <4>2
    <3>3. Len(canon)' = Len(canon)
      BY <2>9
    <3>4. Log!Write
      BY <2>5, <2>6, <3>2, <3>3 DEF Log!Write, Fresh
    <3> QED
      BY <3>4 DEF Log!Next
  <2>10. ~TearRewrite
    BY DEF TearRewrite
  <2> QED
    BY <2>3, <2>7, <2>8, <2>9, <2>10
<1> QED
  BY <1>1, <1>2, LinkInvariant, PTL DEF Spec, Fresh, ImplementsCanonicalLog, Log!Spec
=============================================================================
