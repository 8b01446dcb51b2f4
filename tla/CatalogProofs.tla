--------------------------- MODULE CatalogProofs ---------------------------
(***************************************************************************)
(* Of Catalog, for any number of nodes, roots, sessions and operations:    *)
(* the types, that the bindings agree, that recovery finds every           *)
(* interrupted turn, that assignments are kept and that no log strays.     *)
(***************************************************************************)
EXTENDS Catalog, SequenceFacts, FiniteSetTheorems

-----------------------------------------------------------------------------
(* The inductive invariant. *)

\* A place has one workspace, and an id too; the next id is new.
Unique(ws) ==
  /\ \A v, w \in ws : v.node = w.node /\ v.root = w.root => v = w
  /\ \A v, w \in ws : v.id = w.id => v = w
Numbered(ws, last) == \A w \in ws : w.id <= last

\* Row names workspace w, and its node; the session's root may be another than the workspace's.
Names(row, w) == w.id = row.workspace /\ w.project = row.project /\ w.node = row.node
Bound(row, ws) == \E w \in ws : Names(row, w)

\* The root of the session that comes with the archive of another deployment.
GuestRoot == SetToSeq(Roots)[1]

\* The header of a session: in the plane's log, or still in the spool of its node.
HeaderOf(log, spool) == IF log # None THEN log ELSE spool

(***************************************************************************)
(* The row of a session agrees with its header, and is bound unless the    *)
(* log could not be scanned; a session being created has no row.           *)
(***************************************************************************)
RowAgrees(row, log, spool, touched, ws) ==
  row # None =>
    /\ HeaderOf(log, spool) # None /\ HeaderOf(log, spool).root = row.root
    /\ row.status \in Statuses \/ log # None
    /\ Bound(row, ws) \/ (/\ row.workspace = None /\ row.status = "unreadable"
                          /\ log # None /\ log.health = "bad" /\ ~touched)
CallAgrees(s, row, log, spool, call, ws) ==
  call # None =>
    /\ row = None /\ s # Guest
    /\ HeaderOf(log, spool) # None /\ HeaderOf(log, spool).root = call.root
    /\ call.workspace # None => call.workspace \in ws

\* Where a session's records are, and what its row may not yet know of them.
LogAgrees(s, row, log, spool, touched, out) ==
  /\ spool # None => s # Guest /\ log = None /\ spool.status = "idle"
  /\ touched => log # None
  /\ s = Guest /\ log # None => log.root = GuestRoot
  /\ row = None /\ log # None => log.status = "idle"
  /\ row # None /\ row.status \in Statuses /\ log # None /\ log.status = "busy"
       => row.status = "busy" \/ touched \/ out

Fits(s, row, log, spool, call, touched, out, ws) ==
  /\ RowAgrees(row, log, spool, touched, ws)
  /\ CallAgrees(s, row, log, spool, call, ws)
  /\ LogAgrees(s, row, log, spool, touched, out)

Sane(s) ==
  Fits(s, rows[s], logs[s], spooled[s], calls[s], s \in untouched, s \in outdated, workspaces)

(***************************************************************************)
(* What an archive lists is bound in the archive, or is here; and it is of *)
(* the root in the session's header.                                       *)
(***************************************************************************)
SoundItem(i, m, row, log, spool) ==
  /\ IF HeaderOf(log, spool) = None THEN i.id = Guest /\ i.root = GuestRoot
     ELSE HeaderOf(log, spool).root = i.root
  /\ i.log # None => i.log.root = i.root /\ (i.id = Guest \/ log # None)
  /\ \/ row # None /\ log # None
     \/ i.status \in Statuses /\ \E w \in m.workspaces : w.id = i.workspace

Sound(m) ==
  /\ \A v, w \in m.workspaces : v.id = w.id => v = w
  /\ \A w \in m.workspaces : w.project = m.project /\ w.id <= ids
  /\ \A i \in m.items : SoundItem(i, m, rows[i.id], logs[i.id], spooled[i.id])

Manifests == archives \cup ({exporting} \ {None})

CatalogInv ==
  /\ TypeOK
  /\ Unique(workspaces) /\ Numbered(workspaces, ids)
  /\ \A s \in Sessions : Sane(s)
  /\ \A m \in Manifests : Sound(m)

-----------------------------------------------------------------------------
(* Sets as sequences, and least ids. *)

LEMMA SetToSeqFacts ==
  ASSUME NEW S, IsFiniteSet(S)
  PROVE  /\ Cardinality(S) \in Nat
         /\ SetToSeq(S) \in [1 .. Cardinality(S) -> S]
         /\ \A i, j \in 1 .. Cardinality(S) : SetToSeq(S)[i] = SetToSeq(S)[j] => i = j
         /\ \A x \in S : \E i \in 1 .. Cardinality(S) : SetToSeq(S)[i] = x
<1>1. Cardinality(S) \in Nat /\ ExistsBijection(1 .. Cardinality(S), S)
  BY FS_CardinalityType
<1>2. PICK n \in Nat : n = Cardinality(S)
  BY <1>1
<1>3. \E f \in [1 .. n -> S] : IsInjective(f)
  BY <1>1, <1>2 DEF ExistsBijection, Bijection, Injection
<1>4. PICK f : f = SetToSeq(S)
  OBVIOUS
<1>5. f \in [1 .. n -> S] /\ IsInjective(f)
  BY <1>2, <1>3, <1>4 DEF SetToSeq
<1>6. f \in Injection(1 .. n, S)
  BY <1>5 DEF Injection
<1>7. IsFiniteSet(1 .. n) /\ Cardinality(1 .. n) = n
  BY FS_Interval
<1>8. f \in Surjection(1 .. n, S)
  BY <1>2, <1>6, <1>7, FS_Injection
<1> QED
  BY <1>1, <1>2, <1>4, <1>5, <1>8 DEF IsInjective, Surjection

\* A set of workspaces at a place has a first one, and only one.
LEMMA FirstIsThere ==
  ASSUME NEW ws, ws \subseteq Workspace, NEW w \in ws
  PROVE  /\ FirstAt(ws, w) \in AtRoot(ws, w.node, w.root)
<1>1. PICK T : T = {v.id : v \in AtRoot(ws, w.node, w.root)}
  OBVIOUS
<1>2. T \subseteq Nat /\ T # {}
  BY <1>1 DEF AtRoot, Workspace, Ids
<1>3. PICK x \in T : \A y \in T : x <= y
  BY <1>2, LeastNatural
<1>4. \E v \in AtRoot(ws, w.node, w.root) : \A u \in AtRoot(ws, w.node, w.root) : v.id <= u.id
  BY <1>1, <1>3
<1> QED
  BY <1>4 DEF FirstAt

-----------------------------------------------------------------------------
(* What a start makes of the tables and the logs. *)

\* The roots that get a workspace.
Uncovered(t, ls) ==
  {x \in Scanned(ls) : BoundWorkspace(t, x, ls[x]) = {}}

(***************************************************************************)
(* The workspaces adopted have new ids, as many as there are of them, and  *)
(* are where no workspace was; each readable log without one gets one.     *)
(***************************************************************************)
LEMMA AdoptedFacts ==
  ASSUME NEW t, t.workspaces \subseteq Workspace, NEW ls \in [Sessions -> LogType \cup {None}],
         ids \in Nat
  PROVE  \E n \in Nat :
           /\ IsFiniteSet(Adopted(t, ls)) /\ Cardinality(Adopted(t, ls)) = n
           /\ \A w \in Adopted(t, ls) :
                /\ w.id \in (ids + 1) .. (ids + n) /\ w.project = w.id
                /\ w.node \in Nodes /\ w.root \in Roots
                /\ w = [id |-> w.id, project |-> w.project, node |-> w.node, root |-> w.root]
                /\ AtRoot(t.workspaces, w.node, w.root) = {}
           /\ Unique(Adopted(t, ls))
           /\ \A x \in Uncovered(t, ls) : AtRoot(Adopted(t, ls), ls[x].node, ls[x].root) # {}
<1> DEFINE X == Uncovered(t, ls)
           places == {<<ls[s].node, ls[s].root>> : s \in X}
<1>1. IsFiniteSet(X)
  <2>1. X \in SUBSET Sessions /\ IsFiniteSet(Sessions)
    BY CatalogAssumption DEF Uncovered, Scanned
  <2> QED
    BY <2>1, FS_Subset
<1>2. IsFiniteSet(places)
  <2> DEFINE f == [s \in X |-> <<ls[s].node, ls[s].root>>]
  <2>1. f \in Surjection(X, places)
    BY DEF Surjection
  <2> HIDE DEF f, X, places
  <2> QED
    BY <1>1, <2>1, FS_Surjection
<1>3. \A p \in places : /\ p \in Nodes \X Roots
                        /\ AtRoot(t.workspaces, p[1], p[2]) = {}
  <2> SUFFICES ASSUME NEW s \in X
               PROVE  /\ <<ls[s].node, ls[s].root>> \in Nodes \X Roots
                      /\ AtRoot(t.workspaces, ls[s].node, ls[s].root) = {}
    OBVIOUS
  <2>1. s \in Sessions /\ ls[s] # None /\ BoundWorkspace(t, s, ls[s]) = {}
    BY DEF Uncovered, Scanned
  <2>2. ls[s] \in LogType
    BY <2>1
  <2>3. AtRoot(t.workspaces, ls[s].node, ls[s].root) = {}
    BY <2>1 DEF BoundWorkspace
  <2> QED
    BY <2>2, <2>3 DEF LogType
<1>4. PICK order : order = SetToSeq(places)
  OBVIOUS
<1>5. PICK n \in Nat : n = Cardinality(places)
  BY <1>2, FS_CardinalityType
<1>6. /\ order \in [1 .. n -> places]
      /\ \A i, j \in 1 .. n : order[i] = order[j] => i = j
      /\ \A x \in places : \E i \in 1 .. n : order[i] = x
  <2> HIDE DEF places
  <2> QED
    BY <1>2, <1>4, <1>5, SetToSeqFacts
<1>7. Len(order) = n
  BY <1>6
<1> DEFINE made(i) == [id |-> ids + i, project |-> ids + i, node |-> order[i][1],
                       root |-> order[i][2]]
<1>8. Adopted(t, ls) = {made(i) : i \in 1 .. n}
  BY <1>4, <1>7 DEF Adopted, Uncovered
<1>9. \A i \in 1 .. n : /\ order[i] \in Nodes \X Roots
                        /\ AtRoot(t.workspaces, order[i][1], order[i][2]) = {}
  <2> HIDE DEF places
  <2> QED
    BY <1>3, <1>6
<1>10. \A i, j \in 1 .. n : order[i][1] = order[j][1] /\ order[i][2] = order[j][2] => i = j
  <2>1. \A p, q \in Nodes \X Roots : p[1] = q[1] /\ p[2] = q[2] => p = q
    OBVIOUS
  <2> QED
    BY <1>6, <1>9, <2>1
<1>11. \A i, j \in 1 .. n : ids + i = ids + j => i = j
  OBVIOUS
<1>12. \A i \in 1 .. n : ids + i \in (ids + 1) .. (ids + n)
  OBVIOUS
<1>13. IsFiniteSet(Adopted(t, ls)) /\ Cardinality(Adopted(t, ls)) = n
  <2> DEFINE f == [i \in 1 .. n |-> made(i)]
             new == Adopted(t, ls)
  <2>1. f \in [1 .. n -> new] /\ \A w \in new : \E i \in 1 .. n : f[i] = w
    BY <1>8
  <2>2. \A i, j \in 1 .. n : f[i] = f[j] => i = j
    <3>1. \A i \in 1 .. n : f[i].id = ids + i
      OBVIOUS
    <3> QED
      BY <1>11, <3>1
  <2>3. f \in Bijection(1 .. n, new)
    <3> HIDE DEF f, new
    <3> QED
      BY <2>1, <2>2 DEF Bijection, Injection, Surjection, IsInjective
  <2>4. IsFiniteSet(1 .. n) /\ Cardinality(1 .. n) = n
    BY FS_Interval
  <2> HIDE DEF f, new
  <2>5. ExistsBijection(1 .. n, new)
    BY <2>3 DEF ExistsBijection
  <2>6. IsFiniteSet(new) /\ Cardinality(new) = n
    BY <2>4, <2>5, FS_Bijection
  <2> QED
    BY <2>6 DEF new
<1>14. \A w \in Adopted(t, ls) :
         /\ w.id \in (ids + 1) .. (ids + n) /\ w.project = w.id
         /\ w.node \in Nodes /\ w.root \in Roots
         /\ w = [id |-> w.id, project |-> w.project, node |-> w.node, root |-> w.root]
         /\ AtRoot(t.workspaces, w.node, w.root) = {}
  BY <1>8, <1>9, <1>12
<1>15. Unique(Adopted(t, ls))
  <2>1. ASSUME NEW i \in 1 .. n, NEW j \in 1 .. n,
               \/ made(i).node = made(j).node /\ made(i).root = made(j).root
               \/ made(i).id = made(j).id
        PROVE  made(i) = made(j)
    BY <1>10, <1>11, <2>1
  <2> QED
    BY <1>8, <2>1 DEF Unique
<1>16. \A x \in X : AtRoot(Adopted(t, ls), ls[x].node, ls[x].root) # {}
  <2> TAKE x \in X
  <2>1. PICK i \in 1 .. n : order[i] = <<ls[x].node, ls[x].root>>
    BY <1>6
  <2>2. made(i) \in Adopted(t, ls) /\ made(i).node = ls[x].node /\ made(i).root = ls[x].root
    BY <1>8, <2>1
  <2> QED
    BY <2>2 DEF AtRoot
<1> QED
  BY <1>13, <1>14, <1>15, <1>16

LEMMA NoneFacts ==
  /\ \A x \in Ids \cup RowType \cup LogType \cup Workspace \cup CallType \cup Manifest : x # None
  /\ "unreadable" \notin Statuses /\ "idle" \in Statuses /\ "busy" \in Statuses
<1>1. \A x \in Ids \cup RowType \cup LogType \cup Workspace \cup CallType \cup Manifest : x # None
  BY NoneAssumption, Zenon
<1> QED
  BY <1>1 DEF Statuses

LEMMA UniqueUnion ==
  ASSUME NEW ws, NEW new, NEW last \in Nat, NEW n \in Nat,
         \A w \in ws : w.id \in Nat, Unique(ws), Numbered(ws, last), Unique(new),
         \A w \in new : w.id \in (last + 1) .. (last + n) /\ AtRoot(ws, w.node, w.root) = {}
  PROVE  Unique(ws \cup new) /\ Numbered(ws \cup new, last + n)
<1>1. ASSUME NEW v \in ws, NEW w \in new
      PROVE  ~(v.node = w.node /\ v.root = w.root) /\ v.id # w.id
  BY <1>1 DEF AtRoot, Numbered
<1>2. Unique(ws \cup new)
  BY <1>1 DEF Unique
<1>3. Numbered(ws \cup new, last + n)
  BY DEF Numbered
<1> QED
  BY <1>2, <1>3

\* The tables with which a start begins.
TablesType ==
  [enrolled : SUBSET Nodes, projects : SUBSET Ids, workspaces : SUBSET Workspace,
   rows : [Sessions -> RowType \cup {None}]]
Opened(t, ls) ==
  /\ t \in TablesType /\ ls \in [Sessions -> LogType \cup {None}]
  /\ Unique(t.workspaces) /\ Numbered(t.workspaces, ids)
  /\ \A w \in t.workspaces : w.project \in t.projects
  /\ \A s \in Sessions : t.rows[s] # None =>
       /\ ls[s] # None => t.rows[s].root = ls[s].root
       /\ Bound(t.rows[s], t.workspaces) \/ t.rows[s].workspace = None

MadeBy(t, ls) == Widened(t, ls).workspaces \ t.workspaces

LEMMA WidenedTables ==
  ASSUME NEW t, NEW ls, Opened(t, ls), ids \in Nat
  PROVE  LET all == Widened(t, ls) IN
         /\ all.enrolled = t.enrolled /\ all.rows = t.rows /\ "rows" \in DOMAIN all
         /\ all.workspaces = t.workspaces \cup Adopted(t, ls)
         /\ all.projects = t.projects \cup {w.project : w \in Adopted(t, ls)}
         /\ MadeBy(t, ls) = Adopted(t, ls)
         /\ Cardinality(MadeBy(t, ls)) \in Nat
         /\ Unique(all.workspaces) /\ Numbered(all.workspaces, ids + Cardinality(MadeBy(t, ls)))
<1> DEFINE all == Widened(t, ls)
           new == Adopted(t, ls)
<1>1. /\ t \in TablesType /\ t.workspaces \subseteq Workspace
      /\ ls \in [Sessions -> LogType \cup {None}]
      /\ Unique(t.workspaces) /\ Numbered(t.workspaces, ids)
  BY DEF Opened, TablesType
<1>2. PICK n \in Nat :
        /\ IsFiniteSet(new) /\ Cardinality(new) = n /\ Unique(new)
        /\ \A w \in new : w.id \in (ids + 1) .. (ids + n) /\ AtRoot(t.workspaces, w.node, w.root) = {}
  BY <1>1, AdoptedFacts
<1>3. /\ all.enrolled = t.enrolled /\ all.rows = t.rows /\ "rows" \in DOMAIN all
      /\ all.workspaces = t.workspaces \cup new
      /\ all.projects = t.projects \cup {w.project : w \in new}
  BY <1>1 DEF Widened, TablesType
<1>4. \A w \in new : w \notin t.workspaces
  BY <1>2 DEF AtRoot
<1>5. MadeBy(t, ls) = new
  BY <1>3, <1>4 DEF MadeBy
<1>6. \A w \in t.workspaces : w.id \in Nat
  BY <1>1 DEF Workspace, Ids
<1>7. Unique(t.workspaces \cup new) /\ Numbered(t.workspaces \cup new, ids + n)
  BY <1>1, <1>2, <1>6, UniqueUnion
<1> QED
  BY <1>2, <1>3, <1>5, <1>7

\* The workspaces adopted are of their type, and none of the logs scanned is left without one.
LEMMA WidenedTypes ==
  ASSUME NEW t, NEW ls, Opened(t, ls), ids \in Nat, ids + Cardinality(MadeBy(t, ls)) <= MaxIds
  PROVE  /\ Widened(t, ls).workspaces \subseteq Workspace
         /\ \A x \in Uncovered(t, ls) : AtRoot(Adopted(t, ls), ls[x].node, ls[x].root) # {}
<1> DEFINE new == Adopted(t, ls)
<1>1. t.workspaces \subseteq Workspace /\ ls \in [Sessions -> LogType \cup {None}]
  BY DEF Opened, TablesType
<1>2. PICK n \in Nat :
        /\ IsFiniteSet(new) /\ Cardinality(new) = n
        /\ \A w \in new :
             /\ w.id \in (ids + 1) .. (ids + n) /\ w.project = w.id
             /\ w.node \in Nodes /\ w.root \in Roots
             /\ w = [id |-> w.id, project |-> w.project, node |-> w.node, root |-> w.root]
        /\ \A x \in Uncovered(t, ls) : AtRoot(new, ls[x].node, ls[x].root) # {}
  BY <1>1, AdoptedFacts
<1>3. ids + n <= MaxIds /\ MaxIds \in Nat
  BY <1>2, WidenedTables, CatalogAssumption
<1>4. \A i \in (ids + 1) .. (ids + n) : i \in 1 .. MaxIds
  BY <1>3
<1>5. \A w \in new : w.id \in Ids /\ w.project \in Ids
  BY <1>2, <1>4 DEF Ids
<1>6. new \subseteq Workspace
  BY <1>2, <1>5 DEF Workspace
<1> QED
  BY <1>1, <1>2, <1>6, WidenedTables

\* A row made for workspace w and the root of a log.
LEMMA RowForFacts ==
  ASSUME NEW w \in Workspace, NEW root \in Roots, NEW status \in Statuses \cup {"unreadable"}
  PROVE  /\ RowFor(w, root, status) \in RowType /\ RowFor(w, root, status) # None
         /\ RowFor(w, root, status).status = status /\ RowFor(w, root, status).root = root
         /\ RowFor(w, root, status).workspace = w.id /\ RowFor(w, root, status).node = w.node
         /\ Names(RowFor(w, root, status), w)
<1>1. RowFor(w, root, status) \in RowType
  BY DEF RowFor, RowType, Workspace
<1>2. RowFor(w, root, status) # None
  BY <1>1, NoneFacts
<1> QED
  BY <1>1, <1>2 DEF RowFor, Names

(***************************************************************************)
(* What a start makes of the row of s: none without a log; the state of    *)
(* its log and a binding if that can be scanned; unreadable otherwise.  An *)
(* assignment that was there is kept, but for that of a displaced session, *)
(* which stays on its node.                                                *)
(***************************************************************************)
RowMade(t, ls, s, row, ws) ==
  /\ row \in RowType \cup {None}
  /\ ls[s] = None => row = None
  /\ ls[s] # None =>
       /\ row # None /\ row.root = ls[s].root
       /\ ls[s].health # "bad" => row.status = ls[s].status /\ Bound(row, ws)
       /\ ls[s].health = "bad" =>
            row.status = "unreadable" /\ (Bound(row, ws) \/ row.workspace = None)
       /\ t.rows[s] # None /\ t.rows[s].workspace # None =>
            /\ row.node = t.rows[s].node
            /\ row.workspace = t.rows[s].workspace \/ Displaced(t, ls, s)

LEMMA TheIsThere == \A set : set # {} => The(set) \in set
  BY DEF The

(***************************************************************************)
(* A scanned session is bound to the workspace that its row names, if that *)
(* is there; else to the one at the root of its header.                    *)
(***************************************************************************)
LEMMA ScannedBound ==
  ASSUME NEW t, NEW ls, Opened(t, ls), ids \in Nat, ids + Cardinality(MadeBy(t, ls)) <= MaxIds,
         NEW x \in Scanned(ls)
  PROVE  LET all == Widened(t, ls)
             w == The(BoundWorkspace(all, x, ls[x]))
         IN /\ w \in all.workspaces /\ w \in Workspace
            /\ \/ w \in t.workspaces /\ t.rows[x] # None /\ Names(t.rows[x], w)
               \/ /\ t.rows[x] = None \/ t.rows[x].workspace = None
                  /\ w \in AtRoot(all.workspaces, ls[x].node, ls[x].root)
<1> DEFINE all == Widened(t, ls)
           ws == all.workspaces
           old == t.rows[x]
           places == BoundWorkspace(all, x, ls[x])
<1>1. /\ all.rows = t.rows /\ ws = t.workspaces \cup Adopted(t, ls) /\ Unique(ws)
      /\ ws \subseteq Workspace /\ \A w \in ws : w.id # None
  <2>1. ws \subseteq Workspace
    BY WidenedTypes
  <2>2. \A w \in ws : w.id # None
    BY <2>1, NoneFacts DEF Workspace
  <2> QED
    BY <2>1, <2>2, WidenedTables
<1>2. x \in Sessions /\ (old # None => Bound(old, t.workspaces) \/ old.workspace = None)
  BY DEF Scanned, Opened
<1>3. CASE old # None /\ Bound(old, t.workspaces)
  <2>1. PICK w \in t.workspaces : Names(old, w)
    BY <1>3 DEF Bound
  <2>2. \A v \in ws : v.id = old.workspace => v = w
    BY <1>1, <2>1 DEF Names, Unique
  <2>3. places = {w}
    BY <1>1, <1>3, <2>1, <2>2 DEF BoundWorkspace, Names
  <2>4. The(places) = w
    BY <2>3, TheIsThere
  <2> QED
    BY <1>1, <1>3, <2>1, <2>4
<1>4. CASE old = None \/ old.workspace = None
  <2>1. places = AtRoot(ws, ls[x].node, ls[x].root)
    BY <1>1, <1>4 DEF BoundWorkspace
  <2>2. BoundWorkspace(t, x, ls[x]) = AtRoot(t.workspaces, ls[x].node, ls[x].root)
    BY <1>1, <1>4 DEF BoundWorkspace
  <2>3. places # {}
    <3>1. CASE x \in Uncovered(t, ls)
      <4>1. AtRoot(Adopted(t, ls), ls[x].node, ls[x].root) # {}
        BY <3>1, WidenedTypes
      <4> QED
        BY <1>1, <2>1, <4>1 DEF AtRoot
    <3>2. CASE x \notin Uncovered(t, ls)
      BY <1>1, <2>1, <2>2, <3>2 DEF AtRoot, Uncovered
    <3> QED
      BY <3>1, <3>2
  <2>4. The(places) \in places
    BY <2>3, TheIsThere
  <2>5. The(places) \in ws
    BY <2>1, <2>4 DEF AtRoot
  <2> QED
    BY <1>1, <1>4, <2>1, <2>4, <2>5
<1> QED
  BY <1>2, <1>3, <1>4

(***************************************************************************)
(* What a project key names on a node is the workspace at that root there, *)
(* or that of a scanned session which displaces the others of its root.    *)
(***************************************************************************)
LEMMA KeyedBinding ==
  ASSUME NEW t, NEW ls, Opened(t, ls), ids \in Nat, ids + Cardinality(MadeBy(t, ls)) <= MaxIds,
         NEW n, NEW root, NEW w \in Keyed(Widened(t, ls), ls, <<n, root>>)
  PROVE  /\ w \in Widened(t, ls).workspaces /\ w.node = n
         /\ \/ w.root = root
            \/ \E x \in Scanned(ls) :
                 /\ ls[x].root = root /\ t.rows[x] # None /\ t.rows[x].node = n
                 /\ w \in t.workspaces /\ w.id = t.rows[x].workspace /\ w.root # ls[x].root
<1> DEFINE all == Widened(t, ls)
           key == <<n, root>>
           of(x) == The(BoundWorkspace(all, x, ls[x]))
           there == {x \in Scanned(ls) : <<of(x).node, ls[x].root>> = key}
<1>1. key[1] = n /\ key[2] = root
  OBVIOUS
<1>2. CASE there = {}
  <2>1. w \in AtRoot(all.workspaces, n, root)
    BY <1>1, <1>2 DEF Keyed
  <2> QED
    BY <2>1 DEF AtRoot
<1>3. CASE there # {}
  <2>1. PICK x \in there : w = of(x)
    BY <1>3 DEF Keyed
  <2>2. x \in Scanned(ls) /\ of(x).node = n /\ ls[x].root = root
    <3>1. x \in Scanned(ls) /\ <<of(x).node, ls[x].root>> = <<n, root>>
      BY <2>1
    <3> QED
      BY <3>1
  <2>3. /\ w \in all.workspaces
        /\ \/ w \in t.workspaces /\ t.rows[x] # None /\ Names(t.rows[x], w)
           \/ w \in AtRoot(all.workspaces, ls[x].node, ls[x].root)
    BY <2>1, <2>2, ScannedBound
  <2> QED
    BY <2>1, <2>2, <2>3 DEF AtRoot, Names
<1> QED
  BY <1>2, <1>3

\* The row that reconcile writes for s, by the health of its log.
RowWritten(t, ls, byKey, s, row) ==
  LET log == ls[s]
      old == t.rows[s]
      bound == IF old = None THEN None ELSE byKey[<<old.node, log.root>>]
  IN /\ log = None => row = None
     /\ s \in Scanned(ls) =>
          row = RowFor(The(BoundWorkspace(Widened(t, ls), s, log)), log.root, log.status)
     /\ log # None /\ s \notin Scanned(ls) =>
          row = IF bound # None THEN RowFor(bound, log.root, "unreadable")
                ELSE IF old # None THEN [old EXCEPT !.status = "unreadable"]
                ELSE [project |-> None, workspace |-> None, node |-> None,
                      root |-> log.root, status |-> "unreadable"]

LEMMA ReconciledTables ==
  ASSUME NEW t, NEW ls, Opened(t, ls), ids \in Nat, NEW byKey
  PROVE  LET all == Widened(t, ls)
             r == Reconciled(t, ls, byKey)
         IN /\ r.enrolled = all.enrolled /\ r.projects = all.projects
            /\ r.workspaces = all.workspaces
            /\ r.rows = [s \in Sessions |-> r.rows[s]]
            /\ \A s \in Sessions : RowWritten(t, ls, byKey, s, r.rows[s])
<1> DEFINE all == Widened(t, ls)
           bound(x) == IF t.rows[x] = None THEN None ELSE byKey[<<t.rows[x].node, ls[x].root>>]
           lost(x) ==
             IF bound(x) # None THEN RowFor(bound(x), ls[x].root, "unreadable")
             ELSE IF t.rows[x] # None THEN [t.rows[x] EXCEPT !.status = "unreadable"]
             ELSE [project |-> None, workspace |-> None, node |-> None, root |-> ls[x].root,
                   status |-> "unreadable"]
           found(x) == RowFor(The(BoundWorkspace(all, x, ls[x])), ls[x].root, ls[x].status)
           Row(x) == CASE ls[x] = None -> None
                       [] x \in Scanned(ls) -> found(x)
                       [] OTHER -> lost(x)
           r == Reconciled(t, ls, byKey)
           made == [x \in Sessions |-> Row(x)]
<1>1. "rows" \in DOMAIN all
  BY WidenedTables
<1>2. r = [all EXCEPT !.rows = made]
  BY DEF Reconciled, ScannedStatus
<1>3. \A F : [all EXCEPT !.rows = F].rows = F
  <2> HIDE DEF all
  <2> QED
    BY <1>1
<1>4. r.rows = made
  BY <1>2, <1>3, Zenon
<1>5. ASSUME NEW s \in Sessions PROVE RowWritten(t, ls, byKey, s, r.rows[s])
  <2>1. r.rows[s] = Row(s)
    BY <1>4, Zenon
  <2>2. s \in Scanned(ls) => ls[s] # None
    BY DEF Scanned
  <2>3. /\ ls[s] = None => r.rows[s] = None
        /\ s \in Scanned(ls) => r.rows[s] = found(s)
        /\ ls[s] # None /\ s \notin Scanned(ls) => r.rows[s] = lost(s)
    <3> HIDE DEF found, lost, r
    <3> QED
      BY <2>1, <2>2
  <2> QED
    BY <2>3, Zenon DEF RowWritten
<1>6. /\ r.enrolled = all.enrolled /\ r.projects = all.projects /\ r.workspaces = all.workspaces
      /\ r.rows = [s \in Sessions |-> r.rows[s]]
  <2>1. made = [s \in Sessions |-> made[s]]
    OBVIOUS
  <2>2. DOMAIN all = {"enrolled", "projects", "workspaces", "rows"}
    BY DEF Widened, Opened, TablesType
  <2>3. \A F : LET q == [all EXCEPT !.rows = F]
               IN /\ q.enrolled = all.enrolled /\ q.projects = all.projects
                  /\ q.workspaces = all.workspaces
    <3> HIDE DEF all
    <3> QED
      BY <2>2
  <2> HIDE DEF made, all
  <2> QED
    BY <1>2, <1>4, <2>1, <2>3
<1> QED
  BY <1>5, <1>6

LEMMA ReconciledRow ==
  ASSUME NEW t, NEW ls, Opened(t, ls), ids \in Nat, NEW s \in Sessions,
         ids + Cardinality(MadeBy(t, ls)) <= MaxIds,
         NEW byKey \in KeyBindings(Widened(t, ls), ls)
  PROVE  RowMade(t, ls, s, Reconciled(t, ls, byKey).rows[s], Widened(t, ls).workspaces)
<1> DEFINE all == Widened(t, ls)
           ws == all.workspaces
           log == ls[s]
           old == t.rows[s]
           row == Reconciled(t, ls, byKey).rows[s]
<1>1. /\ old \in RowType \cup {None} /\ log \in LogType \cup {None}
      /\ old # None /\ log # None => old.root = log.root
      /\ old # None => Bound(old, t.workspaces) \/ old.workspace = None
  BY DEF Opened, TablesType
<1>2. RowWritten(t, ls, byKey, s, row)
  BY ReconciledTables, Zenon
<1>3. all.rows = t.rows /\ t.workspaces \subseteq ws /\ Unique(ws) /\ ws \subseteq Workspace
  BY WidenedTables, WidenedTypes
<1>4. s \in Scanned(ls) <=> log # None /\ log.health # "bad"
  BY DEF Scanned
<1>5. ASSUME log = None PROVE RowMade(t, ls, s, row, ws)
  BY <1>2, <1>5 DEF RowMade, RowWritten
<1>6. ASSUME s \in Scanned(ls) PROVE RowMade(t, ls, s, row, ws)
  <2>1. log \in LogType /\ log.root \in Roots /\ log.status \in Statuses
    BY <1>1, <1>4, <1>6 DEF LogType
  <2>2. PICK w : w = The(BoundWorkspace(all, s, log))
    OBVIOUS
  <2>3. /\ w \in ws /\ w \in Workspace
        /\ \/ old # None /\ Names(old, w)
           \/ old = None \/ old.workspace = None
    BY <1>6, <2>2, ScannedBound
  <2>4. row = RowFor(w, log.root, log.status)
    BY <1>2, <1>6, <2>2 DEF RowWritten
  <2>5. /\ row \in RowType /\ row # None /\ row.status = log.status /\ row.root = log.root
        /\ row.workspace = w.id /\ row.node = w.node /\ Names(row, w)
    BY <2>1, <2>3, <2>4, RowForFacts
  <2>6. Bound(row, ws)
    BY <2>3, <2>5 DEF Bound
  <2>7. old # None /\ old.workspace # None => row.workspace = old.workspace /\ row.node = old.node
    BY <2>3, <2>5 DEF Names
  <2> QED
    BY <1>4, <1>6, <2>5, <2>6, <2>7 DEF RowMade
<1>7. ASSUME log # None, s \notin Scanned(ls) PROVE RowMade(t, ls, s, row, ws)
  <2> DEFINE key == <<old.node, log.root>>
             bound == IF old = None THEN None ELSE byKey[key]
  <2>1. log \in LogType /\ log.root \in Roots /\ log.health = "bad"
    BY <1>1, <1>4, <1>7 DEF LogType
  <2>2. ASSUME row \in RowType, row.status = "unreadable", row.root = log.root,
               Bound(row, ws) \/ row.workspace = None,
               old # None /\ old.workspace # None =>
                 /\ row.node = old.node
                 /\ row.workspace = old.workspace \/ Displaced(t, ls, s)
        PROVE  RowMade(t, ls, s, row, ws)
    <3>1. row # None
      BY <2>2, NoneFacts
    <3> QED
      BY <1>7, <2>1, <2>2, <3>1 DEF RowMade
  <2>3. CASE bound # None
    <3>1. old # None /\ bound = byKey[key]
      BY <2>3
    <3>2. key \in Keys(all, ls)
      BY <1>3, <1>7, <3>1 DEF Keys
    <3>3. bound \in Keyed(all, ls, key)
      BY <2>3, <3>1, <3>2 DEF KeyBindings
    <3>4. PICK w : w = bound
      OBVIOUS
    <3>5. /\ w \in ws /\ w.node = old.node
          /\ \/ w.root = log.root
             \/ \E x \in Scanned(ls) :
                  /\ ls[x].root = log.root /\ t.rows[x] # None /\ t.rows[x].node = old.node
                  /\ w \in t.workspaces /\ w.id = t.rows[x].workspace /\ w.root # ls[x].root
      BY <3>3, <3>4, KeyedBinding
    <3>6. row = RowFor(w, log.root, "unreadable")
      BY <1>2, <1>7, <2>3, <3>4 DEF RowWritten
    <3>7. w \in Workspace
      BY <1>3, <3>5
    <3>8. /\ row \in RowType /\ row.status = "unreadable" /\ row.root = log.root
          /\ row.workspace = w.id /\ row.node = w.node /\ Names(row, w)
      BY <2>1, <3>6, <3>7, RowForFacts
    <3>9. Bound(row, ws)
      BY <3>5, <3>8 DEF Bound
    <3>10. ASSUME old.workspace # None PROVE row.workspace = old.workspace \/ Displaced(t, ls, s)
      <4>1. PICK v \in t.workspaces : Names(old, v)
        BY <1>1, <3>1, <3>10 DEF Bound
      <4>2. CASE w.root = log.root /\ v.root = log.root
        <5>1. v \in ws /\ v.node = w.node /\ v.root = w.root
          BY <1>3, <3>5, <4>1, <4>2 DEF Names
        <5>2. v = w
          BY <1>3, <3>5, <5>1 DEF Unique
        <5> QED
          BY <3>8, <4>1, <5>2 DEF Names
      <4>3. CASE v.root # log.root
        BY <1>7, <3>1, <4>1, <4>3 DEF Displaced, Names
      <4>4. CASE w.root # log.root
        BY <1>7, <3>1, <3>5, <4>4 DEF Displaced
      <4> QED
        BY <4>2, <4>3, <4>4
    <3> QED
      BY <2>2, <3>5, <3>8, <3>9, <3>10
  <2>4. CASE bound = None /\ old # None
    <3>1. row = [old EXCEPT !.status = "unreadable"] /\ old \in RowType
      BY <1>2, <1>1, <1>7, <2>4 DEF RowWritten
    <3>2. /\ row \in RowType /\ row.status = "unreadable"
          /\ row.root = old.root /\ row.workspace = old.workspace
          /\ row.node = old.node /\ row.project = old.project
      BY <3>1 DEF RowType
    <3>3. Bound(old, t.workspaces) => Bound(row, ws)
      BY <1>3, <3>2 DEF Bound, Names
    <3> QED
      BY <1>1, <1>7, <2>2, <2>4, <3>2, <3>3
  <2>5. CASE old = None
    <3>1. row = [project |-> None, workspace |-> None, node |-> None,
                 root |-> log.root, status |-> "unreadable"]
      BY <1>2, <1>7, <2>5 DEF RowWritten
    <3>2. /\ row \in RowType /\ row.status = "unreadable"
          /\ row.root = log.root /\ row.workspace = None
      BY <2>1, <3>1 DEF RowType
    <3> QED
      BY <2>2, <2>5, <3>2
  <2> QED
    BY <2>3, <2>4, <2>5
<1> QED
  BY <1>4, <1>5, <1>6, <1>7

-----------------------------------------------------------------------------
(* What a step may do with a session, so that archives stay sound. *)

Grows(s) ==
  LET old == HeaderOf(logs[s], spooled[s])
      new == HeaderOf(logs'[s], spooled'[s])
  IN /\ old # None => new # None /\ new.root = old.root
     /\ old = None /\ new # None /\ s = Guest => new.root = GuestRoot
     /\ logs[s] # None => logs'[s] # None
     /\ rows[s] # None /\ logs[s] # None => rows'[s] # None

LEMMA SoundKept ==
  ASSUME NEW m \in Manifest, Sound(m), ids \in Nat, ids' \in Nat, ids <= ids',
         \A s \in Sessions : Grows(s)
  PROVE  Sound(m)'
<1>1. \A w \in m.workspaces : w.id \in Nat
  BY DEF Manifest, Workspace, Ids
<1>2. \A w \in m.workspaces : w.project = m.project /\ w.id <= ids'
  BY <1>1 DEF Sound
<1>3. ASSUME NEW i \in m.items
      PROVE  SoundItem(i, m, rows'[i.id], logs'[i.id], spooled'[i.id])
  <2>1. i.id \in Sessions /\ Grows(i.id) /\ SoundItem(i, m, rows[i.id], logs[i.id], spooled[i.id])
    BY <1>3 DEF Manifest, Item, Sound
  <2>2. IF HeaderOf(logs'[i.id], spooled'[i.id]) = None THEN i.id = Guest /\ i.root = GuestRoot
        ELSE HeaderOf(logs'[i.id], spooled'[i.id]).root = i.root
    BY <2>1, Zenon DEF SoundItem, Grows
  <2>3. i.log # None => i.log.root = i.root /\ (i.id = Guest \/ logs'[i.id] # None)
    BY <2>1 DEF SoundItem, Grows
  <2>4. \/ rows'[i.id] # None /\ logs'[i.id] # None
        \/ i.status \in Statuses /\ \E w \in m.workspaces : w.id = i.workspace
    BY <2>1 DEF SoundItem, Grows
  <2> QED
    BY <2>2, <2>3, <2>4 DEF SoundItem
<1> QED
  BY <1>2, <1>3 DEF Sound

LEMMA Assemble ==
  ASSUME CatalogInv, TypeOK', Unique(workspaces'), Numbered(workspaces', ids'), ids <= ids',
         \A s \in Sessions : Sane(s)', \A s \in Sessions : Grows(s),
         \A m \in Manifests' : m \in Manifests \/ Sound(m)'
  PROVE  CatalogInv'
<1>1. ids \in Nat /\ ids' \in Nat
  BY DEF CatalogInv, TypeOK, Ids
<1>2. Manifests \subseteq Manifest
  BY DEF CatalogInv, TypeOK, Manifests
<1>3. \A m \in Manifests' : Sound(m)'
  <2> TAKE m \in Manifests'
  <2>1. CASE m \in Manifests
    <3>1. m \in Manifest /\ Sound(m)
      BY <1>2, <2>1 DEF CatalogInv
    <3> QED
      BY <1>1, <3>1, SoundKept
  <2> QED
    BY <2>1
<1> QED
  BY <1>3 DEF CatalogInv

-----------------------------------------------------------------------------
(* Restart. *)

\* The logs of a start: as they were, or with one more that an import had moved.
Left(ls) ==
  \A s \in Sessions :
    \/ ls[s] = logs[s]
    \/ /\ s = Guest /\ logs[s] = None /\ spooled[s] = None
       /\ ls[s] # None /\ ls[s].root = GuestRoot

LEMMA InitializeStep ==
  ASSUME CatalogInv, NEW t, NEW ls, Opened(t, ls), Local \in t.enrolled, Left(ls),
         Begin, Initialize(t, ls), preserved' \in Nat
  PROVE  CatalogInv' /\ \A s \in Sessions : RowMade(t, ls, s, rows'[s], workspaces')
<1>0. ids \in Nat /\ TypeOK
  BY DEF CatalogInv, TypeOK, Ids
<1>1. PICK byKey \in KeyBindings(Widened(t, ls), ls) :
        LET r == Reconciled(t, ls, byKey)
            made == Cardinality(r.workspaces \ t.workspaces)
        IN /\ ids + made <= MaxIds /\ ids' = ids + made
           /\ enrolled' = r.enrolled /\ projects' = r.projects /\ workspaces' = r.workspaces
           /\ rows' = r.rows
           /\ logs' = ls
           /\ owners' = [s \in Sessions |-> IF s \in Scanned(ls) THEN ls[s].node ELSE None]
           /\ calls' = [s \in Sessions |-> None] /\ untouched' = {} /\ exporting' = None
           /\ outdated' = {} /\ spooled' = spooled /\ archives' = archives
           /\ operations < MaxOperations /\ operations' = operations + 1
  BY Zenon DEF Initialize, Begin
<1> DEFINE all == Widened(t, ls)
           r == Reconciled(t, ls, byKey)
<1>2. PICK n : n = Cardinality(MadeBy(t, ls))
  OBVIOUS
<1>3. /\ r.enrolled = all.enrolled /\ r.projects = all.projects /\ r.workspaces = all.workspaces
      /\ r.rows = [s \in Sessions |-> r.rows[s]]
  BY <1>0, ReconciledTables
<1>4. /\ r.enrolled = t.enrolled
      /\ r.workspaces = t.workspaces \cup Adopted(t, ls)
      /\ r.projects = t.projects \cup {w.project : w \in Adopted(t, ls)}
      /\ n \in Nat /\ Unique(r.workspaces) /\ Numbered(r.workspaces, ids + n)
      /\ n = Cardinality(r.workspaces \ t.workspaces)
  BY <1>0, <1>2, <1>3, WidenedTables DEF MadeBy
<1>5. \A s \in Sessions : RowMade(t, ls, s, rows'[s], workspaces')
  BY <1>0, <1>1, <1>2, <1>3, <1>4, ReconciledRow
<1>6. Sessions # {} /\ workspaces' \subseteq Workspace
  BY <1>0, <1>1, <1>2, <1>3, <1>4, WidenedTypes, CatalogAssumption
<1>7. /\ t \in TablesType /\ ls \in [Sessions -> LogType \cup {None}]
      /\ \A w \in t.workspaces : w.project \in t.projects
  BY DEF Opened
<1>8. TypeOK'
  <2>1. ids' \in Ids /\ operations' \in 0 .. MaxOperations
    BY <1>0, <1>1, <1>4, CatalogAssumption DEF TypeOK, Ids
  <2>2. enrolled' \subseteq Nodes /\ Local \in enrolled'
    BY <1>1, <1>4, <1>7 DEF TablesType
  <2>3. /\ projects' \subseteq Ids
        /\ \A w \in workspaces' : w.project \in projects'
    <3>1. Adopted(t, ls) \subseteq Workspace
      BY <1>1, <1>4, <1>6
    <3> QED
      BY <1>1, <1>4, <1>7, <3>1 DEF TablesType, Workspace
  <2>4. workspaces' \subseteq [id : Ids, project : projects', node : Nodes, root : Roots]
    BY <1>6, <2>3 DEF Workspace
  <2>5. rows' \in [Sessions -> RowType \cup {None}]
    <3>1. rows' = [s \in Sessions |-> rows'[s]]
      BY <1>1, <1>3
    <3>2. \A s \in Sessions : rows'[s] \in RowType \cup {None}
      BY <1>5 DEF RowMade
    <3> QED
      BY <3>1, <3>2
  <2>6. owners' \in [Sessions -> Nodes \cup {None}]
    BY <1>1, <1>7 DEF LogType, Scanned
  <2> QED
    BY <1>0, <1>1, <1>7, <2>1, <2>2, <2>3, <2>4, <2>5, <2>6 DEF TypeOK
<1>9. Unique(workspaces') /\ Numbered(workspaces', ids') /\ ids <= ids'
  BY <1>0, <1>1, <1>4
<1>10. \A s \in Sessions : Sane(s)'
  <2> TAKE s \in Sessions
  <2>1. RowMade(t, ls, s, rows'[s], workspaces') /\ ls[s] \in LogType \cup {None}
    BY <1>5, <1>7
  <2>2. Sane(s) /\ (ls[s] = logs[s] \/ (s = Guest /\ spooled[s] = None /\ ls[s].root = GuestRoot))
    BY DEF CatalogInv, Left
  <2>3. calls'[s] = None /\ s \notin untouched' /\ logs'[s] = ls[s] /\ spooled'[s] = spooled[s]
    BY <1>1
  <2>4. RowAgrees(rows'[s], ls[s], spooled[s], FALSE, workspaces')
    BY <2>1 DEF RowAgrees, RowMade, HeaderOf, LogType
  <2>5. CallAgrees(s, rows'[s], ls[s], spooled[s], None, workspaces')
    BY DEF CallAgrees
  <2>6. LogAgrees(s, rows'[s], ls[s], spooled[s], FALSE, FALSE)
    BY <2>1, <2>2, NoneFacts DEF LogAgrees, RowMade, Sane, Fits, LogType
  <2>7. (s \in untouched') = FALSE /\ (s \in outdated') = FALSE
    BY <1>1
  <2> QED
    BY <2>3, <2>4, <2>5, <2>6, <2>7, Zenon DEF Sane, Fits
<1>11. \A s \in Sessions : Grows(s)
  <2> TAKE s \in Sessions
  <2>1. RowMade(t, ls, s, rows'[s], workspaces') /\ logs'[s] = ls[s] /\ spooled'[s] = spooled[s]
    BY <1>1, <1>5
  <2>2. ls[s] = logs[s] \/ (/\ s = Guest /\ logs[s] = None /\ spooled[s] = None
                            /\ ls[s] # None /\ ls[s].root = GuestRoot)
    BY DEF Left
  <2>3. logs[s] # None => rows'[s] # None
    BY <2>1, <2>2 DEF RowMade
  <2> QED
    BY <2>1, <2>2, <2>3 DEF Grows, HeaderOf
<1>12. Manifests' \subseteq Manifests
  BY <1>1 DEF Manifests
<1> QED
  BY <1>5, <1>8, <1>9, <1>10, <1>11, <1>12, Assemble

\* A start with the tables as they are, or with those salvaged from a corrupt file.
LEMMA TablesOpened ==
  ASSUME CatalogInv, NEW ls \in [Sessions -> LogType \cup {None}], Left(ls)
  PROVE  Opened(Tables, ls) /\ Local \in Tables.enrolled
<1>1. /\ enrolled \subseteq Nodes /\ Local \in enrolled /\ projects \subseteq Ids
      /\ \A w \in workspaces : w \in Workspace /\ w.project \in projects
      /\ rows \in [Sessions -> RowType \cup {None}]
  BY DEF CatalogInv, TypeOK, Workspace
<1>2. Tables \in TablesType /\ Tables.rows = rows /\ Tables.workspaces = workspaces
      /\ Tables.projects = projects /\ Tables.enrolled = enrolled
  BY <1>1 DEF Tables, TablesType
<1>3. ASSUME NEW s \in Sessions, rows[s] # None
      PROVE  /\ ls[s] # None => rows[s].root = ls[s].root
             /\ Bound(rows[s], workspaces) \/ rows[s].workspace = None
  <2>1. Sane(s)
    BY DEF CatalogInv
  <2>2. ls[s] = logs[s]
    BY <1>3, <2>1 DEF Left, Sane, Fits, RowAgrees, HeaderOf
  <2> QED
    BY <1>3, <2>1, <2>2 DEF Sane, Fits, RowAgrees, HeaderOf
<1> QED
  BY <1>1, <1>2, <1>3 DEF Opened, CatalogInv

LEMMA SalvageOpened ==
  ASSUME CatalogInv, NEW lost \in Corruptions
  PROVE  Opened(Salvage(lost), logs) /\ Local \in Salvage(lost).enrolled
<1> DEFINE t == Salvage(lost)
           ps == IF "project" \in lost THEN {} ELSE projects
           ws == IF lost \cap {"node", "workspace"} # {} THEN {}
                 ELSE {w \in workspaces : w.project \in ps}
<1>1. /\ enrolled \subseteq Nodes /\ Local \in enrolled /\ projects \subseteq Ids
      /\ \A w \in workspaces : w \in Workspace /\ w.id # None
      /\ rows \in [Sessions -> RowType \cup {None}] /\ logs \in [Sessions -> LogType \cup {None}]
      /\ Unique(workspaces) /\ Numbered(workspaces, ids)
  <2>1. \A w \in workspaces : w \in Workspace
    BY DEF CatalogInv, TypeOK, Workspace
  <2>2. \A w \in workspaces : w.id # None
    BY <2>1, NoneFacts DEF Workspace
  <2> QED
    BY <2>1, <2>2 DEF CatalogInv, TypeOK
<1>2. /\ t.enrolled = (IF "node" \in lost THEN {} ELSE enrolled) \cup {Local}
      /\ t.projects = ps /\ t.workspaces = ws
      /\ \A s \in Sessions : t.rows[s] = None \/ t.rows[s] = rows[s]
      /\ \A s \in Sessions : t.rows[s] # None =>
           rows[s].workspace \in {w.id : w \in ws} \cup {None}
      /\ t.rows = [s \in Sessions |-> t.rows[s]]
      /\ t = [enrolled |-> t.enrolled, projects |-> t.projects, workspaces |-> t.workspaces,
              rows |-> t.rows]
  BY DEF Salvage
<1>3. ws \subseteq workspaces /\ ps \subseteq projects /\ \A w \in ws : w.project \in ps
  OBVIOUS
<1>4. t \in TablesType
  <2>1. \A s \in Sessions : t.rows[s] \in RowType \cup {None}
    BY <1>1, <1>2
  <2>2. t.rows \in [Sessions -> RowType \cup {None}]
    BY <1>2, <2>1
  <2>3. t.enrolled \in SUBSET Nodes /\ t.projects \in SUBSET Ids /\ t.workspaces \in SUBSET Workspace
    BY <1>1, <1>2, <1>3
  <2> QED
    BY <1>2, <2>2, <2>3 DEF TablesType
<1>5. ASSUME NEW s \in Sessions, t.rows[s] # None
      PROVE  /\ logs[s] # None => t.rows[s].root = logs[s].root
             /\ Bound(t.rows[s], ws) \/ t.rows[s].workspace = None
  <2>1. Sane(s) /\ t.rows[s] = rows[s] /\ rows[s] # None
    BY <1>2, <1>5 DEF CatalogInv
  <2>2. logs[s] # None => rows[s].root = logs[s].root
    BY <2>1 DEF Sane, Fits, RowAgrees, HeaderOf
  <2>3. CASE Bound(rows[s], workspaces)
    <3>1. PICK w \in workspaces : Names(rows[s], w)
      BY <2>3 DEF Bound
    <3>2. w.id = rows[s].workspace /\ w.id # None
      BY <1>1, <3>1 DEF Names
    <3>3. PICK v \in ws : v.id = w.id
      BY <1>2, <1>5, <3>2
    <3>4. v = w
      BY <1>1, <1>3, <3>3 DEF Unique
    <3> QED
      BY <2>1, <2>2, <3>1, <3>3, <3>4 DEF Bound
  <2>4. CASE rows[s].workspace = None
    BY <2>1, <2>2, <2>4
  <2> QED
    BY <2>1, <2>3, <2>4 DEF Sane, Fits, RowAgrees
<1>6. Unique(t.workspaces) /\ Numbered(t.workspaces, ids)
  BY <1>1, <1>2, <1>3 DEF Unique, Numbered
<1>7. \A w \in t.workspaces : w.project \in t.projects
  BY <1>2, <1>3
<1> QED
  BY <1>1, <1>2, <1>4, <1>5, <1>6, <1>7 DEF Opened

\* An import moves logs of the guest only: those of other sessions are here already.
LEMMA MovedLogs ==
  ASSUME CatalogInv, NEW a \in archives, NEW moved \in SUBSET Moved(a)
  PROVE  /\ WithLogs(moved) \in [Sessions -> LogType \cup {None}] /\ Left(WithLogs(moved))
         /\ \A i \in moved : WithLogs(moved)[i.id] # None
         /\ \A s \in Sessions : (\A i \in moved : i.id # s) => WithLogs(moved)[s] = logs[s]
<1>1. logs \in [Sessions -> LogType \cup {None}] /\ a \in Manifest /\ Sound(a)
      /\ \A s \in Sessions : Sane(s)
  BY DEF CatalogInv, TypeOK, Manifests
<1>2. ASSUME NEW i \in moved
      PROVE  /\ i.id = Guest /\ i.log \in LogType /\ i.log # None /\ i.log.root = GuestRoot
             /\ logs[i.id] = None /\ spooled[i.id] = None
  <2>1. i \in a.items /\ logs[i.id] = None /\ i.log # None
    BY DEF Moved, NewItems, HasLog
  <2>2. i \in Item /\ i.log \in LogType /\ i.id \in Sessions
    BY <1>1, <2>1 DEF Manifest, Item
  <2>3. SoundItem(i, a, rows[i.id], logs[i.id], spooled[i.id]) /\ Sane(i.id)
    BY <1>1, <2>1, <2>2 DEF Sound
  <2>4. i.id = Guest /\ i.log.root = i.root
    BY <2>1, <2>3 DEF SoundItem
  <2>5. spooled[i.id] = None
    BY <2>3, <2>4 DEF Sane, Fits, LogAgrees
  <2>6. i.root = GuestRoot
    BY <2>1, <2>3, <2>5 DEF SoundItem, HeaderOf
  <2> QED
    BY <2>1, <2>2, <2>4, <2>5, <2>6
<1>3. ASSUME NEW s \in Sessions, \E i \in moved : i.id = s
      PROVE  \E i \in moved : i.id = s /\ WithLogs(moved)[s] = i.log
  <2>1. {i \in moved : i.id = s} # {}
    BY <1>3
  <2>2. The({i \in moved : i.id = s}) \in {i \in moved : i.id = s}
    BY <2>1 DEF The
  <2>3. WithLogs(moved)[s] = The({i \in moved : i.id = s}).log
    BY <1>3 DEF WithLogs
  <2> QED
    BY <2>2, <2>3
<1>4. \A s \in Sessions : (\A i \in moved : i.id # s) => WithLogs(moved)[s] = logs[s]
  BY DEF WithLogs
<1>5. \A s \in Sessions : WithLogs(moved)[s] \in LogType \cup {None}
  BY <1>1, <1>2, <1>3, <1>4
<1>6. WithLogs(moved) = [s \in Sessions |-> WithLogs(moved)[s]]
  BY DEF WithLogs
<1>7. WithLogs(moved) \in [Sessions -> LogType \cup {None}]
  BY <1>5, <1>6
<1>8. Left(WithLogs(moved))
  BY <1>2, <1>3, <1>4 DEF Left
<1>9. \A i \in moved : WithLogs(moved)[i.id] # None
  BY <1>2, <1>3, CatalogAssumption
<1> QED
  BY <1>4, <1>7, <1>8, <1>9

LEMMA RestartSteps ==
  ASSUME CatalogInv, Restart \/ RestartCorrupt \/ \E e : \E a \in archives : ImportStops(a, e)
  PROVE  /\ CatalogInv'
         /\ preserved' # preserved \/
              \A s \in Sessions : RowMade(Tables, logs', s, rows'[s], workspaces')
         /\ \A s \in Sessions : logs'[s] # None => rows'[s] # None
<1>1. preserved \in Nat /\ logs \in [Sessions -> LogType \cup {None}]
  BY DEF CatalogInv, TypeOK
<1>2. Left(logs)
  BY DEF Left
<1>3. CASE Restart
  <2>1. Opened(Tables, logs) /\ Local \in Tables.enrolled
    BY <1>1, <1>2, TablesOpened
  <2>2. Begin /\ Initialize(Tables, logs) /\ preserved' \in Nat
    BY <1>1, <1>3 DEF Restart
  <2>3. CatalogInv' /\ \A s \in Sessions : RowMade(Tables, logs, s, rows'[s], workspaces')
    BY <1>2, <2>1, <2>2, InitializeStep
  <2>4. logs' = logs
    BY <2>2 DEF Initialize
  <2> QED
    BY <2>3, <2>4 DEF RowMade
<1>4. CASE RestartCorrupt
  <2>1. PICK lost \in Corruptions : Initialize(Salvage(lost), logs)
    BY <1>4 DEF RestartCorrupt
  <2>2. Begin /\ preserved' \in Nat /\ preserved' # preserved
    BY <1>1, <1>4 DEF RestartCorrupt
  <2>3. CatalogInv' /\ \A s \in Sessions : RowMade(Salvage(lost), logs, s, rows'[s], workspaces')
    BY <1>2, <2>1, <2>2, SalvageOpened, InitializeStep
  <2>4. logs' = logs
    BY <2>1 DEF Initialize
  <2> QED
    BY <2>2, <2>3, <2>4 DEF RowMade
<1>5. CASE \E e : \E a \in archives : ImportStops(a, e)
  <2>1. PICK a \in archives : \E e : ImportStops(a, e)
    BY <1>5
  <2>2. PICK moved \in SUBSET Moved(a) :
          Begin /\ Initialize(Tables, WithLogs(moved)) /\ preserved' = preserved
    BY <2>1 DEF ImportStops
  <2>3. PICK ls : ls = WithLogs(moved)
    OBVIOUS
  <2>4. ls \in [Sessions -> LogType \cup {None}] /\ Left(ls)
    BY <2>3, MovedLogs
  <2>5. Opened(Tables, ls) /\ Local \in Tables.enrolled
    BY <2>4, TablesOpened
  <2>6. CatalogInv' /\ \A s \in Sessions : RowMade(Tables, ls, s, rows'[s], workspaces')
    BY <1>1, <2>2, <2>3, <2>4, <2>5, InitializeStep
  <2>7. logs' = ls
    BY <2>2, <2>3 DEF Initialize
  <2> QED
    BY <2>6, <2>7 DEF RowMade
<1> QED
  BY <1>3, <1>4, <1>5

-----------------------------------------------------------------------------
(* Import. *)

LEMMA PlacedFacts ==
  ASSUME CatalogInv, NEW a \in archives, NEW e, Importable(a, e), ~Conflict(a, e)
  PROVE  /\ \A n \in Nodes : BindNode(n, e) \in Nodes
         /\ Placed(a, e) \subseteq Workspace
         /\ Unique(workspaces \cup Inserted(a, e))
         /\ Numbered(workspaces \cup Inserted(a, e), ids)
         /\ Inserted(a, e) \subseteq Workspace /\ \A w \in Inserted(a, e) : w.project = a.project
<1>1. /\ a \in Manifest /\ Sound(a) /\ enrolled \subseteq Nodes /\ Local \in enrolled
      /\ \A w \in workspaces : w.node \in Nodes
      /\ Unique(workspaces) /\ Numbered(workspaces, ids)
  BY DEF CatalogInv, TypeOK, Manifests
<1>2. \A n \in Nodes : BindNode(n, e) \in Nodes
  <2>1. e = None \/ e \in Nodes
    BY <1>1 DEF Importable, KnownNodes
  <2>2. The(enrolled) \in Nodes
    BY <1>1 DEF The
  <2> QED
    BY <2>1, <2>2 DEF BindNode
<1>3. \A v \in a.workspaces : v \in Workspace /\ v.project = a.project /\ v.id <= ids
  BY <1>1 DEF Manifest, Sound
<1>4. ASSUME NEW w \in Placed(a, e)
      PROVE  \E v \in a.workspaces : /\ w = [v EXCEPT !.node = BindNode(v.node, e)]
                                     /\ w.id = v.id /\ w.project = v.project /\ w \in Workspace
  <2>1. PICK v \in a.workspaces : w = [v EXCEPT !.node = BindNode(v.node, e)]
    BY DEF Placed
  <2>2. v \in Workspace /\ BindNode(v.node, e) \in Nodes
    BY <1>2, <1>3 DEF Workspace
  <2>3. \A n \in Nodes : /\ [v EXCEPT !.node = n] \in Workspace
                         /\ [v EXCEPT !.node = n].id = v.id /\ [v EXCEPT !.node = n].project = v.project
    BY <2>2 DEF Workspace
  <2> QED
    BY <2>1, <2>2, <2>3
<1>5. Placed(a, e) \subseteq Workspace /\ Inserted(a, e) \subseteq Placed(a, e)
  BY <1>4 DEF Inserted
<1>6. \A w \in Inserted(a, e) : w.project = a.project /\ w.id <= ids
  BY <1>3, <1>4, <1>5
<1>7. ASSUME NEW v \in Inserted(a, e), NEW w \in Inserted(a, e)
      PROVE  /\ v.node = w.node /\ v.root = w.root => v = w
             /\ v.id = w.id => v = w
  <2>1. FirstAt(Placed(a, e), v) = v /\ FirstAt(Placed(a, e), w) = w
    BY DEF Inserted
  <2>2. v.node = w.node /\ v.root = w.root => FirstAt(Placed(a, e), v) = FirstAt(Placed(a, e), w)
    BY DEF FirstAt
  <2>3. v.id = w.id => v = w
    BY <1>1, <1>4, <1>5 DEF Sound
  <2> QED
    BY <2>1, <2>2, <2>3
<1>8. ASSUME NEW v \in workspaces, NEW w \in Inserted(a, e)
      PROVE  ~(v.node = w.node /\ v.root = w.root) /\ v.id # w.id
  BY DEF Inserted, AtRoot, Conflict
<1>9. Unique(workspaces \cup Inserted(a, e))
  BY <1>1, <1>7, <1>8 DEF Unique
<1>10. Numbered(workspaces \cup Inserted(a, e), ids)
  BY <1>1, <1>6 DEF Numbered
<1> QED
  BY <1>2, <1>5, <1>6, <1>9, <1>10

\* The row of an imported session is bound where its workspace was placed.
LEMMA ImportedRowFacts ==
  ASSUME CatalogInv, NEW a \in archives, NEW e, Importable(a, e), ~Conflict(a, e),
         NEW i \in a.items, rows[i.id] = None
  PROVE  LET row == ImportedRow(a, i, e) IN
         /\ row \in RowType /\ row # None /\ row.root = i.root
         /\ row.status = i.status /\ i.status \in Statuses
         /\ Bound(row, workspaces \cup Inserted(a, e))
<1> DEFINE ws == workspaces \cup Inserted(a, e)
           row == ImportedRow(a, i, e)
<1>1. a \in Manifest /\ Sound(a) /\ \A w \in workspaces : w \in Workspace
  BY DEF CatalogInv, TypeOK, Manifests, Workspace
<1>2. i \in Item /\ a.project \in Ids /\ \A w \in a.workspaces : w \in Workspace
  BY <1>1 DEF Manifest
<1>3. SoundItem(i, a, rows[i.id], logs[i.id], spooled[i.id])
  BY <1>1 DEF Sound
<1>4. PICK w \in a.workspaces : i.status \in Statuses /\ w.id = i.workspace
  BY <1>3 DEF SoundItem
<1>5. {v \in a.workspaces : v.id = i.workspace} = {w}
  BY <1>1, <1>4 DEF Sound
<1>6. The({w}) = w /\ {w} # {}
  BY DEF The
<1>7. PICK n \in Nodes : n = BindNode(w.node, e)
  BY <1>2, PlacedFacts DEF Workspace
<1>8. row = [project |-> a.project, root |-> i.root, node |-> n, status |-> i.status,
             workspace |-> The(AtRoot(ws, n, w.root)).id]
  BY <1>5, <1>6, <1>7 DEF ImportedRow
<1>9. PICK p : p = [w EXCEPT !.node = n]
  OBVIOUS
<1>10. p \in Placed(a, e) /\ p.node = n /\ p.root = w.root
  BY <1>2, <1>7, <1>9 DEF Placed, Workspace
<1>11. AtRoot(ws, n, w.root) # {} /\ \A v \in AtRoot(ws, n, w.root) : v.project = a.project
  <2>1. CASE AtRoot(workspaces, n, w.root) # {}
    BY <1>10, <2>1, PlacedFacts DEF AtRoot, Conflict
  <2>2. CASE AtRoot(workspaces, n, w.root) = {}
    <3>1. PICK f : f = FirstAt(Placed(a, e), p)
      OBVIOUS
    <3>2. f \in AtRoot(Placed(a, e), n, w.root)
      BY <1>10, <3>1, FirstIsThere, PlacedFacts
    <3>3. f \in Placed(a, e) /\ f.node = n /\ f.root = w.root
      BY <3>2 DEF AtRoot
    <3>4. FirstAt(Placed(a, e), f) = f
      BY <1>10, <3>1, <3>3 DEF FirstAt
    <3>5. f \in Inserted(a, e)
      BY <2>2, <3>3, <3>4 DEF Inserted
    <3> QED
      BY <2>2, <3>3, <3>5, PlacedFacts DEF AtRoot
  <2> QED
    BY <2>1, <2>2
<1>12. PICK v : v = The(AtRoot(ws, n, w.root))
  OBVIOUS
<1>13. v \in ws /\ v.node = n /\ v.root = w.root /\ v.project = a.project /\ v \in Workspace
  <2>1. v \in AtRoot(ws, n, w.root)
    BY <1>11, <1>12 DEF The
  <2>2. v \in ws /\ v.node = n /\ v.root = w.root /\ v.project = a.project
    BY <1>11, <2>1 DEF AtRoot
  <2> QED
    BY <1>1, <2>2, PlacedFacts
<1>14. row = [project |-> a.project, root |-> i.root, node |-> n, status |-> i.status,
              workspace |-> v.id]
  BY <1>8, <1>12
<1>15. row \in RowType /\ row.root = i.root /\ row.status = i.status /\ Names(row, v)
  BY <1>2, <1>4, <1>13, <1>14 DEF RowType, Item, Workspace, Names
<1>16. row # None
  BY <1>15, NoneFacts
<1> QED
  BY <1>4, <1>13, <1>15, <1>16 DEF Bound

\* A session that a step does not touch stays as it was, though workspaces are added.
LEMMA SaneKept ==
  ASSUME NEW s \in Sessions, Sane(s), workspaces \subseteq workspaces',
         rows'[s] = rows[s], logs'[s] = logs[s], spooled'[s] = spooled[s], calls'[s] = calls[s],
         s \in untouched' <=> s \in untouched, s \in outdated => s \in outdated'
  PROVE  Sane(s)' /\ Grows(s)
<1>1. \A row : Bound(row, workspaces) => Bound(row, workspaces')
  BY DEF Bound
<1>2. RowAgrees(rows'[s], logs'[s], spooled'[s], s \in untouched', workspaces')
  BY <1>1 DEF Sane, Fits, RowAgrees
<1>3. CallAgrees(s, rows'[s], logs'[s], spooled'[s], calls'[s], workspaces')
  BY DEF Sane, Fits, CallAgrees
<1>4. LogAgrees(s, rows'[s], logs'[s], spooled'[s], s \in untouched', s \in outdated')
  BY DEF Sane, Fits, LogAgrees
<1>5. Grows(s)
  <2>1. HeaderOf(logs'[s], spooled'[s]) = HeaderOf(logs[s], spooled[s])
    OBVIOUS
  <2> QED
    BY <2>1, Zenon DEF Grows
<1> QED
  BY <1>2, <1>3, <1>4, <1>5 DEF Sane, Fits

LEMMA ImportStep ==
  ASSUME CatalogInv, NEW a \in archives, NEW e, Import(a, e)
  PROVE  /\ CatalogInv'
         /\ \A s \in Sessions : rows[s] # None => rows'[s] = rows[s]
         /\ \A s \in Sessions : logs[s] = None /\ logs'[s] # None => rows'[s] # None
<1> DEFINE new(s) == \E i \in NewItems(a) : i.id = s
           item(s) == The({i \in NewItems(a) : i.id = s})
<1>1. /\ Importable(a, e) /\ ~Conflict(a, e) /\ operations' \in 0 .. MaxOperations
      /\ projects' = projects \cup {a.project}
      /\ workspaces' = workspaces \cup Inserted(a, e)
      /\ rows' = [s \in Sessions |-> IF new(s) THEN ImportedRow(a, item(s), e) ELSE rows[s]]
      /\ logs' = WithLogs(Moved(a))
      /\ owners' = [s \in Sessions |-> IF new(s) THEN rows'[s].node ELSE owners[s]]
      /\ outdated' = outdated \cup {i.id : i \in {j \in NewItems(a) : j.status # logs'[j.id].status}}
      /\ UNCHANGED <<enrolled, spooled, calls, untouched, exporting, archives, preserved, ids>>
  <2>1. operations' \in 0 .. MaxOperations
    BY CatalogAssumption DEF Import, Begin, CatalogInv, TypeOK
  <2> QED
    BY <2>1, Zenon DEF Import, background
<1>2. a \in Manifest /\ Sound(a) /\ TypeOK /\ \A s \in Sessions : Sane(s)
  BY DEF CatalogInv, TypeOK, Manifests
<1>3. ASSUME NEW s \in Sessions, new(s)
      PROVE  /\ item(s) \in a.items /\ item(s) \in NewItems(a) /\ item(s).id = s
             /\ rows[s] = None /\ calls[s] = None
             /\ item(s).log # None \/ logs[s] # None
  <2>1. {i \in NewItems(a) : i.id = s} # {}
    BY <1>3
  <2>2. item(s) \in NewItems(a) /\ item(s).id = s
    BY <2>1 DEF The
  <2> HIDE DEF item
  <2> QED
    BY <1>1, <2>2 DEF NewItems, HasLog, Importable
<1>4. ASSUME NEW s \in Sessions, new(s)
      PROVE  /\ rows'[s] \in RowType /\ rows'[s] # None /\ rows'[s].root = item(s).root
             /\ rows'[s].status = item(s).status /\ item(s).status \in Statuses
             /\ Bound(rows'[s], workspaces')
  <2>1. PICK i \in a.items : i = item(s) /\ rows[i.id] = None
    BY <1>3, <1>4
  <2>2. rows'[s] = ImportedRow(a, i, e)
    BY <1>1, <1>4, <2>1
  <2>3. /\ ImportedRow(a, i, e) \in RowType /\ ImportedRow(a, i, e) # None
        /\ ImportedRow(a, i, e).root = i.root /\ ImportedRow(a, i, e).status = i.status
        /\ i.status \in Statuses /\ Bound(ImportedRow(a, i, e), workspaces')
    BY <1>1, <2>1, ImportedRowFacts
  <2> QED
    BY <2>1, <2>2, <2>3
<1>5. ASSUME NEW s \in Sessions, ~new(s)
      PROVE  rows'[s] = rows[s] /\ logs'[s] = logs[s]
  BY <1>1, <1>5, MovedLogs DEF Moved
<1>6. logs' \in [Sessions -> LogType \cup {None}] /\ Left(logs') /\ \A i \in Moved(a) : logs'[i.id] # None
  BY <1>1, MovedLogs
<1>7. Inserted(a, e) \subseteq Workspace /\ \A w \in Inserted(a, e) : w.project = a.project
  BY <1>1, PlacedFacts
<1>8. TypeOK'
  <2>1. projects' \subseteq Ids /\ a.project \in projects' /\ projects \subseteq projects'
    BY <1>1, <1>2 DEF TypeOK, Manifest
  <2>2. workspaces' \subseteq [id : Ids, project : projects', node : Nodes, root : Roots]
    BY <1>1, <1>2, <1>7, <2>1 DEF TypeOK, Workspace
  <2>3. \A s \in Sessions : rows'[s] \in RowType \cup {None}
    BY <1>2, <1>4, <1>5 DEF TypeOK
  <2>4. rows' \in [Sessions -> RowType \cup {None}]
    BY <1>1, <2>3
  <2>5. owners' \in [Sessions -> Nodes \cup {None}]
    <3>1. \A s \in Sessions : new(s) => rows'[s].node \in Nodes \cup {None}
      BY <1>4 DEF RowType
    <3> QED
      BY <1>1, <1>2, <3>1 DEF TypeOK
  <2>6. outdated' \subseteq Sessions
    BY <1>1, <1>2 DEF TypeOK, NewItems, Manifest, Item
  <2> QED
    BY <1>1, <1>2, <1>6, <2>1, <2>2, <2>4, <2>5, <2>6 DEF TypeOK
<1>9. Unique(workspaces') /\ Numbered(workspaces', ids') /\ ids <= ids'
  <2>1. ids' = ids /\ ids <= ids
    BY <1>1, <1>2 DEF TypeOK, Ids
  <2>2. Unique(workspaces \cup Inserted(a, e)) /\ Numbered(workspaces \cup Inserted(a, e), ids)
    BY <1>1, PlacedFacts
  <2> QED
    BY <1>1, <2>1, <2>2, Zenon
<1>10. ASSUME NEW s \in Sessions PROVE Sane(s)' /\ Grows(s)
  <2>1. CASE ~new(s)
    BY <1>1, <1>2, <1>5, <2>1, SaneKept
  <2>2. CASE new(s)
    <3>1. PICK i \in a.items : i = item(s) /\ i.id = s /\ i \in NewItems(a)
      BY <1>3, <2>2
    <3>2. /\ SoundItem(i, a, rows[s], logs[s], spooled[s]) /\ Sane(s)
          /\ rows[s] = None /\ calls[s] = None /\ (i.log # None \/ logs[s] # None)
      BY <1>2, <1>3, <2>2, <3>1 DEF Sound
    <3>3. /\ rows'[s] # None /\ rows'[s].root = i.root /\ rows'[s].status = i.status
          /\ i.status \in Statuses /\ Bound(rows'[s], workspaces')
      BY <1>4, <2>2, <3>1
    <3>4. spooled'[s] = spooled[s] /\ calls'[s] = None /\ (s \in untouched' <=> s \in untouched)
      BY <1>1, <3>2
    <3>5. logs'[s] # None
      BY <1>6, <3>1, <3>2 DEF Moved, HasLog, Left
    <3>6. spooled[s] = None
      BY <3>1, <3>2 DEF Sane, Fits, LogAgrees, SoundItem
    <3>7. /\ logs[s] # None => logs'[s] = logs[s]
          /\ logs[s] = None => s = Guest /\ logs'[s].root = GuestRoot
      BY <1>6, <3>5 DEF Left
    <3>8. logs'[s].root = i.root
      BY <3>1, <3>2, <3>6, <3>7 DEF SoundItem, HeaderOf
    <3>9. logs'[s].status # i.status => s \in outdated'
      BY <1>1, <3>1
    <3>10. RowAgrees(rows'[s], logs'[s], spooled'[s], s \in untouched', workspaces')
      BY <3>3, <3>5, <3>8 DEF RowAgrees, HeaderOf
    <3>11. CallAgrees(s, rows'[s], logs'[s], spooled'[s], calls'[s], workspaces')
      BY <3>4 DEF CallAgrees
    <3>12. s = Guest => logs'[s].root = GuestRoot
      BY <3>2, <3>7 DEF Sane, Fits, LogAgrees
    <3>13. LogAgrees(s, rows'[s], logs'[s], spooled'[s], s \in untouched', s \in outdated')
      BY <3>3, <3>4, <3>5, <3>6, <3>9, <3>12 DEF LogAgrees
    <3>14. Grows(s)
      BY <3>3, <3>4, <3>5, <3>6, <3>7 DEF Grows, HeaderOf
    <3> QED
      BY <3>10, <3>11, <3>13, <3>14 DEF Sane, Fits
  <2> QED
    BY <2>1, <2>2
<1>11. Manifests' \subseteq Manifests
  BY <1>1 DEF Manifests
<1>12. CatalogInv'
  BY <1>8, <1>9, <1>10, <1>11, Assemble
<1>13. \A s \in Sessions : rows[s] # None => rows'[s] = rows[s]
  BY <1>3, <1>5
<1>14. \A s \in Sessions : logs[s] = None /\ logs'[s] # None => rows'[s] # None
  BY <1>4, <1>5
<1> QED
  BY <1>12, <1>13, <1>14

-----------------------------------------------------------------------------
(* Steps of one session. *)

\* Only session s changes, and no archive.
OnlySession(s) ==
  /\ \A x \in Sessions \ {s} :
       /\ rows'[x] = rows[x] /\ logs'[x] = logs[x] /\ spooled'[x] = spooled[x]
       /\ calls'[x] = calls[x] /\ (x \in untouched' <=> x \in untouched)
  /\ UNCHANGED <<outdated, archives, exporting>>

LEMMA SessionStep ==
  ASSUME CatalogInv, TypeOK', NEW s \in Sessions, OnlySession(s), workspaces \subseteq workspaces',
         Unique(workspaces'), Numbered(workspaces', ids'), ids <= ids', Sane(s)', Grows(s)
  PROVE  CatalogInv'
<1>1. ASSUME NEW x \in Sessions PROVE Sane(x)' /\ Grows(x)
  <2>1. CASE x = s
    BY <2>1
  <2>2. CASE x # s
    <3>1. x \in Sessions \ {s} /\ Sane(x)
      BY <2>2 DEF CatalogInv
    <3> QED
      BY <3>1, SaneKept DEF OnlySession
  <2> QED
    BY <2>1, <2>2
<1>2. Manifests' = Manifests
  BY DEF Manifests, OnlySession
<1> QED
  BY <1>1, <1>2, Assemble

\* The same, when no workspace is made.
LEMMA SessionOnly ==
  ASSUME CatalogInv, TypeOK', NEW s \in Sessions, OnlySession(s), UNCHANGED <<workspaces, ids>>,
         Sane(s)', Grows(s)
  PROVE  CatalogInv'
<1>1. Unique(workspaces') /\ Numbered(workspaces', ids') /\ ids <= ids'
      /\ workspaces \subseteq workspaces'
  BY DEF CatalogInv, TypeOK, Ids
<1> QED
  BY <1>1, SessionStep

LEMMA BeginTypes == TypeOK /\ Begin => operations' \in 0 .. MaxOperations
  BY CatalogAssumption DEF TypeOK, Begin

LEMMA HeaderFacts ==
  ASSUME NEW n \in Nodes, NEW r \in Roots
  PROVE  /\ Header(n, r) \in LogType /\ Header(n, r) # None
         /\ Header(n, r).status = "idle" /\ Header(n, r).root = r
<1>1. Header(n, r) \in LogType
  BY DEF Header, LogType, Statuses
<1>2. Header(n, r) # None
  BY <1>1, NoneFacts
<1> QED
  BY <1>1, <1>2 DEF Header

\* A session begins with its header on its node, and a call that waits for the answer.
LEMMA CreateStep ==
  ASSUME CatalogInv, NEW s \in Sessions, NEW n \in Nodes, NEW r \in Roots, Unused(s), Begin,
         NodeCreates(s, n, r), NEW w \in workspaces \cup {None},
         calls' = [calls EXCEPT ![s] = [stage |-> "creating", node |-> n, root |-> r,
                                        workspace |-> w]],
         UNCHANGED <<tables, untouched, exporting, background, outdated, ids>>
  PROVE  CatalogInv'
<1>1. TypeOK /\ operations' \in 0 .. MaxOperations
  BY BeginTypes DEF CatalogInv
<1>2. PICK h : h = Header(n, r)
  OBVIOUS
<1>3. h \in LogType /\ h # None /\ h.status = "idle" /\ h.root = r
  BY <1>2, HeaderFacts
<1>4. PICK c : c = [stage |-> "creating", node |-> n, root |-> r, workspace |-> w]
  OBVIOUS
<1>5. c \in CallType /\ c.root = r /\ c.workspace = w /\ c # None
  <2>1. w \in Workspace \cup {None}
    BY <1>1 DEF TypeOK, Workspace
  <2>2. c \in CallType /\ c.root = r /\ c.workspace = w
    BY <1>4, <2>1 DEF CallType
  <2> QED
    BY <2>2, NoneFacts
<1>6. s # Guest /\ rows[s] = None /\ logs[s] = None /\ spooled[s] = None /\ calls[s] = None
  BY DEF Unused
<1>7. calls' = [calls EXCEPT ![s] = c]
  BY <1>4
<1>8. \/ /\ logs' = [logs EXCEPT ![s] = h] /\ owners' = [owners EXCEPT ![s] = n]
         /\ spooled' = spooled
      \/ spooled' = [spooled EXCEPT ![s] = h] /\ UNCHANGED <<logs, owners>>
  BY <1>2 DEF NodeCreates
<1>9. /\ rows' = rows /\ workspaces' = workspaces /\ ids' = ids /\ untouched' = untouched
      /\ UNCHANGED <<enrolled, projects, exporting, archives, preserved, outdated>>
  BY DEF tables, background
<1>10. TypeOK'
  BY <1>1, <1>3, <1>5, <1>7, <1>8, <1>9 DEF TypeOK
<1>11. OnlySession(s)
  BY <1>1, <1>7, <1>8, <1>9 DEF OnlySession, TypeOK
<1>12. s \notin untouched
  BY <1>6 DEF CatalogInv, Sane, Fits, LogAgrees
<1>13. calls'[s] = c /\ ((logs'[s] = h /\ spooled'[s] = None) \/ (logs'[s] = None /\ spooled'[s] = h))
  BY <1>1, <1>6, <1>7, <1>8 DEF TypeOK
<1>14. Sane(s)'
  <2>1. RowAgrees(rows'[s], logs'[s], spooled'[s], s \in untouched', workspaces')
    BY <1>6, <1>9 DEF RowAgrees
  <2>2. CallAgrees(s, rows'[s], logs'[s], spooled'[s], calls'[s], workspaces')
    BY <1>3, <1>5, <1>6, <1>9, <1>13 DEF CallAgrees, HeaderOf
  <2>3. LogAgrees(s, rows'[s], logs'[s], spooled'[s], s \in untouched', s \in outdated')
    BY <1>3, <1>6, <1>9, <1>12, <1>13 DEF LogAgrees
  <2> QED
    BY <2>1, <2>2, <2>3 DEF Sane, Fits
<1>15. Grows(s)
  BY <1>6 DEF Grows, HeaderOf
<1> QED
  BY <1>9, <1>10, <1>11, <1>14, <1>15, SessionOnly

LEMMA CreationSteps ==
  ASSUME CatalogInv,
         \/ \E s \in Sessions, n \in Nodes, r \in Roots : CreateSession(s, n, r)
         \/ \E s \in Sessions, w \in workspaces, r \in Roots : CreateInWorkspace(s, w, r)
  PROVE  CatalogInv' /\ rows' = rows
<1>1. ASSUME NEW s \in Sessions, NEW n \in Nodes, NEW r \in Roots, CreateSession(s, n, r)
      PROVE  CatalogInv' /\ rows' = rows
  <2>1. /\ Unused(s) /\ Begin /\ NodeCreates(s, n, r)
        /\ calls' = [calls EXCEPT ![s] = [stage |-> "creating", node |-> n, root |-> r,
                                          workspace |-> None]]
        /\ UNCHANGED <<tables, untouched, exporting, background, outdated, ids>>
    BY <1>1 DEF CreateSession
  <2> QED
    BY <2>1, CreateStep DEF tables
<1>2. ASSUME NEW s \in Sessions, NEW w \in workspaces, NEW r \in Roots, CreateInWorkspace(s, w, r)
      PROVE  CatalogInv' /\ rows' = rows
  <2>1. /\ Unused(s) /\ Begin /\ NodeCreates(s, w.node, r)
        /\ calls' = [calls EXCEPT ![s] = [stage |-> "creating", node |-> w.node, root |-> r,
                                          workspace |-> w]]
        /\ UNCHANGED <<tables, untouched, exporting, background, outdated, ids>>
    BY <1>2 DEF CreateInWorkspace
  <2>2. w.node \in Nodes
    BY DEF CatalogInv, TypeOK
  <2> QED
    BY <2>1, <2>2, CreateStep DEF tables
<1> QED
  BY <1>1, <1>2

\* The answer binds the session to a workspace, which was chosen before or is at its root.
LEMMA AnswerStep ==
  ASSUME CatalogInv, NEW s \in Sessions, calls[s] # None, NEW w \in workspaces', w \in Workspace,
         UpsertCreated(s, w), workspaces \subseteq workspaces',
         Unique(workspaces'), Numbered(workspaces', ids'), ids <= ids', ids' \in Ids,
         projects' \subseteq Ids, \A v \in workspaces' : v \in Workspace /\ v.project \in projects',
         UNCHANGED <<enrolled, logs, spooled, owners, untouched, exporting, background, outdated,
                     operations>>
  PROVE  CatalogInv'
<1>1. TypeOK /\ Sane(s) /\ calls[s] \in CallType /\ calls[s].root \in Roots
  BY DEF CatalogInv, TypeOK, CallType
<1>2. PICK row : row = RowFor(w, calls[s].root, "idle")
  OBVIOUS
<1>3. row \in RowType /\ row # None /\ row.status = "idle" /\ row.root = calls[s].root /\ Names(row, w)
  BY <1>1, <1>2, RowForFacts, NoneFacts
<1>4. rows' = [rows EXCEPT ![s] = row] /\ calls' = [calls EXCEPT ![s] = None]
  BY <1>2 DEF UpsertCreated
<1>5. UNCHANGED <<enrolled, logs, spooled, owners, untouched, exporting, archives, preserved,
                  outdated, operations>>
  BY DEF background
<1>6. workspaces' \subseteq [id : Ids, project : projects', node : Nodes, root : Roots]
  BY DEF Workspace
<1>7. TypeOK'
  BY <1>1, <1>3, <1>4, <1>5, <1>6 DEF TypeOK
<1>8. OnlySession(s)
  BY <1>1, <1>4, <1>5 DEF OnlySession, TypeOK
<1>9. rows'[s] = row /\ calls'[s] = None
  BY <1>1, <1>4 DEF TypeOK
<1>10. /\ rows[s] = None /\ HeaderOf(logs[s], spooled[s]) # None
       /\ HeaderOf(logs[s], spooled[s]).root = row.root
       /\ LogAgrees(s, rows[s], logs[s], spooled[s], s \in untouched, s \in outdated)
  BY <1>1, <1>3 DEF Sane, Fits, CallAgrees
<1>11. Sane(s)'
  <2>1. RowAgrees(rows'[s], logs'[s], spooled'[s], s \in untouched', workspaces')
    BY <1>3, <1>5, <1>9, <1>10, NoneFacts DEF RowAgrees, Bound
  <2>2. CallAgrees(s, rows'[s], logs'[s], spooled'[s], calls'[s], workspaces')
    BY <1>9 DEF CallAgrees
  <2>3. LogAgrees(s, rows'[s], logs'[s], spooled'[s], s \in untouched', s \in outdated')
    BY <1>3, <1>5, <1>9, <1>10 DEF LogAgrees
  <2> QED
    BY <2>1, <2>2, <2>3 DEF Sane, Fits
<1>12. Grows(s)
  BY <1>3, <1>5, <1>9, <1>10 DEF Grows
<1> QED
  BY <1>7, <1>8, <1>11, <1>12, SessionStep

\* A workspace made with the next id, where none is.
LEMMA WorkspaceMade ==
  ASSUME TypeOK, Unique(workspaces), Numbered(workspaces, ids), ids < MaxIds,
         NEW p \in Ids, NEW n \in Nodes, NEW r \in Roots, AtRoot(workspaces, n, r) = {},
         NEW w, w = [id |-> ids + 1, project |-> p, node |-> n, root |-> r]
  PROVE  /\ w \in Workspace /\ ids + 1 \in Ids
         /\ Unique(workspaces \cup {w}) /\ Numbered(workspaces \cup {w}, ids + 1)
<1>1. ids \in Nat /\ ids + 1 \in Ids
  BY CatalogAssumption DEF TypeOK, Ids
<1>2. w \in Workspace /\ w.id = ids + 1 /\ w.node = n /\ w.root = r
  BY <1>1 DEF Workspace
<1>3. \A v \in workspaces : v.id \in Nat
  BY DEF TypeOK, Ids
<1>4. \A v \in workspaces : v.id # w.id /\ ~(v.node = w.node /\ v.root = w.root)
  BY <1>1, <1>2, <1>3 DEF Numbered, AtRoot
<1>5. Unique(workspaces \cup {w})
  BY <1>4 DEF Unique
<1>6. Numbered(workspaces \cup {w}, ids + 1)
  BY <1>1, <1>2, <1>3 DEF Numbered
<1> QED
  BY <1>1, <1>2, <1>5, <1>6

LEMMA CreatedStep ==
  ASSUME CatalogInv, NEW s \in Sessions, Created(s)
  PROVE  CatalogInv' /\ \A x \in Sessions : rows[x] # None => rows'[x] = rows[x]
<1>1. /\ TypeOK /\ Sane(s) /\ calls[s] # None /\ calls[s].stage = "creating" /\ calls[s] \in CallType
      /\ Unique(workspaces) /\ Numbered(workspaces, ids)
      /\ \A v \in workspaces : v \in Workspace /\ v.project \in projects
  BY DEF CatalogInv, TypeOK, Created, Workspace
<1>2. UNCHANGED <<enrolled, projects, workspaces, logs, spooled, owners, untouched, exporting,
                  background, outdated, bounds>>
  BY DEF Created
<1>3. rows[s] = None
  BY <1>1 DEF Sane, Fits, CallAgrees
<1>4. PICK found : found = IF calls[s].workspace # None THEN {calls[s].workspace}
                           ELSE AtRoot(workspaces, calls[s].node, calls[s].root)
  OBVIOUS
<1>5. \A w \in found : w \in workspaces
  BY <1>1, <1>4 DEF Sane, Fits, CallAgrees, AtRoot
<1>6. CASE found # {}
  <2>1. PICK w : w = The(found)
    OBVIOUS
  <2>2. w \in found
    BY <1>6, <2>1 DEF The
  <2>3. UpsertCreated(s, w)
    BY <1>4, <1>6, <2>1 DEF Created
  <2>4. ids' = ids /\ operations' = operations /\ ids \in Ids /\ ids <= ids' /\ projects \subseteq Ids
    BY <1>1, <1>2 DEF bounds, TypeOK, Ids
  <2>5. CatalogInv'
    BY <1>1, <1>2, <1>5, <2>2, <2>3, <2>4, AnswerStep
  <2>6. \A x \in Sessions : rows[x] # None => rows'[x] = rows[x]
    BY <1>1, <1>3, <2>3 DEF UpsertCreated, TypeOK
  <2> QED
    BY <2>5, <2>6
<1>7. CASE found = {}
  <2>1. calls' = [calls EXCEPT ![s].stage = "observing"] /\ rows' = rows
    BY <1>4, <1>7 DEF Created
  <2>2. PICK c : c = [calls[s] EXCEPT !.stage = "observing"]
    OBVIOUS
  <2>3. c \in CallType /\ c.root = calls[s].root /\ c.workspace = calls[s].workspace
    BY <1>1, <2>2 DEF CallType
  <2>4. calls' = [calls EXCEPT ![s] = c] /\ calls'[s] = c
    BY <1>1, <2>1, <2>2 DEF TypeOK
  <2>5. UNCHANGED <<enrolled, projects, workspaces, logs, spooled, owners, untouched, exporting,
                    archives, preserved, outdated, ids, operations, rows>>
    BY <1>2, <2>1 DEF background, bounds
  <2>6. TypeOK'
    BY <1>1, <2>3, <2>4, <2>5 DEF TypeOK
  <2>7. OnlySession(s)
    BY <1>1, <2>4, <2>5 DEF OnlySession, TypeOK
  <2>8. CallAgrees(s, rows'[s], logs'[s], spooled'[s], calls'[s], workspaces')
    BY <1>1, <2>3, <2>4, <2>5 DEF Sane, Fits, CallAgrees
  <2>9. Sane(s)'
    BY <1>1, <2>5, <2>8 DEF Sane, Fits
  <2>10. Grows(s)
    BY <2>5 DEF Grows, HeaderOf, Sane, Fits, LogAgrees
  <2> QED
    BY <2>5, <2>6, <2>7, <2>9, <2>10, SessionOnly
<1> QED
  BY <1>6, <1>7

LEMMA ObservedStep ==
  ASSUME CatalogInv, NEW s \in Sessions, Observed(s)
  PROVE  CatalogInv' /\ \A x \in Sessions : rows[x] # None => rows'[x] = rows[x]
<1> DEFINE n == calls[s].node
           r == calls[s].root
<1>1. /\ TypeOK /\ Sane(s) /\ calls[s] # None /\ calls[s] \in CallType
      /\ Unique(workspaces) /\ Numbered(workspaces, ids) /\ projects \subseteq Ids /\ ids \in Ids
      /\ \A v \in workspaces : v \in Workspace /\ v.project \in projects
  BY DEF CatalogInv, TypeOK, Observed, Workspace
<1>2. UNCHANGED <<enrolled, logs, spooled, owners, untouched, exporting, background, outdated,
                  operations>>
  BY DEF Observed
<1>3. rows[s] = None /\ n \in Nodes /\ r \in Roots
  BY <1>1 DEF Sane, Fits, CallAgrees, CallType
<1>4. ASSUME NEW w, UpsertCreated(s, w)
      PROVE  \A x \in Sessions : rows[x] # None => rows'[x] = rows[x]
  BY <1>1, <1>3, <1>4 DEF UpsertCreated, TypeOK
<1>5. CASE AtRoot(workspaces, n, r) # {}
  <2>1. PICK w : w = The(AtRoot(workspaces, n, r))
    OBVIOUS
  <2>2. w \in AtRoot(workspaces, n, r)
    BY <1>5, <2>1 DEF The
  <2>3. UpsertCreated(s, w) /\ UNCHANGED <<projects, workspaces, ids>>
    BY <1>5, <2>1 DEF Observed, Raced
  <2>4. w \in workspaces /\ w.root = r /\ ids <= ids'
    BY <1>1, <2>2, <2>3 DEF AtRoot, Ids
  <2>5. CatalogInv'
    BY <1>1, <1>2, <2>3, <2>4, AnswerStep
  <2> QED
    BY <1>4, <2>3, <2>5
<1>6. CASE AtRoot(workspaces, n, r) = {}
  <2>1. PICK w : w = [id |-> ids + 1, project |-> ids + 1, node |-> n, root |-> r]
    OBVIOUS
  <2>2. /\ ids < MaxIds /\ projects' = projects \cup {w.project}
        /\ workspaces' = workspaces \cup {w} /\ ids' = ids + 1 /\ UpsertCreated(s, w)
    BY <1>6, <2>1 DEF Observed, Raced
  <2>3. ids + 1 \in Ids
    BY <1>1, <2>2, CatalogAssumption DEF Ids
  <2>4. w \in Workspace /\ Unique(workspaces') /\ Numbered(workspaces', ids')
    BY <1>1, <1>3, <1>6, <2>1, <2>2, <2>3, WorkspaceMade
  <2>5. w.root = r /\ w.project = ids + 1 /\ ids <= ids' /\ projects' \subseteq Ids
    BY <1>1, <2>1, <2>2, <2>3 DEF Ids
  <2>6. w \in workspaces' /\ \A v \in workspaces' : v \in Workspace /\ v.project \in projects'
    BY <1>1, <2>2, <2>4
  <2>7. CatalogInv'
    BY <1>1, <1>2, <2>2, <2>3, <2>4, <2>5, <2>6, AnswerStep
  <2> QED
    BY <1>4, <2>2, <2>7
<1> QED
  BY <1>5, <1>6

LEMMA CallFailsStep ==
  ASSUME CatalogInv, NEW s \in Sessions, CallFails(s)
  PROVE  CatalogInv' /\ rows' = rows
<1>1. /\ TypeOK /\ Sane(s) /\ calls' = [calls EXCEPT ![s] = None]
      /\ UNCHANGED <<enrolled, projects, workspaces, rows, logs, spooled, owners, untouched,
                     exporting, archives, preserved, outdated, ids, operations>>
  BY DEF CatalogInv, CallFails, tables, background, bounds
<1>2. TypeOK' /\ OnlySession(s) /\ calls'[s] = None
  BY <1>1 DEF TypeOK, OnlySession
<1>3. CallAgrees(s, rows'[s], logs'[s], spooled'[s], calls'[s], workspaces')
  BY <1>2 DEF CallAgrees
<1>4. Sane(s)' /\ Grows(s)
  BY <1>1, <1>3 DEF Sane, Fits, Grows, HeaderOf, LogAgrees
<1> QED
  BY <1>1, <1>2, <1>4, SessionOnly

LEMMA RecordsArriveStep ==
  ASSUME CatalogInv, NEW s \in Sessions, RecordsArrive(s)
  PROVE  CatalogInv' /\ rows' = rows
<1>1. /\ TypeOK /\ Sane(s) /\ spooled[s] # None
      /\ logs' = [logs EXCEPT ![s] = spooled[s]] /\ spooled' = [spooled EXCEPT ![s] = None]
      /\ owners' = [owners EXCEPT ![s] = spooled[s].node] /\ untouched' = untouched \cup {s}
      /\ UNCHANGED <<enrolled, projects, workspaces, rows, calls, exporting, archives, preserved,
                     outdated, ids, operations>>
  BY DEF CatalogInv, RecordsArrive, tables, background, bounds
<1>2. spooled[s] \in LogType /\ logs[s] = None /\ spooled[s].status = "idle" /\ s # Guest
  BY <1>1 DEF TypeOK, Sane, Fits, LogAgrees
<1>3. TypeOK'
  BY <1>1, <1>2 DEF TypeOK, LogType
<1>4. OnlySession(s) /\ logs'[s] = spooled[s] /\ spooled'[s] = None /\ s \in untouched'
  BY <1>1 DEF TypeOK, OnlySession
<1>5. HeaderOf(logs'[s], spooled'[s]) = HeaderOf(logs[s], spooled[s])
  BY <1>1, <1>2, <1>4 DEF HeaderOf
<1>6. RowAgrees(rows'[s], logs'[s], spooled'[s], s \in untouched', workspaces')
  BY <1>1, <1>2, <1>4, <1>5 DEF Sane, Fits, RowAgrees
<1>7. CallAgrees(s, rows'[s], logs'[s], spooled'[s], calls'[s], workspaces')
  BY <1>1, <1>5 DEF Sane, Fits, CallAgrees
<1>8. LogAgrees(s, rows'[s], logs'[s], spooled'[s], s \in untouched', s \in outdated')
  BY <1>1, <1>2, <1>4 DEF LogAgrees
<1>9. Sane(s)'
  BY <1>6, <1>7, <1>8 DEF Sane, Fits
<1>10. Grows(s)
  BY <1>1, <1>2, <1>4, <1>5 DEF Grows
<1> QED
  BY <1>1, <1>3, <1>4, <1>9, <1>10, SessionOnly

\* Nothing of the sessions changes.
LEMMA NoSessionStep ==
  ASSUME CatalogInv, TypeOK', UNCHANGED <<rows, logs, spooled, calls, untouched, outdated>>,
         workspaces \subseteq workspaces', Unique(workspaces'), Numbered(workspaces', ids'),
         ids <= ids', \A m \in Manifests' : m \in Manifests \/ Sound(m)'
  PROVE  CatalogInv'
<1>1. \A s \in Sessions : Sane(s)' /\ Grows(s)
  BY SaneKept DEF CatalogInv
<1> QED
  BY <1>1, Assemble

LEMMA AddWorkspaceStep ==
  ASSUME CatalogInv, NEW p \in projects, NEW n \in Nodes, NEW r \in Roots, AddWorkspace(p, n, r)
  PROVE  CatalogInv'
<1>1. PICK w : w = [id |-> ids + 1, project |-> p, node |-> n, root |-> r]
  OBVIOUS
<1>2. /\ TypeOK /\ Unique(workspaces) /\ Numbered(workspaces, ids) /\ p \in Ids
      /\ ids < MaxIds /\ Begin /\ AtRoot(workspaces, n, r) = {}
      /\ workspaces' = workspaces \cup {w} /\ ids' = ids + 1
      /\ UNCHANGED <<enrolled, projects, rows, logs, spooled, owners, calls, untouched, exporting,
                     archives, preserved, outdated>>
  BY <1>1 DEF CatalogInv, TypeOK, AddWorkspace, memory, background
<1>3. /\ w \in Workspace /\ ids + 1 \in Ids
      /\ Unique(workspaces') /\ Numbered(workspaces', ids')
  BY <1>1, <1>2, WorkspaceMade
<1>4. w.project \in projects /\ operations' \in 0 .. MaxOperations
  BY <1>1, <1>2, BeginTypes
<1>5. workspaces' \subseteq [id : Ids, project : projects', node : Nodes, root : Roots]
  BY <1>2, <1>3, <1>4 DEF TypeOK, Workspace
<1>6. TypeOK'
  BY <1>2, <1>3, <1>4, <1>5 DEF TypeOK
<1>7. Manifests' = Manifests /\ ids <= ids' /\ workspaces \subseteq workspaces'
  BY <1>2 DEF Manifests, TypeOK, Ids
<1> QED
  BY <1>2, <1>3, <1>6, <1>7, NoSessionStep

LEMMA EnrollStep ==
  ASSUME CatalogInv, NEW n \in Nodes, Enroll(n)
  PROVE  CatalogInv'
<1>1. /\ TypeOK /\ Begin /\ enrolled' = enrolled \cup {n}
      /\ UNCHANGED <<projects, workspaces, rows, logs, spooled, owners, calls, untouched, exporting,
                     archives, preserved, outdated, ids>>
  BY DEF CatalogInv, Enroll, memory, background
<1>2. TypeOK'
  BY <1>1, BeginTypes DEF TypeOK
<1>3. Manifests' = Manifests /\ ids <= ids'
  BY <1>1 DEF Manifests, TypeOK, Ids
<1> QED
  BY <1>1, <1>2, <1>3, NoSessionStep DEF CatalogInv

\* The log of a session is written, damaged or neither, and its row touched or marked.
LEMMA LogStep ==
  ASSUME CatalogInv, NEW s \in Sessions, HasLog(s),
         NEW log \in LogType, log.root = logs[s].root, logs' = [logs EXCEPT ![s] = log],
         NEW row \in RowType \cup {None}, rows' = [rows EXCEPT ![s] = row],
         rows[s] = None <=> row = None,
         row # None => /\ row.project = rows[s].project /\ row.workspace = rows[s].workspace
                       /\ row.node = rows[s].node /\ row.root = rows[s].root,
         row # None /\ ~Bound(rows[s], workspaces) =>
           row.status = "unreadable" /\ log.health = "bad" /\ s \notin untouched',
         row = None => log.status = "idle",
         row # None /\ row.status \in Statuses /\ log.status = "busy" =>
           row.status = "busy" \/ s \in untouched' \/ s \in outdated,
         \A x \in Sessions \ {s} : x \in untouched' <=> x \in untouched,
         untouched' \subseteq Sessions, operations' \in 0 .. MaxOperations,
         UNCHANGED <<enrolled, projects, workspaces, spooled, owners, calls, exporting, archives,
                     preserved, outdated, ids>>
  PROVE  CatalogInv'
<1>1. TypeOK /\ Sane(s) /\ logs[s] # None
  BY DEF CatalogInv, HasLog
<1>2. TypeOK' /\ OnlySession(s) /\ logs'[s] = log /\ rows'[s] = row
  BY <1>1 DEF TypeOK, OnlySession
<1>3. log # None
  BY NoneFacts
<1>4. spooled[s] = None
  BY <1>1 DEF Sane, Fits, LogAgrees
<1>5. RowAgrees(row, log, spooled[s], s \in untouched', workspaces)
  <2> SUFFICES ASSUME row # None PROVE RowAgrees(row, log, spooled[s], s \in untouched', workspaces)
    BY DEF RowAgrees
  <2>1. RowAgrees(rows[s], logs[s], spooled[s], s \in untouched, workspaces) /\ rows[s] # None
    BY <1>1 DEF Sane, Fits
  <2>2. Bound(rows[s], workspaces) => Bound(row, workspaces)
    BY DEF Bound, Names
  <2>3. log.root = row.root
    BY <1>1, <2>1 DEF RowAgrees, HeaderOf
  <2>4. ~Bound(rows[s], workspaces) => row.workspace = None
    BY <2>1 DEF RowAgrees
  <2> QED
    BY <1>3, <2>2, <2>3, <2>4 DEF RowAgrees, HeaderOf
<1>6. CallAgrees(s, row, log, spooled[s], calls[s], workspaces)
  BY <1>1, <1>3 DEF Sane, Fits, CallAgrees, HeaderOf
<1>7. LogAgrees(s, row, log, spooled[s], s \in untouched', s \in outdated)
  BY <1>1, <1>3, <1>4 DEF Sane, Fits, LogAgrees
<1>8. Sane(s)'
  BY <1>2, <1>5, <1>6, <1>7 DEF Sane, Fits
<1>9. Grows(s)
  BY <1>1, <1>2, <1>3 DEF Grows, HeaderOf
<1> QED
  BY <1>2, <1>8, <1>9, SessionOnly

\* What the steps below use of the session they change.
LEMMA SessionFacts ==
  ASSUME CatalogInv, NEW s \in Sessions, HasLog(s)
  PROVE  /\ TypeOK /\ logs[s] \in LogType /\ rows[s] \in RowType \cup {None}
         /\ logs = [logs EXCEPT ![s] = logs[s]] /\ rows = [rows EXCEPT ![s] = rows[s]]
         /\ rows[s] # None /\ ~Bound(rows[s], workspaces) =>
              rows[s].status = "unreadable" /\ logs[s].health = "bad" /\ s \notin untouched
         /\ rows[s] = None => logs[s].status = "idle"
         /\ rows[s] # None /\ rows[s].status \in Statuses /\ logs[s].status = "busy" =>
              rows[s].status = "busy" \/ s \in untouched \/ s \in outdated
<1>1. TypeOK /\ Sane(s) /\ logs[s] # None
  BY DEF CatalogInv, HasLog
<1>2. logs[s] \in LogType /\ rows[s] \in RowType \cup {None}
  BY <1>1 DEF TypeOK
<1>3. logs = [logs EXCEPT ![s] = logs[s]] /\ rows = [rows EXCEPT ![s] = rows[s]]
  BY <1>1 DEF TypeOK
<1> QED
  BY <1>1, <1>2, <1>3 DEF Sane, Fits, RowAgrees, LogAgrees

\* A turn begins or ends, or a sound log is damaged: the row stays.
LEMMA LogChanges ==
  ASSUME CatalogInv, NEW s \in Sessions, StartTurn(s) \/ EndTurn(s) \/ Damage(s)
  PROVE  CatalogInv' /\ rows' = rows
<1>1. HasLog(s) /\ logs[s].health = "good"
  BY DEF StartTurn, EndTurn, Damage
<1>2. /\ TypeOK /\ logs[s] \in LogType /\ rows[s] \in RowType \cup {None}
      /\ rows = [rows EXCEPT ![s] = rows[s]]
      /\ rows[s] # None /\ ~Bound(rows[s], workspaces) =>
           rows[s].status = "unreadable" /\ logs[s].health = "bad" /\ s \notin untouched
      /\ rows[s] = None => logs[s].status = "idle"
      /\ rows[s] # None /\ rows[s].status \in Statuses /\ logs[s].status = "busy" =>
           rows[s].status = "busy" \/ s \in untouched \/ s \in outdated
  BY <1>1, SessionFacts
<1>3. /\ UNCHANGED <<enrolled, projects, workspaces, rows, spooled, owners, calls, exporting,
                     archives, preserved, outdated, ids>>
      /\ operations' \in 0 .. MaxOperations
  <2>1. operations' \in 0 .. MaxOperations
    BY <1>2, BeginTypes DEF StartTurn, EndTurn, Damage, bounds, TypeOK
  <2> QED
    BY <2>1 DEF StartTurn, EndTurn, Damage, tables, memory, background, bounds
<1>4. Bound(rows[s], workspaces) \/ rows[s] = None
  BY <1>1, <1>2
<1>5. CASE StartTurn(s) \/ EndTurn(s)
  <2>1. /\ untouched' = untouched \cup {s} /\ rows[s] # None
        /\ \E status \in Statuses : logs' = [logs EXCEPT ![s].status = status]
    BY <1>5 DEF StartTurn, EndTurn, Readable, Statuses
  <2>2. PICK status \in Statuses : logs' = [logs EXCEPT ![s].status = status]
    BY <2>1
  <2>3. PICK log : log = [logs[s] EXCEPT !.status = status]
    OBVIOUS
  <2>4. log \in LogType /\ log.root = logs[s].root /\ logs' = [logs EXCEPT ![s] = log]
    BY <1>2, <2>2, <2>3 DEF LogType
  <2>5. /\ \A x \in Sessions \ {s} : x \in untouched' <=> x \in untouched
        /\ s \in untouched' /\ untouched' \subseteq Sessions
    BY <1>2, <2>1 DEF TypeOK
  <2> QED
    BY <1>1, <1>2, <1>3, <1>4, <2>1, <2>4, <2>5, LogStep
<1>6. CASE Damage(s)
  <2>1. PICK health \in {"deep", "bad"} : logs' = [logs EXCEPT ![s].health = health]
    BY <1>6 DEF Damage
  <2>2. PICK log : log = [logs[s] EXCEPT !.health = health]
    OBVIOUS
  <2>3. /\ log \in LogType /\ log.root = logs[s].root /\ log.status = logs[s].status
        /\ logs' = [logs EXCEPT ![s] = log]
    BY <1>2, <2>1, <2>2 DEF LogType
  <2>4. untouched' = untouched /\ untouched' \subseteq Sessions
    BY <1>2, <1>6 DEF Damage, memory, TypeOK
  <2>5. \A x \in Sessions \ {s} : x \in untouched' <=> x \in untouched
    BY <2>4
  <2>6. rows[s] # None /\ rows[s].status \in Statuses /\ log.status = "busy" =>
          rows[s].status = "busy" \/ s \in untouched' \/ s \in outdated
    BY <1>2, <2>3, <2>4
  <2>7. rows[s] = None => log.status = "idle"
    BY <1>2, <2>3
  <2>8. rows' = [rows EXCEPT ![s] = rows[s]]
    BY <1>2, <1>3
  <2>9. CatalogInv'
    BY <1>1, <1>2, <1>3, <1>4, <2>3, <2>4, <2>5, <2>6, <2>7, <2>8, LogStep
  <2> QED
    BY <1>3, <2>9
<1> QED
  BY <1>3, <1>5, <1>6

\* The row takes the status of the log, or is marked unreadable.
LEMMA RowChanges ==
  ASSUME CatalogInv, NEW s \in Sessions,
         Touch(s) \/ AppendFails(s) \/ LoadFails(s) \/ Misrouted(s)
  PROVE  /\ CatalogInv' /\ UNCHANGED logs
         /\ \A x \in Sessions : rows[x] # None =>
              rows'[x].workspace = rows[x].workspace /\ rows'[x].node = rows[x].node
<1>1. HasLog(s)
  BY DEF Touch, AppendFails, LoadFails, Misrouted, HasLog, CatalogInv, Sane, Fits, LogAgrees
<1>2. /\ TypeOK /\ logs[s] \in LogType /\ rows[s] \in RowType \cup {None}
      /\ logs = [logs EXCEPT ![s] = logs[s]] /\ rows = [rows EXCEPT ![s] = rows[s]]
      /\ rows[s] # None /\ ~Bound(rows[s], workspaces) =>
           rows[s].status = "unreadable" /\ logs[s].health = "bad" /\ s \notin untouched
      /\ rows[s] = None => logs[s].status = "idle"
  BY <1>1, SessionFacts
<1>3. /\ UNCHANGED <<enrolled, projects, workspaces, logs, spooled, owners, calls, exporting,
                     archives, preserved, outdated, ids>>
      /\ operations' \in 0 .. MaxOperations
      /\ untouched' \subseteq untouched /\ \A x \in Sessions \ {s} : x \in untouched' <=> x \in untouched
  <2>1. operations' \in 0 .. MaxOperations
    BY <1>2, BeginTypes DEF Touch, AppendFails, LoadFails, Misrouted, bounds, TypeOK
  <2> QED
    BY <2>1 DEF Touch, AppendFails, LoadFails, Misrouted, MarkUnreadable, memory, background, bounds
<1>4. ASSUME NEW status \in Statuses \cup {"unreadable"}, rows[s] # None,
             rows' = [rows EXCEPT ![s].status = status],
             ~Bound(rows[s], workspaces) => status = "unreadable",
             status \in Statuses => status = logs[s].status
      PROVE  /\ CatalogInv'
             /\ \A x \in Sessions : rows[x] # None =>
                  rows'[x].workspace = rows[x].workspace /\ rows'[x].node = rows[x].node
  <2>1. PICK row : row = [rows[s] EXCEPT !.status = status]
    OBVIOUS
  <2>2. /\ row \in RowType /\ row.project = rows[s].project /\ row.workspace = rows[s].workspace
        /\ row.node = rows[s].node /\ row.root = rows[s].root /\ row.status = status
    BY <1>2, <1>4, <2>1 DEF RowType
  <2>3. rows' = [rows EXCEPT ![s] = row] /\ row # None
    BY <1>2, <1>4, <2>1, <2>2, NoneFacts DEF TypeOK
  <2>4. logs' = [logs EXCEPT ![s] = logs[s]] /\ untouched' \subseteq Sessions
    BY <1>2, <1>3 DEF TypeOK
  <2>5. row # None /\ ~Bound(rows[s], workspaces) =>
          row.status = "unreadable" /\ logs[s].health = "bad" /\ s \notin untouched'
    BY <1>2, <1>3, <1>4, <2>2
  <2>6. row # None /\ row.status \in Statuses /\ logs[s].status = "busy" =>
          row.status = "busy" \/ s \in untouched' \/ s \in outdated
    BY <1>4, <2>2
  <2>7. row \in RowType \cup {None} /\ rows[s] # None /\ row # None /\ logs[s] \in LogType
    BY <1>2, <1>4, <2>2, <2>3
  <2>8. rows' = [rows EXCEPT ![s] = row]
    BY <2>3
  <2>9. /\ row.project = rows[s].project /\ row.workspace = rows[s].workspace
        /\ row.node = rows[s].node /\ row.root = rows[s].root
    BY <2>2
  <2>10. CatalogInv'
    BY <1>1, <1>3, <2>4, <2>5, <2>6, <2>7, <2>8, <2>9, LogStep
  <2> QED
    BY <1>2, <2>2, <2>3, <2>10 DEF TypeOK
<1>5. CASE AppendFails(s) \/ LoadFails(s) \/ Misrouted(s)
  <2>1. rows[s] # None /\ rows' = [rows EXCEPT ![s].status = "unreadable"]
    BY <1>5 DEF AppendFails, LoadFails, Misrouted, MarkUnreadable, Readable
  <2> QED
    BY <1>3, <1>4, <2>1, NoneFacts
<1>6. CASE Touch(s)
  <2>1. s \in untouched
    BY <1>6 DEF Touch
  <2>2. CASE rows[s] # None
    <3>1. rows' = [rows EXCEPT ![s].status = logs[s].status] /\ logs[s].status \in Statuses
      BY <1>2, <1>6, <2>2 DEF Touch, LogType
    <3>2. Bound(rows[s], workspaces)
      BY <1>2, <2>1, <2>2
    <3> QED
      BY <1>3, <1>4, <2>2, <3>1, <3>2
  <2>3. CASE rows[s] = None
    <3>1. rows' = rows
      BY <1>6, <2>3 DEF Touch
    <3>2. untouched' \subseteq Sessions /\ rows' = [rows EXCEPT ![s] = None]
      BY <1>2, <1>3, <2>3, <3>1 DEF TypeOK
    <3>3. logs' = [logs EXCEPT ![s] = logs[s]]
      BY <1>2, <1>3
    <3>4. CatalogInv'
      BY <1>1, <1>2, <1>3, <2>3, <3>2, <3>3, LogStep
    <3> QED
      BY <1>3, <3>1, <3>4
  <2> QED
    BY <2>2, <2>3
<1> QED
  BY <1>5, <1>6

-----------------------------------------------------------------------------
(* Export. *)

LEMMA ExportRowsStep ==
  ASSUME CatalogInv, NEW p \in projects, ExportRows(p)
  PROVE  CatalogInv'
<1> DEFINE item(s) == [id |-> s, root |-> rows[s].root, workspace |-> rows[s].workspace,
                       node |-> rows[s].node, status |-> rows[s].status, log |-> logs[s]]
           listed == {x \in Sessions : rows[x] # None /\ rows[x].project = p}
<1>1. /\ TypeOK /\ Begin /\ Unique(workspaces) /\ Numbered(workspaces, ids)
      /\ \A s \in Sessions : Sane(s)
      /\ UNCHANGED <<enrolled, projects, workspaces, rows, logs, spooled, owners, calls, untouched,
                     archives, preserved, outdated, ids>>
  BY DEF CatalogInv, ExportRows, tables, background
<1>2. PICK m : m = [project |-> p, workspaces |-> {w \in workspaces : w.project = p},
                    items |-> {item(s) : s \in listed}]
  OBVIOUS
<1>3. exporting' = m
  BY <1>2 DEF ExportRows
<1>4. /\ m.project = p /\ m.workspaces = {w \in workspaces : w.project = p}
      /\ m.items = {item(s) : s \in listed}
      /\ m = [project |-> m.project, workspaces |-> m.workspaces, items |-> m.items]
  BY <1>2
<1>5. ASSUME NEW s \in listed
      PROVE  item(s) \in Item /\ SoundItem(item(s), m, rows[s], logs[s], spooled[s])
  <2>1. /\ s \in Sessions /\ rows[s] # None /\ rows[s].project = p /\ rows[s] \in RowType
        /\ logs[s] \in LogType \cup {None}
        /\ RowAgrees(rows[s], logs[s], spooled[s], s \in untouched, workspaces)
    BY <1>1 DEF TypeOK, Sane, Fits
  <2>2. item(s) \in Item
    BY <2>1 DEF RowType, Item
  <2>3. PICK i : i = item(s)
    OBVIOUS
  <2>4. /\ i.id = s /\ i.root = rows[s].root /\ i.workspace = rows[s].workspace
        /\ i.status = rows[s].status /\ i.log = logs[s]
    BY <2>3
  <2>5. HeaderOf(logs[s], spooled[s]) # None /\ HeaderOf(logs[s], spooled[s]).root = i.root
    BY <2>1, <2>4 DEF RowAgrees
  <2>6. i.log # None => i.log.root = i.root /\ logs[s] # None
    BY <2>4, <2>5 DEF HeaderOf
  <2>7. \/ logs[s] # None
        \/ i.status \in Statuses /\ \E w \in m.workspaces : w.id = i.workspace
    BY <1>4, <2>1, <2>4 DEF RowAgrees, Bound, Names
  <2>8. SoundItem(i, m, rows[s], logs[s], spooled[s])
    BY <2>1, <2>5, <2>6, <2>7 DEF SoundItem
  <2> QED
    BY <2>2, <2>3, <2>8
<1>6. \A i \in m.items : i \in Item /\ SoundItem(i, m, rows[i.id], logs[i.id], spooled[i.id])
  BY <1>4, <1>5
<1>7. m \in Manifest
  <2>1. m.workspaces \in SUBSET Workspace /\ m.items \in SUBSET Item /\ m.project \in Ids
    BY <1>1, <1>4, <1>6 DEF TypeOK, Workspace
  <2> QED
    BY <1>4, <2>1 DEF Manifest
<1>8. Sound(m)
  <2>1. \A v, w \in m.workspaces : v.id = w.id => v = w
    BY <1>1, <1>4 DEF Unique
  <2>2. \A w \in m.workspaces : w.project = m.project /\ w.id <= ids
    BY <1>1, <1>4 DEF Numbered
  <2> QED
    BY <1>6, <2>1, <2>2 DEF Sound
<1>9. Sound(m)'
  BY <1>1, <1>8 DEF Sound
<1>10. TypeOK'
  BY <1>1, <1>3, <1>7, BeginTypes DEF TypeOK
<1>11. \A x \in Manifests' : x \in Manifests \/ Sound(x)'
  <2> TAKE x \in Manifests'
  <2>1. CASE x = m
    BY <1>9, <2>1
  <2>2. CASE x # m
    BY <1>1, <1>3, <2>2 DEF Manifests
  <2> QED
    BY <2>1, <2>2
<1>12. ids <= ids'
  BY <1>1 DEF TypeOK, Ids
<1> QED
  BY <1>1, <1>10, <1>11, <1>12, NoSessionStep

LEMMA CopyLogsStep ==
  ASSUME CatalogInv, CopyLogs
  PROVE  CatalogInv'
<1> DEFINE copy(i) == [i EXCEPT !.log = IF i.log = None THEN None ELSE logs[i.id]]
<1>1. /\ TypeOK /\ Unique(workspaces) /\ Numbered(workspaces, ids)
      /\ exporting # None /\ exporting \in Manifest /\ Sound(exporting) /\ exporting' = None
      /\ UNCHANGED <<enrolled, projects, workspaces, rows, logs, spooled, owners, calls, untouched,
                     preserved, outdated, ids, operations>>
  BY DEF CatalogInv, TypeOK, Manifests, CopyLogs, tables, bounds
<1>2. PICK m : m = [exporting EXCEPT !.items = {copy(i) : i \in exporting.items}]
  OBVIOUS
<1>3. archives' = archives \cup {m}
  BY <1>2 DEF CopyLogs
<1>4. /\ m.project = exporting.project /\ m.workspaces = exporting.workspaces
      /\ m.items = {copy(i) : i \in exporting.items}
      /\ m = [project |-> m.project, workspaces |-> m.workspaces, items |-> m.items]
      /\ exporting.items \subseteq Item
  BY <1>1, <1>2 DEF Manifest
<1>5. ASSUME NEW i \in exporting.items
      PROVE  copy(i) \in Item /\ SoundItem(copy(i), m, rows[i.id], logs[i.id], spooled[i.id])
             /\ copy(i).id = i.id
  <2>1. i \in Item /\ i.id \in Sessions /\ logs[i.id] \in LogType \cup {None}
    BY <1>1, <1>4 DEF Item, TypeOK
  <2>2. SoundItem(i, exporting, rows[i.id], logs[i.id], spooled[i.id])
    BY <1>1 DEF Sound
  <2>3. PICK log : log = IF i.log = None THEN None ELSE logs[i.id]
    OBVIOUS
  <2>4. PICK j : j = copy(i)
    OBVIOUS
  <2>5. /\ j \in Item /\ j.id = i.id /\ j.root = i.root /\ j.workspace = i.workspace
        /\ j.status = i.status /\ j.log = log
    BY <2>1, <2>3, <2>4 DEF Item
  <2>6. j.log # None => logs[i.id] # None /\ j.log = logs[i.id]
    BY <2>3, <2>5
  <2>7. j.log # None => j.log.root = j.root /\ logs[i.id] # None
    BY <2>2, <2>5, <2>6 DEF SoundItem, HeaderOf
  <2>8. SoundItem(j, m, rows[i.id], logs[i.id], spooled[i.id])
    BY <1>4, <2>2, <2>5, <2>7 DEF SoundItem
  <2> QED
    BY <2>4, <2>5, <2>8
<1>6. \A i \in m.items : i \in Item /\ SoundItem(i, m, rows[i.id], logs[i.id], spooled[i.id])
  <2> TAKE j \in m.items
  <2>1. PICK i \in exporting.items : j = copy(i)
    BY <1>4
  <2> QED
    BY <1>5, <2>1
<1>7. m \in Manifest
  <2>1. m.workspaces \in SUBSET Workspace /\ m.items \in SUBSET Item /\ m.project \in Ids
    BY <1>1, <1>4, <1>6 DEF Manifest
  <2> QED
    BY <1>4, <2>1 DEF Manifest
<1>8. Sound(m)
  BY <1>1, <1>4, <1>6 DEF Sound
<1>9. Sound(m)'
  BY <1>1, <1>8 DEF Sound
<1>10. TypeOK'
  BY <1>1, <1>3, <1>7 DEF TypeOK
<1>11. \A x \in Manifests' : x \in Manifests \/ Sound(x)'
  <2> TAKE x \in Manifests'
  <2>1. CASE x = m
    BY <1>9, <2>1
  <2>2. CASE x # m
    BY <1>1, <1>3, <2>2 DEF Manifests
  <2> QED
    BY <2>1, <2>2
<1>12. ids <= ids'
  BY <1>1 DEF TypeOK, Ids
<1> QED
  BY <1>1, <1>10, <1>11, <1>12, NoSessionStep

\* A failed import leaves nothing behind.
LEMMA ImportFailsStep ==
  ASSUME CatalogInv, NEW a \in archives, NEW e, ImportFails(a, e)
  PROVE  CatalogInv' /\ logs' = logs /\ rows' = rows
<1>1. /\ TypeOK /\ Begin /\ Unique(workspaces) /\ Numbered(workspaces, ids)
      /\ UNCHANGED <<enrolled, projects, workspaces, rows, logs, spooled, owners, calls, untouched,
                     exporting, archives, preserved, outdated, ids>>
  BY DEF CatalogInv, ImportFails, RolledBack, tables, memory, background
<1>2. TypeOK'
  BY <1>1, BeginTypes DEF TypeOK
<1>3. Manifests' = Manifests /\ ids <= ids'
  BY <1>1 DEF Manifests, TypeOK, Ids
<1> QED
  BY <1>1, <1>2, <1>3, NoSessionStep

-----------------------------------------------------------------------------
(* The first state, and every step. *)

LEMMA Initially == Init => CatalogInv
<1> SUFFICES ASSUME Init PROVE CatalogInv
  OBVIOUS
<1>1. PICK n \in Nat : n = Cardinality(Roots)
  BY CatalogAssumption, FS_CardinalityType
<1>2. n >= 1 /\ n <= MaxIds /\ MaxIds \in Nat
  <2>1. n # 0
    BY <1>1, CatalogAssumption, FS_EmptySet
  <2> QED
    BY <1>1, <2>1, CatalogAssumption
<1>3. PICK order : order = SetToSeq(Roots)
  OBVIOUS
<1>4. /\ order \in [1 .. n -> Roots]
      /\ \A i, j \in 1 .. n : order[i] = order[j] => i = j
  BY <1>1, <1>3, SetToSeqFacts, CatalogAssumption
<1>5. ids = n /\ n \in Ids
  BY <1>1, <1>2 DEF Init, Ids
<1>6. PICK listed \in Statuses, copied \in Statuses : archives = {ForeignArchive(listed, copied)}
  BY DEF Init
<1>7. PICK m : m = ForeignArchive(listed, copied)
  OBVIOUS
<1>8. PICK ws : ws = {[id |-> i, project |-> 1, node |-> Origin, root |-> order[i]] : i \in 1 .. n}
  OBVIOUS
<1>9. PICK log : log = [Header(Origin, GuestRoot) EXCEPT !.status = copied]
  OBVIOUS
<1>10. PICK item : item = [id |-> Guest, root |-> GuestRoot, workspace |-> 1, node |-> Origin,
                           status |-> listed, log |-> log]
  OBVIOUS
<1>11. m = [project |-> 1, workspaces |-> ws, items |-> {item}]
  BY <1>1, <1>3, <1>7, <1>8, <1>9, <1>10 DEF ForeignArchive, ForeignWorkspaces, GuestRoot
<1>12. GuestRoot = order[1] /\ GuestRoot \in Roots /\ 1 \in Ids /\ 1 \in 1 .. n
  BY <1>2, <1>3, <1>4 DEF GuestRoot, Ids
<1>13. log \in LogType /\ log.root = GuestRoot
  BY <1>9, <1>12, CatalogAssumption DEF Header, LogType, Statuses
<1>14. item \in Item
  BY <1>10, <1>12, <1>13, CatalogAssumption DEF Item
<1>15. \A w \in ws : w \in Workspace /\ w.project = 1 /\ w.id <= n
  BY <1>2, <1>4, <1>8, <1>12, CatalogAssumption DEF Workspace, Ids
<1>16. m \in Manifest
  BY <1>11, <1>12, <1>14, <1>15 DEF Manifest
<1>17. TypeOK
  BY <1>5, <1>6, <1>7, <1>16, CatalogAssumption DEF Init, TypeOK
<1>18. Sound(m)
  <2>1. \A v, w \in ws : v.id = w.id => v = w
    BY <1>8
  <2>2. \E w \in ws : w.id = 1 /\ w.root = GuestRoot
    <3>1. PICK w : w = [id |-> 1, project |-> 1, node |-> Origin, root |-> order[1]]
      OBVIOUS
    <3>2. w \in ws
      BY <1>8, <1>12, <3>1
    <3> QED
      BY <1>12, <3>1, <3>2
  <2>3. rows[Guest] = None /\ logs[Guest] = None /\ spooled[Guest] = None
    BY CatalogAssumption DEF Init
  <2>4. SoundItem(item, m, None, None, None)
    BY <1>10, <1>11, <1>13, <2>2 DEF SoundItem, HeaderOf
  <2>5. item.id = Guest /\ m.workspaces = ws /\ m.items = {item} /\ m.project = 1
    BY <1>10, <1>11
  <2>6. \A i \in m.items : SoundItem(i, m, rows[i.id], logs[i.id], spooled[i.id])
    BY <2>3, <2>4, <2>5
  <2>7. \A w \in m.workspaces : w.project = m.project /\ w.id <= ids
    BY <1>5, <1>15, <2>5
  <2> QED
    BY <2>1, <2>5, <2>6, <2>7 DEF Sound
<1>19. \A x \in Manifests : Sound(x)
  BY <1>6, <1>7, <1>18 DEF Init, Manifests
<1>20. \A s \in Sessions : Sane(s)
  BY DEF Init, Sane, Fits, RowAgrees, CallAgrees, LogAgrees
<1> QED
  BY <1>17, <1>19, <1>20 DEF Init, CatalogInv, Unique, Numbered

\* The assignment of a session that a step does not lose, and the logs that it makes.
Assigned(s) ==
  rows[s] # None /\ rows'[s] # None /\ rows[s].workspace # None =>
    \/ /\ rows'[s].node = rows[s].node
       /\ rows'[s].workspace = rows[s].workspace \/ Displaced(Tables, logs', s)
    \/ preserved' # preserved
Listed(s) == logs[s] = None /\ logs'[s] # None => rows'[s] # None \/ spooled[s] # None \/ calls'[s] # None

\* The header of a session that is created comes with its call.
LEMMA CreationListed ==
  ASSUME CatalogInv,
         \/ \E s \in Sessions, n \in Nodes, r \in Roots : CreateSession(s, n, r)
         \/ \E s \in Sessions, w \in workspaces, r \in Roots : CreateInWorkspace(s, w, r)
  PROVE  \A x \in Sessions : Listed(x)
<1>1. TypeOK
  BY DEF CatalogInv
<1>2. ASSUME NEW s \in Sessions, NEW n \in Nodes, NEW r \in Roots, NEW w \in Workspace \cup {None},
             NodeCreates(s, n, r),
             calls' = [calls EXCEPT ![s] = [stage |-> "creating", node |-> n, root |-> r,
                                            workspace |-> w]]
      PROVE  \A x \in Sessions : Listed(x)
  <2>1. PICK c : c = [stage |-> "creating", node |-> n, root |-> r, workspace |-> w]
    OBVIOUS
  <2>2. c \in CallType
    BY <2>1 DEF CallType
  <2>3. calls'[s] # None
    BY <1>1, <1>2, <2>1, <2>2, NoneFacts DEF TypeOK
  <2>4. \A x \in Sessions \ {s} : logs'[x] = logs[x]
    BY <1>1, <1>2 DEF TypeOK, NodeCreates
  <2> QED
    BY <2>3, <2>4 DEF Listed
<1>3. ASSUME NEW s \in Sessions, NEW n \in Nodes, NEW r \in Roots, CreateSession(s, n, r)
      PROVE  \A x \in Sessions : Listed(x)
  BY <1>2, <1>3 DEF CreateSession
<1>4. ASSUME NEW s \in Sessions, NEW w \in workspaces, NEW r \in Roots, CreateInWorkspace(s, w, r)
      PROVE  \A x \in Sessions : Listed(x)
  <2>1. w \in Workspace /\ w.node \in Nodes
    BY <1>1 DEF TypeOK, Workspace
  <2> QED
    BY <1>2, <1>4, <2>1 DEF CreateInWorkspace
<1> QED
  BY <1>3, <1>4

LEMMA NextStep ==
  ASSUME CatalogInv, Next
  PROVE  CatalogInv' /\ \A s \in Sessions : Assigned(s) /\ Listed(s)
<1> DEFINE Goal == CatalogInv' /\ \A s \in Sessions : Assigned(s) /\ Listed(s)
<1>1. TypeOK
  BY DEF CatalogInv
\* Two cases that most steps are of: rows once made stay, or logs do.
<1>2. ASSUME \A s \in Sessions : rows[s] # None => rows'[s] = rows[s]
      PROVE  \A s \in Sessions : Assigned(s)
  BY <1>2, Zenon DEF Assigned
<1>3. ASSUME logs' = logs PROVE \A s \in Sessions : Listed(s)
  BY <1>3, Zenon DEF Listed
<1>4. ASSUME NEW n \in Nodes, Enroll(n) PROVE Goal
  <2>1. logs' = logs /\ rows' = rows
    BY <1>4 DEF Enroll
  <2> QED
    BY <1>2, <1>3, <1>4, <2>1, EnrollStep
<1>5. CASE \/ \E s \in Sessions, n \in Nodes, r \in Roots : CreateSession(s, n, r)
           \/ \E s \in Sessions, w \in workspaces, r \in Roots : CreateInWorkspace(s, w, r)
  <2>1. CatalogInv' /\ rows' = rows
    BY <1>5, CreationSteps
  <2>2. \A s \in Sessions : Listed(s)
    BY <1>5, CreationListed
  <2> QED
    BY <1>2, <2>1, <2>2
<1>6. ASSUME NEW s \in Sessions, Created(s) \/ Observed(s) PROVE Goal
  <2>1. logs' = logs
    BY <1>6 DEF Created, Observed
  <2>2. CatalogInv' /\ \A x \in Sessions : rows[x] # None => rows'[x] = rows[x]
    BY <1>6, CreatedStep, ObservedStep
  <2> QED
    BY <1>2, <1>3, <2>1, <2>2
<1>7. ASSUME NEW s \in Sessions, CallFails(s) PROVE Goal
  <2>1. logs' = logs
    BY <1>7 DEF CallFails
  <2> QED
    BY <1>2, <1>3, <1>7, <2>1, CallFailsStep
<1>8. ASSUME NEW s \in Sessions, RecordsArrive(s) PROVE Goal
  <2>1. \A x \in Sessions : Listed(x)
    BY <1>1, <1>8 DEF RecordsArrive, TypeOK, Listed
  <2> QED
    BY <1>2, <1>8, <2>1, RecordsArriveStep
<1>9. ASSUME NEW p \in projects, NEW n \in Nodes, NEW r \in Roots, AddWorkspace(p, n, r) PROVE Goal
  <2>1. logs' = logs /\ rows' = rows
    BY <1>9 DEF AddWorkspace
  <2> QED
    BY <1>2, <1>3, <1>9, <2>1, AddWorkspaceStep
<1>10. ASSUME NEW s \in Sessions, StartTurn(s) \/ EndTurn(s) \/ Damage(s) PROVE Goal
  <2>1. CatalogInv' /\ rows' = rows
    BY <1>10, LogChanges
  <2>2. HasLog(s) /\ \A x \in Sessions \ {s} : logs'[x] = logs[x]
    BY <1>1, <1>10 DEF StartTurn, EndTurn, Damage, TypeOK
  <2>3. \A x \in Sessions : Listed(x)
    BY <2>2 DEF Listed, HasLog
  <2> QED
    BY <1>2, <2>1, <2>3
<1>11. ASSUME NEW s \in Sessions, Touch(s) \/ AppendFails(s) \/ LoadFails(s) \/ Misrouted(s)
       PROVE  Goal
  <2>1. /\ CatalogInv' /\ logs' = logs
        /\ \A x \in Sessions : rows[x] # None =>
             rows'[x].workspace = rows[x].workspace /\ rows'[x].node = rows[x].node
    BY <1>11, RowChanges
  <2>2. \A x \in Sessions : Assigned(x)
    BY <2>1 DEF Assigned
  <2> QED
    BY <1>3, <2>1, <2>2
<1>12. CASE Restart \/ RestartCorrupt \/ \E e : \E a \in archives : ImportStops(a, e)
  <2>1. /\ CatalogInv'
        /\ preserved' # preserved \/
             \A s \in Sessions : RowMade(Tables, logs', s, rows'[s], workspaces')
        /\ \A s \in Sessions : logs'[s] # None => rows'[s] # None
    BY <1>12, RestartSteps
  <2>2. ASSUME \A s \in Sessions : RowMade(Tables, logs', s, rows'[s], workspaces')
        PROVE  \A s \in Sessions : Assigned(s)
    <3>1. Tables.rows = rows
      BY DEF Tables
    <3> QED
      BY <2>2, <3>1, Zenon DEF RowMade, Assigned
  <2>3. \A s \in Sessions : Assigned(s)
    <3>1. preserved' # preserved => \A s \in Sessions : Assigned(s)
      BY Zenon DEF Assigned
    <3> QED
      BY <2>1, <2>2, <3>1
  <2>4. \A s \in Sessions : Listed(s)
    BY <2>1, Zenon DEF Listed
  <2> QED
    BY <2>1, <2>3, <2>4
<1>13. ASSUME NEW p \in projects, ExportRows(p) PROVE Goal
  <2>1. logs' = logs /\ rows' = rows
    BY <1>13 DEF ExportRows, tables
  <2> QED
    BY <1>2, <1>3, <1>13, <2>1, ExportRowsStep
<1>14. CASE CopyLogs
  <2>1. logs' = logs /\ rows' = rows
    BY <1>14 DEF CopyLogs, tables
  <2> QED
    BY <1>2, <1>3, <1>14, <2>1, CopyLogsStep
<1>15. ASSUME NEW a \in archives, NEW e, Import(a, e) PROVE Goal
  <2>1. /\ CatalogInv' /\ \A s \in Sessions : rows[s] # None => rows'[s] = rows[s]
        /\ \A s \in Sessions : logs[s] = None /\ logs'[s] # None => rows'[s] # None
    BY <1>15, ImportStep
  <2>2. \A s \in Sessions : Listed(s)
    BY <2>1, Zenon DEF Listed
  <2> QED
    BY <1>2, <2>1, <2>2
<1>16. ASSUME NEW a \in archives, NEW e, ImportFails(a, e) PROVE Goal
  BY <1>2, <1>3, <1>16, ImportFailsStep
<1> HIDE DEF Goal
<1>17. ASSUME NEW s \in Sessions,
              \/ Created(s) \/ Observed(s) \/ CallFails(s) \/ RecordsArrive(s)
              \/ StartTurn(s) \/ EndTurn(s) \/ Touch(s)
              \/ Damage(s) \/ AppendFails(s) \/ LoadFails(s) \/ Misrouted(s)
       PROVE  Goal
  BY <1>6, <1>7, <1>8, <1>10, <1>11, <1>17, Zenon
<1>18. ASSUME NEW a \in archives, NEW e \in Nodes \cup {None},
              Import(a, e) \/ ImportFails(a, e) \/ ImportStops(a, e)
       PROVE  Goal
  <2>1. ImportStops(a, e) => Goal
    BY <1>12 DEF Goal
  <2> QED
    BY <1>15, <1>16, <1>18, <2>1, Zenon
<1>19. Restart \/ RestartCorrupt => Goal
  BY <1>12 DEF Goal
<1>20. Goal
  BY <1>4, <1>5, <1>9, <1>13, <1>14, <1>17, <1>18, <1>19, Zenon DEF Next, Goal
<1> QED
  BY <1>20 DEF Goal

LEMMA Stutter ==
  ASSUME CatalogInv, UNCHANGED vars
  PROVE  CatalogInv' /\ \A s \in Sessions : Assigned(s) /\ Listed(s)
<1>1. /\ TypeOK /\ Unique(workspaces) /\ Numbered(workspaces, ids)
      /\ UNCHANGED <<enrolled, projects, workspaces, rows, logs, spooled, owners, calls, untouched,
                     exporting, archives, preserved, outdated, ids, operations>>
  BY DEF CatalogInv, vars, tables, memory, background, bounds
<1>2. TypeOK'
  BY <1>1 DEF TypeOK
<1>3. Manifests' = Manifests /\ ids <= ids'
  BY <1>1 DEF Manifests, TypeOK, Ids
<1>4. CatalogInv'
  BY <1>1, <1>2, <1>3, NoSessionStep
<1>5. \A s \in Sessions : Assigned(s) /\ Listed(s)
  BY <1>1, Zenon DEF Assigned, Listed
<1> QED
  BY <1>4, <1>5

-----------------------------------------------------------------------------
(* The theorems. *)

\* Every state of the catalog has its tables, logs and archives of their types, each root on a
\* node in one workspace, each row of its header's root and bound there, each archive sound.
THEOREM CatalogInvariant == Spec => []CatalogInv
<1>1. CatalogInv /\ [Next]_vars => CatalogInv'
  BY NextStep, Stutter
<1> QED
  BY Initially, <1>1, PTL DEF Spec

\* Salvage, reconciliation and imports leave no workspace without its project, no id made twice
\* and no value out of its type, whatever tables a corrupt file lost.
THEOREM CatalogTypes == Spec => []TypeOK
<1>1. CatalogInv => TypeOK
  BY DEF CatalogInv
<1> QED
  BY CatalogInvariant, <1>1, PTL

\* A root on a node has one workspace, and a readable row names one of its project and node:
\* upsertCreated, importProject and reconcile never leave a row that listing throws on.
THEOREM BindingsAgreeHolds == Spec => []BindingsAgree
<1>1. CatalogInv => BindingsAgree
  <2> SUFFICES ASSUME CatalogInv PROVE BindingsAgree
    OBVIOUS
  <2>1. \A v, w \in workspaces : v.node = w.node /\ v.root = w.root => v = w
    BY DEF CatalogInv, Unique
  <2>2. ASSUME NEW s \in Sessions, Readable(s)
        PROVE  \E w \in workspaces : /\ w.id = rows[s].workspace
                                     /\ w.project = rows[s].project /\ w.node = rows[s].node
    <3>1. rows[s] # None /\ rows[s].status # "unreadable"
      BY <2>2, NoneFacts DEF Readable
    <3>2. RowAgrees(rows[s], logs[s], spooled[s], s \in untouched, workspaces)
      BY DEF CatalogInv, Sane, Fits
    <3> QED
      BY <3>1, <3>2 DEF RowAgrees, Bound, Names
  <2> QED
    BY <2>1, <2>2 DEF BindingsAgree
<1> QED
  BY CatalogInvariant, <1>1, PTL

\* A turn that a log holds open has a row that says busy, or is about to, unless an import took
\* its status from a manifest: what recovery looks for in the rows is found there.
THEOREM InterruptedFoundHolds == Spec => []InterruptedFound
<1>1. CatalogInv => InterruptedFound
  <2> SUFFICES ASSUME CatalogInv, NEW s \in Sessions,
                      Readable(s) /\ HasLog(s) /\ logs[s].status = "busy"
               PROVE  rows[s].status = "busy" \/ s \in untouched \cup outdated
    BY DEF InterruptedFound
  <2>1. LogAgrees(s, rows[s], logs[s], spooled[s], s \in untouched, s \in outdated)
    BY DEF CatalogInv, Sane, Fits
  <2> QED
    BY <2>1 DEF LogAgrees, Readable, HasLog
<1> QED
  BY CatalogInvariant, <1>1, PTL

\* No step but a start on a corrupt catalog moves a session to another node; and none moves it
\* to another workspace but a start that cannot scan its log, when reconcile finds its project
\* key bound to more than one.
THEOREM AssignmentKeptHolds == Spec => AssignmentKept
<1>1. CatalogInv /\ [Next]_vars =>
        [\A s \in Sessions : rows[s] # None /\ rows'[s] # None /\ rows[s].workspace # None =>
           \/ /\ rows'[s].node = rows[s].node
              /\ rows'[s].workspace = rows[s].workspace \/ Displaced(Tables, logs', s)
           \/ preserved' # preserved]_vars
  BY NextStep, Stutter DEF Assigned
<1> QED
  BY CatalogInvariant, <1>1, PTL DEF Spec, AssignmentKept

\* No step leaves a log that neither a row nor a creation under way explains.
THEOREM NoStrayLogHolds == Spec => NoStrayLog
<1>1. CatalogInv /\ [Next]_vars =>
        [\A s \in Sessions : logs[s] = None /\ logs'[s] # None =>
           rows'[s] # None \/ spooled[s] # None \/ calls'[s] # None]_vars
  BY NextStep, Stutter DEF Listed
<1> QED
  BY CatalogInvariant, <1>1, PTL DEF Spec, NoStrayLog
=============================================================================
