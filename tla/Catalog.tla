------------------------------ MODULE Catalog ------------------------------
(***************************************************************************)
(* The catalog of projects, workspaces and sessions: packages/server/src/  *)
(* catalog.ts, the operations of plane.ts that write it, the archives of   *)
(* archive.ts and the scan of packages/store/src/index.ts.                 *)
(*                                                                         *)
(* The logs are the truth and the catalog an index of them in SQLite, with *)
(* the bindings the logs do not hold: a session to a workspace, that to a  *)
(* project and a node.  A log is its header (node and root), whether its   *)
(* tail is idle, and its health: a "deep" damage is met by a full load, a  *)
(* "bad" one by the scan.  Paths and project keys are one thing, a root.   *)
(***************************************************************************)
EXTENDS Naturals, FiniteSets, Sequences, SequencesExt

CONSTANTS
  Nodes,        \* node identities
  Local,        \* the node inside the daemon
  Origin,       \* the node of the deployment an archive comes from
  Roots,        \* project roots
  Sessions,     \* session ids
  Guest,        \* the session in that archive
  None,
  MaxIds,       \* bound: projects and workspaces made here
  MaxOperations \* bound: operations begun, restarts and faults among them

ASSUME CatalogAssumption ==
  /\ Local \in Nodes /\ Origin \in Nodes /\ Guest \in Sessions
  /\ None \notin Nodes \cup Sessions \cup Roots
  /\ IsFiniteSet(Nodes) /\ IsFiniteSet(Roots) /\ IsFiniteSet(Sessions) /\ Roots # {}
  /\ MaxIds \in Nat /\ Cardinality(Roots) <= MaxIds /\ MaxOperations \in Nat

VARIABLES
  enrolled,     \* nodes with an enrolled, unrevoked row
  projects, workspaces, rows,   \* the tables; rows: a session to its row, or None
  logs,         \* a session to its log, or None
  spooled,      \* a session to the header its remote node still has to send, or None
  owners,       \* #sessionNodeIds: a session to a node, or None
  calls,        \* a session being created to what the plane waits for, or None
  untouched,    \* sessions with records appended, the row not yet touched
  exporting,    \* the manifest of an export whose logs are not yet copied, or None
  archives,     \* archives that can be imported
  preserved,    \* corrupt catalog files kept aside
  ids,          \* the last id generated
  outdated,     \* history: sessions imported with a status their log contradicts
  operations

tables == <<enrolled, projects, workspaces, rows>>
memory == <<owners, calls, untouched, exporting>>
bounds == <<ids, operations>>
background == <<archives, preserved>>
vars == <<tables, logs, spooled, memory, background, outdated, bounds>>

Statuses == {"idle", "busy"}
Readable(s) == rows[s] # None /\ rows[s].status \in Statuses
HasLog(s) == logs[s] # None
Header(n, r) == [node |-> n, root |-> r, status |-> "idle", health |-> "good"]

\* findWorkspaceByRoot: the workspaces, at most one, of a root on a node.
AtRoot(ws, n, r) == {w \in ws : w.node = n /\ w.root = r}
The(set) == CHOOSE x \in set : TRUE
RowFor(w, r, status) ==
  [project |-> w.project, workspace |-> w.id, node |-> w.node, root |-> r, status |-> status]

\* An archive written by another deployment, perhaps while a turn began or ended.
ForeignWorkspaces ==
  {[id |-> i, project |-> 1, node |-> Origin, root |-> SetToSeq(Roots)[i]] : i \in 1 .. Cardinality(Roots)}
ForeignArchive(listed, copied) ==
  LET r == SetToSeq(Roots)[1] IN
  [project |-> 1, workspaces |-> ForeignWorkspaces,
   items |-> {[id |-> Guest, root |-> r, workspace |-> 1, node |-> Origin, status |-> listed,
               log |-> [Header(Origin, r) EXCEPT !.status = copied]]}]

\* An operation, a restart or a fault begins.
Begin == operations < MaxOperations /\ operations' = operations + 1

Init ==
  /\ enrolled = {Local} /\ projects = {} /\ workspaces = {}
  /\ rows = [s \in Sessions |-> None] /\ logs = [s \in Sessions |-> None]
  /\ spooled = [s \in Sessions |-> None] /\ owners = [s \in Sessions |-> None]
  /\ calls = [s \in Sessions |-> None] /\ untouched = {} /\ exporting = None
  /\ archives \in {{ForeignArchive(listed, copied)} : listed \in Statuses, copied \in Statuses}
  /\ ids = Cardinality(Roots) /\ preserved = 0 /\ outdated = {} /\ operations = 0

\* A remote node enrolls; one that was a placeholder keeps its row.
Enroll(n) ==
  /\ n \notin enrolled /\ Begin
  /\ enrolled' = enrolled \cup {n}
  /\ UNCHANGED <<projects, workspaces, rows, logs, spooled, memory, background, outdated, ids>>

-----------------------------------------------------------------------------
(* Creating sessions and workspaces. *)

Unused(s) ==
  s # Guest /\ rows[s] = None /\ logs[s] = None /\ spooled[s] = None /\ calls[s] = None

\* The node writes the header: the local one in the plane's log, a remote one in its spool.
NodeCreates(s, n, r) ==
  IF n = Local
  THEN /\ logs' = [logs EXCEPT ![s] = Header(n, r)]
       /\ owners' = [owners EXCEPT ![s] = n]
       /\ UNCHANGED spooled
  ELSE /\ spooled' = [spooled EXCEPT ![s] = Header(n, r)]
       /\ UNCHANGED <<logs, owners>>

\* createSession for a directory: the workspace is looked up once the node has answered.
CreateSession(s, n, r) ==
  /\ Begin /\ Unused(s) /\ n \in enrolled
  /\ NodeCreates(s, n, r)
  /\ calls' = [calls EXCEPT ![s] = [stage |-> "creating", node |-> n, root |-> r, workspace |-> None]]
  /\ UNCHANGED <<tables, untouched, exporting, background, outdated, ids>>

\* createWorkspaceSession, createProjectSession: the binding is read before the node is asked.
\* Of the workspace's path the node takes the root anew, so r is w.root only while no Git
\* repository began above it, and no import put the workspace of another checkout here.
CreateInWorkspace(s, w, r) ==
  /\ Begin /\ Unused(s) /\ w \in workspaces /\ w.node \in enrolled
  /\ NodeCreates(s, w.node, r)
  /\ calls' = [calls EXCEPT ![s] = [stage |-> "creating", node |-> w.node, root |-> r,
                                    workspace |-> w]]
  /\ UNCHANGED <<tables, untouched, exporting, background, outdated, ids>>

\* upsertCreated ends the call.
UpsertCreated(s, w) ==
  /\ rows' = [rows EXCEPT ![s] = RowFor(w, calls[s].root, "idle")]
  /\ calls' = [calls EXCEPT ![s] = None]

\* The node's answer: a directory without a workspace needs its Git remote first.
Created(s) ==
  /\ calls[s] # None /\ calls[s].stage = "creating"
  /\ LET found == IF calls[s].workspace # None THEN {calls[s].workspace}
                  ELSE AtRoot(workspaces, calls[s].node, calls[s].root)
     IN IF found # {} THEN UpsertCreated(s, The(found))
        ELSE calls' = [calls EXCEPT ![s].stage = "observing"] /\ UNCHANGED rows
  /\ UNCHANGED <<enrolled, projects, workspaces, logs, spooled, owners, untouched, exporting,
                 background, outdated, bounds>>

\* Faulty: the workspace is inserted although another call made one meanwhile.
BoundWithoutLook(n, r) == {}
\* createWorkspace: when the insert is refused, the workspace that was there is taken.
Raced(n, r) == AtRoot(workspaces, n, r)

Observed(s) ==
  /\ calls[s] # None /\ calls[s].stage = "observing"
  /\ LET n == calls[s].node
         r == calls[s].root
         w == [id |-> ids + 1, project |-> ids + 1, node |-> n, root |-> r]
     IN IF Raced(n, r) # {}
        THEN UpsertCreated(s, The(Raced(n, r))) /\ UNCHANGED <<projects, workspaces, ids>>
        ELSE /\ ids < MaxIds
             /\ projects' = projects \cup {w.project} /\ workspaces' = workspaces \cup {w}
             /\ ids' = ids + 1
             /\ UpsertCreated(s, w)
  /\ UNCHANGED <<enrolled, logs, spooled, owners, untouched, exporting, background, outdated,
                 operations>>

\* A call to a remote node times out or its connection ends; what the node did stays.
CallFails(s) ==
  /\ calls[s] # None /\ calls[s].node # Local
  /\ calls' = [calls EXCEPT ![s] = None]
  /\ UNCHANGED <<tables, logs, spooled, owners, untouched, exporting, background, outdated, bounds>>

\* The spooled records reach the plane, which creates the log from their header.
RecordsArrive(s) ==
  /\ spooled[s] # None
  /\ logs' = [logs EXCEPT ![s] = spooled[s]]
  /\ owners' = [owners EXCEPT ![s] = spooled[s].node]
  /\ spooled' = [spooled EXCEPT ![s] = None]
  /\ untouched' = untouched \cup {s}
  /\ UNCHANGED <<tables, calls, exporting, background, outdated, bounds>>

\* addWorkspace: a folder of this project is reused, one of another project refused.
AddWorkspace(p, n, r) ==
  /\ Begin /\ p \in projects /\ n \in enrolled /\ ids < MaxIds
  /\ AtRoot(workspaces, n, r) = {}
  /\ workspaces' = workspaces \cup {[id |-> ids + 1, project |-> p, node |-> n, root |-> r]}
  /\ ids' = ids + 1
  /\ UNCHANGED <<enrolled, projects, rows, logs, spooled, memory, background, outdated>>

-----------------------------------------------------------------------------
(* Turns. *)

\* ownsSession, asked of a remote node only.
Owns(n, s) ==
  \/ n = Local
  \/ owners[s] = n
  \/ owners[s] = None /\ rows[s] # None /\ rows[s].node = n

\* A client's request is routed to the node of the row, and its turn begins or ends.
StartTurn(s) ==
  /\ Begin
  /\ Readable(s) /\ rows[s].node \in enrolled /\ Owns(rows[s].node, s)
  /\ HasLog(s) /\ logs[s].health = "good" /\ logs[s].status = "idle"
  /\ logs' = [logs EXCEPT ![s].status = "busy"] /\ untouched' = untouched \cup {s}
  /\ UNCHANGED <<tables, spooled, owners, calls, exporting, background, outdated, ids>>

\* A turn ends in the process that runs it, or is ended by recovery, which looks for busy rows.
EndTurn(s) ==
  /\ HasLog(s) /\ logs[s].health = "good" /\ logs[s].status = "busy"
  /\ rows[s] # None /\ rows[s].node \in enrolled /\ Owns(rows[s].node, s)
  /\ rows[s].status # "idle" \/ s \in untouched
  /\ logs' = [logs EXCEPT ![s].status = "idle"] /\ untouched' = untouched \cup {s}
  /\ UNCHANGED <<tables, spooled, owners, calls, exporting, background, outdated, bounds>>

\* #applyRecords touches the row once the projection has the records.
Touch(s) ==
  /\ s \in untouched
  /\ untouched' = untouched \ {s}
  /\ IF rows[s] = None THEN UNCHANGED rows
     ELSE rows' = [rows EXCEPT ![s].status = logs[s].status]
  /\ UNCHANGED <<enrolled, projects, workspaces, logs, spooled, owners, calls, exporting, background,
                 outdated, bounds>>

MarkUnreadable(s) ==
  /\ rows' = [rows EXCEPT ![s].status = "unreadable"]
  /\ UNCHANGED <<enrolled, projects, workspaces, logs, spooled, memory, background, outdated>>

\* A log is damaged on disk; a write to a sound one fails; a full load meets the damage.
Damage(s) ==
  /\ Begin /\ HasLog(s) /\ logs[s].health = "good"
  /\ \E health \in {"deep", "bad"} : logs' = [logs EXCEPT ![s].health = health]
  /\ UNCHANGED <<tables, spooled, memory, background, outdated, ids>>
AppendFails(s) ==
  /\ Begin /\ HasLog(s) /\ Readable(s)
  /\ MarkUnreadable(s)
  /\ UNCHANGED ids
LoadFails(s) ==
  /\ HasLog(s) /\ Readable(s) /\ logs[s].health # "good"
  /\ MarkUnreadable(s) /\ UNCHANGED bounds

\* The node that a row names is refused the log, and answers that it knows no such session.
Misrouted(s) ==
  /\ HasLog(s) /\ Readable(s) /\ rows[s].node \in enrolled /\ ~Owns(rows[s].node, s)
  /\ MarkUnreadable(s) /\ UNCHANGED bounds

-----------------------------------------------------------------------------
(* Restart: the catalog is opened, or salvaged from a corrupt file, and    *)
(* reconciled with the logs.                                               *)

\* Faulty: a workspace is copied although its project was lost.
SalvageUnchecked(lost) ==
  [enrolled |-> enrolled, projects |-> IF "project" \in lost THEN {} ELSE projects,
   workspaces |-> workspaces, rows |-> rows]

\* salvageRows: whole tables may be lost, and a row goes with a row it refers to.
Salvage(lost) ==
  LET ps == IF "project" \in lost THEN {} ELSE projects
      ws == IF lost \cap {"node", "workspace"} # {} THEN {} ELSE {w \in workspaces : w.project \in ps}
      kept(row) == /\ row # None /\ "session" \notin lost
                   /\ "node" \in lost => row.node = None
                   /\ row.project \in ps \cup {None}
                   /\ row.workspace \in {w.id : w \in ws} \cup {None}
  IN [enrolled |-> (IF "node" \in lost THEN {} ELSE enrolled) \cup {Local},
      projects |-> ps, workspaces |-> ws,
      rows |-> [s \in Sessions |-> IF kept(rows[s]) THEN rows[s] ELSE None]]

Tables == [enrolled |-> enrolled, projects |-> projects, workspaces |-> workspaces, rows |-> rows]
Corruptions == SUBSET {"node", "project", "workspace", "session"}

\* Faulty: the header's node decides, whatever the row is bound to.
BoundByHeader(t, s, log) == AtRoot(t.workspaces, log.node, log.root)

\* The workspace a readable log is bound to: its row's, else the one at its header's root.
BoundWorkspace(t, s, log) ==
  LET own == IF t.rows[s] = None THEN {} ELSE {w \in t.workspaces : w.id = t.rows[s].workspace}
  IN IF own # {} THEN own ELSE AtRoot(t.workspaces, log.node, log.root)

\* Faulty: the status a row had is kept.
StatusKept(t, s, log) == IF t.rows[s] = None THEN log.status ELSE t.rows[s].status
ScannedStatus(t, s, log) == log.status

Scanned(ls) == {s \in Sessions : ls[s] # None /\ ls[s].health # "bad"}

\* A project and workspace for each root that has none; bound once, though many logs are there.
Adopted(t, ls) ==
  LET roots == {<<ls[s].node, ls[s].root>> : s \in
                  {x \in Scanned(ls) : BoundWorkspace(t, x, ls[x]) = {}}}
      order == SetToSeq(roots)
  IN {[id |-> ids + i, project |-> ids + i, node |-> order[i][1], root |-> order[i][2]]
        : i \in 1 .. Len(order)}

Widened(t, ls) ==
  LET new == Adopted(t, ls)
  IN [t EXCEPT !.workspaces = @ \cup new, !.projects = @ \cup {w.project : w \in new}]

\* Faulty: the key is the root alone, whatever node the workspace is on.
KeyedAnywhere(t, ls, key) ==
  {The(BoundWorkspace(t, x, ls[x])) : x \in {y \in Scanned(ls) : ls[y].root = key[2]}}

\* What bindingsByKey may hold for a project key: the workspace at that root, or else that of
\* a scanned session of that root which is bound on the node, the last one in the scan.
Keyed(t, ls, key) ==
  LET there == {x \in Scanned(ls) : <<The(BoundWorkspace(t, x, ls[x])).node, ls[x].root>> = key}
  IN IF there = {} THEN AtRoot(t.workspaces, key[1], key[2])
     ELSE {The(BoundWorkspace(t, x, ls[x])) : x \in there}

\* The bindings for the keys that are looked up: those of rows whose log cannot be scanned.
Keys(t, ls) ==
  {<<t.rows[s].node, ls[s].root>> :
     s \in {x \in Sessions : ls[x] # None /\ x \notin Scanned(ls) /\ t.rows[x] # None}}
KeyBindings(t, ls) ==
  {f \in [Keys(t, ls) -> t.workspaces \cup {None}] :
     \A key \in Keys(t, ls) :
       f[key] \in IF Keyed(t, ls, key) = {} THEN {None} ELSE Keyed(t, ls, key)}

\* reconcile: a log that cannot be scanned is bound by the node of its row and its project key,
\* or its row keeps what it has; a row without a log goes.
Reconciled(t, ls, byKey) ==
  LET all == Widened(t, ls)
      Row(s) ==
        CASE ls[s] = None -> None
          [] s \in Scanned(ls) ->
               RowFor(The(BoundWorkspace(all, s, ls[s])), ls[s].root, ScannedStatus(t, s, ls[s]))
          [] OTHER ->
               LET bound == IF t.rows[s] = None THEN None ELSE byKey[<<t.rows[s].node, ls[s].root>>]
               IN IF bound # None THEN RowFor(bound, ls[s].root, "unreadable")
                  ELSE IF t.rows[s] # None THEN [t.rows[s] EXCEPT !.status = "unreadable"]
                  ELSE [project |-> None, workspace |-> None, node |-> None, root |-> ls[s].root,
                        status |-> "unreadable"]
  IN [all EXCEPT !.rows = [s \in Sessions |-> Row(s)]]

\* ControlPlane.initialize over the logs as the stop left them.
Initialize(t, ls) == \E byKey \in KeyBindings(Widened(t, ls), ls) :
  LET r == Reconciled(t, ls, byKey)
      made == Cardinality(r.workspaces \ t.workspaces)
  IN
  /\ ids + made <= MaxIds /\ ids' = ids + made
  /\ enrolled' = r.enrolled /\ projects' = r.projects /\ workspaces' = r.workspaces
  /\ rows' = r.rows
  /\ owners' = [s \in Sessions |-> IF s \in Scanned(ls) THEN ls[s].node ELSE None]
  /\ calls' = [s \in Sessions |-> None] /\ untouched' = {} /\ exporting' = None
  /\ logs' = ls
  /\ outdated' = {}
  /\ UNCHANGED <<spooled, archives>>

Restart == Begin /\ Initialize(Tables, logs) /\ UNCHANGED preserved
RestartCorrupt ==
  /\ Begin
  /\ \E lost \in Corruptions : Initialize(Salvage(lost), logs)
  /\ preserved' = preserved + 1

-----------------------------------------------------------------------------
(* Archives. *)

\* exportRows and buildManifest; a log that is not there is declared missing.
ExportRows(p) ==
  /\ Begin /\ p \in projects /\ exporting = None /\ Cardinality(archives) = 1
  /\ exporting' = [project |-> p, workspaces |-> {w \in workspaces : w.project = p},
                   items |-> {[id |-> s, root |-> rows[s].root, workspace |-> rows[s].workspace,
                               node |-> rows[s].node, status |-> rows[s].status, log |-> logs[s]]
                              : s \in {x \in Sessions : rows[x] # None /\ rows[x].project = p}}]
  /\ UNCHANGED <<tables, logs, spooled, owners, calls, untouched, background, outdated, ids>>

\* writeArchive copies each log as it is by now.
CopyLogs ==
  /\ exporting # None
  /\ archives' = archives \cup
       {[exporting EXCEPT !.items = {[i EXCEPT !.log = IF i.log = None THEN None ELSE logs[i.id]]
                                     : i \in exporting.items}]}
  /\ exporting' = None
  /\ UNCHANGED <<tables, logs, spooled, owners, calls, untouched, preserved, outdated, bounds>>

\* bindNode: the node asked for, else the archive's if enrolled here, else the only one enrolled.
BindNode(n, explicit) ==
  CASE explicit # None -> explicit
    [] explicit = None /\ n # None /\ n \in enrolled -> n
    [] OTHER -> IF Cardinality(enrolled) = 1 THEN The(enrolled) ELSE n
KnownNodes == enrolled \cup {w.node : w \in workspaces}

\* The workspaces of the archive on their nodes here; of two that meet, the first is used.
Placed(a, explicit) == {[w EXCEPT !.node = BindNode(w.node, explicit)] : w \in a.workspaces}
FirstAt(ws, w) == CHOOSE v \in AtRoot(ws, w.node, w.root) :
                    \A u \in AtRoot(ws, w.node, w.root) : v.id <= u.id
Inserted(a, explicit) ==
  {w \in Placed(a, explicit) : /\ AtRoot(workspaces, w.node, w.root) = {}
                               /\ FirstAt(Placed(a, explicit), w) = w}

\* A root of another project, or a workspace of the archive that is here on another node.
Conflict(a, explicit) ==
  \/ \E w \in Placed(a, explicit) :
       \E v \in AtRoot(workspaces, w.node, w.root) : v.project # a.project
  \/ \E w \in Inserted(a, explicit) : \E v \in workspaces : v.id = w.id

\* The sessions an import adds, and the logs it moves out of its staging directory.
NewItems(a) == {i \in a.items : rows[i.id] = None /\ (i.log # None \/ HasLog(i.id))}
Moved(a) == {i \in NewItems(a) : ~HasLog(i.id)}
WithLogs(items) ==
  [s \in Sessions |-> IF \E i \in items : i.id = s THEN The({i \in items : i.id = s}).log ELSE logs[s]]

\* The row of an imported session: on the node of its workspace, however that was chosen.
ImportedRow(a, i, explicit) ==
  LET from == {w \in a.workspaces : w.id = i.workspace}
      n == BindNode(IF from = {} THEN i.node ELSE The(from).node, explicit)
  IN [project |-> a.project, root |-> i.root, node |-> n, status |-> i.status,
      workspace |-> IF from = {} THEN None
                    ELSE The(AtRoot(workspaces \cup Inserted(a, explicit), n, The(from).root)).id]

Importable(a, explicit) ==
  /\ a \in archives /\ explicit \in KnownNodes \cup {None}
  /\ \A i \in a.items : calls[i.id] = None

\* importProject: one transaction, after which the logs placed replace what the plane remembered.
Import(a, explicit) ==
  /\ Begin /\ Importable(a, explicit) /\ ~Conflict(a, explicit)
  /\ projects' = projects \cup {a.project}
  /\ workspaces' = workspaces \cup Inserted(a, explicit)
  /\ rows' = [s \in Sessions |-> IF \E i \in NewItems(a) : i.id = s
                                THEN ImportedRow(a, The({i \in NewItems(a) : i.id = s}), explicit)
                                ELSE rows[s]]
  /\ logs' = WithLogs(Moved(a))
  /\ owners' = [s \in Sessions |-> IF \E i \in NewItems(a) : i.id = s THEN rows'[s].node ELSE owners[s]]
  /\ outdated' = outdated \cup {i.id : i \in {j \in NewItems(a) : j.status # logs'[j.id].status}}
  /\ UNCHANGED <<enrolled, spooled, calls, untouched, exporting, background, ids>>

\* Faulty: the logs moved before the failure stay.
MovedStay(moved) == WithLogs(moved)
\* The transaction is rolled back and each log moved removed.
RolledBack(moved) == logs

\* A log cannot be moved: the transaction is undone, and the logs moved before it.
ImportFails(a, explicit) ==
  /\ Begin /\ Importable(a, explicit) /\ ~Conflict(a, explicit)
  /\ \E moved \in SUBSET Moved(a) : logs' = RolledBack(moved)
  /\ UNCHANGED <<tables, spooled, memory, background, outdated, ids>>

\* The daemon stops inside the transaction: the moved logs are found by the next start.
ImportStops(a, explicit) ==
  /\ Begin /\ Importable(a, explicit) /\ ~Conflict(a, explicit)
  /\ \E moved \in SUBSET Moved(a) : moved # {} /\ Initialize(Tables, WithLogs(moved))
  /\ UNCHANGED preserved

-----------------------------------------------------------------------------
Next ==
  \/ \E n \in Nodes : Enroll(n)
  \/ \E s \in Sessions, n \in Nodes, r \in Roots : CreateSession(s, n, r)
  \/ \E s \in Sessions, w \in workspaces, r \in Roots : CreateInWorkspace(s, w, r)
  \/ \E s \in Sessions : Created(s) \/ Observed(s) \/ CallFails(s) \/ RecordsArrive(s)
  \/ \E p \in projects, n \in Nodes, r \in Roots : AddWorkspace(p, n, r)
  \/ \E s \in Sessions : StartTurn(s) \/ EndTurn(s) \/ Touch(s)
  \/ \E s \in Sessions : Damage(s) \/ AppendFails(s) \/ LoadFails(s) \/ Misrouted(s)
  \/ Restart \/ RestartCorrupt
  \/ (\E p \in projects : ExportRows(p)) \/ CopyLogs
  \/ \E a \in archives, e \in Nodes \cup {None} : Import(a, e) \/ ImportFails(a, e) \/ ImportStops(a, e)

Spec == Init /\ [][Next]_vars

-----------------------------------------------------------------------------
(* Properties. *)

Ids == 1 .. MaxIds
RowType == [project : Ids \cup {None}, workspace : Ids \cup {None}, node : Nodes \cup {None},
            root : Roots, status : Statuses \cup {"unreadable"}]
LogType == [node : Nodes, root : Roots, status : Statuses, health : {"good", "deep", "bad"}]
Workspace == [id : Ids, project : Ids, node : Nodes, root : Roots]
CallType == [stage : {"creating", "observing"}, node : Nodes, root : Roots,
             workspace : Workspace \cup {None}]
Item == [id : Sessions, root : Roots, workspace : Ids \cup {None}, node : Nodes \cup {None},
         status : Statuses \cup {"unreadable"}, log : LogType \cup {None}]
Manifest == [project : Ids, workspaces : SUBSET Workspace, items : SUBSET Item]

\* None is a value of its own.
ASSUME NoneAssumption ==
  None \notin Ids \cup RowType \cup LogType \cup Workspace \cup CallType \cup Manifest

TypeOK ==
  /\ enrolled \subseteq Nodes /\ Local \in enrolled
  /\ projects \subseteq Ids
  /\ workspaces \subseteq [id : Ids, project : projects, node : Nodes, root : Roots]
  /\ rows \in [Sessions -> RowType \cup {None}]
  /\ logs \in [Sessions -> LogType \cup {None}] /\ spooled \in [Sessions -> LogType \cup {None}]
  /\ owners \in [Sessions -> Nodes \cup {None}] /\ calls \in [Sessions -> CallType \cup {None}]
  /\ exporting \in Manifest \cup {None} /\ archives \subseteq Manifest
  /\ untouched \subseteq Sessions /\ outdated \subseteq Sessions
  /\ ids \in Ids /\ preserved \in Nat /\ operations \in 0 .. MaxOperations

\* A root on a node has one workspace, and a readable row names a workspace of its own project
\* on its own node: through races of creation, imports, salvage and reconciliation.  The list
\* of sessions throws for all of them when one readable row lacks a binding.
BindingsAgree ==
  /\ \A v, w \in workspaces : v.node = w.node /\ v.root = w.root => v = w
  /\ \A s \in Sessions : Readable(s) =>
       \E w \in workspaces : /\ w.id = rows[s].workspace
                             /\ w.project = rows[s].project /\ w.node = rows[s].node

\* The log of s cannot be scanned, and its root was bound to a workspace of another root, by s
\* itself or by a session whose log can be: its project key then names more than one workspace.
Displaced(t, ls, s) ==
  /\ ls[s] # None /\ s \notin Scanned(ls)
  /\ \E x \in Scanned(ls) \cup {s} :
       /\ ls[x].root = ls[s].root /\ t.rows[x] # None /\ t.rows[x].node = t.rows[s].node
       /\ \E w \in t.workspaces : w.id = t.rows[x].workspace /\ w.root # ls[x].root

\* A session stays on the node and in the workspace it is assigned to, though after an import
\* its log names another node and every start reads the logs again.  A catalog that was corrupt
\* may have lost the assignment; and a start binds an unreadable log by its project key alone,
\* which takes it from its workspace when the node had put it, or a session beside it, under
\* another root than the workspace's (plane.ts:620, node.ts:157, catalog.ts:520).  Even then
\* its node stays.
AssignmentKept ==
  [][\A s \in Sessions : rows[s] # None /\ rows'[s] # None /\ rows[s].workspace # None =>
       \/ /\ rows'[s].node = rows[s].node
          /\ rows'[s].workspace = rows[s].workspace \/ Displaced(Tables, logs', s)
       \/ preserved' # preserved]_vars

\* A log appears with its row, or with a node's creation of its session: of an import that
\* fails, or that a stop cuts off, no log stays that the catalog does not list.
NoStrayLog ==
  [][\A s \in Sessions : logs[s] = None /\ logs'[s] # None =>
       rows'[s] # None \/ spooled[s] # None \/ calls'[s] # None]_vars

\* Recovery looks only at rows: a turn that a log holds open has a row that says busy, or one
\* about to be touched, whatever crash came between the append and the touch.  An import takes
\* the status from the manifest, which a turn may have outdated.
InterruptedFound ==
  \A s \in Sessions : Readable(s) /\ HasLog(s) /\ logs[s].status = "busy" =>
    rows[s].status = "busy" \/ s \in untouched \cup outdated

\* docs/archive-format.md: an explicit node binds every imported session to that node; and
\* docs/node-protocol.md lets a node load and append to the sessions assigned to it.
AssignedNodeServes ==
  \A s \in Sessions : Readable(s) /\ HasLog(s) => Owns(rows[s].node, s)
=============================================================================
