------------------------------- MODULE GraphStore -------------------------------
(***************************************************************************)
(* backend/graph/store.py with backend/conflict.py: nodes live in Neo4j,   *)
(* their traces, source records and conflict rows in SQLite.  Every        *)
(* operation stages its SQLite rows, writes Neo4j (which commits at once)  *)
(* and then commits SQLite.                                                *)
(*                                                                         *)
(* The writers are the API process, which edits nodes, resolves conflicts  *)
(* and takes pushed records, and the importers, command line processes     *)
(* that ingest.  Each has one SQLite connection of its own, so SQLite's    *)
(* write lock is taken by its first staged row and kept until it commits   *)
(* or rolls back.  Inside a process the operations run one after the       *)
(* other: the API handlers never await between two steps.                  *)
(*                                                                         *)
(* Faults names what can go wrong in a run: "neo4j" (a statement fails     *)
(* and is not applied), "reply" (it is applied, its reply is lost),        *)
(* "commit" (a SQLite commit fails) and "crash" (a process dies and is     *)
(* started again).                                                         *)
(***************************************************************************)
EXTENDS GraphTypes

CONSTANTS
  Api,         \* the API process
  Importers,   \* the ingest processes
  NoWriter,    \* nobody holds SQLite's write lock
  Faults,      \* the faults of the run
  MaxOps       \* bound on the operations started

ASSUME StoreAssumption ==
  /\ Api \notin Importers
  /\ NoWriter \notin Importers \cup {Api}
  /\ Faults \subseteq {"neo4j", "reply", "commit", "crash"}
  /\ MaxOps \in Nat

VARIABLES
  graph,    \* [Nodes -> Node], Neo4j
  disk,     \* the committed SQLite image
  staged,   \* the image the holder of the write lock sees; disk if nobody holds it
  locker,   \* who holds the write lock
  pc,       \* [Writers -> step], where each process is in its operation
  op,       \* [Writers -> Op], the local variables of its operation
  started   \* operations started so far

vars == <<graph, disk, staged, locker, pc, op, started>>
sqlite == <<disk, staged, locker>>

Writers == Importers \cup {Api}

-----------------------------------------------------------------------------
(* Data *)

Present(n) == graph[n] # NoNode

Image == [sources: SUBSET Sources, traces: Seq(Trace),
          conflicts: Seq(ConflictRow)]
EmptyImage == [sources |-> {}, traces |-> <<>>, conflicts |-> <<>>]

Steps == {"idle", "read", "reconcile", "find", "record", "stage", "merge",
          "commit", "compensate", "edit_source", "edit_stage", "edit_set",
          "edit_commit", "restore", "close", "close_commit"}

Op == [type: Types \cup {NoType},
       trace: Trace,            \* the node and attributes written, and by whom
       old: Node,               \* get_node(): the node as read
       seen: Seq(Trace),        \* get_node(): its provenance as read
       todo: SUBSET Attrs,      \* conflicts reconcile() has still to record
       attr: Attrs,             \* the attribute record() is at
       hit: Nat,                \* the open row its lookup found, 0 if none
       resolving: Nat]          \* the conflict being resolved, 0 for a plain edit

NoOp == [type |-> NoType, trace |-> HumanTrace(CHOOSE n \in Nodes : TRUE, Nothing),
         old |-> NoNode, seen |-> <<>>, todo |-> {},
         attr |-> CHOOSE a \in Attrs : TRUE, hit |-> 0, resolving |-> 0]

\* The conflicts an ingest has to record, by what it read.
QueuedBy(o) == Queued(o.seen, o.old.attrs, o.trace)

OpenRows(image, n, a) ==
  {k \in DOMAIN image.conflicts : /\ image.conflicts[k].open
                                  /\ image.conflicts[k].node = n
                                  /\ image.conflicts[k].attr = a}

-----------------------------------------------------------------------------
(* SQLite seen from one connection *)

View(w) == IF locker = w THEN staged ELSE disk

CanWrite(w) == locker \in {w, NoWriter}

Write(w, image) ==
  /\ CanWrite(w)
  /\ locker' = w
  /\ staged' = image
  /\ UNCHANGED disk

Commit(w) ==
  /\ disk' = View(w)
  /\ locker' = IF locker = w THEN NoWriter ELSE locker
  /\ UNCHANGED staged

\* Mutant of Rollback: the transaction ends, its rows stay.
RollbackKeepingRows(w) ==
  /\ locker' = IF locker = w THEN NoWriter ELSE locker
  /\ UNCHANGED <<disk, staged>>

Rollback(w) ==
  /\ staged' = IF locker = w THEN disk ELSE staged
  /\ locker' = IF locker = w THEN NoWriter ELSE locker
  /\ UNCHANGED disk

\* A commit that raises.  Whether SQLite then still has the transaction
\* open depends on the error; no caller but _tx() rolls back.
FailedCommit(w) == Rollback(w) \/ UNCHANGED sqlite

-----------------------------------------------------------------------------
(* Control *)

Goto(w, step) == pc' = [pc EXCEPT ![w] = step]

Finish(w) ==
  /\ Goto(w, "idle")
  /\ op' = [op EXCEPT ![w] = NoOp]

Start(w, o) ==
  /\ pc[w] = "idle"
  /\ started < MaxOps
  /\ started' = started + 1
  /\ op' = [op EXCEPT ![w] = o]

\* The exception leaves the store after the handler rolled SQLite back.
Abort(w) == Rollback(w) /\ Finish(w)

-----------------------------------------------------------------------------
(* Ingest: add_source_record() and then add_node() *)

\* add_source_record() has a commit of its own, which also publishes what
\* an earlier failed commit left staged on this connection.
SaveRecord(w, b) ==
  /\ Start(w, [NoOp EXCEPT !.type = b.type, !.trace = b.trace])
  /\ CanWrite(w)
  /\ disk' = [View(w) EXCEPT !.sources = @ \cup {b.trace.source}]
  /\ staged' = disk'
  /\ locker' = NoWriter
  /\ Goto(w, "read")
  /\ UNCHANGED graph

\* get_node(): the Neo4j half.
ReadNode(w) ==
  /\ pc[w] = "read"
  /\ op' = [op EXCEPT ![w].old = graph[op[w].trace.node]]
  /\ Goto(w, "reconcile")
  /\ UNCHANGED <<graph, sqlite, started>>

\* get_node(): the SQLite half, and reconcile() up to the conflicts it records.
ReconcileNode(w) ==
  LET o == [op[w] EXCEPT !.seen = View(w).traces]
  IN /\ pc[w] = "reconcile"
     /\ op' = [op EXCEPT ![w] = [o EXCEPT !.todo = QueuedBy(o)]]
     /\ Goto(w, IF QueuedBy(o) = {} THEN "stage" ELSE "find")
     /\ UNCHANGED <<graph, sqlite, started>>

\* ConflictStore.record(): SELECT the open row of the attribute.
FindOpenRow(w, a) ==
  LET open == OpenRows(View(w), op[w].trace.node, a)
  IN /\ pc[w] = "find"
     /\ a \in op[w].todo
     /\ op' = [op EXCEPT ![w].attr = a,
                         ![w].hit = IF open = {} THEN 0 ELSE CHOOSE k \in open : TRUE]
     /\ Goto(w, "record")
     /\ UNCHANGED <<graph, sqlite, started>>

\* Mutant of Recorded: an open row is left as it is.
RecordedOnce(conflicts, o) ==
  IF o.hit # 0 THEN conflicts
    ELSE Append(conflicts, ConflictOf(o.seen, o.old.attrs, o.trace, o.attr))

\* The conflict rows after record(): UPDATE the row its lookup found,
\* whatever has become of it, or INSERT an open one.
Recorded(conflicts, o) ==
  LET new == ConflictOf(o.seen, o.old.attrs, o.trace, o.attr)
  IN IF o.hit # 0
       THEN [conflicts EXCEPT ![o.hit] = Refreshed(@, new)]
       ELSE Append(conflicts, new)

\* Mutant of IndexViolated: the conflicts table without its unique index.
NoIndex(w) == FALSE

\* An INSERT next to an open row of the same node and attribute violates
\* the unique index.
IndexViolated(w) == /\ op[w].hit = 0
                    /\ OpenRows(View(w), op[w].trace.node, op[w].attr) # {}

\* Mutant of RecordConflict: record() commits on its own.
RecordConflictAtOnce(w) ==
  /\ pc[w] = "record"
  /\ ~ IndexViolated(w)
  /\ CanWrite(w)
  /\ disk' = [View(w) EXCEPT !.conflicts = Recorded(@, op[w])]
  /\ staged' = disk'
  /\ locker' = NoWriter
  /\ op' = [op EXCEPT ![w].todo = @ \ {op[w].attr}]
  /\ Goto(w, IF op[w].todo = {op[w].attr} THEN "stage" ELSE "find")
  /\ UNCHANGED <<graph, started>>

RecordConflict(w) ==
  /\ pc[w] = "record"
  /\ ~ IndexViolated(w)
  /\ Write(w, [View(w) EXCEPT !.conflicts = Recorded(@, op[w])])
  /\ op' = [op EXCEPT ![w].todo = @ \ {op[w].attr}]
  /\ Goto(w, IF op[w].todo = {op[w].attr} THEN "stage" ELSE "find")
  /\ UNCHANGED <<graph, started>>

RecordRefused(w) ==
  /\ pc[w] = "record"
  /\ CanWrite(w)
  /\ IndexViolated(w)
  /\ Abort(w)
  /\ UNCHANGED <<graph, started>>

\* Mutants of StageTraces: the rows are committed ahead of Neo4j, and a new
\* assertion replaces the rows of earlier ones.
StageTracesAtOnce(w) ==
  /\ pc[w] \in {"stage", "edit_stage"}
  /\ CanWrite(w)
  /\ disk' = [View(w) EXCEPT !.traces = Append(@, op[w].trace)]
  /\ staged' = disk'
  /\ locker' = NoWriter
  /\ Goto(w, IF pc[w] = "stage" THEN "merge" ELSE "edit_set")
  /\ UNCHANGED <<graph, op, started>>

StageOnlyTraces(w) ==
  /\ pc[w] \in {"stage", "edit_stage"}
  /\ Write(w, [View(w) EXCEPT !.traces = <<op[w].trace>>])
  /\ Goto(w, IF pc[w] = "stage" THEN "merge" ELSE "edit_set")
  /\ UNCHANGED <<graph, op, started>>

\* One provenance row per attribute, for winners and losers alike.
StageTraces(w) ==
  /\ pc[w] \in {"stage", "edit_stage"}
  /\ Write(w, [View(w) EXCEPT !.traces = Append(@, op[w].trace)])
  /\ Goto(w, IF pc[w] = "stage" THEN "merge" ELSE "edit_set")
  /\ UNCHANGED <<graph, op, started>>

\* Mutant of Merged: the last writer wins, as in a plain MERGE.
MergedOver(o) ==
  LET cur == graph[o.trace.node]
      attrs == Overlay(o.old.attrs, o.trace.facts)
  IN IF cur = NoNode THEN [type |-> o.type, attrs |-> attrs, version |-> 1]
     ELSE [cur EXCEPT !.attrs = attrs, !.version = @ + 1]

\* The node as MERGE leaves it, whatever type it is merged as.
Merged(o) ==
  LET cur == graph[o.trace.node]
      attrs == Reconcile(o.seen, o.old.attrs, o.trace)
  IN IF cur = NoNode THEN [type |-> o.type, attrs |-> attrs, version |-> 1]
     ELSE [cur EXCEPT !.attrs = attrs, !.version = @ + 1]

Collides(o) == graph[o.trace.node].type \notin {o.type, NoType}

\* The Neo4j MERGE; its result is inspected after Neo4j has committed it.
Merge(w) ==
  LET o == op[w]
  IN /\ pc[w] = "merge"
     /\ graph' = [graph EXCEPT ![o.trace.node] = Merged(o)]
     /\ IF Collides(o) THEN Abort(w) ELSE Goto(w, "commit") /\ UNCHANGED <<sqlite, op>>
     /\ UNCHANGED started

CommitNode(w) ==
  /\ pc[w] = "commit"
  /\ Commit(w)
  /\ Finish(w)
  /\ UNCHANGED <<graph, started>>

\* The commit of add_node() raised: the node is deleted from Neo4j.
Compensate(w) ==
  /\ pc[w] = "compensate"
  /\ graph' = [graph EXCEPT ![op[w].trace.node] = NoNode]
  /\ Finish(w)
  /\ UNCHANGED <<sqlite, started>>

-----------------------------------------------------------------------------
(* Human edits: edit_node() and resolve_conflict() *)

\* edit_node() reads the node first and keeps what it read.
ReadForEdit(w, n, changes, conflict) ==
  /\ Present(n)
  /\ Start(w, [NoOp EXCEPT !.trace = HumanTrace(n, changes), !.old = graph[n],
                           !.resolving = conflict])
  /\ Goto(w, "edit_source")
  /\ UNCHANGED <<graph, sqlite>>

EditNode(w, n, changes) == ReadForEdit(w, n, changes, 0)

\* Mutant of ResolveConflict: a resolved row may be resolved again.
ResolveAnyConflict(w, k, value) ==
  LET row == View(w).conflicts[k]
  IN ReadForEdit(w, row.node, [Nothing EXCEPT ![row.attr] = value], k)

\* resolve_conflict(): a row that is not open is refused before anything is done.
ResolveConflict(w, k, value) ==
  LET row == View(w).conflicts[k]
  IN /\ row.open
     /\ ReadForEdit(w, row.node, [Nothing EXCEPT ![row.attr] = value], k)

\* The synthetic source record of the edit, committed at once.
SaveEdit(w) ==
  /\ pc[w] = "edit_source"
  /\ CanWrite(w)
  /\ disk' = [View(w) EXCEPT !.sources = @ \cup {op[w].trace.source}]
  /\ staged' = disk'
  /\ locker' = NoWriter
  /\ Goto(w, "edit_stage")
  /\ UNCHANGED <<graph, op, started>>

\* The node as the SET of edit_node() leaves it.
Edited(o) == [graph[o.trace.node] EXCEPT !.attrs = Overlay(o.old.attrs, o.trace.facts),
                                         !.version = o.old.version + 1]

SetNode(w) ==
  LET o == op[w]
  IN /\ pc[w] = "edit_set"
     /\ IF Present(o.trace.node)
          THEN /\ graph' = [graph EXCEPT ![o.trace.node] = Edited(o)]
               /\ Goto(w, "edit_commit")
               /\ UNCHANGED <<sqlite, op>>
          ELSE Abort(w) /\ UNCHANGED graph
     /\ UNCHANGED started

\* Mutant of CommitEdit: edit_node() returns without the commit.
CommitEditForgotten(w) ==
  /\ pc[w] = "edit_commit"
  /\ IF op[w].resolving = 0 THEN Finish(w) ELSE Goto(w, "close") /\ UNCHANGED op
  /\ UNCHANGED <<graph, sqlite, started>>

CommitEdit(w) ==
  /\ pc[w] = "edit_commit"
  /\ Commit(w)
  /\ IF op[w].resolving = 0 THEN Finish(w) ELSE Goto(w, "close") /\ UNCHANGED op
  /\ UNCHANGED <<graph, started>>

\* The commit of edit_node() raised: what it read is written back.
Restore(w) ==
  LET n == op[w].trace.node
      old == op[w].old
  IN /\ pc[w] = "restore"
     /\ graph' = IF Present(n)
                   THEN [graph EXCEPT ![n].attrs = old.attrs, ![n].version = old.version]
                   ELSE graph
     /\ Finish(w)
     /\ UNCHANGED <<sqlite, started>>

\* ConflictStore.resolve(), once the edit is committed.
CloseConflict(w) ==
  LET k == op[w].resolving
      row == View(w).conflicts[k]
  IN /\ pc[w] = "close"
     /\ Write(w, [View(w) EXCEPT
                    !.conflicts[k] = Closed(@, op[w].trace.facts[row.attr])])
     /\ Goto(w, "close_commit")
     /\ UNCHANGED <<graph, op, started>>

CommitClose(w) ==
  /\ pc[w] = "close_commit"
  /\ Commit(w)
  /\ Finish(w)
  /\ UNCHANGED <<graph, started>>

-----------------------------------------------------------------------------
(* Failures *)

\* Mutant of BusyTimeout: a process waits for the write lock without limit.
NoBusyTimeout(w) == FALSE /\ UNCHANGED vars

\* SQLite's busy timeout: another process holds the write lock, the
\* statement raises and the operation ends where it is.
BusyTimeout(w) ==
  /\ pc[w] \in {"record", "stage", "edit_source", "edit_stage", "close"}
  /\ ~ CanWrite(w)
  /\ Abort(w)
  /\ UNCHANGED <<graph, started>>

\* A Neo4j statement raises without having been applied.  The errors of
\* get_node() and of a compensating statement leave without a rollback.
Neo4jFails(w) ==
  /\ "neo4j" \in Faults
  /\ \/ pc[w] \in {"merge", "edit_set"} /\ Abort(w)
     \/ pc[w] \in {"read", "compensate", "restore"} /\ Finish(w) /\ UNCHANGED sqlite
  /\ UNCHANGED <<graph, started>>

\* Neo4j applies the statement, but the client sees an error.
ReplyLost(w) ==
  LET o == op[w]
  IN /\ "reply" \in Faults
     /\ \/ pc[w] = "merge" /\ graph' = [graph EXCEPT ![o.trace.node] = Merged(o)]
        \/ /\ pc[w] = "edit_set"
           /\ Present(o.trace.node)
           /\ graph' = [graph EXCEPT ![o.trace.node] = Edited(o)]
     /\ Abort(w)
     /\ UNCHANGED started

\* A SQLite commit raises: in add_source_record() it is rolled back, in
\* add_node() and edit_node() Neo4j is compensated and SQLite is left alone,
\* at the end of resolve_conflict() nothing is undone.
CommitFails(w) ==
  /\ "commit" \in Faults
  /\ \/ pc[w] = "edit_source" /\ CanWrite(w) /\ Abort(w)
     \/ pc[w] = "commit" /\ FailedCommit(w) /\ Goto(w, "compensate") /\ UNCHANGED op
     \/ pc[w] = "edit_commit" /\ FailedCommit(w) /\ Goto(w, "restore") /\ UNCHANGED op
     \/ pc[w] = "close_commit" /\ FailedCommit(w) /\ Finish(w)
  /\ UNCHANGED <<graph, started>>

\* add_source_record() of an ingest fails: nothing was begun, but what an
\* earlier failed commit left staged is dropped.
SaveRecordFails(w) ==
  /\ "commit" \in Faults
  /\ pc[w] = "idle"
  /\ locker = w
  /\ Rollback(w)
  /\ UNCHANGED <<graph, pc, op, started>>

\* The process dies, its SQLite transaction with it, and is started again.
Crash(w) ==
  /\ "crash" \in Faults
  /\ pc[w] # "idle" \/ locker = w
  /\ Abort(w)
  /\ UNCHANGED <<graph, started>>

-----------------------------------------------------------------------------
Init ==
  /\ graph = [n \in Nodes |-> NoNode]
  /\ disk = EmptyImage
  /\ staged = EmptyImage
  /\ locker = NoWriter
  /\ pc = [w \in Writers |-> "idle"]
  /\ op = [w \in Writers |-> NoOp]
  /\ started = 0

\* Every process ingests (the API when a record is pushed to it).
Ingest(w) ==
  \/ \E b \in Batches : SaveRecord(w, b)
  \/ ReadNode(w) \/ ReconcileNode(w)
  \/ \E a \in Attrs : FindOpenRow(w, a)
  \/ RecordConflict(w) \/ RecordRefused(w)
  \/ StageTraces(w) \/ Merge(w) \/ CommitNode(w) \/ Compensate(w)

\* Edits and resolutions only reach the API process.
Edit(w) ==
  /\ w = Api
  /\ \/ \E n \in Nodes, changes \in Edits : EditNode(w, n, changes)
     \/ \E k \in DOMAIN View(w).conflicts, v \in Values : ResolveConflict(w, k, v)
     \/ SaveEdit(w) \/ SetNode(w) \/ CommitEdit(w) \/ Restore(w)
     \/ CloseConflict(w) \/ CommitClose(w)

Fail(w) ==
  \/ BusyTimeout(w) \/ Neo4jFails(w) \/ ReplyLost(w)
  \/ CommitFails(w) \/ SaveRecordFails(w) \/ Crash(w)

Next == \E w \in Writers : Ingest(w) \/ Edit(w) \/ Fail(w)

Spec == Init /\ [][Next]_vars

-----------------------------------------------------------------------------
(* Properties *)

\* The types, by part.  Without a lock holder nothing is staged.
SqliteType ==
  /\ disk \in Image
  /\ staged \in Image
  /\ locker \in Writers \cup {NoWriter}
  /\ locker = NoWriter => staged = disk

ControlType ==
  /\ pc \in [Writers -> Steps]
  /\ op \in [Writers -> Op]
  /\ started \in 0..MaxOps

\* The variables stay in their types: no step leaves a row the tables would
\* refuse, a half-built node, or staged rows that nobody can commit.
TypeOK == graph \in [Nodes -> Node] /\ SqliteType /\ ControlType

HasTrace(image, n, a, value, conf, source) ==
  \E k \in DOMAIN image.traces :
    LET t == image.traces[k]
    IN t.node = n /\ t.facts[a] = value /\ t.conf = conf /\ t.source = source

\* Every trace names a source record that is stored.
Sourced(image) ==
  \A k \in DOMAIN image.traces : image.traces[k].source \in image.sources

\* The incoming side of conflict row c is one of the traces.
ConflictTraced(image, c) ==
  HasTrace(image, c.node, c.attr, c.incoming.value, c.incoming.conf, c.incoming.source)

\* Every fact can be followed back: a committed trace names a stored source
\* record, and the incoming side of a committed conflict row is one of the
\* committed traces (traces and conflict rows are staged together, the record
\* before them).
AuditComplete ==
  /\ Sourced(disk)
  /\ \A k \in DOMAIN disk.conflicts : ConflictTraced(disk, disk.conflicts[k])

\* A conflict is resolved only after the chosen value was written as a human
\* edit: its trace is committed whenever the row says "resolved".
ResolutionTraced ==
  \A k \in DOMAIN disk.conflicts :
    LET c == disk.conflicts[k]
    IN ~ c.open => HasTrace(disk, c.node, c.attr, c.chosen, "human", HumanEdits)

\* Neo4j is written before SQLite commits: a committed trace never describes
\* a node the graph does not have.
TracedNodeExists == \A k \in DOMAIN disk.traces : Present(disk.traces[k].node)

\* Every attribute value in the graph is backed by a trace, committed or about
\* to be committed by the writer that wrote it.
ValuesTraced ==
  \A n \in Nodes, a \in Attrs :
    graph[n].attrs[a] # NoValue =>
      \/ \E k \in DOMAIN disk.traces : /\ disk.traces[k].node = n
                                       /\ disk.traces[k].facts[a] = graph[n].attrs[a]
      \/ \E w \in Writers : /\ pc[w] \in {"commit", "edit_commit"}
                            /\ op[w].trace.node = n
                            /\ op[w].trace.facts[a] = graph[n].attrs[a]

\* At most one open conflict per node and attribute, whoever records it.
OneOpenRow ==
  \A n \in Nodes, a \in Attrs :
    \A j, k \in OpenRows(disk, n, a) : j = k

\* A resolved conflict is never written again.
ResolutionsFinal ==
  [][\A k \in DOMAIN disk.conflicts :
       ~ disk.conflicts[k].open => /\ k \in DOMAIN disk'.conflicts
                                   /\ disk'.conflicts[k] = disk.conflicts[k]]_disk

\* Traces are only appended: no step, whether it commits, fails or compensates,
\* drops or rewrites a committed one.
KeepsTraces == \A k \in DOMAIN disk.traces : /\ k \in DOMAIN disk'.traces
                                             /\ disk'.traces[k] = disk.traces[k]
TracesAppendOnly == [][KeepsTraces]_disk

\* A disagreement nobody could settle is in the queue when add_node() returns.
ConflictsReachQueue ==
  [][\A w \in Writers :
       pc[w] = "commit" /\ disk'.traces # disk.traces =>
         \A a \in QueuedBy(op[w]) :
           \E k \in OpenRows(disk', op[w].trace.node, a) :
             disk'.conflicts[k].incoming.value = op[w].trace.facts[a]]_vars

\* A merge changes an attribute: writer w has just run MERGE over a stored value.
MergeReplaces(w, n, a) ==
  /\ pc[w] = "merge"
  /\ graph[n].attrs[a] # NoValue
  /\ graph'[n].attrs[a] # graph[n].attrs[a]

\* A merge leaves alone what the latest trace says a human wrote.
LatestHumanKept ==
  [][\A w \in Writers, n \in Nodes, a \in Attrs :
       MergeReplaces(w, n, a) =>
         LET before == disk.traces
         IN Matches(before, n, a) # {} => Latest(before, n, a).conf # "human"]_vars

\* "HUMAN is sacred": a merge never replaces a value a human has written.
HumanIsSacred ==
  [][\A w \in Writers, n \in Nodes, a \in Attrs :
       MergeReplaces(w, n, a) =>
         ~ HasTrace(disk, n, a, graph[n].attrs[a], "human", HumanEdits)]_vars

\* No operation hangs: every one that was begun ends.
OperationsEnd == \A w \in Writers : pc[w] # "idle" ~> pc[w] = "idle"

-----------------------------------------------------------------------------
(* What makes the safety properties inductive *)

\* The conflicts an ingest still has to record are conflicts it found.
RecordingInv ==
  \A w \in Writers :
    /\ pc[w] \in {"find", "record"} => op[w].todo \subseteq QueuedBy(op[w])
    /\ pc[w] = "record" => op[w].attr \in op[w].todo

\* The steps of an operation before its trace is staged, and those of them at
\* which it may have staged conflict rows.
Untraced == {"read", "reconcile", "find", "record", "stage", "edit_stage"}
Recorders == {"find", "record", "stage"}

\* An operation stages a trace only after its source record is stored.
SourcedInv ==
  /\ Sourced(disk) /\ Sourced(staged)
  /\ disk.sources \subseteq staged.sources
  /\ \A w \in Writers : pc[w] \in Untraced => op[w].trace.source \in disk.sources

\* A conflict row keeps its node and attribute, staged or committed, and a
\* lookup's hit stays the row of the attribute it was made for.
SameKey(c, d) == c.node = d.node /\ c.attr = d.attr

HitInv ==
  /\ \A k \in DOMAIN disk.conflicts :
       k \in DOMAIN staged.conflicts /\ SameKey(staged.conflicts[k], disk.conflicts[k])
  /\ \A w \in Writers :
       LET o == op[w]
       IN pc[w] = "record" /\ o.hit # 0 =>
            /\ o.hit \in DOMAIN View(w).conflicts
            /\ SameKey(View(w).conflicts[o.hit], [node |-> o.trace.node, attr |-> o.attr])

\* The trace of operation o is the incoming side of conflict row c.
Pending(o, c) ==
  LET t == o.trace
  IN /\ t.node = c.node
     /\ c.incoming = [value |-> t.facts[c.attr], conf |-> t.conf, source |-> t.source]

\* A staged conflict row is traced, or the lock holder is about to trace it.
TracedInv ==
  /\ \A k \in DOMAIN disk.conflicts : ConflictTraced(disk, disk.conflicts[k])
  /\ \A k \in DOMAIN staged.conflicts :
       \/ ConflictTraced(staged, staged.conflicts[k])
       \/ \E w \in Writers : /\ locker = w /\ pc[w] \in Recorders
                             /\ Pending(op[w], staged.conflicts[k])

\* The staged traces continue the committed ones.
PrefixInv ==
  \A k \in DOMAIN disk.traces : k \in DOMAIN staged.traces /\ staged.traces[k] = disk.traces[k]

\* No image, staged or committed, has two open rows of a node and attribute.
Unambiguous(image) ==
  \A n \in Nodes, a \in Attrs : \A j, k \in OpenRows(image, n, a) : j = k

OpenInv == Unambiguous(disk) /\ Unambiguous(staged)

\* A row is closed, staged or committed, when the chosen value is traced.
Settled(image) ==
  \A k \in DOMAIN image.conflicts :
    LET c == image.conflicts[k]
    IN ~ c.open => HasTrace(image, c.node, c.attr, c.chosen, "human", HumanEdits)

\* From its start to the closing of the row a resolution carries a human edit
\* of the row's node; once staged, the edit's trace stays in sight.
Editing == {"edit_source", "edit_stage", "edit_set", "edit_commit", "close"}

EditInv ==
  \A w \in Writers :
    LET o == op[w]
        rows == View(w).conflicts
    IN /\ pc[w] \in Editing =>
            /\ o.trace.conf = "human" /\ o.trace.source = HumanEdits
            /\ o.resolving # 0 => /\ o.resolving \in DOMAIN rows
                                  /\ rows[o.resolving].node = o.trace.node
       /\ pc[w] \in {"edit_set", "edit_commit", "close"} =>
            \E k \in DOMAIN View(w).traces : View(w).traces[k] = o.trace
       /\ pc[w] = "close" => o.resolving # 0

SettledInv == Settled(disk) /\ Settled(staged) /\ EditInv

\* The steps between the staging of a trace and the writing of its node.
Unwritten == {"merge", "edit_set"}

\* Without commits that fail no node goes away, and the node of a staged trace
\* is there or about to be written by the lock holder.
NodesInv ==
  /\ \A w \in Writers : pc[w] \notin {"compensate", "restore"}
  /\ \A k \in DOMAIN disk.traces : Present(disk.traces[k].node)
  /\ \A k \in DOMAIN staged.traces :
       \/ Present(staged.traces[k].node)
       \/ \E w \in Writers : /\ locker = w /\ pc[w] \in Unwritten
                             /\ op[w].trace.node = staged.traces[k].node

-----------------------------------------------------------------------------
(* What one process alone can rely on, whatever fails *)

\* What an ingest has read stays true until it writes.
ReadInv ==
  \A w \in Writers :
    LET o == op[w]
    IN /\ pc[w] \in {"read", "reconcile"} => locker = NoWriter
       /\ pc[w] \in {"reconcile", "find", "record", "stage", "merge"} =>
            o.old = graph[o.trace.node]
       /\ pc[w] \in {"find", "record", "stage", "merge"} => o.seen = disk.traces
       /\ pc[w] \in {"read", "reconcile", "find", "record", "stage", "merge"} =>
            o.trace.conf # "human" /\ o.trace.source # HumanEdits

\* A conflict that was recorded is open until its node is committed, and a row
\* that was found open is open when it is written.
QueuedAs(image, o, a) ==
  \E k \in OpenRows(image, o.trace.node, a) :
    image.conflicts[k].incoming.value = o.trace.facts[a]

QueueInv ==
  \A w \in Writers :
    LET o == op[w]
    IN /\ pc[w] = "record" /\ o.hit # 0 => o.hit \in OpenRows(View(w), o.trace.node, o.attr)
       /\ pc[w] \in {"stage", "merge", "commit"} => o.todo = {}
       /\ pc[w] \in {"find", "record", "stage", "merge", "commit"} =>
            \A a \in QueuedBy(o) \ o.todo : QueuedAs(View(w), o, a)
       /\ pc[w] \in Editing /\ o.resolving # 0 => View(w).conflicts[o.resolving].open

\* Nothing staged changes a row that is committed as resolved.
DoneInv ==
  \A k \in DOMAIN disk.conflicts :
    ~ disk.conflicts[k].open => /\ k \in DOMAIN staged.conflicts
                                /\ staged.conflicts[k] = disk.conflicts[k]

\* A human trace names the source of human edits, never a record that is read.
HumanInv ==
  LET Named(t) == t.conf = "human" => t.source = HumanEdits
  IN /\ \A k \in DOMAIN disk.traces : Named(disk.traces[k])
     /\ \A k \in DOMAIN staged.traces : Named(staged.traces[k])
     /\ \A w \in Writers : Named(op[w].trace)

AloneInv == ReadInv /\ QueueInv /\ DoneInv /\ HumanInv

-----------------------------------------------------------------------------
(* The two stores as one *)

\* What a caller can see: the rows an operation has staged count from the
\* moment it has written Neo4j.
Visible ==
  IF \E w \in Writers : pc[w] \in {"commit", "edit_commit"} /\ locker = w
    THEN staged ELSE disk

Rows(image, open) ==
  {image.conflicts[k] : k \in {k \in DOMAIN image.conflicts : image.conflicts[k].open = open}}

Atomic == INSTANCE AtomicGraph WITH
  traces <- Visible.traces,
  queue <- Rows(Visible, TRUE),
  settled <- Rows(Visible, FALSE)

\* One process, and no failure after Neo4j was written: the two stores act as
\* one that changes atomically.
ActsAsOneStore == Atomic!Spec

\* The hypotheses of that: what a deployment without a command line, whose
\* records give an id one type, meets when at most Neo4j refuses statements.
OneStore ==
  /\ Importers = {}
  /\ Faults \subseteq {"neo4j"}
  /\ \A b, c \in Batches : b.trace.node = c.trace.node => b.type = c.type

\* An ingest asserts a batch, and a node has the type the batches give its id.
BatchInv ==
  /\ \A w \in Writers :
       pc[w] \in {"read", "reconcile", "find", "record", "stage", "merge", "commit"} =>
         \E b \in Batches : op[w].type = b.type /\ op[w].trace = b.trace
  /\ \A n \in Nodes :
       \/ graph[n] = NoNode
       \/ \E b \in Batches : b.trace.node = n /\ graph[n].type = b.type

\* An edit carries a change a human can submit and the node as it still is; a
\* resolution, the open row and the value chosen for it, which it then writes.
Changes(rows, o) ==
  IF o.resolving = 0 THEN Edits
    ELSE {[Nothing EXCEPT ![rows[o.resolving].attr] = v] : v \in Values}

ChangeInv ==
  \A w \in Writers :
    LET o == op[w]
        k == o.resolving
        row == disk.conflicts[k]
    IN /\ pc[w] \in Editing \cup {"close_commit"} =>
            /\ k # 0 => k \in DOMAIN disk.conflicts /\ row.open /\ row.node = o.trace.node
            /\ \E changes \in Changes(disk.conflicts, o) :
                 o.trace = HumanTrace(o.trace.node, changes)
       /\ pc[w] \in {"edit_source", "edit_stage", "edit_set"} => o.old = graph[o.trace.node]
       /\ pc[w] \in {"edit_commit", "close", "close_commit"} /\ k # 0 =>
            graph[row.node].attrs[row.attr] = o.trace.facts[row.attr]
       /\ pc[w] \in {"close", "close_commit"} =>
            /\ k # 0 /\ disk.traces # <<>>
            /\ disk.traces[Len(disk.traces)] = o.trace

\* The write lock is held from the first staged row to the commit.
LockInv ==
  \A w \in Writers :
    /\ pc[w] \notin {"compensate", "restore"}
    /\ locker = w => pc[w] \in Recorders \cup Unwritten \cup
                              {"commit", "edit_commit", "close_commit"}
    /\ pc[w] \in Unwritten \cup {"commit", "edit_commit", "close_commit"} => locker = w

\* The open rows of queue once the conflicts of operation o about the
\* attributes in queued are recorded.
EnqueueFor(queue, o, queued) ==
  LET new(a) == ConflictOf(o.seen, o.old.attrs, o.trace, a)
      ofAttr(a) == {r \in queue : r.node = o.trace.node /\ r.attr = a}
  IN {r \in queue : r.node # o.trace.node \/ r.attr \notin queued} \cup
     UNION {IF ofAttr(a) = {} THEN {new(a)} ELSE {Refreshed(r, new(a)) : r \in ofAttr(a)} :
              a \in queued}

\* What is staged is what the operation has done to the committed image so far.
StagedInv ==
  \A w \in Writers :
    LET o == op[w]
    IN /\ pc[w] \in Recorders => View(w).traces = disk.traces
       /\ pc[w] \in Unwritten \cup {"commit", "edit_commit"} =>
            staged.traces = Append(disk.traces, o.trace)
       /\ pc[w] \in Recorders \cup {"merge"} =>
            /\ Rows(View(w), TRUE) = EnqueueFor(Rows(disk, TRUE), o, QueuedBy(o) \ o.todo)
            /\ Rows(View(w), FALSE) = Rows(disk, FALSE)
       /\ pc[w] \in {"edit_set", "edit_commit"} => staged.conflicts = disk.conflicts
       /\ pc[w] = "close_commit" =>
            /\ staged.traces = disk.traces
            /\ LET row == disk.conflicts[o.resolving]
               IN staged.conflicts = [disk.conflicts EXCEPT
                                        ![o.resolving] = Closed(row, o.trace.facts[row.attr])]

OneStoreInv == BatchInv /\ ChangeInv /\ LockInv /\ StagedInv /\ ValuesTraced

FairSpec == Spec /\ \A w \in Writers : WF_vars((Ingest(w) \/ Edit(w) \/ Fail(w)) /\ pc[w] # "idle")
=============================================================================
