---------------------------- MODULE GraphStoreProofs ----------------------------
(***************************************************************************)
(* Theorems about GraphStore, for any set of nodes, attributes, values,    *)
(* records and requests.                                                   *)
(*                                                                         *)
(* With any importers and every fault: the type invariant, the             *)
(* completeness of the audit trail, the append-only traces, one open       *)
(* conflict row per attribute, and the human trace behind a resolved one.  *)
(* Unless a SQLite commit fails: the nodes of the traces.  With one        *)
(* process and every fault: final resolutions, conflicts that reach the    *)
(* queue, and the latest human value.  With one process whose Neo4j at     *)
(* most refuses statements: the trace behind each value, and the           *)
(* refinement of AtomicGraph.                                              *)
(***************************************************************************)
EXTENDS GraphStore, ConflictDecisionProofs

(* The data *)

LEMMA NothingType == Nothing \in Attributes
  BY DEF Nothing, Attributes

LEMMA HumanTraceType ==
  ASSUME NEW n \in Nodes, NEW changes \in Attributes
  PROVE  HumanTrace(n, changes) \in Trace
  BY DEF HumanTrace, Trace, Confidences, Sources

LEMMA NoOpType == NoOp \in Op
  <1>1. (CHOOSE n \in Nodes : TRUE) \in Nodes /\ (CHOOSE a \in Attrs : TRUE) \in Attrs
    BY RequestAssumption
  <1>2. HumanTrace(CHOOSE n \in Nodes : TRUE, Nothing) \in Trace
    BY <1>1, HumanTraceType, NothingType
  <1>3. NoNode \in Node
    BY NothingType DEF NoNode, Node
  <1>4. <<>> \in Seq(Trace)
    OBVIOUS
  <1> QED BY <1>1, <1>2, <1>3, <1>4 DEF NoOp, Op

\* UPDATE of one row, at a position the table has or has not.
LEMMA RowUpdate ==
  ASSUME NEW S, NEW seq \in Seq(S), NEW k, NEW e, k \in DOMAIN seq => e \in S
  PROVE  /\ [seq EXCEPT ![k] = e] \in Seq(S)
         /\ DOMAIN [seq EXCEPT ![k] = e] = DOMAIN seq
         /\ \A j \in DOMAIN seq : [seq EXCEPT ![k] = e][j] = IF j = k THEN e ELSE seq[j]
  <1>1. DOMAIN seq = 1..Len(seq) /\ Len(seq) \in Nat
    OBVIOUS
  <1>2. seq \in [1..Len(seq) -> S]
    OBVIOUS
  <1>3. [seq EXCEPT ![k] = e] \in [1..Len(seq) -> S]
    BY <1>2, <1>1
  <1>4. [seq EXCEPT ![k] = e] \in Seq(S)
    BY <1>1, <1>3, SeqDef
  <1> QED BY <1>1, <1>2, <1>4

LEMMA ImageParts ==
  ASSUME NEW image \in Image
  PROVE  /\ \A S \in SUBSET Sources : [image EXCEPT !.sources = image.sources \cup S] \in Image
         /\ \A t \in Trace : [image EXCEPT !.traces = Append(image.traces, t)] \in Image
         /\ \A rows \in Seq(ConflictRow) : [image EXCEPT !.conflicts = rows] \in Image
  <1> \A t \in Trace : Append(image.traces, t) \in Seq(Trace)
    BY AppendProperties DEF Image
  <1> QED BY DEF Image

LEMMA EmptyImageType == EmptyImage \in Image
  <1> <<>> \in Seq(Trace) /\ <<>> \in Seq(ConflictRow)
    OBVIOUS
  <1> QED BY DEF EmptyImage, Image

-----------------------------------------------------------------------------
(* SQLite seen from one connection *)

LEMMA ViewType ==
  ASSUME SqliteType, NEW w
  PROVE  View(w) \in Image
  BY DEF SqliteType, View

LEMMA WriterIsNotNobody ==
  ASSUME NEW w \in Writers
  PROVE  w # NoWriter
  BY StoreAssumption DEF Writers

LEMMA WriteType ==
  ASSUME SqliteType, NEW w \in Writers, NEW image \in Image, Write(w, image)
  PROVE  SqliteType'
  BY WriterIsNotNobody DEF SqliteType, Write

LEMMA CommitType ==
  ASSUME SqliteType, NEW w \in Writers, Commit(w)
  PROVE  SqliteType'
  BY WriterIsNotNobody DEF SqliteType, Commit, View

LEMMA RollbackType ==
  ASSUME SqliteType, NEW w \in Writers, Rollback(w)
  PROVE  SqliteType'
  BY WriterIsNotNobody DEF SqliteType, Rollback

LEMMA UnchangedType ==
  ASSUME SqliteType, UNCHANGED sqlite
  PROVE  SqliteType'
  BY DEF SqliteType, sqlite

\* The commit of add_source_record().
LEMMA SaveType ==
  ASSUME SqliteType, NEW w \in Writers, NEW source \in Sources,
         disk' = [View(w) EXCEPT !.sources = @ \cup {source}],
         staged' = disk', locker' = NoWriter
  PROVE  SqliteType'
  <1>1. View(w) \in Image
    BY ViewType
  <1>2. disk' = [View(w) EXCEPT !.sources = View(w).sources \cup {source}]
    BY <1>1
  <1>3. disk' \in Image
    BY <1>1, <1>2, ImageParts
  <1> QED BY <1>3 DEF SqliteType

-----------------------------------------------------------------------------
(* Control *)

LEMMA GotoType ==
  ASSUME ControlType, NEW w \in Writers, NEW step \in Steps, Goto(w, step),
         UNCHANGED <<op, started>>
  PROVE  ControlType'
  BY DEF ControlType, Goto

LEMMA GotoOpType ==
  ASSUME ControlType, NEW w \in Writers, NEW step \in Steps, Goto(w, step),
         NEW o \in Op, op' = [op EXCEPT ![w] = o], UNCHANGED started
  PROVE  ControlType'
  BY DEF ControlType, Goto

LEMMA FinishType ==
  ASSUME ControlType, NEW w \in Writers, Finish(w), UNCHANGED started
  PROVE  ControlType'
  <1> "idle" \in Steps
    BY DEF Steps
  <1> QED BY NoOpType, GotoOpType DEF Finish

LEMMA StartType ==
  ASSUME ControlType, NEW w \in Writers, NEW o \in Op, Start(w, o),
         NEW step \in Steps, Goto(w, step)
  PROVE  ControlType'
  BY StoreAssumption DEF ControlType, Goto, Start

LEMMA OpAt ==
  ASSUME ControlType, NEW w \in Writers
  PROVE  /\ op[w] \in Op /\ pc[w] \in Steps
         /\ op[w].trace \in Trace /\ op[w].trace.node \in Nodes
         /\ op[w].trace.facts \in Attributes /\ op[w].trace.source \in Sources
         /\ op[w].old \in Node /\ op[w].old.attrs \in Attributes
         /\ op[w].seen \in Seq(Trace)
  BY DEF ControlType, Op, Node, Trace

LEMMA AbortType ==
  ASSUME SqliteType, ControlType, NEW w \in Writers, Abort(w), UNCHANGED started
  PROVE  SqliteType' /\ ControlType'
  BY RollbackType, FinishType DEF Abort

-----------------------------------------------------------------------------
(* Nodes *)

LEMMA PresentType ==
  ASSUME graph \in [Nodes -> Node], NEW n \in Nodes
  PROVE  graph[n] \in Node /\ graph[n].attrs \in Attributes /\ graph[n].version \in Nat
  BY DEF Node

LEMMA MergedType ==
  ASSUME graph \in [Nodes -> Node], NEW o \in Op
  PROVE  Merged(o) \in Node
  <1>1. o.trace \in Trace /\ o.trace.node \in Nodes /\ o.old.attrs \in Attributes
        /\ o.type \in Types \cup {NoType}
    BY DEF Op, Trace, Node
  <1>2. Reconcile(o.seen, o.old.attrs, o.trace) \in Attributes
    BY <1>1, ReconcileType
  <1>3. graph[o.trace.node] \in Node
    BY <1>1
  <1> DEFINE attrs == Reconcile(o.seen, o.old.attrs, o.trace)
  <1> HIDE DEF attrs
  <1>4. [type |-> o.type, attrs |-> attrs, version |-> 1] \in Node
    BY <1>1, <1>2 DEF Node, attrs
  <1> DEFINE cur == graph[o.trace.node]
             version == cur.version + 1
  <1>5. version \in Nat
    BY <1>3 DEF Node
  <1> HIDE DEF version
  <1>6. [cur EXCEPT !.attrs = attrs, !.version = version] \in Node
    BY <1>2, <1>3, <1>5 DEF Node, attrs
  <1>7. [cur EXCEPT !.attrs = attrs, !.version = @ + 1]
          = [cur EXCEPT !.attrs = attrs, !.version = version]
    BY <1>3 DEF Node, version
  <1> QED BY <1>4, <1>6, <1>7 DEF Merged, attrs

LEMMA OverlayType ==
  ASSUME NEW attrs \in Attributes, NEW changes \in Attributes
  PROVE  Overlay(attrs, changes) \in Attributes
  BY DEF Overlay, Attributes

LEMMA EditedType ==
  ASSUME graph \in [Nodes -> Node], NEW o \in Op
  PROVE  Edited(o) \in Node
  <1>1. o.trace.node \in Nodes /\ o.old.attrs \in Attributes /\ o.trace.facts \in Attributes
        /\ o.old.version \in Nat
    BY DEF Op, Trace, Node
  <1>2. Overlay(o.old.attrs, o.trace.facts) \in Attributes
    BY <1>1, OverlayType
  <1>3. graph[o.trace.node] \in Node
    BY <1>1
  <1> DEFINE attrs == Overlay(o.old.attrs, o.trace.facts)
             version == o.old.version + 1
  <1> HIDE DEF attrs
  <1>4. version \in Nat
    BY <1>1
  <1> HIDE DEF version
  <1>5. [graph[o.trace.node] EXCEPT !.attrs = attrs, !.version = version] \in Node
    BY <1>2, <1>3, <1>4 DEF Node, attrs
  <1> QED BY <1>5 DEF Edited, attrs, version

-----------------------------------------------------------------------------
(* The type invariant: one lemma per group of actions *)

LEMMA IngestReadType ==
  ASSUME TypeOK, NEW w \in Writers,
         \/ \E b \in Batches : SaveRecord(w, b)
         \/ ReadNode(w)
         \/ ReconcileNode(w)
         \/ \E a \in Attrs : FindOpenRow(w, a)
  PROVE  TypeOK'
  <1> USE DEF TypeOK
  <1>1. ASSUME NEW b \in Batches, SaveRecord(w, b) PROVE TypeOK'
    <2>1. b.type \in Types /\ b.trace \in Trace /\ b.trace.source \in Sources
      BY RequestAssumption DEF Batch, Trace
    <2>2. [NoOp EXCEPT !.type = b.type, !.trace = b.trace] \in Op
      BY <2>1, NoOpType DEF Op
    <2>3. SqliteType'
      BY <1>1, <2>1, SaveType DEF SaveRecord
    <2>4. ControlType'
      BY <1>1, <2>2, StartType DEF SaveRecord, Steps
    <2> QED BY <1>1, <2>3, <2>4 DEF SaveRecord
  <1>2. CASE ReadNode(w)
    <2> DEFINE o == [op[w] EXCEPT !.old = graph[op[w].trace.node]]
    <2>1. o \in Op
      BY OpAt DEF Op
    <2>2. ControlType'
      <3> HIDE DEF o
      <3>1. op' = [op EXCEPT ![w] = o]
        BY <1>2 DEF ReadNode, ControlType, o
      <3> QED BY <1>2, <2>1, <3>1, GotoOpType DEF ReadNode, Steps
    <2> QED BY <1>2, <2>2, UnchangedType DEF ReadNode
  <1>3. CASE ReconcileNode(w)
    <2> DEFINE seen == [op[w] EXCEPT !.seen = View(w).traces]
               o == [seen EXCEPT !.todo = QueuedBy(seen)]
    <2>1. seen \in Op
      BY OpAt, ViewType DEF Op, Image
    <2>2. o \in Op
      <3> HIDE DEF seen
      <3>1. QueuedBy(seen) \subseteq Attrs
        BY DEF QueuedBy, Queued, Contested
      <3> QED BY <2>1, <3>1 DEF Op
    <2>3. ControlType'
      <3> HIDE DEF o
      <3>1. op' = [op EXCEPT ![w] = o]
        BY <1>3 DEF ReconcileNode, ControlType, o
      <3> QED BY <1>3, <2>2, <3>1, GotoOpType DEF ReconcileNode, Steps
    <2> QED BY <1>3, <2>3, UnchangedType DEF ReconcileNode
  <1>4. ASSUME NEW a \in Attrs, FindOpenRow(w, a) PROVE TypeOK'
    <2> DEFINE open == OpenRows(View(w), op[w].trace.node, a)
               hit == IF open = {} THEN 0 ELSE CHOOSE k \in open : TRUE
               o == [op[w] EXCEPT !.attr = a, !.hit = hit]
    <2>1. View(w).conflicts \in Seq(ConflictRow)
      BY ViewType DEF Image
    <2>2. open \subseteq Nat
      BY <2>1 DEF OpenRows
    <2>3. hit \in Nat
      <3> HIDE DEF open
      <3> QED BY <2>2
    <2>4. o \in Op
      <3> HIDE DEF hit
      <3> QED BY <2>3, OpAt DEF Op
    <2>5. ControlType'
      <3> HIDE DEF hit
      <3>1. op' = [op EXCEPT ![w] = o]
        BY <1>4 DEF FindOpenRow, ControlType, hit
      <3> HIDE DEF o
      <3> QED BY <1>4, <2>4, <3>1, GotoOpType DEF FindOpenRow, Steps
    <2> QED BY <1>4, <2>5, UnchangedType DEF FindOpenRow
  <1> QED BY <1>1, <1>2, <1>3, <1>4

LEMMA RecordedType ==
  ASSUME TypeOK, RecordingInv, NEW w \in Writers, pc[w] = "record",
         NEW conflicts \in Seq(ConflictRow)
  PROVE  Recorded(conflicts, op[w]) \in Seq(ConflictRow)
  <1> DEFINE o == op[w]
             new == ConflictOf(o.seen, o.old.attrs, o.trace, o.attr)
  <1>1. new \in ConflictRow
    <2>1. o.attr \in Queued(o.seen, o.old.attrs, o.trace)
      BY DEF RecordingInv, QueuedBy
    <2> QED BY <2>1, OpAt, ConflictOfType DEF TypeOK
  <1> HIDE DEF new
  <1>2. ASSUME o.hit \in DOMAIN conflicts
        PROVE  Refreshed(conflicts[o.hit], new) \in ConflictRow
    <2>1. conflicts[o.hit] \in ConflictRow
      BY <1>2, ElementOfSeq
    <2> QED BY <2>1, <1>1, RefreshedType
  <1>3. [conflicts EXCEPT ![o.hit] = Refreshed(conflicts[o.hit], new)] \in Seq(ConflictRow)
    BY <1>2, RowUpdate
  <1>4. Append(conflicts, new) \in Seq(ConflictRow)
    BY <1>1, AppendProperties
  <1> QED BY <1>3, <1>4 DEF Recorded, new

LEMMA IngestWriteType ==
  ASSUME TypeOK, RecordingInv, NEW w \in Writers,
         \/ RecordConflict(w) \/ RecordRefused(w) \/ StageTraces(w)
         \/ Merge(w) \/ CommitNode(w) \/ Compensate(w)
  PROVE  TypeOK'
  <1> USE DEF TypeOK
  <1>1. CASE RecordConflict(w)
    <2> DEFINE image == [View(w) EXCEPT !.conflicts = Recorded(View(w).conflicts, op[w])]
               o == [op[w] EXCEPT !.todo = op[w].todo \ {op[w].attr}]
    <2>1. View(w) \in Image /\ View(w).conflicts \in Seq(ConflictRow)
      BY ViewType DEF Image
    <2>2. image \in Image
      BY <1>1, <2>1, RecordedType, ImageParts DEF RecordConflict
    <2>3. Write(w, image)
      BY <1>1, <2>1 DEF RecordConflict
    <2>4. o \in Op
      BY OpAt DEF Op
    <2>5. op' = [op EXCEPT ![w] = o]
      BY <1>1 DEF RecordConflict, ControlType
    <2> HIDE DEF o, image
    <2>6. ControlType'
      BY <1>1, <2>4, <2>5, GotoOpType DEF RecordConflict, Steps
    <2>7. SqliteType'
      BY <2>2, <2>3, WriteType
    <2> QED BY <1>1, <2>6, <2>7 DEF RecordConflict
  <1>2. CASE RecordRefused(w)
    BY <1>2, AbortType DEF RecordRefused
  <1>3. CASE StageTraces(w)
    <2> DEFINE image == [View(w) EXCEPT !.traces = Append(View(w).traces, op[w].trace)]
    <2>1. View(w) \in Image /\ op[w].trace \in Trace
      BY ViewType, OpAt
    <2>2. image \in Image
      BY <2>1, ImageParts
    <2>3. Write(w, image)
      BY <1>3, <2>1 DEF StageTraces
    <2> HIDE DEF image
    <2>4. ControlType'
      BY <1>3, GotoType DEF StageTraces, Steps
    <2> QED BY <1>3, <2>2, <2>3, <2>4, WriteType DEF StageTraces
  <1>4. CASE Merge(w)
    <2>1. graph' \in [Nodes -> Node]
      BY <1>4, OpAt, MergedType DEF Merge
    <2>2. SqliteType' /\ ControlType'
      BY <1>4, AbortType, GotoType, UnchangedType DEF Merge, Steps
    <2> QED BY <2>1, <2>2
  <1>5. CASE CommitNode(w)
    BY <1>5, CommitType, FinishType DEF CommitNode
  <1>6. CASE Compensate(w)
    <2>1. graph' \in [Nodes -> Node]
      BY <1>6, OpAt, NothingType DEF Compensate, NoNode, Node
    <2> QED BY <1>6, <2>1, UnchangedType, FinishType DEF Compensate
  <1> QED BY <1>1, <1>2, <1>3, <1>4, <1>5, <1>6

LEMMA ReadForEditType ==
  ASSUME TypeOK, NEW w \in Writers, NEW n \in Nodes, NEW changes \in Attributes,
         NEW conflict \in Nat, ReadForEdit(w, n, changes, conflict)
  PROVE  TypeOK'
  <1> DEFINE o == [NoOp EXCEPT !.trace = HumanTrace(n, changes), !.old = graph[n],
                               !.resolving = conflict]
  <1>1. o \in Op
    BY NoOpType, HumanTraceType DEF TypeOK, Op
  <1>2. Start(w, o) /\ Goto(w, "edit_source")
    BY DEF ReadForEdit
  <1> HIDE DEF o
  <1>3. ControlType'
    BY <1>1, <1>2, StartType DEF TypeOK, Steps
  <1> QED BY <1>3, UnchangedType DEF ReadForEdit, TypeOK

LEMMA EditTypeOK ==
  ASSUME TypeOK, NEW w \in Writers, Edit(w)
  PROVE  TypeOK'
  <1> USE DEF TypeOK
  <1>1. ASSUME NEW n \in Nodes, NEW changes \in Edits, EditNode(w, n, changes)
        PROVE  TypeOK'
    BY <1>1, RequestAssumption, ReadForEditType DEF EditNode
  <1>2. ASSUME NEW k \in DOMAIN View(w).conflicts, NEW v \in Values, ResolveConflict(w, k, v)
        PROVE  TypeOK'
    <2> DEFINE row == View(w).conflicts[k]
               changes == [Nothing EXCEPT ![row.attr] = v]
    <2>1. View(w).conflicts \in Seq(ConflictRow) /\ k \in Nat
      BY ViewType DEF Image
    <2>2. row.node \in Nodes
      <3>1. row \in ConflictRow
        BY <2>1, ElementOfSeq
      <3> QED BY <3>1 DEF ConflictRow
    <2>3. changes \in Attributes
      BY NothingType DEF Attributes
    <2> QED BY <1>2, <2>1, <2>2, <2>3, ReadForEditType DEF ResolveConflict
  <1>3. CASE SaveEdit(w)
    <2>1. SqliteType'
      BY <1>3, OpAt, SaveType DEF SaveEdit
    <2> QED BY <1>3, <2>1, GotoType DEF SaveEdit, Steps
  <1>4. CASE SetNode(w)
    <2>1. graph' \in [Nodes -> Node]
      BY <1>4, OpAt, EditedType DEF SetNode
    <2>2. SqliteType' /\ ControlType'
      BY <1>4, AbortType, GotoType, UnchangedType DEF SetNode, Steps
    <2> QED BY <2>1, <2>2
  <1>5. CASE CommitEdit(w)
    <2>1. ControlType'
      BY <1>5, FinishType, GotoType DEF CommitEdit, Steps
    <2> QED BY <1>5, <2>1, CommitType DEF CommitEdit
  <1>6. CASE Restore(w)
    <2> DEFINE n == op[w].trace.node
               old == op[w].old
    <2>1. n \in Nodes /\ old \in Node /\ graph[n] \in Node
      BY OpAt
    <2> HIDE DEF n, old
    <2>2. [graph[n] EXCEPT !.attrs = old.attrs, !.version = old.version] \in Node
      BY <2>1 DEF Node
    <2>3. graph' \in [Nodes -> Node]
      <3>1. [graph EXCEPT ![n].attrs = old.attrs, ![n].version = old.version]
              = [graph EXCEPT ![n] = [graph[n] EXCEPT !.attrs = old.attrs,
                                                      !.version = old.version]]
        BY <2>1
      <3> QED BY <1>6, <2>1, <2>2, <3>1 DEF Restore, n, old
    <2> QED BY <1>6, <2>3, UnchangedType, FinishType DEF Restore
  <1>7. CASE CloseConflict(w)
    <2> DEFINE k == op[w].resolving
               rows == View(w).conflicts
               closed == [rows EXCEPT ![k] = Closed(rows[k], op[w].trace.facts[rows[k].attr])]
               image == [View(w) EXCEPT !.conflicts = closed]
    <2>1. View(w) \in Image /\ rows \in Seq(ConflictRow)
      BY ViewType DEF Image
    <2>2. ASSUME k \in DOMAIN rows
          PROVE  Closed(rows[k], op[w].trace.facts[rows[k].attr]) \in ConflictRow
      <3>1. rows[k] \in ConflictRow
        BY <2>1, <2>2, ElementOfSeq
      <3>2. op[w].trace.facts[rows[k].attr] \in Values \cup {NoValue}
        BY <3>1, OpAt DEF ConflictRow, Attributes
      <3> QED BY <3>1, <3>2, ClosedType
    <2>3. closed \in Seq(ConflictRow)
      <3> HIDE DEF k, rows
      <3> QED BY <2>1, <2>2, RowUpdate
    <2>4. image \in Image
      <3> HIDE DEF closed
      <3> QED BY <2>1, <2>3, ImageParts
    <2>5. Write(w, image)
      BY <1>7, <2>1 DEF CloseConflict
    <2> HIDE DEF image
    <2>6. ControlType'
      BY <1>7, GotoType DEF CloseConflict, Steps
    <2> QED BY <1>7, <2>4, <2>5, <2>6, WriteType DEF CloseConflict
  <1>8. CASE CommitClose(w)
    BY <1>8, CommitType, FinishType DEF CommitClose
  <1> QED BY <1>1, <1>2, <1>3, <1>4, <1>5, <1>6, <1>7, <1>8 DEF Edit

LEMMA FailedCommitType ==
  ASSUME SqliteType, NEW w \in Writers, FailedCommit(w)
  PROVE  SqliteType'
  BY RollbackType, UnchangedType DEF FailedCommit

LEMMA FailTypeOK ==
  ASSUME TypeOK, NEW w \in Writers, Fail(w)
  PROVE  TypeOK'
  <1> USE DEF TypeOK
  <1>1. CASE BusyTimeout(w)
    BY <1>1, AbortType DEF BusyTimeout
  <1>2. CASE Neo4jFails(w)
    BY <1>2, AbortType, FinishType, UnchangedType DEF Neo4jFails
  <1>3. CASE ReplyLost(w)
    <2>1. graph' \in [Nodes -> Node]
      BY <1>3, OpAt, MergedType, EditedType DEF ReplyLost
    <2> QED BY <1>3, <2>1, AbortType DEF ReplyLost
  <1>4. CASE CommitFails(w)
    <2>1. CASE pc[w] = "edit_source" /\ CanWrite(w) /\ Abort(w)
      BY <1>4, <2>1, AbortType DEF CommitFails
    <2>2. CASE pc[w] = "commit" /\ FailedCommit(w) /\ Goto(w, "compensate") /\ UNCHANGED op
      BY <1>4, <2>2, FailedCommitType, GotoType DEF CommitFails, Steps
    <2>3. CASE pc[w] = "edit_commit" /\ FailedCommit(w) /\ Goto(w, "restore") /\ UNCHANGED op
      BY <1>4, <2>3, FailedCommitType, GotoType DEF CommitFails, Steps
    <2>4. CASE pc[w] = "close_commit" /\ FailedCommit(w) /\ Finish(w)
      BY <1>4, <2>4, FailedCommitType, FinishType DEF CommitFails
    <2> QED BY <1>4, <2>1, <2>2, <2>3, <2>4 DEF CommitFails
  <1>5. CASE SaveRecordFails(w)
    BY <1>5, RollbackType DEF SaveRecordFails, ControlType
  <1>6. CASE Crash(w)
    BY <1>6, AbortType DEF Crash
  <1> QED BY <1>1, <1>2, <1>3, <1>4, <1>5, <1>6 DEF Fail

LEMMA InitTypeOK ==
  ASSUME Init
  PROVE  TypeOK
  <1>1. NoNode \in Node
    BY NothingType DEF NoNode, Node
  <1> QED BY <1>1, NoOpType, EmptyImageType, StoreAssumption
          DEF Init, TypeOK, SqliteType, ControlType, Steps

LEMMA NextTypeOK ==
  ASSUME TypeOK, RecordingInv, [Next]_vars
  PROVE  TypeOK'
  <1>1. CASE UNCHANGED vars
    BY <1>1 DEF vars, TypeOK, SqliteType, ControlType
  <1>2. ASSUME NEW w \in Writers, Ingest(w) PROVE TypeOK'
    BY <1>2, IngestReadType, IngestWriteType DEF Ingest
  <1> QED BY <1>1, <1>2, EditTypeOK, FailTypeOK DEF Next

-----------------------------------------------------------------------------
(* What an operation still has to record *)

\* The sets of steps at which an action of w can leave it.
Recording == {"find", "record"}

\* A process only moves itself.
Alone(w) == \A u \in Writers \ {w} : pc'[u] = pc[u] /\ op'[u] = op[u]

LEMMA FinishAlone ==
  ASSUME ControlType, NEW w \in Writers, Finish(w)
  PROVE  Alone(w) /\ pc'[w] = "idle" /\ op'[w] = NoOp
  BY DEF ControlType, Finish, Goto, Alone

LEMMA GotoAlone ==
  ASSUME ControlType, NEW w \in Writers, NEW step, Goto(w, step), UNCHANGED op
  PROVE  Alone(w) /\ pc'[w] = step /\ op'[w] = op[w]
  BY DEF ControlType, Goto, Alone

LEMMA GotoOpAlone ==
  ASSUME ControlType, NEW w \in Writers, NEW step, Goto(w, step),
         NEW o, op' = [op EXCEPT ![w] = o]
  PROVE  Alone(w) /\ pc'[w] = step /\ op'[w] = o
  BY DEF ControlType, Goto, Alone

LEMMA StartAlone ==
  ASSUME ControlType, NEW w \in Writers, NEW step, Goto(w, step), NEW o, Start(w, o)
  PROVE  Alone(w) /\ pc[w] = "idle" /\ pc'[w] = step /\ op'[w] = o
  BY DEF ControlType, Goto, Start, Alone

\* RecordingInv is kept by a step of w that leaves w in order.
LEMMA RecordingFrame ==
  ASSUME RecordingInv, NEW w \in Writers, Alone(w),
         pc'[w] \in Recording => op'[w].todo \subseteq QueuedBy(op'[w]),
         pc'[w] = "record" => op'[w].attr \in op'[w].todo
  PROVE  RecordingInv'
  BY DEF RecordingInv, Alone, Recording

\* What a process knows and wants does not change while it records.
LEMMA QueuedByFields ==
  ASSUME NEW o, NEW p, p.seen = o.seen, p.old = o.old, p.trace = o.trace
  PROVE  QueuedBy(p) = QueuedBy(o)
  BY DEF QueuedBy

LEMMA IngestRecording ==
  ASSUME TypeOK, RecordingInv, NEW w \in Writers, Ingest(w)
  PROVE  RecordingInv'
  <1> USE DEF TypeOK
  <1>1. ASSUME NEW b \in Batches, SaveRecord(w, b) PROVE RecordingInv'
    BY <1>1, StartAlone, RecordingFrame DEF SaveRecord, Recording
  <1>2. CASE ReadNode(w)
    <2>1. Alone(w) /\ pc'[w] = "reconcile"
      BY <1>2 DEF ReadNode, ControlType, Goto, Alone
    <2> QED BY <2>1, RecordingFrame DEF Recording
  <1>3. CASE ReconcileNode(w)
    <2> DEFINE seen == [op[w] EXCEPT !.seen = View(w).traces]
               o == [seen EXCEPT !.todo = QueuedBy(seen)]
    <2>1. Alone(w) /\ pc'[w] # "record" /\ op'[w] = o
      BY <1>3 DEF ReconcileNode, ControlType, Goto, Alone
    <2>2. o.todo = QueuedBy(seen) /\ o.seen = seen.seen /\ o.old = seen.old /\ o.trace = seen.trace
      BY OpAt DEF Op
    <2>3. o.todo \subseteq QueuedBy(o)
      <3> HIDE DEF o, seen
      <3> QED BY <2>2, QueuedByFields
    <2> QED BY <2>1, <2>3, RecordingFrame
  <1>4. ASSUME NEW a \in Attrs, FindOpenRow(w, a) PROVE RecordingInv'
    <2>1. Alone(w) /\ a \in op[w].todo /\ op[w].todo \subseteq QueuedBy(op[w])
      BY <1>4 DEF FindOpenRow, ControlType, Goto, Alone, RecordingInv
    <2>2. /\ op'[w].attr = a /\ op'[w].todo = op[w].todo
          /\ op'[w].seen = op[w].seen /\ op'[w].old = op[w].old /\ op'[w].trace = op[w].trace
      BY <1>4, OpAt DEF FindOpenRow, ControlType, Op
    <2>3. QueuedBy(op'[w]) = QueuedBy(op[w])
      BY <2>2, QueuedByFields
    <2> QED BY <2>1, <2>2, <2>3, RecordingFrame
  <1>5. CASE RecordConflict(w)
    <2>1. Alone(w) /\ pc'[w] # "record" /\ op[w].todo \subseteq QueuedBy(op[w])
      BY <1>5 DEF RecordConflict, ControlType, Goto, Alone, RecordingInv
    <2>2. /\ op'[w].todo \subseteq op[w].todo
          /\ op'[w].seen = op[w].seen /\ op'[w].old = op[w].old /\ op'[w].trace = op[w].trace
      BY <1>5, OpAt DEF RecordConflict, ControlType, Op
    <2>3. QueuedBy(op'[w]) = QueuedBy(op[w])
      BY <2>2, QueuedByFields
    <2> QED BY <2>1, <2>2, <2>3, RecordingFrame
  <1>6. CASE RecordRefused(w)
    BY <1>6, FinishAlone, RecordingFrame DEF RecordRefused, Abort, Recording
  <1>7. CASE StageTraces(w)
    BY <1>7, GotoAlone, RecordingFrame DEF StageTraces, Recording
  <1>8. CASE Merge(w)
    BY <1>8, GotoAlone, FinishAlone, RecordingFrame DEF Merge, Abort, Recording
  <1>9. CASE CommitNode(w)
    BY <1>9, FinishAlone, RecordingFrame DEF CommitNode, Recording
  <1>10. CASE Compensate(w)
    BY <1>10, FinishAlone, RecordingFrame DEF Compensate, Recording
  <1> QED BY <1>1, <1>2, <1>3, <1>4, <1>5, <1>6, <1>7, <1>8, <1>9, <1>10 DEF Ingest

\* Edits and failures never lead into record().
LEMMA EditAlone ==
  ASSUME ControlType, NEW w \in Writers, Edit(w)
  PROVE  Alone(w) /\ pc'[w] \notin Recording
  <1>1. ASSUME NEW n, NEW changes, NEW k, ReadForEdit(w, n, changes, k)
        PROVE  Alone(w) /\ pc'[w] \notin Recording
    BY <1>1, StartAlone DEF ReadForEdit, Recording
  <1>2. CASE SaveEdit(w)
    BY <1>2, GotoAlone DEF SaveEdit, Recording
  <1>3. CASE SetNode(w)
    BY <1>3, GotoAlone, FinishAlone DEF SetNode, Abort, Recording
  <1>4. CASE CommitEdit(w)
    BY <1>4, GotoAlone, FinishAlone DEF CommitEdit, Recording
  <1>5. CASE Restore(w)
    BY <1>5, FinishAlone DEF Restore, Recording
  <1>6. CASE CloseConflict(w)
    BY <1>6, GotoAlone DEF CloseConflict, Recording
  <1>7. CASE CommitClose(w)
    BY <1>7, FinishAlone DEF CommitClose, Recording
  <1> QED BY <1>1, <1>2, <1>3, <1>4, <1>5, <1>6, <1>7 DEF Edit, EditNode, ResolveConflict

LEMMA FailAlone ==
  ASSUME ControlType, NEW w \in Writers, Fail(w)
  PROVE  Alone(w) /\ pc'[w] \in {"idle", "compensate", "restore"}
  <1>1. CASE BusyTimeout(w) \/ Neo4jFails(w) \/ ReplyLost(w) \/ Crash(w)
    BY <1>1, FinishAlone DEF BusyTimeout, Neo4jFails, ReplyLost, Crash, Abort
  <1>2. CASE CommitFails(w)
    BY <1>2, FinishAlone, GotoAlone DEF CommitFails, Abort
  <1>3. CASE SaveRecordFails(w)
    BY <1>3 DEF SaveRecordFails, Alone
  <1> QED BY <1>1, <1>2, <1>3 DEF Fail

LEMMA NextRecording ==
  ASSUME TypeOK, RecordingInv, [Next]_vars
  PROVE  RecordingInv'
  <1>1. CASE UNCHANGED vars
    BY <1>1 DEF vars, RecordingInv
  <1>2. ASSUME NEW w \in Writers, Edit(w) \/ Fail(w) PROVE RecordingInv'
    BY <1>2, EditAlone, FailAlone, RecordingFrame DEF TypeOK, Recording
  <1> QED BY <1>1, <1>2, IngestRecording DEF Next

\* Every reachable state is well typed: no conflict row, trace or node the
\* schema would refuse is ever written, and staged rows always have an owner,
\* whatever fails and however the processes interleave.
THEOREM TypeCorrect == Spec => []TypeOK
  <1>1. Init => TypeOK /\ RecordingInv
    BY InitTypeOK DEF Init, RecordingInv
  <1>2. TypeOK /\ RecordingInv /\ [Next]_vars => (TypeOK /\ RecordingInv)'
    BY NextTypeOK, NextRecording
  <1> QED BY <1>1, <1>2, PTL DEF Spec

-----------------------------------------------------------------------------
(* What a step does to SQLite *)

\* Nothing, and it takes up no trace that was not announced.
Quiet(w) ==
  /\ UNCHANGED sqlite
  /\ pc'[w] \in Untraced => pc[w] \in Untraced
  /\ pc[w] \in Recorders => pc'[w] \in Recorders
  /\ pc'[w] \in Untraced => op'[w].trace = op[w].trace

Dropping(w) == Rollback(w) /\ pc'[w] \notin Untraced

Committing(w) == /\ Commit(w) /\ pc[w] \notin Unwritten
                 /\ pc[w] \notin Untraced /\ pc'[w] \notin Untraced

\* add_source_record(), for the operation it announces.
Saving(w) ==
  /\ CanWrite(w) /\ pc[w] \notin Recorders \cup Unwritten
  /\ disk' = [View(w) EXCEPT !.sources = @ \cup {op'[w].trace.source}]
  /\ staged' = disk'
  /\ locker' = NoWriter

Tracing(w) ==
  /\ Write(w, [View(w) EXCEPT !.traces = Append(@, op[w].trace)])
  /\ pc[w] \in Untraced /\ pc'[w] \in Unwritten /\ op'[w] = op[w]

Queueing(w) ==
  /\ Write(w, [View(w) EXCEPT !.conflicts = Recorded(@, op[w])])
  /\ pc[w] = "record" /\ pc'[w] \in Recorders /\ ~ IndexViolated(w)
  /\ op'[w].trace = op[w].trace

Closing(w) ==
  /\ CloseConflict(w)
  /\ \E k, value : Write(w, [View(w) EXCEPT !.conflicts[k] = Closed(@, value)])
  /\ pc[w] \notin Untraced \cup Unwritten /\ pc'[w] \notin Untraced

Effect(w) ==
  \/ Quiet(w) \/ Dropping(w) \/ Committing(w) \/ Saving(w)
  \/ Tracing(w) \/ Queueing(w) \/ Closing(w)

LEMMA IngestEffect ==
  ASSUME TypeOK, NEW w \in Writers, Ingest(w)
  PROVE  Alone(w) /\ Effect(w)
  <1> USE DEF TypeOK, Effect, Untraced, Recorders, Unwritten
  <1>1. ASSUME NEW b \in Batches, SaveRecord(w, b) PROVE Alone(w) /\ Effect(w)
    <2>1. Alone(w) /\ pc[w] = "idle" /\ op'[w] = [NoOp EXCEPT !.type = b.type, !.trace = b.trace]
      BY <1>1, StartAlone DEF SaveRecord
    <2>2. op'[w].trace = b.trace
      BY <2>1, NoOpType DEF Op
    <2>3. Saving(w)
      BY <1>1, <2>1, <2>2 DEF SaveRecord, Saving
    <2> QED BY <2>1, <2>3
  <1>2. CASE ReadNode(w)
    <2>1. Alone(w) /\ pc'[w] = "reconcile"
      BY <1>2 DEF ReadNode, ControlType, Goto, Alone
    <2>2. op'[w].trace = op[w].trace
      BY <1>2, OpAt DEF ReadNode, ControlType, Op
    <2> QED BY <1>2, <2>1, <2>2 DEF ReadNode, Quiet
  <1>3. CASE ReconcileNode(w)
    <2>1. Alone(w) /\ pc'[w] \in {"stage", "find"}
      BY <1>3 DEF ReconcileNode, ControlType, Goto, Alone
    <2>2. op'[w].trace = op[w].trace
      BY <1>3, OpAt DEF ReconcileNode, ControlType, Op
    <2> QED BY <1>3, <2>1, <2>2 DEF ReconcileNode, Quiet
  <1>4. ASSUME NEW a \in Attrs, FindOpenRow(w, a) PROVE Alone(w) /\ Effect(w)
    <2>1. Alone(w) /\ pc'[w] = "record"
      BY <1>4 DEF FindOpenRow, ControlType, Goto, Alone
    <2>2. op'[w].trace = op[w].trace
      BY <1>4, OpAt DEF FindOpenRow, ControlType, Op
    <2> QED BY <1>4, <2>1, <2>2 DEF FindOpenRow, Quiet
  <1>5. CASE RecordConflict(w)
    <2>1. Alone(w) /\ pc'[w] \in {"stage", "find"}
      BY <1>5 DEF RecordConflict, ControlType, Goto, Alone
    <2>2. op'[w].trace = op[w].trace
      BY <1>5, OpAt DEF RecordConflict, ControlType, Op
    <2> QED BY <1>5, <2>1, <2>2 DEF RecordConflict, Queueing
  <1>6. CASE RecordRefused(w)
    BY <1>6, FinishAlone DEF RecordRefused, Abort, Dropping
  <1>7. CASE StageTraces(w)
    BY <1>7, GotoAlone DEF StageTraces, Tracing
  <1>8. CASE Merge(w)
    BY <1>8, GotoAlone, FinishAlone DEF Merge, Abort, Dropping, Quiet
  <1>9. CASE CommitNode(w)
    BY <1>9, FinishAlone DEF CommitNode, Committing
  <1>10. CASE Compensate(w)
    BY <1>10, FinishAlone DEF Compensate, Quiet
  <1> QED BY <1>1, <1>2, <1>3, <1>4, <1>5, <1>6, <1>7, <1>8, <1>9, <1>10 DEF Ingest

LEMMA EditEffect ==
  ASSUME TypeOK, NEW w \in Writers, Edit(w)
  PROVE  Alone(w) /\ Effect(w)
  <1> USE DEF TypeOK, Effect, Untraced, Recorders, Unwritten
  <1>1. ASSUME NEW n, NEW changes, NEW k, ReadForEdit(w, n, changes, k)
        PROVE  Alone(w) /\ Effect(w)
    BY <1>1, StartAlone DEF ReadForEdit, Quiet
  <1>2. CASE SaveEdit(w)
    BY <1>2, GotoAlone DEF SaveEdit, Saving
  <1>3. CASE SetNode(w)
    BY <1>3, GotoAlone, FinishAlone DEF SetNode, Abort, Dropping, Quiet
  <1>4. CASE CommitEdit(w)
    BY <1>4, GotoAlone, FinishAlone DEF CommitEdit, Committing
  <1>5. CASE Restore(w)
    BY <1>5, FinishAlone DEF Restore, Quiet
  <1>6. CASE CloseConflict(w)
    <2> DEFINE k == op[w].resolving
               value == op[w].trace.facts[View(w).conflicts[k].attr]
    <2>1. Write(w, [View(w) EXCEPT !.conflicts[k] = Closed(@, value)])
      BY <1>6 DEF CloseConflict
    <2>2. Alone(w) /\ pc[w] = "close" /\ pc'[w] = "close_commit"
      BY <1>6, GotoAlone DEF CloseConflict
    <2> HIDE DEF k, value
    <2> QED BY <1>6, <2>1, <2>2 DEF Closing
  <1>7. CASE CommitClose(w)
    BY <1>7, FinishAlone DEF CommitClose, Committing
  <1> QED BY <1>1, <1>2, <1>3, <1>4, <1>5, <1>6, <1>7 DEF Edit, EditNode, ResolveConflict

LEMMA FailEffect ==
  ASSUME TypeOK, NEW w \in Writers, Fail(w)
  PROVE  Alone(w) /\ Effect(w)
  <1> USE DEF TypeOK, Effect, Untraced, Recorders, Unwritten
  <1>1. Alone(w) /\ pc'[w] \in {"idle", "compensate", "restore"}
    BY FailAlone
  <1>2. CASE Rollback(w)
    BY <1>1, <1>2 DEF Dropping
  <1>3. CASE UNCHANGED sqlite /\ pc[w] \notin Recorders
    BY <1>1, <1>3 DEF Quiet
  <1>4. Rollback(w) \/ (UNCHANGED sqlite /\ pc[w] \notin Recorders)
    BY DEF Fail, BusyTimeout, Neo4jFails, ReplyLost, CommitFails, SaveRecordFails, Crash,
           Abort, FailedCommit
  <1> QED BY <1>2, <1>3, <1>4

LEMMA NextEffect ==
  ASSUME TypeOK, Next
  PROVE  \E w \in Writers : Alone(w) /\ Effect(w)
  BY IngestEffect, EditEffect, FailEffect DEF Next

-----------------------------------------------------------------------------
(* Traces are only appended *)

LEMMA ViewPrefix ==
  ASSUME PrefixInv, NEW w
  PROVE  \A k \in DOMAIN disk.traces :
           k \in DOMAIN View(w).traces /\ View(w).traces[k] = disk.traces[k]
  BY DEF PrefixInv, View

\* What a step commits is what is committed, or what its process sees, with
\* at most a source record more.
LEMMA Committed ==
  ASSUME TypeOK, NEW w \in Writers, Effect(w)
  PROVE  \/ disk' = disk
         \/ disk' = View(w)
         \/ disk' = [View(w) EXCEPT !.sources = @ \cup {op'[w].trace.source}]
  BY DEF Effect, Quiet, Dropping, Committing, Saving, Tracing, Queueing, Closing,
         Rollback, Commit, Write, sqlite

LEMMA TracesKept ==
  ASSUME TypeOK, PrefixInv, NEW w \in Writers, Effect(w), NEW k \in DOMAIN disk.traces
  PROVE  k \in DOMAIN disk'.traces /\ disk'.traces[k] = disk.traces[k]
  <1>1. View(w) \in Image
    BY ViewType DEF TypeOK
  <1>2. disk'.traces = disk.traces \/ disk'.traces = View(w).traces
    BY <1>1, Committed DEF Image
  <1> QED BY <1>2, ViewPrefix

LEMMA PrefixStep ==
  ASSUME TypeOK, PrefixInv, NEW w \in Writers, Effect(w)
  PROVE  PrefixInv'
  <1>1. View(w) \in Image /\ View(w).traces \in Seq(Trace) /\ op[w].trace \in Trace
    BY ViewType, OpAt DEF TypeOK, Image
  <1>2. CASE Quiet(w)
    BY <1>2 DEF Quiet, sqlite, PrefixInv
  <1>3. CASE Dropping(w)
    BY <1>3 DEF Dropping, Rollback, PrefixInv
  <1>4. CASE Committing(w)
    BY <1>4 DEF Committing, Commit, View, PrefixInv
  <1>5. CASE Saving(w)
    BY <1>5 DEF Saving, PrefixInv
  <1>6. CASE Tracing(w)
    <2>1. disk' = disk /\ staged'.traces = Append(View(w).traces, op[w].trace)
      BY <1>1, <1>6 DEF Tracing, Write, Image
    <2>2. \A k \in DOMAIN View(w).traces :
            k \in DOMAIN staged'.traces /\ staged'.traces[k] = View(w).traces[k]
      BY <1>1, <2>1, AppendProperties
    <2> QED BY <2>1, <2>2, ViewPrefix DEF PrefixInv
  <1>7. CASE Queueing(w) \/ Closing(w)
    <2>1. disk' = disk /\ staged'.traces = View(w).traces
      BY <1>1, <1>7 DEF Queueing, Closing, Write, Image
    <2> QED BY <2>1, ViewPrefix DEF PrefixInv
  <1> QED BY <1>2, <1>3, <1>4, <1>5, <1>6, <1>7 DEF Effect

\* No step drops or rewrites a committed trace, not even one that fails half
\* way, compensates, or runs next to another process.
THEOREM TracesGrow == Spec => TracesAppendOnly
  <1>1. Init => TypeOK /\ RecordingInv /\ PrefixInv
    BY InitTypeOK DEF Init, RecordingInv, PrefixInv
  <1>2. TypeOK /\ RecordingInv /\ PrefixInv /\ [Next]_vars
          => (TypeOK /\ RecordingInv /\ PrefixInv)'
    <2> SUFFICES ASSUME TypeOK, RecordingInv, PrefixInv, [Next]_vars PROVE PrefixInv'
      BY NextTypeOK, NextRecording
    <2>1. CASE UNCHANGED vars
      BY <2>1 DEF vars, PrefixInv
    <2>2. CASE Next
      BY <2>2, NextEffect, PrefixStep
    <2> QED BY <2>1, <2>2
  <1>3. TypeOK /\ PrefixInv /\ [Next]_vars => [KeepsTraces]_disk
    <2> SUFFICES ASSUME TypeOK, PrefixInv, Next PROVE KeepsTraces
      BY DEF vars
    <2> QED BY NextEffect, TracesKept DEF KeepsTraces
  <1> QED BY <1>1, <1>2, <1>3, PTL DEF Spec, TracesAppendOnly

-----------------------------------------------------------------------------
(* Source records are stored before the traces that name them *)

LEMMA ViewSourced ==
  ASSUME SourcedInv, NEW w
  PROVE  Sourced(View(w)) /\ disk.sources \subseteq View(w).sources
  BY DEF SourcedInv, View

\* Appending a trace of a stored record keeps an image sourced.
LEMMA SourcedAppend ==
  ASSUME NEW image \in Image, Sourced(image), NEW t \in Trace, t.source \in image.sources
  PROVE  Sourced([image EXCEPT !.traces = Append(image.traces, t)])
  <1> DEFINE new == [image EXCEPT !.traces = Append(image.traces, t)]
  <1>1. image.traces \in Seq(Trace) /\ Len(image.traces) \in Nat
    BY DEF Image
  <1>2. new.traces = Append(image.traces, t) /\ new.sources = image.sources
    BY DEF Image
  <1>3. SUFFICES ASSUME NEW k \in DOMAIN new.traces PROVE new.traces[k].source \in image.sources
    BY <1>2 DEF Sourced
  <1>4. k \in 1..(Len(image.traces) + 1)
    BY <1>1, <1>2, AppendProperties
  <1>5. CASE k = Len(image.traces) + 1
    BY <1>1, <1>2, <1>5, AppendProperties
  <1>6. CASE k \in 1..Len(image.traces)
    BY <1>1, <1>2, <1>6, AppendProperties DEF Sourced
  <1> QED BY <1>1, <1>4, <1>5, <1>6

LEMMA SourcedStep ==
  ASSUME TypeOK, SourcedInv, NEW w \in Writers, Alone(w), Effect(w)
  PROVE  SourcedInv'
  <1> DEFINE Images == Sourced(disk) /\ Sourced(staged) /\ disk.sources \subseteq staged.sources
  <1>1. View(w) \in Image /\ op[w].trace \in Trace /\ disk \in Image
    BY ViewType, OpAt DEF TypeOK, SqliteType
  <1>2. Images' /\ disk.sources \subseteq disk'.sources
    <2>1. CASE Quiet(w)
      BY <2>1 DEF Quiet, sqlite, SourcedInv, Sourced
    <2>2. CASE Dropping(w)
      BY <2>2 DEF Dropping, Rollback, SourcedInv, Sourced
    <2>3. CASE Committing(w)
      BY <2>3 DEF Committing, Commit, View, SourcedInv, Sourced
    <2>4. CASE Saving(w)
      <3>1. /\ disk'.traces = View(w).traces
            /\ disk'.sources = View(w).sources \cup {op'[w].trace.source}
            /\ staged' = disk'
        BY <1>1, <2>4 DEF Saving, Image
      <3> QED BY <3>1, ViewSourced DEF Sourced
    <2>5. CASE Tracing(w)
      <3> DEFINE new == [View(w) EXCEPT !.traces = Append(View(w).traces, op[w].trace)]
      <3>1. disk' = disk /\ staged' = new /\ new.sources = View(w).sources
        BY <1>1, <2>5 DEF Tracing, Write, Image
      <3>2. op[w].trace.source \in View(w).sources
        BY <2>5, ViewSourced DEF Tracing, SourcedInv
      <3>3. Sourced(new)
        BY <1>1, <3>2, ViewSourced, SourcedAppend
      <3> HIDE DEF new
      <3> QED BY <3>1, <3>3, ViewSourced DEF SourcedInv, Sourced
    <2>6. CASE Queueing(w) \/ Closing(w)
      <3>1. disk' = disk /\ staged'.traces = View(w).traces /\ staged'.sources = View(w).sources
        BY <1>1, <2>6 DEF Queueing, Closing, Write, Image
      <3> QED BY <3>1, ViewSourced DEF SourcedInv, Sourced
    <2> QED BY <2>1, <2>2, <2>3, <2>4, <2>5, <2>6 DEF Effect
  <1>3. pc'[w] \in Untraced => op'[w].trace.source \in disk'.sources
    <2>1. CASE Saving(w)
      BY <1>1, <2>1 DEF Saving, Image
    <2>2. CASE Quiet(w) \/ Queueing(w)
      <3>1. pc'[w] \in Untraced => pc[w] \in Untraced /\ op'[w].trace = op[w].trace
        BY <2>2 DEF Quiet, Queueing, Untraced, Recorders
      <3> QED BY <1>2, <3>1 DEF SourcedInv
    <2>3. CASE Dropping(w) \/ Committing(w) \/ Tracing(w) \/ Closing(w)
      BY <2>3 DEF Dropping, Committing, Tracing, Closing, Untraced, Unwritten
    <2> QED BY <2>1, <2>2, <2>3 DEF Effect
  <1>4. ASSUME NEW u \in Writers, pc'[u] \in Untraced
        PROVE  op'[u].trace.source \in disk'.sources
    <2>1. CASE u = w
      BY <1>3, <1>4, <2>1
    <2>2. CASE u # w
      BY <1>2, <1>4, <2>2 DEF Alone, SourcedInv
    <2> QED BY <2>1, <2>2
  <1> QED BY <1>2, <1>4 DEF SourcedInv

-----------------------------------------------------------------------------
(* A lookup's hit stays the row it was *)

LEMMA ViewKeys ==
  ASSUME HitInv, NEW w, NEW k \in DOMAIN disk.conflicts
  PROVE  k \in DOMAIN View(w).conflicts /\ SameKey(View(w).conflicts[k], disk.conflicts[k])
  BY DEF HitInv, View, SameKey

\* What a step of w leaves of the rows another process sees.
LEMMA OtherView ==
  ASSUME TypeOK, HitInv, NEW w \in Writers, Effect(w), NEW u \in Writers, u # w,
         NEW k \in DOMAIN View(u).conflicts
  PROVE  /\ k \in DOMAIN View(u)'.conflicts
         /\ SameKey(View(u)'.conflicts[k], View(u).conflicts[k])
  <1>1. CASE locker = u
    <2>1. UNCHANGED <<staged, locker>>
      BY <1>1, WriterIsNotNobody DEF Effect, Quiet, Dropping, Committing, Saving, Tracing,
         Queueing, Closing, Rollback, Commit, Write, CanWrite, View, sqlite
    <2> QED BY <1>1, <2>1 DEF View, SameKey
  <1>2. CASE locker # u
    <2>1. locker' # u
      BY <1>2, WriterIsNotNobody DEF Effect, Quiet, Dropping, Committing, Saving, Tracing,
         Queueing, Closing, Rollback, Commit, Write, CanWrite, View, sqlite
    <2>2. View(u) = disk /\ View(u)' = disk'
      BY <1>2, <2>1 DEF View
    <2>3. View(w) \in Image
      BY ViewType DEF TypeOK
    <2>4. disk'.conflicts = disk.conflicts \/ disk'.conflicts = View(w).conflicts
      BY <2>3, Committed DEF Image
    <2> QED BY <2>2, <2>4, ViewKeys DEF SameKey
  <1> QED BY <1>1, <1>2

LEMMA RecordedKeys ==
  ASSUME TypeOK, RecordingInv, NEW w \in Writers, pc[w] = "record",
         NEW conflicts \in Seq(ConflictRow), NEW k \in DOMAIN conflicts
  PROVE  /\ k \in DOMAIN Recorded(conflicts, op[w])
         /\ SameKey(Recorded(conflicts, op[w])[k], conflicts[k])
  <1> DEFINE o == op[w]
             new == ConflictOf(o.seen, o.old.attrs, o.trace, o.attr)
  <1>1. new \in ConflictRow
    <2>1. o.attr \in Queued(o.seen, o.old.attrs, o.trace)
      BY DEF RecordingInv, QueuedBy
    <2> QED BY <2>1, OpAt, ConflictOfType DEF TypeOK
  <1>2. CASE o.hit # 0
    <2> DEFINE row == conflicts[o.hit]
               e == Refreshed(row, new)
    <2>1. ASSUME o.hit \in DOMAIN conflicts PROVE e \in ConflictRow /\ SameKey(e, row)
      <3>1. row \in ConflictRow
        BY <2>1, ElementOfSeq
      <3> QED BY <1>1, <3>1, RefreshedType DEF Refreshed, ConflictRow, SameKey
    <2>2. Recorded(conflicts, o) = [conflicts EXCEPT ![o.hit] = e]
      BY <1>2 DEF Recorded
    <2> HIDE DEF e, o
    <2>3. /\ DOMAIN [conflicts EXCEPT ![o.hit] = e] = DOMAIN conflicts
          /\ [conflicts EXCEPT ![o.hit] = e][k] = IF k = o.hit THEN e ELSE conflicts[k]
      BY <2>1, RowUpdate
    <2> QED BY <2>1, <2>2, <2>3 DEF SameKey, o
  <1>3. CASE o.hit = 0
    <2>1. Recorded(conflicts, o) = Append(conflicts, new)
      BY <1>3 DEF Recorded
    <2> HIDE DEF new
    <2> QED BY <1>1, <2>1, AppendProperties DEF SameKey
  <1> QED BY <1>2, <1>3

LEMMA ClosedKeys ==
  ASSUME NEW rows \in Seq(ConflictRow), NEW j, NEW value, NEW k \in DOMAIN rows
  PROVE  LET new == [rows EXCEPT ![j] = Closed(rows[j], value)]
         IN /\ DOMAIN new = DOMAIN rows
            /\ SameKey(new[k], rows[k])
            /\ new[k].incoming = rows[k].incoming
  <1>1. rows[k] \in ConflictRow
    BY ElementOfSeq
  <1>2. SameKey(Closed(rows[k], value), rows[k]) /\ Closed(rows[k], value).incoming = rows[k].incoming
    BY <1>1 DEF Closed, SameKey, ConflictRow
  <1> DEFINE new == [rows EXCEPT ![j] = Closed(rows[j], value)]
  <1>3. DOMAIN new = DOMAIN rows
    OBVIOUS
  <1>4. new[k] = IF k = j THEN Closed(rows[k], value) ELSE rows[k]
    OBVIOUS
  <1> HIDE DEF new
  <1> QED BY <1>2, <1>3, <1>4 DEF SameKey, new

\* Only the lookup leads to record().
LEMMA RecordFromLookup ==
  ASSUME TypeOK, NEW w \in Writers, Ingest(w) \/ Edit(w) \/ Fail(w), pc'[w] = "record"
  PROVE  /\ UNCHANGED sqlite
         /\ op'[w].hit # 0 => op'[w].hit \in OpenRows(View(w), op'[w].trace.node, op'[w].attr)
  <1> USE DEF TypeOK
  <1>1. Ingest(w)
    BY EditAlone, FailAlone DEF Recording
  <1>2. ASSUME NEW b \in Batches, SaveRecord(w, b) PROVE FALSE
    BY <1>2, StartAlone DEF SaveRecord
  <1>3. CASE ReadNode(w) \/ ReconcileNode(w) \/ RecordConflict(w)
    BY <1>3 DEF ReadNode, ReconcileNode, RecordConflict, Goto, ControlType
  <1>4. CASE RecordRefused(w) \/ CommitNode(w) \/ Compensate(w)
    BY <1>4, FinishAlone DEF RecordRefused, CommitNode, Compensate, Abort
  <1>5. CASE StageTraces(w) \/ Merge(w)
    BY <1>5, GotoAlone, FinishAlone DEF StageTraces, Merge, Abort
  <1>6. ASSUME NEW a \in Attrs, FindOpenRow(w, a)
        PROVE  /\ UNCHANGED sqlite
               /\ op'[w].hit # 0 =>
                    op'[w].hit \in OpenRows(View(w), op'[w].trace.node, op'[w].attr)
    <2> DEFINE open == OpenRows(View(w), op[w].trace.node, a)
               hit == IF open = {} THEN 0 ELSE CHOOSE k \in open : TRUE
    <2>1. op'[w].hit = hit /\ op'[w].attr = a /\ op'[w].trace = op[w].trace
      BY <1>6, OpAt DEF FindOpenRow, ControlType, Op
    <2>2. hit # 0 => hit \in open
      <3> HIDE DEF open
      <3> QED OBVIOUS
    <2> QED BY <1>6, <2>1, <2>2 DEF FindOpenRow
  <1> QED BY <1>1, <1>2, <1>3, <1>4, <1>5, <1>6 DEF Ingest

LEMMA RowsKept ==
  ASSUME TypeOK, RecordingInv, HitInv, NEW w \in Writers, Effect(w),
         NEW k \in DOMAIN disk'.conflicts
  PROVE  k \in DOMAIN staged'.conflicts /\ SameKey(staged'.conflicts[k], disk'.conflicts[k])
  <1>1. View(w) \in Image /\ View(w).conflicts \in Seq(ConflictRow)
    BY ViewType DEF TypeOK, Image
  <1>2. CASE Quiet(w)
    BY <1>2 DEF Quiet, sqlite, HitInv
  <1>3. CASE Dropping(w)
    BY <1>3 DEF Dropping, Rollback, HitInv, SameKey
  <1>4. CASE Committing(w)
    BY <1>4 DEF Committing, Commit, View, HitInv, SameKey
  <1>5. CASE Saving(w)
    BY <1>5 DEF Saving, SameKey
  <1>6. CASE Tracing(w)
    <2>1. disk' = disk /\ staged'.conflicts = View(w).conflicts
      BY <1>1, <1>6 DEF Tracing, Write, Image
    <2> QED BY <2>1, ViewKeys
  <1>7. CASE Queueing(w)
    <2>1. disk' = disk /\ staged'.conflicts = Recorded(View(w).conflicts, op[w])
      BY <1>1, <1>7 DEF Queueing, Write, Image
    <2>2. k \in DOMAIN View(w).conflicts /\ SameKey(View(w).conflicts[k], disk.conflicts[k])
      BY <2>1, ViewKeys
    <2>3. /\ k \in DOMAIN staged'.conflicts
          /\ SameKey(staged'.conflicts[k], View(w).conflicts[k])
      BY <1>1, <1>7, <2>1, <2>2, RecordedKeys DEF Queueing
    <2> QED BY <2>1, <2>2, <2>3 DEF SameKey
  <1>8. CASE Closing(w)
    <2>1. PICK j, value : Write(w, [View(w) EXCEPT !.conflicts[j] = Closed(@, value)])
      BY <1>8 DEF Closing
    <2> DEFINE rows == View(w).conflicts
               new == [rows EXCEPT ![j] = Closed(rows[j], value)]
    <2>2. disk' = disk /\ staged'.conflicts = new
      BY <1>1, <2>1 DEF Write, Image
    <2>3. k \in DOMAIN rows /\ SameKey(rows[k], disk.conflicts[k])
      BY <2>2, ViewKeys
    <2>4. DOMAIN new = DOMAIN rows /\ SameKey(new[k], rows[k])
      BY <1>1, <2>3, ClosedKeys
    <2> HIDE DEF rows, new
    <2> QED BY <2>2, <2>3, <2>4 DEF SameKey
  <1> QED BY <1>2, <1>3, <1>4, <1>5, <1>6, <1>7, <1>8 DEF Effect

LEMMA HitStep ==
  ASSUME TypeOK, RecordingInv, HitInv, NEW w \in Writers, Ingest(w) \/ Edit(w) \/ Fail(w)
  PROVE  HitInv'
  <1>1. Alone(w) /\ Effect(w)
    BY IngestEffect, EditEffect, FailEffect
  <1>2. ASSUME NEW k \in DOMAIN disk'.conflicts
        PROVE  /\ k \in DOMAIN staged'.conflicts
               /\ SameKey(staged'.conflicts[k], disk'.conflicts[k])
    BY <1>1, RowsKept
  <1> DEFINE Found(u) ==
        LET o == op[u]
        IN pc[u] = "record" /\ o.hit # 0 =>
             /\ o.hit \in DOMAIN View(u).conflicts
             /\ SameKey(View(u).conflicts[o.hit], [node |-> o.trace.node, attr |-> o.attr])
  <1>3. ASSUME NEW u \in Writers PROVE Found(u)'
    <2>1. CASE u # w
      <3>1. pc'[u] = pc[u] /\ op'[u] = op[u]
        BY <1>1, <2>1 DEF Alone
      <3>2. ASSUME pc[u] = "record", op[u].hit # 0
            PROVE  /\ op[u].hit \in DOMAIN View(u)'.conflicts
                   /\ SameKey(View(u)'.conflicts[op[u].hit],
                              [node |-> op[u].trace.node, attr |-> op[u].attr])
        <4>1. /\ op[u].hit \in DOMAIN View(u).conflicts
              /\ SameKey(View(u).conflicts[op[u].hit],
                         [node |-> op[u].trace.node, attr |-> op[u].attr])
          BY <3>2 DEF HitInv
        <4>2. /\ op[u].hit \in DOMAIN View(u)'.conflicts
              /\ SameKey(View(u)'.conflicts[op[u].hit], View(u).conflicts[op[u].hit])
          BY <1>1, <2>1, <4>1, OtherView
        <4> QED BY <4>1, <4>2 DEF SameKey
      <3> QED BY <3>1, <3>2
    <2>2. CASE u = w
      <3> SUFFICES ASSUME pc'[w] = "record", op'[w].hit # 0
                   PROVE  /\ op'[w].hit \in DOMAIN View(w)'.conflicts
                          /\ SameKey(View(w)'.conflicts[op'[w].hit],
                                     [node |-> op'[w].trace.node, attr |-> op'[w].attr])
        BY <2>2
      <3>1. UNCHANGED sqlite /\ op'[w].hit \in OpenRows(View(w), op'[w].trace.node, op'[w].attr)
        BY RecordFromLookup
      <3>2. View(w)' = View(w)
        BY <3>1 DEF View, sqlite
      <3> QED BY <3>1, <3>2 DEF OpenRows, SameKey
    <2> QED BY <2>1, <2>2
  <1> QED BY <1>2, <1>3 DEF HitInv

-----------------------------------------------------------------------------
(* Every conflict row is traced *)

LEMMA HasTraceAppend ==
  ASSUME NEW image \in Image, NEW t \in Trace, NEW c, ConflictTraced(image, c)
  PROVE  ConflictTraced([image EXCEPT !.traces = Append(image.traces, t)], c)
  <1> DEFINE new == [image EXCEPT !.traces = Append(image.traces, t)]
  <1>1. image.traces \in Seq(Trace) /\ new.traces = Append(image.traces, t)
    BY DEF Image
  <1>2. \A k \in DOMAIN image.traces : k \in DOMAIN new.traces /\ new.traces[k] = image.traces[k]
    BY <1>1, AppendProperties
  <1> HIDE DEF new
  <1> QED BY <1>2 DEF ConflictTraced, HasTrace, new

\* Staging the trace of an operation traces the rows it has recorded.
LEMMA PendingAppend ==
  ASSUME NEW image \in Image, NEW o \in Op, NEW c \in ConflictRow, Pending(o, c)
  PROVE  ConflictTraced([image EXCEPT !.traces = Append(image.traces, o.trace)], c)
  <1> DEFINE t == o.trace
             new == [image EXCEPT !.traces = Append(image.traces, t)]
             last == Len(image.traces) + 1
  <1>1. image.traces \in Seq(Trace) /\ t \in Trace /\ new.traces = Append(image.traces, t)
    BY DEF Image, Op
  <1>2. last \in DOMAIN new.traces /\ new.traces[last] = t
    BY <1>1, AppendProperties
  <1>3. /\ t.node = c.node /\ t.facts[c.attr] = c.incoming.value
        /\ t.conf = c.incoming.conf /\ t.source = c.incoming.source
    BY DEF Pending
  <1> HIDE DEF new, t, last
  <1> QED BY <1>2, <1>3 DEF ConflictTraced, HasTrace, new, t

\* ConflictTraced looks at the traces of an image and the incoming side only.
LEMMA ConflictTracedSame ==
  ASSUME NEW v, NEW image, image.traces = v.traces, NEW c, NEW d,
         ConflictTraced(v, c), SameKey(d, c), d.incoming = c.incoming
  PROVE  ConflictTraced(image, d)
  BY DEF ConflictTraced, HasTrace, SameKey

\* The rows a process sees are traced, or it is going to trace them.
LEMMA ViewTraced ==
  ASSUME TypeOK, TracedInv, NEW w \in Writers, CanWrite(w), NEW k \in DOMAIN View(w).conflicts
  PROVE  \/ ConflictTraced(View(w), View(w).conflicts[k])
         \/ /\ locker = w /\ pc[w] \in Recorders
            /\ Pending(op[w], View(w).conflicts[k])
  <1>1. CASE locker = w
    BY <1>1 DEF View, TracedInv
  <1>2. CASE locker # w
    BY <1>2 DEF View, TracedInv
  <1> QED BY <1>1, <1>2

\* record() leaves rows that were there and one whose incoming side is the
\* operation's own trace.
LEMMA RecordedRows ==
  ASSUME TypeOK, RecordingInv, HitInv, NEW w \in Writers, pc[w] = "record",
         NEW k \in DOMAIN Recorded(View(w).conflicts, op[w])
  PROVE  LET c == Recorded(View(w).conflicts, op[w])[k]
         IN \/ k \in DOMAIN View(w).conflicts /\ c = View(w).conflicts[k]
            \/ Pending(op[w], c)
  <1> DEFINE o == op[w]
             rows == View(w).conflicts
             new == ConflictOf(o.seen, o.old.attrs, o.trace, o.attr)
  <1>1. new \in ConflictRow
    <2>1. o.attr \in Queued(o.seen, o.old.attrs, o.trace)
      BY DEF RecordingInv, QueuedBy
    <2> QED BY <2>1, OpAt, ConflictOfType DEF TypeOK
  <1>2. rows \in Seq(ConflictRow)
    BY ViewType DEF TypeOK, Image
  <1>3. /\ new.node = o.trace.node /\ new.attr = o.attr
        /\ new.incoming = [value |-> o.trace.facts[o.attr], conf |-> o.trace.conf,
                           source |-> o.trace.source]
    BY DEF ConflictOf
  <1>4. CASE o.hit # 0
    <2> DEFINE e == Refreshed(rows[o.hit], new)
    <2>1. o.hit \in DOMAIN rows /\ rows[o.hit].node = o.trace.node /\ rows[o.hit].attr = o.attr
      BY <1>4 DEF HitInv, SameKey
    <2>2. rows[o.hit] \in ConflictRow
      BY <1>2, <2>1, ElementOfSeq
    <2>3. e.node = o.trace.node /\ e.attr = o.attr /\ e.incoming = new.incoming
      BY <2>1, <2>2 DEF Refreshed, ConflictRow
    <2>4. Recorded(rows, o) = [rows EXCEPT ![o.hit] = e]
      BY <1>4 DEF Recorded
    <2>5. k \in DOMAIN rows /\ Recorded(rows, o)[k] = IF k = o.hit THEN e ELSE rows[k]
      <3>1. e \in ConflictRow
        BY <1>1, <2>2, RefreshedType
      <3> HIDE DEF e, o
      <3> QED BY <1>2, <2>4, <3>1, RowUpdate DEF o
    <2>6. Pending(o, e)
      <3> HIDE DEF e, new
      <3> QED BY <1>3, <2>3 DEF Pending
    <2> QED BY <2>5, <2>6
  <1>5. CASE o.hit = 0
    <2>1. Recorded(rows, o) = Append(rows, new)
      BY <1>5 DEF Recorded
    <2>2. k \in 1..(Len(rows) + 1) /\ Len(rows) \in Nat
      <3> HIDE DEF new
      <3> QED BY <1>1, <1>2, <2>1, AppendProperties
    <2>3. CASE k = Len(rows) + 1
      <3>1. Recorded(rows, o)[k] = new
        <4> HIDE DEF new
        <4> QED BY <1>1, <1>2, <2>1, <2>3, AppendProperties
      <3>2. Pending(o, new)
        BY <1>3 DEF Pending
      <3> QED BY <3>1, <3>2
    <2>4. CASE k \in 1..Len(rows)
      <3> HIDE DEF new
      <3> QED BY <1>1, <1>2, <2>1, <2>4, AppendProperties
    <2> QED BY <2>2, <2>3, <2>4
  <1> QED BY <1>4, <1>5

\* The rows staged or committed by a step of w, when w has nothing left to trace.
LEMMA TracedAll ==
  ASSUME TypeOK, TracedInv, NEW w \in Writers, CanWrite(w), pc[w] \notin Recorders
  PROVE  \A k \in DOMAIN View(w).conflicts : ConflictTraced(View(w), View(w).conflicts[k])
  BY ViewTraced

LEMMA TracedStep ==
  ASSUME TypeOK, RecordingInv, HitInv, TracedInv, NEW w \in Writers, Alone(w), Effect(w)
  PROVE  TracedInv'
  <1> DEFINE Traced(image) == \A k \in DOMAIN image.conflicts :
                                ConflictTraced(image, image.conflicts[k])
             BeingTraced(c) == \E u \in Writers : /\ locker = u /\ pc[u] \in Recorders
                                                  /\ Pending(op[u], c)
             WillBeTraced(c) == \E u \in Writers : /\ locker' = u /\ pc'[u] \in Recorders
                                                   /\ Pending(op'[u], c)
  <1>1. View(w) \in Image /\ View(w).conflicts \in Seq(ConflictRow) /\ op[w] \in Op
    BY ViewType, OpAt DEF TypeOK, Image
  <1>2. Traced(disk)
    BY DEF TracedInv
  \* A process that holds the lock and is not w goes on holding it.
  <1>3. ASSUME NEW c, BeingTraced(c),
               (pc'[w] \in Recorders /\ op'[w].trace = op[w].trace) \/ locker # w,
               locker' = locker
        PROVE  WillBeTraced(c)
    <2>1. PICK u \in Writers : locker = u /\ pc[u] \in Recorders /\ Pending(op[u], c)
      BY <1>3
    <2>2. pc'[u] \in Recorders /\ op'[u].trace = op[u].trace
      BY <1>3, <2>1 DEF Alone
    <2>3. Pending(op'[u], c)
      BY <2>1, <2>2 DEF Pending
    <2> QED BY <1>3, <2>1, <2>2, <2>3
  <1>4. CASE Quiet(w)
    <2>1. disk' = disk /\ staged' = staged /\ locker' = locker
      BY <1>4 DEF Quiet, sqlite
    <2>2. ASSUME NEW c, BeingTraced(c) PROVE WillBeTraced(c)
      <3>1. CASE locker = w
        <4>1. pc[w] \in Recorders
          BY <2>2, <3>1
        <4>2. pc'[w] \in Recorders /\ op'[w].trace = op[w].trace
          BY <1>4, <4>1 DEF Quiet, Untraced, Recorders
        <4> QED BY <1>3, <2>1, <2>2, <4>2
      <3>2. CASE locker # w
        BY <1>3, <2>1, <2>2, <3>2
      <3> QED BY <3>1, <3>2
    <2>3. ASSUME NEW k \in DOMAIN staged.conflicts
          PROVE  \/ ConflictTraced(staged, staged.conflicts[k])
                 \/ WillBeTraced(staged.conflicts[k])
      BY <2>2 DEF TracedInv
    <2> QED BY <1>2, <2>1, <2>3 DEF TracedInv
  <1>5. CASE Dropping(w)
    <2>1. CASE locker = w
      BY <1>2, <1>5, <2>1 DEF Dropping, Rollback, TracedInv
    <2>2. CASE locker # w
      <3>1. disk' = disk /\ staged' = staged /\ locker' = locker
        BY <1>5, <2>2 DEF Dropping, Rollback
      <3>2. ASSUME NEW k \in DOMAIN staged.conflicts
            PROVE  \/ ConflictTraced(staged, staged.conflicts[k])
                   \/ WillBeTraced(staged.conflicts[k])
        BY <1>3, <2>2, <3>1 DEF TracedInv
      <3> QED BY <1>2, <3>1, <3>2 DEF TracedInv
    <2> QED BY <2>1, <2>2
  <1>6. CASE Committing(w)
    <2>1. CASE locker = w
      <3>1. Traced(View(w))
        BY <1>6, <2>1, TracedAll DEF Committing, CanWrite, Untraced, Recorders
      <3> QED BY <1>6, <2>1, <3>1 DEF Committing, Commit, View, TracedInv
    <2>2. CASE locker # w
      <3>1. disk' = disk /\ staged' = staged /\ locker' = locker
        BY <1>6, <2>2 DEF Committing, Commit, View
      <3>2. ASSUME NEW k \in DOMAIN staged.conflicts
            PROVE  \/ ConflictTraced(staged, staged.conflicts[k])
                   \/ WillBeTraced(staged.conflicts[k])
        BY <1>3, <2>2, <3>1 DEF TracedInv
      <3> QED BY <1>2, <3>1, <3>2 DEF TracedInv
    <2> QED BY <2>1, <2>2
  <1>7. CASE Saving(w)
    <2>1. Traced(View(w))
      BY <1>7, TracedAll DEF Saving
    <2>2. disk'.traces = View(w).traces /\ disk'.conflicts = View(w).conflicts /\ staged' = disk'
      BY <1>1, <1>7 DEF Saving, Image
    <2> QED BY <2>1, <2>2 DEF TracedInv, ConflictTraced, HasTrace
  <1>8. CASE Tracing(w)
    <2> DEFINE new == [View(w) EXCEPT !.traces = Append(View(w).traces, op[w].trace)]
    <2>1. disk' = disk /\ staged' = new /\ new.conflicts = View(w).conflicts /\ CanWrite(w)
      BY <1>1, <1>8 DEF Tracing, Write, Image
    <2>2. ASSUME NEW k \in DOMAIN View(w).conflicts
          PROVE  ConflictTraced(new, View(w).conflicts[k])
      <3> DEFINE c == View(w).conflicts[k]
      <3>1. c \in ConflictRow /\ op[w].trace \in Trace
        BY <1>1, ElementOfSeq, OpAt DEF TypeOK
      <3>2. CASE ConflictTraced(View(w), c)
        BY <1>1, <3>1, <3>2, HasTraceAppend
      <3>3. CASE Pending(op[w], c)
        BY <1>1, <3>1, <3>3, PendingAppend
      <3> QED BY <2>1, <3>2, <3>3, ViewTraced
    <2> HIDE DEF new
    <2> QED BY <1>2, <2>1, <2>2 DEF TracedInv
  <1>9. CASE Queueing(w)
    <2> DEFINE rows == Recorded(View(w).conflicts, op[w])
    <2>1. /\ disk' = disk /\ staged'.conflicts = rows /\ staged'.traces = View(w).traces
          /\ CanWrite(w) /\ locker' = w
      BY <1>1, <1>9 DEF Queueing, Write, Image
    <2>2. pc'[w] \in Recorders /\ op'[w].trace = op[w].trace
      BY <1>9 DEF Queueing
    <2>3. ASSUME NEW c, Pending(op[w], c) PROVE WillBeTraced(c)
      <3>1. Pending(op'[w], c)
        BY <2>2, <2>3 DEF Pending
      <3> QED BY <2>1, <2>2, <3>1
    <2>4. ASSUME NEW k \in DOMAIN rows
          PROVE  ConflictTraced(staged', rows[k]) \/ WillBeTraced(rows[k])
      <3>1. CASE Pending(op[w], rows[k])
        BY <2>3, <3>1
      <3>2. CASE k \in DOMAIN View(w).conflicts /\ rows[k] = View(w).conflicts[k]
        <4>1. CASE ConflictTraced(View(w), rows[k])
          BY <2>1, <4>1, ConflictTracedSame DEF SameKey
        <4>2. CASE Pending(op[w], rows[k])
          BY <2>3, <4>2
        <4> QED BY <2>1, <3>2, <4>1, <4>2, ViewTraced
      <3> QED BY <1>9, <3>1, <3>2, RecordedRows DEF Queueing
    <2> HIDE DEF rows
    <2> QED BY <1>2, <2>1, <2>4 DEF TracedInv
  <1>10. CASE Closing(w)
    <2>1. PICK j, value : Write(w, [View(w) EXCEPT !.conflicts[j] = Closed(@, value)])
      BY <1>10 DEF Closing
    <2> DEFINE rows == View(w).conflicts
               new == [rows EXCEPT ![j] = Closed(rows[j], value)]
    <2>2. disk' = disk /\ staged'.conflicts = new /\ staged'.traces = View(w).traces /\ CanWrite(w)
      BY <1>1, <2>1 DEF Write, Image
    <2>3. Traced(View(w))
      BY <1>10, <2>2, TracedAll DEF Closing, Untraced, Recorders
    <2>4. ASSUME NEW k \in DOMAIN new PROVE ConflictTraced(staged', new[k])
      <3>1. k \in DOMAIN rows
        OBVIOUS
      <3>2. SameKey(new[k], rows[k]) /\ new[k].incoming = rows[k].incoming
        BY <1>1, <3>1, ClosedKeys
      <3> HIDE DEF new
      <3> QED BY <2>2, <2>3, <3>1, <3>2, ConflictTracedSame
    <2> HIDE DEF new
    <2> QED BY <1>2, <2>2, <2>4 DEF TracedInv
  <1> QED BY <1>4, <1>5, <1>6, <1>7, <1>8, <1>9, <1>10 DEF Effect

-----------------------------------------------------------------------------
(* The audit trail is complete *)

AuditInv == RecordingInv /\ HitInv /\ SourcedInv /\ TracedInv

LEMMA InitAudit ==
  ASSUME Init
  PROVE  AuditInv
  <1>1. disk = EmptyImage /\ staged = EmptyImage /\ \A w \in Writers : pc[w] = "idle"
    BY DEF Init
  <1>2. DOMAIN EmptyImage.traces = {} /\ DOMAIN EmptyImage.conflicts = {}
    BY DEF EmptyImage
  <1> QED BY <1>1, <1>2 DEF AuditInv, RecordingInv, HitInv, SourcedInv, Sourced, TracedInv, Untraced

LEMMA NextAudit ==
  ASSUME TypeOK, AuditInv, [Next]_vars
  PROVE  AuditInv'
  <1>1. CASE UNCHANGED vars
    BY <1>1 DEF vars, AuditInv, RecordingInv, HitInv, SourcedInv, Sourced, TracedInv,
       ConflictTraced, HasTrace, Pending, View
  <1>2. ASSUME NEW w \in Writers, Ingest(w) \/ Edit(w) \/ Fail(w)
        PROVE  HitInv' /\ SourcedInv' /\ TracedInv'
    <2>1. Alone(w) /\ Effect(w)
      BY <1>2, IngestEffect, EditEffect, FailEffect
    <2> QED BY <1>2, <2>1, HitStep, SourcedStep, TracedStep DEF AuditInv
  <1> QED BY <1>1, <1>2, NextRecording DEF Next, AuditInv

\* In every reachable state each committed trace names a stored source record,
\* and the incoming side of each committed conflict row is a committed trace:
\* a conflict never shows a reviewer a fact that cannot be followed back.
THEOREM AuditTrail == Spec => []AuditComplete
  <1>1. Init => TypeOK /\ AuditInv
    BY InitTypeOK, InitAudit
  <1>2. TypeOK /\ AuditInv /\ [Next]_vars => (TypeOK /\ AuditInv)'
    BY NextTypeOK, NextAudit DEF AuditInv
  <1>3. AuditInv => AuditComplete
    BY DEF AuditInv, SourcedInv, TracedInv, AuditComplete
  <1> QED BY <1>1, <1>2, <1>3, PTL DEF Spec

-----------------------------------------------------------------------------
(* One open row of an attribute *)

\* An image with no other open rows than an unambiguous one is unambiguous.
LEMMA FewerOpenRows ==
  ASSUME NEW image, NEW new, Unambiguous(image),
         \A n \in Nodes, a \in Attrs : OpenRows(new, n, a) \subseteq OpenRows(image, n, a)
  PROVE  Unambiguous(new)
  BY DEF Unambiguous

\* UPDATEs that keep a row's key and open none.
LEMMA UpdatedOpenRows ==
  ASSUME NEW image, NEW new, Unambiguous(image),
         \A k \in DOMAIN new.conflicts :
            /\ k \in DOMAIN image.conflicts
            /\ SameKey(new.conflicts[k], image.conflicts[k])
            /\ new.conflicts[k].open => image.conflicts[k].open
  PROVE  Unambiguous(new)
  BY FewerOpenRows DEF OpenRows, SameKey

\* The rows record() leaves: those that were there, as open as they were, or
\* a new one when the lookup found none.
LEMMA RecordedRow ==
  ASSUME TypeOK, RecordingInv, HitInv, NEW w \in Writers, pc[w] = "record",
         NEW k \in DOMAIN Recorded(View(w).conflicts, op[w])
  PROVE  LET rows == View(w).conflicts
             c == Recorded(rows, op[w])[k]
         IN \/ /\ k \in DOMAIN rows /\ SameKey(c, rows[k])
               /\ c.open = rows[k].open /\ c.chosen = rows[k].chosen
            \/ /\ op[w].hit = 0 /\ k = Len(rows) + 1
               /\ c.node = op[w].trace.node /\ c.attr = op[w].attr /\ c.open
  <1> DEFINE o == op[w]
             rows == View(w).conflicts
             new == ConflictOf(o.seen, o.old.attrs, o.trace, o.attr)
  <1>1. new \in ConflictRow
    <2>1. o.attr \in Queued(o.seen, o.old.attrs, o.trace)
      BY DEF RecordingInv, QueuedBy
    <2> QED BY <2>1, OpAt, ConflictOfType DEF TypeOK
  <1>2. rows \in Seq(ConflictRow)
    BY ViewType DEF TypeOK, Image
  <1>3. new.node = o.trace.node /\ new.attr = o.attr /\ new.open
    BY DEF ConflictOf
  <1>4. CASE o.hit # 0
    <2> DEFINE e == Refreshed(rows[o.hit], new)
    <2>1. o.hit \in DOMAIN rows
      BY <1>4 DEF HitInv
    <2>2. rows[o.hit] \in ConflictRow
      BY <1>2, <2>1, ElementOfSeq
    <2>3. /\ SameKey(e, rows[o.hit]) /\ e.open = rows[o.hit].open
          /\ e.chosen = rows[o.hit].chosen
      BY <2>2 DEF Refreshed, ConflictRow, SameKey
    <2>4. e \in ConflictRow
      BY <1>1, <2>2, RefreshedType
    <2>5. Recorded(rows, o) = [rows EXCEPT ![o.hit] = e]
      BY <1>4 DEF Recorded
    <2>6. k \in DOMAIN rows /\ Recorded(rows, o)[k] = IF k = o.hit THEN e ELSE rows[k]
      <3> HIDE DEF e, o, rows
      <3> QED BY <1>2, <2>4, <2>5, RowUpdate DEF o, rows
    <2> HIDE DEF e
    <2> QED BY <2>3, <2>6 DEF SameKey
  <1>5. CASE o.hit = 0
    <2>1. Recorded(rows, o) = Append(rows, new)
      BY <1>5 DEF Recorded
    <2> HIDE DEF new
    <2>2. k \in 1..(Len(rows) + 1) /\ Len(rows) \in Nat
      BY <1>1, <1>2, <2>1, AppendProperties
    <2>3. CASE k = Len(rows) + 1
      BY <1>1, <1>2, <1>3, <1>5, <2>1, <2>3, AppendProperties
    <2>4. CASE k \in 1..Len(rows)
      BY <1>1, <1>2, <2>1, <2>4, AppendProperties DEF SameKey
    <2> QED BY <2>2, <2>3, <2>4
  <1> QED BY <1>4, <1>5

LEMMA QueueingUnambiguous ==
  ASSUME TypeOK, RecordingInv, HitInv, NEW w \in Writers, Queueing(w), Unambiguous(View(w))
  PROVE  Unambiguous(staged')
  <1> DEFINE o == op[w]
             rows == View(w).conflicts
  <1>1. /\ staged'.conflicts = Recorded(rows, o) /\ pc[w] = "record"
        /\ o.hit = 0 => OpenRows(View(w), o.trace.node, o.attr) = {}
    BY ViewType DEF TypeOK, Queueing, Write, Image, IndexViolated
  <1> SUFFICES ASSUME NEW n \in Nodes, NEW a \in Attrs,
                      NEW i \in OpenRows(staged', n, a), NEW j \in OpenRows(staged', n, a)
               PROVE  i = j
    BY DEF Unambiguous
  <1> DEFINE Old(k) == k \in OpenRows(View(w), n, a)
             New(k) == o.hit = 0 /\ k = Len(rows) + 1 /\ n = o.trace.node /\ a = o.attr
  <1>2. ASSUME NEW k \in OpenRows(staged', n, a) PROVE Old(k) \/ New(k)
    <2>1. /\ k \in DOMAIN Recorded(rows, o) /\ Recorded(rows, o)[k].open
          /\ Recorded(rows, o)[k].node = n /\ Recorded(rows, o)[k].attr = a
      BY <1>1, <1>2 DEF OpenRows
    <2> QED BY <1>1, <2>1, RecordedRow DEF OpenRows, SameKey
  <1>3. (Old(i) \/ New(i)) /\ (Old(j) \/ New(j))
    BY <1>2
  <1> QED BY <1>1, <1>3 DEF Unambiguous

LEMMA OpenStep ==
  ASSUME TypeOK, RecordingInv, HitInv, OpenInv, NEW w \in Writers, Effect(w)
  PROVE  OpenInv'
  <1>1. View(w) \in Image /\ View(w).conflicts \in Seq(ConflictRow) /\ Unambiguous(View(w))
    BY ViewType DEF TypeOK, Image, OpenInv, View
  <1>2. ASSUME NEW image, NEW v, Unambiguous(v), image.conflicts = v.conflicts
        PROVE  Unambiguous(image)
    BY <1>2 DEF Unambiguous, OpenRows
  <1>3. CASE Quiet(w) \/ Dropping(w) \/ Committing(w)
    <2>1. disk' \in {disk, View(w)} /\ staged' \in {disk, staged}
      BY <1>3 DEF Quiet, Dropping, Committing, Rollback, Commit, sqlite
    <2> QED BY <1>1, <2>1 DEF OpenInv, Unambiguous, OpenRows
  <1>4. CASE Saving(w)
    <2>1. disk'.conflicts = View(w).conflicts /\ staged' = disk'
      BY <1>1, <1>4 DEF Saving, Image
    <2> QED BY <1>1, <1>2, <2>1 DEF OpenInv, Unambiguous, OpenRows
  <1>5. CASE Tracing(w)
    <2>1. disk' = disk /\ staged'.conflicts = View(w).conflicts
      BY <1>1, <1>5 DEF Tracing, Write, Image
    <2> QED BY <1>1, <1>2, <2>1 DEF OpenInv, Unambiguous, OpenRows
  <1>6. CASE Queueing(w)
    <2>1. disk' = disk /\ Unambiguous(staged')
      BY <1>1, <1>6, QueueingUnambiguous DEF Queueing, Write
    <2> QED BY <2>1 DEF OpenInv, Unambiguous, OpenRows
  <1>7. CASE Closing(w)
    <2>1. PICK j, value : Write(w, [View(w) EXCEPT !.conflicts[j] = Closed(@, value)])
      BY <1>7 DEF Closing
    <2> DEFINE rows == View(w).conflicts
               new == [rows EXCEPT ![j] = Closed(rows[j], value)]
    <2>2. disk' = disk /\ staged'.conflicts = new
      BY <1>1, <2>1 DEF Write, Image
    <2>3. ASSUME NEW k \in DOMAIN new
          PROVE  k \in DOMAIN rows /\ SameKey(new[k], rows[k]) /\ (new[k].open => rows[k].open)
      <3>1. k \in DOMAIN rows
        OBVIOUS
      <3>2. rows[k] \in ConflictRow
        BY <1>1, <3>1, ElementOfSeq
      <3>3. new[k] = IF k = j THEN Closed(rows[k], value) ELSE rows[k]
        BY <3>1
      <3>4. ~ Closed(rows[k], value).open
        BY <3>2 DEF Closed, ConflictRow
      <3>5. SameKey(new[k], rows[k])
        BY <1>1, <3>1, ClosedKeys
      <3> HIDE DEF new, rows
      <3> QED BY <3>1, <3>3, <3>4, <3>5
    <2> HIDE DEF new
    <2>4. Unambiguous(staged')
      BY <1>1, <2>2, <2>3, UpdatedOpenRows
    <2> QED BY <2>2, <2>4 DEF OpenInv, Unambiguous, OpenRows
  <1> QED BY <1>3, <1>4, <1>5, <1>6, <1>7 DEF Effect

\* At most one open conflict row of a node and attribute is ever committed,
\* however lookups and inserts of several processes interleave and whatever
\* fails: the unique index refuses the row that came second.
THEOREM OneRowPerAttribute == Spec => []OneOpenRow
  <1>1. Init => TypeOK /\ AuditInv /\ OpenInv
    <2> SUFFICES ASSUME Init PROVE OpenInv
      BY InitTypeOK, InitAudit
    <2> QED BY DEF Init, OpenInv, Unambiguous, OpenRows, EmptyImage
  <1>2. TypeOK /\ AuditInv /\ OpenInv /\ [Next]_vars => (TypeOK /\ AuditInv /\ OpenInv)'
    <2> SUFFICES ASSUME TypeOK, AuditInv, OpenInv, [Next]_vars PROVE OpenInv'
      BY NextTypeOK, NextAudit DEF AuditInv
    <2>1. CASE UNCHANGED vars
      BY <2>1 DEF vars, OpenInv, Unambiguous, OpenRows
    <2>2. CASE Next
      BY <2>2, NextEffect, OpenStep DEF AuditInv
    <2> QED BY <2>1, <2>2
  <1>3. OpenInv => OneOpenRow
    BY DEF OpenInv, Unambiguous, OneOpenRow
  <1> QED BY <1>1, <1>2, <1>3, PTL DEF Spec

-----------------------------------------------------------------------------
(* A resolution is traced before its row is closed *)

\* What a step of w leaves of the traces another process sees.
LEMMA OtherTraces ==
  ASSUME TypeOK, PrefixInv, NEW w \in Writers, Effect(w), NEW u \in Writers, u # w,
         NEW k \in DOMAIN View(u).traces
  PROVE  k \in DOMAIN View(u)'.traces /\ View(u)'.traces[k] = View(u).traces[k]
  <1>1. CASE locker = u
    <2>1. UNCHANGED <<staged, locker>>
      BY <1>1, WriterIsNotNobody DEF Effect, Quiet, Dropping, Committing, Saving, Tracing,
         Queueing, Closing, Rollback, Commit, Write, CanWrite, View, sqlite
    <2> QED BY <1>1, <2>1 DEF View
  <1>2. CASE locker # u
    <2>1. locker' # u
      BY <1>2, WriterIsNotNobody DEF Effect, Quiet, Dropping, Committing, Saving, Tracing,
         Queueing, Closing, Rollback, Commit, Write, CanWrite, View, sqlite
    <2>2. View(u) = disk /\ View(u)' = disk'
      BY <1>2, <2>1 DEF View
    <2> QED BY <2>2, TracesKept
  <1> QED BY <1>1, <1>2

\* An image that keeps the traces of another keeps what they say.
LEMMA HasTraceKept ==
  ASSUME NEW image, NEW new, NEW n, NEW a, NEW value, NEW conf, NEW source,
         HasTrace(image, n, a, value, conf, source),
         \A k \in DOMAIN image.traces :
           k \in DOMAIN new.traces /\ new.traces[k] = image.traces[k]
  PROVE  HasTrace(new, n, a, value, conf, source)
  BY DEF HasTrace

\* The steps by which an edit goes on, and what w sees of them.
LEMMA EditGoesOn ==
  ASSUME TypeOK, NEW w \in Writers, Ingest(w) \/ Edit(w) \/ Fail(w), pc'[w] \in Editing
  PROVE  \/ \E n \in Nodes : \E changes, k : ReadForEdit(w, n, changes, k) /\
             (k # 0 => /\ k \in DOMAIN View(w).conflicts
                        /\ View(w).conflicts[k].node = n /\ View(w).conflicts[k].open)
         \/ SaveEdit(w)
         \/ StageTraces(w) /\ pc[w] = "edit_stage"
         \/ SetNode(w) /\ pc'[w] = "edit_commit"
         \/ CommitEdit(w) /\ op[w].resolving # 0
  <1> USE DEF TypeOK, Editing
  <1>1. ASSUME Ingest(w) PROVE StageTraces(w) /\ pc[w] = "edit_stage"
    <2>1. ASSUME NEW b \in Batches, SaveRecord(w, b) PROVE FALSE
      BY <2>1, StartAlone DEF SaveRecord
    <2>2. CASE ReadNode(w) \/ ReconcileNode(w) \/ RecordConflict(w)
      BY <2>2 DEF ReadNode, ReconcileNode, RecordConflict, Goto, ControlType
    <2>3. CASE RecordRefused(w) \/ CommitNode(w) \/ Compensate(w)
      BY <2>3, FinishAlone DEF RecordRefused, CommitNode, Compensate, Abort
    <2>4. CASE StageTraces(w)
      BY <2>4, GotoAlone DEF StageTraces
    <2>5. CASE Merge(w)
      BY <2>5, GotoAlone, FinishAlone DEF Merge, Abort
    <2>6. ASSUME NEW a \in Attrs, FindOpenRow(w, a) PROVE FALSE
      BY <2>6 DEF FindOpenRow, Goto, ControlType
    <2> QED BY <1>1, <2>1, <2>2, <2>3, <2>4, <2>5, <2>6 DEF Ingest
  <1>2. ASSUME NEW n \in Nodes, NEW changes \in Edits, EditNode(w, n, changes)
        PROVE  \E m \in Nodes : \E c, k : ReadForEdit(w, m, c, k) /\
                 (k # 0 => /\ k \in DOMAIN View(w).conflicts
                            /\ View(w).conflicts[k].node = m /\ View(w).conflicts[k].open)
    BY <1>2 DEF EditNode
  <1>3. ASSUME NEW k \in DOMAIN View(w).conflicts, NEW v \in Values, ResolveConflict(w, k, v)
        PROVE  \E m \in Nodes : \E c, j : ReadForEdit(w, m, c, j) /\
                 (j # 0 => /\ j \in DOMAIN View(w).conflicts
                            /\ View(w).conflicts[j].node = m /\ View(w).conflicts[j].open)
    <2> DEFINE n == View(w).conflicts[k].node
               c == [Nothing EXCEPT ![View(w).conflicts[k].attr] = v]
    <2>1. View(w).conflicts \in Seq(ConflictRow)
      BY ViewType DEF Image
    <2>2. View(w).conflicts[k] \in ConflictRow
      BY <2>1, ElementOfSeq
    <2>3. n \in Nodes
      BY <2>2 DEF ConflictRow
    <2>4. ReadForEdit(w, n, c, k) /\ View(w).conflicts[k].open
      BY <1>3 DEF ResolveConflict
    <2> HIDE DEF n, c
    <2> QED BY <2>3, <2>4 DEF n
  <1>4. CASE Restore(w) \/ CommitClose(w)
    BY <1>4, FinishAlone DEF Restore, CommitClose
  <1>5. CASE CloseConflict(w)
    BY <1>5, GotoAlone DEF CloseConflict
  <1>6. CASE SetNode(w)
    BY <1>6, GotoAlone, FinishAlone DEF SetNode, Abort
  <1>7. CASE CommitEdit(w)
    BY <1>7, GotoAlone, FinishAlone DEF CommitEdit
  <1>8. CASE Fail(w)
    BY <1>8, FailAlone
  <1> QED BY <1>1, <1>2, <1>3, <1>4, <1>5, <1>6, <1>7, <1>8 DEF Edit

\* EditInv, for one process.
EditingAt(w) ==
  LET o == op[w]
      rows == View(w).conflicts
  IN /\ pc[w] \in Editing =>
          /\ o.trace.conf = "human" /\ o.trace.source = HumanEdits
          /\ o.resolving # 0 => /\ o.resolving \in DOMAIN rows
                                /\ rows[o.resolving].node = o.trace.node
     /\ pc[w] \in {"edit_set", "edit_commit", "close"} =>
          \E k \in DOMAIN View(w).traces : View(w).traces[k] = o.trace
     /\ pc[w] = "close" => o.resolving # 0

LEMMA EditStepOwn ==
  ASSUME TypeOK, EditInv, NEW w \in Writers, Ingest(w) \/ Edit(w) \/ Fail(w)
  PROVE  EditingAt(w)'
  <1> USE DEF TypeOK
  <1> SUFFICES ASSUME pc'[w] \in Editing PROVE EditingAt(w)'
    BY DEF EditingAt, Editing
  <1>1. View(w) \in Image /\ View(w).traces \in Seq(Trace) /\ op[w].trace \in Trace
    BY ViewType, OpAt DEF Image
  <1>2. EditingAt(w)
    BY DEF EditInv, EditingAt
  <1>3. ASSUME NEW n \in Nodes, NEW changes, NEW k, ReadForEdit(w, n, changes, k),
               k # 0 => k \in DOMAIN View(w).conflicts /\ View(w).conflicts[k].node = n
        PROVE  EditingAt(w)'
    <2> DEFINE o == [NoOp EXCEPT !.trace = HumanTrace(n, changes), !.old = graph[n],
                                 !.resolving = k]
    <2>1. pc'[w] = "edit_source" /\ op'[w] = o
      BY <1>3, StartAlone DEF ReadForEdit
    <2>2. o.trace = HumanTrace(n, changes) /\ o.resolving = k
      BY NoOpType DEF Op
    <2>3. View(w)' = View(w)
      BY <1>3 DEF ReadForEdit, View, sqlite
    <2> HIDE DEF o
    <2> QED BY <1>3, <2>1, <2>2, <2>3 DEF EditingAt, HumanTrace
  <1>4. CASE SaveEdit(w)
    <2>1. pc[w] = "edit_source" /\ pc'[w] = "edit_stage" /\ op'[w] = op[w]
      BY <1>4, GotoAlone DEF SaveEdit
    <2>2. View(w)'.conflicts = View(w).conflicts
      BY <1>1, <1>4, WriterIsNotNobody DEF SaveEdit, View, Image
    <2> QED BY <1>2, <2>1, <2>2 DEF EditingAt, Editing
  <1>5. CASE StageTraces(w) /\ pc[w] = "edit_stage"
    <2>1. pc'[w] = "edit_set" /\ op'[w] = op[w]
      BY <1>5, GotoAlone DEF StageTraces
    <2>2. /\ View(w)'.conflicts = View(w).conflicts
          /\ View(w)'.traces = Append(View(w).traces, op[w].trace)
      BY <1>1, <1>5 DEF StageTraces, Write, View, Image
    <2>3. \E k \in DOMAIN View(w)'.traces : View(w)'.traces[k] = op[w].trace
      <3> DEFINE last == Len(View(w).traces) + 1
      <3>1. last \in DOMAIN View(w)'.traces /\ View(w)'.traces[last] = op[w].trace
        BY <1>1, <2>2, AppendProperties
      <3> QED BY <3>1
    <2> QED BY <1>2, <1>5, <2>1, <2>2, <2>3 DEF EditingAt, Editing
  <1>6. CASE SetNode(w) /\ pc'[w] = "edit_commit"
    <2>1. pc[w] = "edit_set" /\ op'[w] = op[w] /\ UNCHANGED sqlite
      BY <1>6, FinishAlone, GotoAlone DEF SetNode, Abort
    <2>2. View(w)' = View(w)
      BY <2>1 DEF View, sqlite
    <2> QED BY <1>2, <1>6, <2>1, <2>2 DEF EditingAt, Editing
  <1>7. CASE CommitEdit(w) /\ op[w].resolving # 0
    <2>1. pc[w] = "edit_commit" /\ pc'[w] = "close" /\ op'[w] = op[w]
      BY <1>7, GotoAlone DEF CommitEdit
    <2>2. View(w)' = View(w)
      BY <1>7, WriterIsNotNobody DEF CommitEdit, Commit, View
    <2> QED BY <1>2, <1>7, <2>1, <2>2 DEF EditingAt, Editing
  <1> QED BY <1>3, <1>4, <1>5, <1>6, <1>7, EditGoesOn

LEMMA EditStep ==
  ASSUME TypeOK, RecordingInv, HitInv, PrefixInv, EditInv,
         NEW w \in Writers, Ingest(w) \/ Edit(w) \/ Fail(w)
  PROVE  EditInv'
  <1>1. Alone(w) /\ Effect(w)
    BY IngestEffect, EditEffect, FailEffect
  <1>2. ASSUME NEW u \in Writers, u # w PROVE EditingAt(u)'
    <2>1. pc'[u] = pc[u] /\ op'[u] = op[u] /\ EditingAt(u)
      BY <1>1, <1>2 DEF Alone, EditInv, EditingAt
    <2>2. ASSUME NEW k \in DOMAIN View(u).conflicts
          PROVE  /\ k \in DOMAIN View(u)'.conflicts
                 /\ SameKey(View(u)'.conflicts[k], View(u).conflicts[k])
      BY <1>1, <1>2, OtherView
    <2>3. ASSUME NEW k \in DOMAIN View(u).traces
          PROVE  k \in DOMAIN View(u)'.traces /\ View(u)'.traces[k] = View(u).traces[k]
      BY <1>1, <1>2, OtherTraces
    <2> QED BY <2>1, <2>2, <2>3 DEF EditingAt, SameKey
  <1>3. \A u \in Writers : EditingAt(u)'
    BY <1>2, EditStepOwn
  <1> QED BY <1>3 DEF EditInv, EditingAt

\* UPDATEs that keep a row's key, and its chosen value when they leave it
\* closed, next to traces that are kept.
LEMMA SettledKept ==
  ASSUME NEW image, NEW new, Settled(image),
         \A k \in DOMAIN image.traces :
           k \in DOMAIN new.traces /\ new.traces[k] = image.traces[k],
         \A k \in DOMAIN new.conflicts :
           ~ new.conflicts[k].open =>
             \/ /\ k \in DOMAIN image.conflicts /\ ~ image.conflicts[k].open
                /\ SameKey(new.conflicts[k], image.conflicts[k])
                /\ new.conflicts[k].chosen = image.conflicts[k].chosen
             \/ LET c == new.conflicts[k]
                IN HasTrace(image, c.node, c.attr, c.chosen, "human", HumanEdits)
  PROVE  Settled(new)
  <1> SUFFICES ASSUME NEW k \in DOMAIN new.conflicts, ~ new.conflicts[k].open
               PROVE  LET c == new.conflicts[k]
                      IN HasTrace(new, c.node, c.attr, c.chosen, "human", HumanEdits)
    BY DEF Settled
  <1> DEFINE c == new.conflicts[k]
  <1>1. HasTrace(image, c.node, c.attr, c.chosen, "human", HumanEdits)
    BY DEF Settled, SameKey
  <1> HIDE DEF c
  <1>2. HasTrace(new, c.node, c.attr, c.chosen, "human", HumanEdits)
    BY <1>1, HasTraceKept
  <1> QED BY <1>2 DEF c

\* The row a resolution closes says what the edit wrote.
LEMMA ClosingTraced ==
  ASSUME TypeOK, EditInv, NEW w \in Writers, CloseConflict(w), Settled(View(w))
  PROVE  Settled(staged')
  <1> DEFINE j == op[w].resolving
             rows == View(w).conflicts
             t == op[w].trace
             value == t.facts[rows[j].attr]
             new == [rows EXCEPT ![j] = Closed(rows[j], value)]
  <1>1. View(w) \in Image /\ rows \in Seq(ConflictRow)
    BY ViewType DEF TypeOK, Image
  <1>2. staged'.conflicts = new /\ staged'.traces = View(w).traces
    BY <1>1 DEF CloseConflict, Write, Image
  <1>3. pc[w] = "close"
    BY DEF CloseConflict
  <1>4. /\ t.conf = "human" /\ t.source = HumanEdits /\ j \in DOMAIN rows
        /\ rows[j].node = t.node /\ \E k \in DOMAIN View(w).traces : View(w).traces[k] = t
    BY <1>3 DEF EditInv, Editing
  <1>5. HasTrace(View(w), rows[j].node, rows[j].attr, value, "human", HumanEdits)
    BY <1>4 DEF HasTrace
  <1>6. ASSUME NEW k \in DOMAIN new, ~ new[k].open
        PROVE  \/ /\ k \in DOMAIN rows /\ ~ rows[k].open
                  /\ SameKey(new[k], rows[k]) /\ new[k].chosen = rows[k].chosen
               \/ HasTrace(View(w), new[k].node, new[k].attr, new[k].chosen, "human", HumanEdits)
    <2>1. k \in DOMAIN rows /\ new[k] = IF k = j THEN Closed(rows[k], value) ELSE rows[k]
      OBVIOUS
    <2>2. rows[k] \in ConflictRow
      BY <1>1, <2>1, ElementOfSeq
    <2>3. /\ Closed(rows[k], value).node = rows[k].node /\ Closed(rows[k], value).attr = rows[k].attr
          /\ Closed(rows[k], value).chosen = value
      BY <2>2 DEF Closed, ConflictRow
    <2> HIDE DEF new, value
    <2> QED BY <1>5, <1>6, <2>1, <2>3 DEF SameKey
  <1> HIDE DEF new
  <1> QED BY <1>2, <1>6, SettledKept

LEMMA SettledStep ==
  ASSUME TypeOK, RecordingInv, HitInv, PrefixInv, SettledInv,
         NEW w \in Writers, Ingest(w) \/ Edit(w) \/ Fail(w)
  PROVE  SettledInv'
  <1>1. Alone(w) /\ Effect(w) /\ EditInv'
    BY IngestEffect, EditEffect, FailEffect, EditStep DEF SettledInv
  <1>2. /\ View(w) \in Image /\ View(w).traces \in Seq(Trace) /\ op[w].trace \in Trace
        /\ Settled(View(w))
    BY ViewType, OpAt DEF TypeOK, Image, SettledInv, View
  <1>3. CASE Quiet(w) \/ Dropping(w) \/ Committing(w)
    <2>1. disk' \in {disk, View(w)} /\ staged' \in {disk, staged}
      BY <1>3 DEF Quiet, Dropping, Committing, Rollback, Commit, sqlite
    <2> QED BY <1>1, <1>2, <2>1 DEF SettledInv, Settled, HasTrace
  <1>4. CASE Saving(w)
    <2>1. disk'.conflicts = View(w).conflicts /\ disk'.traces = View(w).traces /\ staged' = disk'
      BY <1>2, <1>4 DEF Saving, Image
    <2> QED BY <1>1, <1>2, <2>1 DEF SettledInv, Settled, HasTrace
  <1>5. CASE Tracing(w)
    <2>1. /\ disk' = disk /\ staged'.conflicts = View(w).conflicts
          /\ staged'.traces = Append(View(w).traces, op[w].trace)
      BY <1>2, <1>5 DEF Tracing, Write, Image
    <2>2. \A k \in DOMAIN View(w).traces :
            k \in DOMAIN staged'.traces /\ staged'.traces[k] = View(w).traces[k]
      BY <1>2, <2>1, AppendProperties
    <2>3. Settled(staged')
      BY <1>2, <2>1, <2>2, SettledKept DEF SameKey
    <2> QED BY <1>1, <2>1, <2>3 DEF SettledInv, Settled, HasTrace
  <1>6. CASE Queueing(w)
    <2> DEFINE rows == Recorded(View(w).conflicts, op[w])
    <2>1. disk' = disk /\ staged'.conflicts = rows /\ staged'.traces = View(w).traces
      BY <1>2, <1>6 DEF Queueing, Write, Image
    <2>2. ASSUME NEW k \in DOMAIN rows, ~ rows[k].open
          PROVE  /\ k \in DOMAIN View(w).conflicts /\ ~ View(w).conflicts[k].open
                 /\ SameKey(rows[k], View(w).conflicts[k])
                 /\ rows[k].chosen = View(w).conflicts[k].chosen
      BY <1>6, <2>2, RecordedRow DEF Queueing
    <2> HIDE DEF rows
    <2>3. Settled(staged')
      BY <1>2, <2>1, <2>2, SettledKept
    <2> QED BY <1>1, <2>1, <2>3 DEF SettledInv, Settled, HasTrace
  <1>7. CASE Closing(w)
    <2>1. disk' = disk /\ Settled(staged')
      BY <1>2, <1>7, ClosingTraced DEF SettledInv, Closing, CloseConflict, Write
    <2> QED BY <1>1, <2>1 DEF SettledInv, Settled, HasTrace
  <1> QED BY <1>1, <1>3, <1>4, <1>5, <1>6, <1>7 DEF Effect

\* In every reachable state a committed row that says "resolved" is backed by
\* a committed human trace of the value it names, whatever failed on the way:
\* the trace is staged first, committed first, and never taken back.
THEOREM ResolutionsAreTraced == Spec => []ResolutionTraced
  <1> DEFINE IInv == TypeOK /\ AuditInv /\ PrefixInv /\ SettledInv
  <1>1. Init => IInv
    <2> SUFFICES ASSUME Init PROVE PrefixInv /\ SettledInv
      BY InitTypeOK, InitAudit
    <2> QED BY DEF Init, PrefixInv, SettledInv, Settled, EditInv, Editing, EmptyImage
  <1>2. IInv /\ [Next]_vars => IInv'
    <2> SUFFICES ASSUME IInv, [Next]_vars PROVE PrefixInv' /\ SettledInv'
      BY NextTypeOK, NextAudit DEF AuditInv
    <2>1. CASE UNCHANGED vars
      BY <2>1 DEF vars, PrefixInv, SettledInv, Settled, HasTrace, EditInv, View
    <2>2. CASE Next
      BY <2>2, NextEffect, PrefixStep, SettledStep DEF Next, AuditInv
    <2> QED BY <2>1, <2>2
  <1>3. IInv => ResolutionTraced
    BY DEF SettledInv, Settled, ResolutionTraced
  <1> QED BY <1>1, <1>2, <1>3, PTL DEF Spec

-----------------------------------------------------------------------------
(* Committed traces and the nodes they describe *)

\* Only a failed commit leads to the compensating statements.
LEMMA NoCompensation ==
  ASSUME TypeOK, "commit" \notin Faults, NEW w \in Writers, Ingest(w) \/ Edit(w) \/ Fail(w)
  PROVE  pc'[w] \notin {"compensate", "restore"}
  <1> USE DEF TypeOK
  <1>1. ASSUME Ingest(w) PROVE pc'[w] \notin {"compensate", "restore"}
    <2>1. ASSUME NEW b \in Batches, SaveRecord(w, b)
          PROVE  pc'[w] \notin {"compensate", "restore"}
      BY <2>1, StartAlone DEF SaveRecord
    <2>2. CASE ReadNode(w) \/ ReconcileNode(w) \/ RecordConflict(w)
      BY <2>2 DEF ReadNode, ReconcileNode, RecordConflict, Goto, ControlType
    <2>3. CASE RecordRefused(w) \/ CommitNode(w) \/ Compensate(w)
      BY <2>3, FinishAlone DEF RecordRefused, CommitNode, Compensate, Abort
    <2>4. CASE StageTraces(w) \/ Merge(w)
      BY <2>4, GotoAlone, FinishAlone DEF StageTraces, Merge, Abort
    <2>5. ASSUME NEW a \in Attrs, FindOpenRow(w, a)
          PROVE  pc'[w] \notin {"compensate", "restore"}
      BY <2>5 DEF FindOpenRow, Goto, ControlType
    <2> QED BY <1>1, <2>1, <2>2, <2>3, <2>4, <2>5 DEF Ingest
  <1>2. ASSUME NEW n, NEW changes, NEW k, ReadForEdit(w, n, changes, k)
        PROVE  pc'[w] \notin {"compensate", "restore"}
    BY <1>2, StartAlone DEF ReadForEdit
  <1>3. CASE SaveEdit(w) \/ CloseConflict(w) \/ SetNode(w)
    BY <1>3, GotoAlone, FinishAlone DEF SaveEdit, CloseConflict, SetNode, Abort
  <1>4. CASE CommitEdit(w) \/ Restore(w) \/ CommitClose(w)
    BY <1>4, GotoAlone, FinishAlone DEF CommitEdit, Restore, CommitClose
  <1>5. CASE Fail(w)
    BY <1>5, FinishAlone DEF Fail, BusyTimeout, Neo4jFails, ReplyLost, CommitFails,
       SaveRecordFails, Crash, Abort
  <1> QED BY <1>1, <1>2, <1>3, <1>4, <1>5 DEF Edit, EditNode, ResolveConflict

\* MERGE and SET leave a node.
LEMMA WrittenNode ==
  ASSUME graph \in [Nodes -> Node], NEW o \in Op
  PROVE  Merged(o) # NoNode /\ Edited(o) # NoNode
  <1>1. o.trace.node \in Nodes /\ o.old.version \in Nat
    BY DEF Op, Trace, Node
  <1>2. graph[o.trace.node] \in Node
    BY <1>1
  <1> DEFINE cur == graph[o.trace.node]
  <1>3. Merged(o).version \in Nat \ {0}
    BY <1>2 DEF Merged, Node
  <1>4. Edited(o).version \in Nat \ {0}
    BY <1>1, <1>2 DEF Edited, Node
  <1> QED BY <1>3, <1>4 DEF NoNode

\* What a step of w does to the graph, when nothing is compensated: nothing,
\* or it writes the node of its operation.
LEMMA GraphEffect ==
  ASSUME TypeOK, NEW w \in Writers, Ingest(w) \/ Edit(w) \/ Fail(w),
         pc[w] \notin {"compensate", "restore"}
  PROVE  LET n == op[w].trace.node
         IN \/ UNCHANGED graph /\ (pc[w] \in Unwritten => Abort(w))
            \/ /\ pc[w] \in Unwritten
               /\ graph' = [graph EXCEPT ![n] = graph'[n]] /\ graph'[n] # NoNode
  <1> DEFINE n == op[w].trace.node
             Same == UNCHANGED graph /\ (pc[w] \in Unwritten => Abort(w))
             Writes == /\ pc[w] \in Unwritten
                       /\ graph' = [graph EXCEPT ![n] = graph'[n]] /\ graph'[n] # NoNode
  <1>1. op[w] \in Op /\ n \in Nodes /\ graph \in [Nodes -> Node]
    BY OpAt DEF TypeOK
  <1>2. CASE Merge(w) \/ ReplyLost(w) \/ SetNode(w)
    <2>1. \/ UNCHANGED graph /\ Abort(w)
          \/ graph' = [graph EXCEPT ![n] = Merged(op[w])]
          \/ graph' = [graph EXCEPT ![n] = Edited(op[w])]
      BY <1>2 DEF Merge, ReplyLost, SetNode
    <2>2. pc[w] \in Unwritten
      BY <1>2 DEF Merge, ReplyLost, SetNode, Unwritten
    <2>3. Merged(op[w]) # NoNode /\ Edited(op[w]) # NoNode
      BY <1>1, WrittenNode
    <2>4. ASSUME NEW node, node # NoNode, graph' = [graph EXCEPT ![n] = node] PROVE Writes
      BY <1>1, <2>2, <2>4
    <2>5. Same \/ Writes
      <3> HIDE DEF n, Writes
      <3> QED BY <2>1, <2>3, <2>4
    <2> QED BY <2>5
  <1>3. ASSUME Ingest(w), ~ Merge(w) PROVE Same
    BY <1>3 DEF Ingest, SaveRecord, ReadNode, ReconcileNode, FindOpenRow, RecordConflict,
       RecordRefused, StageTraces, CommitNode, Compensate, Start, Unwritten
  <1>4. ASSUME Edit(w), ~ SetNode(w) PROVE Same
    BY <1>4 DEF Edit, EditNode, ResolveConflict, ReadForEdit, Start, SaveEdit, CommitEdit,
       Restore, CloseConflict, CommitClose, Unwritten
  <1>5. ASSUME Fail(w), ~ ReplyLost(w) PROVE Same
    BY <1>5 DEF Fail, BusyTimeout, Neo4jFails, CommitFails, SaveRecordFails, Crash, Unwritten
  <1> QED BY <1>2, <1>3, <1>4, <1>5

\* The traces w sees before it writes are of nodes that are there.
LEMMA ViewNodes ==
  ASSUME NodesInv, NEW w \in Writers, CanWrite(w), pc[w] \notin Unwritten,
         NEW k \in DOMAIN View(w).traces
  PROVE  Present(View(w).traces[k].node)
  BY DEF NodesInv, View

LEMMA NodesStep ==
  ASSUME TypeOK, "commit" \notin Faults, NodesInv,
         NEW w \in Writers, Ingest(w) \/ Edit(w) \/ Fail(w)
  PROVE  NodesInv'
  <1> DEFINE n == op[w].trace.node
             Awaited(m) == \E u \in Writers : /\ locker' = u /\ pc'[u] \in Unwritten
                                              /\ op'[u].trace.node = m
  <1>1. Alone(w) /\ Effect(w)
    BY IngestEffect, EditEffect, FailEffect
  <1>2. View(w) \in Image /\ View(w).traces \in Seq(Trace) /\ op[w].trace \in Trace
        /\ n \in Nodes /\ disk.traces \in Seq(Trace) /\ staged.traces \in Seq(Trace)
    BY ViewType, OpAt DEF TypeOK, SqliteType, Image
  <1>3. ASSUME NEW u \in Writers PROVE pc'[u] \notin {"compensate", "restore"}
    BY <1>1, NoCompensation DEF Alone, NodesInv
  <1>4. \/ UNCHANGED graph /\ (pc[w] \in Unwritten => Abort(w))
        \/ /\ pc[w] \in Unwritten
           /\ graph' = [graph EXCEPT ![n] = graph'[n]] /\ graph'[n] # NoNode
    BY GraphEffect DEF NodesInv
  <1> DEFINE Fine(image) == \A k \in DOMAIN image.traces :
                              graph'[image.traces[k].node] # NoNode
             There(image) == \A k \in DOMAIN image.traces :
                               Present(image.traces[k].node) /\ image.traces[k].node \in Nodes
  <1>5. ASSUME NEW m \in Nodes, Present(m) PROVE graph'[m] # NoNode
    BY <1>2, <1>4, <1>5 DEF Present, TypeOK
  <1>6. ASSUME NEW image, There(image) PROVE Fine(image)
    BY <1>5, <1>6
  <1>7. /\ \A k \in DOMAIN disk.traces : disk.traces[k].node \in Nodes
        /\ \A k \in DOMAIN staged.traces : staged.traces[k].node \in Nodes
    <2>1. ASSUME NEW traces \in Seq(Trace), NEW k \in DOMAIN traces PROVE traces[k].node \in Nodes
      <3>1. traces[k] \in Trace
        BY ElementOfSeq
      <3> QED BY <3>1 DEF Trace
    <2> QED BY <1>2, <2>1
  <1>8. Fine(disk)
    BY <1>6, <1>7 DEF NodesInv
  <1>9. ASSUME CanWrite(w), pc[w] \notin Unwritten PROVE Fine(View(w))
    <2>1. There(View(w))
      BY <1>7, <1>9, ViewNodes DEF View
    <2> QED BY <1>6, <2>1
  <1>10. ASSUME NEW k \in DOMAIN staged.traces, UNCHANGED sqlite
         PROVE  graph'[staged.traces[k].node] # NoNode \/ Awaited(staged.traces[k].node)
    <2>1. CASE Present(staged.traces[k].node)
      BY <1>5, <1>7, <2>1
    <2>2. ASSUME NEW u \in Writers, locker = u, pc[u] \in Unwritten,
                 op[u].trace.node = staged.traces[k].node, u # w
          PROVE  Awaited(staged.traces[k].node)
      BY <1>1, <1>10, <2>2 DEF Alone, sqlite
    <2>3. ASSUME locker = w, pc[w] \in Unwritten, n = staged.traces[k].node
          PROVE  graph'[staged.traces[k].node] # NoNode
      <3>1. ~ Abort(w)
        BY <1>10, <2>3, WriterIsNotNobody DEF Abort, Rollback, sqlite
      <3> QED BY <1>4, <2>3, <3>1
    <2> QED BY <2>1, <2>2, <2>3 DEF NodesInv
  <1> DEFINE Held(image) == \A k \in DOMAIN image.traces :
                              \/ graph'[image.traces[k].node] # NoNode
                              \/ Awaited(image.traces[k].node)
  <1>11. Fine(disk') /\ Held(staged')
    <2>1. CASE UNCHANGED sqlite
      BY <1>8, <1>10, <2>1 DEF sqlite
    <2>2. CASE Quiet(w)
      BY <2>1, <2>2 DEF Quiet
    <2>3. CASE Dropping(w)
      BY <1>8, <2>1, <2>3 DEF Dropping, Rollback, sqlite
    <2>4. CASE Committing(w)
      <3>1. CASE locker = w
        BY <1>9, <2>4, <3>1 DEF Committing, Commit, CanWrite, View
      <3>2. CASE locker # w
        BY <2>1, <2>4, <3>2 DEF Committing, Commit, View, sqlite
      <3> QED BY <3>1, <3>2
    <2>5. CASE Saving(w)
      <3>1. disk'.traces = View(w).traces /\ staged' = disk'
        BY <1>2, <2>5 DEF Saving, Image
      <3>2. Fine(View(w))
        BY <1>9, <2>5 DEF Saving
      <3> QED BY <3>1, <3>2
    <2>6. CASE Tracing(w)
      <3>1. /\ disk' = disk /\ staged'.traces = Append(View(w).traces, op[w].trace)
            /\ locker' = w /\ CanWrite(w)
        BY <1>2, <2>6 DEF Tracing, Write, Image
      <3>2. pc[w] \notin Unwritten /\ pc'[w] \in Unwritten /\ op'[w] = op[w]
        BY <2>6 DEF Tracing, Untraced, Unwritten
      <3>3. Fine(View(w)) /\ Awaited(n)
        BY <1>9, <3>1, <3>2
      <3>4. ASSUME NEW k \in DOMAIN staged'.traces
            PROVE  \/ graph'[staged'.traces[k].node] # NoNode
                   \/ Awaited(staged'.traces[k].node)
        <4>1. \/ k \in DOMAIN View(w).traces /\ staged'.traces[k] = View(w).traces[k]
              \/ staged'.traces[k] = op[w].trace
          BY <1>2, <3>1, AppendProperties
        <4> HIDE DEF Awaited
        <4> QED BY <3>3, <4>1
      <3> QED BY <1>8, <3>1, <3>4
    <2>7. CASE Queueing(w) \/ Closing(w)
      <3>1. disk' = disk /\ staged'.traces = View(w).traces
        BY <1>2, <2>7 DEF Queueing, Closing, Write, Image
      <3>2. Fine(View(w))
        BY <1>9, <2>7 DEF Queueing, Closing, Write, Unwritten
      <3> QED BY <1>8, <3>1, <3>2
    <2> QED BY <1>1, <2>2, <2>3, <2>4, <2>5, <2>6, <2>7 DEF Effect
  <1> QED BY <1>3, <1>11 DEF NodesInv, Present

\* As long as no commit fails, a committed trace describes a node the graph
\* has, whatever else fails: Neo4j is written before SQLite is committed, and
\* nothing but a compensating statement removes a node.
THEOREM TracesHaveNodes ==
  ASSUME "commit" \notin Faults
  PROVE  Spec => []TracedNodeExists
  <1> DEFINE IInv == TypeOK /\ RecordingInv /\ NodesInv
  <1>1. Init => IInv
    <2> SUFFICES ASSUME Init PROVE NodesInv
      BY InitTypeOK DEF Init, RecordingInv
    <2> QED BY DEF Init, NodesInv, EmptyImage
  <1>2. IInv /\ [Next]_vars => IInv'
    <2> SUFFICES ASSUME IInv, [Next]_vars PROVE NodesInv'
      BY NextTypeOK, NextRecording
    <2>1. CASE UNCHANGED vars
      BY <2>1 DEF vars, NodesInv, Present
    <2>2. CASE Next
      BY <2>2, NodesStep DEF Next
    <2> QED BY <2>1, <2>2
  <1>3. IInv => TracedNodeExists
    BY DEF NodesInv, TracedNodeExists
  <1> QED BY <1>1, <1>2, <1>3, PTL DEF Spec

-----------------------------------------------------------------------------
(* One process alone *)

LEMMA OnlyOne ==
  ASSUME Importers = {}, NEW w \in Writers
  PROVE  \A u \in Writers : u = w
  BY DEF Writers

\* The steps by which an ingest goes on.
LEMMA IngestGoesOn ==
  ASSUME TypeOK, NEW w \in Writers, Ingest(w) \/ Edit(w) \/ Fail(w),
         pc'[w] \in {"read", "reconcile", "find", "record", "stage", "merge", "commit"}
  PROVE  \/ \E b \in Batches : SaveRecord(w, b)
         \/ ReadNode(w)
         \/ ReconcileNode(w)
         \/ \E a \in Attrs : FindOpenRow(w, a)
         \/ RecordConflict(w)
         \/ StageTraces(w) /\ pc[w] = "stage"
         \/ Merge(w) /\ UNCHANGED <<sqlite, op>>
  <1> USE DEF TypeOK
  <1>1. ASSUME NEW n, NEW changes, NEW k, ReadForEdit(w, n, changes, k) PROVE FALSE
    BY <1>1, StartAlone DEF ReadForEdit
  <1>2. ASSUME SaveEdit(w) \/ CloseConflict(w) \/ SetNode(w) PROVE FALSE
    BY <1>2, GotoAlone, FinishAlone DEF SaveEdit, CloseConflict, SetNode, Abort
  <1>3. ASSUME CommitEdit(w) \/ Restore(w) \/ CommitClose(w) PROVE FALSE
    BY <1>3, GotoAlone, FinishAlone DEF CommitEdit, Restore, CommitClose
  <1>4. ~ Edit(w)
    BY <1>1, <1>2, <1>3 DEF Edit, EditNode, ResolveConflict
  <1>5. ~ Fail(w)
    BY FailAlone
  <1>6. CASE RecordRefused(w) \/ CommitNode(w) \/ Compensate(w)
    BY <1>6, FinishAlone DEF RecordRefused, CommitNode, Compensate, Abort
  <1>7. CASE StageTraces(w)
    BY <1>7, GotoAlone DEF StageTraces
  <1>8. CASE Merge(w)
    BY <1>8, FinishAlone DEF Merge, Abort
  <1> QED BY <1>4, <1>5, <1>6, <1>7, <1>8 DEF Ingest

\* What w moves, at each of these steps.
LEMMA IngestMoves ==
  ASSUME TypeOK, NEW w \in Writers
  PROVE  /\ \A b \in Batches : SaveRecord(w, b) =>
              /\ pc'[w] = "read" /\ op'[w].type = b.type /\ op'[w].trace = b.trace
              /\ locker' = NoWriter /\ staged' = disk' /\ UNCHANGED graph
              /\ disk'.traces = View(w).traces /\ disk'.conflicts = View(w).conflicts
         /\ ReadNode(w) =>
              /\ pc[w] = "read" /\ pc'[w] = "reconcile" /\ UNCHANGED <<graph, sqlite>>
              /\ op'[w].type = op[w].type /\ op'[w].trace = op[w].trace
              /\ op'[w].old = graph[op[w].trace.node]
         /\ ReconcileNode(w) =>
              /\ pc[w] = "reconcile" /\ UNCHANGED <<graph, sqlite>>
              /\ op'[w].type = op[w].type /\ op'[w].trace = op[w].trace /\ op'[w].old = op[w].old
              /\ op'[w].seen = View(w).traces /\ op'[w].todo = QueuedBy(op'[w])
              /\ pc'[w] = IF op'[w].todo = {} THEN "stage" ELSE "find"
         /\ \A a \in Attrs : FindOpenRow(w, a) =>
              /\ pc[w] = "find" /\ pc'[w] = "record" /\ UNCHANGED <<graph, sqlite>>
              /\ op'[w].type = op[w].type /\ op'[w].trace = op[w].trace /\ op'[w].old = op[w].old
              /\ op'[w].seen = op[w].seen /\ op'[w].todo = op[w].todo
         /\ RecordConflict(w) =>
              /\ pc[w] = "record" /\ UNCHANGED <<graph, disk>>
              /\ staged'.conflicts = Recorded(View(w).conflicts, op[w])
              /\ staged'.traces = View(w).traces /\ locker' = w
              /\ op'[w].type = op[w].type /\ op'[w].trace = op[w].trace /\ op'[w].old = op[w].old
              /\ op'[w].seen = op[w].seen /\ op'[w].todo = op[w].todo \ {op[w].attr}
              /\ pc'[w] = IF op[w].todo = {op[w].attr} THEN "stage" ELSE "find"
         /\ StageTraces(w) =>
              /\ pc[w] \in {"stage", "edit_stage"} /\ UNCHANGED <<graph, disk>> /\ op'[w] = op[w]
              /\ pc'[w] = IF pc[w] = "stage" THEN "merge" ELSE "edit_set"
              /\ staged'.conflicts = View(w).conflicts /\ locker' = w
              /\ staged'.traces = Append(View(w).traces, op[w].trace)
         /\ Merge(w) /\ UNCHANGED <<sqlite, op>> =>
              /\ pc[w] = "merge" /\ graph' = [graph EXCEPT ![op[w].trace.node] = Merged(op[w])]
              /\ op'[w] = op[w]
              /\ pc'[w] \in {"commit", "idle"} /\ (pc'[w] = "commit" => ~ Collides(op[w]))
  <1> USE DEF TypeOK
  <1>1. View(w) \in Image
    BY ViewType
  <1>2. ASSUME NEW b \in Batches, SaveRecord(w, b)
        PROVE  /\ pc'[w] = "read" /\ op'[w].type = b.type /\ op'[w].trace = b.trace
               /\ locker' = NoWriter /\ staged' = disk' /\ UNCHANGED graph
               /\ disk'.traces = View(w).traces /\ disk'.conflicts = View(w).conflicts
    <2>1. pc'[w] = "read" /\ op'[w] = [NoOp EXCEPT !.type = b.type, !.trace = b.trace]
      BY <1>2, StartAlone DEF SaveRecord
    <2>2. op'[w].type = b.type /\ op'[w].trace = b.trace
      BY <2>1, NoOpType DEF Op
    <2> QED BY <1>1, <1>2, <2>1, <2>2 DEF SaveRecord, Image
  <1>3. ASSUME ReadNode(w)
        PROVE  /\ pc[w] = "read" /\ pc'[w] = "reconcile" /\ UNCHANGED <<graph, sqlite>>
               /\ op'[w].type = op[w].type /\ op'[w].trace = op[w].trace
               /\ op'[w].old = graph[op[w].trace.node]
    BY <1>3, OpAt DEF ReadNode, ControlType, Goto, Op
  <1>4. ASSUME ReconcileNode(w)
        PROVE  /\ pc[w] = "reconcile" /\ UNCHANGED <<graph, sqlite>>
               /\ op'[w].type = op[w].type /\ op'[w].trace = op[w].trace /\ op'[w].old = op[w].old
               /\ op'[w].seen = View(w).traces /\ op'[w].todo = QueuedBy(op'[w])
               /\ pc'[w] = IF op'[w].todo = {} THEN "stage" ELSE "find"
    <2> DEFINE seen == [op[w] EXCEPT !.seen = View(w).traces]
               o == [seen EXCEPT !.todo = QueuedBy(seen)]
    <2>1. op'[w] = o /\ pc'[w] = IF QueuedBy(seen) = {} THEN "stage" ELSE "find"
      BY <1>4 DEF ReconcileNode, ControlType, Goto
    <2>2. /\ o.todo = QueuedBy(seen) /\ o.seen = seen.seen /\ o.old = seen.old
          /\ o.trace = seen.trace /\ seen.seen = View(w).traces /\ seen.old = op[w].old
          /\ seen.trace = op[w].trace /\ o.type = op[w].type
      BY OpAt DEF Op
    <2>3. o.todo = QueuedBy(o)
      <3> HIDE DEF o, seen
      <3> QED BY <2>2, QueuedByFields
    <2> HIDE DEF o, seen
    <2> QED BY <1>4, <2>1, <2>2, <2>3 DEF ReconcileNode
  <1>5. ASSUME NEW a \in Attrs, FindOpenRow(w, a)
        PROVE  /\ pc[w] = "find" /\ pc'[w] = "record" /\ UNCHANGED <<graph, sqlite>>
               /\ op'[w].type = op[w].type /\ op'[w].trace = op[w].trace /\ op'[w].old = op[w].old
               /\ op'[w].seen = op[w].seen /\ op'[w].todo = op[w].todo
    BY <1>5, OpAt DEF FindOpenRow, ControlType, Goto, Op
  <1>6. ASSUME RecordConflict(w)
        PROVE  /\ pc[w] = "record" /\ UNCHANGED <<graph, disk>>
               /\ staged'.conflicts = Recorded(View(w).conflicts, op[w])
               /\ staged'.traces = View(w).traces /\ locker' = w
               /\ op'[w].type = op[w].type /\ op'[w].trace = op[w].trace /\ op'[w].old = op[w].old
               /\ op'[w].seen = op[w].seen /\ op'[w].todo = op[w].todo \ {op[w].attr}
               /\ pc'[w] = IF op[w].todo = {op[w].attr} THEN "stage" ELSE "find"
    <2>1. /\ op'[w].type = op[w].type /\ op'[w].trace = op[w].trace /\ op'[w].old = op[w].old
          /\ op'[w].seen = op[w].seen /\ op'[w].todo = op[w].todo \ {op[w].attr}
      BY <1>6, OpAt DEF RecordConflict, ControlType, Op
    <2>2. pc'[w] = IF op[w].todo = {op[w].attr} THEN "stage" ELSE "find"
      BY <1>6 DEF RecordConflict, ControlType, Goto
    <2> QED BY <1>1, <1>6, <2>1, <2>2 DEF RecordConflict, Write, Image
  <1>7. ASSUME StageTraces(w)
        PROVE  /\ pc[w] \in {"stage", "edit_stage"} /\ UNCHANGED <<graph, disk>> /\ op'[w] = op[w]
               /\ pc'[w] = IF pc[w] = "stage" THEN "merge" ELSE "edit_set"
               /\ staged'.conflicts = View(w).conflicts /\ locker' = w
               /\ staged'.traces = Append(View(w).traces, op[w].trace)
    BY <1>1, <1>7, GotoAlone DEF StageTraces, Write, Image
  <1>8. ASSUME Merge(w), UNCHANGED <<sqlite, op>>
        PROVE  /\ pc[w] = "merge" /\ graph' = [graph EXCEPT ![op[w].trace.node] = Merged(op[w])]
               /\ op'[w] = op[w]
               /\ pc'[w] \in {"commit", "idle"} /\ (pc'[w] = "commit" => ~ Collides(op[w]))
    BY <1>8, GotoAlone, FinishAlone DEF Merge, Abort
  <1> QED BY <1>2, <1>3, <1>4, <1>5, <1>6, <1>7, <1>8

\* ReadInv and QueueInv, for one process.
ReadAt(w) ==
  LET o == op[w]
  IN /\ pc[w] \in {"read", "reconcile"} => locker = NoWriter
     /\ pc[w] \in {"reconcile", "find", "record", "stage", "merge"} =>
          o.old = graph[o.trace.node]
     /\ pc[w] \in {"find", "record", "stage", "merge"} => o.seen = disk.traces
     /\ pc[w] \in {"read", "reconcile", "find", "record", "stage", "merge"} =>
          o.trace.conf # "human" /\ o.trace.source # HumanEdits

QueueAt(w) ==
  LET o == op[w]
  IN /\ pc[w] = "record" /\ o.hit # 0 => o.hit \in OpenRows(View(w), o.trace.node, o.attr)
     /\ pc[w] \in {"stage", "merge", "commit"} => o.todo = {}
     /\ pc[w] \in {"find", "record", "stage", "merge", "commit"} =>
          \A a \in QueuedBy(o) \ o.todo : QueuedAs(View(w), o, a)
     /\ pc[w] \in Editing /\ o.resolving # 0 => View(w).conflicts[o.resolving].open

LEMMA ReadStep ==
  ASSUME TypeOK, NEW w \in Writers, ReadAt(w), Ingest(w) \/ Edit(w) \/ Fail(w)
  PROVE  ReadAt(w)'
  <1> DEFINE Steps7 == {"read", "reconcile", "find", "record", "stage", "merge", "commit"}
  <1>1. CASE pc'[w] \notin Steps7
    BY <1>1 DEF ReadAt
  <1>2. ASSUME NEW b \in Batches, SaveRecord(w, b) PROVE ReadAt(w)'
    <2>1. b.trace.conf # "human" /\ b.trace.source # HumanEdits
      BY RequestAssumption DEF Batch
    <2> QED BY <1>2, <2>1, IngestMoves DEF ReadAt
  <1>3. CASE ReadNode(w)
    BY <1>3, IngestMoves DEF ReadAt, sqlite
  <1>4. CASE ReconcileNode(w)
    <2>1. View(w) = disk
      BY <1>4, IngestMoves, WriterIsNotNobody DEF ReadAt, View
    <2> QED BY <1>4, <2>1, IngestMoves DEF ReadAt, sqlite
  <1>5. ASSUME NEW a \in Attrs, FindOpenRow(w, a) PROVE ReadAt(w)'
    BY <1>5, IngestMoves DEF ReadAt, sqlite
  <1>6. CASE RecordConflict(w)
    BY <1>6, IngestMoves DEF ReadAt
  <1>7. CASE StageTraces(w) /\ pc[w] = "stage"
    BY <1>7, IngestMoves DEF ReadAt
  <1>8. CASE Merge(w) /\ UNCHANGED <<sqlite, op>>
    BY <1>8, IngestMoves DEF ReadAt
  <1> QED BY <1>1, <1>2, <1>3, <1>4, <1>5, <1>6, <1>7, <1>8, IngestGoesOn

\* A conflict stays queued when its row stays open under its incoming side.
LEMMA QueuedKept ==
  ASSUME NEW image, NEW new, NEW o, NEW p, NEW a, QueuedAs(image, o, a),
         p.trace = o.trace, new.conflicts = image.conflicts
  PROVE  QueuedAs(new, p, a)
  BY DEF QueuedAs, OpenRows

\* record() queues the conflict it is at and leaves the others queued.
LEMMA RecordQueues ==
  ASSUME TypeOK, RecordingInv, HitInv, NEW w \in Writers, QueueAt(w), RecordConflict(w),
         NEW a \in QueuedBy(op[w]), a \notin op[w].todo \/ a = op[w].attr
  PROVE  QueuedAs(staged', op[w], a)
  <1> DEFINE o == op[w]
             rows == View(w).conflicts
             new == ConflictOf(o.seen, o.old.attrs, o.trace, o.attr)
  <1>1. /\ pc[w] = "record" /\ staged'.conflicts = Recorded(rows, o) /\ o.attr \in o.todo
        /\ o.hit # 0 => o.hit \in OpenRows(View(w), o.trace.node, o.attr)
    BY IngestMoves DEF RecordingInv, QueueAt
  <1>2. rows \in Seq(ConflictRow)
    BY ViewType DEF TypeOK, Image
  <1>3. new \in ConflictRow
    <2>1. o.attr \in Queued(o.seen, o.old.attrs, o.trace)
      BY <1>1 DEF RecordingInv, QueuedBy
    <2> QED BY <2>1, OpAt, ConflictOfType DEF TypeOK
  <1>4. /\ new.node = o.trace.node /\ new.attr = o.attr /\ new.open
        /\ new.incoming.value = o.trace.facts[o.attr]
    BY DEF ConflictOf
  <1> HIDE DEF new
  <1>5. CASE o.hit # 0
    <2> DEFINE e == Refreshed(rows[o.hit], new)
    <2>1. o.hit \in DOMAIN rows
      BY <1>1, <1>5 DEF OpenRows
    <2>2. rows[o.hit] \in ConflictRow
      BY <1>2, <2>1, ElementOfSeq
    <2>3. /\ e.node = rows[o.hit].node /\ e.attr = rows[o.hit].attr /\ e.open = rows[o.hit].open
          /\ e.incoming = new.incoming
      BY <2>2 DEF Refreshed, ConflictRow
    <2>4. e \in ConflictRow
      BY <1>3, <2>2, RefreshedType
    <2>5. Recorded(rows, o) = [rows EXCEPT ![o.hit] = e]
      BY <1>5 DEF Recorded, new
    <2> HIDE DEF e
    <2>6. /\ DOMAIN Recorded(rows, o) = DOMAIN rows
          /\ \A k \in DOMAIN rows : Recorded(rows, o)[k] = IF k = o.hit THEN e ELSE rows[k]
      <3> HIDE DEF o, rows
      <3> QED BY <1>2, <2>4, <2>5, RowUpdate
    <2>7. CASE a = o.attr
      BY <1>1, <1>4, <1>5, <2>1, <2>3, <2>6, <2>7 DEF QueuedAs, OpenRows
    <2>8. CASE a # o.attr
      <3>1. PICK k \in OpenRows(View(w), o.trace.node, a) :
              rows[k].incoming.value = o.trace.facts[a]
        BY <1>1, <2>8 DEF QueueAt, QueuedAs
      <3>2. k # o.hit /\ k \in DOMAIN rows
        BY <1>1, <1>5, <2>8, <3>1 DEF OpenRows
      <3> QED BY <1>1, <2>6, <3>1, <3>2 DEF QueuedAs, OpenRows
    <2> QED BY <2>7, <2>8
  <1>6. CASE o.hit = 0
    <2> DEFINE last == Len(rows) + 1
    <2>1. Recorded(rows, o) = Append(rows, new)
      BY <1>6 DEF Recorded, new
    <2>2. /\ last \in DOMAIN Recorded(rows, o) /\ Recorded(rows, o)[last] = new
          /\ \A k \in DOMAIN rows : /\ k \in DOMAIN Recorded(rows, o)
                                   /\ Recorded(rows, o)[k] = rows[k]
      BY <1>2, <1>3, <2>1, AppendProperties
    <2> HIDE DEF last
    <2>3. CASE a = o.attr
      BY <1>1, <1>4, <2>2, <2>3 DEF QueuedAs, OpenRows
    <2>4. CASE a # o.attr
      <3>1. PICK k \in OpenRows(View(w), o.trace.node, a) :
              rows[k].incoming.value = o.trace.facts[a]
        BY <1>1, <2>4 DEF QueueAt, QueuedAs
      <3> QED BY <1>1, <2>2, <3>1 DEF QueuedAs, OpenRows
    <2> QED BY <2>3, <2>4
  <1> QED BY <1>5, <1>6

LEMMA QueueStep ==
  ASSUME TypeOK, RecordingInv, HitInv, NEW w \in Writers, QueueAt(w), Ingest(w) \/ Edit(w) \/ Fail(w)
  PROVE  QueueAt(w)'
  <1> USE DEF TypeOK
  <1> DEFINE Asserting == {"read", "reconcile", "find", "record", "stage", "merge", "commit"}
  <1>1. CASE pc'[w] \notin Asserting \cup Editing
    BY <1>1 DEF QueueAt
  <1>2. CASE pc'[w] \in Asserting
    <2>1. pc'[w] \notin Editing
      BY <1>2 DEF Editing
    <2>2. CASE pc'[w] \in {"read", "reconcile"}
      BY <2>1, <2>2 DEF QueueAt
    <2>3. CASE ReconcileNode(w)
      BY <2>1, <2>3, IngestMoves DEF QueueAt
    <2>4. ASSUME NEW b \in Attrs, FindOpenRow(w, b) PROVE QueueAt(w)'
      <3>1. /\ pc[w] = "find" /\ pc'[w] = "record" /\ op'[w].trace = op[w].trace
            /\ op'[w].old = op[w].old /\ op'[w].seen = op[w].seen /\ op'[w].todo = op[w].todo
        BY <2>4, IngestMoves
      <3>2. View(w)' = View(w)
        BY <2>4, IngestMoves DEF View, sqlite
      <3>3. QueuedBy(op'[w]) = QueuedBy(op[w])
        BY <3>1, QueuedByFields
      <3>4. op'[w].hit # 0 => op'[w].hit \in OpenRows(View(w), op'[w].trace.node, op'[w].attr)
        BY <3>1, RecordFromLookup
      <3>5. \A a \in QueuedBy(op'[w]) \ op'[w].todo : QueuedAs(View(w)', op'[w], a)
        BY <3>1, <3>2, <3>3, QueuedKept DEF QueueAt
      <3> QED BY <2>1, <3>1, <3>2, <3>4, <3>5 DEF QueueAt
    <2>5. CASE RecordConflict(w)
      <3>1. /\ op'[w].trace = op[w].trace /\ op'[w].old = op[w].old /\ op'[w].seen = op[w].seen
            /\ op'[w].todo = op[w].todo \ {op[w].attr}
            /\ pc'[w] = IF op[w].todo = {op[w].attr} THEN "stage" ELSE "find"
            /\ locker' = w
        BY <2>5, IngestMoves
      <3>2. View(w)' = staged'
        BY <3>1 DEF View
      <3>3. QueuedBy(op'[w]) = QueuedBy(op[w])
        BY <3>1, QueuedByFields
      <3>4. \A a \in QueuedBy(op'[w]) \ op'[w].todo : QueuedAs(View(w)', op'[w], a)
        BY <2>5, <3>1, <3>2, <3>3, RecordQueues, QueuedKept
      <3>5. pc'[w] = "stage" => op'[w].todo = {}
        BY <3>1
      <3> QED BY <2>1, <3>1, <3>4, <3>5 DEF QueueAt
    <2>6. CASE StageTraces(w) /\ pc[w] = "stage"
      <3>1. /\ pc'[w] = "merge" /\ op'[w] = op[w] /\ View(w)'.conflicts = View(w).conflicts
        BY <2>6, IngestMoves DEF View
      <3>2. \A a \in QueuedBy(op[w]) \ op[w].todo : QueuedAs(View(w)', op[w], a)
        BY <2>6, <3>1, QueuedKept DEF QueueAt
      <3> QED BY <2>1, <2>6, <3>1, <3>2 DEF QueueAt
    <2>7. CASE Merge(w) /\ UNCHANGED <<sqlite, op>>
      <3>1. View(w)' = View(w) /\ op'[w] = op[w] /\ pc[w] = "merge"
        BY <2>7, IngestMoves DEF View, sqlite
      <3> QED BY <1>2, <2>1, <2>7, <3>1, IngestMoves DEF QueueAt
    <2> QED BY <1>2, <2>2, <2>3, <2>4, <2>5, <2>6, <2>7, IngestGoesOn, IngestMoves
  <1>3. CASE pc'[w] \in Editing
    <2>1. pc'[w] \notin {"find", "record", "stage", "merge", "commit"}
      BY <1>3 DEF Editing
    <2> SUFFICES ASSUME op'[w].resolving # 0 PROVE View(w)'.conflicts[op'[w].resolving].open
      BY <2>1 DEF QueueAt
    <2>2. ASSUME NEW n \in Nodes, NEW changes, NEW k, ReadForEdit(w, n, changes, k),
                 k # 0 => View(w).conflicts[k].open
          PROVE  View(w)'.conflicts[op'[w].resolving].open
      <3> DEFINE o == [NoOp EXCEPT !.trace = HumanTrace(n, changes), !.old = graph[n],
                                   !.resolving = k]
      <3>1. op'[w] = o
        BY <2>2, StartAlone DEF ReadForEdit
      <3>2. o.resolving = k
        BY NoOpType DEF Op
      <3>3. View(w)' = View(w)
        BY <2>2 DEF ReadForEdit, View, sqlite
      <3> HIDE DEF o
      <3> QED BY <2>2, <3>1, <3>2, <3>3
    <2>3. ASSUME op'[w] = op[w], pc[w] \in Editing, View(w)'.conflicts = View(w).conflicts
          PROVE  View(w)'.conflicts[op'[w].resolving].open
      BY <2>3 DEF QueueAt
    <2>4. CASE SaveEdit(w)
      BY <2>3, <2>4, GotoAlone, ViewType, WriterIsNotNobody DEF SaveEdit, View, Image, Editing
    <2>5. CASE StageTraces(w) /\ pc[w] = "edit_stage"
      BY <2>3, <2>5, IngestMoves DEF View, Editing
    <2>6. CASE SetNode(w) /\ pc'[w] = "edit_commit"
      <3>1. op'[w] = op[w] /\ UNCHANGED sqlite
        BY <2>6, GotoAlone, FinishAlone DEF SetNode, Abort
      <3> QED BY <2>3, <2>6, <3>1 DEF SetNode, View, sqlite, Editing
    <2>7. CASE CommitEdit(w) /\ op[w].resolving # 0
      BY <2>3, <2>7, GotoAlone, WriterIsNotNobody DEF CommitEdit, Commit, View, Editing
    <2> QED BY <1>3, <2>2, <2>4, <2>5, <2>6, <2>7, EditGoesOn
  <1> QED BY <1>1, <1>2, <1>3

LEMMA DoneStep ==
  ASSUME TypeOK, RecordingInv, HitInv, EditInv, DoneInv,
         NEW w \in Writers, QueueAt(w), Effect(w)
  PROVE  DoneInv'
  <1> DEFINE Kept(image) == \A k \in DOMAIN disk.conflicts :
                              ~ disk.conflicts[k].open =>
                                 /\ k \in DOMAIN image.conflicts
                                 /\ image.conflicts[k] = disk.conflicts[k]
             rows == View(w).conflicts
  <1>1. View(w) \in Image /\ rows \in Seq(ConflictRow) /\ Kept(View(w))
    BY ViewType DEF TypeOK, Image, View, DoneInv
  <1>2. CASE Quiet(w) \/ Dropping(w) \/ Committing(w)
    <2>1. \/ UNCHANGED sqlite
          \/ disk' = disk /\ staged' = disk
          \/ disk' = staged /\ staged' = staged
          \/ disk' = disk /\ staged' = staged
      BY <1>2 DEF Quiet, Dropping, Committing, Rollback, Commit, View, sqlite
    <2> QED BY <2>1 DEF DoneInv, sqlite
  <1>3. CASE Saving(w)
    BY <1>3 DEF Saving, DoneInv
  <1>4. CASE Tracing(w)
    <2>1. disk' = disk /\ staged'.conflicts = rows
      BY <1>1, <1>4 DEF Tracing, Write, Image
    <2> QED BY <1>1, <2>1 DEF DoneInv
  <1>5. CASE Queueing(w)
    <2> DEFINE o == op[w]
               new == ConflictOf(o.seen, o.old.attrs, o.trace, o.attr)
    <2>1. disk' = disk /\ staged'.conflicts = Recorded(rows, o) /\ pc[w] = "record"
      BY <1>1, <1>5 DEF Queueing, Write, Image
    <2>2. new \in ConflictRow
      <3>1. o.attr \in Queued(o.seen, o.old.attrs, o.trace)
        BY <2>1 DEF RecordingInv, QueuedBy
      <3> QED BY <3>1, OpAt, ConflictOfType DEF TypeOK
    <2> HIDE DEF new
    <2>3. o.hit # 0 => o.hit \in DOMAIN rows /\ rows[o.hit].open
      BY <2>1 DEF QueueAt, OpenRows
    <2>4. ASSUME NEW k \in DOMAIN rows, ~ rows[k].open
          PROVE  k \in DOMAIN Recorded(rows, o) /\ Recorded(rows, o)[k] = rows[k]
      <3>1. CASE o.hit # 0
        BY <2>3, <2>4, <3>1 DEF Recorded
      <3>2. CASE o.hit = 0
        BY <1>1, <2>2, <2>4, <3>2, AppendProperties DEF Recorded, new
      <3> QED BY <3>1, <3>2
    <2> QED BY <1>1, <2>1, <2>4 DEF DoneInv
  <1>6. CASE Closing(w)
    <2> DEFINE j == op[w].resolving
               value == op[w].trace.facts[rows[j].attr]
    <2>1. disk' = disk /\ staged'.conflicts = [rows EXCEPT ![j] = Closed(rows[j], value)]
      BY <1>1, <1>6 DEF Closing, CloseConflict, Write, Image
    <2>2. pc[w] \in Editing /\ pc[w] = "close"
      BY <1>6 DEF Closing, CloseConflict, Editing
    <2>3. rows[j].open
      BY <2>2 DEF QueueAt, EditInv
    <2> HIDE DEF j, value
    <2> QED BY <1>1, <2>1, <2>3 DEF DoneInv
  <1> QED BY <1>2, <1>3, <1>4, <1>5, <1>6 DEF Effect

\* The traces an operation carries.
LEMMA TraceTaken ==
  ASSUME TypeOK, NEW w \in Writers, Ingest(w) \/ Edit(w) \/ Fail(w)
  PROVE  \/ op'[w].trace = op[w].trace \/ op'[w] = NoOp
         \/ \E b \in Batches : op'[w].trace = b.trace
         \/ \E n, changes : op'[w].trace = HumanTrace(n, changes)
  <1> USE DEF TypeOK
  <1>1. ASSUME NEW n, NEW changes, NEW k, ReadForEdit(w, n, changes, k)
        PROVE  \E m, c : op'[w].trace = HumanTrace(m, c)
    <2>1. op'[w] = [NoOp EXCEPT !.trace = HumanTrace(n, changes), !.old = graph[n],
                                !.resolving = k]
      BY <1>1, StartAlone DEF ReadForEdit
    <2> QED BY <2>1, NoOpType DEF Op
  <1>2. CASE Ingest(w)
    <2>1. CASE RecordRefused(w) \/ CommitNode(w) \/ Compensate(w)
      BY <2>1, FinishAlone DEF RecordRefused, CommitNode, Compensate, Abort
    <2>2. CASE Merge(w)
      BY <2>2, FinishAlone DEF Merge, Abort
    <2> QED BY <1>2, <2>1, <2>2, IngestMoves DEF Ingest
  <1>3. CASE Edit(w)
    <2>1. CASE SaveEdit(w) \/ CloseConflict(w) \/ SetNode(w)
      BY <2>1, GotoAlone, FinishAlone DEF SaveEdit, CloseConflict, SetNode, Abort
    <2>2. CASE CommitEdit(w) \/ Restore(w) \/ CommitClose(w)
      BY <2>2, GotoAlone, FinishAlone DEF CommitEdit, Restore, CommitClose
    <2> QED BY <1>1, <1>3, <2>1, <2>2 DEF Edit, EditNode, ResolveConflict
  <1>4. CASE Fail(w)
    BY <1>4, FinishAlone DEF Fail, BusyTimeout, Neo4jFails, ReplyLost, CommitFails,
       SaveRecordFails, Crash, Abort
  <1> QED BY <1>2, <1>3, <1>4

LEMMA HumanStep ==
  ASSUME TypeOK, HumanInv, NEW w \in Writers, Ingest(w) \/ Edit(w) \/ Fail(w)
  PROVE  HumanInv'
  <1> DEFINE Named(t) == t.conf = "human" => t.source = HumanEdits
             Told(image) == \A k \in DOMAIN image.traces : Named(image.traces[k])
  <1>1. Alone(w) /\ Effect(w)
    BY IngestEffect, EditEffect, FailEffect
  <1>2. /\ View(w) \in Image /\ View(w).traces \in Seq(Trace) /\ op[w].trace \in Trace
        /\ Told(View(w)) /\ Named(op[w].trace)
    BY ViewType, OpAt DEF TypeOK, Image, View, HumanInv
  <1>3. Named(op'[w].trace)
    <2>1. ASSUME op'[w] = NoOp PROVE Named(op'[w].trace)
      BY <2>1 DEF NoOp, HumanTrace
    <2>2. \A b \in Batches : Named(b.trace)
      BY RequestAssumption DEF Batch
    <2>3. \A n, changes : Named(HumanTrace(n, changes))
      BY DEF HumanTrace
    <2> QED BY <1>2, <2>1, <2>2, <2>3, TraceTaken
  <1>4. \A u \in Writers : Named(op'[u].trace)
    <2>1. \A u \in Writers : u # w => op'[u] = op[u] /\ Named(op[u].trace)
      BY <1>1 DEF Alone, HumanInv
    <2> QED BY <1>3, <2>1
  <1>5. Told(disk') /\ Told(staged')
    <2>1. CASE Tracing(w)
      <3>1. disk' = disk /\ staged'.traces = Append(View(w).traces, op[w].trace)
        BY <1>2, <2>1 DEF Tracing, Write, Image
      <3>2. \A k \in DOMAIN staged'.traces :
              \/ k \in DOMAIN View(w).traces /\ staged'.traces[k] = View(w).traces[k]
              \/ staged'.traces[k] = op[w].trace
        BY <1>2, <3>1, AppendProperties
      <3> QED BY <1>2, <3>1, <3>2 DEF HumanInv
    <2>2. CASE ~ Tracing(w)
      <3>1. /\ disk'.traces \in {disk.traces, View(w).traces}
            /\ staged'.traces \in {disk.traces, staged.traces, View(w).traces}
        BY <1>1, <1>2, <2>2 DEF Effect, Quiet, Dropping, Committing, Saving, Queueing, Closing,
           Rollback, Commit, Write, sqlite, Image
      <3> QED BY <1>2, <3>1 DEF HumanInv
    <2> QED BY <2>1, <2>2
  <1> QED BY <1>4, <1>5 DEF HumanInv

LEMMA AloneStep ==
  ASSUME Importers = {}, TypeOK, RecordingInv, HitInv, EditInv, AloneInv,
         NEW w \in Writers, Ingest(w) \/ Edit(w) \/ Fail(w)
  PROVE  AloneInv'
  <1>1. ReadAt(w) /\ QueueAt(w) /\ DoneInv /\ HumanInv /\ Effect(w)
    BY IngestEffect, EditEffect, FailEffect
       DEF AloneInv, ReadInv, QueueInv, ReadAt, QueueAt
  <1>2. ReadAt(w)' /\ QueueAt(w)'
    BY <1>1, ReadStep, QueueStep
  <1>3. ReadInv'
    BY <1>2, OnlyOne DEF ReadInv, ReadAt
  <1>4. QueueInv'
    BY <1>2, OnlyOne DEF QueueInv, QueueAt
  <1> QED BY <1>1, <1>3, <1>4, DoneStep, HumanStep DEF AloneInv

\* Everything one process relies on.
SoloInv == TypeOK /\ AuditInv /\ PrefixInv /\ SettledInv /\ OpenInv /\ AloneInv

LEMMA SoloInductive ==
  ASSUME Importers = {}
  PROVE  (Init => SoloInv) /\ (SoloInv /\ [Next]_vars => SoloInv')
  <1>1. ASSUME Init PROVE SoloInv
    <2>1. /\ disk = EmptyImage /\ staged = EmptyImage
          /\ \A w \in Writers : pc[w] = "idle" /\ op[w] = NoOp
      BY <1>1 DEF Init
    <2>2. DOMAIN EmptyImage.traces = {} /\ DOMAIN EmptyImage.conflicts = {}
      BY DEF EmptyImage
    <2>3. PrefixInv /\ SettledInv /\ OpenInv
      BY <2>1, <2>2 DEF PrefixInv, SettledInv, Settled, EditInv, Editing, OpenInv, Unambiguous,
         OpenRows
    <2>4. HumanInv
      <3>1. NoOp.trace.source = HumanEdits
        BY DEF NoOp, HumanTrace
      <3> QED BY <2>1, <2>2, <3>1 DEF HumanInv
    <2>5. ReadInv /\ QueueInv /\ DoneInv
      BY <2>1, <2>2 DEF ReadInv, QueueInv, DoneInv, Editing
    <2> QED BY <1>1, <2>3, <2>4, <2>5, InitTypeOK, InitAudit DEF SoloInv, AloneInv
  <1>2. ASSUME SoloInv, [Next]_vars PROVE SoloInv'
    <2>1. TypeOK' /\ AuditInv'
      BY <1>2, NextTypeOK, NextAudit DEF SoloInv, AuditInv
    <2>2. CASE UNCHANGED vars
      <3>1. PrefixInv' /\ SettledInv' /\ OpenInv'
        BY <1>2, <2>2 DEF SoloInv, vars, PrefixInv, SettledInv, Settled, HasTrace, EditInv, View,
           OpenInv, Unambiguous, OpenRows
      <3>2. ReadInv' /\ QueueInv' /\ DoneInv' /\ HumanInv'
        BY <1>2, <2>2 DEF SoloInv, AloneInv, vars, ReadInv, QueueInv, QueuedAs, DoneInv, HumanInv,
           View, OpenRows
      <3> QED BY <2>1, <3>1, <3>2 DEF SoloInv, AloneInv
    <2>3. ASSUME NEW w \in Writers, Ingest(w) \/ Edit(w) \/ Fail(w) PROVE SoloInv'
      <3>1. Effect(w)
        BY <1>2, <2>3, IngestEffect, EditEffect, FailEffect DEF SoloInv
      <3>2. PrefixInv' /\ OpenInv'
        BY <1>2, <3>1, PrefixStep, OpenStep DEF SoloInv, AuditInv
      <3>3. SettledInv' /\ AloneInv'
        BY <1>2, <2>3, SettledStep, AloneStep DEF SoloInv, AuditInv, SettledInv
      <3> QED BY <2>1, <3>2, <3>3 DEF SoloInv
    <2> QED BY <1>2, <2>2, <2>3 DEF Next
  <1> QED BY <1>1, <1>2

\* With one process a row that is committed as resolved is never written
\* again, whatever fails: record() only refreshes rows it has just found open,
\* and a second resolution is refused.
THEOREM ResolvedStaysResolved ==
  ASSUME Importers = {}
  PROVE  Spec => ResolutionsFinal
  <1> DEFINE Final == \A k \in DOMAIN disk.conflicts :
                        ~ disk.conflicts[k].open => /\ k \in DOMAIN disk'.conflicts
                                                    /\ disk'.conflicts[k] = disk.conflicts[k]
  <1>1. (Init => SoloInv) /\ (SoloInv /\ [Next]_vars => SoloInv')
    BY SoloInductive
  <1>2. SoloInv /\ [Next]_vars => [Final]_disk
    <2> SUFFICES ASSUME SoloInv, Next PROVE Final
      BY DEF vars
    <2>1. PICK w \in Writers : Effect(w)
      BY NextEffect DEF SoloInv
    <2>2. View(w) \in Image
      BY ViewType DEF SoloInv, TypeOK
    <2>3. disk'.conflicts = disk.conflicts \/ disk'.conflicts = View(w).conflicts
      BY <2>1, <2>2, Committed DEF SoloInv, Image
    <2> QED BY <2>3 DEF SoloInv, AloneInv, DoneInv, View
  <1> QED BY <1>1, <1>2, PTL DEF Spec, ResolutionsFinal

\* With one process every conflict an ingest could not settle is open in the
\* queue, with the incoming value, when its node's traces are committed.
THEOREM NoConflictIsLost ==
  ASSUME Importers = {}
  PROVE  Spec => ConflictsReachQueue
  <1> DEFINE Reach == \A w \in Writers :
                        pc[w] = "commit" /\ disk'.traces # disk.traces =>
                          \A a \in QueuedBy(op[w]) :
                            \E k \in OpenRows(disk', op[w].trace.node, a) :
                              disk'.conflicts[k].incoming.value = op[w].trace.facts[a]
  <1>1. (Init => SoloInv) /\ (SoloInv /\ [Next]_vars => SoloInv')
    BY SoloInductive
  <1>2. SoloInv /\ [Next]_vars => [Reach]_vars
    <2> SUFFICES ASSUME SoloInv, Next, NEW w \in Writers, pc[w] = "commit",
                        disk'.traces # disk.traces, NEW a \in QueuedBy(op[w])
                 PROVE  \E k \in OpenRows(disk', op[w].trace.node, a) :
                          disk'.conflicts[k].incoming.value = op[w].trace.facts[a]
      OBVIOUS
    <2>1. Effect(w)
      BY NextEffect, OnlyOne DEF SoloInv
    <2>2. View(w) \in Image
      BY ViewType DEF SoloInv, TypeOK
    <2>3. disk'.conflicts = View(w).conflicts
      BY <2>1, <2>2, Committed DEF SoloInv, Image
    <2>4. QueuedAs(View(w), op[w], a)
      BY DEF SoloInv, AloneInv, QueueInv
    <2> QED BY <2>3, <2>4 DEF QueuedAs, OpenRows
  <1> QED BY <1>1, <1>2, PTL DEF Spec, ConflictsReachQueue

\* What a step at the MERGE does to the graph.
LEMMA MergeWrites ==
  ASSUME TypeOK, NEW w \in Writers, Ingest(w) \/ Edit(w) \/ Fail(w), pc[w] = "merge"
  PROVE  graph' = graph \/ graph' = [graph EXCEPT ![op[w].trace.node] = Merged(op[w])]
  <1>1. ASSUME Ingest(w), ~ Merge(w) PROVE FALSE
    BY <1>1 DEF Ingest, SaveRecord, ReadNode, ReconcileNode, FindOpenRow, RecordConflict,
       RecordRefused, StageTraces, CommitNode, Compensate, Start
  <1>2. ASSUME Edit(w) PROVE FALSE
    BY <1>2 DEF Edit, EditNode, ResolveConflict, ReadForEdit, Start, SaveEdit, SetNode, CommitEdit,
       Restore, CloseConflict, CommitClose
  <1>3. CASE Fail(w)
    BY <1>3 DEF Fail, BusyTimeout, Neo4jFails, ReplyLost, CommitFails, SaveRecordFails, Crash
  <1> QED BY <1>1, <1>2, <1>3 DEF Merge

\* reconcile() changes a stored value only by a ruling for the incoming one.
LEMMA ReplacedByRuling ==
  ASSUME NEW traces, NEW stored \in Attributes, NEW t \in Trace, NEW a \in Attrs,
         stored[a] # NoValue, Reconcile(traces, stored, t)[a] # stored[a]
  PROVE  /\ stored[a] \in Values /\ t.facts[a] \in Values
         /\ Ruling(traces, stored, t, a).winner = "incoming"
  <1>1. t.facts[a] # NoValue /\ Reconcile(traces, stored, t)[a] = t.facts[a]
    BY DEF Reconcile
  <1>2. stored[a] \in Values /\ t.facts[a] \in Values
    BY <1>1 DEF Attributes, Trace
  <1>3. a \in Contested(stored, t.facts)
    BY <1>1 DEF Contested
  <1> QED BY <1>1, <1>2, <1>3 DEF Reconcile

\* With one process a merge never replaces a value whose latest committed
\* trace is a human's: whatever failed before, it decides on the traces that
\* are committed and on the node that is stored.
THEOREM LatestHumanStays ==
  ASSUME Importers = {}
  PROVE  Spec => LatestHumanKept
  <1> DEFINE Keeps == \A w \in Writers, n \in Nodes, a \in Attrs :
                        MergeReplaces(w, n, a) =>
                          LET before == disk.traces
                          IN Matches(before, n, a) # {} => Latest(before, n, a).conf # "human"
  <1>1. (Init => SoloInv) /\ (SoloInv /\ [Next]_vars => SoloInv')
    BY SoloInductive
  <1>2. SoloInv /\ [Next]_vars => [Keeps]_vars
    <2> SUFFICES ASSUME SoloInv, Next, NEW w \in Writers, NEW n \in Nodes, NEW a \in Attrs,
                        MergeReplaces(w, n, a), Matches(disk.traces, n, a) # {},
                        Latest(disk.traces, n, a).conf = "human"
                 PROVE  FALSE
      OBVIOUS
    <2> DEFINE o == op[w]
               t == o.trace
               i == [value |-> t.facts[a], conf |-> t.conf, source |-> t.source]
    <2>1. /\ pc[w] = "merge" /\ graph[n].attrs[a] # NoValue
          /\ graph'[n].attrs[a] # graph[n].attrs[a]
      BY DEF MergeReplaces
    <2>2. Ingest(w) \/ Edit(w) \/ Fail(w)
      BY OnlyOne DEF Next
    <2>3. /\ o \in Op /\ t \in Trace /\ t.node \in Nodes /\ graph \in [Nodes -> Node]
          /\ o.old \in Node /\ o.old.attrs \in Attributes /\ disk.traces \in Seq(Trace)
      BY OpAt DEF SoloInv, TypeOK, SqliteType, Image
    <2>4. graph' = [graph EXCEPT ![t.node] = Merged(o)]
      BY <2>1, <2>2, MergeWrites DEF SoloInv
    <2>5. n = t.node /\ graph'[n] = Merged(o)
      BY <2>1, <2>3, <2>4
    <2>6. /\ o.old = graph[n] /\ o.seen = disk.traces
          /\ t.conf # "human" /\ t.source # HumanEdits
      BY <2>1, <2>5 DEF SoloInv, AloneInv, ReadInv
    <2>7. Merged(o).attrs = Reconcile(o.seen, o.old.attrs, t)
      BY <2>3 DEF Merged, Node
    <2>8. /\ o.old.attrs[a] # NoValue
          /\ Reconcile(o.seen, o.old.attrs, t)[a] # o.old.attrs[a]
      BY <2>1, <2>5, <2>6, <2>7
    <2> DEFINE e == CandidateFor(o.seen, t.node, a, o.old.attrs[a])
    <2>9. /\ o.old.attrs[a] \in Values /\ t.facts[a] \in Values
          /\ Decide(e, i).winner = "incoming"
      <3> HIDE DEF o
      <3> QED BY <2>3, <2>8, ReplacedByRuling DEF Ruling
    <2>10. PICK k \in Matches(disk.traces, n, a) : Latest(disk.traces, n, a) = disk.traces[k]
      BY <2>3, LatestIsAMatch
    <2>11. e.conf = "human" /\ e.source = HumanEdits
      <3>1. disk.traces[k].conf = "human" /\ disk.traces[k].source = HumanEdits
        BY <2>10 DEF SoloInv, AloneInv, HumanInv, Matches
      <3> QED BY <2>5, <2>6, <2>10, <3>1 DEF CandidateFor
    <2>12. e \in Candidate /\ i \in Candidate
      <3>1. e \in Candidate
        BY <2>3, <2>6, <2>9, CandidateForType
      <3> QED BY <2>3, <2>9, <3>1 DEF Candidate, Trace, CandidateSources
    <2>13. i.conf # "human" /\ ~ SameSource(e, i)
      BY <2>6, <2>11 DEF SameSource
    <2>14. Decide(e, i).winner = "existing"
      <3> HIDE DEF e, i
      <3> QED BY <2>11, <2>12, <2>13, HumanOverrides
    <2> QED BY <2>9, <2>14
  <1> QED BY <1>1, <1>2, PTL DEF Spec, LatestHumanKept

-----------------------------------------------------------------------------
(* One store: the steps that are left *)

\* The operation ends where it is, with its rows.
Quits(w) == Abort(w) /\ UNCHANGED graph /\ pc[w] \in {"read", "record"} \cup Unwritten

LEMMA EditMoves ==
  ASSUME TypeOK, NEW w \in Writers
  PROVE  /\ \A n \in Nodes : \A changes, k : ReadForEdit(w, n, changes, k) =>
              /\ pc[w] = "idle" /\ pc'[w] = "edit_source" /\ UNCHANGED <<graph, sqlite>>
              /\ op'[w].trace = HumanTrace(n, changes) /\ op'[w].old = graph[n]
              /\ op'[w].resolving = k
         /\ SaveEdit(w) =>
              /\ pc[w] = "edit_source" /\ pc'[w] = "edit_stage" /\ op'[w] = op[w]
              /\ UNCHANGED graph /\ locker' = NoWriter /\ staged' = disk'
              /\ disk'.traces = View(w).traces /\ disk'.conflicts = View(w).conflicts
         /\ SetNode(w) /\ ~ Abort(w) =>
              /\ pc[w] = "edit_set" /\ pc'[w] = "edit_commit" /\ op'[w] = op[w] /\ UNCHANGED sqlite
              /\ Present(op[w].trace.node)
              /\ graph' = [graph EXCEPT ![op[w].trace.node] = Edited(op[w])]
         /\ CommitEdit(w) =>
              /\ pc[w] = "edit_commit" /\ Commit(w) /\ UNCHANGED graph
              /\ \/ pc'[w] = "idle"
                 \/ pc'[w] = "close" /\ op'[w] = op[w] /\ op[w].resolving # 0
         /\ CloseConflict(w) =>
              /\ pc[w] = "close" /\ pc'[w] = "close_commit" /\ op'[w] = op[w]
              /\ UNCHANGED <<graph, disk>> /\ locker' = w
              /\ staged'.traces = View(w).traces
              /\ LET row == View(w).conflicts[op[w].resolving]
                 IN staged'.conflicts =
                      [View(w).conflicts EXCEPT
                         ![op[w].resolving] = Closed(row, op[w].trace.facts[row.attr])]
         /\ CommitClose(w) =>
              pc[w] = "close_commit" /\ pc'[w] = "idle" /\ Commit(w) /\ UNCHANGED graph
         /\ CommitNode(w) =>
              pc[w] = "commit" /\ pc'[w] = "idle" /\ Commit(w) /\ UNCHANGED graph
         /\ Quits(w) => pc'[w] = "idle" /\ UNCHANGED <<graph, disk>> /\ Rollback(w)
  <1> USE DEF TypeOK
  <1>1. View(w) \in Image
    BY ViewType
  <1>2. ASSUME NEW n \in Nodes, NEW changes, NEW k, ReadForEdit(w, n, changes, k)
        PROVE  /\ pc[w] = "idle" /\ pc'[w] = "edit_source" /\ UNCHANGED <<graph, sqlite>>
               /\ op'[w].trace = HumanTrace(n, changes) /\ op'[w].old = graph[n]
               /\ op'[w].resolving = k
    <2> DEFINE o == [NoOp EXCEPT !.trace = HumanTrace(n, changes), !.old = graph[n],
                                 !.resolving = k]
    <2>1. pc[w] = "idle" /\ pc'[w] = "edit_source" /\ op'[w] = o
      BY <1>2, StartAlone DEF ReadForEdit
    <2>2. o.trace = HumanTrace(n, changes) /\ o.old = graph[n] /\ o.resolving = k
      BY NoOpType DEF Op
    <2> HIDE DEF o
    <2> QED BY <1>2, <2>1, <2>2 DEF ReadForEdit
  <1>3. ASSUME SaveEdit(w)
        PROVE  /\ pc[w] = "edit_source" /\ pc'[w] = "edit_stage" /\ op'[w] = op[w]
               /\ UNCHANGED graph /\ locker' = NoWriter /\ staged' = disk'
               /\ disk'.traces = View(w).traces /\ disk'.conflicts = View(w).conflicts
    BY <1>1, <1>3, GotoAlone DEF SaveEdit, Image
  <1>4. ASSUME SetNode(w), ~ Abort(w)
        PROVE  /\ pc[w] = "edit_set" /\ pc'[w] = "edit_commit" /\ op'[w] = op[w]
               /\ UNCHANGED sqlite /\ Present(op[w].trace.node)
               /\ graph' = [graph EXCEPT ![op[w].trace.node] = Edited(op[w])]
    BY <1>4, GotoAlone DEF SetNode
  <1>5. ASSUME CommitEdit(w)
        PROVE  /\ pc[w] = "edit_commit" /\ Commit(w) /\ UNCHANGED graph
               /\ \/ pc'[w] = "idle"
                  \/ pc'[w] = "close" /\ op'[w] = op[w] /\ op[w].resolving # 0
    BY <1>5, GotoAlone, FinishAlone DEF CommitEdit
  <1>6. ASSUME CloseConflict(w)
        PROVE  /\ pc[w] = "close" /\ pc'[w] = "close_commit" /\ op'[w] = op[w]
               /\ UNCHANGED <<graph, disk>> /\ locker' = w
               /\ staged'.traces = View(w).traces
               /\ LET row == View(w).conflicts[op[w].resolving]
                  IN staged'.conflicts =
                       [View(w).conflicts EXCEPT
                          ![op[w].resolving] = Closed(row, op[w].trace.facts[row.attr])]
    BY <1>1, <1>6, GotoAlone DEF CloseConflict, Write, Image
  <1>7. ASSUME CommitClose(w)
        PROVE  pc[w] = "close_commit" /\ pc'[w] = "idle" /\ Commit(w) /\ UNCHANGED graph
    BY <1>7, FinishAlone DEF CommitClose
  <1>8. ASSUME CommitNode(w)
        PROVE  pc[w] = "commit" /\ pc'[w] = "idle" /\ Commit(w) /\ UNCHANGED graph
    BY <1>8, FinishAlone DEF CommitNode
  <1>9. ASSUME Quits(w)
        PROVE  pc'[w] = "idle" /\ UNCHANGED <<graph, disk>> /\ Rollback(w)
    BY <1>9, FinishAlone DEF Quits, Abort, Rollback
  <1> QED BY <1>2, <1>3, <1>4, <1>5, <1>6, <1>7, <1>8, <1>9

\* The records agree about types, so no merge collides.
LEMMA NoCollision ==
  ASSUME OneStore, TypeOK, BatchInv, NEW w \in Writers, pc[w] = "merge"
  PROVE  ~ Collides(op[w])
  <1> DEFINE n == op[w].trace.node
  <1>1. PICK b \in Batches : op[w].type = b.type /\ op[w].trace = b.trace
    BY DEF BatchInv
  <1>2. n \in Nodes
    BY OpAt DEF TypeOK
  <1>3. CASE graph[n] = NoNode
    BY <1>3 DEF Collides, NoNode
  <1>4. ASSUME NEW c \in Batches, c.trace.node = n, graph[n].type = c.type
        PROVE  ~ Collides(op[w])
    BY <1>1, <1>4 DEF Collides, OneStore
  <1> QED BY <1>2, <1>3, <1>4 DEF BatchInv

\* A plain edit or a resolution begins.
Begins(w) ==
  \/ \E n \in Nodes, changes \in Edits : EditNode(w, n, changes)
  \/ \E k \in DOMAIN View(w).conflicts, v \in Values : ResolveConflict(w, k, v)

LEMMA BeginMoves ==
  ASSUME TypeOK, NEW w \in Writers, Begins(w)
  PROVE  \E n \in Nodes, k \in {0} \cup DOMAIN View(w).conflicts :
           /\ pc[w] = "idle" /\ pc'[w] = "edit_source" /\ UNCHANGED <<graph, sqlite>>
           /\ op'[w].trace.node = n /\ op'[w].old = graph[n] /\ op'[w].resolving = k
           /\ \E changes \in Changes(View(w).conflicts, op'[w]) :
                op'[w].trace = HumanTrace(n, changes)
           /\ k # 0 => View(w).conflicts[k].open /\ View(w).conflicts[k].node = n
  <1> DEFINE rows == View(w).conflicts
             Moved(n, k, changes) ==
               /\ pc[w] = "idle" /\ pc'[w] = "edit_source" /\ UNCHANGED <<graph, sqlite>>
               /\ op'[w].trace.node = n /\ op'[w].old = graph[n] /\ op'[w].resolving = k
               /\ op'[w].trace = HumanTrace(n, changes)
  <1>1. ASSUME NEW n \in Nodes, NEW changes, NEW k, ReadForEdit(w, n, changes, k)
        PROVE  Moved(n, k, changes)
    <2>1. HumanTrace(n, changes).node = n
      BY DEF HumanTrace
    <2> QED BY <1>1, <2>1, EditMoves
  <1>2. ASSUME NEW n \in Nodes, NEW changes \in Edits, EditNode(w, n, changes)
        PROVE  \E m \in Nodes, k \in {0} \cup DOMAIN rows :
                 /\ \E c \in Changes(rows, op'[w]) : Moved(m, k, c)
                 /\ k # 0 => rows[k].open /\ rows[k].node = m
    <2>1. Moved(n, 0, changes)
      BY <1>1, <1>2 DEF EditNode
    <2>2. changes \in Changes(rows, op'[w])
      BY <2>1 DEF Changes
    <2> HIDE DEF Moved
    <2> QED BY <2>1, <2>2
  <1>3. ASSUME NEW k \in DOMAIN rows, NEW v \in Values, ResolveConflict(w, k, v)
        PROVE  \E m \in Nodes, j \in {0} \cup DOMAIN rows :
                 /\ \E c \in Changes(rows, op'[w]) : Moved(m, j, c)
                 /\ j # 0 => rows[j].open /\ rows[j].node = m
    <2> DEFINE n == rows[k].node
               changes == [Nothing EXCEPT ![rows[k].attr] = v]
    <2>1. rows \in Seq(ConflictRow) /\ k # 0
      BY ViewType DEF TypeOK, Image
    <2>2. rows[k] \in ConflictRow
      BY <2>1, ElementOfSeq
    <2>3. n \in Nodes
      BY <2>2 DEF ConflictRow
    <2>4. ReadForEdit(w, n, changes, k) /\ rows[k].open
      BY <1>3 DEF ResolveConflict
    <2>5. Moved(n, k, changes)
      BY <1>1, <2>3, <2>4
    <2>6. changes \in Changes(rows, op'[w])
      BY <2>1, <2>5 DEF Changes
    <2> HIDE DEF Moved, changes
    <2> QED BY <2>3, <2>4, <2>5, <2>6
  <1> HIDE DEF rows
  <1>4. \E m \in Nodes, k \in {0} \cup DOMAIN rows :
          /\ \E c \in Changes(rows, op'[w]) : Moved(m, k, c)
          /\ k # 0 => rows[k].open /\ rows[k].node = m
    BY <1>2, <1>3 DEF Begins, rows
  <1> QED BY <1>4 DEF rows

LEMMA OneStoreSteps ==
  ASSUME OneStore, TypeOK, AloneInv, BatchInv, LockInv,
         NEW w \in Writers, Ingest(w) \/ Edit(w) \/ Fail(w)
  PROVE  \/ \E b \in Batches : SaveRecord(w, b)
         \/ ReadNode(w) \/ ReconcileNode(w)
         \/ \E a \in Attrs : FindOpenRow(w, a)
         \/ RecordConflict(w)
         \/ StageTraces(w)
         \/ Merge(w) /\ UNCHANGED <<sqlite, op>> /\ pc'[w] = "commit"
         \/ CommitNode(w)
         \/ Begins(w)
         \/ SaveEdit(w)
         \/ SetNode(w) /\ ~ Abort(w)
         \/ CommitEdit(w) \/ CloseConflict(w) \/ CommitClose(w)
         \/ Quits(w)
  <1> USE DEF TypeOK
  <1>1. pc[w] \notin {"compensate", "restore"}
    BY DEF LockInv
  <1>2. "reply" \notin Faults /\ "commit" \notin Faults /\ "crash" \notin Faults
    BY DEF OneStore
  <1>3. CanWrite(w)
    BY OnlyOne DEF OneStore, SqliteType, CanWrite
  <1>4. CASE Merge(w)
    <2>1. ~ Collides(op[w])
      BY <1>4, NoCollision DEF Merge
    <2> QED BY <1>4, <2>1, GotoAlone DEF Merge
  <1>5. CASE RecordRefused(w)
    BY <1>5 DEF RecordRefused, Quits
  <1>6. CASE SetNode(w) /\ Abort(w)
    <2>1. pc[w] = "edit_set"
      BY <1>6 DEF SetNode
    <2>2. UNCHANGED graph
      <3>1. ASSUME Goto(w, "edit_commit"), UNCHANGED op PROVE FALSE
        BY <1>6, <3>1, GotoAlone, FinishAlone DEF Abort
      <3> QED BY <1>6, <3>1 DEF SetNode
    <2> QED BY <1>6, <2>1, <2>2 DEF Quits, Unwritten
  <1>7. CASE Neo4jFails(w)
    <2>1. CASE pc[w] \in {"merge", "edit_set"} /\ Abort(w)
      BY <1>7, <2>1 DEF Neo4jFails, Quits, Unwritten
    <2>2. CASE pc[w] = "read" /\ Finish(w) /\ UNCHANGED sqlite
      <3>1. locker # w
        BY <2>2, WriterIsNotNobody DEF AloneInv, ReadInv
      <3>2. Rollback(w)
        BY <2>2, <3>1 DEF Rollback, sqlite
      <3> QED BY <1>7, <2>2, <3>2 DEF Neo4jFails, Quits, Abort
    <2> QED BY <1>1, <1>7, <2>1, <2>2 DEF Neo4jFails
  <1>8. CASE Fail(w) /\ ~ Neo4jFails(w)
    BY <1>2, <1>3, <1>8 DEF Fail, BusyTimeout, ReplyLost, CommitFails, SaveRecordFails, Crash
  <1>9. CASE Ingest(w)
    BY <1>1, <1>4, <1>5, <1>9 DEF Ingest, Compensate
  <1>10. CASE Edit(w)
    BY <1>1, <1>6, <1>10 DEF Edit, Restore, Begins
  <1> QED BY <1>7, <1>8, <1>9, <1>10

-----------------------------------------------------------------------------
(* One store: the invariant, part by part *)

Asserting == {"read", "reconcile", "find", "record", "stage", "merge", "commit"}

BatchAt(w) ==
  pc[w] \in Asserting => \E b \in Batches : op[w].type = b.type /\ op[w].trace = b.trace

LockAt(w) ==
  /\ pc[w] \notin {"compensate", "restore"}
  /\ locker = w => pc[w] \in Recorders \cup Unwritten \cup {"commit", "edit_commit", "close_commit"}
  /\ pc[w] \in Unwritten \cup {"commit", "edit_commit", "close_commit"} => locker = w

LEMMA BatchStep ==
  ASSUME OneStore, TypeOK, AloneInv, BatchInv, LockInv,
         NEW w \in Writers, Ingest(w) \/ Edit(w) \/ Fail(w)
  PROVE  BatchInv'
  <1> USE DEF TypeOK
  <1>1. BatchAt(w)
    BY DEF BatchInv, BatchAt, Asserting
  <1>2. BatchAt(w)'
    <2>1. CASE pc'[w] \notin Asserting
      BY <2>1 DEF BatchAt
    <2>2. ASSUME pc'[w] \in Asserting
          PROVE  \/ \E b \in Batches : op'[w].type = b.type /\ op'[w].trace = b.trace
                 \/ /\ pc[w] \in Asserting
                    /\ op'[w].type = op[w].type /\ op'[w].trace = op[w].trace
      BY <2>2, IngestGoesOn, IngestMoves DEF Asserting
    <2> QED BY <1>1, <2>1, <2>2 DEF BatchAt
  <1> DEFINE n == op[w].trace.node
             Typed(m) == \/ graph'[m] = NoNode
                         \/ \E b \in Batches : b.trace.node = m /\ graph'[m].type = b.type
  <1>3. ASSUME NEW m \in Nodes PROVE Typed(m)
    <2>1. n \in Nodes /\ op[w] \in Op /\ graph \in [Nodes -> Node]
      BY OpAt
    <2>2. CASE UNCHANGED graph
      BY <2>2 DEF BatchInv
    <2>3. CASE Merge(w) /\ UNCHANGED <<sqlite, op>> /\ pc'[w] = "commit"
      <3>1. graph' = [graph EXCEPT ![n] = Merged(op[w])] /\ pc[w] = "merge"
        BY <2>3, IngestMoves
      <3>2. PICK b \in Batches : op[w].type = b.type /\ op[w].trace = b.trace
        BY <1>1, <3>1 DEF BatchAt, Asserting
      <3>3. Merged(op[w]).type = b.type
        <4>1. CASE graph[n] = NoNode
          BY <3>2, <4>1 DEF Merged
        <4>2. CASE graph[n] # NoNode
          <5>1. Merged(op[w]).type = graph[n].type
            BY <2>1, <4>2 DEF Merged, Node
          <5>2. PICK c \in Batches : c.trace.node = n /\ graph[n].type = c.type
            BY <2>1, <4>2 DEF BatchInv
          <5> QED BY <3>2, <5>1, <5>2 DEF OneStore
        <4> QED BY <4>1, <4>2
      <3>4. CASE m = n
        BY <2>1, <3>1, <3>2, <3>3, <3>4
      <3>5. CASE m # n
        BY <2>1, <3>1, <3>5 DEF BatchInv
      <3> QED BY <3>4, <3>5
    <2>4. CASE SetNode(w) /\ ~ Abort(w)
      <3>1. graph' = [graph EXCEPT ![n] = Edited(op[w])] /\ graph[n] # NoNode
        BY <2>4, EditMoves DEF Present
      <3>2. Edited(op[w]).type = graph[n].type
        BY <2>1 DEF Edited, Node
      <3>3. CASE m = n
        BY <2>1, <3>1, <3>2, <3>3 DEF BatchInv
      <3>4. CASE m # n
        BY <2>1, <3>1, <3>4 DEF BatchInv
      <3> QED BY <3>3, <3>4
    <2>5. CASE CommitNode(w) \/ CommitEdit(w) \/ CloseConflict(w) \/ CommitClose(w) \/ Quits(w)
               \/ SaveEdit(w)
      BY <2>2, <2>5, EditMoves
    <2>6. CASE RecordConflict(w) \/ StageTraces(w) \/ ReadNode(w) \/ ReconcileNode(w)
      BY <2>2, <2>6, IngestMoves
    <2>7. ASSUME (\E b \in Batches : SaveRecord(w, b)) \/ \E a \in Attrs : FindOpenRow(w, a)
          PROVE  Typed(m)
      BY <2>2, <2>7, IngestMoves
    <2>8. CASE Begins(w)
      BY <2>2, <2>8, BeginMoves
    <2> QED BY <2>3, <2>4, <2>5, <2>6, <2>7, <2>8, OneStoreSteps
  <1>4. \A u \in Writers : BatchAt(u)'
    BY <1>2, OnlyOne DEF OneStore
  <1> QED BY <1>3, <1>4 DEF BatchInv, BatchAt, Asserting

LEMMA LockStep ==
  ASSUME OneStore, TypeOK, AloneInv, BatchInv, LockInv,
         NEW w \in Writers, Ingest(w) \/ Edit(w) \/ Fail(w)
  PROVE  LockInv'
  <1> USE DEF Recorders, Unwritten
  <1>1. LockAt(w) /\ w # NoWriter
    BY WriterIsNotNobody DEF LockInv, LockAt
  <1>2. LockAt(w)'
    <2>1. ASSUME NEW b \in Batches, SaveRecord(w, b) PROVE LockAt(w)'
      BY <1>1, <2>1, IngestMoves DEF LockAt
    <2>2. CASE ReadNode(w) \/ ReconcileNode(w)
      BY <1>1, <2>2, IngestMoves DEF LockAt, sqlite
    <2>3. ASSUME NEW a \in Attrs, FindOpenRow(w, a) PROVE LockAt(w)'
      BY <1>1, <2>3, IngestMoves DEF LockAt, sqlite
    <2>4. CASE RecordConflict(w) \/ StageTraces(w)
      BY <1>1, <2>4, IngestMoves DEF LockAt
    <2>5. CASE Merge(w) /\ UNCHANGED <<sqlite, op>> /\ pc'[w] = "commit"
      BY <1>1, <2>5, IngestMoves DEF LockAt, sqlite
    <2>6. CASE Begins(w)
      BY <1>1, <2>6, BeginMoves DEF LockAt, sqlite
    <2>7. CASE SaveEdit(w) \/ CloseConflict(w)
      BY <1>1, <2>7, EditMoves DEF LockAt
    <2>8. CASE SetNode(w) /\ ~ Abort(w)
      BY <1>1, <2>8, EditMoves DEF LockAt, sqlite
    <2>9. CASE CommitNode(w) \/ CommitEdit(w) \/ CommitClose(w) \/ Quits(w)
      <3>1. pc'[w] \in {"idle", "close"} /\ (Commit(w) \/ Rollback(w))
        BY <2>9, EditMoves
      <3> QED BY <1>1, <3>1 DEF Commit, Rollback, LockAt
    <2> QED BY <2>1, <2>2, <2>3, <2>4, <2>5, <2>6, <2>7, <2>8, <2>9, OneStoreSteps
  <1>3. \A u \in Writers : LockAt(u)'
    BY <1>2, OnlyOne DEF OneStore
  <1> QED BY <1>3 DEF LockInv, LockAt

ChangeAt(w) ==
  LET o == op[w]
      k == o.resolving
      row == disk.conflicts[k]
  IN /\ pc[w] \in Editing \cup {"close_commit"} =>
          /\ k # 0 => k \in DOMAIN disk.conflicts /\ row.open /\ row.node = o.trace.node
          /\ \E changes \in Changes(disk.conflicts, o) :
               o.trace = HumanTrace(o.trace.node, changes)
     /\ pc[w] \in {"edit_source", "edit_stage", "edit_set"} => o.old = graph[o.trace.node]
     /\ pc[w] \in {"edit_commit", "close", "close_commit"} /\ k # 0 =>
          graph[row.node].attrs[row.attr] = o.trace.facts[row.attr]
     /\ pc[w] \in {"close", "close_commit"} =>
          /\ k # 0 /\ disk.traces # <<>>
          /\ disk.traces[Len(disk.traces)] = o.trace

StagedAt(w) ==
  LET o == op[w]
  IN /\ pc[w] \in Recorders => View(w).traces = disk.traces
     /\ pc[w] \in Unwritten \cup {"commit", "edit_commit"} =>
          staged.traces = Append(disk.traces, o.trace)
     /\ pc[w] \in Recorders \cup {"merge"} =>
          /\ Rows(View(w), TRUE) = EnqueueFor(Rows(disk, TRUE), o, QueuedBy(o) \ o.todo)
          /\ Rows(View(w), FALSE) = Rows(disk, FALSE)
     /\ pc[w] \in {"edit_set", "edit_commit"} => staged.conflicts = disk.conflicts
     /\ pc[w] = "close_commit" =>
          /\ staged.traces = disk.traces
          /\ LET row == disk.conflicts[o.resolving]
             IN staged.conflicts = [disk.conflicts EXCEPT
                                      ![o.resolving] = Closed(row, o.trace.facts[row.attr])]

\* Without the lock a process sees what is committed.
LEMMA ViewIsDisk ==
  ASSUME NEW w \in Writers, LockAt(w),
         pc[w] \in {"idle", "read", "reconcile", "edit_source", "edit_stage", "close"}
  PROVE  View(w) = disk /\ locker # w
  BY DEF LockAt, View, Recorders, Unwritten

\* What a resolution writes over the attribute of its row.
LEMMA ChosenValue ==
  ASSUME NEW rows \in Seq(ConflictRow), NEW o \in Op, o.resolving # 0, o.resolving \in DOMAIN rows,
         NEW changes \in Changes(rows, o), o.trace = HumanTrace(o.trace.node, changes)
  PROVE  LET row == rows[o.resolving]
         IN row \in ConflictRow /\ row.attr \in Attrs /\ o.trace.facts[row.attr] \in Values
  <1> DEFINE row == rows[o.resolving]
  <1>1. row \in ConflictRow
    BY ElementOfSeq
  <1>2. row.attr \in Attrs
    BY <1>1 DEF ConflictRow
  <1>3. PICK v \in Values : changes = [Nothing EXCEPT ![row.attr] = v]
    BY DEF Changes
  <1>4. o.trace.facts = changes
    BY DEF HumanTrace
  <1>5. changes[row.attr] = v
    BY <1>2, <1>3 DEF Nothing
  <1> QED BY <1>1, <1>2, <1>4, <1>5

LEMMA ChangeStep ==
  ASSUME OneStore, TypeOK, AloneInv, BatchInv, LockInv, NEW w \in Writers, ChangeAt(w), StagedAt(w),
         Ingest(w) \/ Edit(w) \/ Fail(w)
  PROVE  ChangeAt(w)'
  <1> USE DEF TypeOK
  <1> DEFINE o == op[w]
             k == o.resolving
             row == disk.conflicts[k]
  <1>1. LockAt(w)
    BY DEF LockInv, LockAt
  <1>2. /\ o \in Op /\ o.trace \in Trace /\ o.trace.node \in Nodes
        /\ o.trace.facts \in Attributes /\ o.old \in Node
        /\ disk.conflicts \in Seq(ConflictRow) /\ disk.traces \in Seq(Trace)
        /\ graph \in [Nodes -> Node]
    BY OpAt DEF SqliteType, Image
  <1>3. CASE pc'[w] \notin Editing \cup {"close_commit"}
    BY <1>3 DEF ChangeAt, Editing
  <1>4. CASE Begins(w)
    <2>1. View(w) = disk
      BY <1>1, <1>4, BeginMoves, ViewIsDisk
    <2>2. PICK n \in Nodes, j \in {0} \cup DOMAIN disk.conflicts :
            /\ pc'[w] = "edit_source" /\ UNCHANGED <<graph, sqlite>>
            /\ op'[w].trace.node = n /\ op'[w].old = graph[n] /\ op'[w].resolving = j
            /\ \E changes \in Changes(disk.conflicts, op'[w]) :
                 op'[w].trace = HumanTrace(n, changes)
            /\ j # 0 => disk.conflicts[j].open /\ disk.conflicts[j].node = n
      BY <1>4, <2>1, BeginMoves
    <2>3. disk' = disk
      BY <2>2 DEF sqlite
    <2> QED BY <2>2, <2>3 DEF ChangeAt, Editing
  <1>5. CASE SaveEdit(w)
    <2>1. /\ pc[w] = "edit_source" /\ pc'[w] = "edit_stage" /\ op'[w] = o /\ graph' = graph
          /\ disk'.conflicts = View(w).conflicts
      BY <1>5, EditMoves
    <2>2. disk'.conflicts = disk.conflicts
      BY <1>1, <2>1, ViewIsDisk
    <2> QED BY <2>1, <2>2 DEF ChangeAt, Editing, Changes
  <1>6. CASE StageTraces(w)
    <2>1. /\ pc'[w] = IF pc[w] = "stage" THEN "merge" ELSE "edit_set"
          /\ pc[w] \in {"stage", "edit_stage"} /\ op'[w] = o /\ graph' = graph /\ disk' = disk
      BY <1>6, IngestMoves
    <2> QED BY <2>1 DEF ChangeAt, Editing, Changes
  <1>7. CASE SetNode(w) /\ ~ Abort(w)
    <2>1. /\ pc[w] = "edit_set" /\ pc'[w] = "edit_commit" /\ op'[w] = o /\ disk' = disk
          /\ graph' = [graph EXCEPT ![o.trace.node] = Edited(o)]
      BY <1>7, EditMoves DEF sqlite
    <2>2. ASSUME k # 0 PROVE graph'[row.node].attrs[row.attr] = o.trace.facts[row.attr]
      <3>1. k \in DOMAIN disk.conflicts /\ row.node = o.trace.node
        BY <2>1, <2>2 DEF ChangeAt, Editing
      <3>2. PICK changes \in Changes(disk.conflicts, o) :
              o.trace = HumanTrace(o.trace.node, changes)
        BY <2>1 DEF ChangeAt, Editing
      <3>3. row.attr \in Attrs /\ o.trace.facts[row.attr] \in Values
        BY <1>2, <2>2, <3>1, <3>2, ChosenValue
      <3>4. graph'[row.node].attrs = Overlay(o.old.attrs, o.trace.facts)
        BY <1>2, <2>1, <3>1 DEF Edited, Node
      <3>5. o.trace.facts[row.attr] # NoValue
        BY <3>3, NormAssumption
      <3> QED BY <3>3, <3>4, <3>5 DEF Overlay
    <2> QED BY <2>1, <2>2 DEF ChangeAt, Editing, Changes
  <1>8. CASE CommitEdit(w) /\ pc'[w] = "close"
    <2>1. /\ pc[w] = "edit_commit" /\ pc'[w] = "close" /\ op'[w] = o /\ graph' = graph
          /\ k # 0 /\ Commit(w)
      BY <1>8, EditMoves
    <2>2. locker = w
      BY <1>1, <2>1 DEF LockAt
    <2>3. disk'.conflicts = disk.conflicts /\ disk'.traces = Append(disk.traces, o.trace)
      BY <2>1, <2>2 DEF Commit, View, StagedAt
    <2>4. disk'.traces # <<>> /\ disk'.traces[Len(disk'.traces)] = o.trace
      BY <1>2, <2>3, AppendProperties
    <2> QED BY <2>1, <2>3, <2>4 DEF ChangeAt, Editing, Changes
  <1>9. CASE CloseConflict(w)
    <2>1. /\ pc[w] = "close" /\ pc'[w] = "close_commit" /\ op'[w] = o /\ graph' = graph
          /\ disk' = disk
      BY <1>9, EditMoves
    <2> QED BY <2>1 DEF ChangeAt, Editing, Changes
  <1>10. CASE CommitNode(w) \/ CommitClose(w) \/ Quits(w)
    BY <1>3, <1>10, EditMoves DEF Editing
  <1>11. CASE Merge(w) /\ UNCHANGED <<sqlite, op>> /\ pc'[w] = "commit"
    BY <1>3, <1>11 DEF Editing
  <1>12. CASE ReadNode(w) \/ ReconcileNode(w) \/ RecordConflict(w)
    BY <1>3, <1>12, IngestMoves DEF Editing
  <1>13. ASSUME (\E b \in Batches : SaveRecord(w, b)) \/ \E a \in Attrs : FindOpenRow(w, a)
         PROVE  ChangeAt(w)'
    BY <1>3, <1>13, IngestMoves DEF Editing
  <1>14. CASE CommitEdit(w) /\ pc'[w] = "idle"
    BY <1>3, <1>14 DEF Editing
  <1> QED BY <1>4, <1>5, <1>6, <1>7, <1>8, <1>9, <1>10, <1>11, <1>12, <1>13, <1>14, EditMoves,
             OneStoreSteps

\* One more conflict recorded: its row, if one was open, is refreshed, and
\* otherwise a row is added.
EnqueueNext(before, o, a) ==
  LET new == ConflictOf(o.seen, o.old.attrs, o.trace, a)
      keyed == {r \in before : r.node = o.trace.node /\ r.attr = a}
  IN (before \ keyed) \cup
     (IF keyed = {} THEN {new} ELSE {Refreshed(r, new) : r \in keyed})

LEMMA EnqueueOne ==
  ASSUME NEW queue \in SUBSET ConflictRow, NEW o, NEW S, NEW a, a \notin S
  PROVE  EnqueueFor(queue, o, S \cup {a}) = EnqueueNext(EnqueueFor(queue, o, S), o, a)
  <1> DEFINE t == o.trace
             new(b) == ConflictOf(o.seen, o.old.attrs, t, b)
             ofAttr(b) == {r \in queue : r.node = t.node /\ r.attr = b}
             rest(T) == {r \in queue : r.node # t.node \/ r.attr \notin T}
             row(b) == IF ofAttr(b) = {} THEN {new(b)} ELSE {Refreshed(r, new(b)) : r \in ofAttr(b)}
             before == EnqueueFor(queue, o, S)
             keyed == {r \in before : r.node = t.node /\ r.attr = a}
  <1>1. \A T : EnqueueFor(queue, o, T) = rest(T) \cup UNION {row(b) : b \in T}
    BY DEF EnqueueFor
  <1>2. \A b : \A r \in row(b) : r.attr = b
    <2>1. ASSUME NEW b PROVE new(b).attr = b
      BY DEF ConflictOf
    <2>2. ASSUME NEW b, NEW r \in ofAttr(b) PROVE Refreshed(r, new(b)).attr = b
      BY <2>2 DEF Refreshed, ConflictRow
    <2> HIDE DEF new, ofAttr
    <2> QED BY <2>1, <2>2
  <1> HIDE DEF row, new
  <1>3. keyed = ofAttr(a)
    BY <1>1, <1>2
  <1>4. rest(S) \ ofAttr(a) = rest(S \cup {a})
    OBVIOUS
  <1>5. UNION {row(b) : b \in S \cup {a}} = (UNION {row(b) : b \in S}) \cup row(a)
    OBVIOUS
  <1>6. \A r \in UNION {row(b) : b \in S} : r \notin ofAttr(a)
    BY <1>2
  <1>7. row(a) = IF keyed = {} THEN {new(a)} ELSE {Refreshed(r, new(a)) : r \in keyed}
    BY <1>3 DEF row
  <1>8. EnqueueFor(queue, o, S \cup {a}) = (before \ keyed) \cup row(a)
    <2> HIDE DEF keyed, ofAttr, rest
    <2>1. before = rest(S) \cup UNION {row(b) : b \in S}
      BY <1>1
    <2>2. EnqueueFor(queue, o, S \cup {a}) = rest(S \cup {a}) \cup UNION {row(b) : b \in S \cup {a}}
      BY <1>1
    <2> HIDE DEF before
    <2> QED BY <2>1, <2>2, <1>3, <1>4, <1>5, <1>6
  <1> QED BY <1>7, <1>8 DEF new, EnqueueNext

\* record() over the rows of a table in which its lookup was right.
LEMMA RecordedSet ==
  ASSUME NEW image, NEW after, image.conflicts \in Seq(ConflictRow), NEW o,
         after.conflicts = Recorded(image.conflicts, o),
         o.trace.node \in Nodes, o.attr \in Attrs, Unambiguous(image),
         o.hit # 0 => o.hit \in OpenRows(image, o.trace.node, o.attr),
         o.hit = 0 => OpenRows(image, o.trace.node, o.attr) = {}
  PROVE  /\ Rows(after, TRUE) = EnqueueNext(Rows(image, TRUE), o, o.attr)
         /\ Rows(after, FALSE) = Rows(image, FALSE)
  <1> DEFINE rows == image.conflicts
             n == o.trace.node
             a == o.attr
             new == ConflictOf(o.seen, o.old.attrs, o.trace, a)
             keyed == {r \in Rows(image, TRUE) : r.node = n /\ r.attr = a}
  <1>1. /\ DOMAIN rows = 1..Len(rows) /\ Len(rows) \in Nat
        /\ \A k \in DOMAIN rows : rows[k] \in ConflictRow
    BY ElementOfSeq
  <1>2. \A k \in DOMAIN rows : rows[k].open \in BOOLEAN
    BY <1>1 DEF ConflictRow
  <1>3. new.open = TRUE
    BY DEF ConflictOf
  <1>4. CASE o.hit = 0
    <2>1. keyed = {}
      BY <1>4 DEF Rows, OpenRows
    <2>2. after.conflicts = Append(rows, new)
      BY <1>4 DEF Recorded
    <2> HIDE DEF new
    <2>3. /\ DOMAIN after.conflicts = 1..(Len(rows) + 1)
          /\ \A k \in DOMAIN rows : after.conflicts[k] = rows[k]
          /\ after.conflicts[Len(rows) + 1] = new
      BY <1>1, <2>2
    <2>4. DOMAIN after.conflicts = DOMAIN rows \cup {Len(rows) + 1} /\ Len(rows) + 1 \notin DOMAIN rows
      BY <1>1, <2>3
    <2>5. Rows(after, TRUE) = Rows(image, TRUE) \cup {new}
      BY <1>3, <2>3, <2>4 DEF Rows
    <2>6. Rows(after, FALSE) = Rows(image, FALSE)
      BY <1>3, <2>3, <2>4 DEF Rows
    <2> HIDE DEF keyed
    <2>7. Rows(after, TRUE) =
            (Rows(image, TRUE) \ keyed) \cup
            (IF keyed = {} THEN {new} ELSE {Refreshed(r, new) : r \in keyed})
      BY <2>1, <2>5
    <2> QED BY <2>6, <2>7 DEF keyed, new, EnqueueNext
  <1>5. CASE o.hit # 0
    <2> DEFINE r == rows[o.hit]
               e == Refreshed(r, new)
    <2>1. /\ o.hit \in DOMAIN rows /\ r.open /\ r.node = n /\ r.attr = a
      BY <1>5 DEF OpenRows
    <2>2. \A k \in DOMAIN rows : rows[k].open /\ rows[k].node = n /\ rows[k].attr = a => k = o.hit
      BY <1>5 DEF Unambiguous, OpenRows
    <2>3. keyed = {r}
      BY <1>2, <2>1, <2>2 DEF Rows
    <2>4. e.open = TRUE
      BY <1>1, <1>2, <2>1 DEF Refreshed, ConflictRow
    <2>5. after.conflicts = [rows EXCEPT ![o.hit] = e]
      BY <1>5 DEF Recorded
    <2> HIDE DEF e, new
    <2>6. /\ DOMAIN after.conflicts = DOMAIN rows
          /\ after.conflicts[o.hit] = e
          /\ \A k \in DOMAIN rows : k # o.hit => after.conflicts[k] = rows[k]
      <3>1. rows \in [1..Len(rows) -> ConflictRow]
        OBVIOUS
      <3> QED BY <1>1, <2>1, <2>5, <3>1
    <2>7. Rows(after, TRUE) = (Rows(image, TRUE) \ {r}) \cup {e}
      <3>1. ASSUME NEW k \in DOMAIN rows, rows[k] = r PROVE k = o.hit
        BY <2>1, <2>2, <3>1
      <3>2. \A k \in DOMAIN rows : rows[k] = r => k = o.hit
        BY <3>1
      <3> QED BY <2>1, <2>4, <2>6, <3>2 DEF Rows
    <2>8. Rows(after, FALSE) = Rows(image, FALSE)
      BY <2>1, <2>4, <2>6 DEF Rows
    <2> HIDE DEF r, keyed
    <2>9. Rows(after, TRUE) =
            (Rows(image, TRUE) \ keyed) \cup
            (IF keyed = {} THEN {new} ELSE {Refreshed(s, new) : s \in keyed})
      BY <2>3, <2>7 DEF e
    <2> QED BY <2>8, <2>9 DEF keyed, new, EnqueueNext
  <1> QED BY <1>4, <1>5

LEMMA RowsSame ==
  ASSUME NEW image, NEW other, other.conflicts = image.conflicts, NEW open
  PROVE  Rows(other, open) = Rows(image, open)
  BY DEF Rows

LEMMA RowsType ==
  ASSUME NEW image \in Image, NEW open
  PROVE  Rows(image, open) \in SUBSET ConflictRow
  <1> image.conflicts \in Seq(ConflictRow)
    BY DEF Image
  <1> QED BY ElementOfSeq DEF Rows

LEMMA EnqueueFields ==
  ASSUME NEW o, NEW p, p.seen = o.seen, p.old = o.old, p.trace = o.trace, NEW queue
  PROVE  /\ \A S : EnqueueFor(queue, p, S) = EnqueueFor(queue, o, S)
         /\ EnqueueFor(queue, o, {}) = queue
  BY DEF EnqueueFor

LEMMA StagedStep ==
  ASSUME OneStore, SoloInv, BatchInv, LockInv, NEW w \in Writers, ChangeAt(w), StagedAt(w),
         Ingest(w) \/ Edit(w) \/ Fail(w)
  PROVE  StagedAt(w)'
  <1> USE DEF Recorders, Unwritten
  <1> DEFINE o == op[w]
             Written == Recorders \cup Unwritten \cup {"commit", "edit_commit", "close_commit"}
  <1>1. LockAt(w) /\ w # NoWriter
    BY WriterIsNotNobody DEF LockInv, LockAt
  <1>2. TypeOK /\ AloneInv /\ RecordingInv /\ OpenInv
    BY DEF SoloInv, AuditInv
  <1>3. o \in Op /\ View(w) \in Image /\ disk \in Image /\ staged \in Image
    BY <1>2, OpAt, ViewType DEF TypeOK, SqliteType
  <1>4. CASE pc'[w] \notin Written
    BY <1>4 DEF StagedAt
  <1>5. CASE ReconcileNode(w)
    <2>1. /\ pc[w] = "reconcile" /\ pc'[w] \in {"find", "stage"} /\ UNCHANGED sqlite
          /\ op'[w].todo = QueuedBy(op'[w])
      BY <1>2, <1>5, IngestMoves
    <2>2. View(w)' = disk' /\ disk' = disk
      BY <1>1, <2>1, ViewIsDisk DEF View, sqlite
    <2>3. EnqueueFor(Rows(disk, TRUE), op'[w], QueuedBy(op'[w]) \ op'[w].todo) = Rows(disk, TRUE)
      BY <2>1, EnqueueFields
    <2> QED BY <2>1, <2>2, <2>3 DEF StagedAt
  <1>6. ASSUME NEW a \in Attrs, FindOpenRow(w, a) PROVE StagedAt(w)'
    <2>1. /\ pc[w] = "find" /\ pc'[w] = "record" /\ UNCHANGED sqlite
          /\ op'[w].trace = o.trace /\ op'[w].old = o.old /\ op'[w].seen = o.seen
          /\ op'[w].todo = o.todo
      BY <1>2, <1>6, IngestMoves
    <2>2. View(w)' = View(w) /\ disk' = disk
      BY <2>1 DEF View, sqlite
    <2>3. QueuedBy(op'[w]) = QueuedBy(o)
      BY <2>1, QueuedByFields
    <2>4. \A S : EnqueueFor(Rows(disk, TRUE), op'[w], S) = EnqueueFor(Rows(disk, TRUE), o, S)
      <3> DEFINE p == op'[w]
                 queue == Rows(disk, TRUE)
      <3>1. p.seen = o.seen /\ p.old = o.old /\ p.trace = o.trace
        BY <2>1
      <3> HIDE DEF p, o, queue
      <3>2. \A S : EnqueueFor(queue, p, S) = EnqueueFor(queue, o, S)
        BY <3>1, EnqueueFields
      <3> QED BY <3>2 DEF p, queue
    <2> QED BY <2>1, <2>2, <2>3, <2>4 DEF StagedAt
  <1>7. CASE RecordConflict(w)
    <2> DEFINE a == o.attr
               S == QueuedBy(o) \ o.todo
    <2>1. /\ pc[w] = "record" /\ pc'[w] \in {"find", "stage"} /\ disk' = disk /\ locker' = w
          /\ staged'.conflicts = Recorded(View(w).conflicts, o)
          /\ staged'.traces = View(w).traces
          /\ op'[w].trace = o.trace /\ op'[w].old = o.old /\ op'[w].seen = o.seen
          /\ op'[w].todo = o.todo \ {a}
      BY <1>2, <1>7, IngestMoves
    <2>2. a \in QueuedBy(o) /\ a \in o.todo
      BY <1>2, <2>1 DEF RecordingInv
    <2>3. QueuedBy(op'[w]) \ op'[w].todo = S \cup {a} /\ a \notin S
      BY <2>1, <2>2, QueuedByFields
    <2>4. /\ o.hit # 0 => o.hit \in OpenRows(View(w), o.trace.node, a)
          /\ o.hit = 0 => OpenRows(View(w), o.trace.node, a) = {}
      BY <1>2, <1>7, <2>1 DEF AloneInv, QueueInv, RecordConflict, IndexViolated
    <2>5. /\ o.trace.node \in Nodes /\ a \in Attrs /\ Unambiguous(View(w))
          /\ View(w).conflicts \in Seq(ConflictRow)
      BY <1>2, <1>3 DEF Op, Trace, OpenInv, View, Image
    <2> DEFINE before == Rows(View(w), TRUE)
    <2>6. Rows(staged', TRUE) = EnqueueNext(before, o, a) /\ Rows(staged', FALSE) = Rows(View(w), FALSE)
      <3> HIDE DEF o
      <3> QED BY <2>1, <2>4, <2>5, RecordedSet
    <2>7. before = EnqueueFor(Rows(disk, TRUE), o, S)
      BY <2>1 DEF StagedAt
    <2>8. EnqueueFor(Rows(disk, TRUE), o, S \cup {a}) = EnqueueNext(before, o, a)
      <3> DEFINE queue == Rows(disk, TRUE)
      <3>1. queue \in SUBSET ConflictRow /\ a \notin S /\ before = EnqueueFor(queue, o, S)
        BY <1>3, <2>3, <2>7, RowsType
      <3> HIDE DEF o, S, a, before, queue
      <3>2. EnqueueFor(queue, o, S \cup {a}) = EnqueueNext(before, o, a)
        BY <3>1, EnqueueOne
      <3> QED BY <3>2 DEF queue
    <2>9. EnqueueFor(Rows(disk, TRUE), op'[w], S \cup {a})
            = EnqueueFor(Rows(disk, TRUE), o, S \cup {a})
      <3> DEFINE p == op'[w]
                 queue == Rows(disk, TRUE)
                 T == S \cup {a}
      <3>1. p.seen = o.seen /\ p.old = o.old /\ p.trace = o.trace
        BY <2>1
      <3> HIDE DEF p, o, queue, T
      <3>2. EnqueueFor(queue, p, T) = EnqueueFor(queue, o, T)
        BY <3>1, EnqueueFields
      <3> QED BY <3>2 DEF p, queue, T
    <2>10. View(w)' = staged'
      BY <2>1 DEF View
    <2>11. /\ Rows(View(w)', TRUE)
                = EnqueueFor(Rows(disk', TRUE), op'[w], QueuedBy(op'[w]) \ op'[w].todo)
           /\ Rows(View(w)', FALSE) = Rows(disk', FALSE)
           /\ (View(w)').traces = disk'.traces
      <3>1. View(w).traces = disk.traces /\ Rows(View(w), FALSE) = Rows(disk, FALSE)
        BY <2>1 DEF StagedAt
      <3> HIDE DEF S, a
      <3> QED BY <2>1, <2>3, <2>6, <2>8, <2>9, <2>10, <3>1
    <2> QED BY <2>1, <2>11 DEF StagedAt
  <1>8. CASE StageTraces(w)
    <2>1. /\ pc'[w] = IF pc[w] = "stage" THEN "merge" ELSE "edit_set"
          /\ pc[w] \in {"stage", "edit_stage"} /\ op'[w] = o /\ disk' = disk
          /\ staged'.conflicts = View(w).conflicts /\ locker' = w
          /\ staged'.traces = Append(View(w).traces, o.trace)
      BY <1>2, <1>8, IngestMoves
    <2>2. View(w)' = staged'
      BY <2>1 DEF View
    <2>3. CASE pc[w] = "stage"
      <3>1. \A open : Rows(staged', open) = Rows(View(w), open)
        BY <2>1, RowsSame
      <3> QED BY <2>1, <2>2, <2>3, <3>1 DEF StagedAt
    <2>4. CASE pc[w] = "edit_stage"
      BY <1>1, <2>1, <2>4, ViewIsDisk DEF StagedAt
    <2> QED BY <2>1, <2>3, <2>4
  <1>9. CASE Merge(w) /\ UNCHANGED <<sqlite, op>> /\ pc'[w] = "commit"
    BY <1>2, <1>9, IngestMoves DEF StagedAt, sqlite
  <1>10. CASE SetNode(w) /\ ~ Abort(w)
    BY <1>2, <1>10, EditMoves DEF StagedAt, sqlite
  <1>11. CASE CloseConflict(w)
    <2>1. /\ pc[w] = "close" /\ pc'[w] = "close_commit" /\ op'[w] = o /\ disk' = disk
          /\ staged'.traces = View(w).traces
          /\ LET row == View(w).conflicts[o.resolving]
             IN staged'.conflicts = [View(w).conflicts EXCEPT
                                       ![o.resolving] = Closed(row, o.trace.facts[row.attr])]
      BY <1>2, <1>11, EditMoves
    <2>2. View(w) = disk
      BY <1>1, <2>1, ViewIsDisk
    <2> QED BY <2>1, <2>2 DEF StagedAt
  <1>12. ASSUME \/ (\E b \in Batches : SaveRecord(w, b)) \/ ReadNode(w) \/ Begins(w) \/ SaveEdit(w)
                \/ CommitNode(w) \/ CommitEdit(w) \/ CommitClose(w) \/ Quits(w)
         PROVE  StagedAt(w)'
    <2> pc'[w] \in {"read", "reconcile", "edit_source", "edit_stage", "idle", "close"}
      BY <1>2, <1>12, IngestMoves, EditMoves, BeginMoves
    <2> QED BY <1>4
  <1> QED BY <1>2, <1>5, <1>6, <1>7, <1>8, <1>9, <1>10, <1>11, <1>12, OneStoreSteps

\* A value a committed trace stands behind.
Backed(n, a, v) == \E k \in DOMAIN disk.traces : disk.traces[k].node = n /\ disk.traces[k].facts[a] = v

\* The steps of one store that write neither Neo4j nor the traces.
LEMMA WritesNothing ==
  ASSUME TypeOK, NEW w \in Writers,
         \/ \E b \in Batches : SaveRecord(w, b)
         \/ ReadNode(w) \/ ReconcileNode(w)
         \/ \E a \in Attrs : FindOpenRow(w, a)
         \/ RecordConflict(w) \/ StageTraces(w) \/ Begins(w) \/ SaveEdit(w) \/ CloseConflict(w)
         \/ CommitClose(w) \/ Quits(w)
  PROVE  UNCHANGED graph /\ pc[w] \notin {"commit", "edit_commit"}
  <1>1. ASSUME NEW b \in Batches, SaveRecord(w, b) PROVE pc[w] = "idle"
    BY <1>1 DEF SaveRecord, Start
  <1>2. ASSUME NEW b \in Batches, SaveRecord(w, b) PROVE UNCHANGED graph
    BY <1>2 DEF SaveRecord
  <1>3. ASSUME NEW a \in Attrs, FindOpenRow(w, a) PROVE UNCHANGED graph /\ pc[w] = "find"
    BY <1>3 DEF FindOpenRow
  <1>4. CASE ReadNode(w) \/ ReconcileNode(w) \/ RecordConflict(w) \/ StageTraces(w)
    BY <1>4 DEF ReadNode, ReconcileNode, RecordConflict, StageTraces
  <1>5. CASE Begins(w)
    BY <1>5, BeginMoves
  <1>6. CASE SaveEdit(w) \/ CloseConflict(w) \/ CommitClose(w) \/ Quits(w)
    BY <1>6 DEF SaveEdit, CloseConflict, CommitClose, Quits, Unwritten
  <1> QED BY <1>1, <1>2, <1>3, <1>4, <1>5, <1>6

LEMMA ValuesStep ==
  ASSUME OneStore, SoloInv, BatchInv, LockInv, ValuesTraced, NEW w \in Writers, ChangeAt(w),
         StagedAt(w), Ingest(w) \/ Edit(w) \/ Fail(w)
  PROVE  ValuesTraced'
  <1> DEFINE o == op[w]
             n == o.trace.node
             Held(m, a, v) == /\ pc[w] \in {"commit", "edit_commit"} /\ n = m /\ o.trace.facts[a] = v
  <1>1. TypeOK /\ AloneInv /\ PrefixInv /\ Effect(w)
    BY IngestEffect, EditEffect, FailEffect DEF SoloInv
  <1>2. \A u \in Writers : u = w
    BY OnlyOne DEF OneStore
  <1>3. /\ o \in Op /\ n \in Nodes /\ o.trace \in Trace /\ disk.traces \in Seq(Trace)
        /\ graph \in [Nodes -> Node] /\ o.old \in Node /\ o.old.attrs \in Attributes
        /\ o.trace.facts \in Attributes
    BY <1>1, OpAt DEF TypeOK, SqliteType, Image
  <1> SUFFICES ASSUME NEW m \in Nodes, NEW a \in Attrs, NEW v, v = graph'[m].attrs[a], v # NoValue
               PROVE  Backed(m, a, v)' \/ Held(m, a, v)'
    BY DEF ValuesTraced, Backed
  <1>4. graph[m].attrs[a] # NoValue =>
          Backed(m, a, graph[m].attrs[a]) \/ Held(m, a, graph[m].attrs[a])
    BY <1>2 DEF ValuesTraced, Backed
  <1>5. Backed(m, a, v) => Backed(m, a, v)'
    BY <1>1, TracesKept DEF Backed
  <1>6. CASE UNCHANGED graph /\ pc[w] \notin {"commit", "edit_commit"}
    BY <1>4, <1>5, <1>6
  <1>7. CASE CommitNode(w) \/ CommitEdit(w)
    <2>1. UNCHANGED graph /\ Commit(w) /\ pc[w] \in {"commit", "edit_commit"}
      BY <1>1, <1>7, EditMoves
    <2>2. disk'.traces = Append(disk.traces, o.trace)
      BY <2>1 DEF LockInv, StagedAt, Commit, View
    <2>3. ASSUME n = m, o.trace.facts[a] = v PROVE Backed(m, a, v)'
      BY <1>3, <2>2, <2>3, AppendProperties DEF Backed
    <2> QED BY <1>4, <1>5, <2>1, <2>3
  <1>8. CASE Merge(w) /\ UNCHANGED <<sqlite, op>> /\ pc'[w] = "commit"
    <2>1. pc[w] = "merge" /\ graph' = [graph EXCEPT ![n] = Merged(o)] /\ op'[w] = o
      BY <1>1, <1>8, IngestMoves
    <2>2. CASE m # n
      BY <1>3, <1>4, <1>5, <2>1, <2>2
    <2>3. CASE m = n
      <3>1. o.old = graph[n]
        BY <1>1, <2>1 DEF AloneInv, ReadInv
      <3>2. Merged(o).attrs = Reconcile(o.seen, o.old.attrs, o.trace)
        BY <1>3 DEF Merged, Node
      <3>3. graph'[m].attrs[a] \in {graph[n].attrs[a], o.trace.facts[a]}
        BY <1>3, <2>1, <2>3, <3>1, <3>2 DEF Reconcile
      <3> QED BY <1>4, <1>5, <1>8, <2>1, <2>3, <3>3
    <2> QED BY <2>2, <2>3
  <1>9. CASE SetNode(w) /\ ~ Abort(w)
    <2>1. /\ pc[w] = "edit_set" /\ pc'[w] = "edit_commit" /\ op'[w] = o
          /\ graph' = [graph EXCEPT ![n] = Edited(o)]
      BY <1>1, <1>9, EditMoves
    <2>2. CASE m # n
      BY <1>3, <1>4, <1>5, <2>1, <2>2
    <2>3. CASE m = n
      <3>1. o.old = graph[n]
        BY <2>1 DEF ChangeAt
      <3>2. Edited(o).attrs = Overlay(o.old.attrs, o.trace.facts)
        BY <1>3 DEF Edited, Node
      <3>3. graph'[m].attrs[a] \in {graph[n].attrs[a], o.trace.facts[a]}
        BY <1>3, <2>1, <2>3, <3>1, <3>2 DEF Overlay
      <3> QED BY <1>4, <1>5, <2>1, <2>3, <3>3
    <2> QED BY <2>2, <2>3
  <1> QED BY <1>1, <1>6, <1>7, <1>8, <1>9, OneStoreSteps, WritesNothing DEF SoloInv

LEMMA OneStoreInductive ==
  ASSUME OneStore
  PROVE  /\ Init => SoloInv /\ OneStoreInv
         /\ SoloInv /\ OneStoreInv /\ [Next]_vars => (SoloInv /\ OneStoreInv)'
  <1>1. (Init => SoloInv) /\ (SoloInv /\ [Next]_vars => SoloInv')
    BY SoloInductive DEF OneStore
  <1>2. ASSUME Init PROVE OneStoreInv
    <2>1. /\ \A n \in Nodes : graph[n] = NoNode
          /\ \A w \in Writers : pc[w] = "idle" /\ locker # w
      BY <1>2, WriterIsNotNobody DEF Init
    <2>2. \A a \in Attrs : NoNode.attrs[a] = NoValue
      BY DEF NoNode, Nothing
    <2> QED BY <2>1, <2>2 DEF OneStoreInv, BatchInv, ChangeInv, LockInv, StagedInv, ValuesTraced,
               Editing, Recorders, Unwritten
  <1>3. ASSUME SoloInv, OneStoreInv, [Next]_vars PROVE OneStoreInv'
    <2>1. CASE UNCHANGED vars
      <3>1. BatchInv' /\ LockInv' /\ ValuesTraced'
        BY <1>3, <2>1 DEF OneStoreInv, BatchInv, LockInv, ValuesTraced, vars
      <3>2. ChangeInv' /\ StagedInv'
        <4>1. /\ disk' = disk /\ staged' = staged /\ locker' = locker
              /\ pc' = pc /\ op' = op /\ graph' = graph
          BY <2>1 DEF vars
        <4>2. \A w : View(w)' = View(w)
          BY <4>1 DEF View
        <4> QED BY <1>3, <4>1, <4>2 DEF OneStoreInv, ChangeInv, StagedInv
      <3> QED BY <3>1, <3>2 DEF OneStoreInv
    <2>2. ASSUME NEW w \in Writers, Ingest(w) \/ Edit(w) \/ Fail(w) PROVE OneStoreInv'
      <3>1. ChangeAt(w) /\ StagedAt(w)
        BY <1>3 DEF OneStoreInv, ChangeInv, ChangeAt, StagedInv, StagedAt
      <3>2. TypeOK /\ AloneInv /\ BatchInv /\ LockInv /\ ValuesTraced
        BY <1>3 DEF SoloInv, OneStoreInv
      <3>3. ChangeAt(w)' /\ StagedAt(w)' /\ BatchInv' /\ LockInv' /\ ValuesTraced'
        BY <1>3, <2>2, <3>1, <3>2, BatchStep, LockStep, ChangeStep, StagedStep, ValuesStep
      <3>4. \A u \in Writers : u = w
        BY OnlyOne DEF OneStore
      <3>5. \A u \in Writers : ChangeAt(u)' /\ StagedAt(u)'
        BY <3>3, <3>4
      <3> QED BY <3>3, <3>5 DEF OneStoreInv, ChangeInv, ChangeAt, StagedInv, StagedAt
    <2> QED BY <1>3, <2>1, <2>2 DEF Next
  <1> QED BY <1>1, <1>2, <1>3

\* One process, records that give an id one type, and a Neo4j that at most
\* refuses statements: every value in the graph has a trace behind it, committed
\* or about to be committed by the operation that wrote it.
THEOREM ValuesHaveTraces ==
  ASSUME OneStore
  PROVE  Spec => []ValuesTraced
  <1>1. /\ Init => SoloInv /\ OneStoreInv
        /\ SoloInv /\ OneStoreInv /\ [Next]_vars => (SoloInv /\ OneStoreInv)'
    BY OneStoreInductive
  <1>2. OneStoreInv => ValuesTraced
    BY DEF OneStoreInv
  <1> QED BY <1>1, <1>2, PTL DEF Spec

-----------------------------------------------------------------------------
(* One store: the refinement *)

\* The abstract specification decides and merges as the store does.
LEMMA SameDecisions ==
  ASSUME NEW traces, NEW stored, NEW t
  PROVE  /\ Atomic!Queued(traces, stored, t) = Queued(traces, stored, t)
         /\ Atomic!Reconcile(traces, stored, t) = Reconcile(traces, stored, t)
         /\ \A a : Atomic!ConflictOf(traces, stored, t, a) = ConflictOf(traces, stored, t, a)
         /\ \A n, a : Atomic!Latest(traces, n, a) = Latest(traces, n, a)
  <1>1. \A n, a : Atomic!Matches(traces, n, a) = Matches(traces, n, a)
    BY DEF Atomic!Matches, Matches
  <1>2. \A n, a : Atomic!Latest(traces, n, a) = Latest(traces, n, a)
    BY <1>1 DEF Atomic!Latest, Latest
  <1>3. \A n, a, v : Atomic!CandidateFor(traces, n, a, v) = CandidateFor(traces, n, a, v)
    BY <1>1, <1>2 DEF Atomic!CandidateFor, CandidateFor
  <1>4. Atomic!Confidences = Confidences
    BY DEF Atomic!Confidences, Confidences
  <1>5. Atomic!Ladder = Ladder
    BY <1>4 DEF Atomic!Ladder, Ladder
  <1>6. \A e, i : Atomic!Decide(e, i) = Decide(e, i)
    BY <1>5 DEF Atomic!Decide, Decide, Atomic!SameSource, SameSource, Atomic!Pick, Pick,
       Atomic!Queue, Queue
  <1>7. \A a : Atomic!Ruling(traces, stored, t, a) = Ruling(traces, stored, t, a)
    BY <1>3, <1>6 DEF Atomic!Ruling, Ruling
  <1>8. \A facts : Atomic!Contested(stored, facts) = Contested(stored, facts)
    BY DEF Atomic!Contested, Contested
  <1>9. Atomic!Queued(traces, stored, t) = Queued(traces, stored, t)
    BY <1>7, <1>8 DEF Atomic!Queued, Queued
  <1>10. Atomic!Reconcile(traces, stored, t) = Reconcile(traces, stored, t)
    BY <1>7, <1>8 DEF Atomic!Reconcile, Reconcile
  <1>11. \A a : Atomic!ConflictOf(traces, stored, t, a) = ConflictOf(traces, stored, t, a)
    BY <1>3, <1>7 DEF Atomic!ConflictOf, ConflictOf
  <1> QED BY <1>2, <1>9, <1>10, <1>11

LEMMA SameRows ==
  /\ \A row, new : Atomic!Refreshed(row, new) = Refreshed(row, new)
  /\ \A row, value : Atomic!Closed(row, value) = Closed(row, value)
  /\ Atomic!Nothing = Nothing /\ Atomic!NoNode = NoNode
  /\ \A attrs, changes : Atomic!Overlay(attrs, changes) = Overlay(attrs, changes)
  /\ \A n, changes : Atomic!HumanTrace(n, changes) = HumanTrace(n, changes)
  <1>1. /\ \A row, new : Atomic!Refreshed(row, new) = Refreshed(row, new)
        /\ \A row, value : Atomic!Closed(row, value) = Closed(row, value)
    BY DEF Atomic!Refreshed, Refreshed, Atomic!Closed, Closed
  <1>2. Atomic!Nothing = Nothing /\ Atomic!NoNode = NoNode
    BY DEF Atomic!Nothing, Nothing, Atomic!NoNode, NoNode
  <1>3. /\ \A attrs, changes : Atomic!Overlay(attrs, changes) = Overlay(attrs, changes)
        /\ \A n, changes : Atomic!HumanTrace(n, changes) = HumanTrace(n, changes)
    BY DEF Atomic!Overlay, Overlay, Atomic!HumanTrace, HumanTrace
  <1> QED BY <1>1, <1>2, <1>3

\* The abstract queue is the one an ingest makes, of what it reads.
LEMMA SameQueue ==
  ASSUME NEW o, o.seen = Visible.traces
  PROVE  Atomic!Enqueue(o.trace, o.old.attrs) = EnqueueFor(Rows(Visible, TRUE), o, QueuedBy(o))
  <1> DEFINE queue == Rows(Visible, TRUE)
             t == o.trace
             stored == o.old.attrs
             queued == QueuedBy(o)
             new(a) == ConflictOf(o.seen, stored, t, a)
             abstract(a) == Atomic!ConflictOf(Visible.traces, stored, t, a)
             ofAttr(a) == {r \in queue : r.node = t.node /\ r.attr = a}
             row(a) == IF ofAttr(a) = {} THEN {new(a)} ELSE {Refreshed(r, new(a)) : r \in ofAttr(a)}
             other(a) == IF ofAttr(a) = {} THEN {abstract(a)}
                           ELSE {Atomic!Refreshed(r, abstract(a)) : r \in ofAttr(a)}
             rest == {r \in queue : r.node # t.node \/ r.attr \notin queued}
  <1>1. queued = Atomic!Queued(Visible.traces, stored, t)
    BY SameDecisions DEF QueuedBy
  <1>2. ASSUME NEW a PROVE abstract(a) = new(a)
    <2>1. Atomic!ConflictOf(o.seen, stored, t, a) = ConflictOf(o.seen, stored, t, a)
      BY SameDecisions
    <2> QED BY <2>1
  <1>3. \A a : other(a) = row(a)
    <2> HIDE DEF abstract, new, ofAttr
    <2> QED BY <1>2, SameRows
  <1>4. EnqueueFor(queue, o, queued) = rest \cup UNION {row(a) : a \in queued}
    BY DEF EnqueueFor
  <1>5. Atomic!Enqueue(t, stored) = rest \cup UNION {other(a) : a \in queued}
    <2> HIDE DEF queued
    <2> QED BY <1>1 DEF Atomic!Enqueue
  <1> HIDE DEF row, other, rest, queued, queue
  <1>6. {row(a) : a \in queued} = {other(a) : a \in queued}
    BY <1>3
  <1> QED BY <1>4, <1>5, <1>6 DEF queue, queued

SeesStaged(w) == pc[w] \in {"commit", "edit_commit"}

LEMMA VisibleIs ==
  ASSUME Importers = {}, LockInv, NEW w \in Writers
  PROVE  Visible = IF SeesStaged(w) THEN staged ELSE disk
  <1>1. \A u \in Writers : u = w
    BY OnlyOne
  <1> QED BY <1>1 DEF Visible, SeesStaged, LockInv

\* The steps that change what callers see.
Writes(w) ==
  \/ Merge(w) /\ UNCHANGED <<sqlite, op>> /\ pc'[w] = "commit"
  \/ SetNode(w) /\ ~ Abort(w)
  \/ CommitClose(w)

LEMMA VisibleStutters ==
  ASSUME OneStore, SoloInv, OneStoreInv, LockInv', NEW w \in Writers, Ingest(w) \/ Edit(w) \/ Fail(w),
         ~ Writes(w)
  PROVE  UNCHANGED graph /\ Visible'.traces = Visible.traces /\ Visible'.conflicts = Visible.conflicts
  <1>1. /\ TypeOK /\ AloneInv /\ LockInv /\ BatchInv /\ LockAt(w) /\ Importers = {}
    BY DEF SoloInv, OneStoreInv, LockInv, LockAt, OneStore
  <1>2. /\ Visible = IF SeesStaged(w) THEN staged ELSE disk
        /\ Visible' = IF SeesStaged(w)' THEN staged' ELSE disk'
    <2>1. Visible = IF SeesStaged(w) THEN staged ELSE disk
      BY <1>1, VisibleIs
    <2>2. \A u \in Writers : u = w
      BY <1>1, OnlyOne
    <2>3. Visible' = IF SeesStaged(w)' THEN staged' ELSE disk'
      BY <2>2 DEF Visible, SeesStaged, LockInv
    <2> QED BY <2>1, <2>3
  <1> USE DEF SeesStaged
  <1>3. CASE CommitNode(w) \/ CommitEdit(w)
    <2>1. /\ SeesStaged(w) /\ ~ SeesStaged(w)' /\ Commit(w) /\ UNCHANGED graph
      BY <1>1, <1>3, EditMoves
    <2>2. disk' = staged
      BY <1>1, <2>1 DEF Commit, View, LockAt
    <2> QED BY <1>2, <2>1, <2>2
  <1>4. ASSUME NEW b \in Batches, SaveRecord(w, b)
        PROVE  /\ UNCHANGED graph /\ Visible'.traces = Visible.traces
               /\ Visible'.conflicts = Visible.conflicts
    <2>1. /\ pc[w] = "idle" /\ pc'[w] = "read" /\ UNCHANGED graph
          /\ disk'.traces = View(w).traces /\ disk'.conflicts = View(w).conflicts
      BY <1>1, <1>4, IngestMoves DEF SaveRecord, Start
    <2> QED BY <1>1, <1>2, <2>1, ViewIsDisk
  <1>5. CASE SaveEdit(w)
    <2>1. /\ pc[w] = "edit_source" /\ pc'[w] = "edit_stage" /\ UNCHANGED graph
          /\ disk'.traces = View(w).traces /\ disk'.conflicts = View(w).conflicts
      BY <1>1, <1>5, EditMoves
    <2> QED BY <1>1, <1>2, <2>1, ViewIsDisk
  <1>6. ASSUME \/ ReadNode(w) \/ ReconcileNode(w) \/ (\E a \in Attrs : FindOpenRow(w, a))
               \/ RecordConflict(w) \/ StageTraces(w)
        PROVE  UNCHANGED <<graph, disk>> /\ ~ SeesStaged(w) /\ ~ SeesStaged(w)'
    BY <1>1, <1>6, IngestMoves DEF sqlite
  <1>7. ASSUME Begins(w) \/ CloseConflict(w) \/ Quits(w)
        PROVE  UNCHANGED <<graph, disk>> /\ ~ SeesStaged(w) /\ ~ SeesStaged(w)'
    <2>1. CASE Quits(w)
      BY <1>1, <2>1, EditMoves DEF Quits, Unwritten
    <2>2. CASE Begins(w) \/ CloseConflict(w)
      BY <1>1, <2>2, BeginMoves, EditMoves DEF sqlite
    <2> QED BY <1>7, <2>1, <2>2
  <1> QED BY <1>1, <1>2, <1>3, <1>4, <1>5, <1>6, <1>7, OneStoreSteps DEF Writes

\* MERGE is the abstract assertion of the batch.
LEMMA MergeAsserts ==
  ASSUME OneStore, SoloInv, OneStoreInv, NEW w \in Writers,
         Merge(w) /\ UNCHANGED <<sqlite, op>> /\ pc'[w] = "commit"
  PROVE  \E b \in Batches : Atomic!Assert(b)
  <1> DEFINE o == op[w]
             n == o.trace.node
             old == graph[n]
  <1>1. /\ TypeOK /\ AloneInv /\ LockInv /\ BatchInv /\ StagedInv /\ Importers = {}
    BY DEF SoloInv, OneStoreInv, OneStore
  <1>2. /\ pc[w] = "merge" /\ graph' = [graph EXCEPT ![n] = Merged(o)] /\ ~ Collides(o)
    BY <1>1, IngestMoves
  <1>3. Visible = disk /\ Visible' = staged /\ locker = w
    <2>1. Visible = disk
      BY <1>1, <1>2, VisibleIs DEF SeesStaged
    <2>2. locker = w
      BY <1>1, <1>2 DEF LockInv, Unwritten
    <2>3. Visible' = staged
      BY <2>2 DEF Visible, sqlite
    <2> QED BY <2>1, <2>2, <2>3
  <1>4. PICK b \in Batches : o.type = b.type /\ o.trace = b.trace
    BY <1>1, <1>2 DEF BatchInv
  <1>5. /\ o \in Op /\ n \in Nodes /\ old \in Node /\ graph \in [Nodes -> Node]
        /\ o.old = old /\ o.seen = disk.traces /\ o.todo = {}
    BY <1>1, <1>2, OpAt DEF TypeOK, AloneInv, ReadInv, QueueInv
  <1>6. old.type \in {b.type, NoType}
    BY <1>2, <1>4 DEF Collides
  <1>7. graph' = [graph EXCEPT ![n] = [type |-> b.type,
                                       attrs |-> Reconcile(disk.traces, old.attrs, b.trace),
                                       version |-> old.version + 1]]
    <2> DEFINE attrs == Reconcile(disk.traces, old.attrs, b.trace)
    <2>1. Merged(o) = IF old = NoNode THEN [type |-> b.type, attrs |-> attrs, version |-> 1]
                      ELSE [old EXCEPT !.attrs = attrs, !.version = old.version + 1]
      BY <1>4, <1>5 DEF Merged
    <2> HIDE DEF attrs
    <2>2. ASSUME old # NoNode PROVE old.type = b.type
      <3>1. PICK c \in Batches : c.trace.node = n /\ old.type = c.type
        BY <1>1, <1>5, <2>2 DEF BatchInv
      <3> QED BY <1>4, <3>1 DEF OneStore
    <2>3. Merged(o) = [type |-> b.type, attrs |-> attrs, version |-> old.version + 1]
      <3> HIDE DEF old, o
      <3>1. CASE old = NoNode
        BY <2>1, <3>1 DEF NoNode
      <3>2. CASE old # NoNode
        BY <1>5, <2>1, <2>2, <3>2 DEF Node
      <3> QED BY <3>1, <3>2
    <2> QED BY <1>2, <2>3 DEF attrs
  <1>8. staged.traces = Append(disk.traces, b.trace) /\ Rows(staged, FALSE) = Rows(disk, FALSE)
    BY <1>1, <1>2, <1>3, <1>4 DEF StagedInv, Unwritten, View
  <1>9. Rows(staged, TRUE) = Atomic!Enqueue(b.trace, old.attrs)
    <2>1. Rows(staged, TRUE) = EnqueueFor(Rows(disk, TRUE), o, QueuedBy(o))
      <3>1. QueuedBy(o) \ o.todo = QueuedBy(o)
        BY <1>5
      <3> QED BY <1>1, <1>2, <1>3, <3>1 DEF StagedInv, View
    <2>2. EnqueueFor(Rows(disk, TRUE), o, QueuedBy(o)) = Atomic!Enqueue(b.trace, old.attrs)
      <3>1. o.seen = Visible.traces /\ o.old.attrs = old.attrs
        BY <1>3, <1>5
      <3> HIDE DEF o, old
      <3>2. Atomic!Enqueue(o.trace, o.old.attrs) = EnqueueFor(Rows(Visible, TRUE), o, QueuedBy(o))
        BY <3>1, SameQueue
      <3> QED BY <1>3, <1>4, <3>1, <3>2
    <2> QED BY <2>1, <2>2
  <1>10. Atomic!Assert(b)
    <2> DEFINE m == b.trace.node
               stored == graph[m].attrs
    <2>1. m = n
      BY <1>4
    <2>2. graph' = [graph EXCEPT ![m] = [type |-> b.type,
                                         attrs |-> Reconcile(disk.traces, stored, b.trace),
                                         version |-> graph[m].version + 1]]
      BY <1>7, <2>1
    <2>3. Atomic!Reconcile(disk.traces, stored, b.trace) = Reconcile(disk.traces, stored, b.trace)
      BY SameDecisions
    <2>4. graph[m].type \in {b.type, NoType}
      BY <1>6, <2>1
    <2>5. /\ Visible'.traces = Append(Visible.traces, b.trace)
          /\ Rows(Visible', FALSE) = Rows(Visible, FALSE)
          /\ Rows(Visible', TRUE) = Atomic!Enqueue(b.trace, stored)
      BY <1>3, <1>8, <1>9, <2>1
    <2> HIDE DEF o, n, old
    <2> QED BY <1>3, <2>2, <2>3, <2>4, <2>5 DEF Atomic!Assert
  <1> QED BY <1>10

\* The SET of an edit is the abstract override.
LEMMA SetOverrides ==
  ASSUME OneStore, SoloInv, OneStoreInv, NEW w \in Writers, SetNode(w) /\ ~ Abort(w)
  PROVE  \E n \in Nodes, changes \in Edits \cup Atomic!Choices : Atomic!Override(n, changes)
  <1> DEFINE o == op[w]
             n == o.trace.node
             old == graph[n]
             k == o.resolving
  <1>1. /\ TypeOK /\ LockInv /\ StagedInv /\ Importers = {} /\ ChangeAt(w)
    BY DEF SoloInv, OneStoreInv, OneStore, ChangeInv, ChangeAt
  <1>2. /\ pc[w] = "edit_set" /\ pc'[w] = "edit_commit" /\ UNCHANGED sqlite /\ old # NoNode
        /\ graph' = [graph EXCEPT ![n] = Edited(o)]
    BY <1>1, EditMoves DEF Present
  <1>3. Visible = disk /\ Visible' = staged /\ locker = w
    <2>1. Visible = disk
      BY <1>1, <1>2, VisibleIs DEF SeesStaged
    <2>2. locker = w
      BY <1>1, <1>2 DEF LockInv, Unwritten
    <2>3. Visible' = staged
      BY <1>2, <2>2 DEF Visible, sqlite
    <2> QED BY <2>1, <2>2, <2>3
  <1>4. /\ o \in Op /\ n \in Nodes /\ old \in Node /\ o.old = old
        /\ disk.conflicts \in Seq(ConflictRow)
    BY <1>1, <1>2, OpAt DEF TypeOK, SqliteType, Image, ChangeAt
  <1>5. PICK changes \in Changes(disk.conflicts, o) : o.trace = HumanTrace(n, changes)
    BY <1>1, <1>2 DEF ChangeAt, Editing
  <1>6. changes \in Edits \cup Atomic!Choices
    <2>1. CASE k = 0
      BY <1>5, <2>1 DEF Changes
    <2>2. CASE k # 0
      <3>1. k \in DOMAIN disk.conflicts
        BY <1>1, <1>2, <2>2 DEF ChangeAt, Editing
      <3>2. disk.conflicts[k] \in ConflictRow
        BY <1>4, <3>1, ElementOfSeq
      <3>3. disk.conflicts[k].attr \in Attrs
        BY <3>2 DEF ConflictRow
      <3>4. Atomic!Nothing = Nothing
        BY SameRows
      <3> QED BY <1>5, <2>2, <3>3, <3>4 DEF Changes, Atomic!Choices
    <2> QED BY <2>1, <2>2
  <1>7. graph' = [graph EXCEPT ![n] = [old EXCEPT !.attrs = Overlay(old.attrs, changes),
                                                  !.version = old.version + 1]]
    <2>1. o.trace.facts = changes
      BY <1>5 DEF HumanTrace
    <2> QED BY <1>2, <1>4, <2>1 DEF Edited
  <1>8. staged.traces = Append(disk.traces, HumanTrace(n, changes)) /\ staged.conflicts = disk.conflicts
    BY <1>1, <1>2, <1>5 DEF StagedInv, Unwritten
  <1>9. Atomic!Override(n, changes)
    <2>1. \A open : Rows(staged, open) = Rows(disk, open)
      BY <1>8, RowsSame
    <2>2. /\ graph[n] # Atomic!NoNode
          /\ Atomic!Overlay(graph[n].attrs, changes) = Overlay(graph[n].attrs, changes)
          /\ Atomic!HumanTrace(n, changes) = HumanTrace(n, changes)
      BY <1>2, SameRows
    <2>3. graph' = [graph EXCEPT ![n].attrs = Overlay(graph[n].attrs, changes),
                                 ![n].version = graph[n].version + 1]
      BY <1>1, <1>4, <1>7 DEF TypeOK, Node
    <2> HIDE DEF o, n
    <2> QED BY <1>3, <1>8, <2>1, <2>2, <2>3 DEF Atomic!Override
  <1> QED BY <1>4, <1>6, <1>9

\* The last trace is the latest of the attributes it mentions.
LEMMA LastIsLatest ==
  ASSUME NEW traces \in Seq(Trace), traces # <<>>, NEW n, NEW a,
         traces[Len(traces)].node = n, traces[Len(traces)].facts[a] # NoValue
  PROVE  Latest(traces, n, a) = traces[Len(traces)]
  <1> DEFINE last == Len(traces)
             Is(k) == k \in Matches(traces, n, a) /\ \A j \in Matches(traces, n, a) : j <= k
  <1>1. last \in Nat /\ DOMAIN traces = 1..last /\ last # 0
    BY EmptySeq
  <1>2. Matches(traces, n, a) \subseteq 1..last /\ last \in Matches(traces, n, a)
    BY <1>1 DEF Matches
  <1>3. \A k \in Matches(traces, n, a) : (\A j \in Matches(traces, n, a) : j <= k) <=> k = last
    BY <1>1, <1>2
  <1>4. (CHOOSE k \in Matches(traces, n, a) : \A j \in Matches(traces, n, a) : j <= k) = last
    BY <1>2, <1>3
  <1> QED BY <1>4 DEF Latest

\* The commit of a closed row is the abstract settling of it.
LEMMA CloseSettles ==
  ASSUME OneStore, SoloInv, OneStoreInv, NEW w \in Writers, CommitClose(w)
  PROVE  \E row \in Rows(Visible, TRUE), v \in Values : Atomic!Settle(row, v)
  <1> DEFINE o == op[w]
             k == o.resolving
             rows == disk.conflicts
             row == rows[k]
             v == o.trace.facts[row.attr]
             closed == Closed(row, v)
  <1>1. /\ TypeOK /\ LockInv /\ StagedInv /\ Importers = {} /\ ChangeAt(w) /\ OpenInv
    BY DEF SoloInv, OneStoreInv, OneStore, ChangeInv, ChangeAt
  <1>2. pc[w] = "close_commit" /\ pc'[w] = "idle" /\ Commit(w) /\ UNCHANGED graph
    BY <1>1, EditMoves
  <1>3. Visible = disk /\ Visible' = staged
    <2>1. Visible = disk
      BY <1>1, <1>2, VisibleIs DEF SeesStaged
    <2>2. \A u \in Writers : u = w
      BY <1>1, OnlyOne
    <2>3. Visible' = disk'
      BY <1>2, <2>2 DEF Visible
    <2>4. disk' = staged
      BY <1>1, <1>2 DEF LockInv, Commit, View
    <2> QED BY <2>1, <2>3, <2>4
  <1>4. /\ o \in Op /\ rows \in Seq(ConflictRow) /\ disk.traces \in Seq(Trace)
    BY <1>1, OpAt DEF TypeOK, SqliteType, Image
  <1>5. /\ k # 0 /\ k \in DOMAIN rows /\ row.open /\ row.node = o.trace.node
        /\ graph[row.node].attrs[row.attr] = v
        /\ disk.traces # <<>> /\ disk.traces[Len(disk.traces)] = o.trace
    BY <1>1, <1>2 DEF ChangeAt
  <1>6. PICK changes \in Changes(rows, o) : o.trace = HumanTrace(o.trace.node, changes)
    BY <1>1, <1>2 DEF ChangeAt
  <1>7. row \in ConflictRow /\ row.attr \in Attrs /\ v \in Values
    BY <1>4, <1>5, <1>6, ChosenValue
  <1>8. Latest(disk.traces, row.node, row.attr).conf = "human"
    <2>1. o.trace.conf = "human"
      BY <1>6 DEF HumanTrace
    <2>2. v # NoValue
      BY <1>7, NormAssumption
    <2>3. Latest(disk.traces, row.node, row.attr) = disk.traces[Len(disk.traces)]
      BY <1>4, <1>5, <2>2, LastIsLatest
    <2> QED BY <1>5, <2>1, <2>3
  <1>9. staged.traces = disk.traces /\ staged.conflicts = [rows EXCEPT ![k] = closed]
    BY <1>1, <1>2 DEF StagedInv
  <1>10. closed.open = FALSE
    BY <1>7 DEF Closed, ConflictRow
  <1>11. \A j \in DOMAIN rows : rows[j].open \in BOOLEAN
    <2>1. \A j \in DOMAIN rows : rows[j] \in ConflictRow
      BY <1>4, ElementOfSeq
    <2> QED BY <2>1 DEF ConflictRow
  <1>12. \A j \in DOMAIN rows : rows[j] = row => j = k
    <2>1. \A i, j \in OpenRows(disk, row.node, row.attr) : i = j
      BY <1>1, <1>7 DEF OpenInv, Unambiguous, ConflictRow
    <2> QED BY <1>5, <2>1 DEF OpenRows
  <1>13. /\ DOMAIN staged.conflicts = DOMAIN rows
         /\ staged.conflicts[k] = closed
         /\ \A j \in DOMAIN rows : j # k => staged.conflicts[j] = rows[j]
    <2>1. rows \in [1..Len(rows) -> ConflictRow] /\ DOMAIN rows = 1..Len(rows)
      BY <1>4
    <2> HIDE DEF closed, rows
    <2> QED BY <1>5, <1>9, <2>1
  <1>14. row \in Rows(disk, TRUE)
    BY <1>5, <1>11 DEF Rows
  <1>15. Rows(staged, TRUE) = Rows(disk, TRUE) \ {row}
    <2> HIDE DEF closed, row
    <2>1. ASSUME NEW r \in Rows(staged, TRUE) PROVE r \in Rows(disk, TRUE) \ {row}
      <3>1. PICK j \in DOMAIN rows : staged.conflicts[j].open = TRUE /\ r = staged.conflicts[j]
        BY <1>13 DEF Rows
      <3>2. j # k /\ r = rows[j]
        BY <1>10, <1>13, <3>1
      <3> QED BY <1>12, <3>1, <3>2 DEF Rows
    <2>2. ASSUME NEW r \in Rows(disk, TRUE) \ {row} PROVE r \in Rows(staged, TRUE)
      <3>1. PICK j \in DOMAIN rows : rows[j].open = TRUE /\ r = rows[j]
        BY DEF Rows
      <3>2. j # k
        BY <3>1 DEF row
      <3> QED BY <1>13, <3>1, <3>2 DEF Rows
    <2> QED BY <2>1, <2>2
  <1>16. Rows(staged, FALSE) = Rows(disk, FALSE) \cup {closed}
    <2>1. row.open # FALSE
      BY <1>5
    <2> HIDE DEF closed
    <2>2. ASSUME NEW r \in Rows(staged, FALSE) PROVE r \in Rows(disk, FALSE) \cup {closed}
      <3>1. PICK j \in DOMAIN rows : staged.conflicts[j].open = FALSE /\ r = staged.conflicts[j]
        BY <1>13 DEF Rows
      <3> QED BY <1>13, <3>1 DEF Rows
    <2>3. ASSUME NEW r \in Rows(disk, FALSE) PROVE r \in Rows(staged, FALSE)
      <3>1. PICK j \in DOMAIN rows : rows[j].open = FALSE /\ r = rows[j]
        BY DEF Rows
      <3> QED BY <1>13, <2>1, <3>1 DEF Rows
    <2>4. closed \in Rows(staged, FALSE)
      BY <1>5, <1>10, <1>13 DEF Rows
    <2> QED BY <2>2, <2>3, <2>4
  <1>17. Atomic!Settle(row, v)
    <2>1. Atomic!Closed(row, v) = Closed(row, v)
      BY SameRows
    <2>2. Atomic!Latest(disk.traces, row.node, row.attr).conf = "human"
      BY <1>8, SameDecisions
    <2> HIDE DEF row, v
    <2> QED BY <1>2, <1>3, <1>5, <1>9, <1>15, <1>16, <2>1, <2>2 DEF Atomic!Settle
  <1> QED BY <1>3, <1>7, <1>14, <1>17

\* One process, records that give an id one type, and a Neo4j that at most
\* refuses statements: the two stores, which each operation changes in several
\* steps, behave to their callers as one store that changes atomically.
THEOREM OneStoreRefines ==
  ASSUME OneStore
  PROVE  Spec => ActsAsOneStore
  <1>1. /\ Init => SoloInv /\ OneStoreInv
        /\ SoloInv /\ OneStoreInv /\ [Next]_vars => (SoloInv /\ OneStoreInv)'
    BY OneStoreInductive
  <1>2. ASSUME Init PROVE Atomic!Init
    <2>1. Visible = EmptyImage
      BY <1>2 DEF Init, Visible
    <2>2. Rows(EmptyImage, TRUE) = {} /\ Rows(EmptyImage, FALSE) = {} /\ EmptyImage.traces = <<>>
      BY DEF Rows, EmptyImage
    <2> QED BY <1>2, <2>1, <2>2, SameRows DEF Init, Atomic!Init
  <1>3. SoloInv /\ OneStoreInv /\ (SoloInv /\ OneStoreInv)' /\ [Next]_vars => [Atomic!Next]_Atomic!vars
    <2> SUFFICES ASSUME SoloInv, OneStoreInv, LockInv', [Next]_vars PROVE [Atomic!Next]_Atomic!vars
      BY DEF OneStoreInv
    <2>1. ASSUME UNCHANGED graph, Visible'.traces = Visible.traces,
                 Visible'.conflicts = Visible.conflicts
          PROVE  UNCHANGED Atomic!vars
      BY <2>1 DEF Atomic!vars, Rows
    <2>2. CASE UNCHANGED vars
      <3>1. Visible' = Visible
        BY <2>2 DEF vars, Visible
      <3> QED BY <2>1, <2>2, <3>1 DEF vars
    <2>3. ASSUME NEW w \in Writers, Ingest(w) \/ Edit(w) \/ Fail(w) PROVE [Atomic!Next]_Atomic!vars
      <3>1. CASE ~ Writes(w)
        BY <2>1, <2>3, <3>1, VisibleStutters
      <3>2. CASE Merge(w) /\ UNCHANGED <<sqlite, op>> /\ pc'[w] = "commit"
        <4>1. \E b \in Batches : Atomic!Assert(b)
          BY <3>2, MergeAsserts
        <4>2. Atomic!Next
          BY <4>1 DEF Atomic!Next
        <4> QED BY <4>2
      <3>3. CASE SetNode(w) /\ ~ Abort(w)
        <4>1. \E n \in Nodes, changes \in Edits \cup Atomic!Choices : Atomic!Override(n, changes)
          BY <3>3, SetOverrides
        <4>2. Atomic!Next
          BY <4>1 DEF Atomic!Next
        <4> QED BY <4>2
      <3>4. CASE CommitClose(w)
        <4>1. \E row \in Rows(Visible, TRUE), v \in Values : Atomic!Settle(row, v)
          BY <3>4, CloseSettles
        <4>2. Atomic!Next
          BY <4>1 DEF Atomic!Next
        <4> QED BY <4>2
      <3> QED BY <3>1, <3>2, <3>3, <3>4 DEF Writes
    <2> QED BY <2>2, <2>3 DEF Next
  <1> QED BY <1>1, <1>2, <1>3, PTL DEF Spec, ActsAsOneStore, Atomic!Spec
=============================================================================
