------------------------------ MODULE IngestProofs ------------------------------
(***************************************************************************)
(* Theorems about Ingest, for any processes, spec versions, contents and   *)
(* source files: the type invariant, and the three safety invariants that  *)
(* relate the ledger, the dead letters and the run rows to the store and   *)
(* to the files that were read.                                            *)
(***************************************************************************)
EXTENDS Ingest, ConflictDecisionProofs

\* The items of a sequence are its head and the items of its tail.
LEMMA HeadAndTail ==
  ASSUME NEW S, NEW s \in Seq(S), s # <<>>
  PROVE  /\ Head(s) \in S /\ Tail(s) \in Seq(S)
         /\ ToSet(s) = {Head(s)} \cup ToSet(Tail(s))
  <1>1. Head(s) \in S /\ Tail(s) \in Seq(S) /\ Len(Tail(s)) = Len(s) - 1
        /\ \A i \in 1..Len(Tail(s)) : Tail(s)[i] = s[i + 1]
    BY HeadTailProperties
  <1>2. Head(s) = s[1] /\ Len(s) \in Nat /\ Len(s) > 0 /\ DOMAIN s = 1..Len(s)
        /\ DOMAIN Tail(s) = 1..Len(Tail(s))
    BY <1>1
  <1>3. ASSUME NEW x \in ToSet(s)  PROVE x \in {Head(s)} \cup ToSet(Tail(s))
    <2>1. PICK i \in 1..Len(s) : x = s[i]
      BY <1>2 DEF ToSet
    <2>2. CASE i = 1
      BY <2>1, <2>2, <1>2
    <2>3. CASE i # 1
      <3>1. i - 1 \in 1..Len(Tail(s)) /\ Tail(s)[i - 1] = s[i]
        BY <2>3, <1>1, <1>2
      <3> QED BY <3>1, <2>1, <1>2 DEF ToSet
    <2> QED BY <2>2, <2>3
  <1>4. ASSUME NEW x \in {Head(s)} \cup ToSet(Tail(s))  PROVE x \in ToSet(s)
    <2>1. CASE x = Head(s)
      BY <2>1, <1>2 DEF ToSet
    <2>2. CASE x \in ToSet(Tail(s))
      <3>1. PICK i \in 1..Len(Tail(s)) : x = Tail(s)[i]
        BY <2>2, <1>2 DEF ToSet
      <3>2. i + 1 \in 1..Len(s) /\ x = s[i + 1]
        BY <3>1, <1>1, <1>2
      <3> QED BY <3>2, <1>2 DEF ToSet
    <2> QED BY <2>1, <2>2
  <1> QED BY <1>1, <1>3, <1>4

LEMMA AppendItems ==
  ASSUME NEW S, NEW s \in Seq(S), NEW e \in S
  PROVE  /\ Append(s, e) \in Seq(S)
         /\ DOMAIN Append(s, e) = (DOMAIN s) \cup {Len(s) + 1}
         /\ \A k \in DOMAIN s : Append(s, e)[k] = s[k]
         /\ Append(s, e)[Len(s) + 1] = e
  <1>1. Len(s) \in Nat /\ DOMAIN s = 1..Len(s)
    OBVIOUS
  <1>2. Append(s, e) \in Seq(S) /\ Len(Append(s, e)) = Len(s) + 1
        /\ (\A k \in 1..Len(s) : Append(s, e)[k] = s[k]) /\ Append(s, e)[Len(s) + 1] = e
    BY AppendProperties
  <1>3. DOMAIN Append(s, e) = 1..(Len(s) + 1)
    BY <1>2
  <1>4. 1..(Len(s) + 1) = 1..Len(s) \cup {Len(s) + 1}
    BY <1>1
  <1> QED BY <1>1, <1>2, <1>3, <1>4

LEMMA TallyUp ==
  ASSUME NEW t \in Tally, NEW count \in {"in", "out", "skipped", "dead"}
  PROVE  /\ [t EXCEPT ![count] = @ + 1] \in Tally
         /\ [t EXCEPT ![count] = @ + 1][count] = t[count] + 1
  BY DEF Tally

LEMMA TallyIn ==
  ASSUME NEW t \in Tally
  PROVE  /\ [t EXCEPT !.in = @ + 1] \in Tally
         /\ [t EXCEPT !.in = @ + 1].in = t.in + 1
         /\ [t EXCEPT !.in = @ + 1].out = t.out
         /\ [t EXCEPT !.in = @ + 1].skipped = t.skipped
         /\ [t EXCEPT !.in = @ + 1].dead = t.dead
  BY DEF Tally

LEMMA TallyFields ==
  ASSUME NEW t \in Tally
  PROVE  t.in \in Nat /\ t.out \in Nat /\ t.skipped \in Nat /\ t.dead \in Nat
  BY DEF Tally

LEMMA IdleType == Idle \in Job
  <1>1. (CHOOSE v \in Versions : TRUE) \in Versions
    BY IngestAssumption
  <1>2. <<>> \in Seq(Contents) /\ <<>> \in Seq(Writes) /\ <<>> \in Seq(Seq(Writes))
    OBVIOUS
  <1> QED BY <1>1, <1>2 DEF Idle, Job, Zero, Tally

\* The writes of a content and of its blocks are what a job can hold.
LEMMA ContentParts ==
  ASSUME NEW c \in Contents
  PROVE  /\ c.record \in Records /\ c.identified \in BOOLEAN
         /\ c.mapped \in Seq(Writes) /\ c.blocks \in Seq(Seq(Writes))
  BY IngestAssumption DEF Content

(* The store of Ingest decides with the operators of ConflictDecision. *)

LEMMA StoreDecide ==
  ASSUME NEW e, NEW i
  PROVE  Store!Decide(e, i) = Decide(e, i)
  BY DEF Store!Decide, Decide, Store!Ladder, Ladder, Store!Confidences, Confidences,
         Store!Pick, Pick, Store!Queue, Queue, Store!SameSource, SameSource

LEMMA StoreCandidateFor ==
  ASSUME NEW ts, NEW n, NEW a, NEW value
  PROVE  Store!CandidateFor(ts, n, a, value) = CandidateFor(ts, n, a, value)
  BY DEF Store!CandidateFor, CandidateFor, Store!Matches, Matches, Store!Latest, Latest

LEMMA StoreRuling ==
  ASSUME NEW ts, NEW stored, NEW t, NEW a
  PROVE  Store!Ruling(ts, stored, t, a) = Ruling(ts, stored, t, a)
  BY StoreDecide, StoreCandidateFor DEF Store!Ruling, Ruling

LEMMA StoreQueued ==
  ASSUME NEW ts, NEW stored, NEW t
  PROVE  Store!Queued(ts, stored, t) = Queued(ts, stored, t)
  BY StoreRuling DEF Store!Queued, Queued, Store!Contested, Contested

LEMMA StoreConflictOf ==
  ASSUME NEW ts, NEW stored, NEW t, NEW a
  PROVE  Store!ConflictOf(ts, stored, t, a) = ConflictOf(ts, stored, t, a)
  BY StoreRuling, StoreCandidateFor DEF Store!ConflictOf, ConflictOf

LEMMA StoreReconcile ==
  ASSUME NEW ts, NEW stored, NEW t
  PROVE  Store!Reconcile(ts, stored, t) = Reconcile(ts, stored, t)
  BY StoreRuling DEF Store!Reconcile, Reconcile, Store!Contested, Contested

(* The types of the store *)

\* The conflicts an assertion puts in the queue are rows of the table.
LEMMA EnqueueType ==
  ASSUME NEW b \in Batch, StoreType
  PROVE  Store!Enqueue(b.trace, graph[b.trace.node].attrs) \subseteq ConflictRow
  <1> DEFINE t == b.trace
             stored == graph[t.node].attrs
  <1>1. t \in Trace /\ t.node \in Nodes /\ stored \in Attributes /\ traces \in Seq(Trace)
    BY DEF Batch, Trace, StoreType, Node
  <1>2. \A a \in Queued(traces, stored, t) : ConflictOf(traces, stored, t, a) \in ConflictRow
    BY <1>1, ConflictOfType
  <1>3. ASSUME NEW a \in Queued(traces, stored, t), NEW r \in queue
        PROVE  Refreshed(r, ConflictOf(traces, stored, t, a)) \in ConflictRow
    BY <1>2, RefreshedType DEF StoreType
  <1> HIDE DEF t, stored
  <1>4. Store!Queued(traces, stored, t) = Queued(traces, stored, t)
        /\ (\A a : Store!ConflictOf(traces, stored, t, a) = ConflictOf(traces, stored, t, a))
    BY StoreQueued, StoreConflictOf
  <1>5. \A r, new : Store!Refreshed(r, new) = Refreshed(r, new)
    BY DEF Store!Refreshed, Refreshed
  <1> QED BY <1>2, <1>3, <1>4, <1>5 DEF Store!Enqueue, StoreType, t, stored

LEMMA AssertType ==
  ASSUME NEW b \in Batch, StoreType, Store!Assert(b), UNCHANGED <<edges, sources>>
  PROVE  StoreType' /\ traces' = Append(traces, b.trace)
  <1>1. b.trace \in Trace /\ b.trace.node \in Nodes /\ b.type \in Types
    BY DEF Batch, Trace
  <1>2. graph[b.trace.node] \in Node /\ graph[b.trace.node].attrs \in Attributes
        /\ graph[b.trace.node].version \in Nat
    BY <1>1 DEF StoreType, Node
  <1>3. Reconcile(traces, graph[b.trace.node].attrs, b.trace) \in Attributes
    BY <1>1, <1>2, ReconcileType
  <1>4. graph' \in [Nodes -> Node]
    <2> DEFINE new == [type |-> b.type,
                       attrs |-> Reconcile(traces, graph[b.trace.node].attrs, b.trace),
                       version |-> graph[b.trace.node].version + 1]
    <2>1. new \in Node
      BY <1>1, <1>2, <1>3 DEF Node
    <2>2. graph' = [graph EXCEPT ![b.trace.node] = new]
      BY StoreReconcile DEF Store!Assert
    <2> QED BY <2>1, <2>2 DEF StoreType
  <1>5. traces' = Append(traces, b.trace) /\ traces' \in Seq(Trace)
    BY <1>1, AppendProperties DEF Store!Assert, StoreType
  <1>6. queue' \subseteq ConflictRow
    BY EnqueueType DEF Store!Assert
  <1> QED BY <1>4, <1>5, <1>6 DEF Store!Assert, StoreType
(* The types of a job and of the rows *)

\* A record taken from the front of what is left to do.
LEMMA HandType ==
  ASSUME TypeOK, NEW p \in Processes, job[p].todo # <<>>
  PROVE  /\ InHand(p) \in Contents /\ Tail(job[p].todo) \in Seq(Contents)
         /\ ToSet(job[p].todo) = {InHand(p)} \cup ToSet(Tail(job[p].todo))
         /\ Len(Tail(job[p].todo)) = Len(job[p].todo) - 1
  <1>1. job[p].todo \in Seq(Contents)
    BY DEF TypeOK, JobType, Job
  <1> QED BY <1>1, HeadAndTail, HeadTailProperties DEF InHand

\* A job that fits the rows keeps the jobs well typed.
LEMMA JobSet ==
  ASSUME TypeOK, NEW p \in Processes, NEW j \in Job,
         job' = [job EXCEPT ![p] = j], DOMAIN runs \subseteq DOMAIN runs',
         j.run \in {0} \cup DOMAIN runs',
         j.at = "apply" => j.todo # <<>>, j.at = "next" => j.run # 0
  PROVE  JobType'
  BY DEF TypeOK, JobType

LEMMA PastType ==
  ASSUME NEW j \in Job, j.todo # <<>>,
         NEW count \in {"out", "skipped", "dead"}
  PROVE  /\ Past(j, count) \in Job
         /\ Past(j, count).at = "next" /\ Past(j, count).run = j.run
         /\ Past(j, count).version = j.version /\ Past(j, count).todo = Tail(j.todo)
         /\ Past(j, count).writes = <<>> /\ Past(j, count).blocks = <<>>
         /\ Past(j, count).tally = [j.tally EXCEPT ![count] = @ + 1]
  <1>1. Tail(j.todo) \in Seq(Contents)
    BY HeadAndTail DEF Job
  <1>2. [j.tally EXCEPT ![count] = @ + 1] \in Tally
    BY TallyUp DEF Job
  <1>3. <<>> \in Seq(Writes) /\ <<>> \in Seq(Seq(Writes))
    OBVIOUS
  <1> QED BY <1>1, <1>2, <1>3 DEF Job, Past

LEMMA AdvanceType ==
  ASSUME TypeOK, NEW p \in Processes, NEW count \in {"out", "dead"},
         job[p].at = "apply", job[p].run # 0, Advance(p, count), DOMAIN runs' = DOMAIN runs
  PROVE  JobType'
  <1>1. job[p] \in Job /\ job[p].todo # <<>> /\ job[p].run \in {0} \cup DOMAIN runs
    BY DEF TypeOK, JobType
  <1>2. Past(job[p], count) \in Job /\ Past(job[p], count).run = job[p].run
        /\ Past(job[p], count).at = "next"
    BY <1>1, PastType
  <1> QED BY <1>1, <1>2, JobSet DEF Advance

LEMMA QuitType ==
  ASSUME TypeOK, NEW p \in Processes, Quit(p), DOMAIN runs' = DOMAIN runs
  PROVE  JobType'
  <1>1. Idle.at = "idle" /\ Idle.run = 0
    BY DEF Idle
  <1> QED BY <1>1, IdleType, JobSet DEF Quit

LEMMA BeginType ==
  ASSUME TypeOK, NEW p \in Processes, NEW j \in Job, NEW c \in Contents,
         Begin(p, j, c), j.todo # <<>>, j.run \in {0} \cup DOMAIN runs,
         UNCHANGED <<graph, traces, queue, settled, edges, runs>>
  PROVE  StoreType' /\ JobType'
  <1> DEFINE new == [j EXCEPT !.at = "apply", !.writes = c.mapped, !.blocks = c.blocks]
  <1>1. c.mapped \in Seq(Writes) /\ c.blocks \in Seq(Seq(Writes)) /\ c.record \in Records
    BY ContentParts
  <1>2. new \in Job /\ new.run = j.run /\ new.todo = j.todo /\ new.at = "apply"
    BY <1>1 DEF Job
  <1>3. job' = [job EXCEPT ![p] = new]
    BY DEF Begin
  <1> HIDE DEF new
  <1>4. JobType'
    BY <1>2, <1>3, JobSet
  <1>5. StoreType'
    BY <1>1 DEF Begin, TypeOK, StoreType
  <1> QED BY <1>4, <1>5

\* Closing a row changes its status and its counts and nothing else.
LEMMA CloseRunType ==
  ASSUME TypeOK, NEW p \in Processes, job[p].run # 0,
         NEW status \in {"completed", "failed"}, CloseRun(p, status)
  PROVE  /\ runs' \in Seq(RunRow) /\ DOMAIN runs' = DOMAIN runs
         /\ job[p].run \in DOMAIN runs
         /\ runs'[job[p].run] = [runs[job[p].run] EXCEPT !.status = status, !.tally = job[p].tally]
         /\ \A r \in DOMAIN runs : r # job[p].run => runs'[r] = runs[r]
  <1> DEFINE row == [runs[job[p].run] EXCEPT !.status = status, !.tally = job[p].tally]
  <1>1. runs \in Seq(RunRow) /\ job[p].run \in DOMAIN runs /\ job[p].tally \in Tally
    BY DEF TypeOK, RunsType, JobType, Job
  <1>2. runs[job[p].run] \in RunRow
    BY <1>1, ElementOfSeq
  <1>3. row \in RunRow
    BY <1>1, <1>2 DEF RunRow
  <1>4. runs' = [runs EXCEPT ![job[p].run] = row]
    BY DEF CloseRun
  <1>5. runs' \in Seq(RunRow) /\ DOMAIN runs' = DOMAIN runs
        /\ \A r \in DOMAIN runs : runs'[r] = IF r = job[p].run THEN row ELSE runs[r]
    <2> HIDE DEF row
    <2>1. DOMAIN runs = 1..Len(runs)
      BY <1>1
    <2> QED BY <1>1, <1>3, <1>4, <2>1, ExceptSeq
  <1> QED BY <1>1, <1>5

(* The type invariant, action by action *)

LEMMA InitType == Init => TypeOK
  <1> SUFFICES ASSUME Init PROVE TypeOK
    OBVIOUS
  <1>1. StoreType
    BY DEF Init, Store!Init, StoreType, Node, Store!NoNode, Store!Nothing, Attributes
  <1>2. RunsType
    <2>1. DOMAIN runs = {}
      BY DEF Init
    <2> QED BY <2>1, IngestAssumption DEF Init, RunsType
  <1>3. JobType
    BY IdleType DEF Init, JobType, Idle
  <1> QED BY <1>1, <1>2, <1>3 DEF TypeOK

LEMMA RunType ==
  ASSUME TypeOK, NEW p \in Processes, NEW v \in Versions, NEW limit \in 0..Len(file),
         Run(p, v, limit)
  PROVE  /\ TypeOK'
         /\ SubSeq(file, 1, limit) \in Seq(Contents)
         /\ DOMAIN runs' = (DOMAIN runs) \cup {Len(runs) + 1}
         /\ \A r \in DOMAIN runs : runs'[r] = runs[r]
         /\ runs'[Len(runs) + 1] = [status |-> "running", version |-> v,
                                    input |-> SubSeq(file, 1, limit), tally |-> Zero]
  <1> DEFINE input == SubSeq(file, 1, limit)
             row == [status |-> "running", version |-> v, input |-> input, tally |-> Zero]
             j == [Idle EXCEPT !.at = "next", !.version = v, !.run = Len(runs) + 1,
                               !.todo = input]
  <1>1. file \in Seq(Contents) /\ runs \in Seq(RunRow) /\ limit \in Nat /\ limit <= Len(file)
    BY IngestAssumption DEF TypeOK, RunsType
  <1>2. input \in Seq(Contents)
    <2>1. \A i \in 1..limit : file[i] \in Contents
      BY <1>1
    <2> QED BY <1>1, <2>1, SubSeqProperties
  <1>3. row \in RunRow
    BY <1>2 DEF RunRow, Tally, Zero
  <1>4. j \in Job /\ j.run = Len(runs) + 1 /\ j.at = "next" /\ j.run # 0
    <2>1. Len(runs) + 1 \in Nat /\ Len(runs) + 1 # 0
      BY <1>1
    <2> HIDE DEF input
    <2> QED BY <1>2, <2>1, IdleType DEF Job
  <1>5. runs' = Append(runs, row) /\ job' = [job EXCEPT ![p] = j]
    BY DEF Run
  <1> HIDE DEF row, j
  <1>6. runs' \in Seq(RunRow) /\ DOMAIN runs' = (DOMAIN runs) \cup {Len(runs) + 1}
        /\ (\A r \in DOMAIN runs : runs'[r] = runs[r]) /\ runs'[Len(runs) + 1] = row
    BY <1>1, <1>3, <1>5, AppendItems
  <1>7. JobType'
    BY <1>1, <1>4, <1>5, <1>6, JobSet
  <1>8. StoreType'
    BY DEF Run, store, TypeOK, StoreType
  <1>9. RunsType'
    <2>1. started' \in 0..MaxOps
      BY IngestAssumption DEF Run, Start, TypeOK, RunsType
    <2> QED BY <1>6, <2>1 DEF Run, TypeOK, RunsType
  <1> QED BY <1>2, <1>6, <1>7, <1>8, <1>9 DEF TypeOK, row

LEMMA TakeType ==
  ASSUME TypeOK, NEW p \in Processes, Take(p)
  PROVE  TypeOK'
  <1> DEFINE j == [job[p] EXCEPT !.tally.in = @ + 1]
             c == InHand(p)
  <1>1. job[p] \in Job /\ job[p].todo # <<>> /\ job[p].run \in DOMAIN runs /\ job[p].run # 0
    BY DEF Take, TypeOK, JobType
  <1>2. c \in Contents /\ Tail(job[p].todo) \in Seq(Contents)
    BY <1>1, HandType
  <1>3. j \in Job /\ j.run = job[p].run /\ j.todo = job[p].todo /\ j.at = "next"
    BY <1>1, TallyUp DEF Job, Take, Tally
  <1>4. ASSUME NEW count \in {"dead", "skipped"}
        PROVE  /\ Past(j, count) \in Job /\ Past(j, count).run = job[p].run
               /\ Past(j, count).at = "next"
    <2> HIDE DEF j
    <2> QED BY <1>1, <1>3, PastType
  <1>5. CASE ~ c.identified
    <2>1. dead' = dead \cup {<<j.run, c>>} /\ job' = [job EXCEPT ![p] = Past(j, "dead")]
          /\ UNCHANGED <<store, edges, sources, ledger, runs, file, started>>
      BY <1>5 DEF Take
    <2>2. JobType'
      BY <1>1, <1>4, <2>1, JobSet
    <2>3. RunsType'
      BY <1>1, <1>2, <1>3, <2>1 DEF TypeOK, RunsType
    <2> QED BY <2>1, <2>2, <2>3 DEF TypeOK, StoreType, store
  <1>6. CASE c.identified /\ AlreadySeen(j.version, c)
    <2>1. job' = [job EXCEPT ![p] = Past(j, "skipped")]
          /\ UNCHANGED <<store, edges, sources, ledger, dead, runs, file, started>>
      BY <1>6 DEF Take
    <2>2. JobType'
      BY <1>1, <1>4, <2>1, JobSet
    <2> QED BY <2>1, <2>2 DEF TypeOK, RunsType, StoreType, store
  <1>7. CASE c.identified /\ ~ AlreadySeen(j.version, c)
    <2>1. Begin(p, j, c)
          /\ UNCHANGED <<store, edges, ledger, dead, runs, file, started>>
      BY <1>7 DEF Take
    <2>2. StoreType' /\ JobType'
      <3> HIDE DEF j, c
      <3> QED BY <1>1, <1>2, <1>3, <2>1, BeginType DEF store
    <2> QED BY <2>1, <2>2 DEF TypeOK, RunsType
  <1> QED BY <1>5, <1>6, <1>7 DEF Take

LEMMA CompleteType ==
  ASSUME TypeOK, NEW p \in Processes, Complete(p)
  PROVE  TypeOK'
  <1>1. job[p].run # 0
    BY DEF Complete, TypeOK, JobType
  <1>2. runs' \in Seq(RunRow) /\ DOMAIN runs' = DOMAIN runs
    BY <1>1, CloseRunType DEF Complete
  <1>3. JobType'
    BY <1>2, QuitType DEF Complete
  <1> QED BY <1>2, <1>3 DEF Complete, TypeOK, StoreType, RunsType, store

LEMMA PushType ==
  ASSUME TypeOK, NEW v \in Versions, NEW c \in Contents, Push(v, c)
  PROVE  TypeOK'
  <1>1. started' \in 0..MaxOps
    BY IngestAssumption DEF Push, Start, TypeOK, RunsType
  <1>2. RunsType'
    BY <1>1 DEF Push, control, TypeOK, RunsType
  <1>3. CASE AlreadySeen(v, c)
    BY <1>2, <1>3 DEF Push, control, store, TypeOK, StoreType, JobType
  <1>4. CASE ~ AlreadySeen(v, c)
    <2> DEFINE j == [Idle EXCEPT !.version = v, !.todo = <<c>>]
    <2>1. j \in Job /\ j.run = 0 /\ j.todo # <<>>
      <3>1. Idle.run = 0
        BY DEF Idle
      <3>2. <<c>> \in Seq(Contents) /\ <<c>> # <<>>
        OBVIOUS
      <3> QED BY <3>1, <3>2, IdleType DEF Job
    <2>2. Begin(Api, j, c) /\ UNCHANGED <<store, edges, control, file>>
      BY <1>4 DEF Push
    <2> HIDE DEF j
    <2>3. StoreType' /\ JobType'
      BY <2>1, <2>2, BeginType DEF store, control, Processes
    <2> QED BY <1>2, <2>3 DEF TypeOK
  <1> QED BY <1>3, <1>4

LEMMA WrittenType ==
  ASSUME TypeOK, NEW p \in Processes, job[p].at = "apply", job[p].writes # <<>>,
         Written(p), DOMAIN runs' = DOMAIN runs
  PROVE  /\ JobType' /\ Head(job[p].writes) \in Writes
         /\ ToSet(job[p].writes) = {Head(job[p].writes)} \cup ToSet(Tail(job[p].writes))
  <1> DEFINE j == [job[p] EXCEPT !.writes = Tail(@)]
  <1>1. job[p] \in Job /\ job[p].todo # <<>> /\ job[p].run \in {0} \cup DOMAIN runs
    BY DEF TypeOK, JobType
  <1>2. Head(job[p].writes) \in Writes /\ Tail(job[p].writes) \in Seq(Writes)
        /\ ToSet(job[p].writes) = {Head(job[p].writes)} \cup ToSet(Tail(job[p].writes))
    BY <1>1, HeadAndTail DEF Job
  <1>3. j \in Job /\ j.run = job[p].run /\ j.todo = job[p].todo /\ j.at = "apply"
    BY <1>1, <1>2 DEF Job
  <1>4. job' = [job EXCEPT ![p] = j]
    BY DEF Written
  <1> HIDE DEF j
  <1> QED BY <1>1, <1>2, <1>3, <1>4, JobSet

\* A write that names a node is a node write.
LEMMA WriteKinds ==
  ASSUME NEW wr \in Writes
  PROVE  /\ wr.does = "node" => wr.batch \in Batch
         /\ wr.does = "edge" => wr.from \in Nodes /\ wr.to \in Nodes
  BY DEF Writes, NodeWrite, EdgeWrite, Malformed

LEMMA ApplyNodeType ==
  ASSUME TypeOK, NEW p \in Processes, ApplyNode(p)
  PROVE  TypeOK' /\ traces' = Append(traces, Head(job[p].writes).batch.trace)
  <1>1. JobType' /\ Head(job[p].writes) \in Writes
    BY WrittenType DEF ApplyNode, Applying, control
  <1>2. Head(job[p].writes).batch \in Batch
    BY <1>1, WriteKinds DEF ApplyNode, Applying
  <1>3. StoreType' /\ traces' = Append(traces, Head(job[p].writes).batch.trace)
    BY <1>2, AssertType DEF ApplyNode, TypeOK
  <1> QED BY <1>1, <1>3 DEF ApplyNode, TypeOK, RunsType, control

LEMMA ApplyEdgeType ==
  ASSUME TypeOK, NEW p \in Processes, ApplyEdge(p)
  PROVE  TypeOK'
  <1>1. JobType' /\ Head(job[p].writes) \in Writes
    BY WrittenType DEF ApplyEdge, Applying, control
  <1>2. Head(job[p].writes).from \in Nodes /\ Head(job[p].writes).to \in Nodes
    BY <1>1, WriteKinds DEF ApplyEdge, Applying
  <1>3. InHand(p).record \in Records
    BY HandType, ContentParts DEF ApplyEdge, Applying, TypeOK, JobType
  <1>4. StoreType'
    BY <1>2, <1>3 DEF ApplyEdge, TypeOK, StoreType, store
  <1> QED BY <1>1, <1>4 DEF ApplyEdge, TypeOK, RunsType, control

LEMMA DeadLetterType ==
  ASSUME TypeOK, NEW p \in Processes, DeadLetter(p)
  PROVE  TypeOK'
  <1>1. job[p].todo # <<>> /\ job[p].run \in {0} \cup DOMAIN runs /\ job[p].at = "apply"
    BY DEF DeadLetter, Applying, TypeOK, JobType
  <1>2. InHand(p) \in Contents
    BY <1>1, HandType
  <1>3. JobType'
    BY <1>1, QuitType, AdvanceType DEF DeadLetter
  <1>4. dead' \subseteq (DOMAIN runs) \X Contents
    BY <1>1, <1>2 DEF DeadLetter, TypeOK, RunsType
  <1> QED BY <1>3, <1>4 DEF DeadLetter, TypeOK, StoreType, RunsType, store

LEMMA CallLLMType ==
  ASSUME TypeOK, NEW p \in Processes, CallLLM(p)
  PROVE  TypeOK'
  <1>1. job[p] \in Job /\ job[p].todo # <<>> /\ job[p].run \in {0} \cup DOMAIN runs
        /\ job[p].at = "apply" /\ job[p].blocks # <<>>
    BY DEF CallLLM, TypeOK, JobType
  <1>2. PICK answer \in {Head(job[p].blocks), <<>>} :
          job' = [job EXCEPT ![p].writes = answer, ![p].blocks = Tail(@)]
    BY DEF CallLLM
  <1> DEFINE j == [job[p] EXCEPT !.writes = answer, !.blocks = Tail(@)]
  <1>3. answer \in Seq(Writes) /\ Tail(job[p].blocks) \in Seq(Seq(Writes))
    <2>1. job[p].blocks \in Seq(Seq(Writes))
      BY <1>1 DEF Job
    <2>2. Head(job[p].blocks) \in Seq(Writes) /\ Tail(job[p].blocks) \in Seq(Seq(Writes))
      BY <1>1, <2>1, HeadTailProperties
    <2>3. <<>> \in Seq(Writes)
      OBVIOUS
    <2> QED BY <2>2, <2>3
  <1>4. j \in Job /\ j.run = job[p].run /\ j.todo = job[p].todo /\ j.at = "apply"
    BY <1>1, <1>3 DEF Job
  <1>5. job' = [job EXCEPT ![p] = j]
    BY <1>2 DEF TypeOK, JobType
  <1> HIDE DEF j
  <1>6. JobType'
    BY <1>1, <1>4, <1>5, JobSet DEF CallLLM, control
  <1> QED BY <1>6 DEF CallLLM, TypeOK, StoreType, RunsType, store, control

LEMMA MarkSeenType ==
  ASSUME TypeOK, NEW p \in Processes, MarkSeen(p)
  PROVE  TypeOK'
  <1>1. job[p].todo # <<>> /\ job[p].at = "apply" /\ job[p].version \in Versions
    BY DEF MarkSeen, TypeOK, JobType, Job
  <1>2. <<job[p].version, InHand(p)>> \in Versions \X Contents
    BY <1>1, HandType
  <1>3. JobType'
    BY <1>1, QuitType, AdvanceType DEF MarkSeen
  <1>4. ledger' \subseteq Versions \X Contents
    BY <1>2 DEF MarkSeen, TypeOK, RunsType
  <1> QED BY <1>3, <1>4 DEF MarkSeen, TypeOK, StoreType, RunsType, store

LEMMA FailType ==
  ASSUME TypeOK, NEW p \in Processes, Fail(p)
  PROVE  TypeOK'
  <1>1. runs' \in Seq(RunRow) /\ DOMAIN runs' = DOMAIN runs
    <2>1. CASE job[p].run = 0
      BY <2>1 DEF Fail, TypeOK, RunsType
    <2>2. CASE job[p].run # 0
      BY <2>2, CloseRunType DEF Fail
    <2> QED BY <2>1, <2>2
  <1>2. JobType'
    BY <1>1, QuitType DEF Fail
  <1> QED BY <1>1, <1>2 DEF Fail, TypeOK, StoreType, RunsType, store

LEMMA CrashType ==
  ASSUME TypeOK, NEW p \in Processes, Crash(p)
  PROVE  TypeOK'
  <1>1. JobType'
    BY QuitType DEF Crash, control
  <1> QED BY <1>1 DEF Crash, TypeOK, StoreType, RunsType, store, control

LEMMA ChangeFileType ==
  ASSUME TypeOK, NEW f \in Files, ChangeFile(f)
  PROVE  TypeOK'
  <1>1. started' \in 0..MaxOps
    BY IngestAssumption DEF ChangeFile, TypeOK, RunsType
  <1> QED BY <1>1 DEF ChangeFile, TypeOK, StoreType, RunsType, JobType, store, control

LEMMA NextType == TypeOK /\ [Next]_vars => TypeOK'
  <1> SUFFICES ASSUME TypeOK, [Next]_vars PROVE TypeOK'
    OBVIOUS
  <1>1. ASSUME NEW p \in Processes, Step(p) PROVE TypeOK'
    <2>1. CASE \E v \in Versions, limit \in 0..Len(file) : Run(p, v, limit)
      BY <2>1, RunType
    <2> QED BY <1>1, <2>1, TakeType, CompleteType, ApplyNodeType, ApplyEdgeType, DeadLetterType,
               CallLLMType, MarkSeenType, FailType, CrashType DEF Step
  <1>2. ASSUME NEW v \in Versions, NEW c \in Contents, Push(v, c) PROVE TypeOK'
    BY <1>2, PushType
  <1>3. ASSUME NEW f \in Files, ChangeFile(f) PROVE TypeOK'
    BY <1>3, ChangeFileType
  <1>4. CASE UNCHANGED vars
    BY <1>4 DEF vars, TypeOK, StoreType, RunsType, JobType, store, control
  <1> QED BY <1>1, <1>2, <1>3, <1>4 DEF Next

\* The variables of the ingest keep their types: a process always has a run
\* to close when it is between records, and a record in hand when it writes.
THEOREM IngestTypeCorrect == Spec => []TypeOK
  <1>1. TypeOK /\ [Next]_vars => TypeOK'
    BY NextType
  <1> QED BY InitType, <1>1, PTL DEF Spec

-----------------------------------------------------------------------------
(* What is written stays written *)

\* Nothing a record left behind is taken back, and a row keeps the input and
\* the spec version it was opened with.
Grows ==
  /\ ledger \subseteq ledger' /\ dead \subseteq dead' /\ edges \subseteq edges'
  /\ \A k \in DOMAIN traces : k \in DOMAIN traces' /\ traces'[k] = traces[k]
  /\ \A r \in Records : sources[r] # {} => sources'[r] # {}
  /\ \A r \in DOMAIN runs : /\ r \in DOMAIN runs'
                            /\ runs'[r].input = runs[r].input
                            /\ runs'[r].version = runs[r].version

LEMMA RowKept ==
  ASSUME TypeOK, NEW p \in Processes, NEW status \in {"completed", "failed"},
         IF job[p].run = 0 THEN UNCHANGED runs ELSE CloseRun(p, status)
  PROVE  \A r \in DOMAIN runs : /\ r \in DOMAIN runs'
                                /\ runs'[r].input = runs[r].input
                                /\ runs'[r].version = runs[r].version
  <1>1. CASE job[p].run = 0
    BY <1>1
  <1>2. CASE job[p].run # 0
    <2>1. /\ DOMAIN runs' = DOMAIN runs /\ job[p].run \in DOMAIN runs
          /\ runs'[job[p].run] = [runs[job[p].run] EXCEPT !.status = status, !.tally = job[p].tally]
          /\ \A r \in DOMAIN runs : r # job[p].run => runs'[r] = runs[r]
      BY <1>2, CloseRunType
    <2>2. runs[job[p].run] \in RunRow
      BY <2>1, ElementOfSeq DEF TypeOK, RunsType
    <2>3. runs'[job[p].run].input = runs[job[p].run].input
          /\ runs'[job[p].run].version = runs[job[p].run].version
      BY <2>1, <2>2 DEF RunRow
    <2> QED BY <2>1, <2>3
  <1> QED BY <1>1, <1>2

LEMMA BeginSaves ==
  ASSUME TypeOK, NEW p \in Processes, NEW j, NEW c \in Contents, Begin(p, j, c)
  PROVE  /\ sources'[c.record] # {}
         /\ \A r \in Records : sources[r] # {} => sources'[r] # {}
  BY ContentParts DEF Begin, TypeOK, StoreType

LEMMA StepGrows == TypeOK /\ [Next]_vars => Grows
  <1> SUFFICES ASSUME TypeOK, [Next]_vars PROVE Grows
    OBVIOUS
  <1>1. ASSUME NEW p \in Processes, NEW v \in Versions, NEW limit \in 0..Len(file),
               Run(p, v, limit)
        PROVE  Grows
    BY <1>1, RunType DEF Run, store, Grows
  <1>2. ASSUME NEW p \in Processes, Take(p) PROVE Grows
    <2>1. InHand(p) \in Contents
      BY <1>2, HandType DEF Take
    <2>2. \A r \in Records : sources[r] # {} => sources'[r] # {}
      BY <1>2, <2>1, BeginSaves DEF Take
    <2>3. dead \subseteq dead'
      BY <1>2 DEF Take
    <2> QED BY <1>2, <2>2, <2>3 DEF Take, store, Grows
  <1>3. ASSUME NEW p \in Processes, Complete(p) PROVE Grows
    <2>1. job[p].run # 0
      BY <1>3 DEF Complete, TypeOK, JobType
    <2> QED BY <1>3, <2>1, RowKept DEF Complete, store, Grows
  <1>4. ASSUME NEW v \in Versions, NEW c \in Contents, Push(v, c) PROVE Grows
    <2>1. \A r \in Records : sources[r] # {} => sources'[r] # {}
      BY <1>4, BeginSaves DEF Push, Processes
    <2> QED BY <1>4, <2>1 DEF Push, store, control, Grows
  <1>5. ASSUME NEW p \in Processes, ApplyNode(p) PROVE Grows
    <2>1. Head(job[p].writes) \in Writes
      BY <1>5, WrittenType DEF ApplyNode, Applying, control
    <2>2. Head(job[p].writes).batch.trace \in Trace
      BY <1>5, <2>1, WriteKinds DEF ApplyNode, Applying, Batch
    <2>3. \A k \in DOMAIN traces : k \in DOMAIN traces' /\ traces'[k] = traces[k]
      BY <1>5, <2>2, ApplyNodeType, AppendItems DEF TypeOK, StoreType
    <2> QED BY <1>5, <2>3 DEF ApplyNode, control, Grows
  <1>6. ASSUME NEW p \in Processes, ApplyEdge(p) PROVE Grows
    BY <1>6 DEF ApplyEdge, store, control, Grows
  <1>7. ASSUME NEW p \in Processes, DeadLetter(p) PROVE Grows
    <2>1. dead \subseteq dead'
      BY <1>7 DEF DeadLetter
    <2> QED BY <1>7, <2>1 DEF DeadLetter, store, Grows
  <1>8. ASSUME NEW p \in Processes, CallLLM(p) PROVE Grows
    BY <1>8 DEF CallLLM, store, control, Grows
  <1>9. ASSUME NEW p \in Processes, MarkSeen(p) PROVE Grows
    <2>1. ledger \subseteq ledger'
      BY <1>9 DEF MarkSeen
    <2> QED BY <1>9, <2>1 DEF MarkSeen, store, Grows
  <1>10. ASSUME NEW p \in Processes, Fail(p) PROVE Grows
    BY <1>10, RowKept DEF Fail, store, Grows
  <1>11. ASSUME NEW p \in Processes, Crash(p) PROVE Grows
    BY <1>11 DEF Crash, store, control, Grows
  <1>12. ASSUME NEW f \in Files, ChangeFile(f) PROVE Grows
    BY <1>12 DEF ChangeFile, store, control, Grows
  <1>13. CASE UNCHANGED vars
    BY <1>13 DEF vars, store, control, Grows
  <1> QED BY <1>1, <1>2, <1>3, <1>4, <1>5, <1>6, <1>7, <1>8, <1>9, <1>10, <1>11, <1>12, <1>13
       DEF Next, Step

\* A write that was made is still there.
LEMMA LeftStays ==
  ASSUME Grows, NEW wr, NEW c, Left(wr, c)
  PROVE  Left(wr, c)'
  BY DEF Grows, Left

-----------------------------------------------------------------------------
(* LedgerMeansApplied.  A content enters the ledger when nothing is left to *)
(* write, so what has to be known of a record at work is that each of its  *)
(* writes is made or still to come: ApplyingInv.                           *)

LedgerInv == LedgerMeansApplied /\ ApplyingInv

\* The part of ApplyingInv about one process.
Covered(p) ==
  job[p].at = "apply" =>
    /\ sources[InHand(p).record] # {}
    /\ \A wr \in ToSet(InHand(p).mapped) : Left(wr, InHand(p)) \/ wr \in ToSet(job[p].writes)

\* A process that does not act keeps what it had.
LEMMA OthersCovered ==
  ASSUME TypeOK, Grows, NEW p \in Processes, Covered(p), job'[p] = job[p]
  PROVE  Covered(p)'
  <1> SUFFICES ASSUME job[p].at = "apply" PROVE Covered(p)'
    BY DEF Covered
  <1>1. PICK c : c = InHand(p)
    OBVIOUS
  <1>2. InHand(p)' = c
    BY <1>1 DEF InHand
  <1>3. c.record \in Records
    BY <1>1, HandType, ContentParts DEF TypeOK, JobType
  <1>4. \A wr \in ToSet(c.mapped) : Left(wr, c) => Left(wr, c)'
    BY LeftStays
  <1>5. sources'[c.record] # {}
    BY <1>1, <1>3 DEF Grows, Covered
  <1>6. \A wr \in ToSet(c.mapped) : Left(wr, c) \/ wr \in ToSet(job[p].writes)
    BY <1>1 DEF Covered
  <1> QED BY <1>2, <1>4, <1>5, <1>6 DEF Covered

\* A record just begun has all of its writes to come.
LEMMA BegunCovered ==
  ASSUME TypeOK, NEW p \in Processes, NEW j, NEW c \in Contents, Begin(p, j, c),
         Head(j.todo) = c, j \in Job
  PROVE  Covered(p)'
  <1>1. job'[p] = [j EXCEPT !.at = "apply", !.writes = c.mapped, !.blocks = c.blocks]
    BY DEF Begin, TypeOK, JobType
  <1>2. job'[p].todo = j.todo /\ job'[p].writes = c.mapped
    BY <1>1 DEF Job
  <1>3. InHand(p)' = c
    BY <1>2 DEF InHand
  <1>4. sources'[c.record] # {}
    BY BeginSaves
  <1> QED BY <1>2, <1>3, <1>4 DEF Covered

\* A process that has made the write at the head of its writes.
LEMMA WrittenCovered ==
  ASSUME TypeOK, Grows, NEW p \in Processes, Covered(p), job[p].at = "apply",
         job[p].writes # <<>>, Written(p), DOMAIN runs' = DOMAIN runs,
         NEW c, c = InHand(p), NEW made, made = Head(job[p].writes), Left(made, c)'
  PROVE  Covered(p)'
  <1>1. job'[p] = [job[p] EXCEPT !.writes = Tail(@)]
    BY DEF Written, TypeOK, JobType
  <1>2. job'[p].todo = job[p].todo /\ job'[p].writes = Tail(job[p].writes)
    BY <1>1 DEF TypeOK, JobType, Job
  <1>3. InHand(p)' = c
    BY <1>2 DEF InHand
  <1>4. c.record \in Records
    BY HandType, ContentParts DEF TypeOK, JobType
  <1>5. sources'[c.record] # {}
    BY <1>4 DEF Grows, Covered
  <1>6. ToSet(job[p].writes) = {made} \cup ToSet(Tail(job[p].writes))
    BY WrittenType
  <1>7. ASSUME NEW wr \in ToSet(c.mapped)
        PROVE  Left(wr, c)' \/ wr \in ToSet(job'[p].writes)
    <2>1. Left(wr, c) \/ wr \in ToSet(job[p].writes)
      BY DEF Covered
    <2>2. CASE Left(wr, c)
      BY <2>2, LeftStays
    <2>3. CASE wr = made
      BY <2>3
    <2>4. CASE wr \in ToSet(Tail(job[p].writes))
      BY <2>4, <1>2
    <2> QED BY <2>1, <2>2, <2>3, <2>4, <1>6
  <1> QED BY <1>3, <1>5, <1>7 DEF Covered

\* A process done with a record has none in hand.
LEMMA LeavesRecord ==
  ASSUME TypeOK, NEW p \in Processes, job[p].todo # <<>>,
         NEW count \in {"out", "skipped", "dead"}, Quit(p) \/ Advance(p, count)
  PROVE  job'[p].at # "apply"
  <1>1. job \in [Processes -> Job] /\ job[p] \in Job
    BY DEF TypeOK, JobType
  <1>2. Past(job[p], count).at = "next"
    BY <1>1, PastType
  <1>3. Idle.at = "idle"
    BY DEF Idle
  <1> QED BY <1>1, <1>2, <1>3 DEF Quit, Advance

LEMMA StepCovers ==
  ASSUME TypeOK, Grows, NEW p \in Processes, Covered(p), Step(p)
  PROVE  Covered(p)'
  <1>1. job \in [Processes -> Job] /\ job[p] \in Job
    BY DEF TypeOK, JobType
  <1>2. ASSUME NEW v \in Versions, NEW limit \in 0..Len(file), Run(p, v, limit)
        PROVE  Covered(p)'
    <2>1. job'[p].at = "next"
      BY <1>1, <1>2, IdleType DEF Run, Job
    <2> QED BY <2>1 DEF Covered
  <1>3. CASE Take(p)
    <2> DEFINE j == [job[p] EXCEPT !.tally.in = @ + 1]
    <2>1. InHand(p) \in Contents
      BY <1>3, HandType DEF Take
    <2>2. j \in Job /\ j.todo = job[p].todo
      BY <1>1, TallyUp DEF Job, Tally
    <2>3. CASE job'[p].at = "apply"
      <3>1. \A count \in {"dead", "skipped"} : Past(j, count).at = "next"
        BY <1>3, <2>2, PastType DEF Take
      <3>2. Begin(p, j, InHand(p))
        BY <1>1, <1>3, <2>3, <3>1 DEF Take
      <3> HIDE DEF j
      <3> QED BY <2>1, <2>2, <3>2, BegunCovered DEF InHand
    <2> QED BY <2>3 DEF Covered
  <1>4. CASE Complete(p) \/ Fail(p) \/ Crash(p)
    <2>1. job'[p].at = "idle"
      BY <1>1, <1>4 DEF Complete, Fail, Crash, Quit, Idle
    <2> QED BY <2>1 DEF Covered
  <1>5. CASE ApplyNode(p)
    <2>1. job[p].at = "apply" /\ job[p].writes # <<>> /\ Written(p) /\ DOMAIN runs' = DOMAIN runs
          /\ Head(job[p].writes).does = "node"
      BY <1>5 DEF ApplyNode, Applying, control
    <2>2. Head(job[p].writes).batch.trace \in Trace
      BY <2>1, WrittenType, WriteKinds DEF Batch
    <2>3. traces' = Append(traces, Head(job[p].writes).batch.trace)
      BY <1>5, ApplyNodeType
    <2>4. PICK made : made = Head(job[p].writes)
      OBVIOUS
    <2>5. Len(traces) + 1 \in DOMAIN traces' /\ traces'[Len(traces) + 1] = made.batch.trace
      BY <2>2, <2>3, <2>4, AppendItems DEF TypeOK, StoreType
    <2>6. PICK c : c = InHand(p)
      OBVIOUS
    <2>7. Left(made, c)'
      BY <2>1, <2>4, <2>5 DEF Left
    <2> QED BY <2>1, <2>4, <2>6, <2>7, WrittenCovered
  <1>6. CASE ApplyEdge(p)
    <2>1. job[p].at = "apply" /\ job[p].writes # <<>> /\ Written(p) /\ DOMAIN runs' = DOMAIN runs
          /\ Head(job[p].writes).does = "edge"
      BY <1>6 DEF ApplyEdge, Applying, control
    <2>2. PICK made : made = Head(job[p].writes)
      OBVIOUS
    <2>3. PICK c : c = InHand(p)
      OBVIOUS
    <2>4. [from |-> made.from, to |-> made.to, source |-> c.record] \in edges'
      BY <1>6, <2>2, <2>3 DEF ApplyEdge
    <2>5. Left(made, c)'
      BY <2>1, <2>2, <2>4 DEF Left
    <2> QED BY <2>1, <2>2, <2>3, <2>5, WrittenCovered
  <1>7. CASE DeadLetter(p)
    <2>1. job[p].todo # <<>> /\ job[p].at = "apply"
      BY <1>7 DEF DeadLetter, Applying, TypeOK, JobType
    <2>2. job'[p].at # "apply"
      BY <1>7, <2>1, LeavesRecord DEF DeadLetter
    <2> QED BY <2>2 DEF Covered
  <1>8. CASE CallLLM(p)
    <2>1. job[p].at = "apply" /\ job[p].writes = <<>>
      BY <1>8 DEF CallLLM
    <2>2. job'[p].todo = job[p].todo
      BY <1>1, <1>8 DEF CallLLM, Job
    <2>3. PICK c : c = InHand(p)
      OBVIOUS
    <2>4. InHand(p)' = c /\ c.record \in Records
      BY <2>1, <2>2, <2>3, HandType, ContentParts DEF TypeOK, JobType, InHand
    <2>5. sources'[c.record] # {}
      BY <2>1, <2>3, <2>4 DEF Grows, Covered
    <2>6. \A wr \in ToSet(c.mapped) : Left(wr, c)
      BY <2>1, <2>3 DEF Covered, ToSet
    <2>7. \A wr \in ToSet(c.mapped) : Left(wr, c)'
      BY <2>6, LeftStays
    <2> QED BY <2>4, <2>5, <2>7 DEF Covered
  <1>9. CASE MarkSeen(p)
    <2>1. job[p].todo # <<>> /\ job[p].at = "apply"
      BY <1>9 DEF MarkSeen, TypeOK, JobType
    <2>2. job'[p].at # "apply"
      BY <1>9, <2>1, LeavesRecord DEF MarkSeen
    <2> QED BY <2>2 DEF Covered
  <1> QED BY <1>2, <1>3, <1>4, <1>5, <1>6, <1>7, <1>8, <1>9 DEF Step

\* A step of one process leaves what the others are doing alone.
LEMMA StepIsLocal ==
  ASSUME TypeOK, NEW p \in Processes, Step(p), NEW q \in Processes, q # p
  PROVE  job'[q] = job[q]
  <1>1. job \in [Processes -> Job]
    BY DEF TypeOK, JobType
  <1>2. CASE \E v \in Versions, limit \in 0..Len(file) : Run(p, v, limit)
    BY <1>1, <1>2 DEF Run
  <1>3. CASE Take(p)
    BY <1>1, <1>3 DEF Take, Begin
  <1>4. CASE DeadLetter(p) \/ MarkSeen(p)
    BY <1>1, <1>4 DEF DeadLetter, MarkSeen, Advance, Quit
  <1>5. CASE Complete(p) \/ Fail(p) \/ Crash(p)
    BY <1>1, <1>5 DEF Complete, Fail, Crash, Quit
  <1>6. CASE ApplyNode(p) \/ ApplyEdge(p) \/ CallLLM(p)
    BY <1>1, <1>6 DEF ApplyNode, ApplyEdge, CallLLM, Written
  <1> QED BY <1>2, <1>3, <1>4, <1>5, <1>6 DEF Step

\* A push that begins has its record in hand.
LEMMA PushBegins ==
  ASSUME TypeOK, NEW v \in Versions, NEW c \in Contents, Push(v, c)
  PROVE  \/ UNCHANGED <<job, sources>>
         \/ \E j \in Job : /\ Begin(Api, j, c)
                           /\ j.run = 0 /\ j.version = v /\ Head(j.todo) = c
  <1>1. CASE AlreadySeen(v, c)
    BY <1>1 DEF Push
  <1>2. CASE ~ AlreadySeen(v, c)
    <2> DEFINE j == [Idle EXCEPT !.version = v, !.todo = <<c>>]
    <2>1. <<c>> \in Seq(Contents) /\ Head(<<c>>) = c
      OBVIOUS
    <2>2. j \in Job /\ j.run = 0 /\ j.version = v /\ Head(j.todo) = c
      <3>1. Idle.run = 0
        BY DEF Idle
      <3> QED BY <2>1, <3>1, IdleType DEF Job
    <2>3. Begin(Api, j, c)
      BY <1>2 DEF Push
    <2> HIDE DEF j
    <2> QED BY <2>2, <2>3
  <1> QED BY <1>1, <1>2

LEMMA NextCovers ==
  ASSUME TypeOK, Grows, ApplyingInv, [Next]_vars
  PROVE  ApplyingInv'
  <1>1. \A q \in Processes : Covered(q)
    BY DEF ApplyingInv, Covered
  <1>2. ASSUME NEW q \in Processes PROVE Covered(q)'
    <2>1. ASSUME NEW p \in Processes, Step(p) PROVE Covered(q)'
      <3>1. CASE p = q
        BY <1>1, <2>1, <3>1, StepCovers
      <3>2. CASE p # q
        BY <1>1, <2>1, <3>2, StepIsLocal, OthersCovered
      <3> QED BY <3>1, <3>2
    <2>2. ASSUME NEW v \in Versions, NEW c \in Contents, Push(v, c) PROVE Covered(q)'
      <3>1. CASE UNCHANGED <<job, sources>>
        BY <1>1, <3>1, OthersCovered
      <3>2. ASSUME NEW j \in Job, Begin(Api, j, c), Head(j.todo) = c PROVE Covered(q)'
        <4>1. CASE q = Api
          BY <3>2, <4>1, BegunCovered DEF Processes
        <4>2. CASE q # Api
          <5>1. job'[q] = job[q]
            BY <3>2, <4>2 DEF Begin, TypeOK, JobType
          <5> QED BY <1>1, <5>1, OthersCovered
        <4> QED BY <4>1, <4>2
      <3> QED BY <2>2, <3>1, <3>2, PushBegins
    <2>3. ASSUME NEW f \in Files, ChangeFile(f) PROVE Covered(q)'
      <3>1. job' = job
        BY <2>3 DEF ChangeFile
      <3> QED BY <1>1, <3>1, OthersCovered
    <2>4. CASE UNCHANGED vars
      <3>1. job' = job
        BY <2>4 DEF vars
      <3> QED BY <1>1, <3>1, OthersCovered
    <2> QED BY <2>1, <2>2, <2>3, <2>4 DEF Next
  <1> QED BY <1>2 DEF ApplyingInv, Covered

\* The ledger gets at most the record in hand of a process with nothing left
\* to write.
LEMMA LedgerStep ==
  ASSUME TypeOK, [Next]_vars, NEW e \in ledger'
  PROVE  \/ e \in ledger
         \/ \E p \in Processes : /\ job[p].at = "apply" /\ job[p].writes = <<>>
                                 /\ e = <<job[p].version, InHand(p)>>
  <1>1. ASSUME NEW p \in Processes, Step(p)
        PROVE  \/ ledger' = ledger
               \/ /\ job[p].at = "apply" /\ job[p].writes = <<>>
                  /\ ledger' = ledger \cup {<<job[p].version, InHand(p)>>}
    <2>1. CASE MarkSeen(p)
      BY <2>1 DEF MarkSeen
    <2>2. CASE ~ MarkSeen(p)
      BY <1>1, <2>2 DEF Step, Run, Take, Complete, ApplyNode, ApplyEdge, DeadLetter, CallLLM,
                        Fail, Crash, control
    <2> QED BY <2>1, <2>2
  <1>2. ASSUME NEW v \in Versions, NEW c \in Contents, Push(v, c) PROVE ledger' = ledger
    BY <1>2 DEF Push, control
  <1>3. ASSUME NEW f \in Files, ChangeFile(f) PROVE ledger' = ledger
    BY <1>3 DEF ChangeFile, control
  <1>4. CASE UNCHANGED vars
    BY <1>4 DEF vars, control
  <1> QED BY <1>1, <1>2, <1>3, <1>4 DEF Next

LEMMA LedgerInvStep ==
  ASSUME TypeOK, Grows, LedgerInv, [Next]_vars
  PROVE  LedgerInv'
  <1>1. ApplyingInv'
    BY NextCovers DEF LedgerInv
  <1>2. ASSUME NEW e \in ledger'
        PROVE  /\ sources'[e[2].record] # {}
               /\ \A wr \in ToSet(e[2].mapped) : Left(wr, e[2])'
    <2>1. CASE e \in ledger
      <3>1. e[2].record \in Records
        BY <2>1, ContentParts DEF TypeOK, RunsType
      <3>2. sources'[e[2].record] # {}
        BY <2>1, <3>1 DEF LedgerInv, LedgerMeansApplied, Grows
      <3>3. \A wr \in ToSet(e[2].mapped) : Left(wr, e[2])
        BY <2>1 DEF LedgerInv, LedgerMeansApplied
      <3> QED BY <3>2, <3>3, LeftStays
    <2>2. CASE e \notin ledger
      <3>1. PICK p \in Processes : /\ job[p].at = "apply" /\ job[p].writes = <<>>
                                   /\ e = <<job[p].version, InHand(p)>>
        BY <2>2, LedgerStep
      <3>2. e[2] = InHand(p) /\ e[2].record \in Records
        BY <3>1, HandType, ContentParts DEF TypeOK, JobType
      <3>3. sources'[e[2].record] # {}
        BY <3>1, <3>2 DEF LedgerInv, ApplyingInv, Grows
      <3>4. \A wr \in ToSet(e[2].mapped) : Left(wr, e[2])
        BY <3>1, <3>2 DEF LedgerInv, ApplyingInv, ToSet
      <3> QED BY <3>3, <3>4, LeftStays
    <2> QED BY <2>1, <2>2
  <1> QED BY <1>1, <1>2 DEF LedgerInv, LedgerMeansApplied

\* The ledger never runs ahead of the store: a content that later runs skip
\* has its record saved and every write of its node and edge rules made,
\* whatever crashed or failed on the way.
THEOREM LedgerIsHonest == Spec => []LedgerMeansApplied
  <1>1. Init => TypeOK /\ LedgerInv
    <2> SUFFICES ASSUME Init PROVE LedgerInv
      BY InitType
    <2>1. ledger = {} /\ \A p \in Processes : job[p].at = "idle"
      BY DEF Init, Idle
    <2> QED BY <2>1 DEF LedgerInv, LedgerMeansApplied, ApplyingInv
  <1>2. TypeOK /\ LedgerInv /\ [Next]_vars => TypeOK' /\ LedgerInv'
    BY NextType, StepGrows, LedgerInvStep
  <1>3. LedgerInv => LedgerMeansApplied
    BY DEF LedgerInv
  <1> QED BY <1>1, <1>2, <1>3, PTL DEF Spec

-----------------------------------------------------------------------------
(* CompletedRunCovers.  A run is closed when it has nothing left to read; *)
(* until then what it has not dealt with is among what it has left:        *)
(* ReadingInv.                                                             *)

CoverInv == CompletedRunCovers /\ ReadingInv

\* The part of ReadingInv about one process.
Reads(p) ==
  job[p].run # 0 =>
    LET row == runs[job[p].run]
    IN /\ row.version = job[p].version
       /\ \A c \in ToSet(row.input) :
            \/ <<row.version, c>> \in ledger \/ <<job[p].run, c>> \in dead
            \/ c \in ToSet(job[p].todo)

\* Same run, and what is no longer to do has been dealt with.
LEMMA KeepsReading ==
  ASSUME TypeOK, Grows, NEW p \in Processes, Reads(p),
         job'[p].run = job[p].run, job'[p].version = job[p].version,
         \A c \in ToSet(job[p].todo) : \/ c \in ToSet(job'[p].todo)
                                       \/ <<job[p].version, c>> \in ledger'
                                       \/ <<job[p].run, c>> \in dead'
  PROVE  Reads(p)'
  <1> SUFFICES ASSUME job[p].run # 0 PROVE Reads(p)'
    BY DEF Reads
  <1>1. job[p].run \in DOMAIN runs
    BY DEF TypeOK, JobType
  <1>2. runs'[job[p].run].input = runs[job[p].run].input
        /\ runs'[job[p].run].version = runs[job[p].run].version
        /\ ledger \subseteq ledger' /\ dead \subseteq dead'
    BY <1>1 DEF Grows
  <1>3. runs[job[p].run].version = job[p].version
        /\ \A c \in ToSet(runs[job[p].run].input) :
             \/ <<job[p].version, c>> \in ledger \/ <<job[p].run, c>> \in dead
             \/ c \in ToSet(job[p].todo)
    BY DEF Reads
  <1> QED BY <1>2, <1>3 DEF Reads

\* A process without a run has none to cover.
LEMMA NothingToRead ==
  ASSUME NEW p \in Processes, job'[p].run = 0
  PROVE  Reads(p)'
  BY DEF Reads

\* The record in hand is the only one an advance removes.
LEMMA PastReads ==
  ASSUME TypeOK, Grows, NEW p \in Processes, Reads(p), job[p].todo # <<>>,
         NEW j \in Job, j.todo = job[p].todo, j.run = job[p].run, j.version = job[p].version,
         NEW count \in {"out", "skipped", "dead"}, job' = [job EXCEPT ![p] = Past(j, count)],
         <<job[p].version, InHand(p)>> \in ledger' \/ <<job[p].run, InHand(p)>> \in dead'
  PROVE  Reads(p)'
  <1>1. job'[p] = Past(j, count)
    BY DEF TypeOK, JobType
  <1>2. job'[p].run = job[p].run /\ job'[p].version = job[p].version
        /\ job'[p].todo = Tail(job[p].todo)
    <2>1. j.todo # <<>>
      OBVIOUS
    <2>2. Past(j, count).run = j.run /\ Past(j, count).version = j.version
          /\ Past(j, count).todo = Tail(j.todo)
      BY <2>1, PastType
    <2> QED BY <1>1, <2>2
  <1>3. ToSet(job[p].todo) = {InHand(p)} \cup ToSet(Tail(job[p].todo))
    BY HandType
  <1> QED BY <1>2, <1>3, KeepsReading

LEMMA StepReads ==
  ASSUME TypeOK, Grows, NEW p \in Processes, Reads(p), Step(p)
  PROVE  Reads(p)'
  <1>1. job \in [Processes -> Job] /\ job[p] \in Job
    BY DEF TypeOK, JobType
  <1>2. ASSUME NEW v \in Versions, NEW limit \in 0..Len(file), Run(p, v, limit)
        PROVE  Reads(p)'
    <2> DEFINE input == SubSeq(file, 1, limit)
    <2>1. runs'[Len(runs) + 1] = [status |-> "running", version |-> v,
                                  input |-> input, tally |-> Zero]
          /\ input \in Seq(Contents)
      BY <1>2, RunType
    <2>2. job'[p] = [Idle EXCEPT !.at = "next", !.version = v, !.run = Len(runs) + 1,
                                 !.todo = input]
      BY <1>1, <1>2 DEF Run
    <2> HIDE DEF input
    <2>3. job'[p].run = Len(runs) + 1 /\ job'[p].version = v /\ job'[p].todo = input
      BY <2>2, IdleType DEF Job
    <2> QED BY <2>1, <2>3 DEF Reads
  <1>3. CASE Take(p)
    <2> DEFINE j == [job[p] EXCEPT !.tally.in = @ + 1]
               c == InHand(p)
    <2>1. c \in Contents /\ job[p].todo # <<>>
      BY <1>3, HandType DEF Take
    <2>2. j \in Job /\ j.todo = job[p].todo /\ j.run = job[p].run /\ j.version = job[p].version
      BY <1>1, TallyUp DEF Job, Tally
    <2>3. CASE ~ c.identified
      <3>1. job' = [job EXCEPT ![p] = Past(j, "dead")] /\ <<job[p].run, c>> \in dead'
        BY <1>3, <2>2, <2>3 DEF Take
      <3> HIDE DEF j
      <3> QED BY <2>1, <2>2, <3>1, PastReads
    <2>4. CASE c.identified /\ AlreadySeen(j.version, c)
      <3>1. job' = [job EXCEPT ![p] = Past(j, "skipped")] /\ <<job[p].version, c>> \in ledger'
        BY <1>3, <2>2, <2>4 DEF Take, AlreadySeen
      <3> HIDE DEF j
      <3> QED BY <2>1, <2>2, <3>1, PastReads
    <2>5. CASE c.identified /\ ~ AlreadySeen(j.version, c)
      <3>1. job' = [job EXCEPT ![p] = [j EXCEPT !.at = "apply", !.writes = c.mapped,
                                                !.blocks = c.blocks]]
        BY <1>3, <2>5 DEF Take, Begin
      <3>2. job'[p].run = j.run /\ job'[p].version = j.version /\ job'[p].todo = j.todo
        <4> HIDE DEF j
        <4> QED BY <1>1, <2>2, <3>1 DEF Job
      <3> QED BY <2>2, <3>2, KeepsReading
    <2> QED BY <2>3, <2>4, <2>5
  <1>4. CASE Complete(p) \/ Fail(p) \/ Crash(p)
    <2>1. job'[p].run = 0
      BY <1>1, <1>4 DEF Complete, Fail, Crash, Quit, Idle
    <2> QED BY <2>1, NothingToRead
  <1>5. CASE ApplyNode(p) \/ ApplyEdge(p)
    <2>1. job'[p] = [job[p] EXCEPT !.writes = Tail(@)]
      BY <1>1, <1>5 DEF ApplyNode, ApplyEdge, Written
    <2>2. job'[p].run = job[p].run /\ job'[p].version = job[p].version
          /\ job'[p].todo = job[p].todo
      BY <1>1, <2>1 DEF Job
    <2> QED BY <2>2, KeepsReading
  <1>6. CASE CallLLM(p)
    <2>1. job'[p].run = job[p].run /\ job'[p].version = job[p].version
          /\ job'[p].todo = job[p].todo
      BY <1>1, <1>6 DEF CallLLM, Job
    <2> QED BY <2>1, KeepsReading
  <1>7. CASE DeadLetter(p) \/ MarkSeen(p)
    <2>1. job[p].todo # <<>>
      BY <1>7 DEF DeadLetter, MarkSeen, Applying, TypeOK, JobType
    <2>2. CASE job[p].run = 0
      <3>1. job'[p].run = 0
        BY <1>1, <1>7, <2>2 DEF DeadLetter, MarkSeen, Quit, Idle
      <3> QED BY <3>1, NothingToRead
    <2>3. CASE job[p].run # 0
      <3>1. PICK count \in {"out", "dead"} : Advance(p, count)
        BY <1>7, <2>3 DEF DeadLetter, MarkSeen
      <3>2. <<job[p].version, InHand(p)>> \in ledger' \/ <<job[p].run, InHand(p)>> \in dead'
        BY <1>7, <2>3 DEF DeadLetter, MarkSeen
      <3>3. job' = [job EXCEPT ![p] = Past(job[p], count)]
        BY <3>1 DEF Advance
      <3> QED BY <1>1, <2>1, <3>2, <3>3, PastReads
    <2> QED BY <2>2, <2>3
  <1> QED BY <1>2, <1>3, <1>4, <1>5, <1>6, <1>7 DEF Step

LEMMA NextReads ==
  ASSUME TypeOK, Grows, ReadingInv, [Next]_vars
  PROVE  ReadingInv'
  <1>1. \A q \in Processes : Reads(q)
    BY DEF ReadingInv, Reads
  <1>2. ASSUME NEW q \in Processes, job'[q] = job[q] PROVE Reads(q)'
    BY <1>1, <1>2, KeepsReading
  <1>3. ASSUME NEW q \in Processes PROVE Reads(q)'
    <2>1. ASSUME NEW p \in Processes, Step(p) PROVE Reads(q)'
      <3>1. CASE p = q
        BY <1>1, <2>1, <3>1, StepReads
      <3>2. CASE p # q
        BY <1>2, <2>1, <3>2, StepIsLocal
      <3> QED BY <3>1, <3>2
    <2>2. ASSUME NEW v \in Versions, NEW c \in Contents, Push(v, c) PROVE Reads(q)'
      <3>1. CASE UNCHANGED <<job, sources>>
        BY <1>2, <3>1
      <3>2. ASSUME NEW j \in Job, Begin(Api, j, c), j.run = 0 PROVE Reads(q)'
        <4>1. CASE q = Api
          <5>1. job'[q].run = 0
            BY <3>2, <4>1 DEF Begin, TypeOK, JobType, Job
          <5> QED BY <5>1, NothingToRead
        <4>2. CASE q # Api
          <5>1. job'[q] = job[q]
            BY <3>2, <4>2 DEF Begin, TypeOK, JobType
          <5> QED BY <1>2, <5>1
        <4> QED BY <4>1, <4>2
      <3> QED BY <2>2, <3>1, <3>2, PushBegins
    <2>3. ASSUME NEW f \in Files, ChangeFile(f) PROVE Reads(q)'
      BY <1>2, <2>3 DEF ChangeFile
    <2>4. CASE UNCHANGED vars
      BY <1>2, <2>4 DEF vars
    <2> QED BY <2>1, <2>2, <2>3, <2>4 DEF Next
  <1> QED BY <1>3 DEF ReadingInv, Reads

\* What closing its run leaves of the rows.
LEMMA ClosedRow ==
  ASSUME TypeOK, NEW p \in Processes, job[p].run # 0,
         NEW status \in {"completed", "failed"}, CloseRun(p, status)
  PROVE  /\ DOMAIN runs' = DOMAIN runs /\ job[p].run \in DOMAIN runs
         /\ runs'[job[p].run].status = status /\ runs'[job[p].run].tally = job[p].tally
         /\ \A s \in DOMAIN runs : s # job[p].run => runs'[s] = runs[s]
  <1>1. /\ DOMAIN runs' = DOMAIN runs /\ job[p].run \in DOMAIN runs
        /\ runs'[job[p].run] = [runs[job[p].run] EXCEPT !.status = status,
                                                       !.tally = job[p].tally]
        /\ \A s \in DOMAIN runs : s # job[p].run => runs'[s] = runs[s]
    BY CloseRunType
  <1>2. runs[job[p].run] \in RunRow
    BY <1>1, ElementOfSeq DEF TypeOK, RunsType
  <1> QED BY <1>1, <1>2 DEF RunRow

\* A row is closed by the process of that run, with the counts it has, and
\* completed when it has nothing left to read.
LEMMA ClosedStep ==
  ASSUME TypeOK, [Next]_vars, NEW r \in DOMAIN runs', runs'[r].status # "running"
  PROVE  \/ r \in DOMAIN runs /\ runs'[r] = runs[r]
         \/ \E p \in Processes :
              /\ r = job[p].run /\ r \in DOMAIN runs /\ r # 0
              /\ runs'[r].tally = job[p].tally
              /\ Complete(p) \/ (Fail(p) /\ runs'[r].status = "failed")
  <1>1. ASSUME NEW p \in Processes, Step(p)
        PROVE  \/ r \in DOMAIN runs /\ runs'[r] = runs[r]
               \/ /\ r = job[p].run /\ r \in DOMAIN runs /\ r # 0
                  /\ runs'[r].tally = job[p].tally
                  /\ Complete(p) \/ (Fail(p) /\ runs'[r].status = "failed")
    <2>1. ASSUME NEW v \in Versions, NEW limit \in 0..Len(file), Run(p, v, limit)
          PROVE  r \in DOMAIN runs /\ runs'[r] = runs[r]
      <3>1. /\ DOMAIN runs' = (DOMAIN runs) \cup {Len(runs) + 1}
            /\ \A s \in DOMAIN runs : runs'[s] = runs[s]
            /\ runs'[Len(runs) + 1] = [status |-> "running", version |-> v,
                                       input |-> SubSeq(file, 1, limit), tally |-> Zero]
        BY <2>1, RunType
      <3>2. runs'[Len(runs) + 1].status = "running"
        BY <3>1
      <3> QED BY <3>1, <3>2
    <2>2. CASE Complete(p)
      <3>1. job[p].run # 0 /\ CloseRun(p, "completed")
        BY <2>2 DEF Complete, TypeOK, JobType
      <3> QED BY <2>2, <3>1, ClosedRow
    <2>3. CASE Fail(p)
      <3>1. CASE job[p].run = 0
        BY <2>3, <3>1 DEF Fail
      <3>2. CASE job[p].run # 0
        <4>1. CloseRun(p, "failed")
          BY <2>3, <3>2 DEF Fail
        <4> QED BY <2>3, <3>2, <4>1, ClosedRow
      <3> QED BY <3>1, <3>2
    <2>4. CASE Take(p) \/ DeadLetter(p) \/ MarkSeen(p) \/ ApplyNode(p) \/ ApplyEdge(p)
               \/ CallLLM(p) \/ Crash(p)
      <3>1. runs' = runs
        BY <2>4 DEF Take, DeadLetter, MarkSeen, ApplyNode, ApplyEdge, CallLLM, Crash, control
      <3> QED BY <3>1
    <2> QED BY <1>1, <2>1, <2>2, <2>3, <2>4 DEF Step
  <1>2. ASSUME NEW v \in Versions, NEW c \in Contents, Push(v, c) PROVE runs' = runs
    BY <1>2 DEF Push, control
  <1>3. ASSUME NEW f \in Files, ChangeFile(f) PROVE runs' = runs
    BY <1>3 DEF ChangeFile, control
  <1>4. CASE UNCHANGED vars
    BY <1>4 DEF vars, control
  <1> QED BY <1>1, <1>2, <1>3, <1>4 DEF Next

LEMMA CoverInvStep ==
  ASSUME TypeOK, Grows, CoverInv, [Next]_vars
  PROVE  CoverInv'
  <1>1. ReadingInv'
    BY NextReads DEF CoverInv
  <1>2. ASSUME NEW r \in DOMAIN runs', runs'[r].status = "completed",
               NEW c \in ToSet(runs'[r].input)
        PROVE  <<runs'[r].version, c>> \in ledger' \/ <<r, c>> \in dead'
    <2>1. CASE r \in DOMAIN runs /\ runs'[r] = runs[r]
      BY <1>2, <2>1 DEF CoverInv, CompletedRunCovers, Grows
    <2>2. ASSUME NEW p \in Processes, Complete(p), r = job[p].run, r \in DOMAIN runs, r # 0
          PROVE  <<runs'[r].version, c>> \in ledger' \/ <<r, c>> \in dead'
      <3>1. c \in ToSet(runs[r].input) /\ runs'[r].version = runs[r].version
        BY <1>2, <2>2 DEF Grows
      <3>2. ToSet(job[p].todo) = {}
        BY <2>2 DEF Complete, ToSet
      <3>3. <<runs[r].version, c>> \in ledger \/ <<r, c>> \in dead
        BY <2>2, <3>1, <3>2 DEF CoverInv, ReadingInv
      <3> QED BY <3>1, <3>3 DEF Grows
    <2>3. runs'[r].status # "running" /\ runs'[r].status # "failed"
      BY <1>2
    <2> QED BY <2>1, <2>2, <2>3, ClosedStep
  <1> QED BY <1>1, <1>2 DEF CoverInv, CompletedRunCovers

\* A run that says "completed" has dealt with every record it was to read:
\* it is in the ledger as it was in the file, or among its dead letters.
THEOREM CompletedRunsCover == Spec => []CompletedRunCovers
  <1>1. Init => TypeOK /\ CoverInv
    <2> SUFFICES ASSUME Init PROVE CoverInv
      BY InitType
    <2>1. DOMAIN runs = {} /\ \A p \in Processes : job[p].run = 0
      BY DEF Init, Idle
    <2> QED BY <2>1 DEF CoverInv, CompletedRunCovers, ReadingInv
  <1>2. TypeOK /\ CoverInv /\ [Next]_vars => TypeOK' /\ CoverInv'
    BY NextType, StepGrows, CoverInvStep
  <1>3. CoverInv => CompletedRunCovers
    BY DEF CoverInv
  <1> QED BY <1>1, <1>2, <1>3, PTL DEF Spec

-----------------------------------------------------------------------------
(* RunsAddUp.  While a run goes on its counts and what it has left to read *)
(* add up to its input, but for the record in hand: CountingInv.           *)

CountInv == RunsAddUp /\ CountingInv

\* The part of CountingInv about one process.
Counts(p) ==
  job[p].run # 0 =>
    LET t == job[p].tally
    IN /\ t.in = t.out + t.skipped + t.dead + Open(job[p])
       /\ t.in + Len(job[p].todo) = Len(runs[job[p].run].input) + Open(job[p])

\* The same run with the same counts, as much to read and the same in hand.
LEMMA KeepsCounting ==
  ASSUME TypeOK, Grows, NEW p \in Processes, Counts(p),
         job'[p].run = job[p].run, job'[p].tally = job[p].tally,
         job'[p].todo = job[p].todo, job'[p].at = job[p].at
  PROVE  Counts(p)'
  <1> SUFFICES ASSUME job[p].run # 0 PROVE Counts(p)'
    BY DEF Counts
  <1>1. job[p].run \in DOMAIN runs
    BY DEF TypeOK, JobType
  <1>2. runs'[job[p].run].input = runs[job[p].run].input
    BY <1>1 DEF Grows
  <1>3. Open(job'[p]) = Open(job[p])
    BY DEF Open
  <1> QED BY <1>2, <1>3 DEF Counts

LEMMA NothingToCount ==
  ASSUME NEW p \in Processes, job'[p].run = 0
  PROVE  Counts(p)'
  BY DEF Counts

\* A record more that is read and disposed of, or disposed of at last.
LEMMA PastCounts ==
  ASSUME TypeOK, Grows, NEW p \in Processes, Counts(p), job[p].todo # <<>>,
         NEW j \in Job, j.todo = job[p].todo, j.run = job[p].run, j.run # 0,
         NEW count \in {"out", "skipped", "dead"}, job' = [job EXCEPT ![p] = Past(j, count)],
         j.tally.in = job[p].tally.in + 1 - Open(job[p]),
         j.tally.out = job[p].tally.out, j.tally.skipped = job[p].tally.skipped,
         j.tally.dead = job[p].tally.dead
  PROVE  Counts(p)'
  <1>1. j.todo # <<>>
    OBVIOUS
  <1>2. /\ Past(j, count) \in Job
        /\ Past(j, count).run = j.run /\ Past(j, count).at = "next"
        /\ Past(j, count).todo = Tail(j.todo)
        /\ Past(j, count).tally = [j.tally EXCEPT ![count] = @ + 1]
    BY <1>1, PastType
  <1>3. job'[p] = Past(j, count)
    BY DEF TypeOK, JobType
  <1>4. job[p].tally \in Tally /\ j.tally \in Tally /\ job[p].todo \in Seq(Contents)
        /\ job[p].run \in DOMAIN runs
    BY DEF TypeOK, JobType, Job
  <1>5. Len(Tail(job[p].todo)) = Len(job[p].todo) - 1
    BY <1>4, HeadTailProperties
  <1>6. runs'[job[p].run].input = runs[job[p].run].input
    BY <1>4 DEF Grows
  <1>7. Open(job'[p]) = 0 /\ Open(job[p]) \in {0, 1}
    BY <1>2, <1>3 DEF Open
  <1> DEFINE t == job[p].tally
             s == j.tally
             u == job'[p].tally
             size == Len(runs[job[p].run].input)
             left == Len(job[p].todo)
             open == Open(job[p])
  <1>8. /\ t.in = t.out + t.skipped + t.dead + open
        /\ t.in + left = size + open
    BY DEF Counts
  <1>9. u.in = s.in /\ u.out + u.skipped + u.dead = s.out + s.skipped + s.dead + 1
    <2>1. u = [s EXCEPT ![count] = @ + 1] /\ s \in Tally
      BY <1>2, <1>3, <1>4
    <2>2. s.in \in Nat /\ s.out \in Nat /\ s.skipped \in Nat /\ s.dead \in Nat
      BY <2>1, TallyFields
    <2> HIDE DEF s, u
    <2>3. CASE count = "out"
      BY <2>1, <2>2, <2>3 DEF Tally
    <2>4. CASE count = "skipped"
      BY <2>1, <2>2, <2>4 DEF Tally
    <2>5. CASE count = "dead"
      BY <2>1, <2>2, <2>5 DEF Tally
    <2> QED BY <2>3, <2>4, <2>5
  <1>10. size \in Nat /\ left \in Nat
    <2>1. runs[job[p].run] \in RunRow
      BY <1>4, ElementOfSeq DEF TypeOK, RunsType
    <2>2. runs[job[p].run].input \in Seq(Contents)
      BY <2>1 DEF RunRow
    <2> QED BY <1>4, <2>2, LenProperties
  <1>11. t.in \in Nat /\ t.out \in Nat /\ t.skipped \in Nat /\ t.dead \in Nat
    BY <1>4, TallyFields
  <1>12. s.in = t.in + 1 - open /\ s.out = t.out /\ s.skipped = t.skipped /\ s.dead = t.dead
    OBVIOUS
  <1>13. job'[p].todo = Tail(job[p].todo) /\ job'[p].run = job[p].run
         /\ Len(job'[p].todo) = left - 1 /\ Len(runs'[job'[p].run].input) = size
    BY <1>2, <1>3, <1>5, <1>6
  <1>14. open \in {0, 1}
    BY <1>7
  <1>15. u.in \in Nat /\ u.out \in Nat /\ u.skipped \in Nat /\ u.dead \in Nat
    <2>1. u \in Tally
      BY <1>2, <1>3 DEF Job
    <2> QED BY <2>1, TallyFields
  <1>16. u.in = u.out + u.skipped + u.dead /\ u.in + (left - 1) = size
    <2>1. u.in = t.in + 1 - open /\ u.out + u.skipped + u.dead = t.out + t.skipped + t.dead + 1
      <3> HIDE DEF t, s, u, open
      <3> QED BY <1>9, <1>12
    <2> HIDE DEF t, s, u, size, left, open
    <2>2. CASE open = 0
      <3>1. t.in = t.out + t.skipped + t.dead /\ t.in + left = size /\ u.in = t.in + 1
        BY <1>8, <1>10, <1>11, <2>1, <2>2
      <3> QED BY <1>10, <1>11, <1>15, <2>1, <3>1
    <2>3. CASE open = 1
      <3>1. t.in = t.out + t.skipped + t.dead + 1 /\ t.in + left = size + 1 /\ u.in = t.in
        BY <1>8, <1>10, <1>11, <2>1, <2>3
      <3> QED BY <1>10, <1>11, <1>15, <2>1, <3>1
    <2> QED BY <1>14, <2>2, <2>3
  <1>17. u.in = u.out + u.skipped + u.dead + 0 /\ u.in + (left - 1) = size + 0
    <2> HIDE DEF u, size, left
    <2> QED BY <1>10, <1>15, <1>16
  <1> HIDE DEF size, left
  <1> QED BY <1>7, <1>13, <1>17 DEF Counts

LEMMA StepCounts ==
  ASSUME TypeOK, Grows, NEW p \in Processes, Counts(p), Step(p)
  PROVE  Counts(p)'
  <1>1. job \in [Processes -> Job] /\ job[p] \in Job /\ job[p].tally \in Tally
    BY DEF TypeOK, JobType, Job
  <1>2. ASSUME NEW v \in Versions, NEW limit \in 0..Len(file), Run(p, v, limit)
        PROVE  Counts(p)'
    <2> DEFINE input == SubSeq(file, 1, limit)
    <2>1. runs'[Len(runs) + 1] = [status |-> "running", version |-> v,
                                  input |-> input, tally |-> Zero]
          /\ input \in Seq(Contents)
      BY <1>2, RunType
    <2>2. job'[p] = [Idle EXCEPT !.at = "next", !.version = v, !.run = Len(runs) + 1,
                                 !.todo = input]
      BY <1>1, <1>2 DEF Run
    <2> HIDE DEF input
    <2>3. job'[p].run = Len(runs) + 1 /\ job'[p].at = "next" /\ job'[p].todo = input
      BY <2>2, IdleType DEF Job
    <2>4. job'[p].tally = Zero
      BY <2>2 DEF Idle
    <2>5. Len(input) \in Nat
      BY <2>1, LenProperties
    <2> QED BY <2>1, <2>3, <2>4, <2>5 DEF Counts, Open, Zero
  <1>3. CASE Take(p)
    <2> DEFINE j == [job[p] EXCEPT !.tally.in = @ + 1]
               c == InHand(p)
    <2>1. job[p].todo # <<>> /\ job[p].run # 0 /\ job[p].at = "next"
      BY <1>3 DEF Take, TypeOK, JobType
    <2>2. j \in Job /\ j.todo = job[p].todo /\ j.run = job[p].run /\ j.at = "next"
      BY <1>1, <2>1, TallyUp DEF Job, Tally
    <2>3. j.tally.in = job[p].tally.in + 1 /\ j.tally.out = job[p].tally.out
          /\ j.tally.skipped = job[p].tally.skipped /\ j.tally.dead = job[p].tally.dead
          /\ j.tally \in Tally
      <3> DEFINE t == [job[p].tally EXCEPT !.in = @ + 1]
      <3>1. j.tally = t
        BY <1>1 DEF Job
      <3>2. t \in Tally /\ t.in = job[p].tally.in + 1 /\ t.out = job[p].tally.out
            /\ t.skipped = job[p].tally.skipped /\ t.dead = job[p].tally.dead
        BY <1>1, TallyIn
      <3> QED BY <3>1, <3>2
    <2>4. Open(job[p]) = 0
      BY <2>1 DEF Open
    <2>5. job[p].tally.in \in Nat
      BY <1>1 DEF Tally
    <2>6. ASSUME NEW count \in {"dead", "skipped"}, job' = [job EXCEPT ![p] = Past(j, count)]
          PROVE  Counts(p)'
      <3> HIDE DEF j
      <3>1. j.tally.in = job[p].tally.in + 1 - Open(job[p])
        BY <2>3, <2>4, <2>5
      <3> QED BY <2>1, <2>2, <2>3, <2>6, <3>1, PastCounts
    <2>7. CASE ~ c.identified \/ AlreadySeen(j.version, c)
      <3>1. \E count \in {"dead", "skipped"} : job' = [job EXCEPT ![p] = Past(j, count)]
        BY <1>3, <2>7 DEF Take
      <3> QED BY <2>6, <3>1
    <2>8. CASE c.identified /\ ~ AlreadySeen(j.version, c)
      <3>1. job' = [job EXCEPT ![p] = [j EXCEPT !.at = "apply", !.writes = c.mapped,
                                                !.blocks = c.blocks]]
        BY <1>3, <2>8 DEF Take, Begin
      <3>2. job'[p].run = j.run /\ job'[p].tally = j.tally /\ job'[p].todo = j.todo
            /\ job'[p].at = "apply"
        <4> HIDE DEF j
        <4> QED BY <1>1, <2>2, <3>1 DEF Job
      <3>3. runs'[job[p].run].input = runs[job[p].run].input /\ job[p].run \in DOMAIN runs
        BY <2>1 DEF Grows, TypeOK, JobType
      <3>4. Open(job'[p]) = 1
        BY <3>2 DEF Open
      <3>5. /\ job[p].tally.in = job[p].tally.out + job[p].tally.skipped + job[p].tally.dead
            /\ job[p].tally.in + Len(job[p].todo) = Len(runs[job[p].run].input)
        <4>1. runs[job[p].run] \in RunRow
          BY <3>3, ElementOfSeq DEF TypeOK, RunsType
        <4>2. Len(runs[job[p].run].input) \in Nat
          BY <4>1, LenProperties DEF RunRow
        <4> QED BY <1>1, <2>1, <2>4, <4>2 DEF Counts, Tally
      <3>6. Len(job[p].todo) \in Nat
        BY <1>1, LenProperties DEF Job
      <3>7. job'[p].tally.in = job[p].tally.in + 1
            /\ job'[p].tally.out = job[p].tally.out
            /\ job'[p].tally.skipped = job[p].tally.skipped
            /\ job'[p].tally.dead = job[p].tally.dead
            /\ job'[p].todo = job[p].todo /\ job'[p].run = job[p].run
        BY <2>2, <2>3, <3>2
      <3> HIDE DEF j
      <3> DEFINE t == job[p].tally
                 u == job'[p].tally
                 size == Len(runs[job[p].run].input)
                 left == Len(job[p].todo)
      <3>8. t.in \in Nat /\ t.out \in Nat /\ t.skipped \in Nat /\ t.dead \in Nat
        BY <1>1, TallyFields
      <3>9. u.in = u.out + u.skipped + u.dead + 1 /\ u.in + left = size + 1
        <4>1. /\ t.in = t.out + t.skipped + t.dead /\ t.in + left = size
              /\ u.in = t.in + 1 /\ u.out = t.out /\ u.skipped = t.skipped /\ u.dead = t.dead
          BY <3>5, <3>7
        <4>2. left \in Nat
          BY <3>6
        <4> HIDE DEF t, u, size, left
        <4> QED BY <3>8, <4>1, <4>2
      <3>10. Len(job'[p].todo) = left /\ Len(runs'[job'[p].run].input) = size
        BY <3>3, <3>7
      <3> HIDE DEF size, left
      <3> QED BY <3>4, <3>9, <3>10 DEF Counts
    <2> QED BY <2>7, <2>8
  <1>4. CASE Complete(p) \/ Fail(p) \/ Crash(p)
    <2>1. job'[p].run = 0
      BY <1>1, <1>4 DEF Complete, Fail, Crash, Quit, Idle
    <2> QED BY <2>1, NothingToCount
  <1>5. CASE ApplyNode(p) \/ ApplyEdge(p)
    <2>1. job'[p] = [job[p] EXCEPT !.writes = Tail(@)]
      BY <1>1, <1>5 DEF ApplyNode, ApplyEdge, Written
    <2>2. job'[p].run = job[p].run /\ job'[p].tally = job[p].tally
          /\ job'[p].todo = job[p].todo /\ job'[p].at = job[p].at
      BY <1>1, <2>1 DEF Job
    <2> QED BY <2>2, KeepsCounting
  <1>6. CASE CallLLM(p)
    <2>1. job'[p].run = job[p].run /\ job'[p].tally = job[p].tally
          /\ job'[p].todo = job[p].todo /\ job'[p].at = job[p].at
      BY <1>1, <1>6 DEF CallLLM, Job
    <2> QED BY <2>1, KeepsCounting
  <1>7. CASE DeadLetter(p) \/ MarkSeen(p)
    <2>1. job[p].todo # <<>> /\ job[p].at = "apply"
      BY <1>7 DEF DeadLetter, MarkSeen, Applying, TypeOK, JobType
    <2>2. CASE job[p].run = 0
      <3>1. job'[p].run = 0
        BY <1>1, <1>7, <2>2 DEF DeadLetter, MarkSeen, Quit, Idle
      <3> QED BY <3>1, NothingToCount
    <2>3. CASE job[p].run # 0
      <3>1. PICK count \in {"out", "dead"} : Advance(p, count)
        BY <1>7, <2>3 DEF DeadLetter, MarkSeen
      <3>2. job' = [job EXCEPT ![p] = Past(job[p], count)]
        BY <3>1 DEF Advance
      <3>3. job[p].tally.in = job[p].tally.in + 1 - Open(job[p])
        BY <1>1, <2>1 DEF Open, Tally
      <3> QED BY <1>1, <2>1, <2>3, <3>2, <3>3, PastCounts
    <2> QED BY <2>2, <2>3
  <1> QED BY <1>2, <1>3, <1>4, <1>5, <1>6, <1>7 DEF Step

LEMMA NextCounts ==
  ASSUME TypeOK, Grows, CountingInv, [Next]_vars
  PROVE  CountingInv'
  <1>1. \A q \in Processes : Counts(q)
    BY DEF CountingInv, Counts
  <1>2. ASSUME NEW q \in Processes, job'[q] = job[q] PROVE Counts(q)'
    BY <1>1, <1>2, KeepsCounting
  <1>3. ASSUME NEW q \in Processes PROVE Counts(q)'
    <2>1. ASSUME NEW p \in Processes, Step(p) PROVE Counts(q)'
      <3>1. CASE p = q
        BY <1>1, <2>1, <3>1, StepCounts
      <3>2. CASE p # q
        BY <1>2, <2>1, <3>2, StepIsLocal
      <3> QED BY <3>1, <3>2
    <2>2. ASSUME NEW v \in Versions, NEW c \in Contents, Push(v, c) PROVE Counts(q)'
      <3>1. CASE UNCHANGED <<job, sources>>
        BY <1>2, <3>1
      <3>2. ASSUME NEW j \in Job, Begin(Api, j, c), j.run = 0 PROVE Counts(q)'
        <4>1. CASE q = Api
          <5>1. job'[q].run = 0
            BY <3>2, <4>1 DEF Begin, TypeOK, JobType, Job
          <5> QED BY <5>1, NothingToCount
        <4>2. CASE q # Api
          <5>1. job'[q] = job[q]
            BY <3>2, <4>2 DEF Begin, TypeOK, JobType
          <5> QED BY <1>2, <5>1
        <4> QED BY <4>1, <4>2
      <3> QED BY <2>2, <3>1, <3>2, PushBegins
    <2>3. ASSUME NEW f \in Files, ChangeFile(f) PROVE Counts(q)'
      BY <1>2, <2>3 DEF ChangeFile
    <2>4. CASE UNCHANGED vars
      BY <1>2, <2>4 DEF vars
    <2> QED BY <2>1, <2>2, <2>3, <2>4 DEF Next
  <1> QED BY <1>3 DEF CountingInv, Counts

\* The counts of a row as its run closes it.
LEMMA ClosingCounts ==
  ASSUME TypeOK, CountingInv, NEW p \in Processes, job[p].run # 0,
         Complete(p) \/ Fail(p)
  PROVE  LET t == job[p].tally
             open == t.in - (t.out + t.skipped + t.dead)
             size == Len(runs[job[p].run].input)
         IN /\ open \in {0, 1} /\ t.in <= size
            /\ Complete(p) => open = 0 /\ t.in = size
  <1> DEFINE t == job[p].tally
             size == Len(runs[job[p].run].input)
             left == Len(job[p].todo)
             pending == Open(job[p])
  <1>1. job[p].run \in DOMAIN runs /\ job[p] \in Job
    BY DEF TypeOK, JobType
  <1>2. size \in Nat /\ left \in Nat
    <2>1. runs[job[p].run] \in RunRow
      BY <1>1, ElementOfSeq DEF TypeOK, RunsType
    <2> QED BY <1>1, <2>1, LenProperties DEF RunRow, Job
  <1>3. t.in \in Nat /\ t.out \in Nat /\ t.skipped \in Nat /\ t.dead \in Nat
    BY <1>1, TallyFields DEF Job
  <1>4. t.in = t.out + t.skipped + t.dead + pending /\ t.in + left = size + pending
    BY DEF CountingInv
  <1>5. pending \in {0, 1} /\ (pending = 1 => left > 0)
    <2>1. CASE job[p].at = "apply"
      <3>1. job[p].todo # <<>> /\ job[p].todo \in Seq(Contents)
        BY <1>1, <2>1 DEF TypeOK, JobType, Job
      <3>2. left > 0
        BY <3>1, EmptySeq, <1>2
      <3> QED BY <2>1, <3>2 DEF Open
    <2>2. CASE job[p].at # "apply"
      BY <2>2 DEF Open
    <2> QED BY <2>1, <2>2
  <1>6. Complete(p) => pending = 0 /\ left = 0
    <2> SUFFICES ASSUME Complete(p) PROVE pending = 0 /\ left = 0
      OBVIOUS
    <2>1. job[p].at = "next" /\ job[p].todo = <<>>
      BY DEF Complete
    <2> QED BY <2>1 DEF Open
  <1> HIDE DEF t, size, left, pending
  <1>7. t.in - (t.out + t.skipped + t.dead) = pending
    BY <1>3, <1>4, <1>5
  <1>8. t.in <= size /\ (pending = 0 /\ left = 0 => t.in = size)
    <2>1. CASE pending = 0
      <3>1. t.in + left = size
        BY <1>2, <1>3, <1>4, <2>1
      <3> QED BY <1>2, <1>3, <3>1
    <2>2. CASE pending = 1
      <3>1. t.in + left = size + 1 /\ left > 0
        BY <1>4, <1>5, <2>2
      <3> QED BY <1>2, <1>3, <2>2, <3>1
    <2> QED BY <1>5, <2>1, <2>2
  <1> QED BY <1>5, <1>6, <1>7, <1>8 DEF t, size

LEMMA CountInvStep ==
  ASSUME TypeOK, Grows, CountInv, [Next]_vars
  PROVE  CountInv'
  <1>1. CountingInv'
    BY NextCounts DEF CountInv
  <1> DEFINE Open2(t) == t.in - (t.out + t.skipped + t.dead)
             Adds(row) == /\ row.status = "completed" =>
                               Open2(row.tally) = 0 /\ row.tally.in = Len(row.input)
                          /\ row.status = "failed" =>
                               Open2(row.tally) \in {0, 1} /\ row.tally.in <= Len(row.input)
  <1>2. ASSUME NEW r \in DOMAIN runs' PROVE Adds(runs'[r])
    <2>1. CASE runs'[r].status = "running"
      BY <2>1
    <2>2. CASE r \in DOMAIN runs /\ runs'[r] = runs[r]
      BY <2>2 DEF CountInv, RunsAddUp
    <2>3. ASSUME NEW p \in Processes, r = job[p].run, r \in DOMAIN runs, r # 0,
                 runs'[r].tally = job[p].tally,
                 Complete(p) \/ (Fail(p) /\ runs'[r].status = "failed")
          PROVE  Adds(runs'[r])
      <3>1. runs'[r].input = runs[r].input
        BY <2>3 DEF Grows
      <3>2. /\ Open2(job[p].tally) \in {0, 1} /\ job[p].tally.in <= Len(runs[r].input)
            /\ Complete(p) => Open2(job[p].tally) = 0 /\ job[p].tally.in = Len(runs[r].input)
        BY <2>3, ClosingCounts DEF CountInv
      <3> HIDE DEF Open2
      <3>3. runs'[r].status = "completed" => Complete(p)
        BY <2>3
      <3> QED BY <2>3, <3>1, <3>2, <3>3
    <2> HIDE DEF Adds
    <2> QED BY <2>1, <2>2, <2>3, ClosedStep
  <1> QED BY <1>1, <1>2 DEF CountInv, RunsAddUp

\* The counts of a closed run add up: each record it read is out, skipped or
\* dead, but for the one a failed run failed on.
THEOREM CountsAddUp == Spec => []RunsAddUp
  <1>1. Init => TypeOK /\ CountInv
    <2> SUFFICES ASSUME Init PROVE CountInv
      BY InitType
    <2>1. DOMAIN runs = {} /\ \A p \in Processes : job[p].run = 0
      BY DEF Init, Idle
    <2> QED BY <2>1 DEF CountInv, RunsAddUp, CountingInv
  <1>2. TypeOK /\ CountInv /\ [Next]_vars => TypeOK' /\ CountInv'
    BY NextType, StepGrows, CountInvStep
  <1>3. CountInv => RunsAddUp
    BY DEF CountInv
  <1> QED BY <1>1, <1>2, <1>3, PTL DEF Spec

=============================================================================
