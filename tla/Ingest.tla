--------------------------------- MODULE Ingest ---------------------------------
(***************************************************************************)
(* backend/ingest/ingestor.py with the control plane of                    *)
(* backend/ingest/store.py: a run takes the records of a source file one   *)
(* by one through a mapping spec into the store, keeps a ledger of the     *)
(* contents it has processed, dead-letters the records it cannot map and   *)
(* closes its row with its counts; a push does the same for one record     *)
(* that the API is handed.                                                 *)
(*                                                                         *)
(* The store is AtomicGraph: what add_node() does inside is the subject of *)
(* GraphStore.  Every commit is a step here, so that a process can die, or *)
(* another one act, between any two of them.                               *)
(*                                                                         *)
(* A content is a record as read at some time, with what the mapping spec  *)
(* makes of it: the writes of its node and edge rules, in their order, and *)
(* for each LLM block the writes of the items it returns.  The rules a     *)
(* "when" clause filters out are not among them.                           *)
(***************************************************************************)
EXTENDS GraphTypes, SequencesExt

CONSTANTS
  Api,         \* the API process, which takes pushes
  Importers,   \* the processes of "python -m backend.ingest run"
  Versions,    \* spec versions
  Contents,    \* the contents the records may have
  Files,       \* what the source file may hold
  MaxOps       \* bound on the runs, pushes and changes of the file

NodeWrite == [does: {"node"}, batch: Batch]
EdgeWrite == [does: {"edge"}, from: Nodes, to: Nodes]
\* A rule that raises RecordError: a required field is missing, or a
\* transformer or an id template fails on the record.
Malformed == [does |-> "raise"]
Writes == NodeWrite \cup EdgeWrite \cup {Malformed}

\* identified: the id template of the first node rule can be rendered.
Content == [record: Records, identified: BOOLEAN,
            mapped: Seq(Writes), blocks: Seq(Seq(Writes))]

\* The traces a content leaves name its record.
NamesItself(c) ==
  \A writes \in {c.mapped} \cup ToSet(c.blocks) : \A wr \in ToSet(writes) :
    wr.does = "node" => wr.batch.trace.source = c.record

ASSUME IngestAssumption ==
  /\ Api \notin Importers
  /\ Contents \subseteq Content
  /\ \A c \in Contents : NamesItself(c)
  /\ Files \subseteq Seq(Contents) /\ Files # {}
  /\ Versions # {}
  /\ MaxOps \in Nat

VARIABLES
  graph, traces, queue, settled,   \* AtomicGraph
  edges,     \* the edges, each with the record that asserted it
  sources,   \* source_records: the content last saved for a record
  ledger,    \* ingest_runs_records: <<version, content>> processed
  dead,      \* dead_letter: <<run, content>>
  runs,      \* ingest_runs
  job,       \* [Processes -> Job], what each process is doing
  file,      \* the source file
  started    \* runs, pushes and file changes so far

store == <<graph, traces, queue, settled>>
control == <<ledger, dead, runs>>
vars == <<store, edges, sources, control, job, file, started>>

Store == INSTANCE AtomicGraph

Processes == Importers \cup {Api}

-----------------------------------------------------------------------------
(* Data *)

Tally == [in: Nat, out: Nat, skipped: Nat, dead: Nat]
Zero == [in |-> 0, out |-> 0, skipped |-> 0, dead |-> 0]

\* A row of ingest_runs.  The counts are written when the run is closed;
\* input is what the run was to read, which the row only points at.
RunRow == [status: {"running", "completed", "failed"}, version: Versions,
           input: Seq(Contents), tally: Tally]

\* run is 0 for a push; todo starts with the record in hand.
Job == [at: {"idle", "next", "apply"}, version: Versions, run: Nat,
        todo: Seq(Contents), writes: Seq(Writes), blocks: Seq(Seq(Writes)),
        tally: Tally]

Idle == [at |-> "idle", version |-> CHOOSE v \in Versions : TRUE, run |-> 0,
         todo |-> <<>>, writes |-> <<>>, blocks |-> <<>>, tally |-> Zero]

Start(p) ==
  /\ job[p].at = "idle"
  /\ started < MaxOps
  /\ started' = started + 1

InHand(p) == Head(job[p].todo)

\* Mutant of AlreadySeen: the ledger is asked for the record, not its content.
RecordSeen(v, c) == \E e \in ledger : e[1] = v /\ e[2].record = c.record

AlreadySeen(v, c) == <<v, c>> \in ledger

\* Save the record, then start on what the spec makes of it.
Begin(p, j, c) ==
  /\ sources' = [sources EXCEPT ![c.record] = {c}]
  /\ job' = [job EXCEPT ![p] = [j EXCEPT !.at = "apply", !.writes = c.mapped,
                                         !.blocks = c.blocks]]

\* Done with the record in hand, with one more of the given count.
Past(j, count) == [j EXCEPT !.at = "next", !.todo = Tail(@), !.writes = <<>>,
                            !.blocks = <<>>, !.tally[count] = @ + 1]

Advance(p, count) == job' = [job EXCEPT ![p] = Past(@, count)]

Quit(p) == job' = [job EXCEPT ![p] = Idle]

CloseRun(p, status) ==
  runs' = [runs EXCEPT ![job[p].run].status = status, ![job[p].run].tally = job[p].tally]

-----------------------------------------------------------------------------
(* A batch run *)

\* open_run(), and the file is read, up to the limit given.
Run(p, v, limit) ==
  LET input == SubSeq(file, 1, limit)
  IN /\ p \in Importers
     /\ Start(p)
     /\ runs' = Append(runs, [status |-> "running", version |-> v,
                              input |-> input, tally |-> Zero])
     /\ job' = [job EXCEPT ![p] = [Idle EXCEPT !.at = "next", !.version = v,
                                               !.run = Len(runs) + 1, !.todo = input]]
     /\ UNCHANGED <<store, edges, sources, ledger, dead, file>>

\* _process_record() up to the source record.  A record without an id is
\* dead-lettered and leaves nothing else.
Take(p) ==
  LET j == [job[p] EXCEPT !.tally.in = @ + 1]
      c == InHand(p)
  IN /\ job[p].at = "next"
     /\ job[p].todo # <<>>
     /\ \/ /\ ~ c.identified
           /\ dead' = dead \cup {<<j.run, c>>}
           /\ job' = [job EXCEPT ![p] = Past(j, "dead")]
           /\ UNCHANGED sources
        \/ /\ c.identified /\ AlreadySeen(j.version, c)
           /\ job' = [job EXCEPT ![p] = Past(j, "skipped")]
           /\ UNCHANGED <<dead, sources>>
        \/ /\ c.identified /\ ~ AlreadySeen(j.version, c)
           /\ Begin(p, j, c)
           /\ UNCHANGED dead
     /\ UNCHANGED <<store, edges, ledger, runs, file, started>>

Complete(p) ==
  /\ job[p].at = "next"
  /\ job[p].todo = <<>>
  /\ CloseRun(p, "completed")
  /\ Quit(p)
  /\ UNCHANGED <<store, edges, sources, ledger, dead, file, started>>

-----------------------------------------------------------------------------
(* A push: apply_record() *)

\* A body whose id does not render or does not match is refused before
\* anything is written; a content in the ledger is skipped.
Push(v, c) ==
  /\ c.identified
  /\ Start(Api)
  /\ IF AlreadySeen(v, c)
       THEN UNCHANGED <<sources, job>>
       ELSE Begin(Api, [Idle EXCEPT !.version = v, !.todo = <<c>>], c)
  /\ UNCHANGED <<store, edges, control, file>>

-----------------------------------------------------------------------------
(* What both do with a record: node rules, edge rules, LLM blocks *)

Applying(p, does) ==
  /\ job[p].at = "apply"
  /\ job[p].writes # <<>>
  /\ Head(job[p].writes).does = does

Written(p) == job' = [job EXCEPT ![p].writes = Tail(@)]

ApplyNode(p) ==
  /\ Applying(p, "node")
  /\ Store!Assert(Head(job[p].writes).batch)
  /\ Written(p)
  /\ UNCHANGED <<edges, sources, control, file, started>>

\* add_edge(): MATCH finds both endpoints.
ApplyEdge(p) ==
  LET e == Head(job[p].writes)
  IN /\ Applying(p, "edge")
     /\ graph[e.from] # NoNode /\ graph[e.to] # NoNode
     /\ edges' = edges \cup {[from |-> e.from, to |-> e.to, source |-> InHand(p).record]}
     /\ Written(p)
     /\ UNCHANGED <<store, sources, control, file, started>>

\* Mutant of DeadLetter: a push is dead-lettered as well.
DeadLetterAlways(p) ==
  /\ Applying(p, "raise")
  /\ IF job[p].run = 0 THEN Quit(p) ELSE Advance(p, "dead")
  /\ dead' = dead \cup {<<job[p].run, InHand(p)>>}
  /\ UNCHANGED <<store, edges, sources, ledger, runs, file, started>>

\* A RecordError: what the record has written so far stays.  A run
\* dead-letters it, a push answers 400.
DeadLetter(p) ==
  /\ Applying(p, "raise")
  /\ IF job[p].run = 0
       THEN Quit(p) /\ UNCHANGED dead
       ELSE Advance(p, "dead") /\ dead' = dead \cup {<<job[p].run, InHand(p)>>}
  /\ UNCHANGED <<store, edges, sources, ledger, runs, file, started>>

\* The model answers, or an LLMError skips the block for this record.
CallLLM(p) ==
  /\ job[p].at = "apply"
  /\ job[p].writes = <<>> /\ job[p].blocks # <<>>
  /\ \E answer \in {Head(job[p].blocks), <<>>} :
       job' = [job EXCEPT ![p].writes = answer, ![p].blocks = Tail(@)]
  /\ UNCHANGED <<store, edges, sources, control, file, started>>

\* Mutant of MarkSeen: the marker does not wait for the writes of the record.
MarkSeenEarly(p) ==
  /\ job[p].at = "apply"
  /\ ledger' = IF job[p].run = 0 THEN ledger
                 ELSE ledger \cup {<<job[p].version, InHand(p)>>}
  /\ IF job[p].run = 0 THEN Quit(p) ELSE Advance(p, "out")
  /\ UNCHANGED <<store, edges, sources, dead, runs, file, started>>

\* A run marks the content as seen once everything is written; a push does not.
MarkSeen(p) ==
  LET entry == <<job[p].version, InHand(p)>>
  IN /\ job[p].at = "apply"
     /\ job[p].writes = <<>> /\ job[p].blocks = <<>>
     /\ IF job[p].run = 0
          THEN Quit(p) /\ UNCHANGED ledger
          ELSE Advance(p, "out") /\ ledger' = ledger \cup {entry}
     /\ UNCHANGED <<store, edges, sources, dead, runs, file, started>>

-----------------------------------------------------------------------------
(* Failures and the environment *)

\* Mutant of Fail: the status set on an exception is forgotten.
FailAsCompleted(p) ==
  /\ job[p].at # "idle"
  /\ IF job[p].run = 0 THEN UNCHANGED runs ELSE CloseRun(p, "completed")
  /\ Quit(p)
  /\ UNCHANGED <<store, edges, sources, ledger, dead, file, started>>

\* Any other exception, from either store or from reading the file: the run
\* is closed as failed, what was written stays.
Fail(p) ==
  /\ job[p].at # "idle"
  /\ IF job[p].run = 0 THEN UNCHANGED runs ELSE CloseRun(p, "failed")
  /\ Quit(p)
  /\ UNCHANGED <<store, edges, sources, ledger, dead, file, started>>

\* The process dies; its row stays "running".
Crash(p) ==
  /\ job[p].at # "idle"
  /\ Quit(p)
  /\ UNCHANGED <<store, edges, sources, control, file, started>>

\* The source exports its records again.
ChangeFile(f) ==
  /\ started < MaxOps
  /\ started' = started + 1
  /\ f # file
  /\ file' = f
  /\ UNCHANGED <<store, edges, sources, control, job>>

-----------------------------------------------------------------------------
Init ==
  /\ Store!Init
  /\ edges = {} /\ ledger = {} /\ dead = {}
  /\ sources = [r \in Records |-> {}]
  /\ runs = <<>>
  /\ job = [p \in Processes |-> Idle]
  /\ file \in Files
  /\ started = 0

Step(p) ==
  \/ \E v \in Versions, limit \in 0..Len(file) : Run(p, v, limit)
  \/ Take(p) \/ Complete(p)
  \/ ApplyNode(p) \/ ApplyEdge(p) \/ DeadLetter(p) \/ CallLLM(p) \/ MarkSeen(p)
  \/ Fail(p) \/ Crash(p)

Next ==
  \/ \E p \in Processes : Step(p)
  \/ \E v \in Versions, c \in Contents : Push(v, c)
  \/ \E f \in Files : ChangeFile(f)

Spec == Init /\ [][Next]_vars

-----------------------------------------------------------------------------
(* Properties *)

StoreType ==
  /\ graph \in [Nodes -> Node]
  /\ traces \in Seq(Trace)
  /\ queue \subseteq ConflictRow /\ settled \subseteq ConflictRow
  /\ edges \subseteq [from: Nodes, to: Nodes, source: Records]
  /\ sources \in [Records -> SUBSET Contents]

RunsType ==
  /\ ledger \subseteq Versions \X Contents
  /\ runs \in Seq(RunRow)
  /\ dead \subseteq (DOMAIN runs) \X Contents
  /\ file \in Files
  /\ started \in 0..MaxOps

\* A process at work has a record in hand, and one between two records has a
\* run to close.
JobType ==
  /\ job \in [Processes -> Job]
  /\ \A p \in Processes :
       /\ job[p].run \in {0} \cup DOMAIN runs
       /\ job[p].at = "apply" => job[p].todo # <<>>
       /\ job[p].at = "next" => job[p].run # 0

\* The variables stay in their types; a dead letter names a run.
TypeOK == StoreType /\ RunsType /\ JobType

\* What a write of content c leaves behind.
Left(wr, c) ==
  \/ wr.does = "node" /\ \E k \in DOMAIN traces : traces[k] = wr.batch.trace
  \/ wr.does = "edge" /\ [from |-> wr.from, to |-> wr.to, source |-> c.record] \in edges

\* The ledger never runs ahead of the store: a content that later runs will
\* skip has its record saved and every write of its node and edge rules
\* made, whatever crashed or failed on the way.
LedgerMeansApplied ==
  \A e \in ledger :
    /\ sources[e[2].record] # {}
    /\ \A wr \in ToSet(e[2].mapped) : Left(wr, e[2])

\* A run that says "completed" has dealt with every record it was to read: it
\* is in the ledger as it was in the file, or among the run's dead letters.
CompletedRunCovers ==
  \A r \in DOMAIN runs : runs[r].status = "completed" =>
    \A c \in ToSet(runs[r].input) : <<runs[r].version, c>> \in ledger \/ <<r, c>> \in dead

\* The counts of a closed run add up; a failed one may lack the record it
\* failed on.
RunsAddUp ==
  \A r \in DOMAIN runs :
    LET t == runs[r].tally
        open == t.in - (t.out + t.skipped + t.dead)
    IN /\ runs[r].status = "completed" => open = 0 /\ t.in = Len(runs[r].input)
       /\ runs[r].status = "failed" => open \in {0, 1} /\ t.in <= Len(runs[r].input)

-----------------------------------------------------------------------------
(* What makes LedgerMeansApplied, CompletedRunCovers and RunsAddUp inductive *)

\* A record in hand has been saved, and each of its writes is made or to come.
ApplyingInv ==
  \A p \in Processes : job[p].at = "apply" =>
    /\ sources[InHand(p).record] # {}
    /\ \A wr \in ToSet(InHand(p).mapped) : Left(wr, InHand(p)) \/ wr \in ToSet(job[p].writes)

\* A run has dealt with all of its input but what it has still to do.
ReadingInv ==
  \A p \in Processes : job[p].run # 0 =>
    LET row == runs[job[p].run]
    IN /\ row.version = job[p].version
       /\ \A c \in ToSet(row.input) :
            \/ <<row.version, c>> \in ledger \/ <<job[p].run, c>> \in dead
            \/ c \in ToSet(job[p].todo)

\* The record in hand is counted as read, and as nothing else so far.
Open(j) == IF j.at = "apply" THEN 1 ELSE 0

CountingInv ==
  \A p \in Processes : job[p].run # 0 =>
    LET t == job[p].tally
    IN /\ t.in = t.out + t.skipped + t.dead + Open(job[p])
       /\ t.in + Len(job[p].todo) = Len(runs[job[p].run].input) + Open(job[p])
=============================================================================
