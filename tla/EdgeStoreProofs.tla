----------------------------- MODULE EdgeStoreProofs -----------------------------
(***************************************************************************)
(* Theorems about EdgeStore, for any persons, emails, organizations,       *)
(* mapping specs and processes, and with every fault.                      *)
(***************************************************************************)
EXTENDS EdgeStore, TLAPS

(* The type invariant in parts *)

DataType ==
  /\ nodes \subseteq Nodes
  /\ email \in [Persons -> Email] /\ office \in [Persons -> Orgs \cup {NoOrg}]
  /\ edges \subseteq written /\ written \subseteq Ids /\ severed \subseteq Ids
  /\ traces \subseteq Nodes \cup Ids

LockType ==
  /\ tx.by \in Writers \cup {NoWriter} /\ tx.rows \subseteq Nodes \cup Ids
  /\ tx.by = NoWriter => tx.rows = {}

\* An edge is in hand exactly while add_edge() runs.
InHand(j) ==
  IF j.at \in {"stage", "merge", "commit", "compensate"}
    THEN \E e \in j.edges : j.edge = {e}
    ELSE j.edge = {}

JobType == job \in [Writers -> Job] /\ \A w \in Writers : InHand(job[w])

LEMMA TypeParts == TypeOK <=> DataType /\ LockType /\ JobType /\ started \in 0..MaxOps
  BY DEF TypeOK, DataType, LockType, JobType, InHand

LEMMA NextTypeParts ==
  ASSUME DataType', LockType', JobType', started' \in 0..MaxOps
  PROVE  TypeOK'
  BY DEF TypeOK, DataType, LockType, JobType, InHand

-----------------------------------------------------------------------------
(* Edges and ids *)

LEMMA Places ==
  /\ Category \in [Persons -> Orgs \cup {NoOrg}] /\ LocationFor \in [Persons -> Orgs]
  /\ Persons \subseteq Nodes /\ Orgs \subseteq Nodes
  BY EdgeStoreAssumption DEF Nodes

LEMMA IdType ==
  ASSUME NEW e \in Edge
  PROVE  /\ IdOf(e) \in Ids /\ IdOf(e).src = e.src /\ IdOf(e).tgt = e.tgt
         /\ IdOf(e).rel = e.rel
         /\ TraceOf(e) \subseteq {IdOf(e)} /\ TraceOf(e) \subseteq Ids
  BY DEF IdOf, Ids, TraceOf

LEMMA IdEnds ==
  ASSUME NEW id \in Ids
  PROVE  id.src \in Nodes /\ id.tgt \in Nodes
  <1>1. PICK e \in Edge : id = IdOf(e)
    BY DEF Ids
  <1>2. id.src = e.src /\ id.tgt = e.tgt
    BY <1>1 DEF IdOf
  <1> QED BY <1>2 DEF Edge

\* The edge in hand.
LEMMA HandEdge ==
  ASSUME JobType, NEW w \in Writers, job[w].at \in {"stage", "merge", "commit", "compensate"}
  PROVE  /\ TheEdge(w) \in job[w].edges /\ TheEdge(w) \in Edge
         /\ job[w].edge = {TheEdge(w)}
  <1>1. PICK e \in job[w].edges : job[w].edge = {e}
    BY DEF JobType, InHand
  <1>2. TheEdge(w) = e
    BY <1>1 DEF TheEdge
  <1>3. job[w].edges \subseteq Edge
    BY DEF JobType, Job
  <1> QED BY <1>1, <1>2, <1>3

LEMMA WriterIsNotNobody ==
  ASSUME NEW w \in Writers
  PROVE  w # NoWriter
  BY EdgeStoreAssumption

-----------------------------------------------------------------------------
(* SQLite *)

\* The transaction of a process ends and the others' goes on.
LEMMA EndTxType ==
  ASSUME LockType, NEW w \in Writers, EndTx(w)
  PROVE  /\ LockType' /\ tx'.rows \subseteq tx.rows /\ tx'.by # w
         /\ \A v \in Writers : v # w => (Mine(v))' = Mine(v)
         /\ (tx'.by # NoWriter => tx' = tx) /\ (tx.by # w => tx' = tx)
  BY WriterIsNotNobody DEF LockType, EndTx, NoTx, Mine

LEMMA MineType ==
  ASSUME LockType, NEW w \in Writers
  PROVE  Mine(w) \subseteq Nodes \cup Ids /\ Mine(w) \subseteq tx.rows
  BY DEF LockType, Mine

\* add_node() and edit_node() take the lock and give it back.
LEMMA NoTxType ==
  ASSUME LockType, NEW w \in Writers, CanWrite(w), tx' = NoTx
  PROVE  LockType' /\ \A v \in Writers : v # w => (Mine(v))' = Mine(v)
  BY WriterIsNotNobody DEF LockType, NoTx, Mine, CanWrite

LEMMA PublishType ==
  ASSUME DataType, LockType, NEW w \in Writers, Publish(w)
  PROVE  LockType' /\ traces' = traces \cup Mine(w) /\ traces' \subseteq Nodes \cup Ids
  BY EndTxType, MineType DEF Publish, DataType

-----------------------------------------------------------------------------
(* Control *)

LEMMA IdleType == Idle \in Job /\ InHand(Idle) /\ Idle.edge = {} /\ Idle.edges = {}
  BY DEF Idle, Job, Steps, InHand, Email, Unknown

LEMMA SetJob ==
  ASSUME JobType, NEW w \in Writers, NEW j \in Job, InHand(j), job' = [job EXCEPT ![w] = j]
  PROVE  JobType' /\ job'[w] = j /\ \A v \in Writers : v # w => job'[v] = job[v]
  BY DEF JobType

LEMMA GotoJob ==
  ASSUME JobType, NEW w \in Writers, NEW s \in Steps, Goto(w, s),
         InHand([job[w] EXCEPT !.at = s])
  PROVE  /\ JobType' /\ job'[w] = [job[w] EXCEPT !.at = s]
         /\ \A v \in Writers : v # w => job'[v] = job[v]
  <1>1. job[w] \in Job
    BY DEF JobType
  <1>2. [job[w] EXCEPT !.at = s] \in Job
    BY <1>1 DEF Job
  <1>3. job' = [job EXCEPT ![w] = [job[w] EXCEPT !.at = s]]
    BY DEF Goto, JobType
  <1> QED BY <1>2, <1>3, SetJob

LEMMA FinishJob ==
  ASSUME JobType, NEW w \in Writers, Finish(w)
  PROVE  JobType' /\ job'[w] = Idle /\ \A v \in Writers : v # w => job'[v] = job[v]
  BY IdleType, SetJob DEF Finish

LEMMA StartCount ==
  ASSUME started \in 0..MaxOps, started < MaxOps, started' = started + 1
  PROVE  started' \in 0..MaxOps
  <1> MaxOps \in Nat
    BY EdgeStoreAssumption
  <1> QED OBVIOUS

LEMMA StartJob ==
  ASSUME JobType, started \in 0..MaxOps, NEW w \in Writers, NEW j \in Job, InHand(j), Start(w, j)
  PROVE  /\ JobType' /\ job'[w] = j /\ \A v \in Writers : v # w => job'[v] = job[v]
         /\ started' \in 0..MaxOps
  BY SetJob, StartCount DEF Start

\* A program ends, with or without a rollback.
LEMMA RaiseStep ==
  ASSUME JobType, LockType, NEW w \in Writers, Abort(w) \/ Raise(w)
  PROVE  /\ JobType' /\ LockType' /\ UNCHANGED traces
         /\ job'[w] = Idle /\ (\A v \in Writers : v # w => job'[v] = job[v])
         /\ tx' = tx \/ EndTx(w)
  <1>1. CASE Finish(w) /\ UNCHANGED sqlite
    BY <1>1, FinishJob DEF sqlite, LockType
  <1>2. CASE Abort(w)
    BY <1>2, FinishJob, EndTxType DEF Abort, Rollback
  <1> QED BY <1>1, <1>2 DEF Raise

-----------------------------------------------------------------------------
(* Types, one lemma per action *)

LEMMA InitTypes == Init => TypeOK
  <1> SUFFICES ASSUME Init PROVE TypeOK
    OBVIOUS
  <1>1. DataType
    BY DEF Init, DataType, Email, Unknown
  <1>2. LockType
    BY DEF Init, LockType, NoTx
  <1>3. JobType
    BY IdleType DEF Init, JobType
  <1>4. MaxOps \in Nat
    BY EdgeStoreAssumption
  <1>5. started \in 0..MaxOps
    BY <1>4 DEF Init
  <1> QED BY <1>1, <1>2, <1>3, <1>5, TypeParts

LEMMA WritePersonType ==
  ASSUME TypeOK, NEW w \in Writers, NEW in \in Incoming, WritePerson(w, in)
  PROVE  TypeOK'
  <1>1. in.node \in Persons /\ in.email \in Email
    BY EdgeStoreAssumption
  <1>2. Mine(w) \subseteq Nodes \cup Ids /\ LockType'
    BY MineType, NoTxType, TypeParts DEF WritePerson
  <1>3. email' \in [Persons -> Email]
    BY <1>1, TypeParts DEF WritePerson, DataType
  <1>4. DataType'
    BY <1>1, <1>2, <1>3, TypeParts DEF WritePerson, DataType, history, Nodes
  <1>5. JobType' /\ started' \in 0..MaxOps
    BY TypeParts, StartCount DEF WritePerson, JobType
  <1> QED BY <1>2, <1>4, <1>5, NextTypeParts

LEMMA LoseNodeType ==
  ASSUME TypeOK, NEW w \in Writers, NEW n \in Persons, LoseNode(w, n)
  PROVE  TypeOK'
  <1>1. LockType' /\ traces' = traces
    <2>1. CASE Rollback(w)
      BY <2>1, EndTxType, TypeParts DEF Rollback
    <2>2. CASE tx' = [by |-> w, rows |-> Mine(w) \cup {n}] /\ UNCHANGED traces
      BY <2>2, MineType, WriterIsNotNobody, TypeParts DEF LockType, Nodes
    <2> QED BY <2>1, <2>2 DEF LoseNode
  <1>2. email' \in [Persons -> Email] /\ office' \in [Persons -> Orgs \cup {NoOrg}]
    BY TypeParts DEF LoseNode, DataType, Email, Unknown
  <1>3. DataType'
    BY <1>1, <1>2, TypeParts DEF LoseNode, DataType
  <1>4. JobType' /\ started' \in 0..MaxOps
    BY TypeParts, StartCount DEF LoseNode, JobType
  <1> QED BY <1>1, <1>3, <1>4, NextTypeParts

LEMMA PickEdgeType ==
  ASSUME TypeOK, NEW w \in Writers, NEW e \in job[w].edges, PickEdge(w, e)
  PROVE  /\ TypeOK' /\ job'[w] = [job[w] EXCEPT !.at = "stage", !.edge = {e}]
         /\ \A v \in Writers : v # w => job'[v] = job[v]
  <1> DEFINE j == [job[w] EXCEPT !.at = "stage", !.edge = {e}]
  <1>1. job[w] \in Job /\ e \in Edge
    BY TypeParts DEF JobType, Job
  <1>2. j \in Job /\ InHand(j)
    BY <1>1 DEF Job, Steps, InHand
  <1>3. job' = [job EXCEPT ![w] = j]
    BY <1>1 DEF PickEdge
  <1> HIDE DEF j
  <1>4. JobType' /\ job'[w] = j /\ \A v \in Writers : v # w => job'[v] = job[v]
    BY <1>2, <1>3, SetJob, TypeParts
  <1>5. LockType' /\ traces' \subseteq Nodes \cup Ids
    <2>1. CASE Publish(w)
      BY <2>1, PublishType, TypeParts
    <2>2. CASE UNCHANGED sqlite
      BY <2>2, TypeParts DEF sqlite, LockType, DataType
    <2> QED BY <2>1, <2>2 DEF PickEdge
  <1>6. DataType' /\ started' \in 0..MaxOps
    BY <1>5, TypeParts DEF PickEdge, DataType, people, history
  <1> QED BY <1>4, <1>5, <1>6, NextTypeParts DEF j

LEMMA StageEdgeType ==
  ASSUME TypeOK, NEW w \in Writers, StageEdge(w)
  PROVE  /\ TypeOK' /\ job'[w] = [job[w] EXCEPT !.at = "merge"]
         /\ \A v \in Writers : v # w => job'[v] = job[v]
         /\ \A v \in Writers : v # w => (Mine(v))' = Mine(v)
         /\ (Mine(w))' = Mine(w) \cup TraceOf(TheEdge(w))
  <1>1. TheEdge(w) \in Edge /\ TraceOf(TheEdge(w)) \subseteq Ids
    BY HandEdge, IdType, TypeParts DEF StageEdge
  <1>2. InHand([job[w] EXCEPT !.at = "merge"])
    BY TypeParts DEF StageEdge, JobType, InHand, Job
  <1>3. /\ JobType' /\ job'[w] = [job[w] EXCEPT !.at = "merge"]
        /\ \A v \in Writers : v # w => job'[v] = job[v]
    BY <1>2, GotoJob, TypeParts DEF StageEdge, Steps
  <1>4. /\ LockType' /\ \A v \in Writers : v # w => (Mine(v))' = Mine(v)
        /\ (Mine(w))' = Mine(w) \cup TraceOf(TheEdge(w))
    <2>1. CASE UNCHANGED tx /\ TraceOf(TheEdge(w)) = {}
      BY <2>1, TypeParts DEF LockType, Mine
    <2>2. CASE CanWrite(w) /\ tx' = [by |-> w, rows |-> Mine(w) \cup TraceOf(TheEdge(w))]
      BY <1>1, <2>2, MineType, WriterIsNotNobody, TypeParts DEF LockType, Mine, CanWrite
    <2> QED BY <2>1, <2>2 DEF StageEdge
  <1>5. DataType' /\ started' \in 0..MaxOps
    BY TypeParts DEF StageEdge, DataType, people, history
  <1> QED BY <1>3, <1>4, <1>5, NextTypeParts

LEMMA MergeEdgeType ==
  ASSUME TypeOK, NEW w \in Writers, MergeEdge(w)
  PROVE  TypeOK' /\ \A v \in Writers : v # w => job'[v] = job[v]
  <1>1. TheEdge(w) \in Edge /\ IdOf(TheEdge(w)) \in Ids
    BY HandEdge, IdType, TypeParts DEF MergeEdge
  <1>2. CASE Matched(TheEdge(w))
    <2>1. InHand([job[w] EXCEPT !.at = "commit"])
      BY TypeParts DEF MergeEdge, JobType, InHand, Job
    <2>2. JobType' /\ \A v \in Writers : v # w => job'[v] = job[v]
      BY <1>2, <2>1, GotoJob, TypeParts DEF MergeEdge, Steps
    <2>3. DataType' /\ LockType' /\ started' \in 0..MaxOps
      BY <1>1, <1>2, TypeParts DEF MergeEdge, DataType, LockType, people, sqlite
    <2> QED BY <2>2, <2>3, NextTypeParts
  <1>3. CASE ~ Matched(TheEdge(w))
    <2>1. /\ JobType' /\ LockType' /\ UNCHANGED traces
          /\ \A v \in Writers : v # w => job'[v] = job[v]
      BY <1>3, RaiseStep, TypeParts DEF MergeEdge
    <2>2. DataType' /\ started' \in 0..MaxOps
      BY <1>3, <2>1, TypeParts DEF MergeEdge, DataType, people
    <2> QED BY <2>1, <2>2, NextTypeParts
  <1> QED BY <1>2, <1>3

LEMMA CommitEdgeType ==
  ASSUME TypeOK, NEW w \in Writers, CommitEdge(w)
  PROVE  /\ TypeOK'
         /\ job'[w].at = "next" /\ job'[w].edges = job[w].edges \ job[w].edge
         /\ job'[w].read = job[w].read /\ job'[w].does = job[w].does
         /\ \A v \in Writers : v # w => job'[v] = job[v]
  <1> DEFINE j == [job[w] EXCEPT !.at = "next", !.edges = @ \ job[w].edge, !.edge = {}]
  <1>1. job[w] \in Job
    BY TypeParts DEF JobType
  <1>2. /\ j \in Job /\ InHand(j) /\ j.at = "next" /\ j.edges = job[w].edges \ job[w].edge
        /\ j.read = job[w].read /\ j.does = job[w].does
    BY <1>1 DEF Job, Steps, InHand
  <1>3. job' = [job EXCEPT ![w] = j]
    BY <1>1 DEF CommitEdge
  <1> HIDE DEF j
  <1>4. JobType' /\ job'[w] = j /\ \A v \in Writers : v # w => job'[v] = job[v]
    BY <1>2, <1>3, SetJob, TypeParts
  <1>5. LockType' /\ traces' \subseteq Nodes \cup Ids
    BY PublishType, TypeParts DEF CommitEdge
  <1>6. DataType' /\ started' \in 0..MaxOps
    BY <1>5, TypeParts DEF CommitEdge, DataType, people
  <1> QED BY <1>2, <1>4, <1>5, <1>6, NextTypeParts

LEMMA CompensateEdgeType ==
  ASSUME TypeOK, NEW w \in Writers, CompensateEdge(w)
  PROVE  TypeOK'
  <1>1. IdOf(TheEdge(w)) \in Ids
    BY HandEdge, IdType, TypeParts DEF CompensateEdge
  <1>2. JobType' /\ LockType' /\ UNCHANGED traces
    BY RaiseStep, TypeParts DEF CompensateEdge
  <1>3. DataType' /\ started' \in 0..MaxOps
    BY <1>1, <1>2, TypeParts DEF CompensateEdge, DataType, people
  <1> QED BY <1>2, <1>3, NextTypeParts

LEMMA IngestEdgeType ==
  ASSUME TypeOK, NEW w \in Writers, NEW e \in SpecEdges, IngestEdge(w, e)
  PROVE  /\ TypeOK' /\ job'[w].at = "next" /\ job'[w].edges = {e} /\ job'[w].does = "ingest"
         /\ \A v \in Writers : v # w => job'[v] = job[v]
  <1> DEFINE j == [Idle EXCEPT !.at = "next", !.edges = {e}]
  <1>1. e \in Edge
    BY EdgeStoreAssumption
  <1>2. j \in Job /\ InHand(j) /\ j.at = "next" /\ j.edges = {e} /\ j.does = "ingest"
    BY <1>1, IdleType DEF Idle, Job, Steps, InHand
  <1>3. Start(w, j)
    BY DEF IngestEdge
  <1> HIDE DEF j
  <1>4. /\ JobType' /\ job'[w] = j /\ \A v \in Writers : v # w => job'[v] = job[v]
        /\ started' \in 0..MaxOps
    BY <1>2, <1>3, StartJob, TypeParts
  <1>5. DataType' /\ LockType'
    BY TypeParts DEF IngestEdge, DataType, LockType, people, sqlite, history
  <1> QED BY <1>2, <1>4, <1>5, NextTypeParts

LEMMA PresentType ==
  ASSUME DataType
  PROVE  Present \in [Persons -> Email]
  BY DEF DataType, Present, Email, Unknown

\* The resolver's edges join persons of one email, in their order.
LEMMA SameAsType ==
  ASSUME NEW read \in [Persons -> Email]
  PROVE  /\ SameAs(read) \subseteq Edge
         /\ \A e \in SameAs(read) : /\ e.rel = "SAME_AS" /\ e.by = "resolver"
                                   /\ e.src \in Persons /\ e.tgt \in Persons
                                   /\ Order[e.src] < Order[e.tgt]
  <1> SUFFICES ASSUME NEW e \in SameAs(read)
               PROVE  /\ e \in Edge /\ e.rel = "SAME_AS" /\ e.by = "resolver"
                      /\ e.src \in Persons /\ e.tgt \in Persons
                      /\ Order[e.src] < Order[e.tgt]
    OBVIOUS
  <1>1. PICK m \in Emails : \E pair \in Pairs(Cluster(read, m)) :
          e = [rel |-> "SAME_AS", src |-> pair[1], tgt |-> pair[2], by |-> "resolver"]
    BY DEF SameAs
  <1>2. PICK pair \in Pairs(Cluster(read, m)) :
          e = [rel |-> "SAME_AS", src |-> pair[1], tgt |-> pair[2], by |-> "resolver"]
    BY <1>1
  <1>3. pair[1] \in Persons /\ pair[2] \in Persons /\ Order[pair[1]] < Order[pair[2]]
    BY DEF Pairs, Cluster
  <1> QED BY <1>2, <1>3 DEF Edge, Nodes

LEMMA ResolveType ==
  ASSUME TypeOK, NEW w \in Writers, Resolve(w)
  PROVE  /\ TypeOK' /\ Present \in [Persons -> Email]
         /\ job'[w].at = "next" /\ job'[w].does = "resolve" /\ job'[w].read = Present
         /\ job'[w].edges = SameAs(Present)
         /\ \A v \in Writers : v # w => job'[v] = job[v]
  <1> DEFINE j == [Idle EXCEPT !.at = "next", !.does = "resolve", !.read = Present,
                               !.edges = SameAs(Present)]
  <1>1. Present \in [Persons -> Email]
    BY PresentType, TypeParts
  <1>2. SameAs(Present) \subseteq Edge
    BY <1>1, SameAsType
  <1>3. /\ j \in Job /\ InHand(j) /\ j.at = "next" /\ j.does = "resolve" /\ j.read = Present
        /\ j.edges = SameAs(Present)
    BY <1>1, <1>2, IdleType DEF Idle, Job, Steps, InHand
  <1>4. Start(w, j)
    BY DEF Resolve
  <1> HIDE DEF j
  <1>5. /\ JobType' /\ job'[w] = j /\ \A v \in Writers : v # w => job'[v] = job[v]
        /\ started' \in 0..MaxOps
    BY <1>3, <1>4, StartJob, TypeParts
  <1>6. DataType' /\ LockType'
    BY TypeParts DEF Resolve, DataType, LockType, people, sqlite, history
  <1> QED BY <1>1, <1>3, <1>5, <1>6, NextTypeParts

LEMMA BootstrapType ==
  ASSUME TypeOK, NEW w \in Writers, Bootstrap(w)
  PROVE  /\ TypeOK' /\ job'[w].at = "locate" /\ job'[w].does = "bootstrap"
         /\ job'[w].edges = {} /\ job'[w].nodes \subseteq Persons
         /\ \A v \in Writers : v # w => job'[v] = job[v]
  <1> DEFINE todo == {p \in Persons \cap nodes : office[p] = NoOrg}
             j == [Idle EXCEPT !.at = "locate", !.does = "bootstrap", !.read = Present,
                               !.nodes = todo]
  <1>1. Present \in [Persons -> Email] /\ todo \subseteq Nodes
    BY PresentType, TypeParts DEF Nodes
  <1>2. j \in Job /\ InHand(j) /\ j.at = "locate" /\ j.does = "bootstrap" /\ j.edges = {}
        /\ j.nodes \subseteq Persons
    BY <1>1, IdleType DEF Idle, Job, Steps, InHand
  <1>3. Start(w, j)
    BY DEF Bootstrap
  <1> HIDE DEF j
  <1>4. /\ JobType' /\ job'[w] = j /\ \A v \in Writers : v # w => job'[v] = job[v]
        /\ started' \in 0..MaxOps
    BY <1>2, <1>3, StartJob, TypeParts
  <1>5. DataType' /\ LockType'
    BY TypeParts DEF Bootstrap, DataType, LockType, people, sqlite, history
  <1> QED BY <1>2, <1>4, <1>5, NextTypeParts

\* What is still to be written of a step that goes through nodes.
LEMMA NodeDone ==
  ASSUME JobType, NEW w \in Writers, job[w].at \in {"locate", "orgs"}, NEW n,
         job' = [job EXCEPT ![w].nodes = @ \ {n}]
  PROVE  /\ JobType' /\ job'[w] = [job[w] EXCEPT !.nodes = @ \ {n}]
         /\ \A v \in Writers : v # w => job'[v] = job[v]
  <1> DEFINE j == [job[w] EXCEPT !.nodes = @ \ {n}]
  <1>1. job[w] \in Job /\ InHand(job[w])
    BY DEF JobType
  <1>2. j \in Job /\ InHand(j)
    BY <1>1 DEF Job, InHand
  <1>3. job' = [job EXCEPT ![w] = j]
    BY <1>1
  <1> HIDE DEF j
  <1>4. JobType' /\ job'[w] = j /\ \A v \in Writers : v # w => job'[v] = job[v]
    BY <1>2, <1>3, SetJob
  <1> QED BY <1>4 DEF j

LEMMA InjectType ==
  ASSUME TypeOK, NEW w \in Writers, NEW p \in job[w].nodes, Inject(w, p)
  PROVE  /\ TypeOK' /\ job'[w] = [job[w] EXCEPT !.nodes = @ \ {p}]
         /\ \A v \in Writers : v # w => job'[v] = job[v]
  <1>1. Mine(w) \subseteq Nodes \cup Ids /\ LockType'
    BY MineType, NoTxType, TypeParts DEF Inject
  <1>2. p \in Nodes /\ (p \in Persons => LocationFor[p] \in Orgs /\ job[w].read[p] \in Email)
    BY Places, TypeParts DEF JobType, Job
  <1>3. Asserted(w, p).email \in [Persons -> Email]
    BY <1>2, TypeParts DEF Asserted, DataType
  <1>4. Asserted(w, p).office \in [Persons -> Orgs \cup {NoOrg}]
    BY <1>2, TypeParts DEF Asserted, DataType
  <1>5. DataType' /\ started' \in 0..MaxOps
    BY <1>1, <1>2, <1>3, <1>4, TypeParts DEF Inject, DataType, history
  <1>6. /\ JobType' /\ job'[w] = [job[w] EXCEPT !.nodes = @ \ {p}]
        /\ \A v \in Writers : v # w => job'[v] = job[v]
    BY NodeDone, TypeParts DEF Inject
  <1> QED BY <1>1, <1>5, <1>6, NextTypeParts

LEMMA OrgsType ==
  ASSUME DataType
  PROVE  \A p \in Persons : OrgsOf(p) \subseteq Orgs
                           /\ {Membership(p, o) : o \in OrgsOf(p)} \subseteq Edge
  <1> SUFFICES ASSUME NEW p \in Persons
               PROVE  OrgsOf(p) \subseteq Orgs
                      /\ {Membership(p, o) : o \in OrgsOf(p)} \subseteq Edge
    OBVIOUS
  <1>1. OrgsOf(p) \subseteq Orgs
    BY Places DEF DataType, OrgsOf
  <1>2. \A o \in Orgs : Membership(p, o) \in Edge
    BY Places DEF Membership, Edge
  <1> QED BY <1>1, <1>2

LEMMA ReloadType ==
  ASSUME TypeOK, NEW w \in Writers, Reload(w)
  PROVE  /\ TypeOK' /\ job'[w].at = "orgs" /\ job'[w].does = job[w].does
         /\ job'[w].nodes \subseteq Orgs
         /\ \A e \in job'[w].edges : e.rel = "MEMBER_OF" /\ e.by = "bootstrap"
         /\ \A v \in Writers : v # w => job'[v] = job[v]
  <1> DEFINE os == UNION {OrgsOf(p) : p \in Persons \cap nodes}
             es == UNION {{Membership(p, o) : o \in OrgsOf(p)} : p \in Persons \cap nodes}
             j == [job[w] EXCEPT !.at = "orgs", !.nodes = os, !.edges = es]
  <1>1. os \subseteq Orgs /\ es \subseteq Edge
    BY OrgsType, TypeParts
  <1>2. \A e \in es : e.rel = "MEMBER_OF" /\ e.by = "bootstrap"
    BY DEF Membership
  <1>3. os \subseteq Nodes
    BY <1>1 DEF Nodes
  <1> HIDE DEF os, es
  <1>4. job[w] \in Job /\ InHand(job[w])
    BY TypeParts DEF JobType
  <1>5. j \in Job /\ InHand(j) /\ j.at = "orgs" /\ j.does = job[w].does
        /\ j.nodes = os /\ j.edges = es
    BY <1>1, <1>3, <1>4 DEF Reload, Job, Steps, InHand
  <1>6. job' = [job EXCEPT ![w] = j]
    BY <1>4 DEF Reload, os, es
  <1> HIDE DEF j
  <1>7. JobType' /\ job'[w] = j /\ \A v \in Writers : v # w => job'[v] = job[v]
    BY <1>5, <1>6, SetJob, TypeParts
  <1>8. DataType' /\ LockType' /\ started' \in 0..MaxOps
    BY TypeParts DEF Reload, DataType, LockType, people, sqlite, history
  <1> QED BY <1>1, <1>2, <1>5, <1>7, <1>8, NextTypeParts

LEMMA UpsertOrgType ==
  ASSUME TypeOK, NEW w \in Writers, NEW o \in job[w].nodes, UpsertOrg(w, o)
  PROVE  /\ TypeOK' /\ job'[w] = [job[w] EXCEPT !.nodes = @ \ {o}]
         /\ \A v \in Writers : v # w => job'[v] = job[v]
  <1>1. Mine(w) \subseteq Nodes \cup Ids /\ LockType' /\ o \in Nodes
    BY MineType, NoTxType, TypeParts DEF UpsertOrg, JobType, Job
  <1>2. DataType' /\ started' \in 0..MaxOps
    BY <1>1, TypeParts DEF UpsertOrg, DataType, history
  <1>3. /\ JobType' /\ job'[w] = [job[w] EXCEPT !.nodes = @ \ {o}]
        /\ \A v \in Writers : v # w => job'[v] = job[v]
    BY NodeDone, TypeParts DEF UpsertOrg
  <1> QED BY <1>1, <1>2, <1>3, NextTypeParts

LEMMA LinkMembersType ==
  ASSUME TypeOK, NEW w \in Writers, LinkMembers(w)
  PROVE  /\ TypeOK' /\ job'[w] = [job[w] EXCEPT !.at = "next"]
         /\ \A v \in Writers : v # w => job'[v] = job[v]
  <1>1. InHand([job[w] EXCEPT !.at = "next"])
    BY TypeParts DEF LinkMembers, JobType, InHand, Job
  <1>2. /\ JobType' /\ job'[w] = [job[w] EXCEPT !.at = "next"]
        /\ \A v \in Writers : v # w => job'[v] = job[v]
    BY <1>1, GotoJob, TypeParts DEF LinkMembers, Steps
  <1>3. DataType' /\ LockType' /\ started' \in 0..MaxOps
    BY TypeParts DEF LinkMembers, DataType, LockType, people, sqlite, history
  <1> QED BY <1>2, <1>3, NextTypeParts

LEMMA EndProgramType ==
  ASSUME TypeOK, NEW w \in Writers, EndProgram(w)
  PROVE  TypeOK' /\ job'[w] = Idle /\ \A v \in Writers : v # w => job'[v] = job[v]
  <1>1. JobType' /\ job'[w] = Idle /\ \A v \in Writers : v # w => job'[v] = job[v]
    BY FinishJob, TypeParts DEF EndProgram
  <1>2. DataType' /\ LockType' /\ started' \in 0..MaxOps
    BY TypeParts DEF EndProgram, DataType, LockType, people, sqlite, history
  <1> QED BY <1>1, <1>2, NextTypeParts

LEMMA DeleteEdgeType ==
  ASSUME TypeOK, NEW w \in Writers, NEW id \in edges, DeleteEdge(w, id)
  PROVE  /\ TypeOK' /\ job'[w].at = "untrace" /\ job'[w].edges = {} /\ job'[w].does = "delete"
         /\ \A v \in Writers : v # w => job'[v] = job[v]
  <1> DEFINE j == [Idle EXCEPT !.at = "untrace", !.does = "delete", !.doomed = {id}]
  <1>1. id \in Ids
    BY TypeParts DEF DataType
  <1>2. j \in Job /\ InHand(j) /\ j.at = "untrace" /\ j.edges = {} /\ j.does = "delete"
    BY <1>1, IdleType DEF Idle, Job, Steps, InHand
  <1>3. Start(w, j)
    BY DEF DeleteEdge
  <1> HIDE DEF j
  <1>4. /\ JobType' /\ job'[w] = j /\ \A v \in Writers : v # w => job'[v] = job[v]
        /\ started' \in 0..MaxOps
    BY <1>2, <1>3, StartJob, TypeParts
  <1>5. DataType' /\ LockType'
    BY TypeParts DEF DeleteEdge, DataType, LockType, people, sqlite
  <1> QED BY <1>2, <1>4, <1>5, NextTypeParts

LEMMA DeleteNodeType ==
  ASSUME TypeOK, NEW w \in Writers, NEW n \in nodes, DeleteNode(w, n)
  PROVE  /\ TypeOK' /\ job'[w].at = "detach" /\ job'[w].edges = {} /\ job'[w].does = "delete"
         /\ \A v \in Writers : v # w => job'[v] = job[v]
  <1> DEFINE gone == {n} \cup {id \in edges : Joins(id, n)}
             j == [Idle EXCEPT !.at = "detach", !.does = "delete", !.nodes = {n},
                               !.doomed = gone]
  <1>1. n \in Nodes /\ gone \subseteq Nodes \cup Ids
    BY TypeParts DEF DataType
  <1>2. Start(w, j)
    BY DEF DeleteNode
  <1> HIDE DEF gone
  <1>3. j \in Job /\ InHand(j) /\ j.at = "detach" /\ j.edges = {} /\ j.does = "delete"
    BY <1>1, IdleType DEF Idle, Job, Steps, InHand
  <1> HIDE DEF j
  <1>4. /\ JobType' /\ job'[w] = j /\ \A v \in Writers : v # w => job'[v] = job[v]
        /\ started' \in 0..MaxOps
    BY <1>2, <1>3, StartJob, TypeParts
  <1>5. DataType' /\ LockType'
    BY TypeParts DEF DeleteNode, DataType, LockType, people, sqlite, history
  <1> QED BY <1>3, <1>4, <1>5, NextTypeParts

LEMMA DetachType ==
  ASSUME TypeOK, NEW w \in Writers, Detach(w)
  PROVE  /\ TypeOK' /\ job'[w] = [job[w] EXCEPT !.at = "untrace"]
         /\ \A v \in Writers : v # w => job'[v] = job[v]
  <1>1. InHand([job[w] EXCEPT !.at = "untrace"])
    BY TypeParts DEF Detach, JobType, InHand, Job
  <1>2. /\ JobType' /\ job'[w] = [job[w] EXCEPT !.at = "untrace"]
        /\ \A v \in Writers : v # w => job'[v] = job[v]
    BY <1>1, GotoJob, TypeParts DEF Detach, Steps
  <1>3. email' \in [Persons -> Email] /\ office' \in [Persons -> Orgs \cup {NoOrg}]
    BY TypeParts DEF Detach, DataType, Email, Unknown
  <1>4. DataType' /\ LockType' /\ started' \in 0..MaxOps
    BY <1>3, TypeParts DEF Detach, Detached, DataType, LockType, sqlite
  <1> QED BY <1>2, <1>4, NextTypeParts

LEMMA UntraceType ==
  ASSUME TypeOK, NEW w \in Writers, Untrace(w)
  PROVE  TypeOK' /\ job'[w] = Idle /\ \A v \in Writers : v # w => job'[v] = job[v]
  <1>1. JobType' /\ job'[w] = Idle /\ \A v \in Writers : v # w => job'[v] = job[v]
    BY FinishJob, TypeParts DEF Untrace
  <1>2. LockType' /\ Mine(w) \subseteq Nodes \cup Ids
    BY EndTxType, MineType, TypeParts DEF Untrace
  <1>3. DataType' /\ started' \in 0..MaxOps
    BY <1>2, TypeParts DEF Untrace, DataType, people
  <1> QED BY <1>1, <1>2, <1>3, NextTypeParts

LEMMA BusyTimeoutType ==
  ASSUME TypeOK, NEW w \in Writers, BusyTimeout(w)
  PROVE  TypeOK' /\ job'[w] = Idle /\ \A v \in Writers : v # w => job'[v] = job[v]
  <1>1. JobType' /\ job'[w] = Idle /\ \A v \in Writers : v # w => job'[v] = job[v]
    BY FinishJob, TypeParts DEF BusyTimeout
  <1>2. DataType' /\ LockType' /\ started' \in 0..MaxOps
    BY TypeParts DEF BusyTimeout, DataType, LockType, people, sqlite, history
  <1> QED BY <1>1, <1>2, NextTypeParts

LEMMA Neo4jFailsType ==
  ASSUME TypeOK, NEW w \in Writers, Neo4jFails(w)
  PROVE  TypeOK'
  <1>1. JobType' /\ LockType' /\ UNCHANGED traces
    BY RaiseStep, TypeParts DEF Neo4jFails
  <1>2. severed' \subseteq Ids
    BY HandEdge, IdType, TypeParts DEF Neo4jFails, DataType
  <1>3. DataType' /\ started' \in 0..MaxOps
    BY <1>1, <1>2, TypeParts DEF Neo4jFails, DataType, people
  <1> QED BY <1>1, <1>3, NextTypeParts

LEMMA ReplyLostType ==
  ASSUME TypeOK, NEW w \in Writers, ReplyLost(w)
  PROVE  TypeOK'
  <1>1. JobType' /\ LockType' /\ UNCHANGED traces
    BY RaiseStep, TypeParts DEF ReplyLost
  <1>2. IdOf(TheEdge(w)) \in Ids
    BY HandEdge, IdType, TypeParts DEF ReplyLost
  <1>3. DataType' /\ started' \in 0..MaxOps
    BY <1>1, <1>2, TypeParts DEF ReplyLost, DataType, people
  <1> QED BY <1>1, <1>3, NextTypeParts

LEMMA CommitFailsType ==
  ASSUME TypeOK, NEW w \in Writers, CommitFails(w)
  PROVE  /\ TypeOK' /\ UNCHANGED traces /\ job'[w] = [job[w] EXCEPT !.at = "compensate"]
         /\ \A v \in Writers : v # w => job'[v] = job[v]
  <1>1. InHand([job[w] EXCEPT !.at = "compensate"])
    BY TypeParts DEF CommitFails, JobType, InHand, Job
  <1>2. /\ JobType' /\ job'[w] = [job[w] EXCEPT !.at = "compensate"]
        /\ \A v \in Writers : v # w => job'[v] = job[v]
    BY <1>1, GotoJob, TypeParts DEF CommitFails, Steps
  <1>3. LockType' /\ UNCHANGED traces
    BY EndTxType, TypeParts DEF CommitFails, Rollback, sqlite, LockType
  <1>4. DataType' /\ started' \in 0..MaxOps
    BY <1>3, TypeParts DEF CommitFails, DataType, people, history
  <1> QED BY <1>2, <1>3, <1>4, NextTypeParts

LEMMA CrashType ==
  ASSUME TypeOK, NEW w \in Writers, Crash(w)
  PROVE  TypeOK'
  <1>1. JobType' /\ LockType' /\ UNCHANGED traces
    BY RaiseStep, TypeParts DEF Crash
  <1>2. severed' \subseteq Ids
    BY HandEdge, IdType, TypeParts DEF Crash, DataType
  <1>3. DataType' /\ started' \in 0..MaxOps
    BY <1>1, <1>2, TypeParts DEF Crash, DataType, people
  <1> QED BY <1>1, <1>3, NextTypeParts

LEMMA TypeStep ==
  ASSUME TypeOK, [Next]_vars
  PROVE  TypeOK'
  <1>1. ASSUME NEW w \in Writers, AddEdge(w) PROVE TypeOK'
    BY <1>1, PickEdgeType, StageEdgeType, MergeEdgeType, CommitEdgeType, CompensateEdgeType
       DEF AddEdge
  <1>2. ASSUME NEW w \in Writers, Program(w) PROVE TypeOK'
    BY <1>2, WritePersonType, IngestEdgeType, ResolveType, BootstrapType, ReloadType,
       LinkMembersType, InjectType, UpsertOrgType, EndProgramType DEF Program
  <1>3. ASSUME NEW w \in Writers, Delete(w) PROVE TypeOK'
    BY <1>3, DeleteEdgeType, DeleteNodeType, DetachType, UntraceType DEF Delete
  <1>4. ASSUME NEW w \in Writers, Fail(w) PROVE TypeOK'
    BY <1>4, BusyTimeoutType, Neo4jFailsType, ReplyLostType, CommitFailsType, CrashType,
       LoseNodeType DEF Fail
  <1>5. CASE UNCHANGED vars
    BY <1>5 DEF vars, TypeOK
  <1> QED BY <1>1, <1>2, <1>3, <1>4, <1>5 DEF Next

\* Rows are staged only under the lock, an edge is in hand exactly while
\* add_edge() runs, and what the graph holds was merged at some time.
THEOREM EdgesTypeCorrect == Spec => []TypeOK
  <1>1. TypeOK /\ [Next]_vars => TypeOK'
    BY TypeStep
  <1> QED BY InitTypes, <1>1, PTL DEF Spec

-----------------------------------------------------------------------------
(* What a process has in hand *)

\* Rows staged for an edge speak of one that was merged, or that is merged next.
Staged(w) ==
  Mine(w) \cap Ids \subseteq
    written \cup (IF job[w].at = "merge" THEN TraceOf(TheEdge(w)) ELSE {})

\* add_edge() keeps its rows, and with them the lock, up to its commit.
Held(w) == job[w].at \in {"merge", "commit"} => TraceOf(TheEdge(w)) \subseteq Mine(w)

\* Where the edges come from that a program sets out to write.
Planned(w) ==
  \A e \in job[w].edges :
    /\ e.by \in {"rule", "bare rule"} => e \in SpecEdges
    /\ e.by = "resolver" => /\ e.rel = "SAME_AS" /\ e.src \in Persons /\ e.tgt \in Persons
                           /\ Order[e.src] < Order[e.tgt]
    /\ e.by = "bootstrap" => e.rel = "MEMBER_OF"

\* An edge that was merged is there until somebody removes it.
Merged(w) == job[w].at = "commit" => IdOf(TheEdge(w)) \in edges \cup severed

\* The resolver has linked each pair it found, or is still to.
Linked(w) ==
  job[w].does = "resolve" =>
    /\ job[w].at \notin {"locate", "orgs"}
    /\ \A e \in SameAs(job[w].read) : e \in job[w].edges \/ IdOf(e) \in edges \cup severed

Hand(w) == Staged(w) /\ Held(w) /\ Planned(w) /\ Merged(w) /\ Linked(w)

HandInv == \A w \in Writers : Hand(w)

\* No step touches what another process has in hand; what was merged stays
\* merged, and what leaves the graph is severed.
LEMMA Frame ==
  ASSUME TypeOK, NEW w \in Writers, AddEdge(w) \/ Program(w) \/ Delete(w) \/ Fail(w)
  PROVE  /\ \A v \in Writers : v # w => job'[v] = job[v] /\ (Mine(v))' = Mine(v)
         /\ written \subseteq written'
         /\ edges \cup severed \subseteq edges' \cup severed'
  <1> DEFINE Keeps == /\ \A v \in Writers : v # w => job'[v] = job[v] /\ (Mine(v))' = Mine(v)
                      /\ written \subseteq written'
                      /\ edges \cup severed \subseteq edges' \cup severed'
  <1>1. tx' = tx => \A v \in Writers : (Mine(v))' = Mine(v)
    BY DEF Mine
  <1>2. EndTx(w) => \A v \in Writers : v # w => (Mine(v))' = Mine(v)
    BY EndTxType, TypeParts
  <1>3. CanWrite(w) /\ tx' = NoTx => \A v \in Writers : v # w => (Mine(v))' = Mine(v)
    BY NoTxType, TypeParts
  <1>4. Abort(w) \/ Raise(w) =>
          \A v \in Writers : v # w => job'[v] = job[v] /\ (Mine(v))' = Mine(v)
    BY RaiseStep, TypeParts, <1>1, <1>2
  <1>5. ASSUME NEW e \in job[w].edges, PickEdge(w, e) PROVE Keeps
    <2>1. EndTx(w) \/ tx' = tx
      BY <1>5 DEF PickEdge, Publish, sqlite
    <2> QED BY <1>5, <2>1, <1>1, <1>2, PickEdgeType DEF PickEdge, people, history
  <1>6. CASE StageEdge(w)
    BY <1>6, StageEdgeType DEF StageEdge, people, history
  <1>7. CASE MergeEdge(w)
    <2>1. CASE Matched(TheEdge(w))
      BY <1>7, <2>1, <1>1, MergeEdgeType DEF MergeEdge, sqlite
    <2>2. CASE ~ Matched(TheEdge(w))
      BY <1>7, <2>2, <1>4 DEF MergeEdge
    <2> QED BY <2>1, <2>2
  <1>8. CASE CommitEdge(w)
    BY <1>8, <1>2, CommitEdgeType DEF CommitEdge, Publish, people
  <1>9. CASE CompensateEdge(w)
    BY <1>9, <1>4 DEF CompensateEdge, people
  <1>10. ASSUME NEW in \in Incoming, WritePerson(w, in) PROVE Keeps
    BY <1>10, <1>3 DEF WritePerson, history
  <1>11. ASSUME NEW e \in SpecEdges, IngestEdge(w, e) PROVE Keeps
    BY <1>11, <1>1, IngestEdgeType DEF IngestEdge, people, sqlite, history
  <1>12. CASE Resolve(w)
    BY <1>12, <1>1, ResolveType DEF Resolve, people, sqlite, history
  <1>13. CASE Bootstrap(w)
    BY <1>13, <1>1, BootstrapType DEF Bootstrap, people, sqlite, history
  <1>14. CASE Reload(w)
    BY <1>14, <1>1, ReloadType DEF Reload, people, sqlite, history
  <1>15. CASE LinkMembers(w)
    BY <1>15, <1>1, LinkMembersType DEF LinkMembers, people, sqlite, history
  <1>16. ASSUME NEW p \in job[w].nodes, Inject(w, p) PROVE Keeps
    BY <1>16, <1>3, InjectType DEF Inject, history
  <1>17. ASSUME NEW o \in job[w].nodes, UpsertOrg(w, o) PROVE Keeps
    BY <1>17, <1>3, UpsertOrgType DEF UpsertOrg, history
  <1>18. CASE EndProgram(w)
    BY <1>18, <1>1, EndProgramType DEF EndProgram, people, sqlite, history
  <1>19. ASSUME NEW id \in edges, DeleteEdge(w, id) PROVE Keeps
    BY <1>19, <1>1, DeleteEdgeType DEF DeleteEdge, people, sqlite
  <1>20. ASSUME NEW n \in nodes, DeleteNode(w, n) PROVE Keeps
    BY <1>20, <1>1, DeleteNodeType DEF DeleteNode, people, sqlite, history
  <1>21. CASE Detach(w)
    BY <1>21, <1>1, DetachType DEF Detach, sqlite
  <1>22. CASE Untrace(w)
    BY <1>22, <1>2, UntraceType DEF Untrace, people
  <1>23. CASE BusyTimeout(w)
    BY <1>23, <1>1, BusyTimeoutType DEF BusyTimeout, people, sqlite, history
  <1>24. CASE Neo4jFails(w)
    BY <1>24, <1>4 DEF Neo4jFails, people
  <1>25. CASE ReplyLost(w)
    BY <1>25, <1>4 DEF ReplyLost, people
  <1>26. CASE CommitFails(w)
    BY <1>26, <1>1, <1>2, CommitFailsType DEF CommitFails, Rollback, sqlite, people, history
  <1>27. CASE Crash(w)
    BY <1>27, <1>4 DEF Crash, people
  <1>28. ASSUME NEW n \in Persons, LoseNode(w, n) PROVE Keeps
    <2>1. \A v \in Writers : v # w => (Mine(v))' = Mine(v)
      <3>1. CASE Rollback(w)
        BY <3>1, <1>2 DEF Rollback
      <3>2. CASE tx' = [by |-> w, rows |-> Mine(w) \cup {n}]
        BY <1>28, <3>2, WriterIsNotNobody DEF LoseNode, CanWrite, Mine
      <3> QED BY <1>28, <3>1, <3>2 DEF LoseNode
    <2> QED BY <1>28, <2>1 DEF LoseNode
  <1> QED BY <1>5, <1>6, <1>7, <1>8, <1>9, <1>10, <1>11, <1>12, <1>13, <1>14, <1>15, <1>16, <1>17,
             <1>18, <1>19, <1>20, <1>21, <1>22, <1>23, <1>24, <1>25, <1>26, <1>27, <1>28
          DEF AddEdge, Program, Delete, Fail

\* A process that is not between its rows and its commit.
LEMMA HandAtRest ==
  ASSUME NEW w \in Writers, job'[w].at \notin {"merge", "commit"},
         (Mine(w))' \cap Ids \subseteq written', Planned(w)', Linked(w)'
  PROVE  Hand(w)'
  BY DEF Hand, Staged, Held, Merged

LEMMA HandIdle ==
  ASSUME NEW w \in Writers, job'[w] = Idle, (Mine(w))' \cap Ids \subseteq written'
  PROVE  Hand(w)'
  <1>1. Planned(w)' /\ Linked(w)'
    BY DEF Planned, Linked, Idle
  <1> QED BY <1>1, HandAtRest DEF Idle

LEMMA HandRaise ==
  ASSUME TypeOK, NEW w \in Writers, Hand(w), written \subseteq written',
         Abort(w) \/ (Raise(w) /\ job[w].at # "merge")
  PROVE  Hand(w)'
  <1>1. job'[w] = Idle
    BY RaiseStep, TypeParts
  <1>2. (Mine(w))' \cap Ids \subseteq written'
    <2>1. CASE EndTx(w)
      BY <2>1, EndTxType, TypeParts DEF Mine
    <2>2. CASE tx' = tx /\ job[w].at # "merge"
      BY <2>2 DEF Mine, Hand, Staged
    <2> QED BY <2>1, <2>2 DEF Raise, Abort, Rollback, sqlite
  <1> QED BY <1>1, <1>2, HandIdle

\* A process that keeps its rows at a step outside of add_edge().
LEMMA MineStays ==
  ASSUME NEW w \in Writers, Hand(w), job[w].at # "merge", written \subseteq written',
         tx' = tx \/ tx' = NoTx \/ EndTx(w)
  PROVE  (Mine(w))' \cap Ids \subseteq written'
  BY WriterIsNotNobody DEF Hand, Staged, Mine, EndTx, NoTx

\* A job that gains no edges to write, or goes on with those it had.
LEMMA HandGoesOn ==
  ASSUME TypeOK, NEW w \in Writers, Hand(w), job[w].at # "merge", written \subseteq written',
         edges \cup severed \subseteq edges' \cup severed',
         tx' = tx \/ tx' = NoTx \/ EndTx(w),
         job'[w].at \notin {"merge", "commit"}, job'[w].edges = job[w].edges,
         job'[w].read = job[w].read, job'[w].does = job[w].does,
         job'[w].at \notin {"locate", "orgs"} \/ job'[w].at = job[w].at
  PROVE  Hand(w)'
  <1>1. (Mine(w))' \cap Ids \subseteq written'
    BY MineStays
  <1>2. Planned(w)' /\ Linked(w)'
    BY DEF Hand, Planned, Linked
  <1> QED BY <1>1, <1>2, HandAtRest

LEMMA HandAddEdge ==
  ASSUME TypeOK, NEW w \in Writers, Hand(w), AddEdge(w)
  PROVE  Hand(w)'
  <1>1. /\ written \subseteq written' /\ edges \cup severed \subseteq edges' \cup severed'
        /\ job[w] \in Job
    BY Frame, TypeParts DEF JobType
  <1>2. ASSUME NEW e \in job[w].edges, PickEdge(w, e) PROVE Hand(w)'
    <2>1. job'[w].at = "stage" /\ job'[w].edges = job[w].edges /\ job'[w].read = job[w].read
          /\ job'[w].does = job[w].does
      BY <1>1, <1>2, PickEdgeType DEF Job
    <2>2. tx' = tx \/ EndTx(w)
      BY <1>2 DEF PickEdge, Publish, sqlite
    <2> QED BY <1>1, <1>2, <2>1, <2>2, HandGoesOn DEF PickEdge
  <1>3. CASE StageEdge(w)
    <2>1. /\ job'[w].at = "merge" /\ job'[w].edges = job[w].edges /\ job'[w].read = job[w].read
          /\ job'[w].does = job[w].does /\ job'[w].edge = job[w].edge
          /\ (Mine(w))' = Mine(w) \cup TraceOf(TheEdge(w))
      BY <1>1, <1>3, StageEdgeType DEF Job
    <2>2. TheEdge(w)' = TheEdge(w)
      BY <2>1 DEF TheEdge
    <2>3. Mine(w) \cap Ids \subseteq written
      BY <1>3 DEF StageEdge, Hand, Staged
    <2>4. Staged(w)' /\ Held(w)'
      BY <1>1, <2>1, <2>2, <2>3 DEF Staged, Held
    <2>5. Planned(w)' /\ Linked(w)' /\ Merged(w)'
      BY <1>1, <2>1 DEF Hand, Planned, Linked, Merged
    <2> QED BY <2>4, <2>5 DEF Hand
  <1>4. CASE MergeEdge(w)
    <2>1. CASE Matched(TheEdge(w))
      <3>1. /\ job' = [job EXCEPT ![w].at = "commit"] /\ tx' = tx
            /\ edges' = edges \cup {IdOf(TheEdge(w))} /\ written' = written \cup {IdOf(TheEdge(w))}
        BY <1>4, <2>1 DEF MergeEdge, Goto, sqlite
      <3>2. /\ job'[w].at = "commit" /\ job'[w].edges = job[w].edges /\ job'[w].read = job[w].read
            /\ job'[w].does = job[w].does /\ job'[w].edge = job[w].edge
        BY <1>1, <3>1, TypeParts DEF JobType, Job
      <3>3. TheEdge(w)' = TheEdge(w) /\ (Mine(w))' = Mine(w)
        BY <3>1, <3>2 DEF TheEdge, Mine
      <3>4. TraceOf(TheEdge(w)) \subseteq {IdOf(TheEdge(w))} /\ job[w].at = "merge"
        BY <1>4 DEF TraceOf, MergeEdge
      <3>5. Staged(w)' /\ Held(w)' /\ Merged(w)'
        BY <1>1, <3>1, <3>2, <3>3, <3>4 DEF Hand, Staged, Held, Merged
      <3>6. Planned(w)' /\ Linked(w)'
        BY <1>1, <3>2 DEF Hand, Planned, Linked
      <3> QED BY <3>5, <3>6 DEF Hand
    <2>2. CASE ~ Matched(TheEdge(w))
      BY <1>1, <1>4, <2>2, HandRaise DEF MergeEdge
    <2> QED BY <2>1, <2>2
  <1>5. CASE CommitEdge(w)
    <2>1. /\ job'[w].at = "next" /\ job'[w].edges = job[w].edges \ job[w].edge
          /\ job'[w].read = job[w].read /\ job'[w].does = job[w].does
      BY <1>5, CommitEdgeType
    <2>2. (Mine(w))' \cap Ids \subseteq written'
      BY <1>1, <1>5, MineStays DEF CommitEdge, Publish
    <2>3. job[w].edge = {TheEdge(w)}
      BY <1>5, HandEdge, TypeParts DEF CommitEdge
    <2>4. IdOf(TheEdge(w)) \in edges \cup severed
      BY <1>5 DEF CommitEdge, Hand, Merged
    <2>5. Planned(w)'
      BY <2>1 DEF Hand, Planned
    <2>6. Linked(w)'
      BY <1>1, <2>1, <2>3, <2>4 DEF Hand, Linked
    <2> QED BY <2>1, <2>2, <2>5, <2>6, HandAtRest
  <1>6. CASE CompensateEdge(w)
    BY <1>1, <1>6, HandRaise DEF CompensateEdge
  <1> QED BY <1>2, <1>3, <1>4, <1>5, <1>6 DEF AddEdge

LEMMA HandProgram ==
  ASSUME TypeOK, NEW w \in Writers, Hand(w), Program(w)
  PROVE  Hand(w)'
  <1>1. /\ written \subseteq written' /\ edges \cup severed \subseteq edges' \cup severed'
        /\ job[w] \in Job
    BY Frame, TypeParts DEF JobType
  <1>2. ASSUME NEW in \in Incoming, WritePerson(w, in) PROVE Hand(w)'
    BY <1>1, <1>2, HandGoesOn DEF WritePerson
  <1>3. ASSUME NEW e \in SpecEdges, IngestEdge(w, e) PROVE Hand(w)'
    <2>1. /\ job'[w].at = "next" /\ job'[w].edges = {e} /\ job'[w].does = "ingest"
          /\ job[w].at = "idle" /\ tx' = tx
      BY <1>3, IngestEdgeType DEF IngestEdge, Start, sqlite
    <2>2. e.by \in {"rule", "bare rule"}
      BY EdgeStoreAssumption
    <2>3. Planned(w)' /\ Linked(w)'
      BY <2>1, <2>2 DEF Planned, Linked
    <2> QED BY <1>1, <2>1, <2>3, MineStays, HandAtRest
  <1>4. CASE Resolve(w)
    <2>1. /\ job'[w].at = "next" /\ job'[w].edges = SameAs(Present) /\ job'[w].read = Present
          /\ job[w].at = "idle" /\ tx' = tx /\ Present \in [Persons -> Email]
      BY <1>4, ResolveType DEF Resolve, Start, sqlite
    <2>2. Planned(w)' /\ Linked(w)'
      BY <2>1, SameAsType DEF Planned, Linked
    <2> QED BY <1>1, <2>1, <2>2, MineStays, HandAtRest
  <1>5. CASE Bootstrap(w)
    <2>1. /\ job'[w].at = "locate" /\ job'[w].edges = {} /\ job'[w].does = "bootstrap"
          /\ job[w].at = "idle" /\ tx' = tx
      BY <1>5, BootstrapType DEF Bootstrap, Start, sqlite
    <2>2. Planned(w)' /\ Linked(w)'
      BY <2>1 DEF Planned, Linked
    <2> QED BY <1>1, <2>1, <2>2, MineStays, HandAtRest
  <1>6. CASE Reload(w)
    <2>1. /\ job'[w].at = "orgs" /\ job[w].at = "locate" /\ tx' = tx
          /\ \A e \in job'[w].edges : e.rel = "MEMBER_OF" /\ e.by = "bootstrap"
          /\ job'[w].does = job[w].does
      BY <1>6, ReloadType DEF Reload, sqlite
    <2>2. Planned(w)' /\ Linked(w)'
      BY <2>1 DEF Hand, Planned, Linked
    <2> QED BY <1>1, <2>1, <2>2, MineStays, HandAtRest
  <1>7. CASE LinkMembers(w)
    <2>1. /\ job'[w].at = "next" /\ job[w].at = "orgs" /\ tx' = tx
          /\ job'[w].edges = job[w].edges /\ job'[w].read = job[w].read
          /\ job'[w].does = job[w].does
      BY <1>1, <1>7, LinkMembersType DEF LinkMembers, sqlite, Job
    <2> QED BY <1>1, <2>1, HandGoesOn
  <1>8. ASSUME NEW n \in job[w].nodes, Inject(w, n) \/ UpsertOrg(w, n) PROVE Hand(w)'
    <2>1. /\ job'[w] = [job[w] EXCEPT !.nodes = @ \ {n}] /\ job[w].at \in {"locate", "orgs"}
          /\ tx' = NoTx
      BY <1>8, InjectType, UpsertOrgType DEF Inject, UpsertOrg
    <2>2. /\ job'[w].at = job[w].at /\ job'[w].edges = job[w].edges
          /\ job'[w].read = job[w].read /\ job'[w].does = job[w].does
      BY <1>1, <2>1 DEF Job
    <2> QED BY <1>1, <2>1, <2>2, HandGoesOn
  <1>9. CASE EndProgram(w)
    <2>1. job'[w] = Idle /\ tx' = tx /\ job[w].at = "next"
      BY <1>9, EndProgramType DEF EndProgram, sqlite
    <2> QED BY <1>1, <2>1, MineStays, HandIdle
  <1> QED BY <1>2, <1>3, <1>4, <1>5, <1>6, <1>7, <1>8, <1>9 DEF Program

LEMMA HandDelete ==
  ASSUME TypeOK, NEW w \in Writers, Hand(w), Delete(w)
  PROVE  Hand(w)'
  <1>1. /\ written \subseteq written' /\ edges \cup severed \subseteq edges' \cup severed'
        /\ job[w] \in Job
    BY Frame, TypeParts DEF JobType
  <1>2. ASSUME job'[w].at \in {"untrace", "detach"}, job'[w].edges = {}, job'[w].does = "delete",
               job[w].at = "idle", tx' = tx
        PROVE  Hand(w)'
    <2>1. Planned(w)' /\ Linked(w)'
      BY <1>2 DEF Planned, Linked
    <2> QED BY <1>1, <1>2, <2>1, MineStays, HandAtRest
  <1>3. ASSUME NEW id \in edges, DeleteEdge(w, id) PROVE Hand(w)'
    BY <1>2, <1>3, DeleteEdgeType DEF DeleteEdge, Start, sqlite
  <1>4. ASSUME NEW n \in nodes, DeleteNode(w, n) PROVE Hand(w)'
    BY <1>2, <1>4, DeleteNodeType DEF DeleteNode, Start, sqlite
  <1>5. CASE Detach(w)
    <2>1. job'[w] = [job[w] EXCEPT !.at = "untrace"] /\ job[w].at = "detach" /\ tx' = tx
      BY <1>5, DetachType DEF Detach, sqlite
    <2>2. /\ job'[w].at = "untrace" /\ job'[w].edges = job[w].edges /\ job'[w].read = job[w].read
          /\ job'[w].does = job[w].does
      BY <1>1, <2>1 DEF Job
    <2> QED BY <1>1, <2>1, <2>2, HandGoesOn
  <1>6. CASE Untrace(w)
    <2>1. job'[w] = Idle /\ EndTx(w) /\ job[w].at = "untrace"
      BY <1>6, UntraceType DEF Untrace
    <2> QED BY <1>1, <2>1, MineStays, HandIdle
  <1> QED BY <1>3, <1>4, <1>5, <1>6 DEF Delete

LEMMA HandFail ==
  ASSUME TypeOK, NEW w \in Writers, Hand(w), Fail(w)
  PROVE  Hand(w)'
  <1>1. /\ written \subseteq written' /\ edges \cup severed \subseteq edges' \cup severed'
        /\ job[w] \in Job
    BY Frame, TypeParts DEF JobType
  <1>2. CASE BusyTimeout(w)
    <2>1. job'[w] = Idle /\ tx' = tx /\ tx.by # w
      BY <1>2, BusyTimeoutType DEF BusyTimeout, sqlite, CanWrite
    <2> QED BY <2>1, HandIdle DEF Mine
  <1>3. CASE Neo4jFails(w)
    BY <1>1, <1>3, HandRaise DEF Neo4jFails
  <1>4. CASE ReplyLost(w)
    BY <1>1, <1>4, HandRaise DEF ReplyLost
  <1>5. CASE CommitFails(w)
    <2>1. /\ job'[w].at = "compensate" /\ job[w].at = "commit" /\ (tx' = tx \/ EndTx(w))
          /\ job'[w].edges = job[w].edges /\ job'[w].read = job[w].read
          /\ job'[w].does = job[w].does
      BY <1>1, <1>5, CommitFailsType DEF CommitFails, Rollback, sqlite, Job
    <2> QED BY <1>1, <2>1, HandGoesOn
  <1>6. CASE Crash(w)
    BY <1>1, <1>6, HandRaise DEF Crash
  <1>7. ASSUME NEW n \in Persons, LoseNode(w, n) PROVE Hand(w)'
    <2>1. CASE Rollback(w)
      BY <1>1, <1>7, <2>1, HandGoesOn DEF LoseNode, Rollback
    <2>2. CASE tx' = [by |-> w, rows |-> Mine(w) \cup {n}]
      <3>1. n \notin Ids
        BY Places, SubjectsApart
      <3>2. (Mine(w))' = Mine(w) \cup {n}
        BY <2>2 DEF Mine
      <3>3. (Mine(w))' \cap Ids \subseteq written'
        BY <1>1, <1>7, <3>1, <3>2 DEF LoseNode, Hand, Staged
      <3>4. Planned(w)' /\ Linked(w)'
        BY <1>1, <1>7 DEF LoseNode, Hand, Planned, Linked
      <3> QED BY <1>7, <3>3, <3>4, HandAtRest DEF LoseNode
    <2> QED BY <1>7, <2>1, <2>2 DEF LoseNode
  <1> QED BY <1>2, <1>3, <1>4, <1>5, <1>6, <1>7 DEF Fail

LEMMA HandStep ==
  ASSUME TypeOK, HandInv, [Next]_vars
  PROVE  HandInv'
  <1>1. CASE UNCHANGED vars
    <2>1. job' = job /\ tx' = tx /\ edges' = edges /\ written' = written /\ severed' = severed
      BY <1>1 DEF vars
    <2>2. \A w \in Writers : (Mine(w))' = Mine(w) /\ TheEdge(w)' = TheEdge(w)
      BY <2>1 DEF Mine, TheEdge
    <2>3. \A w \in Writers : Staged(w)' /\ Held(w)' /\ Merged(w)'
      BY <2>1, <2>2 DEF HandInv, Hand, Staged, Held, Merged
    <2>4. \A w \in Writers : Planned(w)' /\ Linked(w)'
      BY <2>1 DEF HandInv, Hand, Planned, Linked
    <2> QED BY <2>3, <2>4 DEF HandInv, Hand
  <1>2. ASSUME NEW w \in Writers, AddEdge(w) \/ Program(w) \/ Delete(w) \/ Fail(w)
        PROVE  HandInv'
    <2>1. Hand(w)'
      BY <1>2, HandAddEdge, HandProgram, HandDelete, HandFail DEF HandInv
    <2>2. ASSUME NEW v \in Writers, v # w PROVE Hand(v)'
      <3>1. /\ job'[v] = job[v] /\ (Mine(v))' = Mine(v) /\ TheEdge(v)' = TheEdge(v)
            /\ written \subseteq written' /\ edges \cup severed \subseteq edges' \cup severed'
        BY <1>2, <2>2, Frame DEF TheEdge
      <3>2. Hand(v)
        BY DEF HandInv
      <3>3. Staged(v)' /\ Held(v)'
        BY <3>1, <3>2 DEF Hand, Staged, Held
      <3>4. Planned(v)' /\ Merged(v)' /\ Linked(v)'
        BY <3>1, <3>2 DEF Hand, Planned, Merged, Linked
      <3> QED BY <3>3, <3>4 DEF Hand
    <2> QED BY <2>1, <2>2 DEF HandInv
  <1> QED BY <1>1, <1>2 DEF Next

LEMMA InitHand == Init => HandInv
  <1> SUFFICES ASSUME Init, NEW w \in Writers PROVE Hand(w)
    BY DEF HandInv
  <1>1. Mine(w) = {} /\ job[w].at = "idle" /\ job[w].edges = {} /\ job[w].does = "ingest"
    BY DEF Init, Mine, NoTx, Idle
  <1> QED BY <1>1 DEF Hand, Staged, Held, Planned, Merged, Linked

-----------------------------------------------------------------------------
(* Ends *)

LEMMA EndsStep ==
  ASSUME TypeOK, EndpointsPresent, [Next]_vars
  PROVE  EndpointsPresent'
  <1>1. ASSUME edges' \subseteq edges, nodes \subseteq nodes' PROVE EndpointsPresent'
    BY <1>1 DEF EndpointsPresent
  <1>2. ASSUME NEW w \in Writers, job[w].at = "merge", Matched(TheEdge(w)),
               edges' = edges \cup {IdOf(TheEdge(w))}, nodes' = nodes
        PROVE  EndpointsPresent'
    <2>1. TheEdge(w) \in Edge
      BY <1>2, HandEdge, TypeParts
    <2>2. IdOf(TheEdge(w)).src = TheEdge(w).src /\ IdOf(TheEdge(w)).tgt = TheEdge(w).tgt
      BY <2>1, IdType
    <2> QED BY <1>2, <2>2 DEF EndpointsPresent, Matched
  <1>3. ASSUME NEW w \in Writers, AddEdge(w) PROVE EndpointsPresent'
    <2>1. CASE MergeEdge(w) /\ Matched(TheEdge(w))
      BY <1>2, <2>1 DEF MergeEdge, people
    <2>2. CASE MergeEdge(w) /\ ~ Matched(TheEdge(w))
      BY <1>1, <2>2 DEF MergeEdge, people
    <2> QED BY <1>1, <1>3, <2>1, <2>2
            DEF AddEdge, PickEdge, StageEdge, CommitEdge, CompensateEdge, people
  <1>4. ASSUME NEW w \in Writers, Program(w) PROVE EndpointsPresent'
    BY <1>1, <1>4 DEF Program, WritePerson, IngestEdge, Resolve, Bootstrap, Reload, LinkMembers,
                      Inject, UpsertOrg, EndProgram, people, history
  <1>5. ASSUME NEW w \in Writers, Delete(w) PROVE EndpointsPresent'
    <2>1. CASE Detach(w)
      BY <2>1 DEF Detach, Detached, Joins, EndpointsPresent
    <2> QED BY <1>1, <1>5, <2>1 DEF Delete, DeleteEdge, DeleteNode, Untrace, people
  <1>6. ASSUME NEW w \in Writers, Fail(w) PROVE EndpointsPresent'
    <2>1. CASE ReplyLost(w)
      BY <1>2, <2>1 DEF ReplyLost, people
    <2>2. ASSUME NEW n \in Persons, LoseNode(w, n) PROVE EndpointsPresent'
      BY <2>2 DEF LoseNode, Joins, EndpointsPresent
    <2> QED BY <1>1, <1>6, <2>1, <2>2
            DEF Fail, BusyTimeout, Neo4jFails, CommitFails, Crash, people
  <1>7. CASE UNCHANGED vars
    BY <1>1, <1>7 DEF vars
  <1> QED BY <1>3, <1>4, <1>5, <1>6, <1>7 DEF Next

\* However deletions, lost nodes and merges of any processes meet, no edge of
\* the graph is left without one of its ends.
THEOREM EdgesHaveEnds == Spec => []EndpointsPresent
  <1>1. TypeOK /\ EndpointsPresent /\ [Next]_vars => EndpointsPresent'
    BY EndsStep
  <1>2. Init => EndpointsPresent
    BY DEF Init, EndpointsPresent
  <1> QED BY <1>1, <1>2, EdgesTypeCorrect, PTL DEF Spec

-----------------------------------------------------------------------------
(* Traces and merges *)

\* A step publishes what its process has staged, and nothing of a merge that
\* is still to come.
LEMMA Published ==
  ASSUME TypeOK, NEW w \in Writers, AddEdge(w) \/ Program(w) \/ Delete(w) \/ Fail(w)
  PROVE  \/ traces' = traces
         \/ job[w].at # "merge" /\ traces' \subseteq traces \cup Mine(w) \cup Nodes
  <1> DEFINE Goal == \/ traces' = traces
                     \/ job[w].at # "merge" /\ traces' \subseteq traces \cup Mine(w) \cup Nodes
  <1>1. Abort(w) \/ Raise(w) => traces' = traces
    BY RaiseStep, TypeParts
  <1>2. CASE AddEdge(w)
    <2>1. CASE MergeEdge(w)
      BY <1>1, <2>1 DEF MergeEdge, sqlite
    <2> QED BY <1>1, <1>2, <2>1
            DEF AddEdge, PickEdge, StageEdge, CommitEdge, CompensateEdge, Publish, sqlite
  <1>3. CASE Program(w)
    <2>1. ASSUME NEW in \in Incoming, WritePerson(w, in) PROVE Goal
      <3>1. in.node \in Nodes
        BY EdgeStoreAssumption, Places
      <3> QED BY <2>1, <3>1 DEF WritePerson
    <2>2. ASSUME NEW n \in job[w].nodes, Inject(w, n) \/ UpsertOrg(w, n) PROVE Goal
      <3>1. n \in Nodes
        BY TypeParts DEF JobType, Job
      <3> QED BY <2>2, <3>1 DEF Inject, UpsertOrg
    <2> QED BY <1>3, <2>1, <2>2 DEF Program, IngestEdge, Resolve, Bootstrap, Reload, LinkMembers,
                                    EndProgram, sqlite
  <1>4. CASE Delete(w)
    BY <1>4 DEF Delete, DeleteEdge, DeleteNode, Detach, Untrace, sqlite
  <1>5. CASE Fail(w)
    BY <1>1, <1>5 DEF Fail, BusyTimeout, Neo4jFails, ReplyLost, CommitFails, Crash, LoseNode,
                      Rollback, sqlite
  <1> QED BY <1>2, <1>3, <1>4, <1>5

LEMMA FollowStep ==
  ASSUME TypeOK, HandInv, TracesFollowMerges, [Next]_vars
  PROVE  TracesFollowMerges'
  <1>1. CASE UNCHANGED vars
    BY <1>1 DEF vars, TracesFollowMerges
  <1>2. ASSUME NEW w \in Writers, AddEdge(w) \/ Program(w) \/ Delete(w) \/ Fail(w)
        PROVE  TracesFollowMerges'
    <2>1. written \subseteq written'
      BY <1>2, Frame
    <2>2. job[w].at # "merge" => Mine(w) \cap Ids \subseteq written
      BY DEF HandInv, Hand, Staged
    <2>3. Nodes \cap Ids = {}
      BY SubjectsApart
    <2> QED BY <1>2, <2>1, <2>2, <2>3, Published DEF TracesFollowMerges
  <1> QED BY <1>1, <1>2 DEF Next

EdgeInv == TypeOK /\ HandInv /\ TracesFollowMerges

LEMMA EdgesSafe == Spec => []EdgeInv
  <1>1. Init => EdgeInv
    BY InitTypes, InitHand DEF Init, EdgeInv, TracesFollowMerges
  <1>2. EdgeInv /\ [Next]_vars => EdgeInv'
    BY TypeStep, HandStep, FollowStep DEF EdgeInv
  <1> QED BY <1>1, <1>2, PTL DEF Spec

\* Whatever fails and whoever holds the lock, a committed trace is about an
\* edge that was merged at some time.
THEOREM TracesComeAfter == Spec => []TracesFollowMerges
  <1>1. EdgeInv => TracesFollowMerges
    BY DEF EdgeInv
  <1> QED BY <1>1, EdgesSafe, PTL

-----------------------------------------------------------------------------
(* Traced edges *)

\* A step of w that removes edges, severs more and traces more.
LEMMA StillTraced ==
  ASSUME TypeOK, EdgesTraced, NEW w \in Writers,
         AddEdge(w) \/ Program(w) \/ Delete(w) \/ Fail(w),
         job[w].at \notin {"commit", "compensate"},
         traces \subseteq traces', edges' \subseteq edges, severed \subseteq severed'
  PROVE  EdgesTraced'
  <1> SUFFICES ASSUME NEW id \in edges' \ severed'
               PROVE  \/ id \in traces'
                      \/ \E e \in SpecEdges : id = IdOf(e) /\ TraceOf(e) = {}
                      \/ \E v \in Writers : /\ job'[v].at \in {"commit", "compensate"}
                                             /\ id = IdOf(TheEdge(v)')
    BY DEF EdgesTraced
  <1>1. id \in edges \ severed
    OBVIOUS
  <1>2. ASSUME NEW v \in Writers, job[v].at \in {"commit", "compensate"}, id = IdOf(TheEdge(v))
        PROVE  job'[v].at \in {"commit", "compensate"} /\ id = IdOf(TheEdge(v)')
    <2>1. v # w
      BY <1>2
    <2>2. job'[v] = job[v]
      BY <2>1, Frame
    <2> QED BY <1>2, <2>2 DEF TheEdge
  <1> QED BY <1>1, <1>2 DEF EdgesTraced

LEMMA TracedAddEdge ==
  ASSUME TypeOK, HandInv, EdgesTraced, NEW w \in Writers, AddEdge(w)
  PROVE  EdgesTraced'
  <1> DEFINE Covered(id) == \/ id \in traces
                            \/ \E e \in SpecEdges : id = IdOf(e) /\ TraceOf(e) = {}
                            \/ \E v \in Writers : /\ job[v].at \in {"commit", "compensate"}
                                                   /\ id = IdOf(TheEdge(v))
  <1>1. \A v \in Writers : v # w => job'[v] = job[v] /\ TheEdge(v)' = TheEdge(v)
    BY Frame DEF TheEdge
  <1>2. CASE (\E e \in job[w].edges : PickEdge(w, e)) \/ StageEdge(w)
    BY <1>2, StillTraced DEF AddEdge, PickEdge, StageEdge, Publish, sqlite, people, history
  <1>3. CASE MergeEdge(w)
    <2>1. CASE Matched(TheEdge(w))
      <3>1. /\ job' = [job EXCEPT ![w].at = "commit"] /\ traces' = traces /\ severed' = severed
            /\ edges' = edges \cup {IdOf(TheEdge(w))} /\ job[w].at = "merge"
        BY <1>3, <2>1 DEF MergeEdge, Goto, sqlite
      <3>2. job'[w].at = "commit" /\ job'[w].edge = job[w].edge
        BY <3>1, TypeParts DEF JobType, Job
      <3>3. TheEdge(w)' = TheEdge(w)
        BY <3>2 DEF TheEdge
      <3>4. ASSUME NEW id \in edges' \ severed' PROVE Covered(id)'
        <4>1. CASE id = IdOf(TheEdge(w))
          BY <3>2, <3>3, <4>1
        <4>2. CASE id \in edges \ severed
          BY <1>1, <3>1, <4>2 DEF EdgesTraced
        <4> QED BY <3>1, <3>4, <4>1, <4>2
      <3> QED BY <3>4 DEF EdgesTraced
    <2>2. CASE ~ Matched(TheEdge(w))
      <3>1. traces' = traces
        BY <1>3, <2>2, RaiseStep, TypeParts DEF MergeEdge
      <3> QED BY <1>3, <2>2, <3>1, StillTraced DEF MergeEdge
    <2> QED BY <2>1, <2>2
  <1>4. CASE CommitEdge(w)
    <2>1. /\ job[w].at = "commit" /\ traces' = traces \cup Mine(w) /\ edges' = edges
          /\ severed' = severed \ (TraceOf(TheEdge(w)) \cap edges)
      BY <1>4 DEF CommitEdge, Publish, people
    <2>2. TraceOf(TheEdge(w)) \subseteq traces'
      BY <2>1 DEF HandInv, Hand, Held
    <2>3. IdOf(TheEdge(w)) \in traces'
          \/ (TheEdge(w) \in SpecEdges /\ TraceOf(TheEdge(w)) = {})
      <3>1. CASE TheEdge(w).by = "bare rule"
        <4>1. TheEdge(w) \in job[w].edges
          BY <2>1, HandEdge, TypeParts
        <4> QED BY <3>1, <4>1 DEF HandInv, Hand, Planned, TraceOf
      <3>2. CASE TheEdge(w).by # "bare rule"
        BY <2>2, <3>2 DEF TraceOf
      <3> QED BY <3>1, <3>2
    <2>4. ASSUME NEW id \in edges' \ severed' PROVE Covered(id)'
      <3>1. CASE id \in TraceOf(TheEdge(w))
        BY <2>2, <3>1
      <3>2. CASE id \in edges \ severed
        <4>1. CASE id \in traces \/ \E e \in SpecEdges : id = IdOf(e) /\ TraceOf(e) = {}
          BY <2>1, <4>1
        <4>2. ASSUME NEW v \in Writers, job[v].at \in {"commit", "compensate"},
                     id = IdOf(TheEdge(v))
              PROVE  Covered(id)'
          BY <1>1, <2>3, <4>2
        <4> QED BY <3>2, <4>1, <4>2 DEF EdgesTraced
      <3> QED BY <2>1, <2>4, <3>1, <3>2
    <2> QED BY <2>4 DEF EdgesTraced
  <1>5. CASE CompensateEdge(w)
    <2>1. /\ edges' = edges \ {IdOf(TheEdge(w))} /\ severed' = severed \cup {IdOf(TheEdge(w))}
          /\ traces' = traces
      BY <1>5, RaiseStep, TypeParts DEF CompensateEdge
    <2>2. ASSUME NEW id \in edges' \ severed' PROVE Covered(id)'
      <3>1. id \in edges \ severed /\ id # IdOf(TheEdge(w))
        BY <2>1
      <3> QED BY <1>1, <2>1, <3>1 DEF EdgesTraced
    <2> QED BY <2>2 DEF EdgesTraced
  <1> QED BY <1>2, <1>3, <1>4, <1>5 DEF AddEdge

LEMMA TracedFail ==
  ASSUME TypeOK, EdgesTraced, NEW w \in Writers, Fail(w)
  PROVE  EdgesTraced'
  <1> DEFINE Covered(id) == \/ id \in traces
                            \/ \E e \in SpecEdges : id = IdOf(e) /\ TraceOf(e) = {}
                            \/ \E v \in Writers : /\ job[v].at \in {"commit", "compensate"}
                                                   /\ id = IdOf(TheEdge(v))
  <1>1. \A v \in Writers : v # w => job'[v] = job[v] /\ TheEdge(v)' = TheEdge(v)
    BY Frame DEF TheEdge
  <1>2. Abort(w) \/ Raise(w) => traces' = traces
    BY RaiseStep, TypeParts
  <1>3. ASSUME job[w].at \in {"commit", "compensate"}, traces' = traces, edges' = edges,
               severed' = severed \cup {IdOf(TheEdge(w))}
        PROVE  EdgesTraced'
    <2>1. ASSUME NEW id \in edges' \ severed' PROVE Covered(id)'
      <3>1. id \in edges \ severed /\ id # IdOf(TheEdge(w))
        BY <1>3
      <3> QED BY <1>1, <1>3, <3>1 DEF EdgesTraced
    <2> QED BY <2>1 DEF EdgesTraced
  <1>4. CASE BusyTimeout(w)
    BY <1>4, StillTraced DEF BusyTimeout, people, sqlite, history
  <1>5. CASE Neo4jFails(w)
    <2>1. CASE job[w].at = "compensate"
      BY <1>2, <1>3, <1>5, <2>1 DEF Neo4jFails, people
    <2>2. CASE job[w].at # "compensate"
      BY <1>2, <1>5, <2>2, StillTraced DEF Neo4jFails, people
    <2> QED BY <2>1, <2>2
  <1>6. CASE ReplyLost(w)
    <2>1. /\ edges' = edges \cup {IdOf(TheEdge(w))} /\ severed' = severed \cup {IdOf(TheEdge(w))}
          /\ traces' = traces /\ job[w].at = "merge"
      BY <1>2, <1>6 DEF ReplyLost
    <2>2. ASSUME NEW id \in edges' \ severed' PROVE Covered(id)'
      <3>1. id \in edges \ severed
        BY <2>1
      <3> QED BY <1>1, <2>1, <3>1 DEF EdgesTraced
    <2> QED BY <2>2 DEF EdgesTraced
  <1>7. CASE CommitFails(w)
    <2>1. /\ traces' = traces /\ job'[w] = [job[w] EXCEPT !.at = "compensate"]
          /\ edges' = edges /\ severed' = severed
      BY <1>7, CommitFailsType DEF CommitFails, people, history
    <2>2. job'[w].at = "compensate" /\ job'[w].edge = job[w].edge
      BY <2>1, TypeParts DEF JobType, Job
    <2>3. \A v \in Writers : TheEdge(v)' = TheEdge(v)
      BY <1>1, <2>2 DEF TheEdge
    <2>4. ASSUME NEW id \in edges' \ severed' PROVE Covered(id)'
      BY <1>1, <2>1, <2>2, <2>3, <2>4 DEF EdgesTraced
    <2> QED BY <2>4 DEF EdgesTraced
  <1>8. CASE Crash(w)
    <2>1. CASE job[w].at \in {"commit", "compensate"}
      BY <1>2, <1>3, <1>8, <2>1 DEF Crash, people
    <2>2. CASE job[w].at \notin {"commit", "compensate"}
      BY <1>2, <1>8, <2>2, StillTraced DEF Crash, people
    <2> QED BY <2>1, <2>2
  <1>9. ASSUME NEW n \in Persons, LoseNode(w, n) PROVE EdgesTraced'
    BY <1>9, StillTraced DEF LoseNode, Rollback
  <1> QED BY <1>4, <1>5, <1>6, <1>7, <1>8, <1>9 DEF Fail

LEMMA TracedDelete ==
  ASSUME TypeOK, EdgesTraced, NEW w \in Writers, Delete(w)
  PROVE  EdgesTraced'
  <1>1. CASE Untrace(w)
    <2>1. /\ traces \ job[w].doomed \subseteq traces' /\ edges' = edges
          /\ severed' = severed \cup (job[w].doomed \cap edges) /\ job[w].at = "untrace"
      BY <1>1 DEF Untrace, people
    <2>2. \A v \in Writers : v # w => job'[v] = job[v] /\ TheEdge(v)' = TheEdge(v)
      BY Frame DEF TheEdge
    <2> QED BY <2>1, <2>2 DEF EdgesTraced
  <1>2. CASE (\E id \in edges : DeleteEdge(w, id)) \/ (\E n \in nodes : DeleteNode(w, n))
    BY <1>2, StillTraced DEF Delete, DeleteEdge, DeleteNode, Start, people, sqlite, history
  <1>3. CASE Detach(w)
    BY <1>3, StillTraced DEF Delete, Detach, Detached, sqlite
  <1> QED BY <1>1, <1>2, <1>3 DEF Delete

LEMMA TracedProgram ==
  ASSUME TypeOK, EdgesTraced, NEW w \in Writers, Program(w)
  PROVE  EdgesTraced'
  <1> SUFFICES /\ job[w].at \notin {"commit", "compensate"}
               /\ traces \subseteq traces' /\ edges' \subseteq edges /\ severed \subseteq severed'
    BY StillTraced
  <1> QED BY DEF Program, WritePerson, IngestEdge, Resolve, Bootstrap, Start, Reload, LinkMembers,
                 Inject, UpsertOrg, EndProgram, people, sqlite, history

LEMMA TracedStep ==
  ASSUME TypeOK, HandInv, EdgesTraced, [Next]_vars
  PROVE  EdgesTraced'
  <1>1. CASE UNCHANGED vars
    BY <1>1 DEF vars, EdgesTraced, TheEdge
  <1> QED BY <1>1, TracedAddEdge, TracedProgram, TracedDelete, TracedFail DEF Next

\* An edge of the graph that is not traced, nor about to be, was made by a bare
\* rule or is one of those that a named failure or deletion severed.
THEOREM EdgesAreTraced == Spec => []EdgesTraced
  <1>1. Init => EdgesTraced
    BY DEF Init, EdgesTraced
  <1>2. EdgeInv /\ EdgesTraced /\ [Next]_vars => EdgesTraced'
    BY TracedStep DEF EdgeInv
  <1> QED BY <1>1, <1>2, EdgesSafe, PTL DEF Spec

-----------------------------------------------------------------------------
(* SAME_AS *)

\* An id that the resolver derived, of two persons in their order.
SameAsInv ==
  \A id \in edges : id.rel = "SAME_AS" =>
    /\ id.how = "derived" /\ id.src \in Persons /\ id.tgt \in Persons
    /\ Order[id.src] < Order[id.tgt]

LEMMA NewEdges ==
  ASSUME NEW w \in Writers, AddEdge(w) \/ Program(w) \/ Delete(w) \/ Fail(w)
  PROVE  \/ edges' \subseteq edges
         \/ job[w].at = "merge" /\ edges' = edges \cup {IdOf(TheEdge(w))}
  <1>1. CASE AddEdge(w)
    BY <1>1 DEF AddEdge, PickEdge, StageEdge, MergeEdge, CommitEdge, CompensateEdge, people
  <1>2. CASE Program(w)
    BY <1>2 DEF Program, WritePerson, IngestEdge, Resolve, Bootstrap, Reload, LinkMembers,
                Inject, UpsertOrg, EndProgram, people, history
  <1>3. CASE Delete(w)
    BY <1>3 DEF Delete, DeleteEdge, DeleteNode, Detach, Detached, Untrace, people
  <1>4. CASE Fail(w)
    BY <1>4 DEF Fail, BusyTimeout, Neo4jFails, ReplyLost, CommitFails, Crash, LoseNode, people
  <1> QED BY <1>1, <1>2, <1>3, <1>4

LEMMA SameAsStep ==
  ASSUME SpecsLeaveIdentity, TypeOK, HandInv, SameAsInv, [Next]_vars
  PROVE  SameAsInv'
  <1>1. CASE UNCHANGED vars
    BY <1>1 DEF vars, SameAsInv
  <1>2. ASSUME NEW w \in Writers, AddEdge(w) \/ Program(w) \/ Delete(w) \/ Fail(w)
        PROVE  SameAsInv'
    <2>1. CASE edges' \subseteq edges
      BY <2>1 DEF SameAsInv
    <2>2. CASE job[w].at = "merge" /\ edges' = edges \cup {IdOf(TheEdge(w))}
      <3> DEFINE e == TheEdge(w)
      <3>1. e \in job[w].edges /\ e \in Edge
        BY <2>2, HandEdge, TypeParts
      <3>2. e.rel = "SAME_AS" => e.by = "resolver"
        BY <3>1 DEF HandInv, Hand, Planned, SpecsLeaveIdentity, Edge
      <3>3. e.by = "resolver" =>
              e.src \in Persons /\ e.tgt \in Persons /\ Order[e.src] < Order[e.tgt]
        BY <3>1 DEF HandInv, Hand, Planned
      <3>4. /\ IdOf(e).rel = e.rel /\ IdOf(e).src = e.src /\ IdOf(e).tgt = e.tgt
            /\ e.by = "resolver" => IdOf(e).how = "derived"
        BY DEF IdOf
      <3> QED BY <2>2, <3>2, <3>3, <3>4 DEF SameAsInv
    <2> QED BY <1>2, <2>1, <2>2, NewEdges
  <1> QED BY <1>1, <1>2 DEF Next

\* In whatever order the persons are read, and by how many resolvers at a time,
\* two persons are never linked twice.
THEOREM OnePerPair ==
  ASSUME SpecsLeaveIdentity
  PROVE  Spec => []OneSameAsPerPair
  <1>1. Init => SameAsInv
    BY DEF Init, SameAsInv
  <1>2. EdgeInv /\ SameAsInv /\ [Next]_vars => SameAsInv'
    BY SameAsStep DEF EdgeInv
  <1>3. EdgeInv /\ SameAsInv => OneSameAsPerPair
    <2> SUFFICES ASSUME EdgeInv, SameAsInv, NEW i \in edges, NEW j \in edges,
                        i.rel = "SAME_AS", j.rel = "SAME_AS", {i.src, i.tgt} = {j.src, j.tgt}
                 PROVE  i = j
      BY DEF OneSameAsPerPair
    <2>1. i \in Ids /\ j \in Ids
      BY TypeParts DEF EdgeInv, DataType
    <2>2. Order[i.src] < Order[i.tgt] /\ Order[j.src] < Order[j.tgt]
          /\ i.how = "derived" /\ j.how = "derived"
          /\ Order[i.src] \in Nat /\ Order[i.tgt] \in Nat
      BY EdgeStoreAssumption DEF SameAsInv
    <2>3. i.src = j.src /\ i.tgt = j.tgt
      BY <2>2
    <2>4. PICK d \in Edge, e \in Edge : i = IdOf(d) /\ j = IdOf(e)
      BY <2>1 DEF Ids
    <2> QED BY <2>2, <2>3, <2>4 DEF IdOf
  <1> QED BY <1>1, <1>2, <1>3, EdgesSafe, PTL DEF Spec

LEMMA AllPairs ==
  ASSUME NEW read \in [Persons -> Email], NEW p \in Persons, NEW q \in Persons, p # q,
         read[p].value = read[q].value, read[p].value # NoEmail
  PROVE  \E e \in SameAs(read) : e.rel = "SAME_AS" /\ {e.src, e.tgt} = {p, q}
  <1> DEFINE m == read[p].value
             Link(a, b) == [rel |-> "SAME_AS", src |-> a, tgt |-> b, by |-> "resolver"]
  <1>1. m \in Emails /\ {p, q} \subseteq Cluster(read, m)
    BY DEF Email, Cluster
  <1>2. Order[p] < Order[q] \/ Order[q] < Order[p]
    <2>1. Order[p] \in Nat /\ Order[q] \in Nat /\ Order[p] # Order[q]
      BY EdgeStoreAssumption
    <2> QED BY <2>1
  <1>3. \A a, b \in Cluster(read, m) : Order[a] < Order[b] => Link(a, b) \in SameAs(read)
    <2> SUFFICES ASSUME NEW a \in Cluster(read, m), NEW b \in Cluster(read, m),
                        Order[a] < Order[b]
                 PROVE  Link(a, b) \in SameAs(read)
      OBVIOUS
    <2>1. <<a, b>> \in Pairs(Cluster(read, m))
      BY DEF Pairs
    <2> HIDE DEF m
    <2>2. <<a, b>> \in UNION {Pairs(Cluster(read, x)) : x \in Emails}
      BY <1>1, <2>1
    <2> QED BY <2>2 DEF SameAs
  <1> QED BY <1>1, <1>2, <1>3

\* A resolver that ends has missed no two persons who shared an email when it
\* read them: it linked each, and only a removal can have undone it.
THEOREM ResolversMissNone == Spec => ResolverLinksAll
  <1> DEFINE Step ==
        \A w \in Writers :
          EndProgram(w) /\ job[w].does = "resolve" =>
            \A p, q \in Persons :
              p # q /\ job[w].read[p].value = job[w].read[q].value
                    /\ job[w].read[p].value # NoEmail =>
                \E id \in edges \cup severed : id.rel = "SAME_AS" /\ {id.src, id.tgt} = {p, q}
  <1>1. ASSUME EdgeInv PROVE Step
    <2> SUFFICES ASSUME NEW w \in Writers, EndProgram(w), job[w].does = "resolve",
                        NEW p \in Persons, NEW q \in Persons, p # q,
                        job[w].read[p].value = job[w].read[q].value,
                        job[w].read[p].value # NoEmail
                 PROVE  \E id \in edges \cup severed :
                          id.rel = "SAME_AS" /\ {id.src, id.tgt} = {p, q}
      OBVIOUS
    <2>1. job[w].read \in [Persons -> Email]
      BY <1>1, TypeParts DEF EdgeInv, JobType, Job
    <2> DEFINE read == job[w].read
    <2>2. read \in [Persons -> Email] /\ read[p].value = read[q].value /\ read[p].value # NoEmail
      BY <2>1
    <2> HIDE DEF read
    <2>3. \E e \in SameAs(read) : e.rel = "SAME_AS" /\ {e.src, e.tgt} = {p, q}
      BY <2>2, AllPairs
    <2>4. PICK e \in SameAs(job[w].read) : e.rel = "SAME_AS" /\ {e.src, e.tgt} = {p, q}
      BY <2>3 DEF read
    <2>5. IdOf(e) \in edges \cup severed
      BY <1>1 DEF EdgeInv, HandInv, Hand, Linked, EndProgram
    <2> QED BY <2>4, <2>5 DEF IdOf
  <1>2. EdgeInv /\ [Next]_vars => [Step]_vars
    BY <1>1
  <1> QED BY <1>2, EdgesSafe, PTL DEF Spec, ResolverLinksAll
=============================================================================
