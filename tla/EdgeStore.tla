------------------------------- MODULE EdgeStore -------------------------------
(***************************************************************************)
(* The edges of backend/graph/store.py and the programs that write them:   *)
(* an ingest, the identity resolver (backend/ingest/identity.py) and the   *)
(* bootstrap of the organizational subgraph                                *)
(* (scripts/bootstrap_subgraph_nodes.py).                                  *)
(*                                                                         *)
(* Edges live in Neo4j, their traces in SQLite.  add_edge() stages the     *)
(* traces, merges in Neo4j and commits SQLite; the deletions go the other  *)
(* way.  The interior of add_node() and edit_node() is the subject of      *)
(* GraphStore: here they are one step each, of which only the trace and    *)
(* what the programs read of a person is kept.                             *)
(*                                                                         *)
(* A trace is named by the node or edge it is about.  Faults is as in      *)
(* GraphStore: "neo4j", "reply", "commit", "crash".                        *)
(***************************************************************************)
EXTENDS Naturals, FiniteSets

CONSTANTS
  Persons,
  Orgs, NoOrg,    \* Organization nodes: departments and locations
  Emails, NoEmail,
  Category,       \* the department a person's record names, or NoOrg
  LocationFor,    \* _location_for_emp(): the location a person is hashed to
  Order,          \* a number per person, by which their ids sort
  Incoming,       \* the persons an ingest or a human edit can write
  SpecEdges,      \* the edges a mapping spec makes
  Server,         \* the API process; it goes on when an operation fails
  Scripts,        \* the command line processes; an exception ends them
  Maintainers,    \* those of the processes that delete
  NoWriter,
  Faults,
  MaxOps          \* bound on the operations started

Nodes == Persons \cup Orgs
Writers == Scripts \cup {Server}

\* An edge, and by what it is asserted.  An edge rule of a mapping spec gives
\* an edge a trace for each of its fields; a bare rule has no fields.
Edge == [rel: {"SAME_AS", "MEMBER_OF", "REPORTS_TO"}, src: Nodes, tgt: Nodes,
         by: {"rule", "bare rule", "resolver", "bootstrap"}]

\* What a person's email is, and whether it was read at a confidence (exact or
\* human) that an unattributed assertion, which counts as exact, does not beat.
Email == [value: Emails \cup {NoEmail}, firm: BOOLEAN]
Unknown == [value |-> NoEmail, firm |-> FALSE]

ASSUME EdgeStoreAssumption ==
  /\ Persons \cap Orgs = {} /\ Persons # {} /\ IsFiniteSet(Persons)
  /\ NoOrg \notin Orgs /\ NoEmail \notin Emails
  /\ Category \in [Persons -> Orgs \cup {NoOrg}]
  /\ LocationFor \in [Persons -> Orgs]
  /\ Order \in [Persons -> Nat]
  /\ \A p, q \in Persons : Order[p] = Order[q] => p = q
  /\ Incoming \subseteq [node: Persons, email: Email]
  /\ SpecEdges \subseteq {e \in Edge : e.by \in {"rule", "bare rule"}}
  /\ Server \notin Scripts /\ NoWriter \notin Writers
  /\ Maintainers \subseteq Writers
  /\ Faults \subseteq {"neo4j", "reply", "commit", "crash"}
  /\ MaxOps \in Nat

VARIABLES
  nodes,      \* the nodes Neo4j holds
  email,      \* [Persons -> Email]
  office,     \* [Persons -> office_location, or NoOrg]
  edges,      \* the ids of the edges Neo4j holds
  traces,     \* what committed traces are about: nodes and edge ids
  tx,         \* SQLite's write lock: who holds it, and the rows staged
  job,        \* [Writers -> Job]
  started,
  written,    \* history: the ids ever merged
  severed     \* history: the ids removed, or separated from their traces, since
              \* they were last committed

vars == <<nodes, email, office, edges, traces, tx, job, started, written, severed>>
people == <<nodes, email, office>>
sqlite == <<traces, tx>>
history == <<written, severed>>

-----------------------------------------------------------------------------
(* Ids *)

\* deterministic_edge_id() hashes the edge's ends and relation; the bootstrap
\* passes an id of its own, a hash of another text.
IdOf(e) == [how |-> IF e.by = "bootstrap" THEN "explicit" ELSE "derived",
            rel |-> e.rel, src |-> e.src, tgt |-> e.tgt]

Ids == {IdOf(e) : e \in Edge}

\* What the traces of an edge are about, if it comes with any.
TraceOf(e) == IF e.by = "bare rule" THEN {} ELSE {IdOf(e)}

Joins(id, n) == n \in {id.src, id.tgt}

\* A trace is about a node or about an edge: it has a column for either.
ASSUME SubjectsApart == Nodes \cap Ids = {}

-----------------------------------------------------------------------------
(* SQLite *)

NoTx == [by |-> NoWriter, rows |-> {}]
Mine(w) == IF tx.by = w THEN tx.rows ELSE {}
CanWrite(w) == tx.by \in {w, NoWriter}

\* Mutant of EndTx: the lock is released, the rows stay.
EndTxKeepingRows(w) == tx' = IF tx.by = w THEN [tx EXCEPT !.by = NoWriter] ELSE tx

\* The transaction of w ends, its rows published or not.
EndTx(w) == tx' = IF tx.by = w THEN NoTx ELSE tx
Publish(w) == EndTx(w) /\ traces' = traces \cup Mine(w)
Rollback(w) == EndTx(w) /\ UNCHANGED traces

-----------------------------------------------------------------------------
(* Control *)

Steps == {"idle", "locate", "orgs", "next", "stage", "merge", "commit",
          "compensate", "detach", "untrace"}

Job == [at: Steps,
        does: {"ingest", "resolve", "bootstrap", "delete"},
        read: [Persons -> Email],    \* the persons' emails as read
        nodes: SUBSET Nodes,         \* nodes still to be written
        edges: SUBSET Edge,          \* edges still to be written
        edge: SUBSET Edge,           \* the one being written
        doomed: SUBSET (Nodes \cup Ids)]   \* what a deletion removes the traces of

Idle == [at |-> "idle", does |-> "ingest", read |-> [p \in Persons |-> Unknown],
         nodes |-> {}, edges |-> {}, edge |-> {}, doomed |-> {}]

Start(w, j) ==
  /\ job[w].at = "idle"
  /\ started < MaxOps
  /\ started' = started + 1
  /\ job' = [job EXCEPT ![w] = j]

Goto(w, step) == job' = [job EXCEPT ![w].at = step]
Finish(w) == job' = [job EXCEPT ![w] = Idle]

TheEdge(w) == CHOOSE e \in job[w].edge : TRUE

\* Mutant of Abort: the exception is raised without a rollback.
AbortKeeping(w) == Finish(w) /\ UNCHANGED sqlite

\* The store rolled back and raised: the program ends.
Abort(w) == Finish(w) /\ Rollback(w)

\* It raised without a rollback.  A script then dies, and SQLite rolls back.
Raise(w) == IF w = Server THEN Finish(w) /\ UNCHANGED sqlite ELSE Abort(w)

Present == [p \in Persons |-> IF p \in nodes THEN email[p] ELSE Unknown]

-----------------------------------------------------------------------------
(* add_node() and edit_node(), each as one step *)

\* A person is ingested or edited.  The confidences decide whether the email
\* is replaced, see ConflictDecision.
WritePerson(w, in) ==
  /\ job[w].at = "idle" /\ started < MaxOps /\ started' = started + 1
  /\ CanWrite(w)
  /\ nodes' = nodes \cup {in.node}
  /\ email' \in {[email EXCEPT ![in.node] = in.email]} \cup
                 (IF in.node \in nodes THEN {email} ELSE {})
  /\ tx' = NoTx
  /\ traces' = traces \cup Mine(w) \cup {in.node}
  /\ UNCHANGED <<office, edges, job, history>>

\* The commit of add_node() fails, and its compensation deletes the node with
\* its edges, see GraphStore.
LoseNode(w, n) ==
  /\ "commit" \in Faults
  /\ job[w].at = "idle" /\ started < MaxOps /\ started' = started + 1
  /\ CanWrite(w) /\ n \in nodes
  /\ nodes' = nodes \ {n}
  /\ email' = [p \in Persons |-> IF p = n THEN Unknown ELSE email[p]]
  /\ office' = [p \in Persons |-> IF p = n THEN NoOrg ELSE office[p]]
  /\ edges' = {id \in edges : ~ Joins(id, n)}
  /\ severed' = severed \cup (edges \ edges')
  /\ \/ Rollback(w)
     \/ w = Server /\ tx' = [by |-> w, rows |-> Mine(w) \cup {n}] /\ UNCHANGED traces
  /\ UNCHANGED <<job, written>>

-----------------------------------------------------------------------------
(* add_edge() *)

\* The next edge of the program.  The resolver first saves a stub record for
\* its trace, with a commit of its own.
PickEdge(w, e) ==
  /\ job[w].at = "next" /\ e \in job[w].edges
  /\ job' = [job EXCEPT ![w].at = "stage", ![w].edge = {e}]
  /\ IF job[w].does = "resolve" THEN CanWrite(w) /\ Publish(w) ELSE UNCHANGED sqlite
  /\ UNCHANGED <<people, edges, started, history>>

\* Mutant of StageEdge: an edge that is there already gets no new trace.
StageNewEdge(w) ==
  LET rows == TraceOf(TheEdge(w)) \ written
  IN /\ job[w].at = "stage"
     /\ IF rows = {} THEN UNCHANGED tx
        ELSE CanWrite(w) /\ tx' = [by |-> w, rows |-> Mine(w) \cup rows]
     /\ Goto(w, "merge")
     /\ UNCHANGED <<people, edges, traces, started, history>>

\* Without a row to insert no transaction is begun.
StageEdge(w) ==
  LET rows == TraceOf(TheEdge(w))
  IN /\ job[w].at = "stage"
     /\ IF rows = {} THEN UNCHANGED tx
        ELSE CanWrite(w) /\ tx' = [by |-> w, rows |-> Mine(w) \cup rows]
     /\ Goto(w, "merge")
     /\ UNCHANGED <<people, edges, traces, started, history>>

\* Mutant of Matched: the ends are created with the edge.
AnyEnds(e) == TRUE

\* MATCH of both ends: without them nothing is merged and add_edge() raises.
Matched(e) == {e.src, e.tgt} \subseteq nodes

MergeEdge(w) ==
  LET e == TheEdge(w)
  IN /\ job[w].at = "merge"
     /\ IF Matched(e)
          THEN /\ edges' = edges \cup {IdOf(e)} /\ written' = written \cup {IdOf(e)}
               /\ Goto(w, "commit") /\ UNCHANGED sqlite
          ELSE Abort(w) /\ UNCHANGED <<edges, written>>
     /\ UNCHANGED <<people, started, severed>>

CommitEdge(w) ==
  /\ job[w].at = "commit"
  /\ Publish(w)
  /\ job' = [job EXCEPT ![w].at = "next", ![w].edges = @ \ job[w].edge, ![w].edge = {}]
  /\ severed' = severed \ (TraceOf(TheEdge(w)) \cap edges)
  /\ UNCHANGED <<people, edges, started, written>>

\* After a failed commit the edge is deleted by its id, new or not.
CompensateEdge(w) ==
  /\ job[w].at = "compensate"
  /\ edges' = edges \ {IdOf(TheEdge(w))}
  /\ severed' = severed \cup {IdOf(TheEdge(w))}
  /\ Raise(w)
  /\ UNCHANGED <<people, started, written>>

-----------------------------------------------------------------------------
(* The programs *)

IngestEdge(w, e) ==
  /\ Start(w, [Idle EXCEPT !.at = "next", !.edges = {e}])
  /\ UNCHANGED <<people, edges, sqlite, history>>

\* Mutant of Pairs: pairs in the order the persons are read.
PairsAsRead(ps) ==
  LET start == started % Cardinality(Persons)
      seat(p) == (Order[p] + start) % Cardinality(Persons)
  IN {pair \in ps \X ps : seat(pair[1]) < seat(pair[2])}

\* Mutant of Pairs: each person is paired with the next only.
PairsOfNeighbours(ps) ==
  {pair \in ps \X ps : /\ Order[pair[1]] < Order[pair[2]]
                       /\ ~ \E q \in ps : Order[pair[1]] < Order[q] /\ Order[q] < Order[pair[2]]}

\* _ordered_pairs()
Pairs(ps) == {pair \in ps \X ps : Order[pair[1]] < Order[pair[2]]}

Cluster(read, e) == {p \in Persons : read[p].value = e}

SameAs(read) ==
  {[rel |-> "SAME_AS", src |-> pair[1], tgt |-> pair[2], by |-> "resolver"] :
     pair \in UNION {Pairs(Cluster(read, e)) : e \in Emails}}

\* IdentityResolver.resolve(): the clusters are read before anything is written.
Resolve(w) ==
  /\ w \in Scripts
  /\ Start(w, [Idle EXCEPT !.at = "next", !.does = "resolve", !.read = Present,
                           !.edges = SameAs(Present)])
  /\ UNCHANGED <<people, edges, sqlite, history>>

\* main(): the persons that lack an office_location.
Bootstrap(w) ==
  /\ w \in Scripts
  /\ Start(w, [Idle EXCEPT !.at = "locate", !.does = "bootstrap", !.read = Present,
                           !.nodes = {p \in Persons \cap nodes : office[p] = NoOrg}])
  /\ UNCHANGED <<people, edges, sqlite, history>>

\* What becomes of a person whose attributes as read, unattributed but for
\* none, are asserted with a location: values an exact one does not beat stay.
Asserted(w, p) ==
  [email |-> IF p \in nodes /\ email[p].firm THEN email
             ELSE [email EXCEPT ![p] = job[w].read[p]],
   office |-> IF office[p] # NoOrg THEN office ELSE [office EXCEPT ![p] = LocationFor[p]]]

\* A source record and add_node() with the attributes read earlier.
Inject(w, p) ==
  /\ job[w].at = "locate" /\ p \in job[w].nodes
  /\ CanWrite(w)
  /\ nodes' = nodes \cup {p}
  /\ email' = Asserted(w, p).email
  /\ office' = Asserted(w, p).office
  /\ tx' = NoTx
  /\ traces' = traces \cup Mine(w) \cup {p}
  /\ job' = [job EXCEPT ![w].nodes = @ \ {p}]
  /\ UNCHANGED <<edges, started, history>>

Membership(p, o) == [rel |-> "MEMBER_OF", src |-> p, tgt |-> o, by |-> "bootstrap"]

\* The organizations the persons name: their department and their location.
OrgsOf(p) == {Category[p], office[p]} \ {NoOrg}

\* The persons are read again; what they name is written first.
Reload(w) ==
  /\ job[w].at = "locate" /\ job[w].nodes = {}
  /\ job' = [job EXCEPT ![w].at = "orgs",
       ![w].nodes = UNION {OrgsOf(p) : p \in Persons \cap nodes},
       ![w].edges = UNION {{Membership(p, o) : o \in OrgsOf(p)} : p \in Persons \cap nodes}]
  /\ UNCHANGED <<people, edges, sqlite, started, history>>

UpsertOrg(w, o) ==
  /\ job[w].at = "orgs" /\ o \in job[w].nodes
  /\ CanWrite(w)
  /\ nodes' = nodes \cup {o}
  /\ tx' = NoTx
  /\ traces' = traces \cup Mine(w) \cup {o}
  /\ job' = [job EXCEPT ![w].nodes = @ \ {o}]
  /\ UNCHANGED <<email, office, edges, started, history>>

LinkMembers(w) ==
  /\ job[w].at = "orgs" /\ job[w].nodes = {}
  /\ Goto(w, "next")
  /\ UNCHANGED <<people, edges, sqlite, started, history>>

\* The program has written all it set out to write.
EndProgram(w) ==
  /\ job[w].at = "next" /\ job[w].edges = {}
  /\ Finish(w)
  /\ UNCHANGED <<people, edges, sqlite, started, history>>

-----------------------------------------------------------------------------
(* delete_edge() and delete_node(); nothing in the repository calls them *)

DeleteEdge(w, id) ==
  /\ w \in Maintainers
  /\ Start(w, [Idle EXCEPT !.at = "untrace", !.does = "delete", !.doomed = {id}])
  /\ edges' = edges \ {id}
  /\ severed' = severed \cup (edges \ edges')
  /\ UNCHANGED <<people, sqlite, written>>

\* The ids of a node's edges are collected in a statement of their own.
DeleteNode(w, n) ==
  /\ w \in Maintainers
  /\ Start(w, [Idle EXCEPT !.at = "detach", !.does = "delete", !.nodes = {n},
                           !.doomed = {n} \cup {id \in edges : Joins(id, n)}])
  /\ UNCHANGED <<people, edges, sqlite, history>>

Detached(gone) == {id \in edges : \A n \in gone : ~ Joins(id, n)}

Detach(w) ==
  LET gone == job[w].nodes
  IN /\ job[w].at = "detach"
     /\ nodes' = nodes \ gone
     /\ email' = [p \in Persons |-> IF p \in gone THEN Unknown ELSE email[p]]
     /\ office' = [p \in Persons |-> IF p \in gone THEN NoOrg ELSE office[p]]
     /\ edges' = Detached(gone)
     /\ severed' = severed \cup (edges \ edges')
     /\ Goto(w, "untrace")
     /\ UNCHANGED <<sqlite, started, written>>

\* The traces go in one transaction, also those of an edge that somebody has
\* merged again since.
Untrace(w) ==
  /\ job[w].at = "untrace" /\ CanWrite(w)
  /\ traces' = (traces \cup Mine(w)) \ job[w].doomed
  /\ EndTx(w)
  /\ severed' = severed \cup (job[w].doomed \cap edges)
  /\ Finish(w)
  /\ UNCHANGED <<people, edges, started, written>>

-----------------------------------------------------------------------------
(* Failures *)

\* SQLite's busy timeout.
BusyTimeout(w) ==
  /\ \/ job[w].at \in {"locate", "orgs"} /\ job[w].nodes # {}
     \/ job[w].at = "next" /\ job[w].does = "resolve" /\ job[w].edges # {}
     \/ job[w].at = "stage" /\ TraceOf(TheEdge(w)) # {}
     \/ job[w].at = "untrace"
  /\ ~ CanWrite(w)
  /\ Finish(w)
  /\ UNCHANGED <<people, edges, sqlite, started, history>>

\* A statement of Neo4j raises and is not applied.
Neo4jFails(w) ==
  /\ "neo4j" \in Faults
  /\ \/ job[w].at = "merge" /\ Abort(w)
     \/ job[w].at \in {"compensate", "detach"} /\ Raise(w)
  /\ severed' = severed \cup
       (IF job[w].at = "compensate" THEN {IdOf(TheEdge(w))} ELSE {})
  /\ UNCHANGED <<people, edges, started, written>>

\* The merge is applied, and the client sees an error.
ReplyLost(w) ==
  LET id == IdOf(TheEdge(w))
  IN /\ "reply" \in Faults
     /\ job[w].at = "merge" /\ Matched(TheEdge(w))
     /\ edges' = edges \cup {id}
     /\ written' = written \cup {id} /\ severed' = severed \cup {id}
     /\ Abort(w)
     /\ UNCHANGED <<people, started>>

\* The commit of add_edge() raises, with the transaction closed or still open.
CommitFails(w) ==
  /\ "commit" \in Faults
  /\ job[w].at = "commit"
  /\ Rollback(w) \/ UNCHANGED sqlite
  /\ Goto(w, "compensate")
  /\ UNCHANGED <<people, edges, started, history>>

Crash(w) ==
  /\ "crash" \in Faults
  /\ job[w].at # "idle" \/ tx.by = w
  /\ severed' = severed \cup
       (IF job[w].at \in {"commit", "compensate"} THEN {IdOf(TheEdge(w))} ELSE {})
  /\ Abort(w)
  /\ UNCHANGED <<people, edges, started, written>>

-----------------------------------------------------------------------------
Init ==
  /\ nodes = {} /\ edges = {} /\ traces = {} /\ tx = NoTx
  /\ email = [p \in Persons |-> Unknown]
  /\ office = [p \in Persons |-> NoOrg]
  /\ job = [w \in Writers |-> Idle]
  /\ started = 0
  /\ written = {} /\ severed = {}

AddEdge(w) ==
  \/ \E e \in job[w].edges : PickEdge(w, e)
  \/ StageEdge(w) \/ MergeEdge(w) \/ CommitEdge(w) \/ CompensateEdge(w)

Program(w) ==
  \/ \E in \in Incoming : WritePerson(w, in)
  \/ \E e \in SpecEdges : IngestEdge(w, e)
  \/ Resolve(w)
  \/ Bootstrap(w) \/ Reload(w) \/ LinkMembers(w)
  \/ \E p \in job[w].nodes : Inject(w, p)
  \/ \E o \in job[w].nodes : UpsertOrg(w, o)
  \/ EndProgram(w)

Delete(w) ==
  \/ \E id \in edges : DeleteEdge(w, id)
  \/ \E n \in nodes : DeleteNode(w, n)
  \/ Detach(w) \/ Untrace(w)

Fail(w) ==
  \/ BusyTimeout(w) \/ Neo4jFails(w) \/ ReplyLost(w) \/ CommitFails(w) \/ Crash(w)
  \/ \E n \in Persons : LoseNode(w, n)

Next == \E w \in Writers : AddEdge(w) \/ Program(w) \/ Delete(w) \/ Fail(w)

Spec == Init /\ [][Next]_vars

-----------------------------------------------------------------------------
(* Properties *)

\* The variables stay in their types; rows are staged only under the lock, and
\* an edge is in hand exactly while add_edge() runs.
TypeOK ==
  /\ nodes \subseteq Nodes
  /\ email \in [Persons -> Email] /\ office \in [Persons -> Orgs \cup {NoOrg}]
  /\ edges \subseteq written /\ written \subseteq Ids /\ severed \subseteq Ids
  /\ traces \subseteq Nodes \cup Ids
  /\ tx.by \in Writers \cup {NoWriter} /\ tx.rows \subseteq Nodes \cup Ids
  /\ tx.by = NoWriter => tx.rows = {}
  /\ job \in [Writers -> Job]
  /\ \A w \in Writers :
       IF job[w].at \in {"stage", "merge", "commit", "compensate"}
         THEN \E e \in job[w].edges : job[w].edge = {e}
         ELSE job[w].edge = {}
  /\ started \in 0..MaxOps

\* However deletions and compensations meet merges, every edge of the graph
\* joins two nodes of it: readers follow edges without looking.
EndpointsPresent == \A id \in edges : {id.src, id.tgt} \subseteq nodes

\* Neo4j is written before SQLite commits: a committed trace is about an edge
\* that was merged at some time, whatever failed.
TracesFollowMerges == (traces \cap Ids) \subseteq written

\* An edge of the graph is traced, or about to be, unless a lost reply, a
\* crash or a failed compensation fell between its merge and its commit, a
\* deletion of it was still under way when it was merged again, or a bare rule
\* makes it.
EdgesTraced ==
  \A id \in edges \ severed :
    \/ id \in traces
    \/ \E e \in SpecEdges : id = IdOf(e) /\ TraceOf(e) = {}
    \/ \E w \in Writers : /\ job[w].at \in {"commit", "compensate"}
                          /\ id = IdOf(TheEdge(w))

\* The registry of relations (canonical.yaml) would let a spec make SAME_AS edges.
SpecsLeaveIdentity == \A e \in SpecEdges : e.rel # "SAME_AS"

\* Resolving again, in whatever order the persons are read, never links two
\* persons a second time: "repeat ingestions of the same fact don't create
\* duplicate relationships".  This takes specs that make none of these edges
\* themselves (SpecsLeaveIdentity).
OneSameAsPerPair ==
  \A i, j \in edges :
    i.rel = "SAME_AS" /\ j.rel = "SAME_AS" /\ {i.src, i.tgt} = {j.src, j.tgt} => i = j

\* A resolver that ends has linked all persons that had one email when it read
\* them, but for edges that were removed meanwhile.
ResolverLinksAll ==
  [][\A w \in Writers :
       EndProgram(w) /\ job[w].does = "resolve" =>
         \A p, q \in Persons :
           p # q /\ job[w].read[p].value = job[w].read[q].value
                 /\ job[w].read[p].value # NoEmail =>
             \E id \in edges \cup severed : id.rel = "SAME_AS" /\ {id.src, id.tgt} = {p, q}]_vars
=============================================================================
