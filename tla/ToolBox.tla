-------------------------------- MODULE ToolBox --------------------------------
(***************************************************************************)
(* The tools a language model may call (backend/retrieval/tools.py over    *)
(* backend/vfs/operations.py).  The loops that drive the model dispatch    *)
(* one call after another; an exception of a tool is answered to the model *)
(* as an error, with the citations the call had collected kept.            *)
(***************************************************************************)
EXTENDS Tiers

CONSTANTS
  MaxK,          \* bound of the code on the nodes of one search
  MaxListing,    \* of one listing of the virtual file system
  MaxNeighbors   \* and on the neighbors of one call

ASSUME ToolBoxAssumption == {MaxK, MaxListing, MaxNeighbors} \subseteq Nat \ {0}

VARIABLES
  left,     \* the calls of the model's turn that are not answered yet
  walk      \* the neighbors a call still has to visit

calling == <<left, walk>>

Answered ==
  /\ left' = left - 1 /\ walk' = {}
  /\ step' = IF left = 1 THEN "follow up" ELSE "tools"
  /\ UNCHANGED <<graph, status, search>>

AtMost(limit) == {nodes \in SUBSET present : Cardinality(nodes) <= limit}

\* pattern_query: both ends of each match.
PatternQuery == At("tools") /\ \E found \in AtMost(2 * MaxK) : Cite(found) /\ Answered

\* A search or listing: its nodes are read in one statement and cited one by one.
Listed(limit) == At("tools") /\ \E found \in AtMost(limit) : Cite(found) /\ Answered

FulltextSearch == Listed(MaxK)
VectorSearch == Listed(MaxK)

\* vfs_ls of a type; the types themselves cite nothing.
VfsLs == Listed(MaxListing)
VfsGrep == Listed(MaxListing)
VfsFind == Listed(MaxListing)

\* get_node collects the citations before it looks for the node: a node that is
\* gone fails the call, but what was traced to it stays cited.
GetNode(n) == At("tools") /\ Cite({n}) /\ Answered

\* The source records of the traces of a node, each of which is stored; the traces
\* they are taken from are read before those that are cited.
RawEvidence(n) == SUBSET (IF n \in traced THEN {Whole} ELSE {})

\* vfs_cat cites the source records it returns too.
VfsCat(n) ==
  /\ At("tools")
  /\ n \in present
  /\ \E records \in RawEvidence(n) : cites' = cites \cup CitationsOf({n}) \cup records
  /\ Answered

VfsStat(n) == At("tools") /\ n \in present /\ Cite({n}) /\ Answered

\* get_source_record, of a record that is stored.
GetSourceRecord == At("tools") /\ cites' = cites \cup {Whole} /\ Answered

\* vfs_tree returns paths only.
VfsTree == At("tools") /\ UNCHANGED cites /\ Answered

\* A tool that does not exist, a bad argument or path, a node or record not found,
\* or a store error.
CallRefused == At("tools") /\ UNCHANGED cites /\ Answered

\* get_neighbors: the neighbors, then each of them.
Neighbors(n) ==
  /\ At("tools") /\ n \in present
  /\ \E around \in AtMost(MaxNeighbors) :
       n \notin around /\ walk' = around
  /\ step' = "walk"
  /\ UNCHANGED <<graph, cites, status, search, left>>

\* A neighbor that is there still is returned and cited.
Visit(n) ==
  /\ At("walk") /\ n \in walk
  /\ Cite({n} \cap present) /\ walk' = walk \ {n}
  /\ UNCHANGED <<graph, status, step, search, left>>

\* All were visited, or a visit fails and the call with it.
EndWalk == At("walk") /\ UNCHANGED cites /\ Answered

TheThreeTools ==
  \/ \E n \in Nodes : GetNode(n) \/ Neighbors(n)
  \/ GetSourceRecord
  \/ CallRefused

AllTools ==
  \/ TheThreeTools
  \/ PatternQuery \/ FulltextSearch \/ VectorSearch
  \/ VfsLs \/ VfsGrep \/ VfsFind \/ VfsTree
  \/ \E n \in Nodes : VfsCat(n) \/ VfsStat(n)

ToolBoxInit == TiersInit /\ left = 0 /\ walk = {}
=============================================================================
