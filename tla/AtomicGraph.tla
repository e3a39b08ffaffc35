------------------------------ MODULE AtomicGraph ------------------------------
(***************************************************************************)
(* What GraphStore promises its callers: one store in which an incoming    *)
(* node is reconciled with what is there, traced and queued in one step,   *)
(* and so is a human edit.  A conflict leaves the queue once the chosen    *)
(* value has been written.                                                 *)
(***************************************************************************)
EXTENDS GraphTypes

VARIABLES
  graph,    \* [Nodes -> Node]
  traces,   \* all traces, oldest first
  queue,    \* the open conflict rows
  settled   \* the resolved ones

vars == <<graph, traces, queue, settled>>

Init ==
  /\ graph = [n \in Nodes |-> NoNode]
  /\ traces = <<>>
  /\ queue = {}
  /\ settled = {}

\* The open rows after the conflicts of t: a row that is already open for the
\* attribute gets the new incoming side.
Enqueue(t, stored) ==
  LET queued == Queued(traces, stored, t)
      ofAttr(a) == {r \in queue : r.node = t.node /\ r.attr = a}
      new(a) == ConflictOf(traces, stored, t, a)
  IN {r \in queue : r.node # t.node \/ r.attr \notin queued} \cup
     UNION {IF ofAttr(a) = {} THEN {new(a)} ELSE {Refreshed(r, new(a)) : r \in ofAttr(a)} :
              a \in queued}

Assert(b) ==
  LET n == b.trace.node
      stored == graph[n].attrs
  IN /\ graph[n].type \in {b.type, NoType}
     /\ graph' = [graph EXCEPT
                    ![n] = [type |-> b.type, attrs |-> Reconcile(traces, stored, b.trace),
                            version |-> @.version + 1]]
     /\ traces' = Append(traces, b.trace)
     /\ queue' = Enqueue(b.trace, stored)
     /\ UNCHANGED settled

\* The changes that resolve a conflict: one attribute gets the chosen value.
Choices == {[Nothing EXCEPT ![a] = v] : a \in Attrs, v \in Values}

Override(n, changes) ==
  /\ graph[n] # NoNode
  /\ graph' = [graph EXCEPT ![n].attrs = Overlay(@, changes), ![n].version = @ + 1]
  /\ traces' = Append(traces, HumanTrace(n, changes))
  /\ UNCHANGED <<queue, settled>>

Settle(row, value) ==
  /\ graph[row.node].attrs[row.attr] = value
  /\ Latest(traces, row.node, row.attr).conf = "human"
  /\ queue' = queue \ {row}
  /\ settled' = settled \cup {Closed(row, value)}
  /\ UNCHANGED <<graph, traces>>

Next ==
  \/ \E b \in Batches : Assert(b)
  \/ \E n \in Nodes, changes \in Edits \cup Choices : Override(n, changes)
  \/ \E row \in queue, v \in Values : Settle(row, v)

Spec == Init /\ [][Next]_vars
=============================================================================
