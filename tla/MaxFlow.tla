------------------------------- MODULE MaxFlow ------------------------------
(***************************************************************************)
(* The minimum cut of the segmentation program.  First the graph:          *)
(* add_node, add_edge, add_tweights, the energy terms it stands for        *)
(* (energy.h) and prepare_graph(), which sorts the arcs in place into a    *)
(* forward star whose rows are kept in blocks of fixed size.  Then         *)
(* maxflow(): two search trees, one from the source and one from the sink, *)
(* grow until they touch; the path found is augmented; the nodes this cuts *)
(* off look for a new parent or become free.  The trees are kept from one  *)
(* augmentation to the next.                                               *)
(***************************************************************************)
EXTENDS Integers, Sequences, FiniteSets

CONSTANTS NODE_BLOCK_SIZE,  \* nodes of a node block, one of them a spare
          ARC_BLOCK_SIZE    \* arcs of an arc block

ASSUME BlockAssumption == NODE_BLOCK_SIZE \in Nat \ {0, 1} /\ ARC_BLOCK_SIZE \in Nat \ {0}

LOCAL INSTANCE SequencesExt
LOCAL INSTANCE FiniteSetsExt

\* A null pointer.
NULL == -1
----------------------------------------------------------------------------
(* Building the graph *)

NewGraph == [n |-> 0, trCap |-> <<>>, edges |-> <<>>, flow |-> 0, econst |-> 0]

\* The address of the k-th node: a block is full one node before its end, so
\* that the node after the last one can be read.
NodeAt(k) == ((k \div (NODE_BLOCK_SIZE - 1)) * NODE_BLOCK_SIZE) + (k % (NODE_BLOCK_SIZE - 1))

\* The node the next add_node() returns, and the graph with it.
AddNode(g) ==
  [g EXCEPT !.n = @ + 1,
            !.trCap = [i \in DOMAIN @ \cup {NodeAt(g.n)} |-> IF i = NodeAt(g.n) THEN 0 ELSE @[i]]]

AddEdge(g, from, to, cap, rev) ==
  [g EXCEPT !.edges = Append(@, [from |-> from, to |-> to, r_cap |-> cap, r_rev_cap |-> rev])]

\* The flow that goes straight through a node is taken at once.
AddTweights(g, i, capSource, capSink) ==
  LET delta == g.trCap[i]
      s == IF delta > 0 THEN capSource + delta ELSE capSource
      t == IF delta > 0 THEN capSink ELSE capSink - delta
  IN [g EXCEPT !.flow = @ + (IF s < t THEN s ELSE t), !.trCap[i] = s - t]
----------------------------------------------------------------------------
(* Energy terms over binary variables *)

AddTerm1(g, x, a, b) == AddTweights(g, x, b, a)

\* A term that is not submodular is truncated: a third of the excess is taken
\* from E00 and the rest is added to E10 and E01.
Truncated(a, b, c, d) ==
  LET delta == a + d - c - b
      third == delta \div 3
  IN IF delta > 0 THEN <<a - third, b + delta - 2 * third, c + third, d>> ELSE <<a, b, c, d>>

\* A mutant of AddTerm2: the edge of the second case is turned round.
TurnedEdge(g, x, y, a, b, c, d) ==
  LET t  == Truncated(a, b, c, d)
      B  == t[2] - t[1]
      C  == t[3] - t[4]
      g1 == AddTweights(g, x, t[4], t[1])
  IN IF B < 0
       THEN AddEdge(AddTweights(AddTweights(g1, x, 0, B), y, 0, -B), x, y, 0, B + C)
     ELSE IF C < 0
       THEN AddEdge(AddTweights(AddTweights(g1, x, 0, -C), y, 0, C), x, y, 0, B + C)
     ELSE AddEdge(g1, x, y, B, C)

AddTerm2(g, x, y, a, b, c, d) ==
  LET t  == Truncated(a, b, c, d)
      B  == t[2] - t[1]
      C  == t[3] - t[4]
      g1 == AddTweights(g, x, t[4], t[1])
  IN IF B < 0
       THEN AddEdge(AddTweights(AddTweights(g1, x, 0, B), y, 0, -B), x, y, 0, B + C)
     ELSE IF C < 0
       THEN AddEdge(AddTweights(AddTweights(g1, x, 0, -C), y, 0, C), x, y, B + C, 0)
     ELSE AddEdge(g1, x, y, B, C)

\* The eight values of a term of three variables: E[4 * x + 2 * y + z].
AddTerm3(g, x, y, z, E) ==
  LET pi == (E[0] + E[3] + E[5] + E[6]) - (E[4] + E[2] + E[1] + E[7])
      u  == NodeAt(g.n)
      Const(k)      == [g EXCEPT !.econst = @ + k]
      Ends(h, l, r) == AddTweights(AddTweights(AddTweights(h, x, l[1], r[1]), y, l[2], r[2]), z, l[3], r[3])
  IN IF pi >= 0
     THEN LET g1 == Ends(Const(E[7] - (E[3] + E[5] + E[6])), <<E[5], E[6], E[3]>>, <<E[1], E[4], E[2]>>)
              g2 == AddEdge(g1, y, z, (E[2] + E[1]) - (E[0] + E[3]), 0)
              g3 == AddEdge(g2, z, x, (E[4] + E[1]) - (E[0] + E[5]), 0)
              g4 == AddEdge(g3, x, y, (E[4] + E[2]) - (E[0] + E[6]), 0)
          IN IF pi = 0 THEN g4
             ELSE AddTweights(AddEdge(AddEdge(AddEdge(AddNode(g4), x, u, pi, 0), y, u, pi, 0), z, u, pi, 0),
                              u, 0, pi)
     ELSE LET g1 == Ends(Const(E[0] - (E[4] + E[2] + E[1])), <<E[6], E[3], E[5]>>, <<E[2], E[1], E[4]>>)
              g2 == AddEdge(g1, z, y, (E[6] + E[5]) - (E[4] + E[7]), 0)
              g3 == AddEdge(g2, x, z, (E[6] + E[3]) - (E[2] + E[7]), 0)
              g4 == AddEdge(g3, y, x, (E[5] + E[3]) - (E[1] + E[7]), 0)
          IN AddTweights(AddEdge(AddEdge(AddEdge(AddNode(g4), u, x, -pi, 0), u, y, -pi, 0), u, z, -pi, 0),
                         u, -pi, 0)
----------------------------------------------------------------------------
(* prepare_graph() *)

\* The nodes in the order their blocks are scanned: the newest block first.
NodeOrder(g) ==
  LET Block(b) == SelectSeq([k \in 1..g.n |-> NodeAt(k - 1)], LAMBDA i : i \div NODE_BLOCK_SIZE = b)
      last     == (g.n - 1) \div (NODE_BLOCK_SIZE - 1)
  IN FoldLeft(LAMBDA s, b : s \o Block(b), <<>>, [k \in 1..(last + 1) |-> last + 1 - k])

\* The blocks the arcs were added to: 0 is the oldest, the list starts with the
\* newest.
Blocks(g) == (Len(g.edges) + ARC_BLOCK_SIZE - 1) \div ARC_BLOCK_SIZE

\* First stage: walking over the nodes, give each the next degree[i] places of
\* a block; a row that does not fit starts the next block of the list, and
\* after the last one a new block. first[i] is the end of i's row, last[b] the
\* last node of block b. A node block's spare ends the row before it.
PlaceRows(g, degree) ==
  LET Next(s) == IF s.blk >= Blocks(g) THEN s.blk + 1 ELSE IF s.blk = 0 THEN Blocks(g) ELSE s.blk - 1
      Place(s, i) ==
        LET full == s.pos + degree[i] > ARC_BLOCK_SIZE
            b    == IF full THEN Next(s) ELSE s.blk
            p    == (IF full THEN 0 ELSE s.pos) + degree[i]
            ends == {i, i + 1}
        IN [blk   |-> b, pos |-> p,
            first |-> [j \in DOMAIN s.first \cup ends |-> IF j \in ends THEN <<b, p>> ELSE s.first[j]],
            last  |-> [c \in DOMAIN s.last \cup {b} |-> IF c = b THEN i ELSE s.last[c]]]
  IN FoldLeft(Place, [blk |-> Blocks(g) - 1, pos |-> 0, first |-> <<>>, last |-> <<>>], NodeOrder(g))

Prev(slot) == <<slot[1], slot[2] - 1>>

\* Second stage: the arcs are permuted in place. The arc at af belongs to
\* `from'; it goes to the end of from's row, and the arc it displaces there is
\* the next to move, until a place is reached whose arc has already left.
RECURSIVE MoveArcs(_, _, _, _, _, _)
MoveArcs(s, old, from, af, ar, carried) ==
  LET new == [shift |-> s.arc[af].to - from, r_cap |-> s.arc[af].r_cap, r_rev_cap |-> s.arc[af].r_rev_cap]
      af2 == Prev(s.first[from])
      ar2 == IF af2[1] < old THEN af2 ELSE ar
      s2  == [s EXCEPT !.arc[af] = IF carried = <<>> THEN @ ELSE carried[1],
                       !.sister[ar] = NULL, !.first[from] = af2]
  IN IF s2.sister[ar2] # NULL
       THEN MoveArcs(s2, old, s2.sister[ar2], af2, ar2, <<new>>)
       ELSE [s2 EXCEPT !.arc[af2] = new]

\* The first entry of a block's last row moves behind the row, and its place
\* keeps where the row ends.
RowOf(first, last, current, i) ==
  LET a == first[i]
  IN IF last[a[1]] = i
       THEN [k \in 1..(current[a[1]][2] - a[2]) |-> <<a[1], a[2] + k>>]
       ELSE [k \in 1..(first[i + 1][2] - a[2]) |-> <<a[1], a[2] + k - 1>>]

\* A graph without an edge gets one, between two nodes of its own.
AtLeastOneEdge(g) ==
  IF g.edges # <<>> THEN g
  ELSE AddEdge(AddNode(AddNode(g)), NodeAt(g.n), NodeAt(g.n + 1), 1, 0)

\* The edges that leave each node ("from"), or reach it ("to").
Degree(g, end) == [i \in DOMAIN g.trCap |-> Cardinality({k \in DOMAIN g.edges : g.edges[k][end] = i})]

\* The places of a stage's blocks, and where the last row of each ends.
Places(rows)  == {<<b, p>> : b \in DOMAIN rows.last, p \in 0..ARC_BLOCK_SIZE}
LastEnd(rows) == [b \in DOMAIN rows.last |-> rows.first[rows.last[b]]]

\* The arcs at their places, every row from first[i] on.
SortedArcs(g, rows) ==
  LET old      == Blocks(g)
      Added(q) == q[1] * ARC_BLOCK_SIZE + q[2] + 1
      Filled(q) == q[1] < old /\ q[2] < ARC_BLOCK_SIZE /\ Added(q) <= Len(g.edges)
      start    == [arc    |-> [q \in Places(rows) |->
                                 IF Filled(q) THEN g.edges[Added(q)] ELSE [shift |-> 0, r_cap |-> 0, r_rev_cap |-> 0]],
                   sister |-> [q \in {r \in Places(rows) : r[1] < old /\ r[2] < ARC_BLOCK_SIZE} |->
                                 IF Filled(q) THEN g.edges[Added(q)].from ELSE NULL],
                   first  |-> rows.first]
      scanned  == [k \in 1..(old * ARC_BLOCK_SIZE) |->
                     <<old - 1 - (k - 1) \div ARC_BLOCK_SIZE, (k - 1) % ARC_BLOCK_SIZE>>]
  IN FoldLeft(LAMBDA s, q : IF s.sister[q] = NULL THEN s ELSE MoveArcs(s, old, s.sister[q], q, q, <<>>), start, scanned)

\* What the second stage leaves: the arcs and every node's row of them.
OutRows(g, rows, s, end) ==
  [arc |-> FoldSet(LAMBDA b, m : LET a == s.first[rows.last[b]]
                                 IN [m EXCEPT ![end[b]] = m[a], ![a] = [@ EXCEPT !.shift = 0]],
                   s.arc, {b \in DOMAIN rows.last : s.first[rows.last[b]] # end[b]}),
   out |-> [i \in DOMAIN g.trCap |-> RowOf(s.first, rows.last, end, i)]]

OutStar(g, rows) == OutRows(g, rows, SortedArcs(g, rows), LastEnd(rows))

\* Third stage: every arc is entered into its head's row of reverse arcs.
EnterSisters(g, star, rows) ==
  LET To(i, q) == i + star.arc[q].shift
      Enter(s, i) ==
        FoldLeft(LAMBDA t, q : [first  |-> [t.first EXCEPT ![To(i, q)] = Prev(@)],
                                sister |-> [t.sister EXCEPT ![Prev(t.first[To(i, q)])] = q]], s, star.out[i])
  IN FoldLeft(Enter, [first |-> rows.first, sister |-> [q \in Places(rows) |-> NULL]], NodeOrder(g))

InRows(g, rows, s, end) ==
  LET sisters == FoldSet(LAMBDA b, m : [m EXCEPT ![end[b]] = m[s.first[rows.last[b]]]], s.sister, DOMAIN rows.last)
      Arcs(row) == [k \in DOMAIN row |-> sisters[row[k]]]
  IN [i \in DOMAIN g.trCap |-> Arcs(RowOf(s.first, rows.last, end, i))]

InStar(g, star, rows) == InRows(g, rows, EnterSisters(g, star, rows), LastEnd(rows))

\* The forward star: the arcs, and for every node the places of its outgoing
\* arcs and of its incoming ones (the sisters), in the order they are scanned.
StarFrom(g, star) ==
  [order |-> NodeOrder(g), trCap |-> g.trCap, flow |-> g.flow, out |-> star.out,
   in  |-> InStar(g, star, PlaceRows(g, Degree(g, "to"))),
   arc |-> [q \in UNION {ToSet(star.out[i]) : i \in DOMAIN star.out} |-> star.arc[q]]]

Star(g)         == StarFrom(g, OutStar(g, PlaceRows(g, Degree(g, "from"))))
ForwardStar(g0) == Star(AtLeastOneEdge(g0))

-----------------------------------------------------------------------------
(* The search for augmenting paths *)

VARIABLES
  net,           \* the forward star, as prepare_graph() left it
  arc,           \* its arcs with their residual capacities
  node,          \* parent, is_sink, TS, DIST and tr_cap of every node
  queue,         \* the two queues of active nodes
  current_node,  \* the node whose scan found the last path
  TIME, flow,
  path,          \* s_start, t_start and the arc between them
  orphans,       \* inner: children of the orphan at hand; rest: the others
  flowPhase

flowVars == <<net, arc, node, queue, current_node, TIME, flow, path, orphans, flowPhase>>

\* The values of node->parent: nothing, TERMINAL, ORPHAN, or <<arc, odd>>.
NoParent == <<>>
TERMINAL == <<"terminal">>
ORPHAN   == <<"orphan">>
INFINITE_D == 1000000000

NoFlow ==
  /\ net = NewGraph /\ arc = <<>> /\ node = <<>> /\ queue = <<<<>>, <<>>>> /\ current_node = NULL
  /\ TIME = 0 /\ flow = 0 /\ path = <<>> /\ orphans = [inner |-> <<>>, rest |-> <<>>]
  /\ flowPhase = "idle"

\* The graph is deleted.
DeleteFlow ==
  /\ net' = NewGraph /\ arc' = <<>> /\ node' = <<>> /\ queue' = <<<<>>, <<>>>> /\ current_node' = NULL
  /\ TIME' = 0 /\ flow' = 0 /\ path' = <<>> /\ orphans' = [inner |-> <<>>, rest |-> <<>>]
  /\ flowPhase' = "idle"
----------------------------------------------------------------------------
(* Helpers *)

\* The arcs of i in the order they are scanned: <<arc, outgoing>>.
OutRow(i) == [k \in DOMAIN net.out[i] |-> <<net.out[i][k], TRUE>>]
InRow(i)  == [k \in DOMAIN net.in[i] |-> <<net.in[i][k], FALSE>>]

Neighbor(i, e) == IF e[2] THEN i + arc[e[1]].shift ELSE i - arc[e[1]].shift

ParentNode(nd, j) ==
  LET a == nd[j].parent IN IF a[2] THEN j - arc[a[1]].shift ELSE j + arc[a[1]].shift

\* The capacity a tree can grow through, from i along e in the source tree and
\* towards i in the sink tree; and the capacity in the other direction.
GrowCap(e, sink)  == IF e[2] # sink THEN arc[e[1]].r_cap ELSE arc[e[1]].r_rev_cap
AdoptCap(e, sink) == IF e[2] # sink THEN arc[e[1]].r_rev_cap ELSE arc[e[1]].r_cap

\* set_active(): a node that is listed already stays where it is; so does the
\* node whose scan found the path, which keeps its flag until the scan goes on.
SetActive(qu, i, flagged) ==
  IF i \in ToSet(qu[1]) \cup ToSet(qu[2]) \cup flagged THEN qu ELSE <<qu[1], Append(qu[2], i)>>

\* next_active(): nodes that have lost their parent are dropped.
RECURSIVE NextActive(_, _)
NextActive(nd, qu) ==
  IF qu[1] = <<>>
    THEN IF qu[2] = <<>> THEN [i |-> NULL, queue |-> qu] ELSE NextActive(nd, <<qu[2], <<>>>>)
    ELSE IF nd[Head(qu[1])].parent # NoParent
           THEN [i |-> Head(qu[1]), queue |-> <<Tail(qu[1]), qu[2]>>]
           ELSE NextActive(nd, <<Tail(qu[1]), qu[2]>>)
----------------------------------------------------------------------------
(* Actions *)

\* prepare_graph() and maxflow_init().
StartFlow(g) ==
  \E f \in {ForwardStar(g)} :
  LET Leaf(i) == [parent |-> IF f.trCap[i] # 0 THEN TERMINAL ELSE NoParent, is_sink |-> f.trCap[i] < 0,
                  TS |-> 0, DIST |-> IF f.trCap[i] # 0 THEN 1 ELSE 0, tr_cap |-> f.trCap[i]]
  IN /\ flowPhase = "idle"
     /\ net' = f /\ arc' = f.arc /\ flow' = f.flow /\ TIME' = 0
     /\ node' = [i \in DOMAIN f.trCap |-> Leaf(i)]
     /\ queue' = <<<<>>, SelectSeq(f.order, LAMBDA i : f.trCap[i] # 0)>>
     /\ current_node' = NULL /\ path' = <<>> /\ orphans' = [inner |-> <<>>, rest |-> <<>>]
     /\ flowPhase' = "grow"

\* One arc of the scan of i: a free node joins the tree, a node of the other
\* tree ends the scan, a node of the same tree may be moved nearer to the root.
Visit(s, i, e) ==
  LET j    == Neighbor(i, e)
      sink == s.node[i].is_sink
      Join == [parent |-> e, is_sink |-> sink, TS |-> s.node[i].TS, DIST |-> s.node[i].DIST + 1,
               tr_cap |-> s.node[j].tr_cap]
  IN IF s.stop \/ GrowCap(e, sink) = 0 THEN s
     ELSE IF s.node[j].parent = NoParent
       THEN [s EXCEPT !.node[j] = Join, !.queue = SetActive(@, j, {})]
     ELSE IF s.node[j].is_sink # sink
       THEN [s EXCEPT !.stop = TRUE,
                      !.path = [s |-> IF sink THEN j ELSE i, t |-> IF sink THEN i ELSE j,
                                arc |-> e[1], forward |-> e[2] # sink]]
     ELSE IF s.node[j].TS <= s.node[i].TS /\ s.node[j].DIST > s.node[i].DIST
       THEN [s EXCEPT !.node[j] = Join]
     ELSE s

\* A mutant of Scan: the incoming arcs are forgotten.
ScanOutgoing(i, qu) ==
  FoldLeft(LAMBDA s, e : Visit(s, i, e), [node |-> node, queue |-> qu, stop |-> FALSE, path |-> <<>>], OutRow(i))

\* The scan of the outgoing arcs, then of the incoming ones; in the sink tree
\* the second scan is made even when the first has found a path.
Scan(i, qu) ==
  LET start == [node |-> node, queue |-> qu, stop |-> FALSE, path |-> <<>>]
      outs  == FoldLeft(LAMBDA s, e : Visit(s, i, e), start, OutRow(i))
      again == [outs EXCEPT !.stop = @ /\ ~node[i].is_sink]
  IN FoldLeft(LAMBDA s, e : Visit(s, i, e), again, InRow(i))

Candidate ==
  IF current_node # NULL /\ node[current_node].parent # NoParent
    THEN [i |-> current_node, queue |-> queue] ELSE NextActive(node, queue)

Grow ==
  LET c == Candidate
      s == Scan(c.i, c.queue)
  IN /\ flowPhase = "grow" /\ c.i # NULL
     /\ node' = s.node /\ queue' = s.queue /\ path' = s.path /\ TIME' = TIME + 1
     /\ current_node' = IF s.path # <<>> THEN c.i ELSE NULL
     /\ flowPhase' = IF s.path # <<>> THEN "augment" ELSE "grow"
     /\ UNCHANGED <<net, arc, flow, orphans>>

\* No active node is left.
Stop ==
  LET c == Candidate
  IN /\ flowPhase = "grow" /\ c.i = NULL
     /\ queue' = c.queue /\ current_node' = NULL /\ flowPhase' = "done"
     /\ UNCHANGED <<net, arc, node, TIME, flow, path, orphans>>

\* The nodes from i up to the root of its tree.
RECURSIVE Ancestors(_, _)
Ancestors(nd, i) == IF nd[i].parent = TERMINAL THEN <<i>> ELSE <<i>> \o Ancestors(nd, ParentNode(nd, i))

\* augment(): the flow goes down the source tree, over the middle arc and up
\* the sink tree. The arcs are <<arc, forward>>; a tree arc's node is the one
\* below it.
Augment ==
  LET up(i)  == Front(Ancestors(node, i))
      root(i) == Last(Ancestors(node, i))
      Along(i) == LET a == node[i].parent IN <<a[1], a[2] # node[i].is_sink>>
      Cap(e)  == IF e[2] THEN arc[e[1]].r_cap ELSE arc[e[1]].r_rev_cap
      below   == up(path.s) \o up(path.t)
      steps   == {Along(below[k]) : k \in DOMAIN below} \cup {<<path.arc, path.forward>>}
      bottleneck == Min({Cap(e) : e \in steps} \cup {node[root(path.s)].tr_cap, -node[root(path.t)].tr_cap})
      pushed  == FoldSet(LAMBDA e, m :
                    [m EXCEPT ![e[1]].r_cap = IF e[2] THEN @ - bottleneck ELSE @ + bottleneck,
                              ![e[1]].r_rev_cap = IF e[2] THEN @ + bottleneck ELSE @ - bottleneck], arc, steps)
      Cut(i)  == IF i = root(path.s) THEN node[i].tr_cap = bottleneck
                 ELSE IF i = root(path.t) THEN node[i].tr_cap = -bottleneck
                 ELSE Cap(Along(i)) = bottleneck
      cut     == SelectSeq(Ancestors(node, path.s) \o Ancestors(node, path.t), Cut)
  IN /\ flowPhase = "augment"
     /\ arc' = pushed /\ flow' = flow + bottleneck
     /\ node' = [i \in DOMAIN node |->
                   [node[i] EXCEPT !.parent = IF i \in ToSet(cut) THEN ORPHAN ELSE @,
                                   !.tr_cap = IF i = root(path.s) THEN @ - bottleneck
                                              ELSE IF i = root(path.t) THEN @ + bottleneck ELSE @]]
     /\ orphans' = [inner |-> <<>>, rest |-> Reverse(cut)]
     /\ path' = <<>>
     /\ flowPhase' = IF cut = <<>> THEN "grow" ELSE "adopt"
     /\ UNCHANGED <<net, queue, current_node, TIME>>

\* Does j descend from the terminal, and at what distance? A mark of this
\* round ends the walk.
RECURSIVE Origin(_, _, _)
Origin(nd, j, d) ==
  IF nd[j].TS = TIME THEN [node |-> nd, d |-> d + nd[j].DIST]
  ELSE IF nd[j].parent = TERMINAL THEN [node |-> [nd EXCEPT ![j].TS = TIME, ![j].DIST = 1], d |-> d + 1]
  ELSE IF nd[j].parent = ORPHAN THEN [node |-> nd, d |-> INFINITE_D]
  ELSE Origin(nd, ParentNode(nd, j), d + 1)

\* Set marks along the path.
RECURSIVE Mark(_, _, _)
Mark(nd, j, d) ==
  IF nd[j].TS = TIME THEN nd ELSE Mark([nd EXCEPT ![j].TS = TIME, ![j].DIST = d], ParentNode(nd, j), d - 1)

\* One arc of an orphan: is its other end a nearer parent than the best so far?
TryParent(s, i, e, sink) ==
  LET j == Neighbor(i, e)
      o == Origin(s.node, j, 0)
  IN IF AdoptCap(e, sink) = 0 \/ s.node[j].is_sink # sink \/ s.node[j].parent = NoParent THEN s
     ELSE IF o.d >= INFINITE_D THEN [s EXCEPT !.node = o.node]
     ELSE [node |-> Mark(o.node, j, o.d), best |-> IF o.d < s.d_min THEN <<e[1], ~e[2]>> ELSE s.best,
           d_min |-> IF o.d < s.d_min THEN o.d ELSE s.d_min]

\* A mutant of Release: the neighbours are not made active.
ReleaseQuietly(s, i, e, sink) ==
  LET j == Neighbor(i, e)
      a == s.node[j].parent
      child == a \notin {NoParent, TERMINAL, ORPHAN} /\ a[2] = e[2] /\ ParentNode(s.node, j) = i
  IN IF s.node[j].is_sink # sink \/ ~child THEN s
     ELSE [s EXCEPT !.node[j].parent = ORPHAN, !.orphans = Append(@, j)]

\* One arc of a node that found no parent: its neighbours in the tree become
\* active if they can reach it, and its children become orphans.
Release(s, i, e, sink) ==
  LET j == Neighbor(i, e)
      a == s.node[j].parent
      child == a \notin {NoParent, TERMINAL, ORPHAN} /\ a[2] = e[2] /\ ParentNode(s.node, j) = i
  IN IF s.node[j].is_sink # sink \/ a = NoParent THEN s
     ELSE [node    |-> IF child THEN [s.node EXCEPT ![j].parent = ORPHAN] ELSE s.node,
           queue   |-> IF AdoptCap(e, sink) # 0 THEN SetActive(s.queue, j, {current_node}) ELSE s.queue,
           orphans |-> IF child THEN Append(s.orphans, j) ELSE s.orphans]

ProcessOrphan(i, sink) ==
  LET rows  == OutRow(i) \o InRow(i)
      tried == FoldLeft(LAMBDA s, e : TryParent(s, i, e, sink),
                        [node |-> node, best |-> NoParent, d_min |-> INFINITE_D], rows)
      freed == [tried.node EXCEPT ![i].parent = NoParent, ![i].TS = 0]
  IN IF tried.best # NoParent
       THEN [node |-> [tried.node EXCEPT ![i].parent = tried.best, ![i].TS = TIME, ![i].DIST = tried.d_min + 1],
             queue |-> queue, orphans |-> <<>>]
       ELSE FoldLeft(LAMBDA s, e : Release(s, i, e, sink),
                     [node |-> freed, queue |-> queue, orphans |-> <<>>], rows)

ProcessSourceOrphan(i) == ProcessOrphan(i, FALSE)
ProcessSinkOrphan(i)   == ProcessOrphan(i, TRUE)

\* The adoption loop: the children an orphan leaves are processed before the
\* next orphan of the augmentation.
Adopt ==
  LET front == IF orphans.inner # <<>> THEN orphans.inner ELSE <<Head(orphans.rest)>>
      rest  == IF orphans.inner # <<>> THEN orphans.rest ELSE Tail(orphans.rest)
      i     == Head(front)
      r     == IF node[i].is_sink THEN ProcessSinkOrphan(i) ELSE ProcessSourceOrphan(i)
      inner == Tail(front) \o r.orphans
  IN /\ flowPhase = "adopt"
     /\ node' = r.node /\ queue' = r.queue
     /\ orphans' = [inner |-> inner, rest |-> rest]
     /\ flowPhase' = IF inner = <<>> /\ rest = <<>> THEN "grow" ELSE "adopt"
     /\ UNCHANGED <<net, arc, current_node, TIME, flow, path>>

FlowNext == Grow \/ Stop \/ Augment \/ Adopt

\* what_segment(): a free node belongs to the sink.
WhatSegment(i) == IF node[i].parent # NoParent /\ ~node[i].is_sink THEN 0 ELSE 1
----------------------------------------------------------------------------
(* Properties *)

\* The steps from i to the root of its tree, or to an orphan above it; 0 if the
\* parent links lead nowhere.
RECURSIVE Depth(_, _)
Depth(i, seen) ==
  IF node[i].parent = TERMINAL THEN 1
  ELSE IF node[i].parent \in {ORPHAN, NoParent} \/ i \in seen THEN 0
  ELSE LET d == Depth(ParentNode(node, i), seen \cup {i}) IN IF d = 0 THEN 0 ELSE d + 1

Orphans == ToSet(orphans.inner) \cup ToSet(orphans.rest)
Active  == ToSet(queue[1]) \cup ToSet(queue[2]) \cup {current_node}

\* The search trees of Graph::maxflow() (maxflow.cpp:669-852) stay trees while
\* they are grown, cut and mended: a node with a residual arc to a terminal is
\* a root of that terminal's tree; every other node of a tree hangs on a
\* parent of the same tree by an arc with residual capacity; the nodes that
\* are cut off are exactly those on the adoption list; a mark of the current
\* adoption gives a node's distance to the terminal; and between two paths no
\* residual arc leads out of a tree except from an active node, so that no
\* augmenting path is overlooked.
SearchTreeInv ==
  flowPhase # "idle" =>
    /\ \A q \in DOMAIN arc : arc[q].r_cap >= 0 /\ arc[q].r_rev_cap >= 0
    /\ \A i \in DOMAIN node :
         LET n == node[i]
             p == ParentNode(node, i)
         IN /\ n.tr_cap # 0 => n.parent = TERMINAL /\ n.is_sink = (n.tr_cap < 0)
            /\ (n.parent = ORPHAN) <=> (i \in Orphans)
            /\ n.parent = TERMINAL => n.tr_cap # 0
            /\ n.parent \notin {NoParent, TERMINAL, ORPHAN} =>
                 /\ node[p].parent # NoParent /\ node[p].is_sink = n.is_sink
                 /\ AdoptCap(<<n.parent[1], ~n.parent[2]>>, n.is_sink) > 0
            /\ flowPhase \in {"grow", "augment"} /\ n.parent # NoParent => Depth(i, {}) > 0
            /\ flowPhase = "adopt" /\ n.TS = TIME /\ n.parent # NoParent => Depth(i, {}) = n.DIST
    /\ flowPhase \in {"grow", "done"} =>
         \A i \in DOMAIN node : node[i].parent # NoParent /\ i \notin Active =>
           LET row == OutRow(i) \o InRow(i)
           IN \A k \in DOMAIN row : GrowCap(row[k], node[i].is_sink) > 0 =>
                /\ node[Neighbor(i, row[k])].parent # NoParent
                /\ node[Neighbor(i, row[k])].is_sink = node[i].is_sink

\* The capacity of the cut between the nodes of T and the others, in the graph
\* that was handed to maxflow(), with what flowed through single nodes.
CutCapacity(T) ==
  LET Pos(x) == IF x > 0 THEN x ELSE 0
      Node(i) == IF i \in T THEN Pos(net.trCap[i]) ELSE Pos(-net.trCap[i])
      Arcs(i) == MapThenSumSet(LAMBDA k :
                   LET q == net.out[i][k]
                       j == i + net.arc[q].shift
                   IN IF i \notin T /\ j \in T THEN net.arc[q].r_cap
                      ELSE IF i \in T /\ j \notin T THEN net.arc[q].r_rev_cap ELSE 0, DOMAIN net.out[i])
  IN net.flow + MapThenSumSet(LAMBDA i : Node(i) + Arcs(i), DOMAIN net.trCap)

\* When maxflow() ends (maxflow.cpp:681, 864), what_segment() describes a
\* minimum cut and the flow returned is its capacity: no other division of the
\* nodes is cheaper.
MinimumCut ==
  flowPhase = "done" =>
    /\ flow = CutCapacity({i \in DOMAIN node : WhatSegment(i) = 1})
    /\ \A T \in SUBSET DOMAIN node : flow <= CutCapacity(T)

\* The two together (maxflow.cpp:669-852).
MaxflowInv == SearchTreeInv /\ MinimumCut
=============================================================================
