-------------------------- MODULE MCApplications ---------------------------
(***************************************************************************)
(* The three small programs, one subject at a time, chosen at the start.   *)
(*   "labels"     Segmentation and its optimiser: the best labels          *)
(*   "marginals"  BeliefPropagation: the marginals on a tree               *)
(*   "polygons"   PolygonEditor: mouse, menus and the saved scene          *)
(***************************************************************************)
EXTENDS Segmentation

CONSTANTS MAX_POLYGONS, MAX_POINTS, DRIFT, COLORS

VARIABLES
  subject,
  tree, root, nodePotential, message, visit, par, stack, pass, marginals,
  po, ponum, selected, state, drawingpoint, savexy, PolygonColorIndex, held, file, saved

\* Where the mouse may be, and where a point is set.
POSITIONS == {<<0, 0>>, <<1, 1>>}
CORNERS == {<<1, 1>>}

B == INSTANCE BeliefPropagation
Editor == INSTANCE PolygonEditor

beliefVars == <<tree, root, nodePotential, message, visit, par, stack, pass, marginals>>
editorVars == <<po, ponum, selected, state, drawingpoint, savexy, PolygonColorIndex, held, file, saved>>
everyVar == <<vars, beliefVars, editorVars, subject>>

\* Pictures of three by two pixels: a sharp edge, a soft one with a
\* probability map, and one without a foreground mark.
Picture(colour, markup, prob) ==
  [width |-> 3, height |-> 2, colour |-> [p \in 0..5 |-> colour[p + 1]],
   markup |-> [p \in 0..5 |-> markup[p + 1]], prob |-> [p \in 0..5 |-> prob[p + 1]]]

Images ==
  {Picture(<<0, 24, 240, 0, 228, 240>>, <<"blue", "none", "red", "blue", "none", "red">>, <<0, 0, 0, 0, 0, 0>>),
   Picture(<<24, 36, 48, 36, 36, 60>>, <<"blue", "none", "red", "none", "blue", "red">>, <<0, 1, 0, 0, 1, 1>>),
   Picture(<<0, 0, 0, 0, 0, 0>>, <<"blue", "none", "none", "none", "none", "none">>, <<0, 0, 0, 0, 0, 0>>)}

Grid(alg, data, V, weights, labels) ==
  [alg |-> alg, grid |-> TRUE, width |-> 2, height |-> 2, nLabels |-> 3,
   data |-> [p \in 0..3 |-> [l \in 0..2 |-> data[p + 1][l + 1]]], smoothType |-> "ARRAY",
   varWeights |-> weights # <<>>, V |-> V, weight |-> weights,
   labels |-> [p \in 0..3 |-> labels[p + 1]], random_label_order |-> TRUE, iterations |-> 3]

List(alg, data, type, pairs, V, labels, random) ==
  [alg |-> alg, grid |-> FALSE, width |-> 3, height |-> 1, nLabels |-> 3,
   data |-> [p \in 0..2 |-> [l \in 0..2 |-> data[p + 1][l + 1]]], smoothType |-> type, varWeights |-> FALSE,
   V |-> V, weight |-> [e \in (0..2) \X (0..2) |-> e[1] + e[2]],
   fn |-> [e \in (0..2) \X (0..2) |-> [l \in (0..2) \X (0..2) |-> V[l[1]][l[2]]]],
   neighbors |-> SetNeighbors(pairs, 3),
   labels |-> [p \in 0..2 |-> labels[p + 1]], random_label_order |-> random, iterations |-> 3]

Ring  == <<<<0, 1>>, <<1, 2>>, <<0, 2>>>>
Mixed == <<<<0, 4, 9>>, <<7, 0, 5>>, <<6, 8, 0>>, <<3, 1, 8>>>>
Edges == [e \in (0..3) \X (0..3) |-> 1 + ((e[1] + e[2]) % 3)]

\* The example of energy.h: x - 2y + 3(1-z) - 4xy + 5|y-z|; and two energies
\* with a term of three variables, one of each sign.
Own(n, terms) ==
  [alg |-> "Energy", grid |-> TRUE, width |-> n, height |-> 1, nLabels |-> 2, terms |-> terms,
   labels |-> [p \in 0..(n - 1) |-> 0],
   random_label_order |-> FALSE, iterations |-> 1]
Three(E) == [v |-> <<0, 1, 2>>, e |-> [k \in 0..7 |-> E[k + 1]]]
Example ==
  <<Term1(0, 0, 1), Term1(1, 0, -2), Term1(2, 3, 0), Term2(0, 1, 0, 0, 0, -4), Term2(1, 2, 0, 5, 5, 0)>>

\* A cut in which a node that was given up is reached again.
Reopened ==
  <<Term1(1, 2, 0), Term1(2, 0, 2), Term1(3, 0, 1), Term1(4, 0, 1), Term1(5, 0, 1), Term2(0, 1, 0, 2, 1, 0),
    Term2(0, 3, 0, 1, 3, 0), Term2(1, 3, 0, 0, 1, 0), Term2(1, 5, 0, 0, 0, 0), Term2(2, 3, 0, 2, 3, 0),
    Term2(3, 5, 0, 0, 2, 0)>>

Problems ==
  {Grid("Expansion", Mixed, SetSmoothness(3, 1, 2, 3), <<>>, <<0, 0, 0, 0>>),
   Grid("Expansion", Mixed, SetSmoothness(3, 1, 1, 2), Edges, <<0, 2, 1, 2>>),
   Grid("Swap", Mixed, SetSmoothness(3, 2, 4, 2), <<>>, <<0, 1, 2, 0>>),
   Grid("Swap", Mixed, SetSmoothness(3, 1, 2, 1), Edges, <<2, 1, 0, 1>>),
   List("Expansion", Mixed, "ARRAY", Ring, SetSmoothness(3, 2, 4, 3), <<0, 0, 0>>, TRUE),
   List("Expansion", Mixed, "FUNCTION", Ring, SetSmoothness(3, 1, 2, 2), <<0, 2, 1>>, TRUE),
   List("Swap", Mixed, "ARRAY", Ring, SetSmoothness(3, 1, 1, 4), <<2, 0, 1>>, TRUE),
   List("Swap", Mixed, "FUNCTION", Ring, SetSmoothness(3, 2, 3, 2), <<1, 2, 0>>, FALSE),
   Own(3, Example), Own(6, Reopened), Own(2, <<Term2(0, 1, 0, 6, 1, 4), Term1(1, 5, 0)>>),
   Own(3, <<Three(<<0, 3, 3, 3, 3, 3, 3, 1>>), Term1(0, 2, 0), Term1(1, 0, 1), Term1(2, 1, 0)>>),
   Own(3, <<Three(<<0, 2, 2, 4, 2, 4, 4, 5>>), Term1(0, 6, 0), Term1(1, 0, 1), Term1(2, 3, 0)>>)}

ASSUME \A p \in Problems : p.alg # "Energy" => CheckArray(p.V)

-----------------------------------------------------------------------------
\* The tree of main() and three more; its potentials, and some that rule out a
\* value or make both equal.
Trees ==
  {<<<<2, 3>>, <<1, 4, 5>>, <<1, 6>>, <<2>>, <<2>>, <<3>>>>,
   <<<<2>>, <<3, 1>>, <<2, 4>>, <<5, 3>>, <<4, 6>>, <<5>>>>,
   <<<<3>>, <<3>>, <<6, 2, 1, 4, 5>>, <<3>>, <<3>>, <<3>>>>,
   <<<<4>>, <<5>>, <<5, 4>>, <<3, 1, 6>>, <<2, 3>>, <<4>>>>}

Potential(p) == [u \in 1..6 |-> [x \in 0..1 |-> p[u][x + 1]]]
Potentials ==
  {Potential(<<<<7, 3>>, <<1, 9>>, <<7, 3>>, <<1, 9>>, <<7, 3>>, <<1, 9>>>>),
   Potential(<<<<0, 1>>, <<5, 5>>, <<2, 8>>, <<1, 0>>, <<9, 1>>, <<4, 6>>>>)}

\* The variables of the subject that was not chosen.
NoLabels ==
  /\ NoFlow /\ NoProblem /\ source = <<>> /\ meansOfClusters = <<>> /\ clusterBitmap = <<>> /\ passes = 0
  /\ after = <<>> /\ image = <<>> /\ mrf = <<>> /\ phase = "ended"

NoMarginals ==
  /\ tree = <<>> /\ root = NULL /\ nodePotential = NULL /\ message = NULL /\ visit = NULL
  /\ par = NULL /\ stack = <<>> /\ pass = "none" /\ marginals = <<>>

MCInit ==
  /\ Editor!EditorInit
  /\ \/ subject = "labels" /\ Init(Images, Problems) /\ NoMarginals
     \/ subject = "marginals" /\ B!Init(Trees, Potentials) /\ NoLabels
     \/ subject = "polygons" /\ NoLabels /\ NoMarginals

MCNext ==
  \/ subject = "labels" /\ Next /\ UNCHANGED <<subject, beliefVars, editorVars>>
  \/ subject = "marginals" /\ B!Next /\ UNCHANGED <<subject, vars, editorVars>>
  \/ subject = "marginals" /\ pass = "done" /\ UNCHANGED everyVar
  \/ subject = "polygons" /\ Editor!EditorNext /\ UNCHANGED <<subject, vars, beliefVars>>

MCSpec == MCInit /\ [][MCNext]_everyVar /\ KeepsRunning

-----------------------------------------------------------------------------
\* Whatever the tree and its root, the marginals are those of the distribution
\* itself, summed over every assignment (bp.cpp:100-199).
MarginalsExact == B!MarginalsExact

\* The scene survives saving, loading and every use of the mouse
\* (Source.cpp:182-364).
PolygonsKept == Editor!PolygonsKept
=============================================================================
