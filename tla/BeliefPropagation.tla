-------------------------- MODULE BeliefPropagation -------------------------
(***************************************************************************)
(* Belief propagation on a tree of variables with two values (bp.cpp): one *)
(* depth-first search sends the messages towards the root, a second one    *)
(* sends them back, and the product of the messages that reach a node is   *)
(* its marginal.  The recursion is a stack of calls.  Of two doubles that  *)
(* are normalised, or whose sum does not matter, only the ratio is kept.   *)
(***************************************************************************)
EXTENDS Integers, Sequences

LOCAL INSTANCE FiniteSetsExt

VARIABLES
  tree, root,        \* tree[u]: the neighbours of u in order
  nodePotential,     \* ten times the numbers of the program
  message,           \* message[u, v]: what u has told v, for the two values of v
  visit, par,
  stack,             \* the calls that are open, the last first: node and loop index
  pass,              \* "first", "second", "done"
  marginals

vars == <<tree, root, nodePotential, message, visit, par, stack, pass, marginals>>

Node  == DOMAIN tree
Value == 0..1
\* Twice the numbers of the program.
edgePotential == [x \in Value |-> [y \in Value |-> IF x = y THEN 2 ELSE 1]]

\* Two numbers up to a common factor; 0 to 0 is not a ratio and stays.
RECURSIVE Gcd(_, _)
Gcd(a, b) == IF b = 0 THEN a ELSE Gcd(b, a % b)
Ratio(h) ==
  LET g == Gcd(h[0], h[1]) IN IF g = 0 THEN h ELSE [x \in Value |-> h[x] \div g]

\* A node's potential times what some of its neighbours have told it.
Product(u, neighbours) ==
  FoldSet(LAMBDA v, h : [x \in Value |-> h[x] * message[v, u][x]], nodePotential[u], neighbours)

Neighbours(u) == {tree[u][i] : i \in DOMAIN tree[u]}

\* Mutant: what the receiver has told the sender is sent back to it.
CalculateMessage_Echo(from, to) ==
  LET h == Product(from, Neighbours(from))
  IN [x \in Value |-> message[from, to][x] + edgePotential[x][0] * h[0] + edgePotential[x][1] * h[1]]

\* calculateMessage(): from what the other neighbours have told the sender.
CalculateMessage(from, to) ==
  LET h == Product(from, Neighbours(from) \ {to})
  IN [x \in Value |-> message[from, to][x] + edgePotential[x][0] * h[0] + edgePotential[x][1] * h[1]]

Send(from, to) == message' = [message EXCEPT ![from, to] = Ratio(CalculateMessage(from, to))]

Call(u) == <<[node |-> u, i |-> 1]>>
Top == stack[1].node
Neighbour == tree[Top][stack[1].i]
InLoop == stack # <<>> /\ stack[1].i <= Len(tree[Top])

\* BP() up to the first search.
Init(trees, potentials) ==
  /\ tree \in trees /\ nodePotential \in potentials /\ root \in Node
  /\ message = [e \in Node \X Node |-> [x \in Value |-> 0]]
  /\ visit = [u \in Node |-> u = root]
  /\ par = [u \in Node |-> 0]
  /\ stack = Call(root) /\ pass = "first" /\ marginals = <<>>

\* The loop of both searches: a neighbour that was visited is passed over; one
\* that was not is searched.  FirstDFS() notes its parent, SecondDFS() tells it
\* before.
PassOver ==
  /\ InLoop /\ visit[Neighbour]
  /\ stack' = [stack EXCEPT ![1].i = @ + 1]
  /\ UNCHANGED <<tree, root, nodePotential, message, visit, par, pass, marginals>>

Descend ==
  /\ InLoop /\ ~visit[Neighbour]
  /\ visit' = [visit EXCEPT ![Neighbour] = TRUE]
  /\ stack' = Call(Neighbour) \o [stack EXCEPT ![1].i = @ + 1]
  /\ IF pass = "first" THEN par' = [par EXCEPT ![Neighbour] = Top] /\ UNCHANGED message
                        ELSE Send(Top, Neighbour) /\ UNCHANGED par
  /\ UNCHANGED <<tree, root, nodePotential, pass, marginals>>

\* The end of FirstDFS(): all but the root tell their parent.
Return ==
  /\ stack # <<>> /\ ~InLoop
  /\ stack' = Tail(stack)
  /\ IF pass = "first" /\ par[Top] # 0 THEN Send(Top, par[Top]) ELSE UNCHANGED message
  /\ UNCHANGED <<tree, root, nodePotential, visit, par, pass, marginals>>

\* BP() between the searches.
SearchAgain ==
  /\ stack = <<>> /\ pass = "first"
  /\ visit' = [u \in Node |-> u = root]
  /\ stack' = Call(root)
  /\ pass' = "second"
  /\ UNCHANGED <<tree, root, nodePotential, message, par, marginals>>

CalculateMarginals ==
  /\ stack = <<>> /\ pass = "second"
  /\ marginals' = [u \in Node |-> Ratio(Product(u, Neighbours(u)))]
  /\ pass' = "done"
  /\ UNCHANGED <<tree, root, nodePotential, message, visit, par, stack>>

Next == PassOver \/ Descend \/ Return \/ SearchAgain \/ CalculateMarginals

-----------------------------------------------------------------------------
\* The weight of an assignment of values to the nodes.
Weight(x) ==
  LET edges == {e \in Node \X Node : e[1] < e[2] /\ e[2] \in Neighbours(e[1])}
  IN FoldSet(LAMBDA u, w : w * nodePotential[u][x[u]], 1, Node)
     * FoldSet(LAMBDA e, w : w * edgePotential[x[e[1]]][x[e[2]]], 1, edges)

\* Whatever the tree and its root, the marginals are those of the distribution
\* itself, summed over every assignment: each message is sent once, after all
\* that it rests on (the order of bp.cpp:100-153 gives this, and no other
\* bookkeeping does).
MarginalsExact ==
  pass = "done" =>
    \A u \in Node :
      marginals[u] =
        Ratio([y \in Value |-> MapThenSumSet(Weight, {x \in [Node -> Value] : x[u] = y})])
=============================================================================
