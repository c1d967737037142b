---------------------------- MODULE GCoptimization --------------------------
(***************************************************************************)
(* Energy minimisation over labellings by expansion and swap moves         *)
(* (GCoptimization.cpp, mrf.cpp). A move builds an energy of binary        *)
(* variables, one for each pixel that may change, minimises it with a      *)
(* minimum cut and relabels the pixels.                                    *)
(*                                                                         *)
(* mrf describes the problem: alg ("Expansion", "Swap"), grid, width,      *)
(* height, nLabels, data[p][l], smoothType ("ARRAY", "FUNCTION"),          *)
(* varWeights, V[l][m], weight[p, q], fn[p, q, l, m], neighbors (for a     *)
(* graph that is no grid), labels (what the client sets before it starts), *)
(* random_label_order, iterations. For alg = "Energy" it is a client that   *)
(* hands its own terms to class Energy.                                    *)
(***************************************************************************)
EXTENDS MaxFlow

CONSTANT GCLL_BLOCK_SIZE   \* neighbours of a pixel in one block of the list

ASSUME ListAssumption == GCLL_BLOCK_SIZE \in Nat \ {0}

LOCAL INSTANCE SequencesExt
LOCAL INSTANCE FiniteSetsExt

VARIABLES
  mrf,
  m_labeling,
  m_labelTable,              \* the order in which labels are tried
  moves,                     \* the moves of this iteration that are left
  curr_cycle, old_energy, new_energy,
  phase                      \* of the program that owns the problem

labelVars == <<m_labeling, m_labelTable, moves, curr_cycle, old_energy, new_energy>>
----------------------------------------------------------------------------
(* The problem *)

Pixels == 0..(mrf.width * mrf.height - 1)
Labels == 0..(mrf.nLabels - 1)

\* setSmoothness(smoothExp, smoothMax, lambda): a truncated linear or quadratic
\* penalty.
SetSmoothness(nLabels, smoothExp, smoothMax, lambda) ==
  LET Cost(i, j) == LET d == IF i < j THEN j - i ELSE i - j
                        c == IF smoothExp = 1 THEN d ELSE d * d
                    IN lambda * (IF c > smoothMax THEN smoothMax ELSE c)
  IN [i \in 0..(nLabels - 1) |-> [j \in 0..(nLabels - 1) |-> Cost(i, j)]]

\* checkArray(): the penalty has to be symmetric.
CheckArray(V) == \A i \in DOMAIN V : \A j \in DOMAIN V : V[i][j] = V[j][i]

\* The order a LinkedBlockList is read in: the newest block first, each block
\* from its start.
AddFront(blocks, item) ==
  IF blocks = <<>> \/ Len(Head(blocks)) = GCLL_BLOCK_SIZE THEN <<<<item>>>> \o blocks
  ELSE [blocks EXCEPT ![1] = Append(@, item)]
InListOrder(blocks) == FoldLeft(LAMBDA s, b : s \o b, <<>>, blocks)

\* setNeighbors(): each pixel enters the other's list.
SetNeighbors(pairs, n) ==
  FoldLeft(LAMBDA f, p : [f EXCEPT ![p[1]] = AddFront(@, p[2]), ![p[2]] = AddFront(@, p[1])],
           [i \in 0..(n - 1) |-> <<>>], pairs)

\* The four ways a pair of neighbours costs.
GridArrayCost(p, q, l, m)         == mrf.V[l][m]
GridWeightedArrayCost(p, q, l, m) == mrf.V[l][m] * mrf.weight[p, q]
GridFnCost(p, q, l, m)            == mrf.fn[p, q][l, m]
ListArrayCost(p, q, l, m)         == mrf.V[l][m] * mrf.weight[p, q]
ListFnCost(p, q, l, m)            == mrf.fn[p, q][l, m]

PairCost(p, q, l, m) ==
  IF mrf.grid
    THEN IF mrf.smoothType = "FUNCTION" THEN GridFnCost(p, q, l, m)
         ELSE IF mrf.varWeights THEN GridWeightedArrayCost(p, q, l, m) ELSE GridArrayCost(p, q, l, m)
    ELSE IF mrf.smoothType = "FUNCTION" THEN ListFnCost(p, q, l, m) ELSE ListArrayCost(p, q, l, m)

\* The neighbours of pix on the grid.
X(pix) == pix - (pix \div mrf.width) * mrf.width
Y(pix) == pix \div mrf.width
If(b, e)   == IF b THEN <<e>> ELSE <<>>
Left(pix)  == If(X(pix) > 0, pix - 1)
Up(pix)    == If(Y(pix) > 0, pix - mrf.width)
Right(pix) == If(X(pix) < mrf.width - 1, pix + 1)
Down(pix)  == If(Y(pix) < mrf.height - 1, pix + mrf.width)

SumSeq(s, f(_)) == FoldLeft(LAMBDA n, x : n + f(x), 0, s)

DataEnergy(L) == MapThenSumSet(LAMBDA p : mrf.data[p][L[p]], Pixels)

GridSmoothEnergy(L) ==
  MapThenSumSet(LAMBDA p : SumSeq(Left(p), LAMBDA q : PairCost(p, q, L[p], L[q]))
                         + SumSeq(Up(p), LAMBDA q : PairCost(p, q, L[p], L[q])), Pixels)
ListSmoothEnergy(L) ==
  MapThenSumSet(LAMBDA p : SumSeq(SelectSeq(InListOrder(mrf.neighbors[p]), LAMBDA q : p < q),
                                  LAMBDA q : PairCost(p, q, L[p], L[q])), Pixels)
SmoothnessEnergy(L) == IF mrf.grid THEN GridSmoothEnergy(L) ELSE ListSmoothEnergy(L)

\* The value of a client's own term at a labelling.
TermValue(t, L) ==
  CASE Len(t.v) = 1 -> t.e[L[t.v[1]] + 1]
    [] Len(t.v) = 2 -> t.e[2 * L[t.v[1]] + L[t.v[2]] + 1]
    [] OTHER        -> t.e[4 * L[t.v[1]] + 2 * L[t.v[2]] + L[t.v[3]]]

TotalEnergy(L) ==
  IF mrf.alg = "Energy" THEN SumSeq(mrf.terms, LAMBDA t : TermValue(t, L))
  ELSE DataEnergy(L) + SmoothnessEnergy(L)
----------------------------------------------------------------------------
(* The energy of a move: terms over the variables 0, 1, ... of its pixels *)

Term1(i, e0, e1)             == [v |-> <<i>>, e |-> <<e0, e1>>]
Term2(i, j, e00, e01, e10, e11) == [v |-> <<i, j>>, e |-> <<e00, e01, e10, e11>>]

PixelsWhere(P(_)) == SelectSeq([k \in 1..Cardinality(Pixels) |-> k - 1], P)

\* 0 stands for the new label. m_lookupPixVar lists the pixels of the
\* variables; as the loop comes down, each entry it has read is given up for
\* the variable of a pixel, which is never below it.
ExpansionTerms(alpha, L, Order(_), Cost(_, _, _, _)) ==
  LET pixels == PixelsWhere(LAMBDA p : L[p] # alpha)
      size   == Len(pixels)
      Pair(i, pix, lookup, n) ==
        IF L[n] = alpha THEN <<Term1(i, Cost(pix, n, alpha, alpha), Cost(pix, n, L[pix], alpha))>>
        ELSE If(pix < n, Term2(i, lookup[n], Cost(pix, n, alpha, alpha), Cost(pix, n, alpha, L[n]),
                               Cost(pix, n, L[pix], alpha), Cost(pix, n, L[pix], L[n])))
      Variable(s, i) ==
        LET pix    == s.lookup[i]
            lookup == [s.lookup EXCEPT ![pix] = i]
        IN [lookup |-> lookup,
            terms  |-> FoldLeft(LAMBDA t, n : t \o Pair(i, pix, lookup, n), s.terms, Order(pix))]
  IN FoldLeft(Variable, [lookup |-> [i \in Pixels |-> IF i < size THEN pixels[i + 1] ELSE NULL], terms |-> <<>>],
              [k \in 1..size |-> size - k]).terms

GridExpansionOrder(pix) == Right(pix) \o Down(pix) \o Left(pix) \o Up(pix)
ListOrder(pix)          == InListOrder(mrf.neighbors[pix])

set_up_expansion_energy_NG_ARRAY(alpha, L)   == ExpansionTerms(alpha, L, ListOrder, ListArrayCost)
set_up_expansion_energy_NG_FnPix(alpha, L)   == ExpansionTerms(alpha, L, ListOrder, ListFnCost)
set_up_expansion_energy_G_ARRAY_VW(alpha, L) == ExpansionTerms(alpha, L, GridExpansionOrder, GridWeightedArrayCost)
set_up_expansion_energy_G_ARRAY(alpha, L)    == ExpansionTerms(alpha, L, GridExpansionOrder, GridArrayCost)
set_up_expansion_energy_G_FnPix(alpha, L)    == ExpansionTerms(alpha, L, GridExpansionOrder, GridFnCost)

\* add_t_links: the data costs.
DataTerms(pixels, cost0(_), cost1(_)) ==
  [k \in DOMAIN pixels |-> Term1(k - 1, cost0(pixels[k]), cost1(pixels[k]))]

ExpansionEnergy(alpha, L) ==
  LET pixels == PixelsWhere(LAMBDA p : L[p] # alpha)
      data   == DataTerms(pixels, LAMBDA p : mrf.data[p][alpha], LAMBDA p : mrf.data[p][L[p]])
      smooth == IF mrf.grid
                  THEN IF mrf.smoothType = "FUNCTION" THEN set_up_expansion_energy_G_FnPix(alpha, L)
                       ELSE IF mrf.varWeights THEN set_up_expansion_energy_G_ARRAY_VW(alpha, L)
                       ELSE set_up_expansion_energy_G_ARRAY(alpha, L)
                  ELSE IF mrf.smoothType = "FUNCTION" THEN set_up_expansion_energy_NG_FnPix(alpha, L)
                       ELSE set_up_expansion_energy_NG_ARRAY(alpha, L)
  IN [pixels |-> pixels, terms |-> data \o smooth]

\* 0 stands for alpha and 1 for beta. On the grid a pair is entered by its
\* right or lower pixel, in a list by the pixel with the smaller number.
SwapTerms(alpha, beta, L, Order(_), Enters(_, _), Cost(_, _, _, _)) ==
  LET pixels == PixelsWhere(LAMBDA p : L[p] \in {alpha, beta})
      lookup == [p \in ToSet(pixels) |-> CHOOSE i \in 0..(Len(pixels) - 1) : pixels[i + 1] = p]
      Pair(i, pix, n) ==
        IF L[n] \notin {alpha, beta} THEN <<Term1(i, Cost(pix, n, alpha, L[n]), Cost(pix, n, beta, L[n]))>>
        ELSE If(Enters(pix, n), Term2(i, lookup[n], Cost(pix, n, alpha, alpha), Cost(pix, n, alpha, beta),
                                      Cost(pix, n, beta, alpha), Cost(pix, n, beta, beta)))
  IN FoldLeft(LAMBDA s, p : s \o FoldLeft(LAMBDA t, n : t \o Pair(lookup[p], p, n), <<>>, Order(p)), <<>>, pixels)

GridSwapOrder(pix) == Left(pix) \o Up(pix) \o Right(pix) \o Down(pix)
Above(pix, n) == n < pix
Below(pix, n) == pix < n

set_up_swap_energy_NG_ARRAY(a, b, L)   == SwapTerms(a, b, L, ListOrder, Below, ListArrayCost)
set_up_swap_energy_NG_FnPix(a, b, L)   == SwapTerms(a, b, L, ListOrder, Below, ListFnCost)
set_up_swap_energy_G_FnPix(a, b, L)    == SwapTerms(a, b, L, GridSwapOrder, Above, GridFnCost)
set_up_swap_energy_G_ARRAY_VW(a, b, L) == SwapTerms(a, b, L, GridSwapOrder, Above, GridWeightedArrayCost)
set_up_swap_energy_G_ARRAY(a, b, L)    == SwapTerms(a, b, L, GridSwapOrder, Above, GridArrayCost)

SwapEnergy(a, b, L) ==
  LET pixels == PixelsWhere(LAMBDA p : L[p] \in {a, b})
      data   == DataTerms(pixels, LAMBDA p : mrf.data[p][a], LAMBDA p : mrf.data[p][b])
      smooth == IF mrf.grid
                  THEN IF mrf.smoothType = "FUNCTION" THEN set_up_swap_energy_G_FnPix(a, b, L)
                       ELSE IF mrf.varWeights THEN set_up_swap_energy_G_ARRAY_VW(a, b, L)
                       ELSE set_up_swap_energy_G_ARRAY(a, b, L)
                  ELSE IF mrf.smoothType = "FUNCTION" THEN set_up_swap_energy_NG_FnPix(a, b, L)
                       ELSE set_up_swap_energy_NG_ARRAY(a, b, L)
  IN [pixels |-> pixels, terms |-> data \o smooth]

\* A move is <<alpha>> or <<alpha, beta>>, and <<>> when a client minimises its
\* own terms.
MoveEnergy(move, L) ==
  CASE Len(move) = 1 -> ExpansionEnergy(move[1], L)
    [] Len(move) = 2 -> SwapEnergy(move[1], move[2], L)
    [] OTHER         -> [pixels |-> PixelsWhere(LAMBDA p : TRUE), terms |-> mrf.terms]

BuildEnergy(e) ==
  LET Var(t, k) == NodeAt(t.v[k])
      Add(g, t) == CASE Len(t.v) = 1 -> AddTerm1(g, Var(t, 1), t.e[1], t.e[2])
                     [] Len(t.v) = 2 -> AddTerm2(g, Var(t, 1), Var(t, 2), t.e[1], t.e[2], t.e[3], t.e[4])
                     [] OTHER        -> AddTerm3(g, Var(t, 1), Var(t, 2), Var(t, 3), t.e)
  IN FoldLeft(Add, FoldLeft(LAMBDA g, p : AddNode(g), NewGraph, e.pixels), e.terms)

\* The labelling in which the variables of e have the values x[i].
Relabelled(move, e, L, x(_)) ==
  LET New(k) == IF x(k - 1) = 0 THEN (IF move = <<>> THEN 0 ELSE move[1])
                ELSE CASE Len(move) = 1 -> L[e.pixels[k]]
                       [] Len(move) = 2 -> move[2]
                       [] OTHER         -> 1
  IN [p \in Pixels |-> IF p \in ToSet(e.pixels) THEN New(CHOOSE k \in DOMAIN e.pixels : e.pixels[k] = p) ELSE L[p]]
----------------------------------------------------------------------------
(* Actions *)

NoProblem ==
  /\ m_labeling = <<>> /\ m_labelTable = <<>> /\ moves = <<>>
  /\ curr_cycle = 0 /\ old_energy = 0 /\ new_energy = 0

\* The constructor, initialize(), clearAnswer() and the client's setLabel(), and
\* the first lines of start_expansion() and start_swap().
StartOptimize ==
  /\ phase = "optimize"
  /\ m_labeling' = mrf.labels
  /\ m_labelTable' = [k \in 1..mrf.nLabels |-> k - 1]
  /\ curr_cycle' = 1 /\ old_energy' = -1 /\ new_energy' = TotalEnergy(mrf.labels)
  /\ phase' = "cycle"
  /\ UNCHANGED <<mrf, moves, flowVars>>

Continues ==
  IF mrf.alg = "Energy" THEN curr_cycle = 1
  ELSE old_energy < 0 \/ (old_energy > new_energy /\ curr_cycle <= mrf.iterations)

\* scramble_label_table(): random transpositions reach every order.
LabelOrders ==
  IF mrf.random_label_order
    THEN {t \in [1..mrf.nLabels -> Labels] : \A i, j \in 1..mrf.nLabels : i # j => t[i] # t[j]}
    ELSE {m_labelTable}

ExpansionMoves(table) == [k \in DOMAIN table |-> <<table[k]>>]

\* oneSwapIteration() compares the labels, not their places, so that each pair
\* comes up once whatever the order.
SwapMoves(table) ==
  LET n == mrf.nLabels
      all == [k \in 1..(n * n) |-> <<table[((k - 1) \div n) + 1], table[n - ((k - 1) % n)]>>]
  IN SelectSeq(all, LAMBDA m : m[1] < m[2])

BeginCycle ==
  /\ phase = "cycle" /\ Continues
  /\ old_energy' = new_energy
  /\ m_labelTable' \in LabelOrders
  /\ moves' = CASE mrf.alg = "Expansion" -> ExpansionMoves(m_labelTable')
                [] mrf.alg = "Swap"      -> SwapMoves(m_labelTable')
                [] OTHER                 -> <<<<>>>>
  /\ phase' = "move"
  /\ UNCHANGED <<mrf, m_labeling, curr_cycle, new_energy, flowVars>>

\* perform_alpha_expansion() and perform_alpha_beta_swap() up to minimize(); a
\* move that changes no pixel ends at once.
BeginMove ==
  /\ phase = "move" /\ flowPhase = "idle" /\ moves # <<>>
  /\ \E e \in {MoveEnergy(Head(moves), m_labeling)} :
       IF e.pixels = <<>> THEN moves' = Tail(moves) /\ UNCHANGED flowVars
       ELSE (\E g \in {BuildEnergy(e)} : StartFlow(g)) /\ UNCHANGED moves
  /\ UNCHANGED <<mrf, m_labeling, m_labelTable, curr_cycle, old_energy, new_energy, phase>>

CutStep ==
  /\ FlowNext
  /\ UNCHANGED <<mrf, labelVars, phase>>

\* The pixels are relabelled and the energy is deleted.
EndMove ==
  /\ flowPhase = "done"
  /\ \E e \in {MoveEnergy(Head(moves), m_labeling)} :
       m_labeling' = Relabelled(Head(moves), e, m_labeling, LAMBDA i : WhatSegment(NodeAt(i)))
  /\ moves' = Tail(moves)
  /\ DeleteFlow
  /\ UNCHANGED <<mrf, m_labelTable, curr_cycle, old_energy, new_energy, phase>>

EndCycle ==
  /\ phase = "move" /\ flowPhase = "idle" /\ moves = <<>>
  /\ new_energy' = TotalEnergy(m_labeling) /\ curr_cycle' = curr_cycle + 1
  /\ phase' = "cycle"
  /\ UNCHANGED <<mrf, m_labeling, m_labelTable, moves, old_energy, flowVars>>

EndOptimize ==
  /\ phase = "cycle" /\ ~Continues
  /\ phase' = "optimized"
  /\ UNCHANGED <<mrf, labelVars, flowVars>>

LabelNext ==
  \/ StartOptimize \/ BeginCycle \/ BeginMove \/ CutStep \/ EndMove \/ EndCycle \/ EndOptimize
----------------------------------------------------------------------------
(* Properties *)

\* Do all pair terms of a move satisfy E00 + E11 <= E01 + E10, so that none is
\* truncated?
Regular(e) ==
  \A k \in DOMAIN e.terms : Len(e.terms[k].v) = 2 =>
    e.terms[k].e[1] + e.terms[k].e[4] <= e.terms[k].e[2] + e.terms[k].e[3]

\* A move whose terms are regular (GCoptimization.cpp:628-687, 1015-1070) ends
\* in a labelling of the least energy among all it could have reached, measured
\* by dataEnergy() + smoothnessEnergy() and not by the graph that was cut; in
\* particular it never makes the labelling worse. It ties the terms a move
\* enters, with their variables and weights, to the energy the caller sees.
OptimalMoves ==
  [][flowPhase = "done" =>
       LET move == Head(moves)
           e    == MoveEnergy(move, m_labeling)
       IN Regular(e) => \A T \in SUBSET (0..(Len(e.pixels) - 1)) :
            TotalEnergy(m_labeling')
              <= TotalEnergy(Relabelled(move, e, m_labeling, LAMBDA i : IF i \in T THEN 1 ELSE 0))]_<<m_labeling, moves>>
=============================================================================
