----------------------------- MODULE Segmentation ---------------------------
(***************************************************************************)
(* The segmentation program (main.cpp): the marked pixels of an image are  *)
(* collected, the colours of each kind are clustered (kmeans.cpp), and an  *)
(* expansion of the energy of the two labels decides every pixel. A colour *)
(* is a number; the doubles of the costs are integers, SCALE to one.       *)
(***************************************************************************)
EXTENDS GCoptimization

CONSTANTS CLUSTERS,  \* means per kind of mark: 64
          PASSES,    \* rounds of the clustering: 30
          SCALE

LOCAL INSTANCE SequencesExt
LOCAL INSTANCE FiniteSetsExt

VARIABLES
  image,             \* width, height, colour[p], markup[p], prob[p] in halves
  source,            \* the colours being clustered
  meansOfClusters, clusterBitmap, passes,
  after              \* the means of each kind once they are final

kmeansVars == <<source, meansOfClusters, clusterBitmap, passes>>
vars == <<image, kmeansVars, after, mrf, labelVars, flowVars, phase>>

AllPixels == [k \in 1..(image.width * image.height) |-> k - 1]
----------------------------------------------------------------------------
(* Clustering *)

\* getForeBackground(): blue marks the background, red the foreground.
Marked(mark) ==
  LET ps == SelectSeq(AllPixels, LAMBDA p : image.markup[p] = mark) IN [k \in DOMAIN ps |-> image.colour[ps[k]]]

\* The next kind of mark to cluster.
Kind == IF "blue" \notin DOMAIN after THEN "blue" ELSE "red"

Distance2(x, m) == (x - m) * (x - m)

\* The constructor and initializeClusters(): every mean starts at a random
\* point. Without a point the remainder is taken of zero and the program dies.
InitializeClusters ==
  LET points == Marked(Kind)
  IN /\ phase = "cluster"
     /\ source' = points /\ passes' = 0 /\ clusterBitmap' = <<>>
     /\ IF points = <<>>
          THEN phase' = "crashed" /\ UNCHANGED meansOfClusters
          ELSE /\ \E pick \in [1..CLUSTERS -> DOMAIN points] :
                    meansOfClusters' = [c \in 1..CLUSTERS |-> points[pick[c]]]
               /\ phase' = "assign"
     /\ UNCHANGED <<image, after, mrf, labelVars, flowVars>>

\* calClusterforVector(): the first of the nearest means.
CalClusterForVector ==
  LET Nearest(x) == CHOOSE c \in 1..CLUSTERS :
                      \A d \in 1..CLUSTERS : /\ Distance2(x, meansOfClusters[c]) <= Distance2(x, meansOfClusters[d])
                                             /\ d < c => Distance2(x, meansOfClusters[c]) < Distance2(x, meansOfClusters[d])
  IN /\ phase = "assign"
     /\ clusterBitmap' = [i \in DOMAIN source |-> Nearest(source[i])]
     /\ phase' = "means"
     /\ UNCHANGED <<image, source, meansOfClusters, passes, after, mrf, labelVars, flowVars>>

\* Two mutants of CalMeans: one colour too many is counted, and a pass is
\* repeated when a cluster was empty.
CountsFromOne ==
  LET Members(c) == {i \in DOMAIN source : clusterBitmap[i] = c}
      Mean(c)    == MapThenSumSet(LAMBDA i : source[i], Members(c)) \div (Cardinality(Members(c)) + 1)
      last       == passes + 1 = PASSES
  IN /\ phase = "means"
     /\ meansOfClusters' = [c \in 1..CLUSTERS |-> Mean(c)]
     /\ passes' = passes + 1
     /\ after' = IF last THEN [k \in DOMAIN after \cup {Kind} |-> IF k = Kind THEN meansOfClusters' ELSE after[k]]
                 ELSE after
     /\ phase' = IF ~last THEN "assign" ELSE IF Kind = "blue" THEN "cluster" ELSE "generate"
     /\ UNCHANGED <<image, source, clusterBitmap, mrf, labelVars, flowVars>>

RepeatsForEmpty ==
  LET Members(c) == {i \in DOMAIN source : clusterBitmap[i] = c}
      empty      == {c \in 1..CLUSTERS : Members(c) = {}}
      Mean(c)    == MapThenSumSet(LAMBDA i : source[i], Members(c)) \div Cardinality(Members(c))
      last       == passes + 1 = PASSES /\ empty = {}
  IN /\ phase = "means"
     /\ \E pick \in [empty -> DOMAIN source] :
          meansOfClusters' = [c \in 1..CLUSTERS |-> IF c \in empty THEN source[pick[c]] ELSE Mean(c)]
     /\ passes' = IF empty = {} THEN passes + 1 ELSE passes
     /\ after' = IF last THEN [k \in DOMAIN after \cup {Kind} |-> IF k = Kind THEN meansOfClusters' ELSE after[k]]
                 ELSE after
     /\ phase' = IF ~last THEN "assign" ELSE IF Kind = "blue" THEN "cluster" ELSE "generate"
     /\ UNCHANGED <<image, source, clusterBitmap, mrf, labelVars, flowVars>>

\* calmeans(): the mean of each cluster; an empty one moves to a random point.
CalMeans ==
  LET Members(c) == {i \in DOMAIN source : clusterBitmap[i] = c}
      Mean(c)    == MapThenSumSet(LAMBDA i : source[i], Members(c)) \div Cardinality(Members(c))
      last       == passes + 1 = PASSES
  IN /\ phase = "means"
     /\ \E pick \in [{c \in 1..CLUSTERS : Members(c) = {}} -> DOMAIN source] :
          meansOfClusters' = [c \in 1..CLUSTERS |-> IF Members(c) = {} THEN source[pick[c]] ELSE Mean(c)]
     /\ passes' = passes + 1
     /\ after' = IF last THEN [k \in DOMAIN after \cup {Kind} |-> IF k = Kind THEN meansOfClusters' ELSE after[k]]
                 ELSE after
     /\ phase' = IF ~last THEN "assign" ELSE IF Kind = "blue" THEN "cluster" ELSE "generate"
     /\ UNCHANGED <<image, source, clusterBitmap, mrf, labelVars, flowVars>>
----------------------------------------------------------------------------
(* The energy *)

\* calDis(): the distance to the nearest mean of a kind.
CalDis(p, kind) ==
  Min({IF image.colour[p] > m THEN image.colour[p] - m ELSE m - image.colour[p] : m \in ToSet(after[kind])})

\* dCost(): a mark decides; otherwise the share of the distances. Label 1 is
\* the foreground.
dCost(p, label) ==
  LET fore == CalDis(p, "red")
      back == CalDis(p, "blue")
  IN CASE image.markup[p] = "red"  -> IF label = 0 THEN 100 * SCALE ELSE 0
       [] image.markup[p] = "blue" -> IF label = 0 THEN 0 ELSE 100 * SCALE
       [] OTHER -> IF fore + back = 0 THEN 0 ELSE (SCALE * (IF label = 1 THEN fore ELSE back)) \div (fore + back)

\* fnCost(): neighbours of different labels, the dearer the closer their
\* colours are and the likelier both pixels belong to the foreground.
fnCost(p, q, i, j) ==
  LET d == IF p < q THEN q - p ELSE p - q
      cordis == Distance2(image.colour[p], image.colour[q])
  IN IF i # j /\ d \in {1, image.width}
       THEN (1500 * SCALE * 4) \div ((cordis + 1) * (2 - image.prob[p]) * (2 - image.prob[q])) ELSE 0

\* generate_DataFUNCTION_SmoothGENERAL_FUNCTION() and the Expansion of main().
GenerateEnergy ==
  LET ps == ToSet(AllPixels)
      near == {e \in ps \X ps : e[1] - e[2] \in {1, -1, image.width, -image.width}}
  IN /\ phase = "generate"
     /\ mrf' = [alg |-> "Expansion", grid |-> TRUE, width |-> image.width, height |-> image.height, nLabels |-> 2,
                data |-> [p \in ps |-> [l \in 0..1 |-> dCost(p, l)]],
                smoothType |-> "FUNCTION", varWeights |-> FALSE,
                fn |-> [e \in near |-> [l \in (0..1) \X (0..1) |-> fnCost(e[1], e[2], l[1], l[2])]],
                labels |-> [p \in ps |-> 0], random_label_order |-> TRUE, iterations |-> 3]
     /\ phase' = "optimize"
     /\ UNCHANGED <<image, kmeansVars, after, labelVars, flowVars>>

\* A colour no other pixel has.
BLUE == -1

\* The background is painted blue and the picture written.
Output ==
  /\ phase = "optimized"
  /\ image' = IF image = <<>> THEN image
              ELSE [image EXCEPT !.colour = [p \in DOMAIN @ |-> IF m_labeling[p] = 0 THEN BLUE ELSE @[p]]]
  /\ phase' = "ended"
  /\ UNCHANGED <<kmeansVars, after, mrf, labelVars, flowVars>>

Stopped == phase \in {"ended", "crashed"}

Next ==
  \/ InitializeClusters \/ CalClusterForVector \/ CalMeans \/ GenerateEnergy \/ Output
  \/ LabelNext /\ UNCHANGED <<image, kmeansVars, after>>
  \/ Stopped /\ UNCHANGED vars

\* The program runs until it stops: WF_vars(Next) for a Next that can always
\* change vars until then (a run that checks for deadlock shows that it can).
KeepsRunning == []<>Stopped \/ []<><<TRUE>>_vars

\* Problems are solved by main() from an image, or handed to the optimiser by a
\* client of its classes.
Init(images, problems) ==
  /\ NoFlow /\ NoProblem /\ source = <<>> /\ meansOfClusters = <<>> /\ clusterBitmap = <<>> /\ passes = 0
  /\ after = <<>>
  /\ \/ image \in images /\ mrf = <<>> /\ phase = "cluster"
     \/ image = <<>> /\ mrf \in problems /\ phase = "optimize"
----------------------------------------------------------------------------
(* Properties *)

Spread(means, bitmap) ==
  MapThenSumSet(LAMBDA i : Distance2(source[i], means[bitmap[i]]), DOMAIN bitmap)

\* Each half of a round of mykmeans::optimize() (kmeans.cpp:112-122) brings the
\* colours nearer to their means or leaves them as they are, even when a mean
\* that lost its last colour is moved to a random one.
ClustersImprove ==
  [][/\ phase = "assign" /\ passes > 0 => Spread(meansOfClusters, clusterBitmap') <= Spread(meansOfClusters, clusterBitmap)
     /\ phase = "means" => Spread(meansOfClusters', clusterBitmap) <= Spread(meansOfClusters, clusterBitmap)]_kmeansVars

\* The program ends with a picture, whatever paths maxflow() takes
\* (maxflow.cpp:678-850) and whatever order the labels come in
\* (GCoptimization.cpp:972-990), unless one kind of mark is missing: then it
\* dies in kmeans.cpp:27.
SegmentationEnds ==
  <>(phase = "ended" \/ (phase = "crashed" /\ \E k \in {"blue", "red"} : Marked(k) = <<>>))
=============================================================================
