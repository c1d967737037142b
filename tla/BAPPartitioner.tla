--------------------------- MODULE BAPPartitioner ---------------------------
(***************************************************************************)
(* The three vessel partitioners: each vessel is given a section, or stays *)
(* unassigned at a penalty.  "TV" takes vessels and sections at random,    *)
(* "GREEDY" takes the vessel that leaves first to its cheapest section,    *)
(* "SA" starts from GREEDY and anneals by exchanging pairs of vessels.     *)
(*                                                                         *)
(* A solution vector x holds the section of each vessel and its cost at 0. *)
(* What random numbers decide is a choice of the model.  The loop counts   *)
(* are the constants: 44 temperatures times 50 tries (ROUNDS), ten         *)
(* exchanges per neighbour (EXCHANGES).                                    *)
(***************************************************************************)
EXTENDS BAPPackage

CONSTANTS ROUNDS, EXCHANGES

ASSUME LoopAssumption == ROUNDS \in Nat \ {0} /\ EXCHANGES \in Nat \ {0}

VARIABLES
  package,         \* mPackage
  mPartitioner,    \* the algorithm the parameter file names
  phase,           \* where Solve() is
  mVes, mSect,     \* the working copies of vessels and sections
  mUnallocVes,     \* the vessels without a section
  mTranshipment, mPenalty,
  candidates,      \* V[1..VesselsLeft]: the vessels still to be placed
  x, bestsol,      \* the current and the best solution vector
  best,            \* the best neighbour of x found so far
  times, rounds    \* exchanges and annealing tries left

annealVars == <<x, bestsol, best, times, rounds>>
costVars == <<mTranshipment, mPenalty>>
berthVars == <<mVes, mSect, mUnallocVes>>
partVars == <<berthVars, costVars, candidates, annealVars>>

(***************************************************************************)
(* Its working copies of the package's sections and vessels: a section     *)
(* keeps, for each time zone, the length that is still free; "sound"       *)
(* records whether every assert() on it held.                              *)
(***************************************************************************)
NewSection(p, k) ==
  [ID |-> k, length |-> p.sect.length[k], vessels |-> {}, sound |-> TRUE,
   capacity |-> [z \in 1..NumTimeZones(p) |-> p.sect.length[k]]]

Neighbours(p, i) ==
  {j \in VesselIDs(p) \ {i} : p.trans[<<i, j>>] > 0 \/ p.trans[<<j, i>>] > 0}

NewVessel(p, i) ==
  [ID |-> i, length |-> p.ves.length[i], departure |-> p.ves.departure[i],
   zones |-> StartTimeZone(p, i)..EndTimeZone(p, i),
   neighbours |-> Neighbours(p, i),
   export |-> p.trans[<<0, i>>], import |-> p.trans[<<i, 0>>],
   section |-> 0, destinations |-> {}]

\* Mutant: only the first time zone of the vessel is looked at.
CanAccommodateAtArrival(s, v) == s.capacity[Min(v.zones)] >= v.length

CanAccommodate(s, v) == \A z \in v.zones : s.capacity[z] >= v.length

AddVessel(s, v) ==
  LET capacity == [z \in DOMAIN s.capacity |->
                     s.capacity[z] - IF z \in v.zones THEN v.length ELSE 0]
  IN  [s EXCEPT !.capacity = capacity, !.vessels = @ \cup {v.ID},
                !.sound = @ /\ v.ID \notin s.vessels
                            /\ \A z \in v.zones : capacity[z] >= 0]

RemoveVessel(s, v) ==
  LET capacity == [z \in DOMAIN s.capacity |->
                     s.capacity[z] + IF z \in v.zones THEN v.length ELSE 0]
  IN  [s EXCEPT !.capacity = capacity, !.vessels = @ \ {v.ID},
                !.sound = @ /\ v.ID \in s.vessels
                            /\ \A z \in v.zones : capacity[z] <= s.length]

\* The vessels ids of ves, one after the other.
AddAll(s, ves, ids) == FoldSet(LAMBDA i, r : AddVessel(r, ves[i]), s, ids)
RemoveAll(s, ves, ids) == FoldSet(LAMBDA i, r : RemoveVessel(r, ves[i]), s, ids)

-----------------------------------------------------------------------------
Vessels == DOMAIN mVes

TotalFlow(i, j) == package.trans[<<i, j>>] + package.trans[<<j, i>>]

\* Mutant: the distance to the port is taken for unknown.
DWithoutPort(k, l) == IF k > 0 /\ l > 0 THEN package.sect.dist[<<k, l>>] ELSE INFINITY

D(k, l) == IF k >= 0 /\ l >= 0 THEN package.sect.dist[<<k, l>>] ELSE INFINITY

\* ComputeObjVal() on the sections "at" of the vessels.
ComputeObjVal(at) ==
  LET PortFlow(i) == mVes[i].import + mVes[i].export
      Later(i) == {j \in mVes[i].neighbours : j > i}
      Assigned(i, j) == at[i] # UNASSIGNED /\ at[j] # UNASSIGNED
  IN  [transhipment |-> Unsigned(SumFunction([i \in Vessels |->
         SumFunction([j \in {j \in Later(i) : Assigned(i, j)} |->
                        TotalFlow(i, j) * D(at[i], at[j])])
           + (IF at[i] = UNASSIGNED THEN 0 ELSE PortFlow(i) * D(at[i], 0))])),
       penalty |-> Unsigned(SumFunction([i \in Vessels |->
         SumFunction([j \in {j \in Later(i) : ~Assigned(i, j)} |->
                        TotalFlow(i, j) * INFINITY])
           + (IF at[i] = UNASSIGNED THEN PortFlow(i) * INFINITY ELSE 0)]))]

CalcObjVal(at) ==
  Unsigned(ComputeObjVal(at).transhipment + ComputeObjVal(at).penalty)

Sections == [i \in Vessels |-> mVes[i].section]

CalcInitialObjVal(at) ==
  /\ mTranshipment' = ComputeObjVal(at).transhipment
  /\ mPenalty' = ComputeObjVal(at).penalty

\* The constructor: every section is empty, no vessel has been placed.
Construct(p) ==
  /\ mVes' = [i \in VesselIDs(p) |-> NewVessel(p, i)]
  /\ mSect' = [k \in SectionIDs(p) |-> NewSection(p, k)]

\* InitSolution() and ResetVesselDestinations() on the vessels ves.
Unplaced(ves) ==
  [i \in DOMAIN ves |-> [ves[i] EXCEPT !.section = UNASSIGNED,
                                       !.destinations = @ \cup DOMAIN mSect]]

InitSolution ==
  /\ phase = "init"
  /\ mVes' = Unplaced(mVes)
  /\ mUnallocVes' = Vessels
  /\ mTranshipment' = 0 /\ mPenalty' = 0
  /\ candidates' = [i \in Vessels |-> i]
  /\ phase' = IF mPartitioner = "TV" THEN "random" ELSE "greedy"
  /\ UNCHANGED <<package, mPartitioner, mSect, annealVars>>

\* The assert() that section s is still among the destinations of vessel v.
Checked(s, v) == [s EXCEPT !.sound = @ /\ s.ID \in v.destinations]

\* Assign(v, s): vessel i to section k.
Assign(i, k) ==
  /\ mVes' = [mVes EXCEPT ![i].section = k, ![i].destinations = @ \ {k}]
  /\ mSect' = [mSect EXCEPT ![k] = Checked(AddVessel(@, mVes[i]), mVes[i])]
  /\ mUnallocVes' = mUnallocVes \ {i}

Fitting(i) == {k \in mVes[i].destinations : CanAccommodate(mSect[k], mVes[i])}

\* Give vessel i one of the sections ks, or none when there is none, and
\* replace it in the list of candidates by the last one.
Place(i, ks) ==
  /\ IF ks = {} THEN UNCHANGED berthVars
     ELSE \E k \in ks : Assign(candidates[i], k)
  /\ candidates' = SubSeq([candidates EXCEPT ![i] = Last(candidates)],
                          1, Len(candidates) - 1)

\* GenSolnRandom(): a random vessel to a random section that has room.
AssignVesselToRandomSection ==
  /\ phase = "random" /\ candidates # <<>>
  /\ \E i \in DOMAIN candidates : Place(i, Fitting(candidates[i]))
  /\ UNCHANGED <<package, mPartitioner, phase, costVars, annealVars>>

\* The first candidate of those that leave first.
SelectVessel_earliestDeparture ==
  LET Departure(i) == mVes[candidates[i]].departure
  IN  Min({i \in DOMAIN candidates :
             \A j \in DOMAIN candidates : Departure(i) <= Departure(j)})

\* The sections with room that add least to the transhipment of vessel v.
SelectSection_minIncreaseTranship(v) ==
  LET placed == {j \in mVes[v].neighbours : mVes[j].section # UNASSIGNED}
      Increase(k) ==
        SumFunction([j \in placed |-> TotalFlow(v, j) * D(k, mVes[j].section)])
      ks == {k \in Fitting(v) : Increase(k) < INFINITY}
  IN  {k \in ks : \A l \in ks : Increase(k) <= Increase(l)}

GreedyStep ==
  /\ phase = "greedy" /\ candidates # <<>>
  /\ LET i == SelectVessel_earliestDeparture
     IN  Place(i, SelectSection_minIncreaseTranship(candidates[i]))
  /\ UNCHANGED <<package, mPartitioner, phase, costVars, annealVars>>

-----------------------------------------------------------------------------
(***************************************************************************)
(* Simulated annealing on the greedy solution.  A neighbour of x is the    *)
(* best of one exchange drawn first and EXCHANGES more; whether two        *)
(* vessels can be exchanged is found out by taking them out of their       *)
(* sections and putting them back.                                         *)
(***************************************************************************)

\* The vector with the sections of x at its vessels and its cost at 0.
CalcObjValTemp(v) == [v EXCEPT ![0] = CalcObjVal(v)]

ConvSoltoVec(cost) ==
  [i \in {0} \cup Vessels |-> IF i = 0 THEN cost ELSE mVes[i].section]

\* clearSoln() takes every vessel out of its section.
ClearSoln(k) == RemoveAll(mSect[k], mVes, mSect[k].vessels)

\* Rebuild the working copies from a vector, starting from InitSolution()
\* and clearSoln(); the costs are not recomputed.
ConvVectoSol(v) ==
  /\ mVes' = [i \in Vessels |->
                [Unplaced(mVes)[i] EXCEPT !.section = v[i],
                                          !.destinations = @ \ {v[i]}]]
  /\ mSect' = [k \in DOMAIN mSect |->
                 AddAll(ClearSoln(k), mVes, {i \in Vessels : v[i] = k})]
  /\ mUnallocVes' = {i \in Vessels : v[i] = UNASSIGNED}
  /\ mTranshipment' = 0 /\ mPenalty' = 0

\* The sections without vessels i and j, and with them put back.
TakenOut(i, j) ==
  [k \in DOMAIN mSect |->
     CASE k = mVes[i].section -> RemoveVessel(mSect[k], mVes[i])
       [] k = mVes[j].section -> RemoveVessel(mSect[k], mVes[j])
       [] OTHER -> mSect[k]]

PutBack(i, j) ==
  LET out == TakenOut(i, j)
  IN  [k \in DOMAIN mSect |->
         CASE k = mVes[i].section -> AddVessel(out[k], mVes[i])
           [] k = mVes[j].section -> AddVessel(out[k], mVes[j])
           [] OTHER -> out[k]]

CanExchange(i, j) ==
  LET out == TakenOut(i, j)
      si == mVes[i].section
      sj == mVes[j].section
  IN  /\ si = UNASSIGNED \/ CanAccommodate(out[si], mVes[j])
      /\ sj = UNASSIGNED \/ CanAccommodate(out[sj], mVes[i])

\* Mutant: the neighbour keeps the cost of the vector it comes from.
ExchangeSameCost(v, i, j) == [v EXCEPT ![i] = v[j], ![j] = v[i]]

Exchange(v, i, j) == CalcObjValTemp([v EXCEPT ![i] = v[j], ![j] = v[i]])

\* The pairs GenNeighborhood() collects.
GenNeighborhood(v) ==
  {ij \in Vessels \X Vessels :
     /\ ij[1] < ij[2] /\ v[ij[1]] # v[ij[2]]
     /\ CanExchange(ij[1], ij[2])}

(***************************************************************************)
(* CalcObjValByDelt(): the cost after an exchange, from the cost before    *)
(* it.  With an unassigned vessel a, the flows of the vessel b that loses  *)
(* its section are counted as if they changed nothing.                     *)
(***************************************************************************)
CalcObjValByDelt(i, j, v) ==
  LET a == IF v[j] = UNASSIGNED THEN j ELSE i
      b == IF a = i THEN j ELSE i
      PortFlow(c) == mVes[c].import + mVes[c].export
      Others(c, d) == {e \in mVes[c].neighbours : e # d /\ v[e] # UNASSIGNED}
      Move(c, k, l, e) ==  \* what vessel c pays for e when it goes from k to l
        TotalFlow(e, c) * (IF k = UNASSIGNED \/ l = UNASSIGNED
                             THEN (IF v[e] = l THEN 0 ELSE D(v[e], l)) - INFINITY
                           ELSE IF v[e] = k THEN D(k, l)
                           ELSE IF v[e] = l THEN -D(k, l)
                           ELSE D(v[e], l) - D(v[e], k))
      Inter(c, d) ==
        SumFunction([e \in Others(c, d) |-> Move(c, v[c], v[d], e)])
      Port == (PortFlow(a) - PortFlow(b)) * (D(v[b], 0) - D(v[a], 0))
  IN  Unsigned(v[0] + Port + Inter(a, b) + Inter(b, a))

StartAnnealing ==
  /\ phase = "greedy" /\ candidates = <<>> /\ mPartitioner = "SA"
  /\ CalcInitialObjVal(Sections)
  /\ x' = ConvSoltoVec(CalcObjVal(Sections))
  /\ bestsol' = x' /\ best' = CalcObjValTemp(x')
  /\ rounds' = ROUNDS
  /\ phase' = "first"
  /\ UNCHANGED <<package, mPartitioner, berthVars, candidates, times>>

\* One of up to 1000 draws for a first exchange, which need not be better.
FirstExchange(i, j) ==
  /\ phase = "first" /\ x[i] # x[j]
  /\ mSect' = PutBack(i, j)
  /\ IF CanExchange(i, j)
       THEN /\ best' = Exchange(x, i, j)
            /\ times' = EXCHANGES
            /\ phase' = "ten"
       ELSE UNCHANGED <<best, times, phase>>
  /\ UNCHANGED <<package, mPartitioner, mVes, mUnallocVes, costVars,
                 candidates, x, bestsol, rounds>>

NoFirstExchange ==
  /\ phase = "first"
  /\ times' = EXCHANGES
  /\ phase' = "ten"
  /\ UNCHANGED <<package, mPartitioner, berthVars, costVars, candidates,
                 x, bestsol, best, rounds>>

\* A draw of the second loop, which counts only exchanges that are possible.
Draw(i, j) ==
  /\ phase = "ten" /\ times > 0
  /\ mSect' = IF x[i] # x[j] THEN PutBack(i, j) ELSE mSect
  /\ IF x[i] # x[j] /\ CanExchange(i, j)
       THEN /\ LET nei == Exchange(x, i, j)
               IN  best' = IF nei[0] < best[0] THEN nei ELSE best
            /\ times' = times - 1
       ELSE UNCHANGED <<best, times>>
  /\ UNCHANGED <<package, mPartitioner, phase, mVes, mUnallocVes, costVars,
                 candidates, x, bestsol, rounds>>

\* Mutant: the temperature never gets low enough.
NextTryForEver ==
  /\ phase' = "first"
  /\ UNCHANGED <<package, mPartitioner, candidates, times, rounds>>

NextTry ==
  /\ rounds' = rounds - 1
  /\ phase' = IF rounds = 1 THEN "cooled" ELSE "first"
  /\ UNCHANGED <<package, mPartitioner, candidates, times>>

\* A neighbour that costs no more is taken; a worse one may be.
Accept ==
  /\ phase = "ten" /\ times = 0
  /\ ConvVectoSol(best)
  /\ x' = best
  /\ bestsol' = IF best[0] < bestsol[0] THEN best ELSE bestsol
  /\ UNCHANGED best
  /\ NextTry

Reject ==
  /\ phase = "ten" /\ times = 0
  /\ Unsigned(best[0] - x[0]) \in 1..WORD \div 2 - 1  \* deltcost, an int, is > 0
  /\ best' = CalcObjValTemp(x)
  /\ UNCHANGED <<berthVars, costVars, x, bestsol>>
  /\ NextTry

\* Mutant: the last solution is kept instead of the best one.
FinishWithLast ==
  /\ phase = "cooled"
  /\ ConvVectoSol(x)
  /\ phase' = "solved"
  /\ UNCHANGED <<package, mPartitioner, candidates, annealVars>>

FinishAnnealing ==
  /\ phase = "cooled"
  /\ ConvVectoSol(bestsol)
  /\ phase' = "solved"
  /\ UNCHANGED <<package, mPartitioner, candidates, annealVars>>

GenSolnSA ==
  \/ StartAnnealing \/ NoFirstExchange \/ Accept \/ Reject \/ FinishAnnealing
  \/ \E i, j \in Vessels : FirstExchange(i, j) \/ Draw(i, j)
=============================================================================
