------------------------------ MODULE BAPSolver ------------------------------
(***************************************************************************)
(* The berth allocation program: it loads a project, reads the parameters, *)
(* runs the partitioner and the packer its job asks for, writes the        *)
(* solution file and leaves the solution in the package.                   *)
(***************************************************************************)
EXTENDS BAPPartitioner

CONSTANTS
  Projects,  \* the project files a user may name
  Params,    \* the parameter files: name -> lines
  Jobs       \* the jobs a user may ask for

ASSUME ProjectsAssumption ==
  \A file \in Projects : ReadProject(file)["_DATASET"] \in DOMAIN Database

VARIABLES
  mJob, mPacker,
  solutionFile  \* what the partitioner wrote, or UNSET

solverVars == <<mJob, mPacker, solutionFile>>
berthProgramVars == <<package, mPartitioner, phase, partVars, solverVars>>

BerthInit ==
  /\ phase = "start"
  /\ package = UNSET /\ mPartitioner = "GP" /\ mPacker = "BP"
  /\ mJob \in Jobs
  /\ mVes = <<>> /\ mSect = <<>> /\ mUnallocVes = {} /\ candidates = <<>>
  /\ mTranshipment = 0 /\ mPenalty = 0
  /\ x = UNSET /\ bestsol = UNSET /\ best = UNSET
  /\ times = 0 /\ rounds = 0
  /\ solutionFile = UNSET

\* BAPPackage(aProjFile); a file that is missing ends the program.
LoadPackage ==
  /\ phase = "start"
  /\ \/ phase' = "exit" /\ UNCHANGED package
     \/ \E file \in Projects : package' = NewPackage(ReadProject(file))
        /\ phase' = "parameters"
  /\ UNCHANGED <<mPartitioner, partVars, solverVars>>

ReadParameterFile ==
  /\ phase = "parameters"
  /\ LET name == package.project["_PARAM_FILENAME"]
         Take(p, mode, d) ==
           CASE mode = "_PARTITIONING_ALGO" -> [p EXCEPT !.part = d[1]]
             [] mode = "_PACKING_ALGO" -> [p EXCEPT !.pack = d[1]]
             [] OTHER -> p
         algo == ReadLines(Take, IF name \in DOMAIN Params THEN Params[name] ELSE <<>>,
                           [part |-> mPartitioner, pack |-> mPacker])
     IN  mPartitioner' = algo.part /\ mPacker' = algo.pack
  /\ phase' = CASE mJob \in {"all", "part"} -> "partitioning"
                [] mJob = "pack" -> "packing"
                [] OTHER -> "done"
  /\ UNCHANGED <<package, partVars, mJob, solutionFile>>

AfterPartitioning == IF mJob = "all" THEN "packing" ELSE "done"

DoPartitioning ==
  /\ phase = "partitioning"
  /\ IF mPartitioner \in {"TV", "GREEDY", "SA"}
       THEN Construct(package) /\ phase' = "init"
       ELSE UNCHANGED <<mVes, mSect>> /\ phase' = AfterPartitioning
  /\ UNCHANGED <<package, mPartitioner, mUnallocVes, costVars, candidates,
                 annealVars, solverVars>>

\* GenSolnRandom() or GenSolnGreedy() has considered every vessel.
Constructed ==
  /\ candidates = <<>>
  /\ \/ phase = "random"
     \/ phase = "greedy" /\ mPartitioner = "GREEDY"
  /\ phase' = "solved"
  /\ UNCHANGED <<package, mPartitioner, partVars, solverVars>>

\* The n-th smallest of a set of numbers.
Nth(ids, n) == CHOOSE i \in ids : Cardinality({j \in ids : j <= i}) = n

\* The file the partitioner writes for the solution "at" of the given costs.
WriteSolutionFile(at, cost, penalty) ==
  LET Number(word, n) == <<Word(word), Row(<<n>>)>>
      VesselRow(i) == Row(<<i, at[i], -1, package.ves.arrival[i],
                            package.ves.departure[i]>>)
      Rows(ids) == [n \in 1..Cardinality(ids) |-> VesselRow(Nth(ids, n))]
  IN  Number("_NUM_UNALLOCATED", Cardinality(mUnallocVes))
        \o Number("_NUM_VESSELS", Cardinality(Vessels) + 1)
        \o Number("_OBJECTIVE_VALUE", Unsigned(cost + penalty))
        \o Number("_TRANSHIPMENT_VALUE", cost)
        \o Number("_PENALTY_VALUE", penalty)
        \o Number("_TIME_TAKEN", 0)
        \o <<Word("_ALLOCATION"), Row(<<0, 0, 0, 0, 0>>)>>
        \o Rows({i \in Vessels : at[i] > 0})
        \o IF mUnallocVes = {} THEN <<>>
           ELSE <<Word("_UNALLOCATED_VESSELS")>> \o Rows({i \in Vessels : at[i] < 0})

UpdatePackage(at, cost) ==
  package' = [package EXCEPT !.section = [i \in Vessels |-> at[i]],
                             !.transhipmentCost = cost]

\* The end of Solve(): cost the solution, write it and tell the package.
Report ==
  /\ phase = "solved"
  /\ CalcInitialObjVal(Sections)
  /\ LET obj == ComputeObjVal(Sections)
     IN  /\ UpdatePackage(Sections, obj.transhipment)
         /\ solutionFile' \in
              {UNSET, WriteSolutionFile(Sections, obj.transhipment, obj.penalty)}
  /\ phase' = AfterPartitioning
  /\ UNCHANGED <<mPartitioner, berthVars, candidates, annealVars, mJob, mPacker>>

\* BAPBPPacker::Solve() is empty; another packer is unknown.
DoPacking ==
  /\ phase = "packing"
  /\ phase' = "done"
  /\ UNCHANGED <<package, mPartitioner, partVars, solverVars>>

BerthNext ==
  \/ LoadPackage \/ ReadParameterFile \/ DoPartitioning \/ Constructed
  \/ Report \/ DoPacking
  \/ /\ InitSolution \/ AssignVesselToRandomSection \/ GreedyStep \/ GenSolnSA
     /\ UNCHANGED solverVars

Spec == BerthInit /\ [][BerthNext]_berthProgramVars /\ WF_berthProgramVars(BerthNext)

Length == [i \in Vessels |-> mVes[i].length]

\* Whatever was tried, exchanged and rebuilt: a section's free length is
\* exact, no assert() of it failed, and the vessels, the sections and the
\* set of unallocated vessels agree (Assign, CanExchange, ConvVectoSol).
SectionsExact ==
  phase \notin {"start", "init"} =>
    /\ \A k \in DOMAIN mSect :
         /\ mSect[k].sound
         /\ mSect[k].vessels = {i \in Vessels : mVes[i].section = k}
         /\ \A z \in DOMAIN mSect[k].capacity :
              mSect[k].capacity[z] =
                mSect[k].length
                  - SumFunctionOnSet(Length,
                                     {i \in mSect[k].vessels : z \in mVes[i].zones})
    /\ mUnallocVes = {i \in Vessels : mVes[i].section = UNASSIGNED}

\* At no time of the schedule do the vessels at a section need more than its
\* length: the time zones of ComputeTimeZones() lose no vessel that is there.
NeverOverfull ==
  phase \notin {"start", "init"} =>
    \A k \in DOMAIN mSect, a \in Vessels :
      LET there == {i \in mSect[k].vessels :
                      /\ package.ves.arrival[i] <= package.ves.arrival[a]
                      /\ package.ves.departure[i] > package.ves.arrival[a]}
      IN  SumFunctionOnSet(Length, there) <= mSect[k].length

BerthInv == SectionsExact /\ NeverOverfull

Annealing == phase \in {"first", "ten", "cooled"}

\* The solution vector agrees with the working copies, and every vector carries
\* its own cost.
VectorsAgree ==
  Annealing =>
    /\ \A i \in Vessels : x[i] = mVes[i].section
    /\ \A v \in {x, best, bestsol} : v = CalcObjValTemp(v)

\* No vector's cost wraps past its transhipment: the assert()s against overflow.
NoOverflow ==
  Annealing => \A v \in {x, best, bestsol} : v[0] >= ComputeObjVal(v).transhipment

\* The cost that CalcObjValByDelt() derives for an exchange of two berthed
\* vessels is the cost of the exchanged vector.
DeltExact ==
  Annealing =>
    \A ij \in GenNeighborhood(x) :
      LET i == ij[1]
          j == ij[2]
      IN  x[i] # UNASSIGNED /\ x[j] # UNASSIGNED
            => CalcObjValByDelt(i, j, x) = Exchange(x, i, j)[0]

\* The costs of the annealing can be relied on.
CostInv == VectorsAgree /\ NoOverflow /\ DeltExact

\* What the costs rely on and no reader checks: distances are the same both ways.
SymmetricDistances(p) ==
  \A k, l \in 0..NumSections(p) : /\ p.sect.dist[<<k, l>>] = p.sect.dist[<<l, k>>]
                                  /\ p.sect.dist[<<k, k>>] = 0

\* What was written can be read back: VerifySolution() finds nothing to
\* report and the vessels are where the partitioner left them.
ReadBackVerified ==
  phase = "done" /\ solutionFile # UNSET =>
    LET again == ReadSolution(NewPackage(package.project), solutionFile)
    IN  /\ again.sound
        /\ VerifySolution(again) = {}
        /\ AnalyzeSolution(again).transhipment = again.transhipmentCost
        /\ again.section = package.section

\* The best solution only ever gets cheaper, and it is the one reported.
BestOnlyImproves ==
  [][/\ Annealing => bestsol'[0] <= bestsol[0]
     /\ phase = "cooled" => CalcObjVal(Sections)' = bestsol[0]]_berthProgramVars

\* The program ends, unless the search for ten possible exchanges goes on
\* for ever because no two vessels can be exchanged.
EndsUnlessStuck ==
  \/ <>(phase \in {"done", "exit"})
  \/ <>[](phase = "ten" /\ GenNeighborhood(x) = {})
=============================================================================
