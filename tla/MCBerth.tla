------------------------------- MODULE MCBerth -------------------------------
(***************************************************************************)
(* Three ports: two sections where exchanges are possible, two sections    *)
(* where a vessel is left over, and one section where nothing can be       *)
(* exchanged.                                                              *)
(***************************************************************************)
EXTENDS BAPSolver

SectFile(lengths, dist) ==
  <<Word("_NUM_SECT"), Row(<<Len(lengths) + 1>>), Word("_SECTION"), Row(<<0, "Gate", 0>>)>>
    \o [k \in DOMAIN lengths |-> Row(<<k, "sect", lengths[k]>>)]
    \o <<Word("_INTERSECT_DIST")>> \o [n \in DOMAIN dist |-> Row(dist[n])]

\* Each vessel is a triple of length, arrival and departure.
VesFile(ves) ==
  <<Word("_NUM_VES"), Row(<<Len(ves) + 1>>), Word("_VESSEL"), Row(<<0, "Port", "-", "-", 0>>)>>
    \o [v \in DOMAIN ves |-> Row(<<v, "ves", "-", "-", ves[v][1]>>)]
    \o <<Word("_VES_SCHEDULE"), Row(<<0, 0, 0>>)>>
    \o [v \in DOMAIN ves |-> Row(<<v, ves[v][2], ves[v][3]>>)]

TransFile(flows) == <<Word("_NUM_VES"), Row(<<0>>), Word("_TRANS_MAT")>>
                      \o [n \in DOMAIN flows |-> Row(flows[n])]

TwoSections == <<<<0, 0, 0>>, <<0, 1, 1>>, <<0, 2, 3>>, <<1, 0, 1>>, <<1, 1, 0>>,
                 <<1, 2, 4>>, <<2, 0, 3>>, <<2, 1, 4>>, <<2, 2, 0>>>>

MCDatabase ==
  [d001 |-> [sect |-> SectFile(<<4, 3>>, TwoSections),
             ves |-> VesFile(<<<<2, 1, 3>>, <<2, 2, 5>>, <<2, 3, 6>>, <<1, 3, 4>>>>),
             trans |-> TransFile(<<<<0, 1, 2>>, <<1, 2, 5>>, <<2, 3, 2>>, <<3, 4, 3>>, <<4, 0, 1>>>>)],
   d002 |-> [sect |-> SectFile(<<2, 2>>, TwoSections),
             ves |-> VesFile(<<<<2, 1, 4>>, <<2, 1, 5>>, <<1, 2, 3>>>>),
             trans |-> TransFile(<<<<1, 0, 1>>, <<0, 2, 1>>, <<3, 1, 6>>, <<3, 2, 2>>>>)],
   d003 |-> [sect |-> SectFile(<<3>>, <<<<0, 0, 0>>, <<0, 1, 1>>, <<1, 0, 1>>, <<1, 1, 0>>>>),
             ves |-> VesFile(<<<<1, 1, 2>>, <<2, 1, 3>>>>),
             trans |-> TransFile(<<<<1, 2, 1>>>>)]]

Project(dataset, params) ==
  <<Word("_DATASET"), Row(<<dataset>>), Word("_PARAM_FILENAME"), Row(<<params>>),
    Word("_PART_SOLN_FILENAME"), Row(<<"part.sol">>)>>

MCProjects == {Project(d, p) : d \in DOMAIN MCDatabase,
                               p \in {"sa.par", "greedy.par", "tv.par", "missing.par"}}

Algorithm(a) == <<Word("_PARTITIONING_ALGO"), Row(<<a>>), Word("_RANDOM_SEED"),
                  Row(<<12345>>), Word("_PACK_ALGO"), Row(<<"FF">>)>>

MCParams == [p \in {"sa.par", "greedy.par", "tv.par"} |->
               Algorithm(CASE p = "sa.par" -> "SA" [] p = "greedy.par" -> "GREEDY"
                           [] OTHER -> "TV")]

\* Distances are the same both ways, as in every dataset of the repository.
ASSUME MCDistances ==
  \A file \in Projects : SymmetricDistances(NewPackage(ReadProject(file)))

Terminated == phase \in {"done", "exit"} /\ UNCHANGED berthProgramVars
MCSpec == BerthInit /\ [][BerthNext \/ Terminated]_berthProgramVars
            /\ WF_berthProgramVars(BerthNext)
=============================================================================
