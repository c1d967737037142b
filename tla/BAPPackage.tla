----------------------------- MODULE BAPPackage -----------------------------
(***************************************************************************)
(* The problem package of the berth allocation solver: the files it reads, *)
(* the time zones it derives from the schedule, the solution it holds and  *)
(* the check of a solution that was read back.                             *)
(*                                                                         *)
(* A file is a sequence of lines; a line is a keyword or a row of data.    *)
(* Sections and vessels are numbered from 1, 0 is the gate of the port.    *)
(***************************************************************************)
EXTENDS Integers, Sequences, FiniteSets, FiniteSetsExt, SequencesExt

CONSTANTS
  Database,  \* the rows of each dataset: name -> [sect, ves, trans]
  INFINITY,  \* the distance that stands for "not berthed"
  WORD,      \* the modulus of unsigned arithmetic, 2^32 in the 32-bit build
  UNSET      \* a string or a number nobody assigned

UNASSIGNED == -1

ASSUME WordAssumption == INFINITY \in Nat \ {0} /\ WORD \in Nat \ {0}

Unsigned(n) == n % WORD

Word(w) == [word |-> w, data |-> <<>>]
Row(d) == [word |-> "", data |-> d]

\* A reader remembers the last keyword and takes each row in its light.
ReadLines(Take(_, _, _), file, value) ==
  FoldLeft(LAMBDA acc, line :
             IF line.word # "" THEN [acc EXCEPT !.mode = line.word]
             ELSE [acc EXCEPT !.value = Take(acc.value, acc.mode, line.data)],
           [mode |-> "nil", value |-> value], file).value

ProjectKeywords == {"_DATASET", "_PART_SOLN_FILENAME", "_PARAM_FILENAME",
                    "_PACK_SOLN_FILENAME", "_PART_TRACE_FILENAME",
                    "_PACK_TRACE_FILENAME"}

ReadProject(file) ==
  LET Take(p, mode, d) == IF mode \in ProjectKeywords
                            THEN [p EXCEPT ![mode] = d[1]] ELSE p
  IN  ReadLines(Take, file, [k \in ProjectKeywords |-> UNSET])

ReadSections(file) ==
  LET Take(p, mode, d) ==
        CASE mode = "_NUM_SECT" ->
               [length |-> [k \in 0..d[1] - 1 |-> UNSET],
                dist |-> [kl \in (0..d[1] - 1) \X (0..d[1] - 1) |-> UNSET]]
          [] mode = "_SECTION" /\ d[1] # 0 -> [p EXCEPT !.length[d[1]] = d[3]]
          [] mode = "_INTERSECT_DIST" -> [p EXCEPT !.dist[<<d[1], d[2]>>] = d[3]]
          [] OTHER -> p
  IN  ReadLines(Take, file, UNSET)

ReadVessels(file) ==
  LET Take(p, mode, d) ==
        CASE mode = "_NUM_VES" ->
               LET unset == [v \in 0..d[1] - 1 |-> UNSET]
               IN  [length |-> unset, arrival |-> unset, departure |-> unset]
          [] mode = "_VESSEL" /\ d[1] # 0 -> [p EXCEPT !.length[d[1]] = d[5]]
          [] mode = "_VES_SCHEDULE" /\ d[1] # 0 ->
               [p EXCEPT !.arrival[d[1]] = d[2], !.departure[d[1]] = d[3]]
          [] OTHER -> p
  IN  ReadLines(Take, file, UNSET)

\* V is the highest vessel number; flows that are not listed are 0.
ReadTranshipments(file, V) ==
  LET Take(p, mode, d) == IF mode = "_TRANS_MAT"
                            THEN [p EXCEPT ![<<d[1], d[2]>>] = d[3]] ELSE p
  IN  ReadLines(Take, file, [ij \in (0..V) \X (0..V) |-> 0])

\* A dataset that is complete: every vessel has a length and leaves after it
\* arrives, every section has a length, distances and flows are natural.
DatasetOK(files) ==
  LET ves == ReadVessels(files.ves)
      sect == ReadSections(files.sect)
      V == Max(DOMAIN ves.length)
      K == Max(DOMAIN sect.length)
  IN  /\ V \in Nat \ {0} /\ DOMAIN ves.length = 0..V
      /\ \A v \in 1..V : /\ ves.length[v] \in Nat
                         /\ {ves.arrival[v], ves.departure[v]} \subseteq Int
                         /\ ves.arrival[v] < ves.departure[v]
      /\ K \in Nat /\ DOMAIN sect.length = 0..K
      /\ \A k \in 1..K : sect.length[k] \in Nat
      /\ \A k, l \in 0..K : sect.dist[<<k, l>>] \in Nat
      /\ \A i, j \in 0..V : ReadTranshipments(files.trans, V)[<<i, j>>] \in Nat

ASSUME DatasetAssumption == \A d \in DOMAIN Database : DatasetOK(Database[d])

NumVessels(p) == Max(DOMAIN p.ves.length)
NumSections(p) == Max(DOMAIN p.sect.length)
VesselIDs(p) == 1..NumVessels(p)
SectionIDs(p) == 1..NumSections(p)

(***************************************************************************)
(* The plane sweep over arrivals and departures: a time zone ends at the   *)
(* first arrival after a departure.                                        *)
(***************************************************************************)
TimePoint(t, id, arrive) == [Time |-> t, ID |-> id, Arrive |-> arrive]

\* Departures sort before the arrivals of the same time.
Before(a, b) ==
  \/ a.Time < b.Time
  \/ a.Time = b.Time /\ ~a.Arrive /\ b.Arrive
  \/ a.Time = b.Time /\ a.Arrive = b.Arrive /\ a.ID <= b.ID

TimePoints(ves) ==
  LET ids == DOMAIN ves.length \ {0}
      points == {TimePoint(ves.arrival[i], i, TRUE) : i \in ids}
                  \cup {TimePoint(ves.departure[i], i, FALSE) : i \in ids}
  IN  [n \in 1..Cardinality(points) |->
         CHOOSE p \in points : Cardinality({q \in points : Before(q, p)}) = n]

\* End the zone at time t; the vessels that stay longer go on.
CloseZone(sweep, ves, t) ==
  [zones |-> Append(sweep.zones, [Start |-> sweep.start, End |-> t,
                                  vessels |-> sweep.vSet]),
   vSet |-> {v \in sweep.vSet : ves.departure[v] > t},
   start |-> t, end |-> t, leaving |-> FALSE]

Sweep(sweep, ves, point) ==
  IF point.Arrive
    THEN LET s == IF sweep.leaving THEN CloseZone(sweep, ves, point.Time)
                                   ELSE sweep
         IN  [s EXCEPT !.vSet = @ \cup {point.ID}]
    ELSE [sweep EXCEPT !.vSet = @ \cup {point.ID},
                       !.leaving = TRUE, !.end = point.Time]

ComputeTimeZones(ves) ==
  LET points == TimePoints(ves)
      first == [zones |-> <<>>, vSet |-> {Head(points).ID}, leaving |-> FALSE,
                start |-> Head(points).Time, end |-> UNSET]
      last == FoldLeft(LAMBDA s, p : Sweep(s, ves, p), first, Tail(points))
  IN  IF last.vSet = {} THEN last.zones
      ELSE CloseZone(last, ves, last.end).zones

NumTimeZones(p) == Len(p.zones)
TimeZones(p, v) == {z \in 1..NumTimeZones(p) : v \in p.zones[z].vessels}
StartTimeZone(p, v) == Min(TimeZones(p, v))
EndTimeZone(p, v) == Max(TimeZones(p, v))

\* The package after its constructor: no vessel has a place yet.
NewPackage(project) ==
  LET files == Database[project["_DATASET"]]
      ves == ReadVessels(files.ves)
      V == Max(DOMAIN ves.length)
  IN  [project |-> project, ves |-> ves, sect |-> ReadSections(files.sect),
       trans |-> ReadTranshipments(files.trans, V),
       zones |-> ComputeTimeZones(ves),
       section |-> [v \in 1..V |-> UNASSIGNED],
       wharfmark |-> [v \in 1..V |-> -1],
       transhipmentCost |-> 0, penalty |-> 0, objectiveValue |-> 0,
       unallocatedVessels |-> UNSET, solutionExists |-> FALSE,
       sound |-> TRUE]  \* no assert() failed

ReadSolution(p, file) ==
  LET Take(q, mode, d) ==
        CASE mode = "_NUM_UNALLOCATED" -> [q EXCEPT !.unallocatedVessels = d[1]]
          [] mode = "_OBJECTIVE_VALUE" -> [q EXCEPT !.objectiveValue = d[1]]
          [] mode = "_TRANSHIPMENT_VALUE" -> [q EXCEPT !.transhipmentCost = d[1]]
          [] mode = "_PENALTY_VALUE" -> [q EXCEPT !.penalty = d[1]]
          [] mode = "_NUM_VESSELS" -> [q EXCEPT !.sound = d[1] = NumVessels(q) + 1]
          [] mode = "_ALLOCATION" /\ d[1] # 0 ->
               [q EXCEPT !.section[d[1]] = d[2], !.wharfmark[d[1]] = d[3]]
          [] OTHER -> q
  IN  ReadLines(Take, file, [p EXCEPT !.solutionExists = TRUE])

Berthed(p, v) == p.section[v] # UNASSIGNED

\* What a container between i and j, or i and the port, costs to move.
TranshipmentOf(p) ==
  LET berthed == {v \in VesselIDs(p) : Berthed(p, v)}
      Move(i, k, j, l) == p.trans[<<i, j>>] * p.sect.dist[<<k, l>>]
                            + p.trans[<<j, i>>] * p.sect.dist[<<l, k>>]
  IN  Unsigned(SumFunction([i \in berthed |->
        SumFunction([j \in {j \in berthed : j > i} |->
                       Move(i, p.section[i], j, p.section[j])])
          + Move(i, p.section[i], 0, 0)]))

\* What AnalyzeSolution() divides: the cost and the containers it moves.
AnalyzeSolution(p) ==
  LET berthed == {v \in VesselIDs(p) : Berthed(p, v)}
      Flow(i, j) == p.trans[<<i, j>>] + p.trans[<<j, i>>]
  IN  [transhipment |-> TranshipmentOf(p),
       containers |-> Unsigned(SumFunction([i \in berthed |->
         SumFunction([j \in {j \in berthed : j > i} |-> Flow(i, j)]) + Flow(i, 0)]))]

PenaltyOf(p) ==
  LET Flow(i, j) == (p.trans[<<i, j>>] + p.trans[<<j, i>>]) * INFINITY
      Apart(i) == {j \in VesselIDs(p) : j > i /\ ~(Berthed(p, i) /\ Berthed(p, j))}
  IN  Unsigned(SumFunction([i \in VesselIDs(p) |->
        SumFunction([j \in Apart(i) |-> Flow(i, j)])
          + (IF Berthed(p, i) THEN 0 ELSE Flow(i, 0))]))

Density(p, k, z) ==
  SumFunctionOnSet(p.ves.length, {v \in p.zones[z].vessels : p.section[v] = k})

\* The differences VerifySolution() reports.
VerifySolution(p) ==
  {what \in {"unallocated", "density", "transhipment", "penalty", "objective"} :
     \/ what = "unallocated"
          /\ p.unallocatedVessels # Cardinality({v \in VesselIDs(p) : ~Berthed(p, v)})
     \/ what = "density"
          /\ \E k \in SectionIDs(p), z \in 1..NumTimeZones(p) :
               Density(p, k, z) > p.sect.length[k]
     \/ what = "transhipment" /\ TranshipmentOf(p) # p.transhipmentCost
     \/ what = "penalty" /\ PenaltyOf(p) # p.penalty
     \/ what = "objective" /\ Unsigned(TranshipmentOf(p) + PenaltyOf(p)) # p.objectiveValue}
=============================================================================
