--------------------------- MODULE PolygonEditor ---------------------------
(***************************************************************************)
(* The editor of polygons: every action is one callback of GLUT, which     *)
(* runs to its end before the next event.                                  *)
(*                                                                         *)
(* po[0], ..., po[ponum - 1] is the scene; while a polygon is being drawn  *)
(* it is po[ponum], one past the scene.  Which polygons lie under the      *)
(* pointer is decided by OpenGL: any set of them may be hit.  The file     *)
(* po.txt is the sequence of the numbers printed to it, and outlives the   *)
(* program, which may be left at any time and started again.               *)
(*                                                                         *)
(* Bounds: MAX_POLYGONS (100 in the source), MAX_POINTS in all of them,    *)
(* DRIFT for how far left and up one is moved, the COLORS, the POSITIONS   *)
(* of the mouse, and those where a point is set, CORNERS.                  *)
(***************************************************************************)
LOCAL INSTANCE Integers
LOCAL INSTANCE Sequences
LOCAL INSTANCE SequencesExt
LOCAL INSTANCE FiniteSetsExt

CONSTANTS MAX_POLYGONS, MAX_POINTS, DRIFT, COLORS, POSITIONS, CORNERS

VARIABLES
  po, ponum,          \* the array of polygons and the number of the scene's
  selected, state,    \* -1 or the index of a polygon; the mode of the mouse
  drawingpoint,       \* the points of the polygon being drawn
  savexy,             \* <<savex, savey>>
  PolygonColorIndex,
  held,               \* a button is down: only then the mouse's motion is told
  file,               \* po.txt; <<>> before the first save()
  saved               \* the scene at the last save()

modeVars == <<selected, state, drawingpoint, PolygonColorIndex>>
diskVars == <<file, saved>>
editorVars == <<po, ponum, modeVars, savexy, held, diskVars>>

NewPoly == [offset |-> <<0, 0>>, color |-> 0, p |-> <<>>]

\* The globals of a program that is not running have their initial values.
Blank ==
  [po |-> [i \in 0..(MAX_POLYGONS - 1) |-> NewPoly], ponum |-> 0, selected |-> -1, drawingpoint |-> <<>>,
   savexy |-> <<0, 0>>, color |-> 0]

EditorInit ==
  /\ po = Blank.po /\ ponum = Blank.ponum /\ selected = Blank.selected /\ drawingpoint = Blank.drawingpoint
  /\ savexy = Blank.savexy /\ PolygonColorIndex = Blank.color
  /\ state = "Exited" /\ held = FALSE /\ file = <<>> /\ saved = <<>>

Exit ==
  /\ po' = Blank.po /\ ponum' = Blank.ponum /\ selected' = Blank.selected /\ drawingpoint' = Blank.drawingpoint
  /\ savexy' = Blank.savexy /\ PolygonColorIndex' = Blank.color
  /\ state' = "Exited" /\ held' = FALSE /\ UNCHANGED diskVars

Start ==
  /\ state = "Exited" /\ state' = "Normal"
  /\ UNCHANGED <<po, ponum, selected, drawingpoint, PolygonColorIndex, savexy, held, diskVars>>

Started == state # "Exited"

\* display(), at the end of a callback that leaves the polygons at "slots":
\* drawing gives the selected polygon the colour chosen for it.
Display(slots) ==
  po' = IF state' = "Changeing" /\ selected' \in 0..(ponum' - 1)
          THEN [slots EXCEPT ![selected'].color = PolygonColorIndex'] ELSE slots

-----------------------------------------------------------------------------
\* The scene's file: for each polygon its colour, offset, points, and -1 -1.
Scene == [i \in 1..ponum |-> po[i - 1]]

Printed(poly) == <<poly.color>> \o poly.offset \o FlattenSeq(poly.p) \o <<-1, -1>>

SaveScene == <<ponum>> \o FlattenSeq([i \in 1..ponum |-> Printed(po[i - 1])])

\* What load() makes of the slots: polygon i is read at r.at, and its points
\* end before the first with a negative x.
Read(f, keep) ==
  LET PointAt(at, j) == <<f[at + 1 + 2 * j], f[at + 2 + 2 * j]>>
      Points(at) == Min({k \in 0..Len(f) : at + 3 + 2 * k <= Len(f) /\ f[at + 3 + 2 * k] < 0})
      read[i \in 0..Max({0, f[1]})] ==
        IF i = 0 THEN [slots |-> po, at |-> 2]
        ELSE LET r == read[i - 1]
                 n == Points(r.at)
             IN [slots |-> [r.slots EXCEPT ![i - 1] =
                   [color |-> f[r.at], offset |-> <<f[r.at + 1], f[r.at + 2]>>,
                    p |-> (IF keep THEN @.p ELSE <<>>) \o [j \in 1..n |-> PointAt(r.at, j)]]],
                 at |-> r.at + 5 + 2 * n]
  IN read[Max({0, f[1]})].slots

\* Mutant: the points of a slot are not cleared before the file's are read.
LoadSceneOver(f) == Read(f, TRUE)

LoadScene(f) == Read(f, FALSE)

-----------------------------------------------------------------------------
\* processMenuEvents().  The hundred-and-first polygon, and any polygon after
\* ponum became negative, would be outside the array: the model ends there.
MenuCreate ==
  /\ ponum \in 0..(MAX_POLYGONS - 1)
  /\ state' = "Creating" /\ selected' = -1 /\ drawingpoint' = <<>>
  /\ UNCHANGED <<ponum, PolygonColorIndex, savexy, held, diskVars>>
  /\ Display([po EXCEPT ![ponum] = NewPoly])

MenuSelecting(mode) ==
  /\ state' = mode /\ selected' = -1
  /\ UNCHANGED <<ponum, drawingpoint, PolygonColorIndex, savexy, held, diskVars>>
  /\ Display(po)

MenuSave ==
  /\ state' = "Normal" /\ file' = SaveScene /\ saved' = Scene
  /\ UNCHANGED <<ponum, selected, drawingpoint, PolygonColorIndex, savexy, held>>
  /\ Display(po)

MenuLoad ==
  /\ file # <<>>
  /\ state' = "Normal" /\ ponum' = file[1]
  /\ UNCHANGED <<selected, drawingpoint, PolygonColorIndex, savexy, held, diskVars>>
  /\ Display(LoadScene(file))

\* Without a file fscanf() is given a null pointer.
MenuLoadNothing == file = <<>> /\ Exit

MenuClear ==
  /\ state' = "Clearing" /\ ponum' = 0
  /\ UNCHANGED <<selected, drawingpoint, PolygonColorIndex, savexy, held, diskVars>>
  /\ Display(po)

MenuOutside == ponum \notin 0..(MAX_POLYGONS - 1) /\ Exit

processColorMenu(color) ==
  /\ state' = "Changeing" /\ selected' = -1 /\ PolygonColorIndex' = color
  /\ UNCHANGED <<po, ponum, drawingpoint, savexy, held, diskVars>>

\* keyboard(): ENTER ends the mode, ESC the program.  In the modes Normal and
\* Clearing nothing happens.
Enter ==
  /\ state' = IF state = "Clearing" THEN state ELSE "Normal"
  /\ ponum' = IF state = "Creating" /\ drawingpoint # <<>> THEN ponum + 1 ELSE ponum
  /\ selected' = IF state \in {"Deleting", "Changeing", "Moving"} THEN -1 ELSE selected
  /\ UNCHANGED <<drawingpoint, PolygonColorIndex, savexy, held, diskVars>>
  /\ Display(po)

-----------------------------------------------------------------------------
\* pick(): the last polygon drawn under the pointer; without any, the
\* selection stays as it was.
Picked(hits) == IF hits = {} THEN selected ELSE Max(hits)

\* Deleting moves the polygons behind the selected one down by one.
Without(i) == [k \in DOMAIN po |-> IF k >= i /\ k < ponum - 1 THEN po[k + 1] ELSE po[k]]

\* mouse(): the left button is pressed at xy.
LeftDown(xy, hits) ==
  /\ savexy' = xy /\ held' = TRUE
  /\ UNCHANGED <<state, PolygonColorIndex, diskVars>>
  /\ CASE state = "Creating" ->
            /\ xy \in CORNERS
            /\ MapThenSumSet(LAMBDA i : Len(po[i].p), DOMAIN po) < MAX_POINTS
            /\ drawingpoint' = Append(drawingpoint, xy)
            /\ UNCHANGED <<ponum, selected>>
            /\ Display([po EXCEPT ![ponum].p = Append(@, xy)])
       [] state = "Deleting" ->
            /\ selected' = Picked(hits)
            /\ ponum' = IF selected' # -1 THEN ponum - 1 ELSE ponum
            /\ UNCHANGED drawingpoint
            /\ Display(IF selected' # -1 THEN Without(selected') ELSE po)
       [] state \in {"Moving", "Changeing"} ->
            /\ selected' = Picked(hits)
            /\ UNCHANGED <<ponum, drawingpoint>>
            /\ Display(po)
       [] state \in {"Normal", "Clearing"} ->
            /\ UNCHANGED <<ponum, selected, drawingpoint>>
            /\ Display(po)

\* Another button, or a release.
OtherButton(xy, down) ==
  /\ savexy' = xy /\ held' = down
  /\ UNCHANGED <<ponum, modeVars, diskVars>>
  /\ Display(po)

onMouseMove(xy) ==
  /\ held
  /\ UNCHANGED <<ponum, modeVars, held, diskVars>>
  /\ IF state = "Moving" /\ selected # -1
       THEN /\ LET offset == [c \in 1..2 |-> po[selected].offset[c] + xy[c] - savexy[c]]
               IN /\ \A c \in 1..2 : offset[c] \in -DRIFT..0
                  /\ Display([po EXCEPT ![selected].offset = offset])
            /\ savexy' = xy
       ELSE UNCHANGED savexy /\ Display(po)

Menu ==
  \/ MenuCreate \/ MenuOutside \/ MenuSave \/ MenuLoad \/ MenuLoadNothing \/ MenuClear
  \/ \E mode \in {"Deleting", "Moving"} : MenuSelecting(mode)
  \/ \E color \in COLORS : processColorMenu(color)

\* A click that deletes with a stale selection may take ponum below zero; it
\* is followed to -1.
Mouse ==
  \E xy \in POSITIONS :
    \/ \E hits \in SUBSET (0..(ponum - 1)) : ponum >= 0 /\ LeftDown(xy, hits)
    \/ \E down \in BOOLEAN : OtherButton(xy, down)
    \/ onMouseMove(xy)

EditorNext ==
  \/ Start
  \/ Started /\ (Menu \/ Enter \/ Exit \/ Mouse)

-----------------------------------------------------------------------------
\* Whatever was done since, started anew or not, load() brings back the scene
\* of the last save() (Source.cpp:182-216): every polygon, point, offset and
\* colour, whatever the slots hold by then.
FileRestores ==
  file # <<>> =>
    /\ Max({0, file[1]}) = Len(saved)
    /\ \A i \in DOMAIN saved : LoadScene(file)[i - 1] = saved[i]

\* Where the mouse may change a polygon the selection is one of the scene
\* (Source.cpp:217-258, 339-364), and only whole polygons enter the scene; the
\* one that is drawn consists of the points on the screen.
SelectionInScene ==
  /\ state \in {"Moving", "Changeing"} => selected \in {-1} \cup 0..(ponum - 1)
  /\ state = "Creating" => po[ponum].p = drawingpoint
  /\ \A i \in DOMAIN Scene : Scene[i].p # <<>>

\* A click of the mode Deleting takes the selected polygon out and leaves the
\* others as they are, in their order; no other use of the mouse takes one out
\* or adds one (Source.cpp:321-364).
DeletesTheSelected ==
  Started /\ state' = state /\ state \in {"Deleting", "Moving", "Changeing", "Creating"} =>
    IF state = "Deleting" /\ ponum' # ponum
      THEN selected' \in 0..(ponum - 1) => Scene' = RemoveAt(Scene, selected' + 1)
      ELSE Len(Scene') = Len(Scene)

PolygonsKept == [](FileRestores /\ SelectionInScene) /\ [][DeletesTheSelected]_editorVars
=============================================================================
