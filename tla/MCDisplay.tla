----------------------------- MODULE MCDisplay -----------------------------
(***************************************************************************)
(* Display with a window of three by two pixels on a larger screen, or on  *)
(* Windows, where making it may fail.  The bitmaps: three usable ones, two *)
(* whose format has no equivalent, and one of the format of the other      *)
(* memory.  The fields lie apart, side by side, on top of each other, and  *)
(* one of them reaches over the window's edge.                             *)
(***************************************************************************)
EXTENDS Display

MCColours == {"red", "green", "blue", "white"}
MCFixed   == "grey"
MCUnknown == "unknown"

Plain(w, h, format, pixels) ==
  [width |-> w, height |-> h, format |-> format, palette |-> FALSE, depth |-> 0,
   pixels |-> pixels, aligned |-> TRUE]

MCImages == <<
  Plain(1, 1, "BGRA8888", <<"red">>),
  Plain(2, 1, "BGRA8888", <<"green", "blue">>),
  [Plain(2, 1, "BGRA8888", <<"white", "white">>) EXCEPT !.palette = TRUE, !.depth = 4],
  Plain(1, 2, "RGB565", <<"white", "red">>),
  Plain(2, 2, "BGRA8888", <<"blue", "white", "green", "red">>),
  Plain(65537, 1, "UNKNOWN", <<"white">>) >>

Place(x, y, w, h) == [x |-> x, y |-> y, width |-> w, height |-> h]
MCPanel == Place(1, 0, 2, 2)
MCOther == Place(0, 1, 3, 1)

At(panel, x, y, bitmap) ==
  [panel |-> panel, bitmap |-> bitmap,
   area |-> Place(x, y, IF bitmap = 0 THEN 1 ELSE MCImages[bitmap].width,
                        IF bitmap = 0 THEN 1 ELSE MCImages[bitmap].height)]

MCFields == [
  lamp    |-> At(MCOther, 0, 0, 1),
  wide    |-> At(MCPanel, 0, 1, 2),    odd   |-> At(MCPanel, 0, 1, 3),
  deep    |-> At(MCPanel, -1, 0, 4),   tall  |-> At(MCPanel, -1, 0, 5),
  edge    |-> At(MCOther, 2, 0, 2),    nothing |-> At(MCPanel, 0, 0, 0),
  refLamp |-> At(MCOther, 0, 0, 1),   refOdd  |-> At(MCPanel, 0, 1, 3),
  refTall |-> At(MCPanel, -1, 0, 5)]

MCOrder == <<"wide", "odd", "deep", "tall", "lamp", "edge", "nothing">>
MCReferences == <<"refLamp", "refOdd", "refTall">>

MCScreen(system, x, y, w, h, format) ==
  [system |-> system, x |-> x, y |-> y, w |-> w, h |-> h, stride |-> w, size |-> w * h,
   aligned |-> TRUE, format |-> format, mem |-> [i \in 0..w*h-1 |-> MCUnknown],
   class |-> TRUE, creates |-> TRUE, painted |-> TRUE]
MCWindow  == MCScreen("windows", 0, 0, 3, 2, "BGRA_8888")
MCScreens == {MCScreen("memory", 1, 1, 4, 3, "BGRA_8888"),
              MCScreen("memory", 1, 1, 4, 3, "RGB_565"),
              MCWindow, [MCWindow EXCEPT !.class = FALSE], [MCWindow EXCEPT !.creates = FALSE]}

\* On this database the dummy can be fair.
ASSUME MCImagesTellApart == ImagesTellApart /\ DummyHasRoom
=============================================================================
