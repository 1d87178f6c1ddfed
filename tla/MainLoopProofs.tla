--------------------------- MODULE MainLoopProofs ---------------------------
(***************************************************************************)
(* What the process guarantees for every widget tree with the two          *)
(* telltales, every database, every data and every limit.                  *)
(*                                                                         *)
(* ScreenFollowsErrors and its like hold at some points of the loop only   *)
(* because of what held at the points before: LoopInv says for each point  *)
(* what the steps up to it have established.                               *)
(***************************************************************************)
EXTENDS MainLoop, FrameHandlerProofs, DataHandlerProofs

FrameInv == TypeOK /\ CleanMeansCurrent /\ CleanMeansReported /\ NoCanvasErrorLost

ContainersVisible == visible[Window] /\ \A c \in Containers : visible[c]

\* Between the constructors and the start of the engine.
BeforeStart ==
  /\ attached = FALSE
  /\ startupError = NoError
  /\ handlerError = NoError
  /\ visible = [w \in Widgets |-> TRUE]

\* A failed start has left its error.
StartJudged ==
  \/ startupError # NoError
  \/ /\ dbError = NoError
     /\ texturesLoaded
     /\ Usable
     /\ ContainersVisible

InLoop ==
  /\ dbError = NoError
  /\ startupError = NoError
  /\ texturesLoaded
  /\ Usable
  /\ ContainersVisible

\* The widgets agree with the data and the verification errors.
HmiUpdated ==
  \A t \in Telltales : /\ visible[Content[t]] <=> ShowContent(t)
                       /\ visible[Reference[t]] <=> ShowReference(t)

\* The frame was drawn or skipped.
Presented == screen = Picture /\ (MissingDrawn => canvasError = NoTexture)

LoopInv ==
  /\ LoopTypeOK
  /\ FrameInv
  /\ pc = "startup" => BeforeStart
  /\ pc = "check" => StartJudged
  /\ pc \in Points \ {"startup", "check", "done"} => InLoop
  /\ pc \in {"render", "error", "verify"} => HmiUpdated
  /\ pc \in {"error", "verify"} => Presented
  /\ DrawErrorsAreSeen

-----------------------------------------------------------------------------
\* Every operation of the frame handler keeps its invariants.
LEMMA NextFrameInv == FrameInv /\ [Next]_vars => FrameInv'
  BY NextTypeOK, NextCleanMeansCurrent, NextCleanMeansReported, NextNoCanvasErrorLost
     DEF FrameInv

\* So does the update of the HMI, many visibilities at once.
LEMMA UpdateFrameInv == FrameInv /\ SetVisibility(NewVisibility) => FrameInv'
<1> SUFFICES ASSUME FrameInv, SetVisibility(NewVisibility) PROVE FrameInv'
  OBVIOUS
<1>1. \A w \in DOMAIN NewVisibility : NewVisibility[w] \in BOOLEAN
  BY DEF NewVisibility
<1>2. TypeOK'
  BY <1>1, SetVisibilityTypeOK DEF FrameInv
<1>3. CleanMeansCurrent' /\ CleanMeansReported'
  BY SetVisibilityCleanMeansCurrent, SetVisibilityCleanMeansReported DEF FrameInv
<1>4. NoCanvasErrorLost'
  BY DEF FrameInv, NoCanvasErrorLost, SetVisibility
<1>5. QED
  BY <1>2, <1>3, <1>4 DEF FrameInv

\* Asking the engine for an error is a call of the frame handler at most.
LEMMA EngineGetErrorSteps ==
  ASSUME LoopTypeOK, NEW g \in GilErrors \cup {NoError}, EngineGetError(g)
  PROVE  /\ [Next]_vars
         /\ UNCHANGED <<ddh, hmiFrame, attached, visible, invalidated, screen, errors,
                        verified, canvasError, windowError>>
         /\ startupError' \in EngineError
         /\ err' \in EngineError \cup GilErrors
<1>1. CASE startupError # NoError
  BY <1>1 DEF EngineGetError, LoopTypeOK, vars, EngineError, NoError
<1>2. CASE startupError = NoError /\ dbError # NoError
  BY <1>2 DEF EngineGetError, LoopTypeOK, vars, EngineError, NoError, DbEmpty, DbVersionMismatch
<1>3. CASE startupError = NoError /\ dbError = NoError
  <2>1. GetError /\ startupError' = startupError
    BY <1>3 DEF EngineGetError
  <2>2. [Next]_vars
    BY <2>1 DEF Next
  <2>3. handlerError' \in EngineError
    <3>1. TypeOK'
      BY <2>2, NextTypeOK DEF LoopTypeOK
    <3>2. QED
      BY <3>1 DEF TypeOK, EngineError, NoError, NoTexture, DbInconsistent, DbError
  <2>4. err' \in EngineError \cup GilErrors
    BY <1>3, <2>3 DEF EngineGetError, EngineError, NoError
  <2>5. QED
    BY <2>1, <2>2, <2>4 DEF GetError, LoopTypeOK
<1>4. QED
  BY <1>1, <1>2, <1>3

\* Rendering or skipping a frame leaves the picture of the visible widgets on
\* the screen, and reports every texture that is missing for it.
LEMMA RenderPresents == FrameInv /\ Usable /\ Render => Presented'
<1> SUFFICES ASSUME FrameInv, Usable, Render PROVE Presented'
  OBVIOUS
<1>1. Picture' = Picture /\ (MissingDrawn' <=> MissingDrawn)
  BY DEF Render, Repaint, SkipFrame, vars, Picture, MissingDrawn, Drawn, Reached, HasTexture
<1>2. CASE Repaint
  BY <1>1, <1>2 DEF Repaint, Presented, MissingDrawn
<1>3. CASE SkipFrame
  <2>1. screen = Picture /\ (MissingDrawn => canvasError = NoTexture)
    BY <1>3 DEF SkipFrame, FrameInv, CleanMeansCurrent, CleanMeansReported, MissingDrawn
  <2>2. QED
    BY <1>1, <1>3, <2>1 DEF SkipFrame, vars, Presented
<1>4. QED
  BY <1>2, <1>3 DEF Render

\* What the data show depends on the data alone, and the fallbacks on the
\* counters alone.
LEMMA ShowsDependOn ==
  ASSUME UNCHANGED dataVars, UNCHANGED errors
  PROVE  \A t : (ShowContent(t)' <=> ShowContent(t)) /\ (ShowReference(t)' <=> ShowReference(t))
  BY DEF dataVars, ShowContent, ShowReference, StatusOf, HasExpired, Elapsed, ReadsAs

\* A field is drawn when it is visible, as long as all containers are.
LEMMA DrawnFields ==
  ASSUME ContainersVisible, NEW f \in Fields
  PROVE  Drawn(f) <=> visible[f]
  BY TreeAssumption DEF ContainersVisible, Drawn, Reached, Ancestors, Containers

\* The widgets of the telltales.
LEMMA TelltaleFields ==
  /\ \A t \in Telltales : Content[t] \in BitmapFields /\ Reference[t] \in ReferenceFields
  /\ \A f \in BitmapFields : \E t \in Telltales : f = Content[t]
  /\ \A s, t \in Telltales : Content[s] = Content[t] => s = t
  /\ \A s, t \in Telltales : Reference[s] = Reference[t] => s = t
  /\ \A s, t \in Telltales : Content[s] # Reference[t]
  BY LoopAssumption, TreeAssumption DEF Telltales
-----------------------------------------------------------------------------
LEMMA InitLoopInv == LoopInit => LoopInv
<1> SUFFICES ASSUME LoopInit PROVE LoopInv
  OBVIOUS
<1>1. LoopTypeOK
  BY InitTypeOK, InitDataTypeOK
     DEF LoopInit, LoopTypeOK, Points, EngineError, NoError
<1>2. FrameInv
  BY InitTypeOK, InitNoCanvasErrorLost
     DEF LoopInit, Init, FrameInv, CleanMeansCurrent, CleanMeansReported, Usable
<1>3. BeforeStart
  BY DEF LoopInit, Init, BeforeStart
<1>4. QED
  BY <1>1, <1>2, <1>3 DEF LoopInit, LoopInv, DrawErrorsAreSeen

\* The engine's constructor.
LEMMA StartupLoopInv == LoopInv /\ Startup => LoopInv'
<1> SUFFICES ASSUME LoopInv, Startup PROVE LoopInv'
  OBVIOUS
<1>1. BeforeStart /\ pc' = "check" /\ UNCHANGED <<dataVars, dbError, texturesLoaded, err>>
  BY DEF LoopInv, Startup, Goto
<1>2. FrameInv'
  <2>1. [Next]_vars
    BY <1>1 DEF Startup, BeforeStart, Next
  <2>2. QED
    BY <2>1, NextFrameInv DEF LoopInv
<1>3. StartJudged'
  <2>1. CASE dbError # NoError
    BY <1>1, <2>1 DEF Startup, StartJudged
  <2>2. CASE dbError = NoError /\ ~texturesLoaded
    BY <2>2 DEF Startup, StartJudged, NoError, DbInconsistent
  <2>3. CASE dbError = NoError /\ texturesLoaded /\ ~hmiFrame
    BY <1>1, <2>3 DEF Startup, Start, StartJudged, BeforeStart, Worse, NoError, DbError
  <2>4. CASE /\ dbError = NoError /\ texturesLoaded /\ hmiFrame
             /\ \E w \in Described : Rejected(w)
    BY <1>1, <2>4 DEF Startup, Start, StartJudged, BeforeStart, Worse, NoError, DbInconsistent
  <2>5. CASE /\ dbError = NoError /\ texturesLoaded /\ hmiFrame
             /\ ~\E w \in Described : Rejected(w)
    <3>1. Start
      BY <2>5 DEF Startup
    <3>2. Usable'
      BY <2>5, <3>1 DEF Start, Usable, Rejected, SetUp, PanelAccepted
    <3>3. ContainersVisible'
      <4>1. \A p \in Panels : SetUp(p) /\ DdhVisible[p] /\ p \in Described
        BY LoopAssumption, TreeAssumption DEF SetUp, Fields, Described
      <4>2. \A w \in Widgets : visible[w]
        BY <1>1 DEF BeforeStart
      <4>3. visible' = [w \in Widgets |->
               IF w \in Described /\ SetUp(w) /\ ddh[w] # "area"
               THEN DdhVisible[w] \/ ddh[w] = "visible"
               ELSE visible[w]]
        BY <2>5, <3>1 DEF Start
      <4>4. visible'[Window] /\ visible'[Frame]
        BY <4>2, <4>3, TreeFacts, TreeAssumption
      <4>5. \A p \in Panels : visible'[p]
        BY <4>1, <4>2, <4>3, TreeFacts
      <4>6. QED
        BY <4>4, <4>5 DEF ContainersVisible, Containers
    <3>4. QED
      BY <1>1, <2>5, <3>2, <3>3 DEF StartJudged
  <2>6. QED
    BY <2>1, <2>2, <2>3, <2>4, <2>5
<1>4. LoopTypeOK'
  <2>1. DataTypeOK'
    BY <1>1 DEF LoopInv, LoopTypeOK, dataVars, DataTypeOK
  <2>2. startupError' \in EngineError
    BY <1>2 DEF LoopInv, LoopTypeOK, Startup, FrameInv, TypeOK, EngineError, NoError, NoTexture,
                DbInconsistent, DbError, DbEmpty, DbVersionMismatch
  <2>3. QED
    BY <1>1, <1>2, <2>1, <2>2 DEF LoopInv, LoopTypeOK, FrameInv, Points
<1>5. QED
  BY <1>1, <1>2, <1>3, <1>4 DEF LoopInv, DrawErrorsAreSeen

\* A step of the loop that leaves the frame handler, the database and the
\* startup alone keeps what holds everywhere in the loop.
LEMMA LoopBasics ==
  ASSUME LoopInv, [Next]_vars \/ SetVisibility(NewVisibility), [DataNext]_dataVars,
         UNCHANGED <<dbError, texturesLoaded>>, pc' \in Points,
         startupError' \in EngineError, err' \in EngineError \cup GilErrors
  PROVE  LoopTypeOK' /\ FrameInv'
<1>1. FrameInv'
  BY NextFrameInv, UpdateFrameInv DEF LoopInv
<1>2. DataTypeOK'
  BY NextDataTypeOK DEF LoopInv, LoopTypeOK
<1>3. QED
  BY <1>1, <1>2 DEF LoopInv, LoopTypeOK, FrameInv

\* The loop stays sound as long as the frame and the visibility of the
\* containers stay.
LEMMA InLoopFrame ==
  ASSUME InLoop, UNCHANGED <<ddh, attached, dbError, texturesLoaded, startupError>>,
         \A c \in Containers \cup {Window} : visible'[c] = visible[c]
  PROVE  InLoop'
  BY UsableDependsOn DEF InLoop, ContainersVisible

LEMMA CheckStartupLoopInv == LoopInv /\ CheckStartup => LoopInv'
<1> SUFFICES ASSUME LoopInv, CheckStartup PROVE LoopInv'
  OBVIOUS
<1>1. PICK g \in GilErrors \cup {NoError} : EngineGetError(g)
  BY DEF CheckStartup
<1>2. /\ pc = "check" /\ pc' = IF err' = NoError THEN "loop" ELSE "done"
      /\ UNCHANGED <<dataVars, dbError, texturesLoaded>>
  BY DEF CheckStartup, Goto
<1>3. LoopTypeOK' /\ FrameInv'
  BY <1>1, <1>2, EngineGetErrorSteps, LoopBasics DEF LoopInv, Points
<1>4. ASSUME pc' = "loop" PROVE InLoop'
  <2>1. startupError = NoError /\ startupError' = NoError
    BY <1>1, <1>2, <1>4 DEF EngineGetError
  <2>2. InLoop
    BY <1>2, <2>1 DEF LoopInv, StartJudged, InLoop
  <2>3. QED
    BY <1>1, <1>2, <2>1, <2>2, EngineGetErrorSteps, InLoopFrame DEF LoopInv
<1>5. QED
  BY <1>2, <1>3, <1>4 DEF LoopInv, DrawErrorsAreSeen

LEMMA UpdateHMILoopInv == LoopInv /\ UpdateHMI => LoopInv'
<1> SUFFICES ASSUME LoopInv, UpdateHMI PROVE LoopInv'
  OBVIOUS
<1>1. /\ pc = "update" /\ pc' = "render" /\ SetVisibility(NewVisibility)
      /\ UNCHANGED <<dataVars, dbError, texturesLoaded, startupError, err>>
  BY DEF UpdateHMI, Goto
<1>2. LoopTypeOK' /\ FrameInv'
  BY <1>1, LoopBasics DEF LoopInv, LoopTypeOK, Points
<1>3. InLoop'
  <2>1. DOMAIN NewVisibility = Fields
    BY DEF NewVisibility
  <2>2. \A c \in Containers \cup {Window} : c \in Widgets /\ c \notin Fields
    BY TreeAssumption DEF Containers, Fields, Widgets, Described
  <2>3. \A c \in Containers \cup {Window} : visible'[c] = visible[c]
    BY <1>1, <2>1, <2>2 DEF SetVisibility
  <2>4. InLoop
    BY <1>1 DEF LoopInv, Points
  <2>5. QED
    BY <1>1, <2>3, <2>4, InLoopFrame DEF SetVisibility
<1>4. HmiUpdated'
  <2>1. \A f \in Fields : visible'[f] = NewVisibility[f]
    BY <1>1, TreeFacts DEF SetVisibility, NewVisibility
  <2>2. \A t \in Telltales : /\ NewVisibility[Content[t]] <=> ShowContent(t)
                             /\ NewVisibility[Reference[t]] <=> ShowReference(t)
    BY TelltaleFields, TreeFacts DEF NewVisibility
  <2>3. UNCHANGED errors
    BY <1>1 DEF SetVisibility
  <2>4. \A t \in Telltales : Content[t] \in Fields /\ Reference[t] \in Fields
    BY TelltaleFields, TreeFacts
  <2>5. QED
    BY <1>1, <2>1, <2>2, <2>3, <2>4, ShowsDependOn DEF HmiUpdated
<1>5. QED
  BY <1>1, <1>2, <1>3, <1>4 DEF LoopInv, DrawErrorsAreSeen

LEMMA RenderFrameLoopInv == LoopInv /\ RenderFrame => LoopInv'
<1> SUFFICES ASSUME LoopInv, RenderFrame PROVE LoopInv'
  OBVIOUS
<1>1. /\ pc = "render" /\ pc' = "error" /\ Usable /\ Render
      /\ UNCHANGED <<dataVars, dbError, texturesLoaded, startupError, err>>
  BY DEF RenderFrame, Goto
<1>2. [Next]_vars
  BY <1>1 DEF Render, Next
<1>3. LoopTypeOK' /\ FrameInv'
  BY <1>1, <1>2, LoopBasics DEF LoopInv, LoopTypeOK, Points
<1>4. UNCHANGED <<ddh, attached, visible, errors>>
  BY <1>1 DEF Render, Repaint, SkipFrame, vars
<1>5. InLoop'
  BY <1>1, <1>4, InLoopFrame DEF LoopInv, Points
<1>6. HmiUpdated'
  BY <1>1, <1>4, ShowsDependOn DEF LoopInv, HmiUpdated
<1>7. Presented'
  BY <1>1, RenderPresents DEF LoopInv
<1>8. QED
  BY <1>1, <1>3, <1>5, <1>6, <1>7 DEF LoopInv, DrawErrorsAreSeen

LEMMA ReadErrorLoopInv == LoopInv /\ ReadError => LoopInv'
<1> SUFFICES ASSUME LoopInv, ReadError PROVE LoopInv'
  OBVIOUS
<1>1. PICK g \in GilErrors \cup {NoError} : EngineGetError(g)
  BY DEF ReadError
<1>2. pc = "error" /\ pc' = "verify" /\ UNCHANGED <<dataVars, dbError, texturesLoaded>>
  BY DEF ReadError, Goto
<1>3. LoopTypeOK' /\ FrameInv'
  BY <1>1, <1>2, EngineGetErrorSteps, LoopBasics DEF LoopInv, Points
<1>4. InLoop
  BY <1>2 DEF LoopInv, Points
<1>5. GetError /\ err' = (IF handlerError' # NoError THEN handlerError' ELSE g)
               /\ UNCHANGED startupError
  BY <1>1, <1>4 DEF InLoop, EngineGetError
<1>6. UNCHANGED <<ddh, attached, visible, errors, screen, canvasError, windowError>>
  BY <1>5 DEF GetError
<1>7. InLoop'
  BY <1>2, <1>4, <1>5, <1>6, InLoopFrame
<1>8. HmiUpdated'
  BY <1>2, <1>6, ShowsDependOn DEF LoopInv, HmiUpdated
<1>9. Presented'
  BY <1>2, <1>6, PictureDependsOn
     DEF LoopInv, Presented, MissingDrawn, Drawn, Reached, HasTexture
<1>10. canvasError' # NoError => Critical(err')
  <2>1. handlerError' = Worse(handlerError, windowError)
    BY <1>4, <1>5 DEF GetError, InLoop, Usable
  <2>2. handlerError \in Nat /\ windowError \in Nat
    BY ErrorsAreNat DEF LoopInv, FrameInv
  <2>3. handlerError' >= windowError
    BY <2>1, <2>2, WorseIsUpperBound
  <2>4. windowError >= canvasError /\ canvasError \in {NoError, NoTexture}
    BY DEF LoopInv, FrameInv, NoCanvasErrorLost, TypeOK
  <2>5. handlerError' \in {NoError, NoTexture, DbInconsistent, DbError}
    BY <1>3 DEF FrameInv, TypeOK
  <2>6. QED
    BY <1>5, <1>6, <2>2, <2>3, <2>4, <2>5
       DEF Critical, NoError, NoTexture, DbInconsistent, DbError, DataNotAvailable, DataInconsistent
<1>11. DrawErrorsAreSeen'
  BY <1>10 DEF DrawErrorsAreSeen, Critical
<1>12. QED
  BY <1>2, <1>3, <1>7, <1>8, <1>9, <1>11 DEF LoopInv

LEMMA VerifyLoopInv == LoopInv /\ VerifyOutput => LoopInv'
<1> SUFFICES ASSUME LoopInv, VerifyOutput PROVE LoopInv'
  OBVIOUS
<1>1. PICK matching \in SUBSET ReferenceFields : Usable /\ Verify(matching)
  BY DEF VerifyOutput
<1>2. /\ pc = "verify" /\ pc' = "loop"
      /\ UNCHANGED <<dataVars, dbError, texturesLoaded, startupError, err>>
  BY DEF VerifyOutput, Goto
<1>3. LoopTypeOK' /\ FrameInv'
  <2>1. [Next]_vars
    BY <1>1 DEF Next
  <2>2. QED
    BY <1>2, <2>1, LoopBasics DEF LoopInv, LoopTypeOK, Points
<1>4. InLoop'
  BY <1>1, <1>2, InLoopFrame DEF LoopInv, Points, Verify
<1>5. QED
  BY <1>2, <1>3, <1>4 DEF LoopInv, DrawErrorsAreSeen

\* Receiving, and what only moves on, leaves the frame handler alone.
LEMMA ReceiveLoopInv ==
  LoopInv /\ (BeginReceive \/ ReceiveValue \/ EndReceive \/ Leave) => LoopInv'
<1> SUFFICES ASSUME LoopInv, BeginReceive \/ ReceiveValue \/ EndReceive \/ Leave
             PROVE  LoopInv'
  OBVIOUS
<1>1. /\ pc \in {"loop", "receive"} /\ pc' \in {"receive", "update", "done"}
      /\ UNCHANGED <<vars, dbError, texturesLoaded, startupError, err>>
  BY DEF BeginReceive, ReceiveValue, EndReceive, Leave, Goto
<1>2. [DataNext]_dataVars
  <2>1. ASSUME NEW i \in FedIds, NEW v \in Values, NEW s \in {"VALID", "INVALID"},
               SetData(i, TypeOfId[i], v, s)
        PROVE  DataNext
    BY <2>1, LoopAssumption, DataAssumption DEF DataNext
  <2>2. QED
    BY <2>1 DEF BeginReceive, ReceiveValue, EndReceive, Leave, DataNext
<1>3. LoopTypeOK' /\ FrameInv'
  BY <1>1, <1>2, LoopBasics DEF LoopInv, LoopTypeOK, Points
<1>4. InLoop'
  BY <1>1, InLoopFrame DEF LoopInv, Points, vars
<1>5. QED
  BY <1>1, <1>3, <1>4 DEF LoopInv, DrawErrorsAreSeen

LEMMA NextLoopInv == LoopInv /\ [LoopNext]_loopVars => LoopInv'
<1>1. LoopInv /\ UNCHANGED loopVars => LoopInv'
  <2> SUFFICES ASSUME LoopInv, UNCHANGED loopVars PROVE LoopInv'
    OBVIOUS
  <2>1. UNCHANGED vars /\ UNCHANGED dataVars
        /\ UNCHANGED <<pc, dbError, texturesLoaded, startupError, err>>
    BY DEF loopVars
  <2>2. LoopTypeOK' /\ FrameInv'
    BY <2>1, LoopBasics DEF LoopInv, LoopTypeOK
  <2>3. UNCHANGED <<ddh, attached, visible, errors, screen, canvasError, handlerError>>
    BY <2>1 DEF vars
  <2>4. Usable' = Usable /\ Picture' = Picture /\ MissingDrawn' = MissingDrawn
    BY <2>3, UsableDependsOn, PictureDependsOn DEF MissingDrawn, Drawn, Reached, HasTexture
  <2>5. HmiUpdated => HmiUpdated'
    BY <2>1, <2>3, ShowsDependOn DEF HmiUpdated
  <2>6. QED
    BY <2>1, <2>2, <2>3, <2>4, <2>5
       DEF LoopInv, BeforeStart, StartJudged, InLoop, ContainersVisible, Presented,
           DrawErrorsAreSeen, Critical
<1>2. QED
  BY <1>1, StartupLoopInv, CheckStartupLoopInv, UpdateHMILoopInv, RenderFrameLoopInv,
     ReadErrorLoopInv, VerifyLoopInv, ReceiveLoopInv DEF LoopNext, Step, Ended
\* The inductive invariant holds at every point of the loop.
LEMMA LoopInvariant == LoopSpec => []LoopInv
  BY InitLoopInv, NextLoopInv, PTL DEF LoopSpec

\* The state of the whole process stays well typed.
THEOREM LoopTypeCorrect == LoopSpec => []LoopTypeOK
<1>1. LoopInv => LoopTypeOK
  BY DEF LoopInv
<1>2. QED
  BY <1>1, LoopInvariant, PTL

\* The loop is entered only after a start that succeeded in every part.
THEOREM LoopIsSoundlyStarted == LoopSpec => []LoopNeedsSoundStart
<1>1. LoopInv => LoopNeedsSoundStart
  BY DEF LoopInv, InLoop, LoopNeedsSoundStart
<1>2. QED
  BY <1>1, LoopInvariant, PTL

\* The picture of the visible widgets is that of the fallbacks above their limit.
LEMMA PictureIsFallbacks ==
  ASSUME ContainersVisible, HmiUpdated
  PROVE  Picture = {Content[t] : t \in {u \in Telltales : ShowContent(u) /\ HasTexture(Content[u])}}
<1>1. \A f \in BitmapFields : Drawn(f) <=> visible[f]
  BY DrawnFields, TreeFacts
<1>2. \A t \in Telltales : Content[t] \in BitmapFields /\ (visible[Content[t]] <=> ShowContent(t))
  BY TelltaleFields DEF HmiUpdated
<1>3. QED
  BY <1>1, <1>2, TelltaleFields DEF Picture

\* Whenever the output is about to be verified, the screen shows exactly the
\* fallbacks that the verification errors call for.
THEOREM ScreenAlwaysFollowsErrors == LoopSpec => []ScreenFollowsErrors
<1>1. LoopInv => ScreenFollowsErrors
  BY PictureIsFallbacks DEF LoopInv, InLoop, Presented, ScreenFollowsErrors, Points
<1>2. QED
  BY <1>1, LoopInvariant, PTL

\* Without valid data both telltales are verified.
THEOREM MissingDataAlwaysVerified == LoopSpec => []MissingDataIsVerified
<1>1. LoopInv => MissingDataIsVerified
  BY DEF LoopInv, HmiUpdated, ShowReference, ReadsAs, MissingDataIsVerified
<1>2. QED
  BY <1>1, LoopInvariant, PTL

\* A texture that a frame lacked has become a critical error before the frame is
\* verified.
THEOREM DrawErrorsAlwaysSeen == LoopSpec => []DrawErrorsAreSeen
<1>1. LoopInv => DrawErrorsAreSeen
  BY DEF LoopInv
<1>2. QED
  BY <1>1, LoopInvariant, PTL

\* Whatever the data say, as updateHMI reads one datum for both of its flags.
BreakIsVerified == pc \in {"render", "error", "verify"} => visible[Reference[Break]]

\* The break telltale is verified in every frame, for every value and status of its data:
\* BreakFollowsItsFlags fails whenever both flags validly say that it is off.
THEOREM BreakIsAlwaysVerified == LoopSpec => []BreakIsVerified
<1>1. LoopInv => BreakIsVerified
  <2> SUFFICES ASSUME LoopInv, HmiUpdated PROVE visible[Reference[Break]]
    BY DEF LoopInv, BreakIsVerified
  <2>1. ShowReference(Break)
    BY LoopAssumption DEF ShowReference, ReadsAs
  <2>2. QED
    BY <2>1 DEF HmiUpdated, Telltales
<1>2. QED
  BY <1>1, LoopInvariant, PTL

-----------------------------------------------------------------------------
\* The refinement mapping, named for the proofs.
phaseOf ==
  CASE pc \in {"startup", "check"} -> "off"
    [] pc \in {"loop", "receive", "update"} -> "command"
    [] pc = "render" -> "present"
    [] pc \in {"error", "verify"} -> "check"
    [] pc = "done" -> "over"

\* A step that touches neither the phase nor what the monitor sees stutters.
LEMMA MonitorFrame ==
  ASSUME UNCHANGED <<phaseOf, visible, errors, screen, canvasError>>
  PROVE  UNCHANGED Monitor!monitorVars
  BY DEF phaseOf, Monitor!monitorVars

LEMMA PowerUpImplements ==
  ASSUME LoopInv, Startup \/ CheckStartup
  PROVE  Monitor!PowerUp
<1>1. pc \in {"startup", "check"} /\ pc' \in {"check", "loop", "done"}
  BY DEF Startup, CheckStartup, Goto
<1>2. UNCHANGED <<errors, screen, canvasError>>
  BY EngineGetErrorSteps DEF LoopInv, Startup, Start, vars, CheckStartup
<1>3. QED
  BY <1>1, <1>2 DEF Monitor!PowerUp

LEMMA CommandImplements ==
  ASSUME LoopInv, UpdateHMI
  PROVE  Monitor!Command
  BY DEF UpdateHMI, Goto, SetVisibility, Monitor!Command

\* Presenting a frame: the fallbacks without a texture are the missing ones.
LEMMA PresentImplements ==
  ASSUME LoopInv, RenderFrame
  PROVE  \E missing \in SUBSET Telltales : Monitor!Present(missing)
<1> DEFINE above == {t \in Telltales : ShowContent(t)}
<1>0. PICK missing \in SUBSET Telltales :
         missing = {t \in Telltales : ~HasTexture(Content[t])}
  OBVIOUS
<1>1. pc = "render" /\ pc' = "error" /\ Usable /\ Render /\ LoopInv'
  BY RenderFrameLoopInv DEF RenderFrame, Goto
<1>2. UNCHANGED <<ddh, visible, errors>>
  BY <1>1 DEF Render, Repaint, SkipFrame, vars
<1>3. HmiUpdated /\ ContainersVisible
  BY <1>1 DEF LoopInv, InLoop, Points
<1>4. screen' = {Content[t] : t \in {u \in Telltales : ShowContent(u) /\ HasTexture(Content[u])}}
  <2>1. screen' = Picture'
    BY <1>1 DEF LoopInv, Presented
  <2>2. QED
    BY <1>2, <1>3, <2>1, PictureDependsOn, PictureIsFallbacks
<1>5. {t \in Telltales : Content[t] \in screen'} = above \ missing
  BY <1>0, <1>4, TelltaleFields
<1>6. MissingDrawn <=> above \cap missing # {}
  <2>1. \A f \in BitmapFields : Drawn(f) <=> visible[f]
    BY <1>3, DrawnFields, TreeFacts
  <2>2. \A t \in Telltales : visible[Content[t]] <=> ShowContent(t)
    BY <1>3 DEF HmiUpdated
  <2>3. QED
    BY <1>0, <2>1, <2>2, TelltaleFields DEF MissingDrawn
<1>7. canvasError' # NoError <=> (canvasError # NoError \/ MissingDrawn)
  <2>1. CASE Repaint
    BY <2>1 DEF Repaint, MissingDrawn, NoError, NoTexture
  <2>2. CASE SkipFrame
    BY <1>1, <2>2 DEF SkipFrame, vars, LoopInv, FrameInv, CleanMeansReported, MissingDrawn,
                      NoError, NoTexture
  <2>3. QED
    BY <1>1, <2>1, <2>2 DEF Render
<1>8. Monitor!AboveLimit = above
  BY DEF Monitor!AboveLimit, ShowContent
<1>9. Monitor!Present(missing)
  BY <1>1, <1>2, <1>5, <1>6, <1>7, <1>8 DEF Monitor!Present
<1>10. QED
  BY <1>9

\* Verifying: the failing checks are those of the references that do not pass.
LEMMA CheckImplements ==
  ASSUME LoopInv, VerifyOutput
  PROVE  \E failing \in SUBSET Telltales : Monitor!Check(failing)
<1>1. PICK matching \in SUBSET ReferenceFields : Usable /\ Verify(matching)
  BY DEF VerifyOutput
<1>2. pc = "verify" /\ pc' = "loop"
  BY DEF VerifyOutput, Goto
<1> PICK failing \in SUBSET Telltales :
      failing = {t \in Telltales : ~Passes(Reference[t], matching)}
  OBVIOUS
<1>3. \A t \in Telltales : errors[Reference[t]] \in 0..MaxErrors
  BY TelltaleFields DEF LoopInv, LoopTypeOK, TypeOK
<1>4. \A t \in Telltales : errors'[Reference[t]] = CountedErrors(Reference[t], matching)
  BY <1>1, TelltaleFields DEF Verify
<1>5. \A t \in Telltales :
        errors'[Reference[t]] =
          IF t \notin {u \in Telltales : visible[Reference[u]]} THEN 0
          ELSE IF t \in failing /\ errors[Reference[t]] < MaxErrors
               THEN errors[Reference[t]] + 1 ELSE errors[Reference[t]]
  BY <1>3, <1>4, TreeAssumption DEF CountedErrors
<1>6. (canvasError' # NoError) \in {canvasError # NoError, TRUE}
  <2>1. canvasError' = canvasError \/ canvasError' = NoTexture
    BY <1>1 DEF Verify
  <2>2. CASE canvasError' = canvasError
    BY <2>2
  <2>3. CASE canvasError' = NoTexture
    <3>1. canvasError' # NoError
      BY <2>3 DEF NoTexture, NoError
    <3>2. QED
      BY <3>1
  <2>4. QED
    BY <2>1, <2>2, <2>3
<1>7. Monitor!Check(failing)
  BY <1>1, <1>2, <1>5, <1>6 DEF Monitor!Check, Verify
<1>8. QED
  BY <1>7

LEMMA NextImplementsMonitor ==
  LoopInv /\ [LoopNext]_loopVars => [Monitor!MonitorNext]_Monitor!monitorVars
<1> SUFFICES ASSUME LoopInv, [LoopNext]_loopVars
             PROVE  [Monitor!MonitorNext]_Monitor!monitorVars
  OBVIOUS
<1>1. CASE Startup \/ CheckStartup
  BY <1>1, PowerUpImplements DEF Monitor!MonitorNext
<1>2. CASE UpdateHMI
  BY <1>2, CommandImplements DEF Monitor!MonitorNext
<1>3. CASE RenderFrame
  BY <1>3, PresentImplements DEF Monitor!MonitorNext
<1>4. CASE VerifyOutput
  BY <1>4, CheckImplements DEF Monitor!MonitorNext
<1>5. CASE Leave
  <2>1. Monitor!Stop
    BY <1>5 DEF Leave, Goto, vars, Monitor!Stop
  <2>2. QED
    BY <2>1 DEF Monitor!MonitorNext
<1>6. CASE BeginReceive \/ EndReceive \/ ReceiveValue
  <2>1. UNCHANGED vars /\ {pc, pc'} \subseteq {"loop", "receive", "update"}
    BY <1>6 DEF BeginReceive, EndReceive, ReceiveValue, Goto
  <2>2. QED
    BY <2>1, MonitorFrame DEF phaseOf, vars
<1>7. CASE ReadError
  <2>1. pc = "error" /\ pc' = "verify"
    BY <1>7 DEF ReadError, Goto
  <2>2. UNCHANGED <<visible, errors, screen, canvasError>>
    BY <1>7, EngineGetErrorSteps DEF ReadError, LoopInv
  <2>3. QED
    BY <2>1, <2>2, MonitorFrame DEF phaseOf
<1>8. CASE UNCHANGED loopVars
  BY <1>8, MonitorFrame DEF loopVars, vars, phaseOf
<1>9. QED
  BY <1>1, <1>2, <1>3, <1>4, <1>5, <1>6, <1>7, <1>8 DEF LoopNext, Step, Ended

LEMMA InitImplementsMonitor == LoopInit => Monitor!MonitorInit
<1> SUFFICES ASSUME LoopInit PROVE Monitor!MonitorInit
  OBVIOUS
<1>1. \A t \in Telltales : errors[Reference[t]] = 0
  BY TelltaleFields DEF LoopInit, Init
<1>2. QED
  BY <1>1 DEF LoopInit, Init, Monitor!MonitorInit

\* The process, with its widgets, invalidation flags and skipped frames, does
\* what the telltale monitor promises.
THEOREM LoopImplementsMonitor == LoopSpec => ImplementsMonitor
  BY InitImplementsMonitor, LoopInvariant, NextImplementsMonitor, PTL
     DEF LoopSpec, ImplementsMonitor, Monitor!MonitorSpec
=============================================================================
