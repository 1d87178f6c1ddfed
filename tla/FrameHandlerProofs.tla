------------------------- MODULE FrameHandlerProofs -------------------------
(***************************************************************************)
(* What the frame handler guarantees for every widget tree, every database *)
(* and every order of the application's calls.                             *)
(***************************************************************************)
EXTENDS FrameHandler, TLAPS

\* The collector returns one of its two errors, and the more severe one.
LEMMA WorseIsUpperBound ==
  ASSUME NEW a \in Nat, NEW b \in Nat
  PROVE  Worse(a, b) \in {a, b} /\ Worse(a, b) >= a /\ Worse(a, b) >= b
  BY DEF Worse

\* Where the parts of a widget tree are: used by every step below.
LEMMA TreeFacts ==
  /\ Described \subseteq Widgets
  /\ Fields \subseteq Described
  /\ BitmapFields \subseteq Fields
  /\ ReferenceFields \subseteq Fields
  /\ Containers \subseteq Widgets
  /\ Window \in Widgets
  /\ Frame \in Widgets
  BY DEF Described, Fields, Containers, Widgets

-----------------------------------------------------------------------------
\* The constructors establish the type invariant.
LEMMA InitTypeOK == Init => TypeOK
<1>1. 0 \in 0..MaxErrors
  BY TreeAssumption
<1>2. QED
  BY <1>1 DEF Init, TypeOK

\* Setting the visibility of any widgets keeps the type invariant.
LEMMA SetVisibilityTypeOK ==
  ASSUME TypeOK, NEW new, \A w \in DOMAIN new : new[w] \in BOOLEAN,
         SetVisibility(new)
  PROVE  TypeOK'
<1>1. visible' \in [Widgets -> BOOLEAN]
  BY DEF SetVisibility, TypeOK
<1>2. invalidated' \in [Widgets -> BOOLEAN]
  BY DEF SetVisibility, TypeOK
<1>3. QED
  BY <1>1, <1>2 DEF SetVisibility, TypeOK

\* Every operation of the frame handler, and a stutter, keeps the type invariant.
LEMMA NextTypeOK == TypeOK /\ [Next]_vars => TypeOK'
<1> SUFFICES ASSUME TypeOK, [Next]_vars
             PROVE  TypeOK'
  OBVIOUS
<1> USE TreeAssumption, TreeFacts
<1>1. CASE ~attached /\ Start
  <2>1. handlerError' \in {NoError, NoTexture, DbInconsistent, DbError}
    BY <1>1 DEF TypeOK, Start, Worse, NoError, NoTexture, DbInconsistent, DbError
  <2>2. visible' \in [Widgets -> BOOLEAN]
    <3>1. \A w \in Described : (DdhVisible[w] \/ ddh[w] = "visible") \in BOOLEAN
      OBVIOUS
    <3>2. CASE hmiFrame
      BY <1>1, <3>1, <3>2 DEF TypeOK, Start
    <3>3. CASE ~hmiFrame
      BY <1>1, <3>3 DEF TypeOK, Start
    <3>4. QED
      BY <3>2, <3>3
  <2>3. invalidated' \in [Widgets -> BOOLEAN] /\ attached' \in BOOLEAN
    BY <1>1 DEF TypeOK, Start
  <2>4. QED
    BY <1>1, <2>1, <2>2, <2>3 DEF TypeOK, Start
<1>2. ASSUME NEW w \in Containers \cup Fields, NEW v \in BOOLEAN, SetVisible(w, v)
      PROVE  TypeOK'
  BY <1>2, SetVisibilityTypeOK DEF SetVisible
<1>3. ASSUME NEW r \in ReferenceFields, ClearVerificationErrors(r)
      PROVE  TypeOK'
  BY <1>3 DEF TypeOK, ClearVerificationErrors
<1>4. CASE Usable /\ Repaint
  <2>1. screen' \subseteq BitmapFields
    BY <1>4 DEF Repaint, Picture
  <2>2. invalidated' \in [Widgets -> BOOLEAN]
    BY <1>4 DEF Repaint, TypeOK
  <2>3. canvasError' \in {NoError, NoTexture} /\ windowError' \in {NoError, NoTexture}
    BY <1>4 DEF Repaint, TypeOK, Worse
  <2>4. QED
    BY <1>4, <2>1, <2>2, <2>3 DEF Repaint, TypeOK
<1>5. CASE Usable /\ SkipFrame
  BY <1>5 DEF SkipFrame, TypeOK, vars
<1>6. ASSUME NEW matching \in SUBSET ReferenceFields, Usable /\ Verify(matching)
      PROVE  TypeOK'
  <2>1. errors' \in [ReferenceFields -> 0..MaxErrors]
    BY <1>6 DEF Verify, CountedErrors, TypeOK
  <2>2. verified' \in [ReferenceFields -> BOOLEAN]
    <3>1. \A r \in ReferenceFields : Passes(r, matching) \in BOOLEAN
      BY DEF Passes
    <3>2. QED
      BY <1>6, <3>1 DEF Verify
  <2>3. canvasError' \in {NoError, NoTexture} /\ windowError' \in {NoError, NoTexture}
    BY <1>6 DEF Verify, TypeOK, Worse
  <2>4. QED
    BY <1>6, <2>1, <2>2, <2>3 DEF Verify, TypeOK
<1>7. CASE GetError
  BY <1>7 DEF GetError, TypeOK, Worse
<1>8. CASE UNCHANGED vars
  BY <1>8 DEF TypeOK, vars
<1>9. QED
  BY <1>1, <1>2, <1>3, <1>4, <1>5, <1>6, <1>7, <1>8 DEF Next

\* The type invariant: the widget flags, the counters and the errors of the
\* handler stay in their ranges whatever the application calls.
THEOREM TypeCorrect == Spec => []TypeOK
  BY InitTypeOK, NextTypeOK, PTL DEF Spec

-----------------------------------------------------------------------------
\* The picture a repaint would draw depends on the database and on the
\* visibility of the widgets, and on nothing else.
LEMMA PictureDependsOn == UNCHANGED <<ddh, visible>> => Picture' = Picture
  BY DEF Picture, Drawn, Reached, HasTexture

\* Usability depends on the database and on the connection to the frame.
LEMMA UsableDependsOn == UNCHANGED <<ddh, attached>> => Usable' = Usable
  BY DEF Usable, Rejected, SetUp, PanelAccepted

\* An operation that touches none of the variables of CleanMeansCurrent keeps it.
LEMMA CleanMeansCurrentFrame ==
  CleanMeansCurrent /\ UNCHANGED <<ddh, attached, visible, invalidated, screen>>
    => CleanMeansCurrent'
  BY PictureDependsOn, UsableDependsOn DEF CleanMeansCurrent, IsInvalidated

\* Setting the visibility of any widgets keeps the screen current or
\* invalidates a widget.
LEMMA SetVisibilityCleanMeansCurrent ==
  ASSUME TypeOK, CleanMeansCurrent, NEW new, SetVisibility(new)
  PROVE  CleanMeansCurrent'
<1>1. CASE \E w \in Widgets : visible'[w] # visible[w]
  BY <1>1 DEF SetVisibility, CleanMeansCurrent, IsInvalidated
<1>2. CASE \A w \in Widgets : visible'[w] = visible[w]
  <2>1. visible' = visible
    BY <1>2 DEF SetVisibility, TypeOK
  <2>2. invalidated' = invalidated
    BY <2>1 DEF SetVisibility, TypeOK
  <2>3. QED
    BY <2>1, <2>2, CleanMeansCurrentFrame DEF SetVisibility
<1>3. QED
  BY <1>1, <1>2

\* Every operation keeps the screen current whenever no widget is invalidated.
LEMMA NextCleanMeansCurrent ==
  TypeOK /\ CleanMeansCurrent /\ [Next]_vars => CleanMeansCurrent'
<1> SUFFICES ASSUME TypeOK, CleanMeansCurrent, [Next]_vars
             PROVE  CleanMeansCurrent'
  OBVIOUS
<1>1. CASE ~attached /\ Start
  <2>1. CASE hmiFrame
    <3>1. invalidated'[Frame]
      BY <1>1, <2>1, TreeFacts DEF Start, TypeOK
    <3>2. QED
      BY <3>1, TreeFacts DEF CleanMeansCurrent, IsInvalidated
  <2>2. CASE ~hmiFrame
    BY <1>1, <2>2 DEF Start, CleanMeansCurrent, Usable
  <2>3. QED
    BY <2>1, <2>2
<1>2. ASSUME NEW w \in Containers \cup Fields, NEW v \in BOOLEAN, SetVisible(w, v)
      PROVE  CleanMeansCurrent'
  BY <1>2, SetVisibilityCleanMeansCurrent DEF SetVisible
<1>3. ASSUME NEW r \in ReferenceFields, ClearVerificationErrors(r)
      PROVE  CleanMeansCurrent'
  BY <1>3, CleanMeansCurrentFrame DEF ClearVerificationErrors
<1>4. CASE Usable /\ Repaint
  BY <1>4, PictureDependsOn DEF Repaint, CleanMeansCurrent
<1>5. CASE Usable /\ SkipFrame
  BY <1>5, CleanMeansCurrentFrame DEF SkipFrame, vars
<1>6. ASSUME NEW matching \in SUBSET ReferenceFields, Usable /\ Verify(matching)
      PROVE  CleanMeansCurrent'
  BY <1>6, CleanMeansCurrentFrame DEF Verify
<1>7. CASE GetError
  BY <1>7, CleanMeansCurrentFrame DEF GetError
<1>8. CASE UNCHANGED vars
  BY <1>8, CleanMeansCurrentFrame DEF vars
<1>9. QED
  BY <1>1, <1>2, <1>3, <1>4, <1>5, <1>6, <1>7, <1>8 DEF Next

\* A frame is skipped only when the screen already shows what a repaint would
\* draw: no widget tree, database or order of calls leaves a stale picture on
\* the screen behind clean invalidation flags.
THEOREM ScreenNeverStale == Spec => []CleanMeansCurrent
<1>1. Init => CleanMeansCurrent
  BY DEF Init, CleanMeansCurrent, Usable
<1>2. QED
  BY <1>1, NextCleanMeansCurrent, TypeCorrect, PTL DEF Spec

-----------------------------------------------------------------------------
\* What a repaint would meet depends on the database and the visibility.
MissingDrawn == \E f \in BitmapFields : Drawn(f) /\ ~HasTexture(f)

\* An operation that keeps a canvas error and touches neither the flags nor the
\* tree keeps CleanMeansReported.
LEMMA CleanMeansReportedFrame ==
  CleanMeansReported /\ UNCHANGED <<ddh, attached, visible, invalidated>>
      /\ (canvasError = NoTexture => canvasError' = NoTexture)
    => CleanMeansReported'
  BY UsableDependsOn DEF CleanMeansReported, IsInvalidated, Drawn, Reached, HasTexture

\* A change of any visibility invalidates a widget.
LEMMA SetVisibilityCleanMeansReported ==
  ASSUME TypeOK, CleanMeansReported, NEW new, SetVisibility(new)
  PROVE  CleanMeansReported'
<1>1. CASE \E w \in Widgets : visible'[w] # visible[w]
  BY <1>1 DEF SetVisibility, CleanMeansReported, IsInvalidated
<1>2. CASE \A w \in Widgets : visible'[w] = visible[w]
  <2>1. visible' = visible /\ invalidated' = invalidated
    BY <1>2 DEF SetVisibility, TypeOK
  <2>2. QED
    BY <2>1, CleanMeansReportedFrame DEF SetVisibility
<1>3. QED
  BY <1>1, <1>2

\* A repaint records the missing textures it meets.
LEMMA RepaintCleanMeansReported == CleanMeansReported /\ Repaint => CleanMeansReported'
<1> SUFFICES ASSUME CleanMeansReported, Repaint PROVE CleanMeansReported'
  OBVIOUS
<1>1. MissingDrawn' = MissingDrawn
  BY DEF Repaint, MissingDrawn, Drawn, Reached, HasTexture
<1>2. MissingDrawn => canvasError' = NoTexture
  BY DEF Repaint, MissingDrawn
<1>3. QED
  BY <1>1, <1>2 DEF CleanMeansReported, MissingDrawn

LEMMA NextCleanMeansReported ==
  TypeOK /\ CleanMeansReported /\ [Next]_vars => CleanMeansReported'
<1> SUFFICES ASSUME TypeOK, CleanMeansReported, [Next]_vars
             PROVE  CleanMeansReported'
  OBVIOUS
<1>1. CASE ~attached /\ Start
  <2>1. CASE hmiFrame
    BY <1>1, <2>1, TreeFacts DEF Start, TypeOK, CleanMeansReported, IsInvalidated
  <2>2. CASE ~hmiFrame
    BY <1>1, <2>2 DEF Start, CleanMeansReported, Usable
  <2>3. QED
    BY <2>1, <2>2
<1>2. ASSUME NEW w \in Containers \cup Fields, NEW v \in BOOLEAN, SetVisible(w, v)
      PROVE  CleanMeansReported'
  BY <1>2, SetVisibilityCleanMeansReported DEF SetVisible
<1>3. ASSUME NEW r \in ReferenceFields, ClearVerificationErrors(r)
      PROVE  CleanMeansReported'
  BY <1>3, CleanMeansReportedFrame DEF ClearVerificationErrors
<1>4. CASE Usable /\ Repaint
  BY <1>4, RepaintCleanMeansReported
<1>5. CASE Usable /\ SkipFrame
  BY <1>5, CleanMeansReportedFrame DEF SkipFrame, vars
<1>6. ASSUME NEW matching \in SUBSET ReferenceFields, Usable /\ Verify(matching)
      PROVE  CleanMeansReported'
  BY <1>6, CleanMeansReportedFrame DEF Verify
<1>7. CASE GetError
  BY <1>7, CleanMeansReportedFrame DEF GetError
<1>8. CASE UNCHANGED vars
  BY <1>8, CleanMeansReportedFrame DEF vars
<1>9. QED
  BY <1>1, <1>2, <1>3, <1>4, <1>5, <1>6, <1>7, <1>8 DEF Next

\* A skipped frame never hides a missing texture.
THEOREM SkippedFramesHideNothing == Spec => []CleanMeansReported
<1>1. Init => CleanMeansReported
  BY DEF Init, CleanMeansReported, Usable
<1>2. QED
  BY <1>1, NextCleanMeansReported, TypeCorrect, PTL DEF Spec

-----------------------------------------------------------------------------
\* The numbers of the error codes, for the provers.
LEMMA ErrorsAreNat ==
  /\ TypeOK => canvasError \in Nat /\ windowError \in Nat /\ handlerError \in Nat
  /\ {NoError, NoTexture, DbInconsistent, DbError} \subseteq Nat
  BY DEF TypeOK, NoError, NoTexture, DbInconsistent, DbError

LEMMA InitNoCanvasErrorLost == Init => NoCanvasErrorLost
  BY ErrorsAreNat DEF Init, NoCanvasErrorLost

LEMMA NextNoCanvasErrorLost ==
  TypeOK /\ NoCanvasErrorLost /\ [Next]_vars => NoCanvasErrorLost'
<1> SUFFICES ASSUME TypeOK, NoCanvasErrorLost, [Next]_vars
             PROVE  NoCanvasErrorLost'
  OBVIOUS
<1>1. TypeOK'
  BY NextTypeOK
<1>2. canvasError' \in Nat /\ windowError \in Nat
  BY <1>1, ErrorsAreNat DEF TypeOK
<1>3. CASE windowError' = Worse(windowError, canvasError')
  BY <1>2, <1>3, WorseIsUpperBound DEF NoCanvasErrorLost
<1>4. CASE UNCHANGED <<canvasError, windowError>>
  BY <1>4 DEF NoCanvasErrorLost
<1>5. windowError' = Worse(windowError, canvasError')
        \/ UNCHANGED <<canvasError, windowError>>
  BY DEF Next, vars, Start, SetVisible, SetVisibility, ClearVerificationErrors, Repaint,
         SkipFrame, Verify, GetError
<1>6. QED
  BY <1>3, <1>4, <1>5

\* A texture error of the canvas is never lost on its way to the window.
THEOREM CanvasErrorsReachWindow == Spec => []NoCanvasErrorLost
  BY InitNoCanvasErrorLost, NextNoCanvasErrorLost, TypeCorrect, PTL DEF Spec

-----------------------------------------------------------------------------
\* After a repaint only widgets below a hidden container are still invalidated.
THEOREM RepaintsSettle == Spec => RepaintSettles
<1>1. Settling
  BY DEF Settling, Repaint, Reached
<1>2. QED
  BY <1>1, PTL DEF Spec, RepaintSettles

\* For every maximum of the counter and every order of calls, verification
\* errors are forgotten only by a verification of an invisible field or by an
\* explicit clear.
THEOREM ErrorsAreNotForgotten == Spec => ErrorsOnlyCleared
<1>1. TypeOK /\ [Next]_vars => Forgetting
  <2> SUFFICES ASSUME TypeOK, [Next]_vars, NEW r \in ReferenceFields,
                      errors'[r] < errors[r]
               PROVE  errors'[r] = 0 /\ (~visible[r] \/ ClearVerificationErrors(r))
    BY DEF Forgetting
  <2>1. errors \in [ReferenceFields -> 0..MaxErrors] /\ errors[r] \in Nat
    BY TreeAssumption DEF TypeOK
  <2>2. errors' # errors
    BY <2>1
  <2>3. ASSUME NEW s \in ReferenceFields, ClearVerificationErrors(s)
        PROVE  errors'[r] = 0 /\ (~visible[r] \/ ClearVerificationErrors(r))
    <3>1. r = s
      BY <2>1, <2>3 DEF ClearVerificationErrors
    <3>2. QED
      BY <2>1, <2>3, <3>1 DEF ClearVerificationErrors
  <2>4. ASSUME NEW matching \in SUBSET ReferenceFields, Verify(matching)
        PROVE  errors'[r] = 0 /\ ~visible[r]
    BY <2>1, <2>4 DEF Verify, CountedErrors
  <2>5. QED
    BY <2>2, <2>3, <2>4 DEF Next, vars, Start, SetVisible, SetVisibility, Repaint, SkipFrame,
       GetError
<1>2. QED
  BY <1>1, TypeCorrect, PTL DEF Spec, ErrorsOnlyCleared
=============================================================================
