---------------------------- MODULE FrameHandler ----------------------------
(***************************************************************************)
(* The frame handler: the window, its frame, the panels and the fields,    *)
(* the conditional redraw driven by their invalidation flags, and the      *)
(* verification of the video output by the reference bitmap fields.        *)
(*                                                                         *)
(* The tree has a fixed depth (panels cannot be nested): one window, one   *)
(* frame, the panels of the frame, the fields of each panel.  A picture is *)
(* the set of bitmap fields that are on it: the positions, which no        *)
(* operation of a running engine changes, are abstracted.                  *)
(*                                                                         *)
(* The graphics layer is external: a buffer swap shows what was drawn, and *)
(* a comparison against the video output has an outcome the caller of      *)
(* Verify supplies.                                                        *)
(***************************************************************************)
EXTENDS EngineErrors

CONSTANTS
  Window, Frame,      \* the two widgets every tree has
  Panels,             \* the panels of the frame
  BitmapFields,       \* fields that draw a bitmap
  ReferenceFields,    \* fields that verify a bitmap
  PanelOf,            \* the panel of each field
  DdhVisible,         \* the visibility the database gives panels and fields
  Databases,          \* the databases the engine may be started with
  MaxErrors           \* U32_MAX: where the verification counter saturates

Fields     == BitmapFields \cup ReferenceFields
Described  == Panels \cup Fields           \* widgets the database describes
Containers == {Frame} \cup Panels         \* widgets that pass every call on to children
Widgets    == {Window, Frame} \cup Described

\* A database says of each widget what is wrong with its description.  "area",
\* "visible" and "bitmap": the attribute is missing, setup reports it.
\* "texture": setup accepts the bitmap but no texture belongs to it.
Faults == {"none", "area", "visible", "bitmap", "texture"}
\* Of a panel, what setArea and setVisible find in its description.
PanelFaults == {"none", "area", "visible"}

ASSUME TreeAssumption ==
  /\ Window # Frame
  /\ {Window, Frame} \cap Described = {}
  /\ Panels \cap Fields = {}
  /\ BitmapFields \cap ReferenceFields = {}
  /\ PanelOf \in [Fields -> Panels]
  /\ DdhVisible \in [Described -> BOOLEAN]
  /\ Databases \subseteq [Described -> Faults]
  /\ \A d \in Databases, p \in Panels : d[p] \in PanelFaults
  /\ MaxErrors \in Nat \ {0}

VARIABLES
  ddh,           \* the database: Engine::m_db
  hmiFrame,      \* IHMI::getFrame() returns a frame
  attached,      \* Window::m_pFrame is set
  visible,       \* Widget::m_isVisible
  invalidated,   \* Widget::m_isInvalidated
  screen,        \* the bitmap fields on the buffer that was swapped last
  errors,        \* ReferenceBitmapField::m_verificationErrors
  verified,      \* ReferenceBitmapField::m_verified
  canvasError,   \* Canvas::m_error
  windowError,   \* Window's Widget::m_error
  handlerError   \* FrameHandler::m_error

vars == <<ddh, hmiFrame, attached, visible, invalidated, screen, errors,
          verified, canvasError, windowError, handlerError>>

TypeOK ==
  /\ ddh \in Databases
  /\ hmiFrame \in BOOLEAN
  /\ attached \in BOOLEAN
  /\ visible \in [Widgets -> BOOLEAN]
  /\ invalidated \in [Widgets -> BOOLEAN]
  /\ screen \subseteq BitmapFields
  /\ errors \in [ReferenceFields -> 0..MaxErrors]
  /\ verified \in [ReferenceFields -> BOOLEAN]
  /\ canvasError \in {NoError, NoTexture}
  /\ windowError \in {NoError, NoTexture}
  /\ handlerError \in {NoError, NoTexture, DbInconsistent, DbError}

-----------------------------------------------------------------------------
\* The constructors: every widget starts visible and invalidated.
Init ==
  /\ ddh \in Databases
  /\ hmiFrame \in BOOLEAN
  /\ attached = FALSE
  /\ visible = [w \in Widgets |-> TRUE]
  /\ invalidated = [w \in Widgets |-> TRUE]
  /\ screen = {}
  /\ errors = [r \in ReferenceFields |-> 0]
  /\ verified = [r \in ReferenceFields |-> FALSE]
  /\ canvasError = NoError
  /\ windowError = NoError
  /\ handlerError = NoError

\* The widgets above w.
Ancestors(w) ==
  (IF w \in Fields THEN {PanelOf[w]} ELSE {})
    \cup (IF w \in Described THEN {Frame} ELSE {})
    \cup (IF w # Window THEN {Window} ELSE {})

\* Widget::draw calls onDraw, and through it the children, only when visible:
\* draw() of w is called iff everything above w is visible.
Reached(w) == \A a \in Ancestors(w) : visible[a]

\* onDraw() of w is called.
Drawn(w) == Reached(w) /\ visible[w]

\* Widget::isInvalidated of the window: it or some widget below it.
IsInvalidated == \E w \in Widgets : invalidated[w]

\* TextureCache::load finds a slot for the bitmap of field f.
HasTexture(f) == ddh[f] # "texture"

\* What a repaint draws now.
Picture == {f \in BitmapFields : Drawn(f) /\ HasTexture(f)}

\* Panel::setup stops at a panel's own faults and then skips its fields;
\* the setup of the children goes on after a child that failed.
PanelAccepted(p) == ddh[p] \notin {"area", "visible"}
SetUp(w) == w \in Fields => PanelAccepted(PanelOf[w])
Rejected(w) == SetUp(w) /\ ddh[w] \in {"area", "visible", "bitmap"}

\* Every widget has its frame and its database pointer.  Drawing or verifying
\* an unusable tree would dereference a null pointer.
Usable == attached /\ \A w \in Described : ~Rejected(w)

\* FrameHandler::start -> Window::setup -> Frame::setup -> the children's setup.
\* The visibility is taken over without invalidating the widget.
Start ==
  /\ IF hmiFrame
     THEN /\ attached' = TRUE
          /\ invalidated' = [invalidated EXCEPT ![Frame] = TRUE]
          /\ visible' = [w \in Widgets |->
               IF w \in Described /\ SetUp(w) /\ ddh[w] # "area"
               THEN DdhVisible[w] \/ ddh[w] = "visible"
               ELSE visible[w]]
          /\ handlerError' = Worse(handlerError,
               IF \E w \in Described : Rejected(w) THEN DbInconsistent ELSE NoError)
     ELSE /\ handlerError' = Worse(handlerError, DbError)
          /\ UNCHANGED <<attached, invalidated, visible>>
  /\ UNCHANGED <<ddh, hmiFrame, screen, errors, verified, canvasError, windowError>>

\* Mutant: only a widget that appears is invalidated.
SetVisibilityLazily(new) ==
  /\ visible' = [w \in Widgets |-> IF w \in DOMAIN new THEN new[w] ELSE visible[w]]
  /\ invalidated' = [w \in Widgets |-> invalidated[w] \/ (visible'[w] /\ ~visible[w])]
  /\ UNCHANGED <<ddh, hmiFrame, attached, screen, errors, verified,
                 canvasError, windowError, handlerError>>

\* Calls of Widget::setVisible(bool), one for each widget in the domain of new:
\* a widget whose visibility changes is invalidated.
SetVisibility(new) ==
  /\ visible' = [w \in Widgets |-> IF w \in DOMAIN new THEN new[w] ELSE visible[w]]
  /\ invalidated' = [w \in Widgets |-> invalidated[w] \/ visible'[w] # visible[w]]
  /\ UNCHANGED <<ddh, hmiFrame, attached, screen, errors, verified,
                 canvasError, windowError, handlerError>>

SetVisible(w, v) == SetVisibility([x \in {w} |-> v])

\* ReferenceBitmapField::clearVerificationErrors.
ClearVerificationErrors(r) ==
  /\ errors' = [errors EXCEPT ![r] = 0]
  /\ UNCHANGED <<ddh, hmiFrame, attached, visible, invalidated, screen,
                 verified, canvasError, windowError, handlerError>>

\* Mutant: a draw forgets the result of the bitmap.
RepaintSilently ==
  /\ IsInvalidated
  /\ screen' = Picture
  /\ invalidated' = [w \in Widgets |-> invalidated[w] /\ ~Reached(w)]
  /\ UNCHANGED <<ddh, hmiFrame, attached, visible, errors, verified,
                 canvasError, windowError, handlerError>>

\* Window::render, something is invalidated: clear, draw the tree, swap.
\* A widget that is reached is clean afterwards, visible or not.
Repaint ==
  /\ IsInvalidated
  /\ screen' = Picture
  /\ invalidated' = [w \in Widgets |-> invalidated[w] /\ ~Reached(w)]
  /\ canvasError' = IF \E f \in BitmapFields : Drawn(f) /\ ~HasTexture(f)
                    THEN NoTexture ELSE canvasError
  /\ windowError' = Worse(windowError, canvasError')
  /\ UNCHANGED <<ddh, hmiFrame, attached, visible, errors, verified, handlerError>>

\* Window::render, nothing is invalidated: the screen stays as it is.
SkipFrame == ~IsInvalidated /\ UNCHANGED vars

Render == Repaint \/ SkipFrame

\* ReferenceBitmapField::onVerify of r, where "matching" holds the fields whose
\* bitmap the video output shows.  An invisible field is valid.
Passes(r, matching) == ~visible[r] \/ (HasTexture(r) /\ r \in matching)

\* Mutants: the counter does not saturate; a success clears it; an invisible
\* field keeps it.
CountedUnbounded(r, matching) ==
  IF ~visible[r] THEN 0
  ELSE IF Passes(r, matching) THEN errors[r] ELSE errors[r] + 1
CountedInARow(r, matching) ==
  IF Passes(r, matching) THEN 0
  ELSE IF errors[r] = MaxErrors THEN errors[r] ELSE errors[r] + 1
CountedForever(r, matching) ==
  IF Passes(r, matching) \/ errors[r] = MaxErrors THEN errors[r] ELSE errors[r] + 1

\* The verification counter counts up to its maximum; only an invisible field
\* clears it.
CountedErrors(r, matching) ==
  IF ~visible[r] THEN 0
  ELSE IF Passes(r, matching) \/ errors[r] = MaxErrors THEN errors[r]
  ELSE errors[r] + 1

\* Window::verify: every reference field of the tree is asked, visible
\* containers or not, and a field that fails does not stop the others.
Verify(matching) ==
  /\ verified' = [r \in ReferenceFields |-> Passes(r, matching)]
  /\ errors' = [r \in ReferenceFields |-> CountedErrors(r, matching)]
  /\ canvasError' = IF \E r \in ReferenceFields : visible[r] /\ ~HasTexture(r)
                    THEN NoTexture ELSE canvasError
  /\ windowError' = Worse(windowError, canvasError')
  /\ UNCHANGED <<ddh, hmiFrame, attached, visible, invalidated, screen, handlerError>>

\* Mutant: the errors of the window are not collected.
GetErrorOfHandler ==
  /\ handlerError' = Worse(handlerError, IF attached THEN NoError ELSE DbError)
  /\ UNCHANGED <<ddh, hmiFrame, attached, visible, invalidated, screen, errors,
                 verified, canvasError, windowError>>

\* FrameHandler::getError collects the window's error; a window without a
\* frame has a database error.  The errors of the panels and fields are those
\* of their setup, which the collector already holds.
GetError ==
  /\ handlerError' = Worse(handlerError, IF attached THEN windowError ELSE DbError)
  /\ UNCHANGED <<ddh, hmiFrame, attached, visible, invalidated, screen, errors,
                 verified, canvasError, windowError>>

-----------------------------------------------------------------------------
\* Any application: it starts the handler once and then calls the operations
\* of a usable tree in any order.
Next ==
  \/ ~attached /\ Start
  \/ \E w \in Containers \cup Fields, v \in BOOLEAN : SetVisible(w, v)
  \/ \E r \in ReferenceFields : ClearVerificationErrors(r)
  \/ Usable /\ Repaint
  \/ Usable /\ SkipFrame
  \/ \E matching \in SUBSET ReferenceFields : Usable /\ Verify(matching)
  \/ GetError

Spec == Init /\ [][Next]_vars

-----------------------------------------------------------------------------
(* Safety *)

\* Skipping a frame is sound: when no widget is invalidated, the picture on the
\* screen is the one a repaint would draw.  This is what the invalidation flags
\* of Widget, kept by setVisible, draw and setup, are for.
CleanMeansCurrent == Usable /\ ~IsInvalidated => screen = Picture

\* Skipping a frame hides no missing texture either: when no widget is
\* invalidated and a repaint would meet a missing texture, an earlier one did,
\* and the canvas still holds its error.
CleanMeansReported ==
  Usable /\ ~IsInvalidated /\ (\E f \in BitmapFields : Drawn(f) /\ ~HasTexture(f))
    => canvasError = NoTexture

\* Every texture error a draw or a verification hit has reached the window, so
\* that the next getError reports it.
NoCanvasErrorLost == windowError >= canvasError

\* A repaint always settles what it can reach: only a widget below a hidden
\* container stays invalidated (and then every later render repaints again).
Settling ==
  Usable /\ Repaint =>
    \A w \in Widgets : invalidated'[w] => \E a \in Ancestors(w) : ~visible[a]

RepaintSettles == [][Settling]_vars

\* The number of verification errors is lost only on purpose: it never wraps,
\* and it goes down only to zero, by a verification of an invisible field or by
\* an explicit clear.
Forgetting ==
  \A r \in ReferenceFields :
    errors'[r] < errors[r] =>
      /\ errors'[r] = 0
      /\ ~visible[r] \/ ClearVerificationErrors(r)

ErrorsOnlyCleared == [][Forgetting]_vars
=============================================================================
