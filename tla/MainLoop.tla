------------------------------ MODULE MainLoop ------------------------------
(***************************************************************************)
(* The safe renderer's process: main() and the engine it drives.  One      *)
(* thread starts the engine and then repeats: receive data, update the     *)
(* HMI from the data, render a frame, ask for errors, verify the video     *)
(* output.  The module composes the frame handler and the data handler.    *)
(*                                                                         *)
(* None of the data has a timeout, so that the clock does not matter here. *)
(* The video output is external: another instance renders the telltales    *)
(* and each verification may match or not.                                 *)
(***************************************************************************)
EXTENDS FrameHandler, DataHandler

CONSTANTS
  Airbag, Break,           \* the telltales
  Content,                 \* the bitmap field of each telltale (ContentPanel)
  Reference,               \* its reference field (ReferencePanel)
  Limit,                   \* verification errors the fallback waits for: 10, 5
  AirbagId,                \* fu::FUTELLTALES_AIRBAG
  BreakOnId, BreakOffId,   \* fu::FUTELLTALES_BREAKON, fu::FUTELLTALES_BREAKOFF
  FedIds,                  \* the data the peers send
  GilErrors                \* errors of the graphics layer

Telltales == {Airbag, Break}

ASSUME LoopAssumption ==
  /\ Airbag # Break
  /\ Content \in [Telltales -> BitmapFields]
  /\ BitmapFields = {Content[Airbag], Content[Break]}
  /\ Content[Airbag] # Content[Break]
  /\ Reference \in [Telltales -> ReferenceFields]
  /\ ReferenceFields = {Reference[Airbag], Reference[Break]}
  /\ Reference[Airbag] # Reference[Break]
  /\ \A p \in Panels : DdhVisible[p]
  /\ Limit \in [Telltales -> 0..(MaxErrors - 1)]
  /\ {AirbagId, BreakOnId, BreakOffId} \subseteq Ids
  /\ FedIds \subseteq Ids
  /\ \A i \in Ids : Timeout[i] = 0
  /\ GilErrors \subseteq Nat \ EngineError

VARIABLES
  pc,              \* where main() is
  dbError,         \* Database::m_error
  texturesLoaded,  \* the outcome of DisplayManager::loadAllTextures
  startupError,    \* Engine::m_error
  err              \* main's err

loopVars == <<vars, dataVars, pc, dbError, texturesLoaded, startupError, err>>

Points == {"startup", "check", "loop", "receive", "update", "render", "error",
           "verify", "done"}

LoopTypeOK ==
  /\ TypeOK
  /\ DataTypeOK
  /\ pc \in Points
  /\ dbError \in {NoError, DbEmpty, DbVersionMismatch}
  /\ texturesLoaded \in BOOLEAN
  /\ startupError \in EngineError
  /\ err \in EngineError \cup GilErrors

LoopInit ==
  /\ Init
  /\ DataInit
  /\ pc = "startup"
  /\ dbError \in {NoError, DbEmpty, DbVersionMismatch}
  /\ texturesLoaded \in BOOLEAN
  /\ startupError = NoError
  /\ err = NoError

Goto(from, to) == pc = from /\ pc' = to

\* Mutant: the result of loadAllTextures is not asked for.
StartupRegardless ==
  /\ Goto("startup", "check")
  /\ IF dbError # NoError
     THEN startupError' = dbError /\ UNCHANGED vars
     ELSE Start /\ startupError' = handlerError'
  /\ UNCHANGED <<dataVars, dbError, texturesLoaded, err>>

\* Engine::Engine: the frame handler starts only with a good database and with
\* a slot for every texture.
Startup ==
  /\ Goto("startup", "check")
  /\ IF dbError # NoError
     THEN startupError' = dbError /\ UNCHANGED vars
     ELSE IF ~texturesLoaded
     THEN startupError' = DbInconsistent /\ UNCHANGED vars
     ELSE Start /\ startupError' = handlerError'
  /\ UNCHANGED <<dataVars, dbError, texturesLoaded, err>>

\* Engine::getError: the startup error once, then the permanent database
\* error, then the frame handler's error, then the graphics layer's error.
EngineGetError(gilError) ==
  IF startupError # NoError
  THEN err' = startupError /\ startupError' = NoError /\ UNCHANGED vars
  ELSE IF dbError # NoError
  THEN err' = dbError /\ UNCHANGED <<startupError, vars>>
  ELSE /\ GetError
       /\ err' = IF handlerError' # NoError THEN handlerError' ELSE gilError
       /\ UNCHANGED startupError

\* main: database errors are fatal, the loop is not entered.
CheckStartup ==
  /\ \E g \in GilErrors \cup {NoError} : EngineGetError(g)
  /\ Goto("check", IF err' = NoError THEN "loop" ELSE "done")
  /\ UNCHANGED <<dataVars, dbError, texturesLoaded>>

\* Mutant: a missing texture is not critical.
CriticalButTextures(e) == e \notin {NoError, DataNotAvailable, DataInconsistent, NoTexture}

\* isErrorCritical
Critical(e) == e \notin {NoError, DataNotAvailable, DataInconsistent}

\* The loop ends with a critical error, or when the window was closed.
Leave ==
  /\ Goto("loop", "done")
  /\ UNCHANGED <<vars, dataVars, dbError, texturesLoaded, startupError, err>>

\* FUBridge::handleIncomingData begins with a refresh while a peer is connected.
BeginReceive ==
  /\ ~Critical(err)
  /\ Goto("loop", "receive")
  /\ Refresh \/ UNCHANGED dataVars
  /\ UNCHANGED <<vars, dbError, texturesLoaded, startupError, err>>

\* The bridge stores a value it received; it may receive several in one call.
ReceiveValue ==
  /\ pc = "receive"
  /\ \E i \in FedIds, v \in Values, s \in {"VALID", "INVALID"} :
       SetData(i, TypeOfId[i], v, s)
  /\ UNCHANGED <<vars, pc, dbError, texturesLoaded, startupError, err>>

EndReceive ==
  /\ Goto("receive", "update")
  /\ UNCHANGED <<vars, dataVars, dbError, texturesLoaded, startupError, err>>

\* updateHMI reads all three values with the id of the airbag.
ReadsAs(i) == AirbagId

\* Mutant: the value of a datum is taken whatever its status.
ShowReferenceUnchecked(t) ==
  IF t = Airbag THEN value[AirbagId] # 0
  ELSE value[ReadsAs(BreakOnId)] # 0 \/ ~(value[ReadsAs(BreakOffId)] # 0)

\* The airbag's reference follows its datum, the break's its two redundant data;
\* without valid data both are verified.
ShowReference(t) ==
  IF t = Airbag
  THEN StatusOf(AirbagId) = "VALID" => value[AirbagId] # 0
  ELSE /\ StatusOf(ReadsAs(BreakOnId)) = "VALID"
       /\ StatusOf(ReadsAs(BreakOffId)) = "VALID"
       => value[ReadsAs(BreakOnId)] # 0 \/ ~(value[ReadsAs(BreakOffId)] # 0)

\* Mutant: the fallback is drawn one error early.
ShowContentEarly(t) == errors[Reference[t]] >= Limit[t]

\* The fallback is drawn once the reference has failed too often.
ShowContent(t) == errors[Reference[t]] > Limit[t]

\* updateHMI: what the data and the verification errors make visible.
NewVisibility ==
  [f \in Fields |->
     \E t \in Telltales : \/ f = Reference[t] /\ ShowReference(t)
                          \/ f = Content[t] /\ ShowContent(t)]

UpdateHMI ==
  /\ Goto("update", "render")
  /\ SetVisibility(NewVisibility)
  /\ UNCHANGED <<dataVars, dbError, texturesLoaded, startupError, err>>

RenderFrame ==
  /\ Goto("render", "error")
  /\ Usable
  /\ Render
  /\ UNCHANGED <<dataVars, dbError, texturesLoaded, startupError, err>>

\* The error of this frame decides only at the head of the loop.
ReadError ==
  /\ Goto("error", "verify")
  /\ \E g \in GilErrors \cup {NoError} : EngineGetError(g)
  /\ UNCHANGED <<dataVars, dbError, texturesLoaded>>

VerifyOutput ==
  /\ Goto("verify", "loop")
  /\ Usable
  /\ \E matching \in SUBSET ReferenceFields : Verify(matching)
  /\ UNCHANGED <<dataVars, dbError, texturesLoaded, startupError, err>>

\* The process has ended.
Ended == pc = "done" /\ UNCHANGED loopVars

Step ==
  \/ Startup
  \/ CheckStartup
  \/ BeginReceive
  \/ EndReceive
  \/ UpdateHMI
  \/ RenderFrame
  \/ ReadError
  \/ VerifyOutput

LoopNext == Step \/ Leave \/ ReceiveValue \/ Ended

LoopSpec == LoopInit /\ [][LoopNext]_loopVars

\* The thread goes on: no step of the loop blocks for ever, because the call
\* that receives has a timeout, and the loop is left after a critical error.
\* Nothing makes a peer send.
FairSpec == LoopSpec /\ WF_loopVars(Step) /\ WF_loopVars(Critical(err) /\ Leave)

-----------------------------------------------------------------------------
(* Safety *)

\* The loop is entered only with a database, a frame and a set of widgets that
\* were all set up: render and verify never follow a null pointer.
LoopNeedsSoundStart ==
  pc \in Points \ {"startup", "check", "done"} =>
    dbError = NoError /\ startupError = NoError /\ texturesLoaded /\ Usable

\* Between rendering and verification the screen shows exactly the fallbacks
\* whose verification errors are above the limit, whether or not this frame was
\* skipped by the invalidation flags.
ScreenFollowsErrors ==
  pc \in {"error", "verify"} =>
    screen = {Content[t] : t \in {u \in Telltales : ShowContent(u) /\ HasTexture(Content[u])}}

\* A telltale without valid data is verified as if it were demanded.
MissingDataIsVerified ==
  pc \in {"error", "verify"} /\ StatusOf(AirbagId) # "VALID" =>
    \A t \in Telltales : visible[Reference[t]]

\* A texture missing for a frame is known before the frame is verified, so that
\* the loop ends with this iteration.
DrawErrorsAreSeen == pc = "verify" /\ canvasError # NoError => Critical(err)

\* The comment of updateHMI ("Updates the HMI elements according to the stored
\* values in the data handler") and that of the telltale ("visibility is
\* controlled by 2 redundant flags"): consistent flags that say "off" hide it.
BreakFollowsItsFlags ==
  pc = "render" /\ StatusOf(BreakOnId) = "VALID" /\ StatusOf(BreakOffId) = "VALID"
                /\ value[BreakOnId] = 0 /\ value[BreakOffId] # 0
    => ~visible[Reference[Break]]

-----------------------------------------------------------------------------
(* Implementation of the monitor *)

Monitor == INSTANCE TelltaleMonitor WITH
  MaxFailures <- MaxErrors,
  phase <- CASE pc \in {"startup", "check"} -> "off"
             [] pc \in {"loop", "receive", "update"} -> "command"
             [] pc = "render" -> "present"
             [] pc \in {"error", "verify"} -> "check"
             [] pc = "done" -> "over",
  demanded <- {t \in Telltales : visible[Reference[t]]},
  failures <- [t \in Telltales |-> errors[Reference[t]]],
  shown <- {t \in Telltales : Content[t] \in screen},
  failed <- canvasError # NoError

ImplementsMonitor == Monitor!MonitorSpec

-----------------------------------------------------------------------------
(* Liveness *)

Showing(t) == Content[t] \in screen

\* Failed checks add up: when a telltale stays demanded and its check fails
\* again and again, successes in between or not, its fallback is shown in the
\* end and stays, or the process has ended.
FailuresSurface ==
  \A t \in Telltales :
    <>[](visible[Reference[t]]) /\ []<>(pc = "loop" /\ ~verified[Reference[t]])
      => <>[](Showing(t) \/ pc = "done")

\* A fallback is withdrawn when its telltale is no longer demanded.
FallbackWithdrawn ==
  \A t \in Telltales :
    <>[](~visible[Reference[t]]) => <>[](~Showing(t) \/ pc = "done")

\* A missing texture, found by drawing or by verifying, ends the process.
MissingTextureEndsLoop == canvasError # NoError ~> pc = "done"
=============================================================================
