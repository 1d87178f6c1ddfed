# TLA+ models of the Safe Renderer

The Safe Renderer draws the telltales of an instrument cluster, or verifies that another
renderer has drawn them.  This directory models its control: how data become visible, how
frames are drawn or skipped, how verification errors add up and switch on the fallback, how
errors end the process, how peers connect, send and leave, how their messages are read, how bitmaps become textures
and textures pixels on each of the graphics layers, and how the memory pool guards itself.  TLC
checks the models on small instances, TLAPS proves the main results for every value of the
constants.

## 1. Inventory

One process with one thread (`src/simu/src/main.cpp`) drives everything: there are no locks
and no concurrent threads.  What is concurrent is outside: the peers that send data, the
instance whose video output is verified, and the clock.

| component | state | operations | interacts with |
|---|---|---|---|
| main loop (`simu/src/main.cpp`) | last error, position in the loop | receive, `updateHMI`, render, `getError`, verify | engine, data handler, FU bridge |
| engine (`engine/lsr`) | startup error | constructor, `render`, `verify`, `getError` | database, display manager, frame handler |
| frame handler (`engine/framehandler`) | visibility, invalidation flag and error of each widget; counter and last outcome of each reference field | `start`, `setVisible`, `render`, `verify`, `getError`, `clearVerificationErrors` | canvas, database |
| display (`engine/display`) | canvas error, texture slots | `drawBitmap`, `verify`, `loadAllTextures` | graphics layer |
| database (`engine/database`) | its error; constant descriptions | accessors, `getBitmap` | - |
| area arithmetic (`engine/database/src/Area.cpp`) | - | corners, sizes, moving, overlapping | frame handler, display |
| data handler (`simu/datahandler`), timers (`engine/common`) | value, status, time stamp of each datum | `setData`, `getNumber` | clock |
| FU bridge (`simu/src/FUBridge.cpp`) | the transmitter it answers to | `handleIncomingData`, `onMessage`, `onConnect`, `onDisconnect` | session, data handler |
| session (`ODIComSession`, `MsgTransceiverTCP`) | sockets, buffers, receivers, transceivers | listen, connect, receive, send, disconnect | FU bridge |
| messages (`simu/odi`, `simu/communication`) | position and error of a stream | read, write | FU bridge |
| pool (`engine/common`) | storage with free list and markers | `allocate`, `deallocate` | (tests only, today) |
| software renderer (`gil/src/sw`) | contexts, window with its double buffer, textures | clear, copy, compare, swap into a memory or a window of Windows | display |
| dummy (`gil/src/dummy`) | textures' check sums, blits since the clear | record, search | display, tests |
| OpenGL ES (`gil/src/gles2`, with and without the Vivante frame buffer) | EGL objects, programs, error registers, mapped display memory | set up, draw, swap, verify three pixels of a lamp | display |

What is hard, and what makes each component right:

- **Frame handler.** A frame is skipped when no widget of the tree is invalidated.  The flags
  are set by `setVisible`, cleared by `draw` *before* the visibility is looked at, and kept by
  whatever lies below a hidden panel.  Right means: a skipped frame would have looked the same
  and would have met no error that is not already known; a repaint does not leave flags
  behind that it could have cleared.
- **Verification.** The counter of a reference field counts failures, in a row or not, saturates,
  and is cleared by a verification of the invisible field.  Right means: failures are never
  forgotten by accident, and repeated ones do switch on the fallback.
- **Main loop.** Errors are raised in two phases (drawing, verifying) but asked for between
  them; the fallback is decided from the counters of the previous iteration; the startup error
  is returned once only.  Right means: the loop is never entered with an unusable tree, no error
  is lost between the phases, and the screen follows the counters.
- **Data handler.** A 32 bit clock wraps; every value is stamped anew by `FUBridge::refresh`
  while a peer is connected.  Right means: data age at their timeout and stay aged.
- **Pool.** The free list lies in memory that clients may overwrite.  Right means: a sound pool
  raises no false alarm and loses no block; a damaged one never hands out a block twice.
- **Session.** A message of one peer makes the bridge send to another from within the session's
  loop, and a send that fails closes that connection there; connections are added, closed and
  freed while a list of them is walked; addresses and descriptors come back.  Right means: no
  pointer dangles and nothing leaks, every open socket is watched, the bridge never sends to a
  peer that has left, a listener listens until the end, and receiving returns.
- **Display and graphics layers.** A bitmap is loaded when it is first needed, and nobody looks at
  what became of it; positions are sums of nested areas; pixels are copied with bounds that do
  not clip; what is verified is a buffer, and not the screen.  The engine is tested with a dummy
  that compares positions and check sums.  Right means: frames show what the database describes,
  nothing of earlier ones, a verification says what is on the screen, no write leaves a buffer, and
  the dummy answers as the renderer does.  On OpenGL ES every step of the set up may fail and is
  only logged: right means that the failure can still be heard of, and leaks nothing else.
- **Messages.** The header of a message tells its size, its type does not: it may end after any
  byte.  Fields are read without asking whether they are there, and what was read is stored
  before the error of the stream is looked at.  Right means: nothing is stored that was not
  sent, and the thread that draws does not stay with a message.

## 2. Plan

Modules in the order of their importance, each built on those before it.

1. `EngineErrors`, `FrameHandler`, `DataHandler`; `MainLoop`, which composes them;
   `TelltaleMonitor`, the abstract specification `MainLoop` implements.
2. `Pool` and the `AbstractPool` it implements.
3. `Session`: `MsgTransceiverTCP`, `ODIComSession` and the transmitter of `FUBridge` with several
   peers, and the `AbstractSession` it implements.  `Messages` with `Requests`: reading from a stream that may end early, what the FU
   bridge stores, and what it sends.
4. `Areas`; `SwRenderer` and `Win32`; `DummyGil`; `Display`, which runs the software renderer and
   the dummy on the same calls.  `Gles2`, `Vivante` and `GlesDisplay`, which does so with the two
   OpenGL ES layers.
5. The `...Proofs` modules.

All of it is here.  What could follow: the composition of `Display` with the widgets of
`FrameHandler`, which now meet in what a canvas promises: `FrameHandler` takes a picture to be the
set of its fields, `ShownAsDescribed` is what makes it one.

## 3. Modules

| module | models | how |
|---|---|---|
| `EngineErrors` | `LSREngineError.h`, `LSRErrorCollector.h` | the codes in their order; `Worse` is the collector |
| `FrameHandler` | widgets, window, fields, canvas, texture slots | one action per call an application can make; `Repaint` and `SkipFrame` are the two branches of `Window::render` |
| `DataHandler` | `DataHandler.cpp`, `Timer.h`, `FUBridge::refresh` | the clock is a counter modulo `ClockMod`; `age` is a history variable |
| `MainLoop` | `main()`, `updateHMI`, `Engine` | extends the two modules above; `pc` is the position in `main`, each action one statement |
| `TelltaleMonitor` | what the renderer promises for its telltales | abstract, no source of its own |
| `Pool` | `Pool.h`, and the faults of its fault injection tests | nodes are numbers; a walk is a function, not a loop |
| `AbstractPool` | what a pool promises | abstract |
| `Session` | `MsgTransceiverTCP.cpp`, `ODIComSession.cpp`, and of `FUBridge.cpp` what concerns its transmitter | `pc` is the position in `handleIncomingData`; one action for each turn of `HandleData`'s loop |
| `AbstractSession` | what the session promises the bridge | abstract: peers come and go one by one, and one of them is spoken to |
| `Messages` | `InputStream`, `OdiMsgHeader.cpp`, `DataResponseMessage.cpp`, `RegistrationMsgReader.cpp`, and of `FUBridge.cpp` what it does with a message | extends `DataHandler` and `Requests`; a stream is the bytes that are left and the first error |
| `Requests` | `OutputStream`, and of `FUBridge.cpp` the data requests | pure operators; a stream is the bytes written and whether writing has failed |
| `Areas` | `Area.cpp`, `Area.h` | pure operators on records of fixed point numbers |
| `SwRenderer` | `gil_sw_renderer.c`, `gil_sw_renderer_glue.c`, `gil_memory.c` | the state is one record, a call is an operator from a state to the next; memory is a function from addresses to colours |
| `Win32` | `gil_win32.c` | extends `SwRenderer`, with a window that is painted after the swap |
| `DummyGil` | `gil/src/dummy/gil.cpp` | as `SwRenderer`; a check sum is the sequence of pixels it is made from |
| `Display` | `Texture.cpp`, `TextureCache.cpp`, `Canvas.cpp`, `DisplayManager.cpp`, `WindowCanvas.cpp` | makes every call to `Win32` or `SwRenderer` and to `DummyGil` |
| `Gles2` | `gil/src/gles2/gil.c` | as `SwRenderer`; the driver has a set of faults |
| `Vivante` | `gil_imx6_vivante.c` | extends `Gles2` with the mapped display memory and what it does differently |
| `GlesDisplay` | the calls of the engine to a graphics layer | extends `Vivante`, makes every call to both layers |
| `FrameHandlerProofs`, `DataHandlerProofs`, `MainLoopProofs`, `PoolProofs`, `SessionProofs`, `MessagesProofs`, `DisplayProofs` (with those of `Areas`), `GlesProofs` | - | theorems and proofs |
| `MCFrameHandler`, `MCDataHandler`, `MCMainLoop`, `MCSession`, `MCMessages`, `MCDisplay`, `MCGles` | - | the instances TLC checks |

**Correspondence, frame handler.** `visible` and `invalidated` are `Widget::m_isVisible` and
`m_isInvalidated`.  `screen` is the set of bitmap fields on the buffer swapped last: because
positions do not change while the engine runs, a picture is that set.  `Reached(w)` says that
`draw` of `w` is called in a repaint, `Drawn(w)` that `onDraw` is.  A database is a function
that says of each widget what is wrong with its description: `setup` reports a missing area,
visibility or bitmap, while a bitmap without texture is only found when it is drawn or
verified.  `canvasError`, `windowError` and `handlerError` are the three places an error
passes on its way to `Engine::getError`.  Errors of panels and fields are those of their setup,
which the collector in the handler already holds.

**Correspondence, main loop.** `startup` stands before the constructor of the engine, `check`
before the first `getError`, `loop` at the head of the loop, the other points before the
statement they name.  `handleIncomingData` may store several values or none: `ReceiveValue`
repeats between `BeginReceive` (which refreshes, if a peer is connected) and `EndReceive`.

**Correspondence, pool.** `link` is `Node::body.next`, which lies under the client's data while
the block is allocated: `Use` writes anything into it.  `owned` is what the clients were given
and have not returned.

**Correspondence, session.** A transceiver is the address of its object.  An address that was
freed may be allocated again and a descriptor that was closed may be given again, so that the
lists, which hold addresses, and the sets, which hold descriptors, could mistake one for
another; that they do not is what the invariants say.  `outside` stands before
`handleIncomingData`, `pass` at the head of its loop, `serve` at the head of the loop of
`HandleData` and `poll` before the look at the socket that ends its turn, `check` before
`CheckDisconnected`.  `connections` is a set: the listener is the first of the list, which is
kept, and the order of the others, which no property depends on, is any.  A callback is part of
the action it happens in: `Accept` includes `OnConnect` of the session and of the bridge,
`Closing` their `OnDisconnect`, `ReceiveRegistration` the data requests the bridge sends.  Of
the header buffer the model keeps whether it holds a part of a header (`part`) and whether that
part was overwritten (`mixed`).  Of a message it keeps whether it is a registration.  The line of
`AbstractSession` has the connected transceivers for its peers and the transmitter for the one that
is spoken to; it is open while somebody listens.  `Accept` is its `Come`, `Hangup` and
`RegistrationUnanswered` are its `Go`, `Reset` is its `End`, and everything else leaves it alone, the
deletion of transceivers included.

**Correspondence, messages.** `After` is what reading a field does to the stream, `Got` what it
delivers: the field if it fits, else zero.  A message is the fields it was sent with and the
size after which it ends; sizes begin with 1, because the session closes a connection that sends
a message without payload.  `OnODI` is one action, from the header to `setData`.  The loop over the FUs
of a registration is an action for each turn, `GetNextFu`; the last turn sends the data requests,
whose bytes `requests` keeps by datum; to whom they go is in `Session` (`ReceiveRegistration`).  Time stands still here, `DataHandler` has its passing.
`intact` is a history variable: the datum is, with its type and flag, what a message sent for it.

**Correspondence, display.** `swCache` and `dmCache` are `TextureCache::m_textures`, once for each
graphics layer, because their textures differ.  `sw` is everything the software renderer
keeps: its contexts, the window with the double buffer, the textures, and the screen that the
swap copies to.  `FieldArea` is the sum of the areas of the window, the frame, the panel and the
field, as the constructors and `WidgetChildren::draw` form it.  An action is one call of the
engine: `DrawBitmap` is `Canvas::drawBitmap` with the loading, binding and drawing below it.
`todo` is what is left of a phase: the bitmaps to load, or the positions, in the order of drawing or in
that of the reference fields, of the fields to draw or to verify.
`asserted` says that `pilAssert` was called; whether that returns is up to the platform (`pil`).
`wild` says that something was written behind the end of a buffer.  On Windows the swap marks the
window (`painted`), `HandleWindowEvents` paints it, and the user may uncover it at any time.

**Correspondence, OpenGL ES.** `es` is the state of `gil.c`, `viv` of `gil_imx6_vivante.c`: the EGL
objects, what is current, the programs and the shaders that were not deleted, the error
registers of EGL and GL, the texture bound, the back buffer and two pages of display memory.
A driver has `faults`: steps of the set up that fail, or things it lacks, such as contexts without
a surface, textures of any size or a display memory that does not pan; `refused` are the steps
of making a program it does not take.  `log` is the error that was logged last.  Neither file can
be linked with the engine of this commit (`gilSync` and `gilTexPixels` are missing), so that
`GlesDisplay` makes the engine's calls in the engine's order with what there is.

**External.** The clock (`pilGetMonotonicTime`), the buffer swap, the comparison with the
video output (any subset of the reference fields may match), the errors of the graphics
layer (any, at any `getError`), the peers (any values at any time; they may connect, send a part
of a message or a wrong one, pause and leave whenever a socket is looked at), and the sockets
(listening, accepting, `select` and sending may fail).

## 4. Runs

| run | module, config | checks | bounds |
|---|---|---|---|
| `FrameHandler` | `MCFrameHandler`, `FrameHandler.cfg` | `CleanMeansCurrent`, `CleanMeansReported`, `ErrorsOnlyCleared` | two panels with a field each, every database with at most one faulty widget, counters saturate at 2 |
| `DataHandler` | `MCDataHandler`, `DataHandler.cfg` | `ElapsedIsAge`, `AgesOnTime`, `StaysAgedOut` | one datum with timeout 2, one without, a foreign id, a clock of 4 values, ages up to 6 |
| `MainLoop` | `MCMainLoop`, `MainLoop.cfg` | `LoopTypeOK`, `LoopNeedsSoundStart`, `ScreenFollowsErrors`, `MissingDataIsVerified`, `DrawErrorsAreSeen`, `ImplementsMonitor`, `FailuresSurface`, `FallbackWithdrawn`, `MissingTextureEndsLoop` | with fairness; the sample HMI, limits 2 and 1 for 10 and 5, counters saturate at 4, a sound database and four faulty ones |
| `BreakFlags` | `MCMainLoop`, `BreakFlags.cfg` | `BreakFollowsItsFlags`, **violated** | all three data are received |
| `Session` | `MCSession`, `Session.cfg` | `SessionTypeOK`, `NoDangling`, `ImplementsLine`, `WatchesOpenSockets`, `ReceivingEnds`, `DisconnectedAreFreed`, `ReadableAreServed` | with fairness; a listener and up to two connections, three addresses and three descriptors |
| `SessionHeader` | `MCSession`, `SessionHeader.cfg` | `HeadersAreThePeers`, **violated** | two connections |
| `Messages` | `MCMessages`, `Messages.cfg` | `MessagesTypeOK`, `NonzeroWasSent`, `RegistrationEnds` | two data of one FU, messages of 1 to 12 bytes that end anywhere |
| `MessagesCut` | `MCMessages`, `MessagesCut.cfg` | `ValidWasSent`, **violated** | as above |
| `Pool` | `Pool`, `Pool.cfg` | `SoundPoolWorks`, `HeadIsUnowned`, `ImplementsPool` | three nodes, one damage |
| `Display` | `MCDisplay`, `Display.cfg` | `DisplayTypeOK`, `ShownAsDescribed`, `VerifiedIsOnScreen`, `DoubleAgrees`, `SlotsKeepTheirImage`, `UnloadedEndsProcess`, `WritesStayInside` | six bitmaps, ten fields of which a frame shows up to two, a window of 3 by 2 pixels on a memory of 4 by 3 or on Windows, four textures in the software renderer, six in the dummy, which notes up to 255 drawings |
| `Gles` | `MCGles`, `Gles.cfg` | `GlesTypeOK`, `SetupFailureShows`, `VerdictTells`, `LeaksOnlyOnFailure`, `GlErrorsAreTold` | one lamp, two images, two textures, drivers with each single fault, each step refused for one of the programs, and five pairs of faults |

The type invariants `TypeOK` of `FrameHandler` and `DataTypeOK` are parts of `LoopTypeOK`; that
of `Pool`, `NoCanvasErrorLost`, `RepaintSettles`, `ListenerStays`, `TransmitterConnected`,
`NewcomersAreUnread`, `NobodyWithoutListener`, `StaysWithoutListener`, `RegistrationAdvances`,
`BreakIsVerified`, `RequestsAreWhole`, `DummyStaysDefined`, `AllLoaded` and `VerdictsAreOwn` have no run, being proved.

**Why the bounds are enough.** Widgets influence each other only through their ancestors, so
that a panel with a drawn field and one with a verified field show every combination of a
hidden container and a changing child; two faults of one database are met independently,
except that a faulty panel keeps its fields from being set up, and this a single fault shows.
The limits of the telltales only matter relative to each other and to the maximum of the
counter; both are smaller than it, and the counters reach it.  The clock of four values wraps
within the life of a value and, with ages up to six, after it.  In `MainLoop.cfg` only the
airbag's datum is sent, because `updateHMI` reads no other (that is the finding of
`BreakFlags`, where all are).  In the session two connections are
enough to have one that is served and another that a message of the first closes or writes to;
with three addresses and descriptors both are used up, so that every new connection takes an
address and a descriptor that were in use before.  A full
response has 11 bytes, so that messages of up to 12 end in every field, between any two and after
the last; one datum has the ids and the type a response that ends before them is read with, the
other has not.  Three nodes are the fewest with a free list that has a middle;
the run also passes with two damages (440,000 states).  Of the bitmaps three have the format of one
of the screens, one that of the other, and two cannot be converted; one is wider than 16 bits, and
with four textures to be had all are loaded that can be.  The fields lie apart, next to each
other, on top of each other, at a negative offset, over the edge of the window, and one has no
bitmap: two at a time show each of these pairs, and frames follow each other in any order.  On
OpenGL ES one place is enough, because no call relates two; the pairs of faults are those of which
one hides the other.  Every invariant and action property of the passing runs is proved for every
value of the constants (section 6).

**Fairness.** `FairSpec` assumes that the thread goes on: every step of the loop is taken when
it can be, because no call blocks (receiving has a timeout of 30 ms), and the loop is left
after a critical error.  Nothing is assumed of the peers, of the window, or of the data; the
window need not ever be closed.  `ReceiveValue` may in the model repeat for ever; weak fairness of `EndReceive`
(a part of `Step`) ends it, as `handleIncomingData` does unless a peer never pauses.  `CallingSpec`
says that the thread goes on and calls `handleIncomingData` again, and assumes nothing of the
peers: the session's time limit is never set (`m_timeout` is 0, by default and for good), so that
one peer which always has more to send keeps `HandleData` from returning, and with it starves the
other connections and the frames.  The liveness properties of `Session` except just this,
`NeverPauses`, HandleData of one connection that goes on for ever; they show that nothing else
starves anyone.  Without the exception TLC finds them violated.  `MainLoop` assumes that the exception does not arise.

`ReadingSpec` says that the thread goes on with its loop over
the FUs of a registration.

`Display` and `GlesDisplay` promise nothing that must eventually happen: their calls are made by
the main loop, whose fairness is in `MainLoop`.

**Deadlock** is checked in every run but two; `Ended` is the process that has returned from `main`,
`Over` the session that was reset.  In `Display` a process that `pilAssert` has aborted stops, in
`GlesDisplay` one that has called `gilUninit`.

## 5. Findings

- `BreakFlags`: `updateHMI` reads the airbag's datum three times (`main.cpp:282-284`).  The
  break telltale is then `on \/ ~off` of one value, which is always true: its reference is
  verified as long as the process runs, whatever its two flags say, although the HMI says that
  it is "controlled by 2 redundant flags" (`Telltales.cpp:74`).  The model reads the data as
  the code does (`ReadsAs`).  `BreakIsAlwaysVerified` proves it for every tree, limit and data.
- `MessagesCut`: a data response that ends before its flag or its value is stored as a *valid*
  zero, because a flag that is missing is read as false (`InputStream.cpp:74`), although a
  response starts out as invalid, and because `onODIDynamicData` stores before `onODI` looks at
  the error of the stream (`FUBridge.cpp:155`).  `NonzeroWasSent` is what does hold: it may switch
  a telltale off, not on.  `ValidWasAlwaysSent` proves that nothing but such a message can do it: when
  every data response is whole (`WholeSpec`), every valid datum was sent.
- `SessionHeader`: `transmitMessage` builds its header in `m_headerBuffer`, where
  `ReceiveHeader` collects the bytes of the header that is arriving.  Two peers are connected, a
  part of a header of the second has arrived, the first one registers: the data requests go to
  the second and overwrite that part.  The rest of its header is then put behind it, and a
  message of another type or length is read.  `OnePeerIsHeard` proves that it takes two: as long as no
  two peers are connected at the same time (`OnePeer`), nothing is overwritten.

Behaviour that surprises but contradicts nothing that is written: a hidden panel with an
invalidated field makes every frame repaint; verification asks fields below hidden panels too;
a success does not lower the counter; the bridge
ignores that listening failed, and then only sleeps; when the peer that connected last leaves,
the bridge has no transmitter although others are connected; a message without payload ends
its connection; a `Listen` that fails leaves the address of its deleted transceiver on the list
of the disconnected, which matters only to an application that would listen again (`FailedListenIsSilent`); `onMessage`
of the bridge drops the errors of `onRegistration` and `onODI` and always returns success; the
number of FUs in a registration is read and not used.

Three more of this kind were found by TLC, and what was written can be read either way:

- `Timer::hasExpired` promises to return true when "timeout milliseconds (or more) have elapsed"
  (`Timer.h:54`), but an age is known only modulo 2^32 ms: after 49.7 days without data an aged
  value is valid again for the length of its timeout.  `AgesOnTime` and `StaysAgedOut` say what
  does hold, within one turn of the clock.
- The data requests that answer a registration go to the peer that connected last and not to the one
  that has registered (`FUBridge.cpp:115`; `FUBridge.cpp:181` says "For now use only one
  transmitter").
- The time `handleIncomingData` is given bounds only its `select`, not the reading of what arrives
  (`ODIComSession.h:106`, which excepts the callbacks only); the limit that would is off by default
  (`ODIComSession.h:92`), and nobody turns it on (`NeverPauses`).

In the graphics layers:

- `gil_sw_renderer.h:58` says that "several checks are applied to prevent out of boundary
  accesses", but the copy does not clip: an image that does not lie in the window is written into
  the next row or behind the buffer.  `WritesStayInside` says that this is the only way.
- The colour of a clear is ignored, and in the formats of two bytes nothing is cleared; formats of
  one byte are refused by an assertion.  `LsrImage`'s pitch is not looked at.  The swap uses the
  position of the window also as the one in its buffer, which is right because both are 0.
- `loadAllTextures` returns true whenever every bitmap has a slot, although `DisplayManager.h:55`
  says "false if at least on texture could not be loaded".
- A bitmap that cannot be converted keeps a slot without a texture.  Binding it fails `GIL_REQUIRE`
  and calls `pilAssert`, each time, and leaves the texture bound that was used before; `gilGetError`
  of the software renderer never tells of it (`gil_sw_renderer_glue.c:281`), whatever
  `Texture.cpp:72` says.  The sample's `pilAssert` prints and aborts (`pil.cpp:24`), so that the process ends
  there: `UnloadedEndsProcess`.  `pil.h` does not say that `pilAssert` does not return; on a platform
  where it does, drawing and verifying would go on with the image of another, unless all reference
  images can be loaded and find room (`LoadedAreOwn`).  The instance has both kinds of platform (`pil`).
- The dummy sees neither overlaps nor formats.  Its list of blits and the counter are not bounded.
- On Windows a swap only marks the window; it is painted when its events are handled in the next
  iteration, so that the verification after each frame speaks of one that is not yet to be seen.
  Its buffer has one fixed format, in which images of other formats are never drawn.
- `gilHandleWindowEvents` of the memory always returns true, which `gil.h` says means that the
  window was closed: `main` would leave its loop before the first frame.  Today it cannot be linked
  with the engine: only the dummy has `gilSync`.
- `main.cpp:332` copies the name of the device without a terminating zero.
- OpenGL ES: a missing display, context or window is an error after each frame.  A missing program,
  because it was refused or the context could not be made current, never is: the swap takes the
  error of GL and only logs it, frame by frame (`SetupFailureShows`); `gilCreateWindow` reads that of EGL; a
  context that could not be made is hidden by making nothing current.  Without contexts that need
  no surface no program is made, and the screen stays black.  Attributes are bound after the link,
  where it has no effect.  Textures whose size is no power of two are black on drivers that do not
  repeat them.  A failed connection to the X server ends the process.
- Vivante: three pixels of the first page are compared, whichever page is shown and whatever
  texture is bound.  Without its program an area does not cover a lamp, which then verifies.
  Without its device nothing ever verifies, and nobody is told why.  One that could be opened but
  not mapped stays open.

## 6. Proofs

All theorems are of the form `Spec => property`, or state what the operators of `Areas` promise;
they hold for every value of the constants that satisfies the named assumptions of the modules
(`TreeAssumption`, `DataAssumption`, `LoopAssumption`, `PoolAssumption`, `SessionAssumption`,
`MessagesAssumption`, `RequestsAssumption`, `DisplayAssumption`, `ScreensAssumption`,
`ImagesAssumption`, `GlesAssumption`).  TLC evaluates each of them on the instances.  They give
the constants their types, with these that say more:

- `RequestsAssumption`, `MessagesAssumption`: identifiers have 16 bits, and one buffer has room
  for a data request, as `FUBridge` declares them.
- `DisplayAssumption`: the display has a size of 16 bits, `MAX_TEXTURES` is at least the number of
  bitmaps (it is generated as that number), a graphics layer has a context to give.
- `ScreensAssumption`: the memory that is configured as the screen is as large as its lines
  say, and the window lies in it.  `gilInit` takes over the configuration without a check, so that
  this is a condition on whoever starts the process; without it the swap writes behind the
  memory.  On Windows the client area has the size of the window.
- `ImagesAssumption`: an image that can be loaded has as many pixels as its width and height say,
  which is what the database is generated with and nothing looks at.
- `GlesAssumption`: names for as many textures as the user may load; the looks of images are
  none of the things a place may show without one.

- **Frame handler** (`FrameHandlerProofs`).  `CleanMeansCurrent` and `CleanMeansReported` are
  inductive as they stand, and for a reason worth seeing: they speak of the tree as a whole, not
  of each widget.  A field whose flag is clear may well be stale, as long as some flag in the
  tree is set, because a repaint always draws everything.  Each has a lemma for the operations
  that leave visibility and screen alone, one for `SetVisibility`, one for `Repaint`.
  `NoCanvasErrorLost` needs only the types, `RepaintSettles` and `ErrorsOnlyCleared` are
  shown action by action.
- **Data handler** (`DataHandlerProofs`).  `ElapsedIsAge` is inductive with the types; `Tick`
  has the cases of a clock that wraps or not, before or after the stamp.  `AgesOnTime`
  follows from it, and `StaysAgedOut` needs it to see that an aged value grows older.
- **Main loop** (`MainLoopProofs`).  None of the loop's properties is inductive.  `LoopInv` joins
  the invariants of the frame handler (`FrameInv`) with what holds at each point of `main`:
  nothing set up before the start (`BeforeStart`), a failed start that has left its error or a
  usable tree (`StartJudged`), a usable tree with visible containers within the loop (`InLoop`),
  the visibilities `updateHMI` has set (`HmiUpdated`), and a screen with the current picture
  (`Presented`).  From it `LoopImplementsMonitor` maps each step to a step of the monitor or a
  stutter: `Startup` and `CheckStartup` are `PowerUp`, `UpdateHMI` is `Command`, `RenderFrame` is
  `Present`, `VerifyOutput` is `Check`, `Leave` is `Stop`.  `BreakIsAlwaysVerified` follows from
  `HmiUpdated`: what `updateHMI` computes for the break is true of any one datum.
- **Pool** (`PoolProofs`).  The checks of the code are too weak to be inductive: a walk of the
  right length does not say that its nodes are distinct.  `PoolInv` says that no owned node is
  marked free (which damage does not break: this gives `HeadIsUnowned`), and that in a pool
  nothing has damaged the nodes marked free are exactly those of a list without repetitions
  that starts at the head (`SoundList`).  Three lemmas show that taking the head off
  (`SoundListPop`), putting a node in front (`SoundListPush`) and a client's writes
  (`SoundListUse`) keep it, a fourth (`SoundListPasses`) that it passes the code's checks.
- **Session** (`SessionProofs`).  `SessionInv` ties the lists to the transceivers: an address
  without transceiver is idle, a transceiver is idle exactly if it is on the list of the
  disconnected (`Waiting`) and exactly if its socket is closed, and open sockets differ
  (`Connected`).  This is what makes a re-used address or descriptor harmless: nothing that is
  freed is on a list or in a set any more.  Lemmas treat the kinds of steps: those that touch
  none of it (`InvQuiet`), those that move a connection between header and data
  (`InvReceiving`), `InvAccept`, `InvClosing` (of the connection that is served, or below it of
  the transmitter), `InvCheckDisconnected` and `InvReset`.  The number of peers is not bounded,
  and need not be finite.

  `SessionImplementsLine` maps each step to one of the line or a stutter (`LineStep`).  Two things
  are not to be seen in the actions: whoever is deleted, by `CheckDisconnected`, is no peer any more and
  not the transmitter, which is `Waiting` and `TransmitterConnected`; and a connection that is closed
  below the one that is served leaves that one a peer (`LineGo`).  `ListenerKept` is why the line stays
  open.  `NewcomersAreNotRead` needs an invariant of its own, `ListenerFirst`: the listener is the first
  that a pass visits, so that nothing was closed between `select` and an `accept`, and what `select`
  found readable is still open; a descriptor that is given then is none of these.
  `FailedListenIsSilent` joins the two halves of a session without a listener, that it only sleeps and
  that nothing comes.  `OnePeerIsHeard` has the hypothesis `[]OnePeer`; the transmitter is then the peer
  that is served, which is not in the middle of a header (`NothingIsMixed`).

- **Messages** (`MessagesProofs`).  A stream with an error keeps it (`ErrorStays`), so that a
  field that was read as other than zero was read without error, and with it every field before
  (`ResponseIsMeant`): this is why a value other than zero is what was meant, and why the
  order of the fields, with the value last, matters.  `ResponseStep` carries it through
  `setData`, which refuses a response whose type is not that of the datum.  If a response has all of its
  bytes, all of its fields are what was meant (`WholeResponseIsMeant`), which gives `ValidWasAlwaysSent`.
  `RegistrationAlwaysAdvances` is the step behind the liveness that TLC checks: what is left of the
  message decreases with every turn that is not the last, for messages of any size.

  `RequestsAreWhole` is about what is written, and follows from one lemma, `RequestAsks`: a request
  written to a new stream is whole and asks for its datum.  It goes through the request field by
  field (`WroteU8`, `WroteU16`, and for each part `WroteOf`, `WroteFor`, `WroteEnd`): each write
  finds the room it needs, because the buffer has room for all of them, and leaves the bytes before
  it alone (`Begins`).

- **Areas** (in `DisplayProofs`).  Integer arithmetic by cases, on either side of the reference point.
  `OverlapIsShared` takes the greater of the two left and of the two upper ends as the unit both
  have; it needs areas that are not empty, an empty one inside of another is said to overlap it.
  `NestingFits` bounds the sum of a panel and a field whose positions have 16 bits.
- **Display, the cache** (`DisplayProofs`).  `CacheInv` adds to `SlotsKeepTheirImage` the shape of
  the state and that only slots are ever loaded.  Lemmas show that no call but creating and filling a
  texture touches the textures (`SetSurfaceKeeps` and its like), and what loading does to a slot:
  nothing, its size, or a new texture, which is the last one, with the pixels of its own bitmap.
- **Display, the pixels** (`DisplayProofs`).  `DisplayTypeOK`, `WritesStayInside`, `ShownAsDescribed` and
  `VerifiedIsOnScreen` follow from one inductive invariant, `CacheInv /\ DispInv`:
  `SwOk` says that the window, if there is one, is the whole of a double buffer of the display's size,
  and that the screen has room for it; `CachesOk` that a slot with a texture is that of an image that
  could be loaded, and has its size; `AllTried` that after the start nothing is loaded that was not
  tried, so that no field becomes usable, or ceases to be, while a picture of it stands;
  `PhaseOk` that what is left of a frame or a round are positions of its fields, and that the window is
  bound; `BufferOk` that the double buffer shows the fields before the next one, each where no later
  one covers it, and the clear elsewhere, and between frames all of them; `MirrorOk` that between
  frames a painted screen shows the double buffer; `VerdictOk` that a verdict is what the double buffer
  shows.  Without the part of a frame that is half drawn, `ShownAsDescribed` is not inductive, and
  without `MirrorOk` a verdict on the double buffer says nothing of the screen.

  Below that, a layer of lemmas says what each call of the software renderer does to the pixels.
  They rest on three facts about rows: two places of rows of the same length are the same cell only
  if they are the same place (`CellsApart`), a part of a surface that lies in its rows lies in its memory
  (`NothingOutside`), and a copy then puts at each place of the part the pixel of the source, once, and
  leaves the others (`CopiedCells`).  `ClearDoes`, `DrawDoes`, `DrawShows`, `VerifyMeans`, `SwapDoes` and
  `HandleEventsDoes` apply them; the bounds the code computes from the end of the whole surface
  (`InRow`) never skip a cell of what lies in the window (`QuadInRow`).  `DrawFieldDoes` and
  `VerifyFieldDoes` add the loading and the binding, and `OneMore` that a picture with one more field
  is the picture before it with the field on top.  Each action then has a lemma of its own.
- **Display, the dummy** (`DisplayProofs`).  `DoubleInv` is proved together with the invariants above,
  call by call: the dummy has a texture for exactly the bitmaps that could be loaded (`DmLoaded`), what it
  has noted since the clear are the fields drawn so far, in their order (`DmNotes`), its verdicts are
  what that list says (`DmVerdicts`), and after a frame the double buffer is not touched until the next
  (`FrameStays`).  `VerdictsAgree` then compares the two: what the renderer finds in the buffer was
  noted, and what was noted is in the buffer unless a field on top of it covers a part (`SomeOnTop`).
  That is not so for every database, and `DoubleAgrees` has two hypotheses.  `ImagesTellApart` asks that
  the image of a reference field has a pixel that neither the clear nor another image leaves at its
  place: an image of nothing but the colour of the clear verifies on a cleared screen although it was
  never drawn, and so does one that looks like a part of another.  It also asks for a format that a
  clear does clear, because in those of two bytes a lamp of an earlier frame still verifies, and for
  images of the same pixels to have the same shape, because a check sum does not tell it.
  `DummyHasRoom` says that the dummy has a texture for each bitmap, and room to note each field.  With it
  alone the dummy never writes behind its list (`DummyIsDefined`): what is undefined in it comes
  from a texture that could not be loaded, and from nothing else.
- **Display, the room** (`DisplayProofs`).  `LoadableAreLoaded` and `LoadedAreOwn` hold of a renderer
  with a texture for each slot (`RendererHasRoom`).  The slots that have a texture have one each, by
  `CacheInv`, so that there are at least as many slots as textures; when one more is to be loaded they are
  fewer than the slots, and the renderer is not full (`RoomForAnother`, by counting).  With `AllTried` this
  makes every bitmap that can be loaded a loaded one.  `ReferencesLoad` says of the database that the
  images of its reference fields can be loaded.
- **Display, the bitmaps that cannot be loaded** (`DisplayProofs`).  `UnloadedIsNeverUsed` needs no
  hypothesis, and only `UnloadedInv`: the property, and that nothing is drawn while textures are
  loaded.  Binding a slot without texture asserts (`BindUnloaded`), no later call of the renderer takes
  that back (`StaysAsserted`), and each action that draws or verifies then ends the process
  (`OneMoreUsed`); after the start no slot gains or loses its texture.
- **OpenGL ES** (`GlesProofs`).  A call is known by the fields it changes (`Changes`) and what it makes
  of them; the invariant `GlesInv` is built upon that.  `Consistent` and `Staged` say that what is current was
  made, and that a program that was made left no shader; `Filled` that textures are numbered as
  they were loaded; `Pictured` that the back buffer and the pages show nothing but what was asked for in
  the frame they belong to (`Kept`), and nothing at all when the driver cannot draw; `Exact` that
  on a driver without faults nothing is missing; `Device` which failure leaves what open; `Answers`
  that the answers given last are still true.  `SetupFailuresShow` adds `ToldInv`: while a frame is
  drawn, a program that is missing for what was drawn so far has left an error of GL (`Missed`),
  which nothing but the swap reads, and the swap puts into the log (`Logged`).  Each of the five properties is a consequence, or, as
  `GlErrorsAreTold`, follows from it step by step.

Six theorems have a hypothesis besides these assumptions, because without it they are false, which
TLC shows: `DummyIsFair` (`ImagesTellApart`, `DummyHasRoom`), `DummyIsDefined` (`DummyHasRoom`),
`LoadableAreLoaded` (`RendererHasRoom`), `LoadedAreOwn` (`RendererHasRoom`, `ReferencesLoad`),
`ValidWasAlwaysSent` (messages that are whole) and `OnePeerIsHeard` (one peer at a time).  The instance of
`Display.cfg` satisfies the first two (`MCImagesTellApart`).  The last two are what
is left of a property that a run shows to be violated.

Only model-checked: the liveness properties of `MainLoop`, `Session` and `Messages`, because liveness
under fairness is out of the prover's reach, and the violations, which are single behaviours.  No
invariant and no action property of a passing run is only model-checked.

## 7. What is not modelled, and why

- `setArea` of a running tree: no caller in the repository.
- A failed `malloc` of the double buffer (`gil_memory.c:99`, which is only asserted) or of the
  pixels of a window (`gil_win32.c:207`).
- Palettes: they are loaded, and the software renderer refuses to draw a bitmap that has one.  Of GPU
  drawing, the matrices and blending: what is drawn is taken to be opaque and at its place.
- The session as a client (`Connect`), unregistering, its time limit and its debug socket: no
  caller in the repository.  Real time: that a send may block for five seconds is not seen.
- The registration builder and the alive, event and indication messages: the process reads none of
  them, and of its own sending only the data requests exist (`Requests`, `Session`).  The main loop receives the result of the messages, values that reach `setData`.
- Sizes of the widgets' child arrays: static assertions in the generated HMI tie them to the
  database.
- `LongTermPtr`, a pointer stored with its complement: nothing but its test uses it.
  `NodeDataLength` computes the size of the pool's nodes when the program is compiled.
- The parsing of options and of the configuration, with `getopt_long.c`, and logging: I/O.
- That a damaged marker gets exactly the pattern "free": nothing in the pool can detect it.
- Generated accessors (`engine/database/api/gen`) and vendored code (`3rdparty`).
