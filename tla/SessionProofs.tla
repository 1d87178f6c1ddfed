---------------------------- MODULE SessionProofs ----------------------------
(***************************************************************************)
(* The safety of the session, for any number of addresses and descriptors. *)
(* The inductive invariant adds to the properties how the lists follow the *)
(* transceivers: an address without a transceiver is idle, one with a      *)
(* transceiver is idle exactly if it waits on the list of the              *)
(* disconnected, and a transceiver is idle exactly if its socket is closed.*)
(***************************************************************************)
EXTENDS Session, TLAPS

\* The list holds the transceivers that exist; the loop serves one of them.
Listed ==
  /\ connections = allocated
  /\ pc \in {"serve", "poll"} => current \in allocated

\* The disconnected are those that have become idle.
Waiting ==
  /\ \A a \in allocated : a \in disconnected <=> state[a] = "idle"
  /\ \A a \in Addresses \ allocated : state[a] = "idle"
  /\ connections # {} => disconnected \subseteq allocated

\* A transceiver has a socket of its own until it is idle.
Connected ==
  /\ \A a \in Addresses : socket[a] = NoSocket <=> state[a] = "idle"
  /\ \A a, b \in Addresses : socket[a] = socket[b] /\ socket[a] # NoSocket => a = b

\* The open sockets are watched.
Watched ==
  /\ connectedSet = Open
  /\ \A s \in connectedSet : s <= fdMax

SessionInv ==
  /\ SessionTypeOK
  /\ Listed
  /\ Waiting
  /\ Connected
  /\ Watched
  /\ TransmitterConnected

\* What the invariant is about, but for the position in the loop.
core == <<allocated, state, socket, session, transmitter>>

-----------------------------------------------------------------------------
\* The bridge starts in the invariant, whether it listens or not.
LEMMA InvInit == SessionInit => SessionInv
<1> SUFFICES ASSUME SessionInit
             PROVE  SessionInv
  OBVIOUS
<1> PICK a \in Addresses, s \in Sockets, works \in BOOLEAN : Listen(a, s, works)
  BY DEF SessionInit
<1>1. SessionTypeOK
  BY SessionAssumption
  DEF SessionInit, SessionTypeOK, Listen, TransceiverListens, NoSocket
<1>2. Listed /\ TransmitterConnected
  BY SessionAssumption
  DEF SessionInit, Listen, TransceiverListens, Listed, TransmitterConnected
<1>3. Waiting
  BY DEF Listen, TransceiverListens, Waiting
<1>4. Connected
  BY SessionAssumption DEF Listen, TransceiverListens, Connected, NoSocket
<1>5. Watched
  <2>1. CASE works
    BY <2>1, SessionAssumption
    DEF Listen, TransceiverListens, Watched, Open, NoSocket
  <2>2. CASE ~works
    BY <2>2 DEF Listen, TransceiverListens, Watched, Open, NoSocket
  <2> QED  BY <2>1, <2>2
<1> QED  BY <1>1, <1>2, <1>3, <1>4, <1>5 DEF SessionInv

\* A step that leaves transceivers, lists and transmitter alone.
LEMMA InvQuiet ==
  ASSUME SessionInv, UNCHANGED core, SessionTypeOK',
         pc' \in {"serve", "poll"} => current' \in allocated'
  PROVE  SessionInv'
BY DEF SessionInv, core, session, Listed, Waiting, Connected, Watched, Open,
       TransmitterConnected

\* A step in which the connection that is served begins to wait for something else.
LEMMA InvReceiving ==
  ASSUME SessionInv, SessionTypeOK',
         current \in Addresses, state[current] \in {"header", "data"},
         NEW x \in {"header", "data"}, state' = [state EXCEPT ![current] = x],
         UNCHANGED <<allocated, socket, session, transmitter, current>>,
         pc = "serve"
  PROVE  SessionInv'
<1> state \in [Addresses -> {"idle", "listen", "header", "data"}]
  BY DEF SessionInv, SessionTypeOK
<1> USE DEF session
<1>1. \A a \in Addresses : state'[a] = "idle" <=> state[a] = "idle"
  OBVIOUS
<1>2. Listed' /\ Watched'
  BY DEF SessionInv, Listed, Watched, Open
<1>3. Waiting' /\ Connected'
  BY <1>1 DEF SessionInv, SessionTypeOK, Waiting, Connected
<1>4. TransmitterConnected'
  BY DEF SessionInv, SessionTypeOK, TransmitterConnected
<1> QED  BY <1>2, <1>3, <1>4 DEF SessionInv

\* A connection is closed, perhaps another one than the one that is served.
LEMMA InvClosing ==
  ASSUME SessionInv, SessionTypeOK',
         NEW a \in Addresses, state[a] \in {"header", "data"},
         NEW st \in [Addresses -> {"idle", "listen", "header", "data"}],
         \A b \in Addresses :
           st[b] = state[b] \/ {st[b], state[b]} \subseteq {"header", "data"},
         NEW mix, Closing(a, st, mix),
         UNCHANGED current, pc = "serve"
  PROVE  SessionInv'
<1> USE DEF SessionInv
<1> /\ state \in [Addresses -> {"idle", "listen", "header", "data"}]
    /\ socket \in [Addresses -> Sockets \cup {NoSocket}]
    /\ allocated \subseteq Addresses
  BY DEF SessionTypeOK
<1>1. a \in allocated /\ a \notin disconnected /\ socket[a] # NoSocket
  BY DEF Waiting, Connected
<1>2. \A b \in Addresses \ {a} :
        socket'[b] = socket[b] /\ (state'[b] = "idle" <=> state[b] = "idle")
  BY DEF Closing
<1>3. socket'[a] = NoSocket /\ state'[a] = "idle"
  BY DEF Closing
<1>4. Listed'
  BY DEF Closing, Listed
<1>5. Waiting'
  BY <1>1, <1>2, <1>3 DEF Closing, Waiting, Listed
<1>6. Connected'
  BY <1>2, <1>3 DEF Connected
<1>7. Watched'
  <2>1. connectedSet' = connectedSet \ {socket[a]}
    BY <1>1 DEF Closing
  <2>2. Open' = Open \ {socket[a]}
    BY <1>1, <1>2, <1>3 DEF Open, Connected
  <2> QED  BY <2>1, <2>2 DEF Watched, Closing
<1>8. TransmitterConnected'
  <2>1. CASE transmitter = a
    BY <2>1 DEF Closing, OnDisconnect, TransmitterConnected
  <2>2. CASE transmitter # a
    <3> SUFFICES ASSUME transmitter # None
                 PROVE  transmitter \in allocated' /\ state'[transmitter] \in {"header", "data"}
      BY <2>2 DEF Closing, OnDisconnect, TransmitterConnected
    <3> QED  BY <2>2 DEF Closing, TransmitterConnected
  <2> QED  BY <2>1, <2>2
<1> QED  BY <1>4, <1>5, <1>6, <1>7, <1>8

\* A new connection is accepted.
LEMMA InvAccept == SessionInv /\ SessionTypeOK' /\ Accept => SessionInv'
<1> SUFFICES ASSUME SessionInv, SessionTypeOK', Accept
             PROVE  SessionInv'
  OBVIOUS
<1> USE DEF SessionInv
<1> PICK a \in Addresses \ allocated, s \in Sockets \ Open :
      /\ allocated' = allocated \cup {a}
      /\ state' = [state EXCEPT ![a] = "header"]
      /\ socket' = [socket EXCEPT ![a] = s]
      /\ connections' = connections \cup {a}
      /\ connectedSet' = connectedSet \cup {s}
      /\ fdMax' = Highest(s)
      /\ OnConnect(a)
  BY DEF Accept
<1> /\ state \in [Addresses -> {"idle", "listen", "header", "data"}]
    /\ socket \in [Addresses -> Sockets \cup {NoSocket}]
    /\ allocated \subseteq Addresses
    /\ fdMax \in Nat /\ s \in Nat \ {0} /\ s # NoSocket
    /\ connectedSet \subseteq Nat
  BY SessionAssumption DEF SessionTypeOK, NoSocket
<1>1. current \in allocated /\ current # a /\ UNCHANGED <<disconnected, current>>
  BY DEF Accept, Turn, Listed
<1>2. /\ state'[a] = "header" /\ socket'[a] = s
      /\ \A b \in Addresses \ {a} : state'[b] = state[b] /\ socket'[b] = socket[b]
  OBVIOUS
<1>3. socket[a] = NoSocket /\ a \notin disconnected
  BY <1>1 DEF Waiting, Connected, Listed
<1>4. Listed'
  BY <1>1 DEF Listed
<1>5. Waiting'
  BY <1>1, <1>2, <1>3 DEF Waiting, Listed
<1>6. Connected'
  BY <1>2 DEF Connected, Open
<1>7. Watched'
  <2>1. Open' = Open \cup {s}
    BY <1>2, <1>3 DEF Open
  <2>2. \A t \in connectedSet' : t <= fdMax'
    BY DEF Watched, Highest
  <2> QED  BY <2>1, <2>2 DEF Watched
<1>8. TransmitterConnected'
  BY <1>2 DEF TransmitterConnected, OnConnect
<1> QED  BY <1>4, <1>5, <1>6, <1>7, <1>8

\* Transceivers are deleted that have no socket.
LEMMA InvCheckDisconnected ==
  SessionInv /\ SessionTypeOK' /\ CheckDisconnected => SessionInv'
<1> SUFFICES ASSUME SessionInv, SessionTypeOK', CheckDisconnected
             PROVE  SessionInv'
  OBVIOUS
<1> USE DEF SessionInv
<1> DEFINE S == connections \cap disconnected
<1> /\ socket \in [Addresses -> Sockets \cup {NoSocket}]
    /\ allocated \subseteq Addresses /\ connections = allocated
    /\ fdMax \in Nat /\ connectedSet \subseteq Nat
  BY SessionAssumption DEF SessionTypeOK, Listed
<1>1. \A a \in S : state[a] = "idle" /\ socket[a] = NoSocket
  BY DEF Waiting, Connected
<1>2. /\ state' = [a \in Addresses |-> IF a \in S THEN "idle" ELSE state[a]]
      /\ socket' = [a \in Addresses |-> IF a \in S THEN NoSocket ELSE socket[a]]
      /\ allocated' = allocated \ S /\ connections' = connections \ S
      /\ disconnected' = {} /\ connectedSet' = connectedSet /\ pc' = "outside"
      /\ OnDisconnect(S)
  BY DEF CheckDisconnected, Delete
<1>3. \A a \in Addresses : socket'[a] = socket[a] /\ (state'[a] = "idle" <=> state[a] = "idle")
  BY <1>1, <1>2
<1>4. Listed'
  BY <1>2 DEF Listed
<1>5. Waiting'
  BY <1>2, <1>3 DEF Waiting
<1>6. Connected'
  BY <1>3 DEF Connected
<1>7. Watched'
  <2>1. Open' = Open
    BY <1>3 DEF Open
  <2>2. CASE disconnected = {}
    BY <1>2, <2>1, <2>2 DEF CheckDisconnected, Watched
  <2>3. CASE disconnected # {}
    <3>1. \A a \in connections \ disconnected : socket[a] <= fdMax'
      BY <2>3 DEF CheckDisconnected
    <3>2. \A s \in Open : \E a \in connections \ disconnected : s = socket[a]
      BY DEF Open, Waiting, Connected
    <3> QED  BY <1>2, <2>1, <3>1, <3>2 DEF Watched
  <2> QED  BY <2>2, <2>3
<1>8. TransmitterConnected'
  <2>1. CASE transmitter \in S
    BY <1>2, <2>1 DEF OnDisconnect, TransmitterConnected
  <2>2. CASE transmitter \notin S
    BY <1>2, <2>2 DEF OnDisconnect, TransmitterConnected
  <2> QED  BY <2>1, <2>2
<1> QED  BY <1>4, <1>5, <1>6, <1>7, <1>8

\* The session ends with nothing that is open or allocated.
LEMMA InvReset == SessionInv /\ SessionTypeOK' /\ Reset => SessionInv'
<1> SUFFICES ASSUME SessionInv, SessionTypeOK', Reset
             PROVE  SessionInv'
  OBVIOUS
<1> USE DEF SessionInv
<1>1. /\ allocated' = {} /\ connections' = {} /\ disconnected' = {}
      /\ connectedSet' = {} /\ pc' = "over"
      /\ OnDisconnect(connections)
  BY DEF Reset, Delete, Listed
<1>2. \A a \in Addresses : state'[a] = "idle" /\ socket'[a] = NoSocket
  BY DEF Reset, Delete, Listed, Waiting, Connected
<1>3. transmitter' = None
  BY <1>1 DEF OnDisconnect, TransmitterConnected, Listed
<1> QED
  BY <1>1, <1>2, <1>3
  DEF Listed, Waiting, Connected, Watched, Open, TransmitterConnected

-----------------------------------------------------------------------------
\* No step leaves the types; the connection that is served, and the transmitter,
\* are known to be transceivers.
LEMMA TypeStep == SessionInv /\ [SessionNext]_sessionVars => SessionTypeOK'
<1> SUFFICES ASSUME SessionInv, [SessionNext]_sessionVars
             PROVE  SessionTypeOK'
  OBVIOUS
<1> USE SessionAssumption
    DEF SessionInv, SessionTypeOK, transceivers, session, loop, sessionVars
<1>1. pc \in {"serve", "poll"} => current \in Addresses
  BY DEF Listed
<1>2. CASE UNCHANGED sessionVars
  BY <1>2
<1>3. CASE SelectNothing \/ Select
  BY <1>3 DEF SelectNothing, Select
<1>4. CASE VisitNext \/ EndPass
  <2>1. CASE EndPass
    BY <2>1 DEF EndPass
  <2>2. CASE VisitNext
    <3>1. PICK a \in connections \ served :
            /\ served' = served \cup {a}
            /\ IF socket[a] = NoSocket
               THEN UNCHANGED <<pc, current, readStatus>>
               ELSE pc' = "serve" /\ current' = a /\ readStatus' = (socket[a] \in readable)
      BY <2>2 DEF VisitNext
    <3>2. UNCHANGED readStatus \/ readStatus' = (socket[a] \in readable)
      BY <3>1
    <3>3. readStatus' \in BOOLEAN
      <4>1. CASE UNCHANGED readStatus
        BY <4>1
      <4>2. CASE readStatus' = (socket[a] \in readable)
        <5>1. (socket[a] \in readable) \in BOOLEAN
          OBVIOUS
        <5> QED  BY <4>2, <5>1, Zenon
      <4> QED  BY <3>2, <4>1, <4>2
    <3> QED  BY <2>2, <3>1, <3>3 DEF VisitNext
  <2> QED  BY <1>4, <2>1, <2>2
<1>5. CASE Nothing \/ AcceptFails
  BY <1>5 DEF Nothing, AcceptFails, Turn
<1>6. CASE Accept
  BY <1>6 DEF Accept, Turn, OnConnect, Highest
<1>7. CASE Hangup
  BY <1>1, <1>7 DEF Hangup, Turn, Closing, OnDisconnect
<1>8. CASE ReceivePart
  BY <1>1, <1>8 DEF ReceivePart, Turn
<1>9. CASE ReceiveHeader
  BY <1>1, <1>9 DEF ReceiveHeader, Turn
<1>10. CASE ReceiveData
  BY <1>1, <1>10 DEF ReceiveData, Turn
<1>11. CASE ReceiveRegistration
  BY <1>1, <1>11 DEF ReceiveRegistration, Turn
<1>12. CASE RegistrationUnanswered
  BY <1>1, <1>12 DEF RegistrationUnanswered, Turn, Closing, OnDisconnect
<1>13. CASE PollMore \/ PollNothing
  BY <1>13 DEF PollMore, PollNothing
<1>14. CASE CheckDisconnected
  <2> DEFINE S == connections \cap disconnected
  <2>1. \A a \in connections \ disconnected : socket[a] \in Sockets
    BY DEF Listed, Waiting, Connected
  <2>2. fdMax' \in Sockets \cup {0}
    BY <1>14, <2>1 DEF CheckDisconnected
  <2>3. /\ part' = [a \in Addresses |-> a \notin S /\ part[a]]
        /\ mixed' = [a \in Addresses |-> a \notin S /\ mixed[a]]
    BY <1>14 DEF CheckDisconnected, Delete
  <2>4. part' \in [Addresses -> BOOLEAN] /\ mixed' \in [Addresses -> BOOLEAN]
    BY <2>3
  <2> QED  BY <1>14, <2>2, <2>4 DEF CheckDisconnected, Delete, OnDisconnect
<1>15. CASE Reset
  BY <1>15 DEF Reset, Delete, OnDisconnect
<1> QED
  BY <1>2, <1>3, <1>4, <1>5, <1>6, <1>7, <1>8, <1>9, <1>10, <1>11, <1>12, <1>13,
     <1>14, <1>15
  DEF SessionNext, HandleIncomingData, HandleData, Sleep, Over

\* Every step keeps the invariant.
LEMMA InvStep == SessionInv /\ [SessionNext]_sessionVars => SessionInv'
<1> SUFFICES ASSUME SessionInv, [SessionNext]_sessionVars
             PROVE  SessionInv'
  OBVIOUS
<1>1. SessionTypeOK'
  BY TypeStep
<1>2. /\ pc \in {"serve", "poll"} => current \in Addresses /\ current \in allocated
      /\ connections \subseteq allocated
  BY DEF SessionInv, Listed, SessionTypeOK
<1> USE DEF transceivers, session
<1>3. CASE UNCHANGED sessionVars
  BY <1>1, <1>2, <1>3, InvQuiet DEF sessionVars, loop, core
<1>4. CASE SelectNothing \/ Select \/ VisitNext \/ EndPass
  BY <1>1, <1>2, <1>4, InvQuiet DEF SelectNothing, Select, VisitNext, EndPass, core
<1>5. CASE Nothing \/ AcceptFails \/ PollMore \/ PollNothing
  BY <1>1, <1>2, <1>5, InvQuiet DEF Nothing, AcceptFails, PollMore, PollNothing, Turn, core
<1>6. CASE Accept
  BY <1>1, <1>6, InvAccept
<1>7. CASE Hangup
  <2>1. state \in [Addresses -> {"idle", "listen", "header", "data"}]
    BY DEF SessionInv, SessionTypeOK
  <2>2. /\ current \in Addresses /\ state[current] \in {"header", "data"}
        /\ Closing(current, state, mixed)
        /\ UNCHANGED current /\ pc = "serve"
    BY <1>2, <1>7 DEF Hangup, Turn
  <2> QED  BY <1>1, <2>1, <2>2, InvClosing
<1>8. CASE ReceivePart
  BY <1>1, <1>2, <1>8, InvQuiet DEF ReceivePart, Turn, core
<1>9. CASE ReceiveHeader
  BY <1>1, <1>2, <1>9, InvReceiving DEF ReceiveHeader, Turn
<1>10. CASE ReceiveData
  BY <1>1, <1>2, <1>10, InvReceiving DEF ReceiveData, Turn
<1>11. CASE ReceiveRegistration
  BY <1>1, <1>2, <1>11, InvReceiving DEF ReceiveRegistration, Turn
<1>12. CASE RegistrationUnanswered
  <2> DEFINE st == [state EXCEPT ![current] = "header"]
  <2>1. state \in [Addresses -> {"idle", "listen", "header", "data"}]
    BY DEF SessionInv, SessionTypeOK
  <2>2. /\ pc = "serve" /\ current \in Addresses /\ state[current] = "data"
        /\ Closing(transmitter, st, [mixed EXCEPT ![current] = FALSE])
        /\ transmitter # None /\ UNCHANGED current
    BY <1>2, <1>12 DEF RegistrationUnanswered, Turn
  <2>3. transmitter \in Addresses /\ state[transmitter] \in {"header", "data"}
    BY <2>2 DEF SessionInv, SessionTypeOK, TransmitterConnected
  <2>4. /\ st \in [Addresses -> {"idle", "listen", "header", "data"}]
        /\ \A b \in Addresses :
             st[b] = state[b] \/ {st[b], state[b]} \subseteq {"header", "data"}
    BY <2>1, <2>2
  <2> HIDE DEF st
  <2> QED  BY <1>1, <2>2, <2>3, <2>4, InvClosing
<1>13. CASE CheckDisconnected
  BY <1>1, <1>13, InvCheckDisconnected
<1>14. CASE Reset
  BY <1>1, <1>14, InvReset
<1> QED
  BY <1>3, <1>4, <1>5, <1>6, <1>7, <1>8, <1>9, <1>10, <1>11, <1>12, <1>13, <1>14
  DEF SessionNext, HandleIncomingData, HandleData, Sleep, Over

\* The invariant holds in every reachable state.
LEMMA InvAlways == SessionSpec => []SessionInv
<1> QED  BY InvInit, InvStep, PTL DEF SessionSpec

-----------------------------------------------------------------------------
\* Every reachable state of the session is well typed.
THEOREM SessionTypeCorrect == SessionSpec => []SessionTypeOK
<1>1. SessionInv => SessionTypeOK
  BY DEF SessionInv
<1> QED  BY <1>1, InvAlways, PTL

\* The session never follows a dangling pointer and leaks no transceiver,
\* whatever connects, sends, fails and leaves.
THEOREM PointersAreValid == SessionSpec => []NoDangling
<1>1. SessionInv => NoDangling
  BY DEF SessionInv, Listed, Waiting, NoDangling
<1> QED  BY <1>1, InvAlways, PTL

\* The bridge sends only to a peer that is connected.
THEOREM TransmitterIsConnected == SessionSpec => []TransmitterConnected
<1>1. SessionInv => TransmitterConnected
  BY DEF SessionInv
<1> QED  BY <1>1, InvAlways, PTL

\* select watches exactly the open sockets, and no two transceivers share one.
THEOREM OpenSocketsAreWatched == SessionSpec => []WatchesOpenSockets
<1>1. SessionInv => WatchesOpenSockets
  BY DEF SessionInv, SessionTypeOK, Connected, Watched, WatchesOpenSockets
<1> QED  BY <1>1, InvAlways, PTL

\* A listener is neither closed nor deleted, and waits for nothing else.
LEMMA ListenerKept == SessionInv /\ [SessionNext]_sessionVars => [ListeningGoesOn]_sessionVars
<1> SUFFICES ASSUME SessionInv, [SessionNext]_sessionVars,
                    NEW a \in Addresses, state[a] = "listen", pc' # "over"
             PROVE  state'[a] = "listen"
  BY DEF ListeningGoesOn
<1> USE DEF SessionInv, transceivers
<1> state \in [Addresses -> {"idle", "listen", "header", "data"}]
  BY DEF SessionTypeOK
<1>1. pc = "serve" => current \in Addresses
  BY DEF Listed, SessionTypeOK
<1>2. CASE UNCHANGED state
  BY <1>2
<1>3. CASE Accept
  BY <1>3 DEF Accept, Waiting
<1>4. CASE Hangup
  BY <1>4 DEF Hangup, Closing
<1>5. CASE ReceiveHeader \/ ReceiveData \/ ReceiveRegistration
  BY <1>5 DEF ReceiveHeader, ReceiveData, ReceiveRegistration
<1>6. CASE RegistrationUnanswered
  <2>1. a # current /\ a # transmitter
    BY <1>6 DEF RegistrationUnanswered, TransmitterConnected
  <2> QED  BY <1>6, <2>1 DEF RegistrationUnanswered, Closing
<1>7. CASE CheckDisconnected
  <2>1. a \notin connections \cap disconnected
    BY DEF Waiting, Listed
  <2> QED  BY <1>7, <2>1 DEF CheckDisconnected, Delete
<1> QED
  BY <1>2, <1>3, <1>4, <1>5, <1>6, <1>7
  DEF SessionNext, HandleIncomingData, HandleData, Sleep, Over, SelectNothing,
      Select, VisitNext, EndPass, Nothing, AcceptFails, PollMore, PollNothing,
      ReceivePart, Reset, sessionVars

\* Once the session listens it listens until the end.
THEOREM ListeningIsKept == SessionSpec => ListenerStays
<1> QED  BY ListenerKept, InvAlways, PTL DEF SessionSpec, ListenerStays

-----------------------------------------------------------------------------
(* The listener is the first a pass visits.  Until then nothing was closed since
   select, so that what it found readable is still open; from then on nothing is
   accepted in this pass. *)
ListenerFirst ==
  /\ pc = "pass" => \/ \A l \in connections \ served : state[l] # "listen"
                    \/ readable \subseteq Open
  /\ pc \in {"serve", "poll"} => \A l \in connections \ served : state[l] # "listen"
  /\ pc = "serve" /\ state[current] = "listen" => readable \subseteq Open

LEMMA ListenerFirstStep ==
  SessionInv /\ ListenerFirst /\ [SessionNext]_sessionVars => ListenerFirst'
<1> SUFFICES ASSUME SessionInv, ListenerFirst, [SessionNext]_sessionVars
             PROVE  ListenerFirst'
  OBVIOUS
<1> USE DEF transceivers, session
<1>0. /\ state \in [Addresses -> {"idle", "listen", "header", "data"}]
      /\ pc \in {"serve", "poll"} => current \in Addresses /\ current \in allocated
      /\ connections \subseteq Addresses
  BY DEF SessionInv, SessionTypeOK, Listed
\* A turn of HandleData makes no listener.
<1>1. ASSUME Turn, UNCHANGED served, connections' \subseteq Addresses,
             \A l \in connections' : state'[l] = "listen" => l \in connections /\ state[l] = "listen"
      PROVE  ListenerFirst'
  BY <1>1 DEF ListenerFirst, Turn
<1>2. CASE UNCHANGED sessionVars
  BY <1>2 DEF ListenerFirst, sessionVars, loop, Open
<1>3. CASE SelectNothing \/ EndPass
  BY <1>3 DEF ListenerFirst, SelectNothing, EndPass
<1>4. CASE Select
  <2>1. readable' \subseteq Open'
    BY <1>4 DEF Select, SessionInv, Watched, Open
  <2> QED  BY <1>4, <2>1 DEF Select, ListenerFirst
<1>5. CASE VisitNext
  <2> PICK a \in connections \ served :
        /\ \A b \in connections \ served : state[b] = "listen" => a = b
        /\ served' = served \cup {a}
        /\ IF socket[a] = NoSocket
           THEN UNCHANGED <<pc, current, readStatus>>
           ELSE pc' = "serve" /\ current' = a /\ readStatus' = (socket[a] \in readable)
    BY <1>5 DEF VisitNext
  <2>1. /\ UNCHANGED <<connections, state, socket, readable>> /\ pc = "pass"
        /\ pc' \in {"pass", "serve"} /\ (pc' = "serve" => current' = a)
        /\ \A l \in connections' \ served' : state'[l] # "listen"
    BY <1>5 DEF VisitNext
  <2>2. pc' = "serve" /\ state[a] = "listen" => readable \subseteq Open
    BY <2>1 DEF ListenerFirst
  <2>3. Open' = Open
    BY <2>1 DEF Open
  <2> QED  BY <2>1, <2>2, <2>3 DEF ListenerFirst
<1>6. CASE Nothing \/ AcceptFails \/ ReceivePart
  BY <1>0, <1>1, <1>6 DEF Nothing, AcceptFails, ReceivePart, Turn
<1>7. CASE Accept
  <2> PICK a \in Addresses \ allocated :
        state' = [state EXCEPT ![a] = "header"] /\ connections' = connections \cup {a}
    BY <1>7 DEF Accept
  <2> QED  BY <1>0, <1>1, <1>7 DEF Accept
<1>8. CASE ReceiveHeader \/ ReceiveData \/ ReceiveRegistration
  <2>1. PICK x \in {"header", "data"} : state' = [state EXCEPT ![current] = x]
    BY <1>8 DEF ReceiveHeader, ReceiveData, ReceiveRegistration
  <2> QED
    BY <1>0, <1>1, <1>8, <2>1 DEF ReceiveHeader, ReceiveData, ReceiveRegistration, Turn
<1>9. CASE Hangup
  BY <1>0, <1>1, <1>9 DEF Hangup, Closing, Turn
<1>10. CASE RegistrationUnanswered
  <2>1. state' = [[state EXCEPT ![current] = "header"] EXCEPT ![transmitter] = "idle"]
    BY <1>10 DEF RegistrationUnanswered, Closing
  <2> QED  BY <1>0, <1>1, <1>10, <2>1 DEF RegistrationUnanswered, Closing, Turn
<1>11. CASE PollMore \/ PollNothing
  BY <1>11 DEF PollMore, PollNothing, ListenerFirst
<1>12. CASE CheckDisconnected \/ Reset
  BY <1>12 DEF CheckDisconnected, Reset, ListenerFirst
<1> QED
  BY <1>2, <1>3, <1>4, <1>5, <1>6, <1>7, <1>8, <1>9, <1>10, <1>11, <1>12
  DEF SessionNext, HandleIncomingData, HandleData, Sleep, Over

\* A connection is accepted under a descriptor that this pass did not find readable,
\* also when a descriptor was closed before and given again.
THEOREM NewcomersAreNotRead == SessionSpec => NewcomersAreUnread
<1>1. SessionInit => ListenerFirst
  BY DEF SessionInit, ListenerFirst
<1>2. SessionInv /\ ListenerFirst /\ [SessionNext]_sessionVars =>
        [\A a \in connections' \ connections : socket'[a] \notin readable]_sessionVars
  <2> SUFFICES ASSUME SessionInv, ListenerFirst, [SessionNext]_sessionVars,
                      NEW a \in connections' \ connections
               PROVE  socket'[a] \notin readable
    OBVIOUS
  <2>1. CASE Accept
    <3>1. PICK b \in Addresses \ allocated, s \in Sockets \ Open :
            socket' = [socket EXCEPT ![b] = s] /\ connections' = connections \cup {b}
      BY <2>1 DEF Accept
    <3>2. socket'[a] \notin Open
      BY <3>1 DEF SessionInv, SessionTypeOK
    <3>3. readable \subseteq Open
      BY <2>1 DEF Accept, Turn, ListenerFirst
    <3> QED  BY <3>2, <3>3
  <2>2. CASE ~Accept
    <3>1. connections' \subseteq connections
      BY <2>2
      DEF SessionNext, HandleIncomingData, HandleData, Sleep, Over, SelectNothing,
          Select, VisitNext, EndPass, Nothing, AcceptFails, Hangup, ReceivePart,
          ReceiveHeader, ReceiveData, ReceiveRegistration, RegistrationUnanswered,
          PollMore, PollNothing, CheckDisconnected, Delete, Reset, Closing, session,
          sessionVars
    <3> QED  BY <3>1
  <2> QED  BY <2>1, <2>2
<1> QED  BY <1>1, <1>2, ListenerFirstStep, InvAlways, PTL DEF SessionSpec, NewcomersAreUnread

-----------------------------------------------------------------------------
\* Without a listener nothing is ever watched, accepted, read or sent: what a Listen that
\* failed leaves on the list of the disconnected stays without a consequence.
THEOREM FailedListenIsSilent == SessionSpec => []NobodyWithoutListener /\ StaysWithoutListener
<1>1. SessionInit => NobodyWithoutListener
  BY DEF SessionInit, Listen, NobodyWithoutListener
<1>2. SessionInv /\ NobodyWithoutListener /\ [SessionNext]_sessionVars =>
        [connections = {} => connections' = {}]_sessionVars
  <2> SUFFICES ASSUME SessionInv, NobodyWithoutListener, [SessionNext]_sessionVars,
                      connections = {}
               PROVE  connections' = {}
    OBVIOUS
  <2> pc \in {"outside", "over"}
    BY DEF NobodyWithoutListener
  <2> QED
    BY DEF SessionNext, HandleIncomingData, HandleData, Sleep, Over, SelectNothing, Select,
           VisitNext, EndPass, Nothing, Accept, AcceptFails, Hangup, ReceivePart,
           ReceiveHeader, ReceiveData, ReceiveRegistration, RegistrationUnanswered, Turn,
           PollMore, PollNothing, CheckDisconnected, Reset, Delete, session, sessionVars
<1>3. SessionInv /\ NobodyWithoutListener /\ [SessionNext]_sessionVars /\ SessionInv'
        => NobodyWithoutListener'
  <2> SUFFICES ASSUME NobodyWithoutListener, [SessionNext]_sessionVars, SessionInv',
                      connections' = {}
               PROVE  pc' \in {"outside", "over"} /\ connectedSet' = {} /\ transmitter' = None
    BY DEF NobodyWithoutListener
  <2>1. connectedSet' = {} /\ transmitter' = None
    BY DEF SessionInv, Listed, Waiting, Connected, Watched, Open, TransmitterConnected
  <2>2. CASE CheckDisconnected \/ Reset
    BY <2>1, <2>2 DEF CheckDisconnected, Reset
  <2>3. CASE ~(CheckDisconnected \/ Reset)
    <3>1. connections \subseteq connections'
      BY <2>3
      DEF SessionNext, HandleIncomingData, HandleData, Sleep, Over, SelectNothing, Select,
          VisitNext, EndPass, Nothing, Accept, AcceptFails, Hangup, ReceivePart,
          ReceiveHeader, ReceiveData, ReceiveRegistration, RegistrationUnanswered, Closing,
          PollMore, PollNothing, session, sessionVars
    <3>2. pc \in {"outside", "over"} /\ connections = {}
      BY <3>1 DEF NobodyWithoutListener
    <3>3. pc' = pc
      BY <2>3, <3>2
      DEF SessionNext, HandleIncomingData, HandleData, Sleep, Over, SelectNothing, Select,
          VisitNext, EndPass, Nothing, Accept, AcceptFails, Hangup, ReceivePart,
          ReceiveHeader, ReceiveData, ReceiveRegistration, RegistrationUnanswered, Turn,
          PollMore, PollNothing, loop, sessionVars
    <3> QED  BY <2>1, <3>2, <3>3
  <2> QED  BY <2>2, <2>3
<1> QED  BY <1>1, <1>2, <1>3, InvAlways, PTL DEF SessionSpec, StaysWithoutListener

-----------------------------------------------------------------------------
\* With one peer at a time a registration is answered to the peer that sent it, so
\* that nothing is written over a part of a header.
LEMMA NothingIsMixed ==
  SessionInv /\ OnePeer /\ (\A a \in Addresses : ~mixed[a]) /\ [SessionNext]_sessionVars
    => (\A a \in Addresses : ~mixed[a])'
<1> SUFFICES ASSUME SessionInv, OnePeer, \A a \in Addresses : ~mixed[a],
                    [SessionNext]_sessionVars, NEW a \in Addresses
             PROVE  ~mixed'[a]
  OBVIOUS
<1> USE DEF transceivers
<1>0. mixed \in [Addresses -> BOOLEAN]
  BY DEF SessionInv, SessionTypeOK
<1>1. CASE UNCHANGED mixed
  BY <1>1
<1>2. CASE ReceiveRegistration
  <2>1. mixed'[a] = IF a = current THEN FALSE ELSE mixed[a] \/ (a = transmitter /\ part[a])
    BY <1>2 DEF ReceiveRegistration
  <2>2. a = transmitter => a = current
    BY <1>2, SessionAssumption
    DEF ReceiveRegistration, Turn, SessionInv, SessionTypeOK, Listed, TransmitterConnected,
        OnePeer
  <2> QED  BY <2>1, <2>2
<1>3. CASE ReceiveData
  BY <1>0, <1>3 DEF ReceiveData
<1>4. CASE Hangup \/ RegistrationUnanswered
  BY <1>0, <1>4 DEF Hangup, RegistrationUnanswered, Closing
<1>5. CASE CheckDisconnected \/ Reset
  <2>1. PICK S : mixed' = [b \in Addresses |-> b \notin S /\ mixed[b]]
    BY <1>5 DEF CheckDisconnected, Reset, Delete
  <2> QED  BY <2>1
<1> QED
  BY <1>1, <1>2, <1>3, <1>4, <1>5
  DEF SessionNext, HandleIncomingData, HandleData, Sleep, Over, SelectNothing, Select,
      VisitNext, EndPass, Nothing, Accept, AcceptFails, PollMore, PollNothing, ReceivePart,
      ReceiveHeader, sessionVars

\* As long as no two peers are connected at the same time, the header a body is received
\* for is one the peer sent.
THEOREM OnePeerIsHeard == SessionSpec /\ []OnePeer => []HeadersAreThePeers
<1>1. SessionInit => \A a \in Addresses : ~mixed[a]
  BY DEF SessionInit
<1>2. (\A a \in Addresses : ~mixed[a]) => HeadersAreThePeers
  BY DEF HeadersAreThePeers
<1> QED  BY <1>1, <1>2, NothingIsMixed, InvAlways, PTL DEF SessionSpec

-----------------------------------------------------------------------------
(* Implementation of the line *)

\* Whether anybody listens; the phase of the line depends on nothing else but pc.
Listening == \E a \in Addresses : state[a] = "listen"

\* Nothing begins to listen, and a step that is not the last ends no listening.
LEMMA ListeningStep ==
  SessionInv /\ [SessionNext]_sessionVars /\ pc' # "over" => Listening' = Listening
<1> SUFFICES ASSUME SessionInv, [SessionNext]_sessionVars, pc' # "over"
             PROVE  Listening' <=> Listening
  BY DEF Listening
<1> USE DEF transceivers
<1>0. /\ state \in [Addresses -> {"idle", "listen", "header", "data"}]
      /\ pc = "serve" => current \in Addresses
  BY DEF SessionInv, SessionTypeOK, Listed
<1>1. Listening => Listening'
  BY ListenerKept DEF ListeningGoesOn, Listening, sessionVars
<1>2. ASSUME NEW a \in Addresses, state'[a] = "listen"
      PROVE  state[a] = "listen"
  <2>1. CASE UNCHANGED state
    BY <1>2, <2>1
  <2>2. CASE Accept
    BY <1>0, <1>2, <2>2 DEF Accept
  <2>3. CASE Hangup
    BY <1>0, <1>2, <2>3 DEF Hangup, Closing
  <2>4. CASE ReceiveHeader \/ ReceiveData \/ ReceiveRegistration
    BY <1>0, <1>2, <2>4 DEF ReceiveHeader, ReceiveData, ReceiveRegistration
  <2>5. CASE RegistrationUnanswered
    <3>1. state' = [[state EXCEPT ![current] = "header"] EXCEPT ![transmitter] = "idle"]
      BY <2>5 DEF RegistrationUnanswered, Closing
    <3> QED  BY <1>0, <1>2, <3>1
  <2>6. CASE CheckDisconnected \/ Reset
    BY <1>2, <2>6 DEF CheckDisconnected, Reset, Delete
  <2> QED
    BY <2>1, <2>2, <2>3, <2>4, <2>5, <2>6
    DEF SessionNext, HandleIncomingData, HandleData, Sleep, Over, SelectNothing,
        Select, VisitNext, EndPass, Nothing, AcceptFails, PollMore, PollNothing,
        ReceivePart, sessionVars
<1> QED  BY <1>1, <1>2 DEF Listening

\* A step in which nobody comes, goes or begins to be spoken to.
LEMMA LineQuiet ==
  ASSUME SessionInv, [SessionNext]_sessionVars, pc # "over", pc' # "over",
         Talking' = Talking, transmitter' = transmitter
  PROVE  UNCHANGED Line!lineVars
BY ListeningStep DEF Line!lineVars, Listening

\* One peer's connection is closed, whatever the others wait for.
LEMMA LineGo ==
  ASSUME SessionInv, [SessionNext]_sessionVars, pc # "over", pc' # "over",
         NEW a \in Addresses, state[a] \in {"header", "data"},
         NEW st \in [Addresses -> {"idle", "listen", "header", "data"}],
         \A b \in Addresses :
           st[b] = state[b] \/ {st[b], state[b]} \subseteq {"header", "data"},
         NEW mix, Closing(a, st, mix)
  PROVE  Line!Go
<1>1. a \in Talking /\ Talking' = Talking \ {a}
  BY DEF Closing, Talking
<1>2. transmitter' = IF transmitter = a THEN None ELSE transmitter
  BY DEF Closing, OnDisconnect
<1> QED  BY <1>1, <1>2, ListeningStep DEF Line!Go, Listening

\* Every step of the session is a step of the line, or leaves it alone.
LEMMA LineStep == SessionInv /\ [SessionNext]_sessionVars => [Line!LineNext]_(Line!lineVars)
<1> SUFFICES ASSUME SessionInv, [SessionNext]_sessionVars
             PROVE  Line!LineNext \/ UNCHANGED Line!lineVars
  OBVIOUS
<1> USE DEF transceivers, session
<1>0. /\ state \in [Addresses -> {"idle", "listen", "header", "data"}]
      /\ pc = "serve" => current \in Addresses /\ current \in allocated
      /\ \A a \in Addresses \ allocated : state[a] = "idle"
  BY DEF SessionInv, SessionTypeOK, Listed, Waiting
<1>1. CASE UNCHANGED sessionVars \/ Sleep \/ Over
  BY <1>1 DEF Sleep, Over, sessionVars, Line!lineVars, Talking, loop
<1>2. CASE SelectNothing \/ Select \/ VisitNext \/ EndPass \/ PollMore \/ PollNothing
  <2>1. /\ UNCHANGED <<state, transmitter>> /\ pc # "over" /\ pc' # "over"
    BY <1>2 DEF SelectNothing, Select, VisitNext, EndPass, PollMore, PollNothing
  <2> QED  BY <2>1, LineQuiet DEF Talking
<1>3. CASE Nothing \/ AcceptFails \/ ReceivePart
  <2>1. /\ UNCHANGED <<state, transmitter>> /\ pc # "over" /\ pc' # "over"
    BY <1>3 DEF Nothing, AcceptFails, ReceivePart, Turn
  <2> QED  BY <2>1, LineQuiet DEF Talking
<1>4. CASE ReceiveHeader \/ ReceiveData \/ ReceiveRegistration
  <2>1. /\ UNCHANGED transmitter /\ pc = "serve" /\ pc' = "poll"
        /\ state[current] \in {"header", "data"}
        /\ \E x \in {"header", "data"} : state' = [state EXCEPT ![current] = x]
    BY <1>4 DEF ReceiveHeader, ReceiveData, ReceiveRegistration, Turn
  <2>2. Talking' = Talking
    BY <1>0, <2>1 DEF Talking
  <2> QED  BY <2>1, <2>2, LineQuiet
<1>5. CASE Accept
  <2>1. PICK a \in Addresses \ allocated :
          state' = [state EXCEPT ![a] = "header"] /\ transmitter' = a
    BY <1>5 DEF Accept, OnConnect
  <2>2. /\ pc = "serve" /\ pc' = "poll"
        /\ current \in Addresses /\ state[current] = "listen"
    BY <1>0, <1>5 DEF Accept, Turn
  <2>3. a \notin Talking /\ Talking' = Talking \cup {a}
    BY <1>0, <2>1 DEF Talking
  <2> QED  BY <2>1, <2>2, <2>3, ListeningStep DEF Line!LineNext, Line!Come, Listening
<1>6. CASE Hangup
  <2>1. /\ pc = "serve" /\ pc' = "poll" /\ current \in Addresses
        /\ state[current] \in {"header", "data"} /\ Closing(current, state, mixed)
    BY <1>0, <1>6 DEF Hangup, Turn
  <2> QED  BY <1>0, <2>1, LineGo DEF Line!LineNext
<1>7. CASE RegistrationUnanswered
  <2> DEFINE st == [state EXCEPT ![current] = "header"]
  <2>1. /\ pc = "serve" /\ pc' = "poll" /\ current \in Addresses
        /\ state[current] = "data" /\ transmitter # None
        /\ Closing(transmitter, st, [mixed EXCEPT ![current] = FALSE])
    BY <1>0, <1>7 DEF RegistrationUnanswered, Turn
  <2>2. transmitter \in Addresses /\ state[transmitter] \in {"header", "data"}
    BY <2>1 DEF SessionInv, SessionTypeOK, TransmitterConnected
  <2>3. /\ st \in [Addresses -> {"idle", "listen", "header", "data"}]
        /\ \A b \in Addresses :
             st[b] = state[b] \/ {st[b], state[b]} \subseteq {"header", "data"}
    BY <1>0, <2>1
  <2> HIDE DEF st
  <2> QED  BY <2>1, <2>2, <2>3, LineGo DEF Line!LineNext
<1>8. CASE CheckDisconnected
  <2> DEFINE S == connections \cap disconnected
  <2>1. \A a \in S : state[a] = "idle"
    BY DEF SessionInv, Waiting, Listed
  <2>2. /\ state' = [a \in Addresses |-> IF a \in S THEN "idle" ELSE state[a]]
        /\ transmitter' = IF transmitter \in S THEN None ELSE transmitter
        /\ pc = "check" /\ pc' = "outside"
    BY <1>8 DEF CheckDisconnected, Delete, OnDisconnect
  <2>3. Talking' = Talking
    BY <2>1, <2>2 DEF Talking
  <2>4. transmitter' = transmitter
    BY <2>1, <2>2, SessionAssumption DEF SessionInv, TransmitterConnected
  <2> QED  BY <2>2, <2>3, <2>4, LineQuiet
<1>9. CASE Reset
  <2>1. \A a \in Addresses : state'[a] = "idle"
    BY <1>0, <1>9 DEF Reset, Delete, SessionInv, Listed
  <2>2. transmitter' = None
    BY <1>9 DEF Reset, Delete, OnDisconnect, SessionInv, Listed, TransmitterConnected
  <2>3. pc = "outside" /\ pc' = "over" /\ Talking' = {}
    BY <1>9, <2>1 DEF Reset, Talking
  <2> QED  BY <2>2, <2>3 DEF Line!LineNext, Line!End
<1> QED
  BY <1>1, <1>2, <1>3, <1>4, <1>5, <1>6, <1>7, <1>8, <1>9
  DEF SessionNext, HandleIncomingData, HandleData

\* The session implements the line: peers come and go one by one, and the bridge speaks to
\* the one that connected last as long as it is connected, then to none.
THEOREM SessionImplementsLine == SessionSpec => ImplementsLine
<1>1. SessionInit => Line!LineInit
  <2> SUFFICES ASSUME SessionInit
               PROVE  Line!LineInit
    OBVIOUS
  <2>1. /\ pc = "outside" /\ transmitter = None
        /\ \A a \in Addresses : state[a] \in {"idle", "listen"}
    BY DEF SessionInit, Listen, TransceiverListens
  <2> QED  BY <2>1 DEF Line!LineInit, Talking
<1> QED  BY <1>1, LineStep, InvAlways, PTL DEF SessionSpec, ImplementsLine, Line!LineSpec
=============================================================================
