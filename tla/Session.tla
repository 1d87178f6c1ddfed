------------------------------- MODULE Session -------------------------------
(***************************************************************************)
(* The TCP session of the FU bridge: the transceivers (a listener and the  *)
(* accepted connections), the lists and descriptor sets the session keeps  *)
(* about them, and the one transmitter the bridge remembers.               *)
(*                                                                         *)
(* A transceiver is the address of its object: an address that was freed   *)
(* may be given to the next one, as a descriptor that was closed may.      *)
(* Peers and the network are external: whatever is asked of a socket may   *)
(* have any outcome, and a header or a body may arrive in parts.  Of a     *)
(* header only this is kept, whether a part of it is in the header buffer, *)
(* and whether something else was written over that part.                  *)
(*                                                                         *)
(* The bridge never sets the session's time limit: HandleData goes on for  *)
(* as long as there are data to read.                                      *)
(***************************************************************************)
EXTENDS Integers

CONSTANTS
  Addresses,     \* where transceivers may be allocated
  Sockets,       \* the descriptors the system may give
  None           \* NULL

NoSocket == -1

ASSUME SessionAssumption ==
  /\ Addresses # {}
  /\ None \notin Addresses
  /\ Sockets \subseteq Nat \ {0}
  /\ Sockets # {}

VARIABLES
  allocated,     \* the addresses that hold a transceiver
  state,         \* MsgTransceiverTCP::m_state
  socket,        \* MsgTransceiverTCP::m_socket
  part,          \* m_headerBuffer holds a part of a header that is being received
  mixed,         \* something was written over that part
  connections,   \* m_connectionsList
  disconnected,  \* m_connectionsDisconnectedList
  connectedSet,  \* m_fdConnectedSet
  fdMax,         \* m_fdMax
  transmitter,   \* FUBridge::m_transmitter
  pc,            \* where handleIncomingData is
  readable,      \* what select returned
  served,        \* the connections the loop has gone past
  current,       \* the connection whose HandleData runs
  readStatus     \* whether HandleData found its socket readable

transceivers == <<allocated, state, socket, part, mixed>>
session == <<connections, disconnected, connectedSet, fdMax>>
loop == <<pc, readable, served, current, readStatus>>
sessionVars == <<transceivers, session, transmitter, loop>>

SessionTypeOK ==
  /\ allocated \subseteq Addresses
  /\ state \in [Addresses -> {"idle", "listen", "header", "data"}]
  /\ socket \in [Addresses -> Sockets \cup {NoSocket}]
  /\ part \in [Addresses -> BOOLEAN]
  /\ mixed \in [Addresses -> BOOLEAN]
  /\ connections \subseteq Addresses
  /\ disconnected \subseteq Addresses
  /\ connectedSet \subseteq Sockets
  /\ fdMax \in Sockets \cup {0}
  /\ transmitter \in Addresses \cup {None}
  /\ pc \in {"outside", "pass", "serve", "poll", "check", "over"}
  /\ readable \subseteq Sockets
  /\ served \subseteq Addresses
  /\ current \in Addresses \cup {None}
  /\ readStatus \in BOOLEAN

Open == {socket[a] : a \in Addresses} \ {NoSocket}

\* Mutant: the number of descriptors instead of the highest one.
HighestAsNumber(s) == IF s > fdMax THEN s + 1 ELSE fdMax

Highest(s) == IF s > fdMax THEN s ELSE fdMax

-----------------------------------------------------------------------------
\* The new transceiver at a listens on socket s, or is deleted again.
TransceiverListens(a, s, works) ==
  /\ allocated = {x \in {a} : works}
  /\ state = [x \in Addresses |-> IF x \in allocated THEN "listen" ELSE "idle"]
  /\ socket = [x \in Addresses |-> IF x \in allocated THEN s ELSE NoSocket]

\* When listening fails the destructor of the transceiver reports a disconnect of
\* an address that the list of the disconnected then keeps.
Listen(a, s, works) ==
  /\ TransceiverListens(a, s, works)
  /\ connections = {x \in {a} : works}
  /\ disconnected = {x \in {a} : ~works}
  /\ connectedSet = {x \in {s} : works}
  /\ fdMax = IF works THEN s ELSE 0

\* The bridge is constructed: it listens once, and whatever became of that it
\* registers itself for the messages of two types.
SessionInit ==
  /\ part = [a \in Addresses |-> FALSE]
  /\ mixed = [a \in Addresses |-> FALSE]
  /\ transmitter = None
  /\ pc = "outside"
  /\ readable = {}
  /\ served = {}
  /\ current = None
  /\ readStatus = FALSE
  /\ \E a \in Addresses, s \in Sockets, works \in BOOLEAN : Listen(a, s, works)

\* FUBridge: the peer that connected last is the one the bridge sends to.
OnConnect(a) == transmitter' = a

\* Mutant: whoever disconnects, it is not asked whether that was the transmitter.
OnDisconnectAny(S) == transmitter' = None

OnDisconnect(S) == transmitter' = IF transmitter \in S THEN None ELSE transmitter

-----------------------------------------------------------------------------
\* handleIncomingData, up to its select: without a transceiver it only sleeps.
Sleep == pc = "outside" /\ connections = {} /\ UNCHANGED sessionVars

\* select times out, or fails.
SelectNothing ==
  /\ pc = "outside" /\ connections # {}
  /\ pc' = "check"
  /\ UNCHANGED <<transceivers, session, transmitter, readable, served, current,
                 readStatus>>

Select ==
  /\ pc = "outside" /\ connections # {}
  /\ readable' \in SUBSET {s \in connectedSet : s <= fdMax} \ {{}}
  /\ served' = {}
  /\ pc' = "pass"
  /\ UNCHANGED <<transceivers, session, transmitter, current, readStatus>>

\* Mutant: the loop starts again at its first transceiver.
VisitFirst ==
  /\ pc = "pass"
  /\ \E a \in connections :
       /\ \A b \in connections : state[b] = "listen" => a = b
       /\ IF socket[a] = NoSocket
          THEN UNCHANGED <<pc, current, readStatus>>
          ELSE pc' = "serve" /\ current' = a /\ readStatus' = (socket[a] \in readable)
  /\ UNCHANGED <<transceivers, session, transmitter, readable, served>>

\* The loop of handleIncomingData goes to its next transceiver.  The listener is
\* the first of the list, the order of the others does not matter; a
\* transceiver that was added during the loop is visited, too.
VisitNext ==
  /\ pc = "pass"
  /\ \E a \in connections \ served :
       /\ \A b \in connections \ served : state[b] = "listen" => a = b
       /\ served' = served \cup {a}
       /\ IF socket[a] = NoSocket
          THEN UNCHANGED <<pc, current, readStatus>>
          ELSE pc' = "serve" /\ current' = a /\ readStatus' = (socket[a] \in readable)
  /\ UNCHANGED <<transceivers, session, transmitter, readable>>

\* Mutant: the loop is left when a connection was closed.
EndPassOnClosed ==
  /\ pc = "pass" /\ (connections \subseteq served \/ connections \cap disconnected # {})
  /\ pc' = "check"
  /\ UNCHANGED <<transceivers, session, transmitter, readable, served, current,
                 readStatus>>

EndPass ==
  /\ pc = "pass" /\ connections \subseteq served
  /\ pc' = "check"
  /\ UNCHANGED <<transceivers, session, transmitter, readable, served, current,
                 readStatus>>

-----------------------------------------------------------------------------
(* HandleData of the current transceiver, one action for each turn of its
   loop; the turn ends with a look at the socket, Poll. *)

Turn == pc = "serve" /\ pc' = "poll"

Nothing ==
  /\ Turn /\ ~readStatus
  /\ UNCHANGED <<transceivers, session, transmitter, readable, served, current,
                 readStatus>>

\* accept, and OnConnect: the bridge takes the new connection for its transmitter.
Accept ==
  /\ Turn /\ readStatus /\ state[current] = "listen"
  /\ \E a \in Addresses \ allocated, s \in Sockets \ Open :
       /\ allocated' = allocated \cup {a}
       /\ state' = [state EXCEPT ![a] = "header"]
       /\ socket' = [socket EXCEPT ![a] = s]
       /\ connections' = connections \cup {a}
       /\ connectedSet' = connectedSet \cup {s}
       /\ fdMax' = Highest(s)
       /\ OnConnect(a)
  /\ UNCHANGED <<part, mixed, disconnected, readable, served, current, readStatus>>

\* Mutant: the transceiver is freed at once, while the session still lists it.
ClosingAtOnce(a, st, mix) ==
  /\ OnDisconnect({a})
  /\ allocated' = allocated \ {a}
  /\ connectedSet' = connectedSet \ {socket[a]}
  /\ socket' = [socket EXCEPT ![a] = NoSocket]
  /\ state' = [st EXCEPT ![a] = "idle"]
  /\ part' = [part EXCEPT ![a] = FALSE]
  /\ mixed' = [mix EXCEPT ![a] = FALSE]
  /\ UNCHANGED <<connections, disconnected, fdMax>>

\* Mutant: the socket is closed before the session asks for its number.
ClosingFirst(a, st, mix) ==
  /\ OnDisconnect({a})
  /\ disconnected' = disconnected \cup {a}
  /\ socket' = [socket EXCEPT ![a] = NoSocket]
  /\ state' = [st EXCEPT ![a] = "idle"]
  /\ part' = [part EXCEPT ![a] = FALSE]
  /\ mixed' = [mix EXCEPT ![a] = FALSE]
  /\ UNCHANGED <<allocated, connections, connectedSet, fdMax>>

\* MsgTransceiverTCP::Disconnect: OnDisconnect of the session, and through it of
\* the bridge, then the socket is closed.  The other arguments are the fields as
\* the caller left them.
Closing(a, st, mix) ==
  /\ OnDisconnect({a})
  /\ disconnected' = disconnected \cup {a}
  /\ connectedSet' = IF a \in disconnected THEN connectedSet ELSE connectedSet \ {socket[a]}
  /\ socket' = [socket EXCEPT ![a] = NoSocket]
  /\ state' = [st EXCEPT ![a] = "idle"]
  /\ part' = [part EXCEPT ![a] = FALSE]
  /\ mixed' = [mix EXCEPT ![a] = FALSE]
  /\ UNCHANGED <<allocated, connections, fdMax>>

\* The connection is gone before it is accepted, or descriptors have run out.
AcceptFails ==
  /\ Turn /\ readStatus /\ state[current] = "listen"
  /\ UNCHANGED <<transceivers, session, transmitter, readable, served, current,
                 readStatus>>

\* The peer has gone, or what it sent is refused: a type nobody registered for,
\* a length that is too large, or zero.
Hangup ==
  /\ Turn /\ readStatus /\ state[current] \in {"header", "data"}
  /\ Closing(current, state, mixed)
  /\ UNCHANGED <<readable, served, current, readStatus>>

\* A part of a header arrives, of a body: more is needed.
ReceivePart ==
  /\ Turn /\ readStatus
  /\ \/ state[current] = "header" /\ part' = [part EXCEPT ![current] = TRUE]
     \/ state[current] = "data" /\ UNCHANGED part
  /\ UNCHANGED <<allocated, state, socket, mixed, session, transmitter, readable,
                 served, current, readStatus>>

\* The header is complete and accepted.
ReceiveHeader ==
  /\ Turn /\ readStatus /\ state[current] = "header"
  /\ state' = [state EXCEPT ![current] = "data"]
  /\ part' = [part EXCEPT ![current] = FALSE]
  /\ UNCHANGED <<allocated, socket, mixed, session, transmitter, readable, served,
                 current, readStatus>>

\* The body is complete: OnMessage is called, a data message changes nothing here.
ReceiveData ==
  /\ Turn /\ readStatus /\ state[current] = "data"
  /\ state' = [state EXCEPT ![current] = "header"]
  /\ mixed' = [mixed EXCEPT ![current] = FALSE]
  /\ UNCHANGED <<allocated, socket, part, session, transmitter, readable, served,
                 current, readStatus>>

\* FUBridge::onRegistration: data are requested from the transmitter, whoever
\* has registered.  transmitMessage builds its header in the buffer that the
\* transmitter also receives headers into.
ReceiveRegistration ==
  /\ Turn /\ readStatus /\ state[current] = "data"
  /\ state' = [state EXCEPT ![current] = "header"]
  /\ mixed' = [a \in Addresses |-> IF a = current THEN FALSE
                                   ELSE mixed[a] \/ (a = transmitter /\ part[a])]
  /\ UNCHANGED <<allocated, socket, part, session, transmitter, readable, served,
                 current, readStatus>>

\* A request cannot be sent: the transmitter is disconnected, in the middle of
\* the current transceiver's HandleData, and the other requests are dropped.
RegistrationUnanswered ==
  /\ Turn /\ readStatus /\ state[current] = "data" /\ transmitter # None
  /\ Closing(transmitter, [state EXCEPT ![current] = "header"],
             [mixed EXCEPT ![current] = FALSE])
  /\ UNCHANGED <<readable, served, current, readStatus>>

\* More data can be read: HandleData goes on.
PollMore ==
  /\ pc = "poll" /\ state[current] \in {"header", "data"}
  /\ pc' = "serve" /\ readStatus' = TRUE
  /\ UNCHANGED <<transceivers, session, transmitter, readable, served, current>>

\* Nothing more can be read, or there is no connection: HandleData returns.
PollNothing ==
  /\ pc = "poll"
  /\ pc' = "pass" /\ current' = None /\ readStatus' = FALSE
  /\ UNCHANGED <<transceivers, session, transmitter, readable, served>>

-----------------------------------------------------------------------------
\* Deletion of the transceivers in S, which are on the list of the disconnected:
\* their destructors report a disconnect once more, and close an open socket.
Delete(S) ==
  /\ allocated' = allocated \ S
  /\ connections' = connections \ S
  /\ state' = [a \in Addresses |-> IF a \in S THEN "idle" ELSE state[a]]
  /\ socket' = [a \in Addresses |-> IF a \in S THEN NoSocket ELSE socket[a]]
  /\ part' = [a \in Addresses |-> a \notin S /\ part[a]]
  /\ mixed' = [a \in Addresses |-> a \notin S /\ mixed[a]]
  /\ OnDisconnect(S)

\* Mutant: what has disconnected is forgotten, and stays.
CheckDisconnectedOnly ==
  /\ pc = "check" /\ pc' = "outside"
  /\ Delete({})
  /\ disconnected' = {}
  /\ readable' = {} /\ served' = {}
  /\ UNCHANGED <<connectedSet, fdMax, current, readStatus>>

\* ODIComSession::CheckDisconnected, and the end of handleIncomingData.
CheckDisconnected ==
  /\ pc = "check" /\ pc' = "outside"
  /\ Delete(connections \cap disconnected)
  /\ disconnected' = {}
  /\ IF disconnected = {} THEN UNCHANGED fdMax
     ELSE LET left == {0} \cup {socket[a] : a \in connections \ disconnected}
          IN  fdMax' \in left /\ \A s \in left : fdMax' >= s
  /\ readable' = {} /\ served' = {}
  /\ UNCHANGED <<connectedSet, current, readStatus>>

\* ODIComSession::Reset, with the end of the bridge.
Reset ==
  /\ pc = "outside" /\ pc' = "over"
  /\ Delete(connections)
  /\ disconnected' = {} /\ connectedSet' = {} /\ fdMax' = 0
  /\ UNCHANGED <<readable, served, current, readStatus>>

Over == pc = "over" /\ UNCHANGED sessionVars

-----------------------------------------------------------------------------
HandleData ==
  \/ Nothing \/ Accept \/ AcceptFails
  \/ Hangup \/ ReceivePart \/ ReceiveHeader
  \/ ReceiveData \/ ReceiveRegistration \/ RegistrationUnanswered
  \/ PollMore \/ PollNothing

HandleIncomingData ==
  \/ SelectNothing \/ Select
  \/ VisitNext \/ EndPass
  \/ HandleData
  \/ CheckDisconnected

SessionNext == Sleep \/ HandleIncomingData \/ Reset \/ Over

SessionSpec == SessionInit /\ [][SessionNext]_sessionVars

\* The main loop calls handleIncomingData again and again, and the thread goes on.
\* Nothing is assumed of the peers: one may send without ever pausing.
CallingSpec == SessionSpec /\ WF_sessionVars(HandleIncomingData)

-----------------------------------------------------------------------------
(* Safety *)

\* The session never follows a dangling pointer and never leaks a transceiver:
\* its list holds exactly the transceivers that exist, a transceiver whose
\* HandleData runs is not deleted by what its messages lead to, and every
\* disconnected one that waits for its deletion is on the list, once the
\* bridge listens.
NoDangling ==
  /\ connections = allocated
  /\ pc \in {"serve", "poll"} => current \in allocated
  /\ connections # {} => disconnected \subseteq allocated

\* The bridge sends only to a peer that is connected ("any references must be
\* removed" when a connection was disconnected).
TransmitterConnected ==
  transmitter # None =>
    transmitter \in allocated /\ state[transmitter] \in {"header", "data"}

\* select watches exactly the open sockets, each of them belongs to one
\* transceiver, and the highest of them is known: no connection is deaf, and no
\* descriptor that was closed or given to someone else is watched.
WatchesOpenSockets ==
  /\ connectedSet = Open
  /\ \A s \in connectedSet : s <= fdMax
  /\ \A a, b \in connections : socket[a] = socket[b] /\ socket[a] # NoSocket => a = b

\* Once the session listens it listens until the end ("True if we have
\* successfully started to listen on the port").
ListeningGoesOn ==
  \A a \in Addresses : state[a] = "listen" => state'[a] = "listen" \/ pc' = "over"

ListenerStays == [][ListeningGoesOn]_sessionVars

\* What select said of a descriptor is not taken for what it says of the connection that
\* was given that descriptor since: when a connection is accepted, its descriptor is none
\* of those the pass found readable, although it is visited in the same pass.
NewcomersAreUnread ==
  [][\A a \in connections' \ connections : socket'[a] \notin readable]_sessionVars

\* When listening has failed the session only sleeps: the address that its transceiver
\* leaves on the list of the disconnected is never compared with anything.
NobodyWithoutListener ==
  connections = {} => pc \in {"outside", "over"} /\ connectedSet = {} /\ transmitter = None

StaysWithoutListener == [][connections = {} => connections' = {}]_sessionVars

\* No two peers are connected at the same time.
OnePeer ==
  \A a, b \in Addresses :
    state[a] \in {"header", "data"} /\ state[b] \in {"header", "data"} => a = b

\* The observer is told of messages that have arrived ("Called when a message
\* have arrived ov the TCP connection"): the header a body is received for is
\* one the peer sent.
HeadersAreThePeers == \A a \in Addresses : state[a] = "data" => ~mixed[a]

-----------------------------------------------------------------------------
(* Implementation of the line *)

Talking == {a \in Addresses : state[a] \in {"header", "data"}}

Line == INSTANCE AbstractSession WITH
  Peers <- Addresses,
  phase <- IF pc = "over" THEN "over"
           ELSE IF \E a \in Addresses : state[a] = "listen" THEN "open" ELSE "deaf",
  peers <- Talking,
  speaker <- transmitter

\* The bridge sends to the peer that connected last, as long as that is connected; when it
\* leaves, or a message to it cannot be sent, to none until the next one connects ("for
\* now use only one transmitter").  Whatever connects, leaves and is deleted meanwhile
\* in the session's loop, the peers come and go one by one.
ImplementsLine == Line!LineSpec

-----------------------------------------------------------------------------
(* Liveness *)

\* HandleData of one connection never returns: its peer never pauses.  The loop of the
\* session goes from one connection to the next only through pc = "pass".
NeverPauses == [](pc \in {"serve", "poll"})

\* handleIncomingData returns, so that the next frame can be drawn, unless one and the
\* same peer never pauses.
ReceivingEnds == pc # "outside" ~> (pc \in {"outside", "over"} \/ NeverPauses)

\* A transceiver whose connection was closed is deleted, unless one peer never pauses.
DisconnectedAreFreed ==
  \A a \in Addresses :
    a \in allocated /\ state[a] = "idle"
      ~> (~(a \in allocated /\ state[a] = "idle") \/ NeverPauses)

\* Every connection that was readable in a call is served or closed, unless one peer
\* never pauses: that is all that starves the others, a loop over many connections,
\* newcomers and connections that close in the middle of it do not.
ReadableAreServed ==
  \A a \in Addresses :
    pc = "pass" /\ a \in connections \ served /\ socket[a] \in readable
      ~> (current = a \/ state[a] = "idle" \/ NeverPauses)
=============================================================================
