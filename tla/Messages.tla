------------------------------ MODULE Messages ------------------------------
(***************************************************************************)
(* What the FU bridge does with the messages it receives: data responses   *)
(* are read from a stream and stored, registrations are read to their end  *)
(* and answered with a data request for each datum.                        *)
(*                                                                         *)
(* A message may end early, as its header and not its type tells its size. *)
(* A stream remembers its first error and from then on reads zeros.  Of    *)
(* the fields of a message the ids, the type, the flag and the value are   *)
(* kept; sizes are those of the code, in bytes.  Time does not pass here.  *)
(***************************************************************************)
EXTENDS DataHandler, Requests

CONSTANTS
  FUs,      \* FU class ids that are sent
  DataIds,  \* data ids that are sent; an id of a datum is a pair of both
  MaxSize   \* messages are at most that long (256 bytes in the code)

ASSUME MessagesAssumption ==
  /\ FUs \subseteq U16s /\ DataIds \subseteq U16s   \* FUClassId and DataId are U16
  /\ Types \subseteq Nat /\ Values \subseteq Nat
  /\ Ids \cup ForeignIds = (FUs \cup {0}) \X (DataIds \cup {0})
  /\ MaxSize \in Nat

\* ComError: the errors a stream may have.
ComNoError          == 0
NotEnoughBufferSize == 3
InvalidFieldInMsg   == 4
ComError == {ComNoError, NotEnoughBufferSize, InvalidFieldInMsg}

VARIABLES
  pc,      \* within the loop over the FUs of a registration, or not
  stream,  \* the InputStream of that registration
  requests, \* the bytes of the data requests that answered the last registration
  intact   \* history: the data whose entry is as a message sent it

messageVars == <<dataVars, pc, stream, requests, intact>>

\* An InputStream: the bytes that are left, and the first error.
Stream(size) == [left |-> size, error |-> ComNoError]

MessagesTypeOK ==
  /\ DataTypeOK
  /\ pc \in {"idle", "registration"}
  /\ stream \in [left : 0..MaxSize, error : ComError]
  /\ DOMAIN requests \subseteq Ids
  /\ intact \in [Ids -> BOOLEAN]

MessagesInit ==
  /\ DataInit
  /\ pc = "idle"
  /\ stream = Stream(0)
  /\ requests = <<>>
  /\ intact = [i \in Ids |-> FALSE]

-----------------------------------------------------------------------------
\* InputStream::setError
SetError(s, err) == IF s.error = ComNoError THEN [s EXCEPT !.error = err] ELSE s

Fits(s, size) == s.error = ComNoError /\ size <= s.left

\* Mutant: the size that is left is not looked at.
AfterBlindly(s, size) == [s EXCEPT !.left = s.left - size]

\* InputStream::read, what it does to the stream.
After(s, size) ==
  IF Fits(s, size) THEN [s EXCEPT !.left = s.left - size]
  ELSE SetError(s, NotEnoughBufferSize)

\* operator>> of InputStream, what it delivers of a field of that size.
Got(s, size, field) == IF Fits(s, size) THEN field ELSE 0

\* messageutils::checkOdiMsgType: responses, events and indications.
DynDataResp == 0
CheckOdiMsgType(type) == type \in {DynDataResp, 2, 3}

\* OdiMsgHeader::fromStream, what it does to the stream.
AfterHeader(s, m) ==
  IF CheckOdiMsgType(Got(s, 1, m.odi)) THEN After(s, 1)
  ELSE SetError(After(s, 1), InvalidFieldInMsg)

\* DataResponseMessage::fromStream.  The flag is read as false when it is missing.
DataResponse(s, m) ==
  LET s1 == After(s, 2)
      s2 == After(s1, 2)
      s3 == After(s2, 1)
      s4 == After(s3, 1)
  IN  [id      |-> <<Got(s, 2, m.fu), Got(s1, 2, m.data)>>,
       type    |-> Got(s2, 1, m.type),
       invalid |-> Got(s3, 1, m.invalid) # 0,
       value   |-> Got(s4, 4, m.value)]

\* What the peer meant with such a message.
Meant(m) ==
  [id |-> <<m.fu, m.data>>, type |-> m.type, invalid |-> m.invalid # 0, value |-> m.value]

\* FUBridge::onODIDynamicData
OnODIDynamicData(s, m) ==
  LET r == DataResponse(s, m)
  IN  /\ SetData(r.id, r.type, r.value, IF r.invalid THEN "INVALID" ELSE "VALID")
      /\ intact' = [i \in Ids |->
                      IF i = r.id /\ Accepts(i, r.type)
                      THEN r = Meant(m) /\ m.type = TypeOfId[i] ELSE intact[i]]

\* FUBridge::onODI.  Its error is not looked at by onMessage.
OnODI(m) ==
  /\ pc = "idle"
  /\ IF Got(Stream(m.size), 1, m.odi) = DynDataResp
     THEN OnODIDynamicData(AfterHeader(Stream(m.size), m), m)
     ELSE UNCHANGED <<dataVars, intact>>
  /\ UNCHANGED <<pc, stream, requests>>

Message ==
  [odi : {DynDataResp, 2, 5}, fu : FUs, data : DataIds, type : Types,
   invalid : {0, 1}, value : Values, size : 1..MaxSize]

ReceiveODI == \E m \in Message : OnODI(m)

\* FUBridge::onRegistration, and the constructor of its reader: versions, mode, and
\* for a known mode the uid and the number of FUs.
AfterRegistrationHeader(s, known) ==
  IF known THEN After(After(s, 4), 1) ELSE SetError(s, InvalidFieldInMsg)

OnRegistration ==
  /\ pc = "idle" /\ pc' = "registration"
  /\ \E size \in 1..MaxSize, known \in BOOLEAN :
       LET s == After(After(After(Stream(size), 1), 1), 1)
       IN  stream' = AfterRegistrationHeader(s, known \/ s.error # ComNoError)
  /\ UNCHANGED <<dataVars, requests, intact>>

\* The order of the data handler's table.
Before(i, j) == i[1] < j[1] \/ (i[1] = j[1] /\ i[2] < j[2])

\* FUBridge::subscribeAll: requests for the data in S, as long as there is a
\* transmitter: when a request cannot be sent there is none any more.
SubscribeAll(S) ==
  requests' = [i \in S |-> Requested(OutputStream, i).bytes]

\* Mutant: what is read from a stream with an error is what was read before.
GetNextFuAgain ==
  /\ pc = "registration"
  /\ \E fu \in FUs \cup {0} :
       IF Fits(stream, 2) /\ fu = 0
       THEN pc' = "idle" /\ stream' = Stream(0) /\ SubscribeAll(Ids)
       ELSE stream' = After(stream, 2) /\ UNCHANGED <<pc, requests>>
  /\ UNCHANGED <<dataVars, intact>>

\* The data a transmitter is asked for until it goes, if there is one at all.
Asked == {S \in SUBSET Ids : \A i \in S, j \in Ids : Before(j, i) => j \in S}

\* One turn of the loop over the FUs: it goes on until it reads the id 0, and then
\* the data are requested.
GetNextFu ==
  /\ pc = "registration"
  /\ \E fu \in FUs \cup {0} :
       IF Got(stream, 2, fu) = 0
       THEN pc' = "idle" /\ stream' = Stream(0) /\ \E S \in Asked : SubscribeAll(S)
       ELSE stream' = After(stream, 2) /\ UNCHANGED <<pc, requests>>
  /\ UNCHANGED <<dataVars, intact>>

\* The bridge refreshes before it receives.
RefreshData == pc = "idle" /\ Refresh /\ UNCHANGED <<pc, stream, requests, intact>>

MessagesNext == ReceiveODI \/ OnRegistration \/ GetNextFu \/ RefreshData

MessagesSpec == MessagesInit /\ [][MessagesNext]_messageVars

\* The thread goes on with its loop.
ReadingSpec == MessagesSpec /\ WF_messageVars(GetNextFu)

-----------------------------------------------------------------------------
\* Wherever a message ends, and whatever its type: a value other than zero is
\* the one that was sent for that datum, with its type and its flag.
NonzeroWasSent == \A i \in Ids : value[i] # 0 => intact[i]

\* A datum is valid only if a message that was received says so, with that value:
\* a response is invalid until its flag was read ("const bool expectedInvalidFlag
\* = true"), and after an error of the stream "no future operations will be
\* evaluated".
ValidWasSent == \A i \in Ids : status[i] = "VALID" => intact[i]

\* A registration is read from front to back: each turn that does not end it has taken
\* one FU id, two bytes, from what its message holds.
RegistrationAdvances ==
  [][pc = "registration" /\ pc' = "registration" => stream'.left = stream.left - 2]_messageVars

\* Every data request is whole, however many there are, and a peer reads from it the
\* datum it was written for: "it also generates data request messages, which are
\* expected by non-asil FUs before they send any data".
RequestsAreWhole == \A i \in DOMAIN requests : Asks(requests[i], i)

\* The loop over the FUs of a registration ends, also when no id 0 is sent.
RegistrationEnds == pc = "registration" ~> pc = "idle"
=============================================================================
