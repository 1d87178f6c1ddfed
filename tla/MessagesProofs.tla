--------------------------- MODULE MessagesProofs ---------------------------
(***************************************************************************)
(* Messages of every length, for every configuration of the data handler.  *)
(***************************************************************************)
EXTENDS Messages, TLAPS

\* A stream never runs past its end, and keeps an error.
LEMMA StreamStays ==
  ASSUME NEW s \in [left : 0..MaxSize, error : ComError], NEW size \in Nat,
         NEW err \in ComError
  PROVE  /\ After(s, size) \in [left : 0..MaxSize, error : ComError]
         /\ SetError(s, err) \in [left : 0..MaxSize, error : ComError]
<1>1. MaxSize \in Nat
  BY MessagesAssumption
<1> QED  BY <1>1 DEF After, SetError, Fits, ComError, NotEnoughBufferSize

\* An error stays.
LEMMA ErrorStays ==
  ASSUME NEW s \in [left : 0..MaxSize, error : ComError], NEW size \in Nat,
         ~Fits(s, size)
  PROVE  /\ After(s, size).error # ComNoError
         /\ \A n : ~Fits(After(s, size), n)
BY DEF After, SetError, Fits, ComNoError, NotEnoughBufferSize

\* What is read of a response is of the right type; a value other than zero is
\* read only if everything before it was.
LEMMA ResponseIsMeant ==
  ASSUME NEW s \in [left : 0..MaxSize, error : ComError], NEW m \in Message
  PROVE  /\ DataResponse(s, m).value \in Values
         /\ DataResponse(s, m).value # 0 => DataResponse(s, m) = Meant(m)
<1> DEFINE s1 == After(s, 2)
           s2 == After(s1, 2)
           s3 == After(s2, 1)
           s4 == After(s3, 1)
<1>1. s1 \in [left : 0..MaxSize, error : ComError]
  BY StreamStays DEF ComError
<1>2. s2 \in [left : 0..MaxSize, error : ComError]
  BY <1>1, StreamStays DEF ComError
<1>3. s3 \in [left : 0..MaxSize, error : ComError]
  BY <1>2, StreamStays DEF ComError
<1>4. ~Fits(s, 2) => ~Fits(s1, 2)
  BY ErrorStays
<1>5. ~Fits(s1, 2) => ~Fits(s2, 1)
  BY <1>1, ErrorStays
<1>6. ~Fits(s2, 1) => ~Fits(s3, 1)
  BY <1>2, ErrorStays
<1>7. ~Fits(s3, 1) => ~Fits(s4, 4)
  BY <1>3, ErrorStays
<1> DEFINE r == DataResponse(s, m)
<1>8. /\ r = [id |-> <<Got(s, 2, m.fu), Got(s1, 2, m.data)>>,
              type |-> Got(s2, 1, m.type), invalid |-> Got(s3, 1, m.invalid) # 0,
              value |-> Got(s4, 4, m.value)]
  BY DEF DataResponse
<1> HIDE DEF s1, s2, s3, s4, r
<1>9. r.value \in Values
  BY <1>8, DataAssumption DEF Got, Message
<1>10. ASSUME r.value # 0
       PROVE  r = Meant(m)
  <2>1. Fits(s4, 4)
    BY <1>8, <1>10 DEF Got
  <2>2. Fits(s, 2) /\ Fits(s1, 2) /\ Fits(s2, 1) /\ Fits(s3, 1)
    BY <1>4, <1>5, <1>6, <1>7, <2>1
  <2> QED  BY <1>8, <2>1, <2>2 DEF Got, Meant
<1> QED  BY <1>9, <1>10 DEF r

\* A stream with room for a field takes all its bytes, after those it has.
LEMMA Wrote ==
  ASSUME NEW out \in [bytes : Seq(Nat), failed : BOOLEAN], NEW field \in Seq(Nat),
         ~out.failed, Len(out.bytes) + Len(field) <= BufferSize
  PROVE  /\ Write(out, field) \in [bytes : Seq(Nat), failed : BOOLEAN]
         /\ ~Write(out, field).failed
         /\ Write(out, field).bytes = out.bytes \o field
BY RequestsAssumption DEF Write

\* The bytes of a field, and that they give its value back.
LEMMA Fields ==
  ASSUME NEW v \in U16s
  PROVE  /\ U8(v) \in Seq(Nat) /\ Len(U8(v)) = 1 /\ (v < 256 => U8(v)[1] = v)
         /\ U16(v) \in Seq(Nat) /\ Len(U16(v)) = 2
         /\ 256 * U16(v)[1] + U16(v)[2] = v
<1>1. v \in Nat /\ v \div 256 \in Nat /\ v \div 256 < 256 /\ v % 256 \in Nat
  BY DEF U16s
<1>2. U8(v) \in Seq(Nat) /\ Len(U8(v)) = 1 /\ (v < 256 => U8(v)[1] = v)
  BY <1>1 DEF U8
<1>3. (v \div 256) % 256 = v \div 256 /\ v = (256 * (v \div 256)) + (v % 256)
  BY <1>1
<1>4. U16(v) \in Seq(Nat) /\ Len(U16(v)) = 2 /\ U16(v)[1] = v \div 256 /\ U16(v)[2] = v % 256
  BY <1>1, <1>3 DEF U16
<1> QED  BY <1>2, <1>3, <1>4

\* n bytes were written so far, and every write succeeded.
Written(out, n) ==
  out \in [bytes : Seq(Nat), failed : BOOLEAN] /\ ~out.failed /\ Len(out.bytes) = n

\* The first n bytes of one stream are those of the other.
Begins(n, out, after) == \A k \in 1..n : after.bytes[k] = out.bytes[k]

\* What is where when sequences are joined.
LEMMA Joined ==
  ASSUME NEW s \in Seq(Nat), NEW t \in Seq(Nat)
  PROVE  /\ Len(s \o t) = Len(s) + Len(t)
         /\ \A k \in 1..Len(s) : (s \o t)[k] = s[k]
         /\ \A k \in 1..Len(t) : (s \o t)[Len(s) + k] = t[k]
OBVIOUS

LEMMA WroteU8 ==
  ASSUME NEW out, NEW n \in Nat, Written(out, n), n + 1 <= BufferSize,
         NEW v \in Nat, v < 256
  PROVE  LET after == Write(out, U8(v))
         IN  Written(after, n + 1) /\ Begins(n, out, after) /\ after.bytes[n + 1] = v
<1>1. v \in U16s
  BY DEF U16s
<1>2. U8(v) \in Seq(Nat) /\ Len(U8(v)) = 1 /\ U8(v)[1] = v
  BY <1>1, Fields
<1> DEFINE after == Write(out, U8(v))
<1>3. /\ after \in [bytes : Seq(Nat), failed : BOOLEAN] /\ ~after.failed
      /\ after.bytes = out.bytes \o U8(v)
  BY <1>2, Wrote DEF Written
<1>4. /\ Len(after.bytes) = n + 1 /\ after.bytes[n + 1] = v
      /\ \A k \in 1..n : after.bytes[k] = out.bytes[k]
  <2> DEFINE s == out.bytes
             t == U8(v)
  <2>1. s \in Seq(Nat) /\ Len(s) = n /\ t \in Seq(Nat) /\ Len(t) = 1 /\ t[1] = v
    BY <1>2 DEF Written
  <2>2. after.bytes = s \o t
    BY <1>3
  <2> HIDE DEF s, t
  <2>. 1 \in 1..Len(t)
    BY <2>1
  <2>3. /\ Len(s \o t) = n + 1 /\ (s \o t)[n + 1] = v
        /\ \A k \in 1..n : (s \o t)[k] = s[k]
    BY <2>1, Joined
  <2> QED  BY <2>2, <2>3 DEF s
<1> HIDE DEF after
<1>5. Written(after, n + 1) /\ Begins(n, out, after)
  BY <1>3, <1>4 DEF Written, Begins
<1> QED  BY <1>4, <1>5 DEF after

LEMMA WroteU16 ==
  ASSUME NEW out, NEW n \in Nat, Written(out, n), n + 2 <= BufferSize, NEW v \in U16s
  PROVE  LET after == Write(out, U16(v))
         IN  /\ Written(after, n + 2) /\ Begins(n, out, after)
             /\ 256 * after.bytes[n + 1] + after.bytes[n + 2] = v
<1>1. U16(v) \in Seq(Nat) /\ Len(U16(v)) = 2 /\ 256 * U16(v)[1] + U16(v)[2] = v
  BY Fields
<1> DEFINE after == Write(out, U16(v))
<1>2. /\ after \in [bytes : Seq(Nat), failed : BOOLEAN] /\ ~after.failed
      /\ after.bytes = out.bytes \o U16(v)
  BY <1>1, Wrote DEF Written
<1>3. /\ Len(after.bytes) = n + 2
      /\ 256 * after.bytes[n + 1] + after.bytes[n + 2] = v
      /\ \A k \in 1..n : after.bytes[k] = out.bytes[k]
  <2> DEFINE s == out.bytes
             t == U16(v)
  <2>1. /\ s \in Seq(Nat) /\ Len(s) = n /\ t \in Seq(Nat) /\ Len(t) = 2
        /\ 256 * t[1] + t[2] = v
    BY <1>1 DEF Written
  <2>2. after.bytes = s \o t
    BY <1>2
  <2> HIDE DEF s, t
  <2>. 1 \in 1..Len(t) /\ 2 \in 1..Len(t)
    BY <2>1
  <2>3. /\ Len(s \o t) = n + 2 /\ (s \o t)[n + 1] = t[1] /\ (s \o t)[n + 2] = t[2]
        /\ \A k \in 1..n : (s \o t)[k] = s[k]
    <3>1. /\ Len(s \o t) = n + 2 /\ \A k \in 1..n : (s \o t)[k] = s[k]
          /\ \A k \in 1..Len(t) : (s \o t)[n + k] = t[k]
      <4>1. s \in Seq(Nat) /\ t \in Seq(Nat) /\ Len(s) = n /\ Len(t) = 2
        BY <2>1
      <4>2. /\ Len(s \o t) = Len(s) + Len(t) /\ \A k \in 1..Len(s) : (s \o t)[k] = s[k]
            /\ \A k \in 1..Len(t) : (s \o t)[Len(s) + k] = t[k]
        BY ONLY <4>1, Joined
      <4> QED  BY ONLY <4>1, <4>2
    <3>2. \A k \in {1, 2} : (s \o t)[n + k] = t[k]
      BY <2>1, <3>1
    <3> QED  BY <3>1, <3>2
  <2> QED  BY <2>1, <2>2, <2>3 DEF s
<1> HIDE DEF after
<1>4. Written(after, n + 2) /\ Begins(n, out, after)
  BY <1>2, <1>3 DEF Written, Begins
<1> QED  BY <1>3, <1>4 DEF after

\* The three parts of a request: what they write to a stream that has room for them.
LEMMA WroteOf ==
  ASSUME NEW out, NEW fu \in U16s, Written(out, 0), RequestSize <= BufferSize
  PROVE  LET after == RequestOf(out, fu)
         IN  /\ Written(after, 5)
             /\ after.bytes[1] = MessageODI /\ after.bytes[2] = DataRequest
             /\ 256 * after.bytes[3] + after.bytes[4] = fu
<1> DEFINE o1 == Write(out, U8(MessageODI))
           o2 == Write(o1, U8(DataRequest))
           o3 == Write(o2, U16(fu))
           o4 == Write(o3, U8(0))
<1> USE RequestsAssumption DEF RequestSize
<1>0. RequestOf(out, fu) = o4
  BY DEF RequestOf
<1>1. Written(o1, 1) /\ o1.bytes[1] = MessageODI
  BY WroteU8 DEF MessageODI
<1> HIDE DEF o1
<1>2. Written(o2, 2) /\ Begins(1, o1, o2) /\ o2.bytes[2] = DataRequest
  BY <1>1, WroteU8 DEF DataRequest
<1> HIDE DEF o2
<1>3. /\ Written(o3, 4) /\ Begins(2, o2, o3)
      /\ 256 * o3.bytes[3] + o3.bytes[4] = fu
  BY <1>2, WroteU16
<1> HIDE DEF o3
<1>4. Written(o4, 5) /\ Begins(4, o3, o4)
  BY <1>3, WroteU8
<1> HIDE DEF o4
<1> QED  BY <1>0, <1>1, <1>2, <1>3, <1>4 DEF Begins

LEMMA WroteFor ==
  ASSUME NEW out, NEW datum \in U16s, Written(out, 5), RequestSize <= BufferSize
  PROVE  LET after == RequestFor(out, datum)
         IN  /\ Written(after, 9) /\ Begins(5, out, after)
             /\ 256 * after.bytes[8] + after.bytes[9] = datum
<1> DEFINE o1 == Write(out, U8(1))
           o2 == Write(o1, U8(0))
           o3 == Write(o2, U16(datum))
<1> USE RequestsAssumption DEF RequestSize
<1>0. RequestFor(out, datum) = o3
  BY DEF RequestFor
<1>1. Written(o1, 6) /\ Begins(5, out, o1)
  BY WroteU8
<1> HIDE DEF o1
<1>2. Written(o2, 7) /\ Begins(6, o1, o2)
  <2>1. 6 + 1 <= BufferSize
    OBVIOUS
  <2>2. Written(Write(o1, U8(0)), 6 + 1) /\ Begins(6, o1, Write(o1, U8(0)))
    BY ONLY <1>1, <2>1, WroteU8
  <2> QED  BY <2>2
<1> HIDE DEF o2
<1>3. /\ Written(o3, 9) /\ Begins(7, o2, o3)
      /\ 256 * o3.bytes[8] + o3.bytes[9] = datum
  BY <1>2, WroteU16
<1> HIDE DEF o3
<1> QED  BY <1>0, <1>1, <1>2, <1>3 DEF Begins

LEMMA WroteEnd ==
  ASSUME NEW out, Written(out, 9), RequestSize <= BufferSize
  PROVE  LET after == RequestEnd(out)
         IN  Written(after, RequestSize) /\ Begins(9, out, after)
<1> DEFINE o1 == Write(out, U16(0))
           o2 == Write(o1, U16(0))
           o3 == Write(o2, U16(0))
           o4 == Write(o3, U16(0))
<1> USE RequestsAssumption DEF RequestSize
<1> 0 \in U16s
  BY DEF U16s
<1>0. RequestEnd(out) = o4
  BY DEF RequestEnd
<1>1. Written(o1, 11) /\ Begins(9, out, o1)
  BY WroteU16
<1> HIDE DEF o1
<1>2. Written(o2, 13) /\ Begins(11, o1, o2)
  BY <1>1, WroteU16
<1> HIDE DEF o2
<1>3. Written(o3, 15) /\ Begins(13, o2, o3)
  BY <1>2, WroteU16
<1> HIDE DEF o3
<1>4. Written(o4, 17) /\ Begins(15, o3, o4)
  BY <1>3, WroteU16
<1> HIDE DEF o4
<1> QED  BY <1>0, <1>1, <1>2, <1>3, <1>4 DEF Begins

\* A request that is written to a new stream is whole, and asks for its datum.
LEMMA RequestAsks ==
  ASSUME NEW id \in Ids
  PROVE  Asks(Requested(OutputStream, id).bytes, id)
<1>1. id \in (FUs \cup {0}) \X (DataIds \cup {0}) /\ 0 \in U16s
  BY MessagesAssumption DEF U16s
<1>2. id = <<id[1], id[2]>> /\ id[1] \in U16s /\ id[2] \in U16s
  BY <1>1, MessagesAssumption
<1>3. Written(OutputStream, 0) /\ RequestSize <= BufferSize
  <2>1. RequestSize <= BufferSize /\ (BufferSize = 0) = FALSE
    BY RequestsAssumption DEF RequestSize
  <2>2. OutputStream = [bytes |-> <<>>, failed |-> FALSE]
    BY <2>1 DEF OutputStream
  <2> QED  BY <2>1, <2>2 DEF Written
<1> DEFINE of  == RequestOf(OutputStream, id[1])
           for == RequestFor(of, id[2])
           end == RequestEnd(for)
<1>4. /\ Written(of, 5) /\ of.bytes[1] = MessageODI /\ of.bytes[2] = DataRequest
      /\ 256 * of.bytes[3] + of.bytes[4] = id[1]
  BY <1>2, <1>3, WroteOf
<1>5. /\ Written(for, 9) /\ Begins(5, of, for)
      /\ 256 * for.bytes[8] + for.bytes[9] = id[2]
  BY <1>2, <1>3, <1>4, WroteFor
<1>6. Written(end, RequestSize) /\ Begins(9, for, end)
  BY <1>3, <1>5, WroteEnd
<1>7. Requested(OutputStream, id) = end
  BY DEF Requested
<1> HIDE DEF of, for, end
<1>8. /\ end.bytes[1] = of.bytes[1] /\ end.bytes[2] = of.bytes[2]
      /\ end.bytes[3] = of.bytes[3] /\ end.bytes[4] = of.bytes[4]
      /\ end.bytes[8] = for.bytes[8] /\ end.bytes[9] = for.bytes[9]
  BY <1>5, <1>6 DEF Begins
<1>9. Len(end.bytes) = RequestSize
  BY <1>6 DEF Written
<1> QED  BY <1>2, <1>4, <1>5, <1>7, <1>8, <1>9 DEF Asks

-----------------------------------------------------------------------------
MessagesInv == MessagesTypeOK /\ NonzeroWasSent

LEMMA RequestsInit == MessagesInit => RequestsAreWhole
<1> SUFFICES ASSUME requests = <<>>
             PROVE  \A i \in DOMAIN requests : Asks(requests[i], i)
  BY DEF MessagesInit, RequestsAreWhole
<1>1. DOMAIN requests = {}
  OBVIOUS
<1> QED  BY <1>1

\* Whichever data are asked for, each request is the one that was written for it.
LEMMA RequestsStep == RequestsAreWhole /\ [MessagesNext]_messageVars => RequestsAreWhole'
<1> SUFFICES ASSUME RequestsAreWhole, [MessagesNext]_messageVars
             PROVE  RequestsAreWhole'
  OBVIOUS
<1>1. CASE UNCHANGED requests
  BY <1>1 DEF RequestsAreWhole
<1>2. ASSUME NEW S \in Asked, SubscribeAll(S)
      PROVE  RequestsAreWhole'
  <2>1. requests' = [i \in S |-> Requested(OutputStream, i).bytes] /\ S \subseteq Ids
    BY <1>2 DEF SubscribeAll, Asked
  <2>2. \A i \in S : Asks(Requested(OutputStream, i).bytes, i)
    BY <2>1, RequestAsks
  <2>3. DOMAIN requests' = S /\ \A i \in S : Asks(requests'[i], i)
    BY <2>1, <2>2
  <2> QED  BY <2>3 DEF RequestsAreWhole
<1>3. UNCHANGED requests \/ \E S \in Asked : SubscribeAll(S)
  <2>1. CASE GetNextFu
    BY <2>1 DEF GetNextFu
  <2>2. CASE ~GetNextFu
    BY <2>2 DEF MessagesNext, ReceiveODI, OnODI, OnRegistration, RefreshData, messageVars
  <2> QED  BY <2>1, <2>2
<1> QED  BY <1>1, <1>2, <1>3

LEMMA MessagesInvInit == MessagesInit => MessagesInv
BY DataAssumption, MessagesAssumption
DEF MessagesInit, MessagesInv, MessagesTypeOK, NonzeroWasSent, DataInit, DataTypeOK,
    Status, Stream, ComError

\* A response, whatever its length.
LEMMA ResponseStep ==
  ASSUME MessagesInv, NEW m \in Message,
         NEW s \in [left : 0..MaxSize, error : ComError],
         OnODIDynamicData(s, m), UNCHANGED <<pc, stream, requests>>
  PROVE  MessagesInv'
<1> DEFINE r == DataResponse(s, m)
           st == IF r.invalid THEN "INVALID" ELSE "VALID"
<1>1. r.value \in Values /\ (r.value # 0 => r = Meant(m))
  BY ResponseIsMeant
<1>2. /\ SetData(r.id, r.type, r.value, st)
      /\ intact' = [i \in Ids |->
                      IF i = r.id /\ Accepts(i, r.type)
                      THEN r = Meant(m) /\ m.type = TypeOfId[i] ELSE intact[i]]
  BY DEF OnODIDynamicData
<1> st \in {"VALID", "INVALID"}
  OBVIOUS
<1> HIDE DEF r, st
<1>3. intact' \in [Ids -> BOOLEAN]
  <2>1. \A i \in Ids : (r = Meant(m) /\ m.type = TypeOfId[i]) \in BOOLEAN
    OBVIOUS
  <2>2. \A i \in Ids : intact[i] \in BOOLEAN
    BY DEF MessagesInv, MessagesTypeOK
  <2> QED  BY <1>2, <2>1, <2>2
<1>4. CASE Accepts(r.id, r.type)
  <2>1. Store({r.id}, [x \in {r.id} |-> r.value], st)
    BY <1>2, <1>4 DEF SetData
  <2>2. r.id \in Ids /\ TypeOfId[r.id] = r.type
    BY <1>4 DEF Accepts
  <2>3. DataTypeOK'
    BY <1>1, <2>1, <2>2, DataAssumption
    DEF Store, MessagesInv, MessagesTypeOK, DataTypeOK, Status
  <2>4. NonzeroWasSent'
    <3> SUFFICES ASSUME NEW i \in Ids, value'[i] # 0
                 PROVE  intact'[i]
      BY DEF NonzeroWasSent
    <3>1. CASE i = r.id
      <4>1. value'[i] = r.value
        BY <2>1, <3>1 DEF Store
      <4>2. r = Meant(m)
        BY <1>1, <4>1
      <4>3. r.type = m.type
        BY <4>2 DEF Meant
      <4>4. intact'[i] = (r = Meant(m) /\ m.type = TypeOfId[i])
        BY <1>2, <1>4, <3>1
      <4> QED  BY <2>2, <3>1, <4>2, <4>3, <4>4
    <3>2. CASE i # r.id
      <4>1. value'[i] = value[i]
        BY <2>1, <3>2 DEF Store
      <4>2. intact'[i] = intact[i]
        BY <1>2, <3>2
      <4> QED  BY <4>1, <4>2 DEF MessagesInv, NonzeroWasSent
    <3> QED  BY <3>1, <3>2
  <2> QED  BY <1>3, <2>3, <2>4 DEF MessagesInv, MessagesTypeOK
<1>5. CASE ~Accepts(r.id, r.type)
  <2>1. UNCHANGED dataVars
    BY <1>2, <1>5 DEF SetData
  <2>2. \A i \in Ids : intact'[i] = intact[i]
    BY <1>2, <1>5
  <2> QED
    BY <1>3, <2>1, <2>2
    DEF MessagesInv, MessagesTypeOK, NonzeroWasSent, DataTypeOK, dataVars
<1> QED  BY <1>4, <1>5

LEMMA MessagesInvStep == MessagesInv /\ [MessagesNext]_messageVars => MessagesInv'
<1> SUFFICES ASSUME MessagesInv, [MessagesNext]_messageVars
             PROVE  MessagesInv'
  OBVIOUS
<1>1. CASE UNCHANGED messageVars
  BY <1>1 DEF MessagesInv, MessagesTypeOK, NonzeroWasSent, DataTypeOK, dataVars, messageVars
<1>2. CASE ReceiveODI
  <2> PICK m \in Message : OnODI(m)
    BY <1>2 DEF ReceiveODI
  <2>1. m.size \in 1..MaxSize
    BY DEF Message
  <2>2. Stream(m.size) \in [left : 0..MaxSize, error : ComError]
    BY <2>1, MessagesAssumption DEF Stream, ComError
  <2>3. AfterHeader(Stream(m.size), m) \in [left : 0..MaxSize, error : ComError]
    BY <2>2, StreamStays DEF AfterHeader, ComError
  <2>4. CASE OnODIDynamicData(AfterHeader(Stream(m.size), m), m)
    BY <2>3, <2>4, ResponseStep DEF OnODI
  <2>5. CASE UNCHANGED <<dataVars, intact>>
    BY <2>5 DEF OnODI, MessagesInv, MessagesTypeOK, NonzeroWasSent, DataTypeOK, dataVars
  <2> QED  BY <2>4, <2>5 DEF OnODI
<1>3. CASE OnRegistration
  <2> PICK size \in 1..MaxSize, known \in BOOLEAN :
        stream' = AfterRegistrationHeader(After(After(After(Stream(size), 1), 1), 1),
                    known \/ After(After(After(Stream(size), 1), 1), 1).error # ComNoError)
    BY <1>3 DEF OnRegistration
  <2> DEFINE s == After(After(After(Stream(size), 1), 1), 1)
  <2>1. Stream(size) \in [left : 0..MaxSize, error : ComError]
    BY MessagesAssumption DEF Stream, ComError
  <2>2. s \in [left : 0..MaxSize, error : ComError]
    BY <2>1, StreamStays DEF ComError
  <2> HIDE DEF s
  <2>3. /\ After(After(s, 4), 1) \in [left : 0..MaxSize, error : ComError]
        /\ SetError(s, InvalidFieldInMsg) \in [left : 0..MaxSize, error : ComError]
    BY <2>2, StreamStays DEF ComError
  <2>4. stream' \in [left : 0..MaxSize, error : ComError]
    BY <2>3 DEF AfterRegistrationHeader, s
  <2> QED
    BY <1>3, <2>4
    DEF OnRegistration, MessagesInv, MessagesTypeOK, NonzeroWasSent, DataTypeOK, dataVars
<1>4. CASE GetNextFu
  <2>1. Stream(0) \in [left : 0..MaxSize, error : ComError]
    BY MessagesAssumption DEF Stream, ComError
  <2>2. After(stream, 2) \in [left : 0..MaxSize, error : ComError]
    BY StreamStays DEF MessagesInv, MessagesTypeOK, ComError
  <2>3. stream' \in {Stream(0), After(stream, 2)} /\ pc' \in {"idle", "registration"}
    BY <1>4 DEF GetNextFu
  <2>4. DOMAIN requests' \subseteq Ids
    <3>1. (\E S \in Asked : SubscribeAll(S)) \/ UNCHANGED requests
      BY <1>4 DEF GetNextFu
    <3>2. ASSUME NEW S \in Asked, SubscribeAll(S)
          PROVE  DOMAIN requests' \subseteq Ids
      BY <3>2 DEF SubscribeAll, Asked
    <3> QED  BY <3>1, <3>2 DEF MessagesInv, MessagesTypeOK
  <2> QED
    BY <1>4, <2>1, <2>2, <2>3, <2>4
    DEF GetNextFu, MessagesInv, MessagesTypeOK, NonzeroWasSent, DataTypeOK, dataVars
<1>5. CASE RefreshData
  <2>1. \A i \in Ids : value'[i] = value[i]
    BY <1>5 DEF RefreshData, Refresh, Store
  <2>2. DataTypeOK'
    BY <1>5, DataAssumption
    DEF RefreshData, Refresh, Store, MessagesInv, MessagesTypeOK, DataTypeOK, Status
  <2> QED
    BY <1>5, <2>1, <2>2 DEF RefreshData, MessagesInv, MessagesTypeOK, NonzeroWasSent
<1> QED  BY <1>1, <1>2, <1>3, <1>4, <1>5 DEF MessagesNext

-----------------------------------------------------------------------------
\* Every reachable state is well typed: no stream runs past its end.
THEOREM MessagesTypeCorrect == MessagesSpec => []MessagesTypeOK
<1>1. MessagesInv => MessagesTypeOK
  BY DEF MessagesInv
<1> QED  BY <1>1, MessagesInvInit, MessagesInvStep, PTL DEF MessagesSpec

\* A value other than zero is the one that was sent for that datum, wherever the
\* messages end.
THEOREM NonzeroWasAlwaysSent == MessagesSpec => []NonzeroWasSent
<1>1. MessagesInv => NonzeroWasSent
  BY DEF MessagesInv
<1> QED  BY <1>1, MessagesInvInit, MessagesInvStep, PTL DEF MessagesSpec

\* Every data request is whole and asks for its own datum, for every number of data and
\* all identifiers of two bytes.
THEOREM RequestsAreAlwaysWhole == MessagesSpec => []RequestsAreWhole
BY RequestsInit, RequestsStep, PTL DEF MessagesSpec

\* Every turn of the loop over the FUs that does not end it takes two bytes of the
\* message, however long and however broken: there are at most MaxSize \div 2 of them.
THEOREM RegistrationAlwaysAdvances == MessagesSpec => RegistrationAdvances
<1>1. MessagesInv /\ [MessagesNext]_messageVars =>
        [pc = "registration" /\ pc' = "registration" =>
           stream'.left = stream.left - 2]_messageVars
  <2> SUFFICES ASSUME MessagesInv, MessagesNext, pc = "registration", pc' = "registration"
               PROVE  stream'.left = stream.left - 2
    OBVIOUS
  <2>1. GetNextFu
    BY DEF MessagesNext, ReceiveODI, OnODI, OnRegistration, RefreshData
  <2> PICK fu \in FUs \cup {0} : Got(stream, 2, fu) # 0 /\ stream' = After(stream, 2)
    BY <2>1 DEF GetNextFu
  <2> QED  BY DEF Got, After, MessagesInv, MessagesTypeOK
<1> QED  BY <1>1, MessagesInvInit, MessagesInvStep, PTL DEF MessagesSpec, RegistrationAdvances

-----------------------------------------------------------------------------
(* ValidWasSent does not hold of every message: of a response that ends early the flag
   and the value that are missing are read as 0, and stored as valid.  It does hold
   when every data response is as long as its fields are. *)

\* DataResponseMessage: the header, both ids, the type, the flag and the value.
ResponseSize == 1 + 2 + 2 + 1 + 1 + 4

Whole(m) == m.odi = DynDataResp => m.size >= ResponseSize

WholeNext ==
  (\E m \in Message : Whole(m) /\ OnODI(m)) \/ OnRegistration \/ GetNextFu \/ RefreshData

WholeSpec == MessagesInit /\ [][WholeNext]_messageVars

LEMMA WholeResponseIsMeant ==
  ASSUME NEW m \in Message, Whole(m), m.odi = DynDataResp
  PROVE  DataResponse(AfterHeader(Stream(m.size), m), m) = Meant(m)
<1> DEFINE size == m.size
           s0 == Stream(size)
           s  == After(s0, 1)
           s1 == After(s, 2)
           s2 == After(s1, 2)
           s3 == After(s2, 1)
           s4 == After(s3, 1)
<1>1. size \in Nat /\ size >= 11
  BY MessagesAssumption DEF Whole, ResponseSize, Message
<1>2. AfterHeader(Stream(m.size), m) = s
  BY <1>1 DEF AfterHeader, CheckOdiMsgType, Got, DynDataResp, Fits, Stream
<1> HIDE DEF size
<1> USE DEF After, Fits
<1>3. s = [left |-> size - 1, error |-> ComNoError]
  BY <1>1 DEF Stream
<1> HIDE DEF s
<1>4. s1 = [left |-> size - 3, error |-> ComNoError] /\ Fits(s, 2)
  BY <1>1, <1>3
<1> HIDE DEF s1
<1>5. s2 = [left |-> size - 5, error |-> ComNoError] /\ Fits(s1, 2)
  BY <1>1, <1>4
<1> HIDE DEF s2
<1>6. s3 = [left |-> size - 6, error |-> ComNoError] /\ Fits(s2, 1)
  BY <1>1, <1>5
<1> HIDE DEF s3
<1>7. s4 = [left |-> size - 7, error |-> ComNoError] /\ Fits(s3, 1)
  BY <1>1, <1>6
<1> HIDE DEF s4
<1>8. Fits(s4, 4)
  BY <1>1, <1>7
<1> HIDE DEF After, Fits
<1>9. DataResponse(s, m) =
        [id |-> <<Got(s, 2, m.fu), Got(s1, 2, m.data)>>, type |-> Got(s2, 1, m.type),
         invalid |-> Got(s3, 1, m.invalid) # 0, value |-> Got(s4, 4, m.value)]
  BY DEF DataResponse, s1, s2, s3, s4
<1> QED  BY <1>2, <1>4, <1>5, <1>6, <1>7, <1>8, <1>9 DEF Got, Meant

LEMMA WholeStep ==
  MessagesInv /\ ValidWasSent /\ [WholeNext]_messageVars => ValidWasSent'
<1> SUFFICES ASSUME MessagesInv, ValidWasSent, [WholeNext]_messageVars,
                    NEW i \in Ids, status'[i] = "VALID"
             PROVE  intact'[i]
  BY DEF ValidWasSent
<1>1. CASE UNCHANGED <<dataVars, intact>>
  BY <1>1 DEF ValidWasSent, dataVars
<1>2. CASE RefreshData
  <2>1. intact' = intact /\ Refresh
    BY <1>2 DEF RefreshData
  <2>2. status'[i] = IF StatusOf(i) = "VALID" THEN "VALID" ELSE status[i]
    BY <2>1 DEF Refresh, Store
  <2>3. status[i] = "VALID"
    BY <2>2 DEF StatusOf
  <2> QED  BY <2>1, <2>3 DEF ValidWasSent
<1>3. ASSUME NEW m \in Message, Whole(m), OnODI(m)
      PROVE  intact'[i]
  <2>1. CASE m.odi # DynDataResp
    <3>1. m.size >= 1
      BY MessagesAssumption DEF Message
    <3>2. Got(Stream(m.size), 1, m.odi) = m.odi
      BY <3>1 DEF Got, Fits, Stream
    <3> QED  BY <1>1, <1>3, <2>1, <3>2 DEF OnODI
  <2>2. CASE m.odi = DynDataResp
    <3> DEFINE r == DataResponse(AfterHeader(Stream(m.size), m), m)
    <3>1. r = Meant(m)
      BY <1>3, <2>2, WholeResponseIsMeant
    <3>2. OnODIDynamicData(AfterHeader(Stream(m.size), m), m)
      BY <1>3, <2>2 DEF OnODI, Got, DynDataResp
    <3>3. intact'[i] = IF i = r.id /\ Accepts(i, r.type)
                       THEN r = Meant(m) /\ m.type = TypeOfId[i] ELSE intact[i]
      BY <3>2 DEF OnODIDynamicData
    <3> HIDE DEF r
    <3>4. CASE i = r.id /\ Accepts(i, r.type)
      <4>1. r.type = m.type
        BY <3>1 DEF Meant
      <4> QED  BY <3>1, <3>3, <3>4, <4>1 DEF Accepts
    <3>5. CASE ~(i = r.id /\ Accepts(i, r.type))
      <4>1. status'[i] = status[i]
        BY <3>2, <3>5 DEF OnODIDynamicData, SetData, Store, dataVars, r
      <4> QED  BY <3>3, <3>5, <4>1 DEF ValidWasSent
    <3> QED  BY <3>4, <3>5
  <2> QED  BY <2>1, <2>2
<1> QED
  BY <1>1, <1>2, <1>3 DEF WholeNext, OnRegistration, GetNextFu, messageVars

\* If every data response is whole, a datum is valid only if a message said so, with that
\* value, type and flag: the length of a message is all that a valid datum that was
\* never sent can come from.
THEOREM ValidWasAlwaysSent == WholeSpec => []ValidWasSent
<1>1. MessagesInit => ValidWasSent
  BY DEF MessagesInit, DataInit, ValidWasSent
<1>2. [WholeNext]_messageVars => [MessagesNext]_messageVars
  BY DEF WholeNext, MessagesNext, ReceiveODI
<1> QED  BY <1>1, <1>2, WholeStep, MessagesInvInit, MessagesInvStep, PTL DEF WholeSpec
=============================================================================
