------------------------------ MODULE Requests ------------------------------
(***************************************************************************)
(* The output stream, and the data requests the FU bridge writes with it.  *)
(* A stream is the bytes that were written, the first error ends writing.  *)
(***************************************************************************)
EXTENDS Integers, Sequences

CONSTANT BufferSize   \* of the buffer the bridge writes its requests into: 256

RequestSize == 17

ASSUME RequestsAssumption == BufferSize \in Nat /\ BufferSize >= RequestSize

\* A stream has an error from the start when there is no room at all.
OutputStream == [bytes |-> <<>>, failed |-> BufferSize = 0]

\* OutputStream::write: all bytes of a field or none.
Write(out, field) ==
  IF out.failed THEN out
  ELSE IF Len(out.bytes) + Len(field) > BufferSize
  THEN [bytes |-> out.bytes, failed |-> TRUE]
  ELSE [bytes |-> out.bytes \o field, failed |-> FALSE]

\* The numbers of two bytes.
U16s == {v \in Nat : v \div 256 < 256}

\* operator<<: the bytes of a field of one or two bytes, the highest first.
U8(v)  == <<v % 256>>
U16(v) == <<(v \div 256) % 256, v % 256>>

MessageODI  == 1
DataRequest == 5

\* A request begins with its type, what it requests, of which FU, and to subscribe.
RequestOf(out, fu) ==
  LET o1 == Write(out, U8(MessageODI))
      o2 == Write(o1, U8(DataRequest))
      o3 == Write(o2, U16(fu))
  IN  Write(o3, U8(0))

\* Then the mask of the displays, the validity, and which datum.
RequestFor(out, datum) ==
  LET o1 == Write(out, U8(1))
      o2 == Write(o1, U8(0))
  IN  Write(o2, U16(datum))

\* Then four numbers without meaning here.
RequestEnd(out) ==
  LET o1 == Write(out, U16(0))
      o2 == Write(o1, U16(0))
      o3 == Write(o2, U16(0))
  IN  Write(o3, U16(0))

\* What a stream holds after a request was written to it.
Requested(out, id) == RequestEnd(RequestFor(RequestOf(out, id[1]), id[2]))

\* The datum a peer reads from the bytes of a request; none if it is not one.
Asks(bytes, id) ==
  /\ Len(bytes) = RequestSize
  /\ bytes[1] = MessageODI /\ bytes[2] = DataRequest
  /\ id = <<256 * bytes[3] + bytes[4], 256 * bytes[8] + bytes[9]>>
=============================================================================
