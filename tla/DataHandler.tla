---------------------------- MODULE DataHandler -----------------------------
(***************************************************************************)
(* The data handler: the last value and status of each configured datum,   *)
(* and the timers that make a value not available once it has aged.        *)
(*                                                                         *)
(* The clock is the platform's (pilGetMonotonicTime): an unsigned counter  *)
(* of ClockMod values (2^32 milliseconds in the code) that wraps around.   *)
(***************************************************************************)
EXTENDS Naturals

CONSTANTS
  Ids,        \* the configured FU data ids (sorted, no duplicates)
  TypeOfId,   \* the data type configured for each id
  Timeout,    \* the repeat timeout configured for each id, 0 for none
  ForeignIds, \* ids a peer may send that are not configured
  Types,      \* the data types of messages
  Values,     \* the raw values
  ClockMod,   \* number of values of the clock
  AgeCap      \* the real age of a value is followed up to this bound

ASSUME DataAssumption ==
  /\ Ids \cap ForeignIds = {}
  /\ TypeOfId \in [Ids -> Types]
  /\ Timeout \in [Ids -> 0..(ClockMod - 1)]
  /\ 0 \in Values
  /\ ClockMod \in Nat \ {0}
  /\ AgeCap \in Nat /\ AgeCap >= ClockMod

VARIABLES
  status,  \* DynamicDataEntry::status
  value,   \* DynamicDataEntry::value
  start,   \* DynamicDataEntry::refreshTimer.m_startTime
  now,     \* pilGetMonotonicTime()
  age      \* history: the real time since the last setData, up to AgeCap

dataVars == <<status, value, start, now, age>>

Status == {"NOT_AVAILABLE", "VALID", "INVALID", "INCONSISTENT"}

DataTypeOK ==
  /\ status \in [Ids -> Status]
  /\ value \in [Ids -> Values]
  /\ start \in [Ids -> 0..(ClockMod - 1)]
  /\ now \in 0..(ClockMod - 1)
  /\ age \in [Ids -> 0..AgeCap]

\* The constructor: nothing was received yet.  The timers read 0 although the
\* clock may have run for any time.
DataInit ==
  /\ status = [i \in Ids |-> "NOT_AVAILABLE"]
  /\ value = [i \in Ids |-> 0]
  /\ start = [i \in Ids |-> 0]
  /\ now \in 0..(ClockMod - 1)
  /\ age = [i \in Ids |-> AgeCap]

\* Mutant: one millisecond lost at the wrap of the clock.
ElapsedShort(i) ==
  IF now >= start[i] THEN now - start[i] ELSE (ClockMod - 1) - (start[i] - now)

\* Timer::getElapsed, in unsigned arithmetic.
Elapsed(i) ==
  IF now >= start[i] THEN now - start[i]
  ELSE ((ClockMod - 1) - (start[i] - now)) + 1

\* Mutant: expires one millisecond late.
HasExpiredLate(i) == Elapsed(i) > Timeout[i]

\* Timer::hasExpired
HasExpired(i) == Elapsed(i) >= Timeout[i]

\* DataHandler::getNumber, the status it returns.
StatusOf(i) ==
  IF i \notin Ids \/ (Timeout[i] > 0 /\ HasExpired(i))
  THEN "NOT_AVAILABLE" ELSE status[i]

\* setData of several known ids in a row: their entries are stamped.
Store(S, newValue, newStatus) ==
  /\ value' = [i \in Ids |-> IF i \in S THEN newValue[i] ELSE value[i]]
  /\ status' = [i \in Ids |-> IF i \in S THEN newStatus ELSE status[i]]
  /\ start' = [i \in Ids |-> IF i \in S THEN now ELSE start[i]]
  /\ age' = [i \in Ids |-> IF i \in S THEN 0 ELSE age[i]]
  /\ UNCHANGED now

\* Mutant: the type of the value is not compared.
AcceptsAnyType(i, type) == i \in Ids

\* DataHandler::setData refuses unknown ids and values of another type.
Accepts(i, type) == i \in Ids /\ TypeOfId[i] = type

SetData(i, type, v, s) ==
  IF Accepts(i, type) THEN Store({i}, [x \in {i} |-> v], s)
  ELSE UNCHANGED dataVars

\* Mutant: refreshes what was once received as valid, aged or not.
RefreshAged == Store({i \in Ids : status[i] = "VALID"}, value, "VALID")

\* FUBridge::refresh: every datum that is still valid is stored again, which
\* stamps it anew.
Refresh == Store({i \in Ids : StatusOf(i) = "VALID"}, value, "VALID")

\* A millisecond passes.
Tick ==
  /\ now' = IF now = ClockMod - 1 THEN 0 ELSE now + 1
  /\ age' = [i \in Ids |-> IF age[i] = AgeCap THEN AgeCap ELSE age[i] + 1]
  /\ UNCHANGED <<status, value, start>>

\* FUBridge::onODIDynamicData gives a received value the status VALID or INVALID.
DataNext ==
  \/ \E i \in Ids \cup ForeignIds, type \in Types, v \in Values,
        s \in {"VALID", "INVALID"} : SetData(i, type, v, s)
  \/ Refresh
  \/ Tick

DataSpec == DataInit /\ [][DataNext]_dataVars

-----------------------------------------------------------------------------
\* As long as a value is younger than one turn of the clock, its timer shows
\* its real age, also when the clock wrapped in between.
ElapsedIsAge == \A i \in Ids : age[i] < ClockMod => Elapsed(i) = age[i]

\* What getNumber returns for a value younger than one turn of the clock: its
\* status up to the timeout, not available from then on.
AgesOnTime ==
  \A i \in Ids : age[i] < ClockMod =>
    StatusOf(i) = IF Timeout[i] > 0 /\ age[i] >= Timeout[i]
                  THEN "NOT_AVAILABLE" ELSE status[i]

\* Aging ends only with new data from a peer: neither a refresh nor the wrap of
\* the clock makes a value valid again that is younger than a turn of the clock.
AgedOut(i) == status[i] = "VALID" /\ StatusOf(i) = "NOT_AVAILABLE"

Resurrecting ==
  \A i \in Ids : AgedOut(i) /\ StatusOf(i)' = "VALID" =>
    \/ \E v \in Values : SetData(i, TypeOfId[i], v, "VALID")
    \/ age'[i] >= ClockMod

StaysAgedOut == [][Resurrecting]_dataVars
=============================================================================
