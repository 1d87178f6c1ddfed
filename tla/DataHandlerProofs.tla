------------------------- MODULE DataHandlerProofs --------------------------
(***************************************************************************)
(* What the data handler guarantees for every configuration and every      *)
(* clock: the unsigned arithmetic of the timers is right across a wrap.    *)
(***************************************************************************)
EXTENDS DataHandler, TLAPS

LEMMA InitDataTypeOK == DataInit => DataTypeOK
  BY DataAssumption DEF DataInit, DataTypeOK, Status

\* Storing values of the right type, with any status, keeps the types.
LEMMA StoreTypeOK ==
  ASSUME DataTypeOK, NEW S \in SUBSET Ids, NEW newValue,
         \A i \in S : newValue[i] \in Values,
         NEW newStatus \in Status, Store(S, newValue, newStatus)
  PROVE  DataTypeOK'
<1>1. value' \in [Ids -> Values]
  BY DEF Store, DataTypeOK
<1>2. status' \in [Ids -> Status] /\ start' \in [Ids -> 0..(ClockMod - 1)]
  BY DEF Store, DataTypeOK
<1>3. age' \in [Ids -> 0..AgeCap]
  BY DataAssumption DEF Store, DataTypeOK
<1>4. QED
  BY <1>1, <1>2, <1>3 DEF Store, DataTypeOK

\* A step of the data handler stores values of some ids, or lets time pass.
LEMMA DataSteps ==
  ASSUME DataTypeOK, [DataNext]_dataVars
  PROVE  \/ \E newValue : \E S \in SUBSET Ids, newStatus \in Status :
              /\ \A i \in S : newValue[i] \in Values
              /\ Store(S, newValue, newStatus)
         \/ Tick
         \/ UNCHANGED dataVars
<1>1. ASSUME NEW i \in Ids \cup ForeignIds, NEW type \in Types, NEW v \in Values,
             NEW s \in {"VALID", "INVALID"}, SetData(i, type, v, s)
      PROVE  \/ UNCHANGED dataVars
             \/ \E newValue : \E S \in SUBSET Ids, newStatus \in Status :
                  /\ \A j \in S : newValue[j] \in Values
                  /\ Store(S, newValue, newStatus)
  <2>1. CASE Accepts(i, type)
    <3> DEFINE S == {i}
               w == [x \in {i} |-> v]
    <3>1. S \in SUBSET Ids /\ s \in Status
      BY <2>1 DEF Accepts, Status
    <3>2. \A j \in S : w[j] \in Values
      OBVIOUS
    <3>3. Store(S, w, s)
      BY <1>1, <2>1 DEF SetData
    <3> HIDE DEF S, w
    <3>4. QED
      BY <3>1, <3>2, <3>3
  <2>2. CASE ~Accepts(i, type)
    BY <1>1, <2>2 DEF SetData
  <2>3. QED
    BY <2>1, <2>2
<1>2. ASSUME Refresh
      PROVE  \E newValue : \E S \in SUBSET Ids, newStatus \in Status :
               /\ \A j \in S : newValue[j] \in Values
               /\ Store(S, newValue, newStatus)
  <2> DEFINE S == {i \in Ids : StatusOf(i) = "VALID"}
  <2>1. "VALID" \in Status /\ S \in SUBSET Ids
    BY DEF Status
  <2>2. \A j \in S : value[j] \in Values
    BY DEF DataTypeOK
  <2>3. Store(S, value, "VALID")
    BY <1>2 DEF Refresh
  <2> HIDE DEF S
  <2>4. QED
    BY <2>1, <2>2, <2>3
<1>3. QED
  BY <1>1, <1>2 DEF DataNext

\* A tick keeps the types.
LEMMA TickTypeOK == DataTypeOK /\ Tick => DataTypeOK'
  BY DataAssumption DEF DataTypeOK, Tick

LEMMA NextDataTypeOK == DataTypeOK /\ [DataNext]_dataVars => DataTypeOK'
<1>1. DataTypeOK /\ UNCHANGED dataVars => DataTypeOK'
  BY DEF DataTypeOK, dataVars
<1>2. QED
  BY <1>1, DataSteps, StoreTypeOK, TickTypeOK

\* The entries stay well typed; the clock and the timers stay in the range of
\* an unsigned counter.
THEOREM DataTypeCorrect == DataSpec => []DataTypeOK
  BY InitDataTypeOK, NextDataTypeOK, PTL DEF DataSpec

-----------------------------------------------------------------------------
\* A step of the clock moves the timer and the age of every value alike, also
\* the step at which the clock wraps.
LEMMA TickElapsed == DataTypeOK /\ ElapsedIsAge /\ Tick => ElapsedIsAge'
<1> SUFFICES ASSUME DataTypeOK, ElapsedIsAge, Tick, NEW i \in Ids, age'[i] < ClockMod
             PROVE  Elapsed(i)' = age'[i]
  BY DEF ElapsedIsAge
<1>1. start[i] \in 0..(ClockMod - 1) /\ now \in 0..(ClockMod - 1) /\ age[i] \in 0..AgeCap
  BY DEF DataTypeOK
<1>2. age'[i] = age[i] + 1 /\ age[i] < ClockMod
  BY <1>1, DataAssumption DEF Tick
<1>3. Elapsed(i) = age[i]
  BY <1>2 DEF ElapsedIsAge
<1>4. start' = start /\ now' = IF now = ClockMod - 1 THEN 0 ELSE now + 1
  BY DEF Tick
<1>5. QED
  BY <1>1, <1>2, <1>3, <1>4, DataAssumption DEF Elapsed

\* A stored value is stamped with the clock.
LEMMA StoreElapsed ==
  ASSUME DataTypeOK, ElapsedIsAge, NEW S \in SUBSET Ids, NEW newValue, NEW newStatus,
         Store(S, newValue, newStatus)
  PROVE  ElapsedIsAge'
<1> SUFFICES ASSUME NEW i \in Ids, age'[i] < ClockMod
             PROVE  Elapsed(i)' = age'[i]
  BY DEF ElapsedIsAge
<1>1. CASE i \in S
  <2>1. start'[i] = now /\ now' = now /\ age'[i] = 0 /\ now \in Nat
    BY <1>1, DataAssumption DEF Store, DataTypeOK
  <2>2. QED
    BY <2>1 DEF Elapsed
<1>2. CASE i \notin S
  <2>1. start'[i] = start[i] /\ now' = now /\ age'[i] = age[i]
    BY <1>2 DEF Store
  <2>2. QED
    BY <2>1 DEF Elapsed, ElapsedIsAge
<1>3. QED
  BY <1>1, <1>2

LEMMA NextElapsed == DataTypeOK /\ ElapsedIsAge /\ [DataNext]_dataVars => ElapsedIsAge'
<1>1. ElapsedIsAge /\ UNCHANGED dataVars => ElapsedIsAge'
  BY DEF ElapsedIsAge, Elapsed, dataVars
<1>2. QED
  BY <1>1, DataSteps, StoreElapsed, TickElapsed

LEMMA InitElapsed == DataInit => ElapsedIsAge
  BY DataAssumption DEF DataInit, ElapsedIsAge

\* The timer of a value younger than one turn of the clock shows its age.
THEOREM TimersAreRight == DataSpec => []ElapsedIsAge
  BY InitDataTypeOK, NextDataTypeOK, InitElapsed, NextElapsed, PTL DEF DataSpec

\* A value is available exactly up to its timeout, for a turn of the clock.
THEOREM DataAgesOnTime == DataSpec => []AgesOnTime
<1>1. ElapsedIsAge => AgesOnTime
  BY DEF ElapsedIsAge, AgesOnTime, StatusOf, HasExpired
<1>2. QED
  BY <1>1, TimersAreRight, PTL

-----------------------------------------------------------------------------
\* A step that leaves the entry of i alone, or a tick, does not end its aging.
LEMMA AgingGoesOn ==
  ASSUME DataTypeOK, ElapsedIsAge, ElapsedIsAge', DataTypeOK',
         NEW i \in Ids, AgedOut(i), age'[i] < ClockMod, age[i] <= age'[i]
  PROVE  StatusOf(i)' # "VALID"
<1>1. age[i] \in Nat /\ age'[i] \in Nat /\ Timeout[i] \in Nat /\ ClockMod \in Nat
  BY DataAssumption DEF DataTypeOK
<1>2. Timeout[i] > 0 /\ Elapsed(i) >= Timeout[i]
  BY DEF AgedOut, StatusOf, HasExpired
<1>3. Elapsed(i) = age[i] /\ Elapsed(i)' = age'[i]
  BY <1>1 DEF ElapsedIsAge
<1>4. QED
  BY <1>1, <1>2, <1>3 DEF StatusOf, HasExpired

\* A value that aged out becomes valid again only with new data, or when the
\* clock has gone round.
LEMMA AgedOutStays ==
  DataTypeOK /\ ElapsedIsAge /\ DataTypeOK' /\ ElapsedIsAge' /\ [DataNext]_dataVars
    => Resurrecting
<1> SUFFICES ASSUME DataTypeOK, ElapsedIsAge, DataTypeOK', ElapsedIsAge',
                    [DataNext]_dataVars,
                    NEW i \in Ids, AgedOut(i), StatusOf(i)' = "VALID",
                    ~(age'[i] >= ClockMod)
             PROVE  \E v \in Values : SetData(i, TypeOfId[i], v, "VALID")
  BY DEF Resurrecting
<1>1. age[i] \in Nat /\ age'[i] \in Nat /\ ClockMod \in Nat
  BY DataAssumption DEF DataTypeOK
<1>2. ~(age[i] <= age'[i])
  BY <1>1, AgingGoesOn
<1>3. ASSUME NEW j \in Ids \cup ForeignIds, NEW type \in Types, NEW v \in Values,
             NEW s \in {"VALID", "INVALID"}, SetData(j, type, v, s)
      PROVE  SetData(i, TypeOfId[i], v, "VALID")
  <2>1. Accepts(j, type)
    BY <1>1, <1>2, <1>3 DEF SetData, dataVars
  <2>2. j = i
    BY <1>1, <1>2, <1>3, <2>1 DEF SetData, Store
  <2>3. s = "VALID"
    <3>1. status'[i] = s
      BY <1>3, <2>1, <2>2 DEF SetData, Store
    <3>2. status'[i] = "VALID"
      BY DEF StatusOf
    <3>3. QED
      BY <3>1, <3>2
  <2>4. QED
    BY <1>3, <2>1, <2>2, <2>3 DEF Accepts
<1>4. ~Refresh
  BY <1>1, <1>2 DEF Refresh, Store, AgedOut
<1>5. ~Tick
  BY <1>1, <1>2, DataAssumption DEF Tick, DataTypeOK
<1>6. ~UNCHANGED dataVars
  BY <1>1, <1>2 DEF dataVars
<1>7. QED
  BY <1>3, <1>4, <1>5, <1>6 DEF DataNext

\* Data that aged out stay so until they are sent again.
THEOREM AgedDataStayAgedOut == DataSpec => StaysAgedOut
  BY InitDataTypeOK, NextDataTypeOK, InitElapsed, NextElapsed, AgedOutStays, PTL
     DEF DataSpec, StaysAgedOut
=============================================================================
