--------------------------- MODULE PlcServerProofs ---------------------------
(***************************************************************************)
(* Proofs about the PLC program, for every ring capacity: types, the order *)
(* of the ring buffer, and that it keeps the promise of HistoryWindow.     *)
(***************************************************************************)
EXTENDS PlcServer, TLAPS

LEMMA WordsAreNat == Words \subseteq Nat
BY DEF Words

LEMMA EnergyType == MaxEnergy \in Nat /\ 0 .. MaxEnergy \subseteq Words
BY BoundAssumption DEF Words

LEMMA HistorySlot ==
  ASSUME NEW a \in Nat, a < Capacity * RecordWords
  PROVE  a \div RecordWords \in Slots /\ a % RecordWords \in Nat
BY CapacityAssumption DEF Slots, RecordWords

LEMMA DecodeType ==
  ASSUME NEW w \in [CommandOffsets -> Words]
  PROVE  Decode(w) \in Command
<1>1. \A k \in CommandOffsets : w[k] \in Words
  OBVIOUS
<1>2. {0, 1, 2, 3, 4, 5, 10, 11, 12} \subseteq CommandOffsets
  BY DEF CommandOffsets
<1>3. w[0] \in Words /\ w[4] \in Words /\ w[11] \in Nat /\ w[12] \in Nat
  BY WordsAreNat, <1>1, <1>2
<1>4. w[11] * 65536 + w[12] \in Nat
  BY <1>3
<1> QED BY <1>3, <1>4 DEF Decode, Command

LEMMA WordType ==
  ASSUME NEW rec \in Record, NEW o \in Nat
  PROVE  WordAt(rec, o) \in Words
<1>1. \A c \in Compressors : rec.comp[c].energy \in Words
  BY EnergyType DEF Record, Drive
<1>2. \A c \in Compressors, on \in BOOLEAN, i \in 1 .. 5 : PowerWords(c, on)[i] \in Words
  <2> SUFFICES ASSUME NEW c, NEW on, NEW i \in 1 .. 5 PROVE PowerWords(c, on)[i] \in Words
    OBVIOUS
  <2>1. {0, 9, 11, 34, 37, 42, 44, 500, 970, 980} \subseteq Words
    BY DEF Words
  <2>2. CASE i = 1
    BY <2>1, <2>2 DEF PowerWords
  <2>3. CASE i = 2
    BY <2>1, <2>3 DEF PowerWords
  <2>4. CASE i = 3
    BY <2>1, <2>4 DEF PowerWords
  <2>5. CASE i = 4
    BY <2>1, <2>5 DEF PowerWords
  <2>6. CASE i = 5
    BY <2>1, <2>6 DEF PowerWords
  <2> QED BY <2>2, <2>3, <2>4, <2>5, <2>6
<1>3. 1 \in Compressors /\ 2 \in Compressors /\ 0 \in Words
  BY DEF Compressors, Words
<1>4. rec.comp[1].on \in BOOLEAN /\ rec.comp[2].on \in BOOLEAN
  BY <1>3 DEF Record, Drive
<1>5. CASE o \in 20 .. 24
  <2>1. o - 19 \in 1 .. 5
    BY <1>5
  <2> QED BY <1>2, <1>3, <1>4, <1>5, <2>1 DEF WordAt
<1>6. CASE o \notin 20 .. 24 /\ o \in 28 .. 32
  <2>1. o - 27 \in 1 .. 5 /\ o # 25
    BY <1>6
  <2> QED BY <1>2, <1>3, <1>4, <1>6, <2>1 DEF WordAt
<1>7. CASE o \notin 20 .. 24 /\ o \notin 28 .. 32
  BY <1>1, <1>3, <1>7 DEF WordAt
<1> QED BY <1>5, <1>6, <1>7

LEMMA OverlayType ==
  ASSUME NEW w \in [CommandOffsets -> Words], NEW h \in [Slots -> Record]
  PROVE  Overlay(w, h) \in [CommandOffsets -> Words]
<1> SUFFICES ASSUME NEW k \in CommandOffsets,
                    CommandBase + k - HistoryBase < Capacity * RecordWords
             PROVE  WordAt(h[(CommandBase + k - HistoryBase) \div RecordWords],
                           (CommandBase + k - HistoryBase) % RecordWords) \in Words
  BY DEF Overlay
<1> DEFINE a == CommandBase + k - HistoryBase
<1>1. a \in Nat
  BY DEF CommandOffsets, CommandBase, HistoryBase
<1>2. a \div RecordWords \in Slots /\ a % RecordWords \in Nat
  BY <1>1, HistorySlot
<1> QED BY <1>2, WordType

LEMMA NoRecordType == NoRecord \in Record
BY BoundAssumption DEF NoRecord, Record, Idle, Drive, Words

LEMMA ZerosType == Zeros \in [CommandOffsets -> Words]
BY DEF Zeros, Words

LEMMA BlankType == Blank \in Wire
BY NoRecordType, CapacityAssumption DEF Blank, Wire, Slots

\* What both Init and Restart establish.
LEMMA PowerUpType ==
  /\ Decode(Zeros) \in Command
  /\ NoRequest \in RequestBits
  /\ [c \in Compressors |-> Idle] \in [Compressors -> Drive]
  /\ [c \in Compressors |-> FALSE] \in [Compressors -> BOOLEAN]
  /\ [s \in Slots |-> NoRecord] \in [Slots -> Record]
  /\ 0 \in Slots /\ 0 \in 0 .. Capacity
<1>1. Decode(Zeros) \in Command
  BY ZerosType, DecodeType
<1>2. NoRequest \in RequestBits
  BY DEF NoRequest, RequestBits
<1>3. Idle \in Drive
  BY BoundAssumption DEF Idle, Drive, Words
<1>4. 0 \in Slots /\ 0 \in 0 .. Capacity
  BY CapacityAssumption DEF Slots
<1> QED BY <1>1, <1>2, <1>3, <1>4, NoRecordType

LEMMA TypeInit == Init => TypeOK
<1> SUFFICES ASSUME Init PROVE TypeOK
  OBVIOUS
<1> USE DEF Init
<1>1. CommandOK
  BY PowerUpType, ZerosType DEF CommandOK
<1>2. RingOK
  BY PowerUpType, NoRecordType, BlankType DEF RingOK
<1>3. /\ comp \in [Compressors -> Drive]
      /\ runOut \in [Compressors -> BOOLEAN]
  BY PowerUpType
<1>4. block \in Blocks
  BY DEF Blocks
<1>5. writes \in 0 .. MaxWrites /\ restarts \in 0 .. MaxRestarts
  BY BoundAssumption
<1> QED BY <1>1, <1>2, <1>3, <1>4, <1>5 DEF TypeOK

LEMMA TypeNext == TypeOK /\ [Next]_vars => TypeOK'
<1> SUFFICES ASSUME TypeOK, [Next]_vars PROVE TypeOK'
  OBVIOUS
<1>9. CASE Restart
  <2> USE <1>9 DEF Restart
  <2>1. CommandOK'
    BY PowerUpType, ZerosType DEF CommandOK
  <2>2. RingOK'
    BY PowerUpType, NoRecordType, BlankType DEF RingOK
  <2>3. comp' \in [Compressors -> Drive] /\ runOut' \in [Compressors -> BOOLEAN]
    BY PowerUpType
  <2>4. block' \in Blocks
    BY DEF Blocks
  <2>5. writes' \in 0 .. MaxWrites /\ restarts' \in 0 .. MaxRestarts
    BY BoundAssumption DEF TypeOK
  <2> QED BY <2>1, <2>2, <2>3, <2>4, <2>5 DEF TypeOK
<1> USE DEF TypeOK, CommandOK, RingOK
<1>1. CASE Runtime
  <2>1. cmd.unix \in Nat
    BY DEF Command
  <2>2. halfQ' \in BOOLEAN /\ secondQ' \in BOOLEAN
    BY <1>1 DEF Runtime
  <2>3. tick' \in BOOLEAN /\ unixNow' \in Nat
    BY <1>1, <2>1, <2>2 DEF Runtime
  <2> QED BY <1>1, <2>2, <2>3 DEF Runtime, Blocks, plant, server, ring, registers, client
<1>2. CASE Signals
  <2>1. comp' \in [Compressors -> Drive]
    <3>1. CASE \E step \in [Compressors -> {0, 1}] :
               comp' = [c \in Compressors |->
                 [on |-> Runs(c),
                  energy |-> IF Runs(c) /\ comp[c].energy < MaxEnergy
                             THEN comp[c].energy + step[c] ELSE comp[c].energy]]
      <4>1. \A c \in Compressors : Runs(c) \in BOOLEAN
        BY DEF Runs, Command
      <4>2. \A c \in Compressors, i \in {0, 1} :
              comp[c].energy < MaxEnergy => comp[c].energy + i \in 0 .. MaxEnergy
        <5>1. \A c \in Compressors : comp[c].energy \in 0 .. MaxEnergy
          BY DEF Drive
        <5> QED BY <5>1, EnergyType
      <4> QED BY <3>1, <4>1, <4>2 DEF Drive
    <3> QED BY <1>2, <3>1 DEF Signals
  <2> QED BY <1>2, <2>1 DEF Signals, Blocks, clock, server, ring, registers, client
<1>3. CASE Outputs
  <2>1. runOut' \in [Compressors -> BOOLEAN]
    BY <1>3 DEF Outputs, Command
  <2> QED BY <1>3, <2>1 DEF Outputs, Blocks, clock, server, ring, registers, client
<1>4. CASE Server
  <2>1. edge' \in RequestBits
    BY <1>4 DEF Server, Rising, Requests, RequestBits, Command
  <2>2. plcUnix' \in Nat
    BY <1>4 DEF Server, Command
  <2>3. seq' \in Nat /\ live' \in Record
    <3>1. CASE TakeSample
      BY <3>1, <2>2 DEF TakeSample, Record, Command
    <3> QED BY <1>4, <3>1 DEF Server
  <2> QED BY <1>4, <2>1, <2>2, <2>3 DEF Server, Blocks, clock, plant, registers, client
<1>5. CASE RingBuffer
  <2>1. prev' \in RequestBits
    BY <1>5 DEF RingBuffer, Requests, RequestBits, Command
  <2>2. lastSeq' \in Nat /\ history' \in [Slots -> Record]
    BY <1>5 DEF RingBuffer, Store, Record
  <2>3. writeIndex' \in Slots /\ recordCount' \in 0 .. Capacity
    BY <1>5, CapacityAssumption DEF RingBuffer, Store, Slots
  <2> QED BY <1>5, <2>1, <2>2, <2>3 DEF RingBuffer, Blocks, clock, plant, registers, client
<1>6. CASE RegisterMap
  <2>1. cmd' \in Command /\ holding' \in [CommandOffsets -> Words]
    BY <1>6, DecodeType, OverlayType DEF RegisterMap
  <2>2. wire' \in Wire
    BY <1>6 DEF RegisterMap, Wire, RequestBits
  <2> QED BY <1>6, <2>1, <2>2 DEF RegisterMap, Blocks, clock, plant, server, ring, client
<1>7. CASE ModbusRead
  BY <1>7 DEF ModbusRead, Blocks, clock, plant, server, ring, registers, client
<1>8. CASE ModbusWrite
  <2>1. PICK w \in ClientWrites : /\ holding' = Write(holding, w)
                                  /\ asked' = Write(asked, w)
    BY <1>8 DEF ModbusWrite
  <2>2. holding' \in [CommandOffsets -> Words] /\ asked' \in [CommandOffsets -> Words]
    BY <2>1, WritesAssumption DEF Write
  <2> QED BY <1>8, <2>2, BoundAssumption
          DEF ModbusWrite, Blocks, clock, plant, server, ring
<1>10. CASE UNCHANGED vars
  BY <1>10 DEF vars, clock, plant, server, ring, registers, client
<1> QED BY <1>1, <1>2, <1>3, <1>4, <1>5, <1>6, <1>7, <1>8, <1>9, <1>10 DEF Next

\* Every variable of the PLC program keeps its type, command words stay 16-bit words.
THEOREM PlcTypeCorrect == Spec => []TypeOK
BY TypeInit, TypeNext, PTL DEF Spec

-----------------------------------------------------------------------------
(* The ring.                                                               *)

LEMMA RingInit == Init => RingInv
<1> SUFFICES ASSUME Init PROVE RingInv
  OBVIOUS
<1>1. /\ ~ tick /\ ~ ringPrev /\ block = "runtime"
      /\ seq = 0 /\ lastSeq = 0 /\ writeIndex = 0 /\ recordCount = 0
      /\ live.seq = 0
  BY DEF Init, NoRecord
<1> QED BY <1>1, CapacityAssumption DEF RingInv, RingInOrder, Slots

LEMMA RingStart == Restart => RingInv'
<1> SUFFICES ASSUME Restart PROVE RingInv'
  OBVIOUS
<1>1. /\ ~ tick' /\ ~ ringPrev' /\ block' = "runtime"
      /\ seq' = 0 /\ lastSeq' = 0 /\ writeIndex' = 0 /\ recordCount' = 0
      /\ live'.seq = 0
  BY DEF Restart, NoRecord
<1> QED BY <1>1, CapacityAssumption DEF RingInv, RingInOrder, Slots

LEMMA RingStore ==
  ASSUME TypeOK, RingInv, RingBuffer, tick
  PROVE  /\ lastSeq' = lastSeq + 1
         /\ recordCount' = IF lastSeq' < Capacity THEN lastSeq' ELSE Capacity
         /\ lastSeq' < Capacity => writeIndex' = lastSeq'
         /\ RingInOrder'
<1> USE CapacityAssumption DEF TypeOK, RingOK
<1>1. ~ ringPrev /\ Store /\ live.seq = lastSeq + 1
  BY DEF RingBuffer, RingInv
<1>2. lastSeq' = lastSeq + 1
  BY <1>1 DEF Store
<1>3. recordCount' = IF lastSeq' < Capacity THEN lastSeq' ELSE Capacity
  BY <1>1, <1>2 DEF Store, RingInv
<1>4. lastSeq' < Capacity => writeIndex' = lastSeq'
  BY <1>1, <1>2 DEF Store, RingInv
<1>5. RingInOrder'
  <2> SUFFICES ASSUME NEW s \in Slots
               PROVE  /\ s < writeIndex' => history'[s].seq = lastSeq' - writeIndex' + s + 1
                      /\ s >= writeIndex' /\ recordCount' = Capacity =>
                           history'[s].seq = lastSeq' - writeIndex' - Capacity + s + 1
    BY DEF RingInOrder
  <2>0. s \in Nat /\ writeIndex \in Nat /\ s < Capacity /\ writeIndex < Capacity
    BY DEF Slots
  <2>1. history'[s] = IF s = writeIndex THEN live ELSE history[s]
    BY <1>1 DEF Store
  <2>2. /\ s < writeIndex => history[s].seq = lastSeq - writeIndex + s + 1
        /\ s >= writeIndex /\ recordCount = Capacity =>
             history[s].seq = lastSeq - writeIndex - Capacity + s + 1
    BY DEF RingInv, RingInOrder
  <2>3. CASE writeIndex < Capacity - 1
    <3>1. writeIndex' = writeIndex + 1
      BY <1>1, <2>0, <2>3 DEF Store
    <3>2. CASE s < writeIndex'
      BY <1>1, <1>2, <2>0, <2>1, <2>2, <3>1, <3>2
    <3>3. CASE s >= writeIndex' /\ recordCount' = Capacity
      <4>1. recordCount = Capacity
        BY <1>3, <1>2, <2>0, <2>3, <3>3 DEF RingInv
      <4> QED BY <1>2, <2>0, <2>1, <2>2, <3>1, <3>3, <4>1
    <3> QED BY <3>2, <3>3, <2>0, <3>1
  <2>4. CASE writeIndex = Capacity - 1
    <3>1. writeIndex' = 0
      BY <1>1, <2>0, <2>4 DEF Store
    <3> QED BY <1>1, <1>2, <2>0, <2>1, <2>2, <2>4, <3>1
  <2> QED BY <2>0, <2>3, <2>4
<1> QED BY <1>2, <1>3, <1>4, <1>5

LEMMA RingNext == TypeOK /\ RingInv /\ [Next]_vars => RingInv'
<1> SUFFICES ASSUME TypeOK, RingInv, [Next]_vars PROVE RingInv'
  OBVIOUS
<1> USE DEF TypeOK, RingOK
<1>1. CASE Runtime
  <2>1. halfQ => ~ tick'
    BY <1>1 DEF Runtime
  <2>2. ~ halfQ => ~ ringPrev
    BY <1>1 DEF Runtime, RingInv
  <2> QED BY <1>1, <2>1, <2>2 DEF Runtime, RingInv, RingInOrder, server, ring
<1>2. CASE Signals
  BY <1>2 DEF Signals, RingInv, RingInOrder, clock, server, ring
<1>3. CASE Outputs
  BY <1>3 DEF Outputs, RingInv, RingInOrder, clock, server, ring
<1>4. CASE Server
  <2>1. CASE tick
    BY <1>4, <2>1 DEF Server, TakeSample, RingInv, RingInOrder, clock
  <2>2. CASE ~ tick
    BY <1>4, <2>2 DEF Server, RingInv, RingInOrder, clock
  <2> QED BY <2>1, <2>2
<1>5. CASE RingBuffer
  <2>1. CASE tick
    BY <1>5, <2>1, RingStore DEF RingBuffer, RingInv, clock
  <2>2. CASE ~ tick
    BY <1>5, <2>2 DEF RingBuffer, RingInv, RingInOrder, clock
  <2> QED BY <2>1, <2>2
<1>6. CASE RegisterMap
  BY <1>6 DEF RegisterMap, RingInv, RingInOrder, clock, server, ring
<1>7. CASE ModbusRead
  BY <1>7 DEF ModbusRead, RingInv, RingInOrder, clock, server, ring
<1>8. CASE ModbusWrite
  BY <1>8 DEF ModbusWrite, RingInv, RingInOrder, clock, server, ring
<1>9. CASE Restart
  BY <1>9, RingStart
<1>10. CASE UNCHANGED vars
  BY <1>10 DEF vars, RingInv, RingInOrder, clock, server, ring
<1> QED BY <1>1, <1>2, <1>3, <1>4, <1>5, <1>6, <1>7, <1>8, <1>9, <1>10 DEF Next

\* The ring buffer holds the newest samples in order, for every capacity.
THEOREM RingOrdered == Spec => []RingInOrder
<1>1. Spec => [](TypeOK /\ RingInv)
  BY TypeInit, TypeNext, RingInit, RingNext, PTL DEF Spec
<1>2. RingInv => RingInOrder
  BY DEF RingInv
<1> QED BY <1>1, <1>2, PTL
-----------------------------------------------------------------------------
(* Samples are found where the client looks for them.                      *)

LEMMA Laps ==
  ASSUME NEW k \in Nat, NEW c \in Nat \ {0}, NEW w \in 0 .. (c - 1)
  PROVE  (k * c + w) % c = w
OBVIOUS

LEMMA LapsOfCapacity ==
  ASSUME NEW k \in Nat, NEW w \in Slots
  PROVE  \A n : n - 1 = k * Capacity + w => SlotOf(n) = w
<1>1. (k * Capacity + w) % Capacity = w
  BY Laps, CapacityAssumption DEF Slots
<1> QED BY <1>1 DEF SlotOf

LEMMA LapInit == Init => LapInv /\ NewestIsLive
<1> SUFFICES ASSUME Init PROVE LapInv /\ NewestIsLive
  OBVIOUS
<1>1. lastSeq = 0 /\ writeIndex = 0
  BY DEF Init
<1>2. lastSeq = 0 * Capacity + writeIndex
  BY <1>1, CapacityAssumption
<1> QED BY <1>1, <1>2 DEF LapInv, NewestIsLive

LEMMA LapNext == TypeOK /\ RingInv /\ LapInv /\ NewestIsLive /\ [Next]_vars
                 => LapInv' /\ NewestIsLive'
<1> SUFFICES ASSUME TypeOK, RingInv, LapInv, NewestIsLive, [Next]_vars
             PROVE  LapInv' /\ NewestIsLive'
  OBVIOUS
<1> USE CapacityAssumption DEF TypeOK, RingOK
<1>1. CASE RingBuffer /\ tick
  <2>1. ~ ringPrev /\ Store
    BY <1>1 DEF RingBuffer, RingInv
  <2>2. lastSeq' = lastSeq + 1 /\ block' = "map" /\ UNCHANGED live
    BY <1>1, RingStore DEF RingBuffer
  <2>3. PICK laps \in Nat : lastSeq = laps * Capacity + writeIndex
    BY DEF LapInv
  <2>4. history'[writeIndex] = live
    BY <2>1 DEF Store
  <2>5. CASE writeIndex = Capacity - 1
    <3>1. writeIndex' = 0
      BY <2>1, <2>5 DEF Store
    <3>2. lastSeq' = (laps + 1) * Capacity + writeIndex'
      BY <2>2, <2>3, <2>5, <3>1
    <3> QED BY <2>2, <2>4, <2>5, <3>1, <3>2 DEF LapInv, NewestIsLive, NewestSlot
  <2>6. CASE writeIndex < Capacity - 1
    <3>1. writeIndex' = writeIndex + 1
      BY <2>1, <2>6 DEF Store, Slots
    <3>2. lastSeq' = laps * Capacity + writeIndex'
      BY <2>2, <2>3, <3>1 DEF Slots
    <3>3. writeIndex' # 0 /\ writeIndex' - 1 = writeIndex
      BY <3>1 DEF Slots
    <3> QED BY <2>2, <2>4, <3>2, <3>3 DEF LapInv, NewestIsLive, NewestSlot
  <2> QED BY <2>5, <2>6 DEF Slots
<1>2. CASE Restart
  <2>1. lastSeq' = 0 /\ writeIndex' = 0
    BY <1>2 DEF Restart
  <2>2. lastSeq' = 0 * Capacity + writeIndex'
    BY <2>1
  <2> QED BY <2>1, <2>2 DEF LapInv, NewestIsLive
<1>3. CASE Server
  <2>1. UNCHANGED <<lastSeq, writeIndex, history, tick>> /\ block' = "ring"
    BY <1>3 DEF Server, clock
  <2>2. ~ tick => UNCHANGED live
    BY <1>3 DEF Server
  <2> QED BY <1>3, <2>1, <2>2 DEF LapInv, NewestIsLive, NewestSlot, Server
<1>4. CASE RingBuffer /\ ~ tick
  BY <1>4 DEF RingBuffer, LapInv, NewestIsLive, NewestSlot, clock
<1>5. CASE Runtime \/ Signals \/ Outputs \/ RegisterMap \/ ModbusRead \/ ModbusWrite
  <2>1. UNCHANGED <<lastSeq, writeIndex, history, live>> /\ block # "ring"
    BY <1>5 DEF Runtime, Signals, Outputs, RegisterMap, ModbusRead, ModbusWrite, server, ring
  <2> QED BY <2>1 DEF LapInv, NewestIsLive, NewestSlot
<1>6. CASE UNCHANGED vars
  BY <1>6 DEF vars, clock, server, ring, LapInv, NewestIsLive, NewestSlot
<1> QED BY <1>1, <1>2, <1>3, <1>4, <1>5, <1>6 DEF Next

LEMMA RingFound == TypeOK /\ RingInv /\ LapInv => FoundInSlots(history, lastSeq)
<1> SUFFICES ASSUME TypeOK, RingInv, LapInv,
                    NEW n \in 1 .. lastSeq, n > lastSeq - Capacity
             PROVE  history[SlotOf(n)].seq = n
  BY DEF FoundInSlots
<1> USE CapacityAssumption DEF TypeOK, RingOK
<1>1. PICK laps \in Nat : lastSeq = laps * Capacity + writeIndex
  BY DEF LapInv
<1>2. CASE n > lastSeq - writeIndex
  <2> DEFINE s == n - 1 - lastSeq + writeIndex
  <2>1. s \in Slots /\ s < writeIndex
    BY <1>2 DEF Slots
  <2>2. n - 1 = laps * Capacity + s
    BY <1>1 DEF Slots
  <2>3. SlotOf(n) = s
    BY <2>1, <2>2, LapsOfCapacity
  <2> QED BY <2>1, <2>3 DEF RingInv, RingInOrder, Slots
<1>3. CASE n <= lastSeq - writeIndex
  <2> DEFINE s == n - 1 - lastSeq + writeIndex + Capacity
  <2>1. s \in Slots /\ s >= writeIndex
    BY <1>3 DEF Slots
  <2>2. laps # 0
    BY <1>1, <1>3 DEF Slots
  <2>3. laps - 1 \in Nat /\ laps * Capacity = (laps - 1) * Capacity + Capacity
    BY <2>2
  <2>4. n - 1 = (laps - 1) * Capacity + s
    BY <1>1, <2>3 DEF Slots
  <2>5. SlotOf(n) = s
    BY <2>1, <2>3, <2>4, LapsOfCapacity
  <2>6. recordCount = Capacity
    <3>1. (laps - 1) * Capacity \in Nat
      BY <2>3
    <3>2. lastSeq >= Capacity
      BY <1>1, <2>3, <3>1 DEF Slots
    <3> QED BY <3>2 DEF RingInv
  <2> QED BY <2>1, <2>5, <2>6 DEF RingInv, RingInOrder, Slots
<1> QED BY <1>2, <1>3 DEF Slots

LEMMA RingNewest ==
  TypeOK /\ RingInv /\ LapInv /\ NewestIsLive /\ block = "map" /\ lastSeq # 0
  => history[SlotOf(lastSeq)] = live
<1> SUFFICES ASSUME TypeOK, RingInv, LapInv, NewestIsLive, block = "map", lastSeq # 0
             PROVE  history[SlotOf(lastSeq)] = live
  OBVIOUS
<1> USE CapacityAssumption DEF TypeOK, RingOK
<1>1. PICK laps \in Nat : lastSeq = laps * Capacity + writeIndex
  BY DEF LapInv
<1>2. NewestSlot \in Slots /\ history[NewestSlot] = live
  BY DEF NewestIsLive, NewestSlot, Slots
<1>3. CASE writeIndex # 0
  <2>1. lastSeq - 1 = laps * Capacity + NewestSlot
    BY <1>1, <1>3 DEF NewestSlot, Slots
  <2> QED BY <1>2, <2>1, LapsOfCapacity
<1>4. CASE writeIndex = 0
  <2>1. laps # 0
    BY <1>1, <1>4
  <2>2. laps - 1 \in Nat /\ laps * Capacity = (laps - 1) * Capacity + Capacity
    BY <2>1
  <2>3. lastSeq - 1 = (laps - 1) * Capacity + NewestSlot
    <3>1. lastSeq = laps * Capacity /\ NewestSlot = Capacity - 1
      BY <1>1, <1>4 DEF NewestSlot
    <3> QED BY <2>2, <3>1
  <2> QED BY <1>2, <2>2, <2>3, LapsOfCapacity
<1> QED BY <1>3, <1>4

LEMMA WireInit == Init => SlotOfSequence /\ WireConsistent
<1> SUFFICES ASSUME Init PROVE SlotOfSequence /\ WireConsistent
  OBVIOUS
<1>1. wire.lastSeq = 0
  BY DEF Init, Blank
<1> QED BY <1>1 DEF SlotOfSequence, FoundInSlots, WireConsistent

LEMMA WireNext ==
  TypeOK /\ RingInv /\ LapInv /\ NewestIsLive /\ SlotOfSequence /\ WireConsistent /\ [Next]_vars
  => SlotOfSequence' /\ WireConsistent'
<1> SUFFICES ASSUME TypeOK, RingInv, LapInv, NewestIsLive, SlotOfSequence, WireConsistent,
                    [Next]_vars
             PROVE  SlotOfSequence' /\ WireConsistent'
  OBVIOUS
<1>1. CASE RegisterMap
  <2>1. wire'.history = history /\ wire'.lastSeq = lastSeq /\ wire'.live = live
    BY <1>1 DEF RegisterMap
  <2>2. FoundInSlots(history, lastSeq)
    BY RingFound
  <2>3. lastSeq # 0 => history[SlotOf(lastSeq)] = live
    BY <1>1, RingNewest DEF RegisterMap
  <2> QED BY <2>1, <2>2, <2>3 DEF SlotOfSequence, FoundInSlots, WireConsistent, SlotOf
<1>2. CASE Restart
  <2>1. wire'.lastSeq = 0
    BY <1>2 DEF Restart, Blank
  <2> QED BY <2>1 DEF SlotOfSequence, FoundInSlots, WireConsistent
<1>3. CASE Runtime \/ Signals \/ Outputs \/ Server \/ RingBuffer \/ ModbusRead \/ ModbusWrite
           \/ UNCHANGED vars
  <2>1. wire' = wire
    BY <1>3 DEF Runtime, Signals, Outputs, Server, RingBuffer, ModbusRead, ModbusWrite, vars,
                registers
  <2> QED BY <2>1 DEF SlotOfSequence, FoundInSlots, WireConsistent, SlotOf
<1> QED BY <1>1, <1>2, <1>3 DEF Next

PlcInv == TypeOK /\ RingInv /\ LapInv /\ NewestIsLive /\ SlotOfSequence /\ WireConsistent

LEMMA PlcInductive == Spec => []PlcInv
<1>1. Init => PlcInv
  BY TypeInit, RingInit, LapInit, WireInit DEF PlcInv
<1>2. PlcInv /\ [Next]_vars => PlcInv'
  BY TypeNext, RingNext, LapNext, WireNext DEF PlcInv
<1> QED BY <1>1, <1>2, PTL DEF Spec

\* For every capacity the client finds each sample that is kept in the slot it computes.
THEOREM SamplesFound == Spec => []SlotOfSequence
<1>1. PlcInv => SlotOfSequence
  BY DEF PlcInv
<1> QED BY <1>1, PlcInductive, PTL

\* The published live record is always the newest published history record.
THEOREM WireIsConsistent == Spec => []WireConsistent
<1>1. PlcInv => WireConsistent
  BY DEF PlcInv
<1> QED BY <1>1, PlcInductive, PTL

-----------------------------------------------------------------------------
(* The ring implements HistoryWindow.                                      *)

Kept == {history[s].seq : s \in {i \in Slots : i < recordCount}}
KeptOK == Kept = Window!Newest(lastSeq)

LEMMA KeptIsNewest == PlcInv => KeptOK
<1> SUFFICES ASSUME PlcInv PROVE Kept = Window!Newest(lastSeq)
  BY DEF KeptOK
<1> USE CapacityAssumption DEF PlcInv, TypeOK, RingOK
<1>1. ASSUME NEW s \in Slots, s < recordCount PROVE history[s].seq \in Window!Newest(lastSeq)
  <2>1. CASE s < writeIndex
    <3>1. history[s].seq = lastSeq - writeIndex + s + 1
      BY <2>1 DEF RingInv, RingInOrder
    <3>2. writeIndex <= lastSeq
      BY DEF RingInv, Slots
    <3> QED BY <2>1, <3>1, <3>2 DEF Window!Newest, Slots
  <2>2. CASE s >= writeIndex
    <3>1. recordCount = Capacity /\ lastSeq >= Capacity
      BY <1>1, <2>2 DEF RingInv, Slots
    <3>2. history[s].seq = lastSeq - writeIndex - Capacity + s + 1
      BY <2>2, <3>1 DEF RingInv, RingInOrder
    <3> QED BY <2>2, <3>1, <3>2 DEF Window!Newest, Slots
  <2> QED BY <2>1, <2>2 DEF Slots
<1>2. ASSUME NEW n \in Window!Newest(lastSeq)
      PROVE  \E s \in Slots : s < recordCount /\ history[s].seq = n
  <2>0. n \in 1 .. lastSeq /\ n > lastSeq - Capacity
    BY DEF Window!Newest
  <2>1. CASE n > lastSeq - writeIndex
    <3> DEFINE s == n - 1 - lastSeq + writeIndex
    <3>1. s \in Slots /\ s < writeIndex
      BY <2>0, <2>1 DEF Slots
    <3>2. history[s].seq = n
      BY <2>0, <3>1 DEF RingInv, RingInOrder, Slots
    <3>3. s < recordCount
      BY <3>1 DEF RingInv, Slots
    <3> QED BY <3>1, <3>2, <3>3
  <2>2. CASE n <= lastSeq - writeIndex
    <3> DEFINE s == n - 1 - lastSeq + writeIndex + Capacity
    <3>1. s \in Slots /\ s >= writeIndex
      BY <2>0, <2>2 DEF Slots
    <3>2. lastSeq >= Capacity /\ recordCount = Capacity
      BY <2>0, <2>2 DEF RingInv, Slots
    <3>3. history[s].seq = n
      BY <2>0, <3>1, <3>2 DEF RingInv, RingInOrder, Slots
    <3> QED BY <3>1, <3>2, <3>3 DEF Slots
  <2> QED BY <2>0, <2>1, <2>2 DEF Slots
<1>3. \A n \in Kept : n \in Window!Newest(lastSeq)
  BY <1>1 DEF Kept
<1>4. \A n \in Window!Newest(lastSeq) : n \in Kept
  BY <1>2 DEF Kept
<1> QED BY <1>3, <1>4

LEMMA WindowInit == Init => Window!Init
<1> SUFFICES ASSUME Init PROVE Window!Init
  OBVIOUS
<1>1. lastSeq = 0 /\ recordCount = 0
  BY DEF Init
<1>2. {i \in Slots : i < recordCount} = {}
  BY <1>1, CapacityAssumption DEF Slots
<1> QED BY <1>1, <1>2 DEF Window!Init

LEMMA WindowNext ==
  PlcInv /\ KeptOK' /\ [Next]_vars => [Window!Next]_<<lastSeq, Kept>>
<1> SUFFICES ASSUME PlcInv, KeptOK', [Next]_vars PROVE [Window!Next]_<<lastSeq, Kept>>
  OBVIOUS
<1>1. CASE RingBuffer /\ tick
  <2>1. lastSeq' = lastSeq + 1
    BY <1>1, RingStore DEF PlcInv
  <2>2. Kept' = Window!Newest(lastSeq + 1)
    BY <2>1 DEF KeptOK, Window!Newest
  <2> QED BY <2>1, <2>2 DEF Window!Next, Window!Sample, Kept
<1>2. CASE Restart
  <2>1. lastSeq' = 0 /\ recordCount' = 0
    BY <1>2 DEF Restart
  <2>2. Kept' = {}
    BY <2>1, CapacityAssumption DEF Kept, Slots
  <2> QED BY <2>1, <2>2 DEF Window!Next, Window!Restart, Kept
<1>3. CASE UNCHANGED <<lastSeq, recordCount, history>>
  BY <1>3 DEF Kept
<1>4. CASE RingBuffer /\ ~ tick
  BY <1>3, <1>4 DEF RingBuffer
<1>5. CASE Runtime \/ Signals \/ Outputs \/ Server \/ RegisterMap \/ ModbusRead \/ ModbusWrite
           \/ UNCHANGED vars
  BY <1>3, <1>5 DEF Runtime, Signals, Outputs, Server, RegisterMap, ModbusRead, ModbusWrite,
                    vars, server, ring
<1> QED BY <1>1, <1>2, <1>4, <1>5 DEF Next

\* The PLC program implements HistoryWindow: numbered without gaps, and the last Capacity
\* samples are always there.
THEOREM RingKeepsWindow == Spec => KeepsWindow
<1>1. Spec => []PlcInv /\ []KeptOK
  BY PlcInductive, KeptIsNewest, PTL
<1> QED BY <1>1, WindowInit, WindowNext, PTL DEF Spec, KeepsWindow, Window!Spec, Kept
=============================================================================
