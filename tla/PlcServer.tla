------------------------------ MODULE PlcServer ------------------------------
(***************************************************************************)
(* The scan of the S7-1200 program: FC_MB_Server_Side calls, one after the *)
(* other, the runtime clock, the signal source, the run outputs, the       *)
(* server block with its ring buffer, the register map and MB_SERVER.      *)
(* Only MB_SERVER lets the Modbus client in, one request per call; nothing *)
(* else interrupts a scan.                                                 *)
(*                                                                         *)
(* Sensor values and validity bits are left out: no property tells them    *)
(* apart.  The electrical words of a record are kept, with the values of   *)
(* the built-in simulation, because of where the register map puts them.   *)
(* DWORDs count far less than 2^32 samples or seconds here.                *)
(***************************************************************************)
EXTENDS Integers

CONSTANTS
  Capacity,       \* history records: 100 in the code
  Sources,        \* values UseSimulation may take
  ClientWrites,   \* what a client writes: functions from command registers to words
  MaxSeq,         \* bound: samples
  MaxUnix,        \* bound: seconds counted
  MaxEnergy,      \* bound: energy counters
  MaxWrites,      \* bound: client writes
  MaxRestarts     \* bound: restarts of the PLC

Slots == 0 .. Capacity - 1
CommandOffsets == 0 .. 12
Words == {w \in Nat : w < 65536}

ASSUME CapacityAssumption == Capacity \in Nat \ {0}
ASSUME SourcesAssumption == Sources \subseteq BOOLEAN
ASSUME WritesAssumption ==
  \A w \in ClientWrites : DOMAIN w \subseteq CommandOffsets /\ \A k \in DOMAIN w : w[k] \in Words
ASSUME BoundAssumption ==
  /\ MaxSeq \in Nat /\ MaxUnix \in Nat /\ MaxEnergy \in Words
  /\ MaxWrites \in Nat /\ MaxRestarts \in Nat

VARIABLES
  block,        \* the block the scan calls next
  halfQ,        \* Timer500ms.Q of the last scan
  secondQ,      \* Timer1s.Q of the last scan
  tick,         \* Runtime.Tick500ms
  unixNow,      \* Runtime.UnixNow
  cmd,          \* DB_HVAC_Command
  edge,         \* the rising edges the server block has found
  prev,         \* the request bits it compared with
  alarm,        \* IoData.AlarmActive
  comp,         \* the two compressors: electrical values or none, energy counter
  runOut,       \* outputs Q0.0 and Q0.1
  plcUnix,      \* Status.PlcCurrentUnix
  seq,          \* SequenceNo of the server block
  live,         \* DB_HVAC_Live
  history,      \* DB_HVAC_History
  ringPrev,     \* PrevTrigger of the ring buffer
  writeIndex,   \* Status.Buf_WriteIndex
  recordCount,  \* Status.Buf_RecordCount
  lastSeq,      \* Status.Buf_LastSequenceNo
  holding,      \* holding registers 1000 .. 1012
  wire,         \* the other holding registers: status, live record, history
  asked,        \* the words the client last wrote to 1000 .. 1012
  writes,       \* its writes so far
  restarts      \* restarts so far

clock == <<halfQ, secondQ, tick, unixNow>>
plant == <<alarm, comp, runOut>>
ring == <<seq, live, history, ringPrev, writeIndex, recordCount, lastSeq>>
server == <<edge, prev, plcUnix, ring>>
registers == <<cmd, holding, wire>>
client == <<asked, writes>>
vars == <<block, clock, plant, server, registers, client, restarts>>

-----------------------------------------------------------------------------
(* Records and registers.                                                  *)

Compressors == {1, 2}
Drive == [on : BOOLEAN, energy : 0 .. MaxEnergy]
Record == [seq : Nat, time : Nat, phase : Words, active : BOOLEAN, alarm : BOOLEAN,
           comp : [Compressors -> Drive]]

Idle == [on |-> FALSE, energy |-> 0]
NoRecord == [seq |-> 0, time |-> 0, phase |-> 0, active |-> FALSE, alarm |-> FALSE,
             comp |-> [c \in Compressors |-> Idle]]

HistoryBase == 300
RecordWords == 34
CommandBase == 1000

\* Active, reactive and apparent power, power factor, frequency and energy.
PowerWords(c, on) ==
  IF on THEN IF c = 1 THEN <<42, 11, 44, 980, 500>> ELSE <<34, 9, 37, 970, 500>>
        ELSE <<0, 0, 0, 0, 0>>

\* The word at an offset of a record.  Of the others, none lies under a command
\* register that is read.
WordAt(rec, o) ==
  IF o \in 20 .. 24 THEN PowerWords(1, rec.comp[1].on)[o - 19]
  ELSE IF o = 25 THEN rec.comp[1].energy
  ELSE IF o \in 28 .. 32 THEN PowerWords(2, rec.comp[2].on)[o - 27]
  ELSE 0

\* The history block is written over whatever lies at its addresses.
Overlay(words, hist) ==
  [k \in CommandOffsets |->
     LET a == CommandBase + k - HistoryBase IN
       IF a < Capacity * RecordWords
       THEN WordAt(hist[a \div RecordWords], a % RecordWords)
       ELSE words[k]]

Decode(words) ==
  [circuit |-> words[0], start |-> words[1] # 0, stop |-> words[2] # 0,
   abort |-> words[3] # 0, phase |-> words[4], active |-> words[5] # 0,
   sync |-> words[10] # 0, unix |-> words[11] * 65536 + words[12]]

Command == [circuit : Words, start : BOOLEAN, stop : BOOLEAN, abort : BOOLEAN, phase : Words,
            active : BOOLEAN, sync : BOOLEAN, unix : Nat]

Requests(c) == [start |-> c.start, stop |-> c.stop, abort |-> c.abort, sync |-> c.sync]
RequestBits == [start : BOOLEAN, stop : BOOLEAN, abort : BOOLEAN, sync : BOOLEAN]
NoRequest == [start |-> FALSE, stop |-> FALSE, abort |-> FALSE, sync |-> FALSE]

Blocks == {"runtime", "signals", "outputs", "server", "ring", "map", "modbus"}

Zeros == [k \in CommandOffsets |-> 0]
Wire == [done : BOOLEAN, unix : Nat, fault : BOOLEAN, writeIndex : Slots,
         recordCount : 0 .. Capacity, lastSeq : Nat, live : Record, history : [Slots -> Record]]
Blank == [done |-> FALSE, unix |-> 0, fault |-> FALSE, writeIndex |-> 0, recordCount |-> 0,
          lastSeq |-> 0, live |-> NoRecord, history |-> [s \in Slots |-> NoRecord]]

Init ==
  /\ block = "runtime"
  /\ halfQ = FALSE /\ secondQ = FALSE /\ tick = FALSE /\ unixNow = 0
  /\ cmd = Decode(Zeros)
  /\ edge = NoRequest /\ prev = NoRequest
  /\ alarm = FALSE
  /\ comp = [c \in Compressors |-> Idle]
  /\ runOut = [c \in Compressors |-> FALSE]
  /\ plcUnix = 0
  /\ seq = 0 /\ live = NoRecord /\ history = [s \in Slots |-> NoRecord]
  /\ ringPrev = FALSE /\ writeIndex = 0 /\ recordCount = 0 /\ lastSeq = 0
  /\ holding = Zeros /\ wire = Blank
  /\ asked = Zeros /\ writes = 0
  /\ restarts = 0

-----------------------------------------------------------------------------
(* Wrong variants of blocks below, for the properties to refute.           *)

\* A live record that is filled outside the sampling branch.
LiveEveryScan ==
  /\ block = "server"
  /\ edge' = [start |-> cmd.start /\ ~ prev.start, stop |-> cmd.stop /\ ~ prev.stop,
              abort |-> cmd.abort /\ ~ prev.abort, sync |-> cmd.sync /\ ~ prev.sync]
  /\ plcUnix' = IF edge'.sync THEN cmd.unix ELSE unixNow
  /\ seq' = IF tick THEN seq + 1 ELSE seq
  /\ live' = [seq |-> seq', time |-> plcUnix', phase |-> cmd.phase, active |-> cmd.active,
              alarm |-> alarm, comp |-> comp]
  /\ block' = "ring"
  /\ UNCHANGED <<clock, plant, prev, history, ringPrev, writeIndex, recordCount, lastSeq,
                 registers, client, restarts>>

\* A sequence number that is counted up after its use.
CountAfterUse ==
  /\ seq' = seq + 1
  /\ live' = [seq |-> seq, time |-> plcUnix', phase |-> cmd.phase,
              active |-> cmd.active, alarm |-> alarm, comp |-> comp]

\* A record count that starts again when the buffer is full.
CountWraps ==
  /\ history' = [history EXCEPT ![writeIndex] = live]
  /\ lastSeq' = live.seq
  /\ writeIndex' = IF writeIndex >= Capacity - 1 THEN 0 ELSE writeIndex + 1
  /\ recordCount' = IF recordCount < Capacity THEN recordCount + 1 ELSE 1

-----------------------------------------------------------------------------
(* The blocks of one scan, in the order of their calls.                    *)

\* FB_HVAC_Runtime.  The input of a timer is the negation of its output, so that it is
\* on for one scan.  The edge and the time are those left by the last scan.
Runtime ==
  /\ block = "runtime"
  /\ halfQ' \in BOOLEAN /\ secondQ' \in BOOLEAN
  /\ halfQ' => ~ halfQ /\ seq < MaxSeq
  /\ secondQ' => ~ secondQ /\ unixNow < MaxUnix
  /\ tick' = (halfQ' /\ ~ halfQ)
  /\ LET base == IF edge.sync THEN cmd.unix ELSE unixNow IN
       unixNow' = IF secondQ' /\ ~ secondQ THEN base + 1 ELSE base
  /\ block' = "signals"
  /\ UNCHANGED <<plant, server, registers, client, restarts>>

Runs(c) == cmd.active /\ cmd.circuit \in {c, 3} /\ cmd.phase \in {1, 2}

\* FB_HVAC_SignalSource.  With real sensors it leaves the electrical values alone.
Signals ==
  /\ block = "signals"
  /\ \/ /\ TRUE \in Sources
        /\ alarm' = FALSE
        /\ \E step \in [Compressors -> {0, 1}] :
             comp' = [c \in Compressors |->
               [on |-> Runs(c),
                energy |-> IF Runs(c) /\ comp[c].energy < MaxEnergy
                           THEN comp[c].energy + step[c] ELSE comp[c].energy]]
     \/ /\ FALSE \in Sources
        /\ alarm' \in BOOLEAN
        /\ UNCHANGED comp
  /\ block' = "outputs"
  /\ UNCHANGED <<clock, runOut, server, registers, client, restarts>>

\* Q0.0 and Q0.1.
Outputs ==
  /\ block = "outputs"
  /\ runOut' = [c \in Compressors |-> cmd.active /\ cmd.circuit \in {c, 3}]
  /\ block' = "server"
  /\ UNCHANGED <<clock, alarm, comp, server, registers, client, restarts>>

Rising(now, before) ==
  [start |-> now.start /\ ~ before.start, stop |-> now.stop /\ ~ before.stop,
   abort |-> now.abort /\ ~ before.abort, sync |-> now.sync /\ ~ before.sync]

TakeSample ==
  /\ seq' = seq + 1
  /\ live' = [seq |-> seq + 1, time |-> plcUnix', phase |-> cmd.phase,
              active |-> cmd.active, alarm |-> alarm, comp |-> comp]

\* FB_HVAC_ModbusServer up to its call of the ring buffer.
Server ==
  /\ block = "server"
  /\ edge' = Rising(Requests(cmd), prev)
  /\ plcUnix' = IF edge'.sync THEN cmd.unix ELSE unixNow
  /\ \/ tick /\ TakeSample
     \/ ~ tick /\ UNCHANGED <<seq, live>>
  /\ block' = "ring"
  /\ UNCHANGED <<clock, plant, prev, history, ringPrev, writeIndex, recordCount, lastSeq,
                 registers, client, restarts>>

Store ==
  /\ history' = [history EXCEPT ![writeIndex] = live]
  /\ lastSeq' = live.seq
  /\ writeIndex' = IF writeIndex >= Capacity - 1 THEN 0 ELSE writeIndex + 1
  /\ recordCount' = IF recordCount < Capacity THEN recordCount + 1 ELSE recordCount

\* FB_HVAC_RingBuffer, and the request bits kept for the next scan.
RingBuffer ==
  /\ block = "ring"
  /\ \/ tick /\ ~ ringPrev /\ Store
     \/ ~ (tick /\ ~ ringPrev) /\ UNCHANGED <<history, lastSeq, writeIndex, recordCount>>
  /\ ringPrev' = tick
  /\ prev' = Requests(cmd)
  /\ block' = "map"
  /\ UNCHANGED <<clock, plant, edge, plcUnix, seq, live, registers, client, restarts>>

\* FB_HVAC_ModbusRegisterMap: commands in, then status, live record and history out.
RegisterMap ==
  /\ block = "map"
  /\ cmd' = Decode(holding)
  /\ wire' = [done |-> edge.sync, unix |-> plcUnix, fault |-> alarm,
              writeIndex |-> writeIndex, recordCount |-> recordCount, lastSeq |-> lastSeq,
              live |-> live, history |-> history]
  /\ holding' = Overlay(holding, history)
  /\ block' = "modbus"
  /\ UNCHANGED <<clock, plant, server, client, restarts>>

Write(old, w) == [k \in CommandOffsets |-> IF k \in DOMAIN w THEN w[k] ELSE old[k]]

\* MB_SERVER serves a read or nothing ...
ModbusRead ==
  /\ block = "modbus"
  /\ block' = "runtime"
  /\ UNCHANGED <<clock, plant, server, registers, client, restarts>>

\* ... or a write of command registers.
ModbusWrite ==
  /\ block = "modbus"
  /\ writes < MaxWrites
  /\ \E w \in ClientWrites :
       /\ holding' = Write(holding, w)
       /\ asked' = Write(asked, w)
  /\ writes' = writes + 1
  /\ block' = "runtime"
  /\ UNCHANGED <<clock, plant, server, cmd, wire, restarts>>

\* Power comes back: no data block is retained.  What the client has written is gone too.
Restart ==
  /\ restarts < MaxRestarts
  /\ restarts' = restarts + 1
  /\ block' = "runtime"
  /\ halfQ' = FALSE /\ secondQ' = FALSE /\ tick' = FALSE /\ unixNow' = 0
  /\ cmd' = Decode(Zeros)
  /\ edge' = NoRequest /\ prev' = NoRequest
  /\ alarm' = FALSE
  /\ comp' = [c \in Compressors |-> Idle]
  /\ runOut' = [c \in Compressors |-> FALSE]
  /\ plcUnix' = 0
  /\ seq' = 0 /\ live' = NoRecord /\ history' = [s \in Slots |-> NoRecord]
  /\ ringPrev' = FALSE /\ writeIndex' = 0 /\ recordCount' = 0 /\ lastSeq' = 0
  /\ holding' = Zeros /\ wire' = Blank
  /\ asked' = Zeros
  /\ UNCHANGED writes

Next ==
  \/ Runtime
  \/ Signals
  \/ Outputs
  \/ Server
  \/ RingBuffer
  \/ RegisterMap
  \/ ModbusRead
  \/ ModbusWrite
  \/ Restart

Spec == Init /\ [][Next]_vars
-----------------------------------------------------------------------------
(* Properties.                                                             *)

CommandOK ==
  /\ cmd \in Command
  /\ holding \in [CommandOffsets -> Words]
  /\ asked \in [CommandOffsets -> Words]
  /\ edge \in RequestBits
  /\ prev \in RequestBits

RingOK ==
  /\ seq \in Nat
  /\ lastSeq \in Nat
  /\ live \in Record
  /\ history \in [Slots -> Record]
  /\ writeIndex \in Slots
  /\ recordCount \in 0 .. Capacity
  /\ wire \in Wire

\* Every variable has its type.
TypeOK ==
  /\ block \in Blocks
  /\ halfQ \in BOOLEAN /\ secondQ \in BOOLEAN /\ tick \in BOOLEAN /\ ringPrev \in BOOLEAN
  /\ unixNow \in Nat /\ plcUnix \in Nat
  /\ alarm \in BOOLEAN
  /\ comp \in [Compressors -> Drive]
  /\ runOut \in [Compressors -> BOOLEAN]
  /\ CommandOK
  /\ RingOK
  /\ writes \in 0 .. MaxWrites /\ restarts \in 0 .. MaxRestarts

\* The ring holds the last samples without a gap: going back from the write index the
\* sequence numbers go down by one, around the end of the buffer and over a wrap.
RingInOrder ==
  \A s \in Slots :
    /\ s < writeIndex => history[s].seq = lastSeq - writeIndex + s + 1
    /\ s >= writeIndex /\ recordCount = Capacity =>
         history[s].seq = lastSeq - writeIndex - Capacity + s + 1

\* Where a reader looks for sample n.
SlotOf(n) == (n - 1) % Capacity

FoundInSlots(hist, newest) ==
  \A n \in 1 .. newest : n > newest - Capacity => hist[SlotOf(n)].seq = n

\* The client looks for sample n in slot (n - 1) % capacity (_read_history_records_from_plc);
\* of all the samples the status block says are kept, it finds the right one there.
SlotOfSequence == FoundInSlots(wire.history, wire.lastSeq)

\* What one scan publishes belongs together: the live record is the newest history record.
WireConsistent == wire.lastSeq # 0 => wire.history[SlotOf(wire.lastSeq)] = wire.live

Window == INSTANCE HistoryWindow WITH
  last <- lastSeq,
  kept <- {history[s].seq : s \in {i \in Slots : i < recordCount}}

\* The ring keeps the promise of HistoryWindow: no sample is ever missing from the last
\* Capacity ones, whatever the timers and the client do.
KeepsWindow == Window!Spec

\* Why: a tick lasts one scan, so the ring sees each sample as a new trigger, and the
\* counters follow from the number of samples.
RingInv ==
  /\ tick => halfQ
  /\ block \in {"runtime", "map", "modbus"} => (ringPrev <=> tick)
  /\ block \in {"signals", "outputs", "server", "ring"} => ~ (tick /\ ringPrev)
  /\ live.seq = seq
  /\ seq = IF block = "ring" /\ tick THEN lastSeq + 1 ELSE lastSeq
  /\ recordCount = IF lastSeq < Capacity THEN lastSeq ELSE Capacity
  /\ lastSeq < Capacity => writeIndex = lastSeq
  /\ RingInOrder

\* The write index is the number of samples modulo the capacity.
LapInv == \E laps \in Nat : lastSeq = laps * Capacity + writeIndex

NewestSlot == IF writeIndex = 0 THEN Capacity - 1 ELSE writeIndex - 1
NewestIsLive ==
  lastSeq # 0 /\ ~ (block = "ring" /\ tick) => history[NewestSlot] = live

Levels(c) == <<c.circuit, c.phase, c.active, c.unix>>

\* Circuit, phase, test-active and the time to set stay as the client has written them.
LevelsHold == block = "modbus" => Levels(cmd) = Levels(Decode(asked))
=============================================================================
