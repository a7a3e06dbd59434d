------------------------------- MODULE PlcReader -------------------------------
(***************************************************************************)
(* How one poll, or one read of the history, becomes samples: the records  *)
(* that the client simulates, the requests it sends, how it puts real and  *)
(* simulated tags together, what it does when a request fails, and how a   *)
(* record is parsed.                                                       *)
(*                                                                         *)
(* A register word carries where it comes from.  A word of the PLC is of   *)
(* the scan in which the request was served (moment) and of an offset; a   *)
(* simulated one has the value simulated and the number encoded.  A word   *)
(* has WordSize values (65536).  The table of tags may be edited during a  *)
(* poll, each row with all its columns, and every look at it may still be  *)
(* served from the cache.  A tag is a row with one choice of the columns   *)
(* that say where its registers are and how they are read: an edit of      *)
(* these puts another tag into the row.                                    *)
(***************************************************************************)
EXTENDS Integers, Sequences, FiniteSets

CONSTANTS
  Rows,         \* tag_id of the rows of the table
  Tags,         \* what edits may make of the rows
  Row,          \* the row of a tag
  Place,        \* its place in get_tags: by block, modbus_address, offset and tag_id
  Address,      \* modbus_address
  Offset,       \* register_offset
  DataType,     \* data_type
  WordOrder,    \* word_order
  Bit,          \* validity_bit, or NoBit
  Compressor,   \* the compressor without which a simulated tag reads zero, or NoCompressor
  WordSize,     \* values of a register word
  LiveWords,    \* live_record_count without the eight words of the head
  HistoryWords, \* history_record_words without them
  Durations,    \* durations of the phases of the active test
  Circuits,     \* compressors of its selected circuit
  Draws,        \* what a simulated record may draw: the value, random.randint(-2, 2), and
                \* the seconds since the start of the test
  MaxCount,     \* bound: records in one read of the history
  MaxMoment,    \* bound: scans of the PLC
  MaxEdits      \* bound: edits of the table

NoBit == -1
NoCompressor == 0
Wide == {"int32", "uint32", "float32"}
Width(t) == IF DataType[t] \in Wide THEN 2 ELSE 1
Range(t) == Offset[t] .. Offset[t] + Width(t) - 1
Bits == {Bit[t] : t \in Tags} \ {NoBit}

\* The form compares the columns of a tag neither with those of another nor with the
\* length of a record.
ASSUME TagAssumption ==
  /\ Row \in [Tags -> Rows] /\ \A r \in Rows : \E t \in Tags : Row[t] = r
  /\ Place \in [Tags -> Nat] /\ \E t \in Tags : \A u \in Tags : Place[u] <= Place[t]
  /\ Address \in [Tags -> Nat] /\ Offset \in [Tags -> Nat] /\ Bit \in [Tags -> Nat \cup {NoBit}]
  /\ DataType \in [Tags -> {"int16", "uint16"} \cup Wide]
  /\ WordOrder \in [Tags -> {"high_low", "low_high"}]
  /\ Compressor \in [Tags -> Nat]
ASSUME SizeAssumption ==
  /\ WordSize \in Nat \ {0} /\ LiveWords \in Nat /\ HistoryWords \in Nat
  /\ Durations \in [start : Nat, stable : Nat, stop : Nat]
  /\ Circuits \subseteq {1, 2}
  /\ MaxCount \in Nat /\ MaxMoment \in Nat /\ MaxEdits \in Nat
  /\ Draws \subseteq [raw : Int, jitter : -2 .. 2, elapsed : Int]
\* The sign of a word is its highest bit.
ASSUME WordAssumption == WordSize % 2 = 0

VARIABLES
  simulation,   \* PLC_CONFIG["simulation_enabled"]
  table,        \* the rows in the database: [active, sim, tag] for each
  seen,         \* the rows in the cache of the process
  edits,        \* edits so far
  moment,       \* the scan of the PLC
  validAt,      \* the validity bits that the PLC had in each scan
  pc,           \* where the call is
  call,         \* its local variables
  sample        \* the sample parsed last, or none

plc == <<moment, validAt>>
tags == <<table, seen, edits>>
vars == <<simulation, tags, plc, pc, call, sample>>

-----------------------------------------------------------------------------
(* Words, records and tables.                                              *)

Word == [from : {"plc", "sim", "zero"}, of : Int, val : Int]
Zero == [from |-> "zero", of |-> 0, val |-> 0]

\* A record: its sequence number and time (of), the compressors that its status word
\* says are running, its validity bits and its words.
Record == [from : {"plc", "sim"}, of : Int, running : SUBSET {1, 2}, bits : SUBSET Bits,
           words : [0 .. LiveWords - 1 -> Word] \cup [0 .. HistoryWords - 1 -> Word]]
Status == [from : {"plc", "sim"}, of : Int]
Entry == [active : BOOLEAN, sim : BOOLEAN, tag : Tags]
Table == {tab \in [Rows -> Entry] : \A r \in Rows : Row[tab[r].tag] = r}

\* _read_registers in the scan m.
PlcWord(m, i) == [from |-> "plc", of |-> m, val |-> i]
PlcStatus == [from |-> "plc", of |-> moment]
SimStatus == [from |-> "sim", of |-> 0]
PlcRecord(m, n) == [from |-> "plc", of |-> m, running |-> {}, bits |-> validAt[m],
                    words |-> [i \in 0 .. n - 1 |-> PlcWord(m, i)]]

ActiveIn(tab) == {t \in Tags : tab[Row[t]].active /\ tab[Row[t]].tag = t}
RealIn(tab) == {t \in ActiveIn(tab) : ~tab[Row[t]].sim}
SimIn(tab) == ActiveIn(tab) \ RealIn(tab)
BitsOf(set) == {Bit[t] : t \in set} \ {NoBit}

\* get_tags: from the cache, or anew from the database.
Look == seen' \in {seen, table}

-----------------------------------------------------------------------------
(* The simulation.                                                         *)

\* _simulated_test_state; the status word has the compressors that run.
SimPhase(e) ==
  LET startEnd == Durations.start
      stableEnd == startEnd + Durations.stable
  IN  IF e < 0 THEN "IDLE" ELSE IF e < startEnd THEN "START"
      ELSE IF e < stableEnd THEN "STABLE" ELSE "STOP"
Running(e) == IF SimPhase(e) \in {"START", "STABLE"} THEN Circuits ELSE {}

\* _simulated_tag_value
SimValue(t, raw, e) ==
  IF Compressor[t] # NoCompressor /\ Compressor[t] \notin Running(e) THEN 0 ELSE raw

\* _encode_simulated_words.  HighWordFirst is wrong on purpose.
AtLeastZero(n) == IF n < 0 THEN 0 ELSE n
HighWordFirst(t, v) ==
  LET n == AtLeastZero(v) % (WordSize * WordSize)
  IN  IF DataType[t] \in Wide THEN <<n \div WordSize, n % WordSize>> ELSE <<v % WordSize>>
Encode(t, v) ==
  LET n == AtLeastZero(v) % (WordSize * WordSize)
      high == n \div WordSize
      low == n % WordSize
  IN  IF DataType[t] \notin Wide THEN <<v % WordSize>>
      ELSE IF WordOrder[t] = "low_high" THEN <<low, high>> ELSE <<high, low>>

\* The last word of a simulated tag jitters.  Unclamped is wrong on purpose.
Unclamped(word, j) == word + j
Jittered(word, j) == AtLeastZero(word + j)

\* What _build_record has for a tag: the words read for its row, under whatever columns
\* that was, or what is simulated; and what it writes, the last word with a jitter.
TagWords(got, d, t) ==
  LET v == SimValue(t, d.raw, d.elapsed)
  IN  IF got[Row[t]] # << >> THEN got[Row[t]]
      ELSE [k \in 1 .. Width(t) |-> [from |-> "sim", of |-> v, val |-> Encode(t, v)[k]]]
Written(tab, got, d, t) ==
  LET words == TagWords(got, d, t)
      jitter(k) == IF tab[Row[t]].sim /\ k = Len(words) THEN d.jitter ELSE 0
  IN  [k \in DOMAIN words |-> [words[k] EXCEPT !.val = Jittered(@, jitter(k))]]

\* _build_record.  A tag overwrites those that get_tags has before it, up to the end of
\* the furthest.  got has the words of the rows that were read one by one; that all tags
\* have the same value and jitter loses nothing, as each is built and parsed by itself.
Build(tab, got, d) ==
  LET active == ActiveIn(tab)
      written == [t \in active |-> Written(tab, got, d, t)]
      inside == {i \in 0 .. LiveWords - 1 : \E t \in active : i < Offset[t] + Width(t)}
      writers(i) == {t \in active : i - Offset[t] + 1 \in DOMAIN written[t]}
      word(set, i) ==
        LET t == CHOOSE u \in set : \A x \in set : Place[x] <= Place[u]
        IN  IF set = {} THEN Zero ELSE written[t][i - Offset[t] + 1]
  IN  [from |-> "sim", of |-> d.elapsed, running |-> Running(d.elapsed), bits |-> BitsOf(active),
       words |-> [i \in 0 .. LiveWords - 1 |-> IF i \in inside THEN word(writers(i), i) ELSE Zero]]
Builds(tab, got) == {Build(tab, got, d) : d \in Draws}

\* _overlay_simulated_tags.  OverlayFirstWord, OverlayEveryTag and OverlayAllBits are wrong
\* on purpose.
Put(real, sim, offsets, bits) ==
  [real EXCEPT !.words = [i \in DOMAIN @ |->
                           IF i \in offsets \cap DOMAIN sim.words THEN sim.words[i] ELSE @[i]],
               !.bits = @ \cup (sim.bits \cap bits)]
RangesOf(set) == UNION {Range(t) : t \in set}
OverlayFirstWord(real, sim, tab) ==
  Put(real, sim, {Offset[t] : t \in SimIn(tab)}, BitsOf(SimIn(tab)))
OverlayEveryTag(real, sim, tab) ==
  Put(real, sim, RangesOf(ActiveIn(tab)), BitsOf(SimIn(tab)))
OverlayAllBits(real, sim, tab) ==
  Put(real, sim, RangesOf(SimIn(tab)), BitsOf(ActiveIn(tab)))
Overlay(real, sim, tab) ==
  Put(real, sim, RangesOf(SimIn(tab)), BitsOf(SimIn(tab)))

-----------------------------------------------------------------------------
(* The call.                                                               *)

NoWords == [r \in Rows |-> << >>]
NoTable == [r \in Rows |-> [active |-> FALSE, sim |-> TRUE, tag |-> CHOOSE t \in Tags : Row[t] = r]]
NoCall == [kind |-> "live", want |-> 0, sim |-> << >>, tab |-> NoTable, payload |-> SimStatus,
           status |-> SimStatus, todo |-> {}, got |-> NoWords, batch |-> << >>,
           calm |-> TRUE, steady |-> TRUE]
Call == [kind : {"live", "history"}, want : 0 .. MaxCount, sim : Seq(Record), tab : Table,
         payload : Status, status : Status, todo : SUBSET Tags, got : [Rows -> Seq(Word)],
         batch : Seq(Record),
         calm : BOOLEAN,   \* no edit since it began, and the cache was fresh then
         steady : BOOLEAN] \* none that put another tag into a row
PC == {"idle", "build", "choose", "status", "payload", "live", "tags", "history", "parse"}

Go(where, c) == pc' = where /\ call' = c
\* What the parser needs of the call.
Deliver(c) == Go("parse", [NoCall EXCEPT !.kind = c.kind, !.want = c.want, !.status = c.status,
                                         !.batch = c.batch, !.calm = c.calm, !.steady = c.steady])
Unchanging == UNCHANGED <<simulation, table, edits, plc>>

\* fast_poll and read_history_records.
Begin ==
  /\ pc = "idle"
  /\ \E kind \in {"live", "history"}, n \in 1 .. MaxCount :
       /\ kind = "live" => n = 1
       /\ LET c == [NoCall EXCEPT !.kind = kind, !.want = n, !.calm = seen = table,
                              !.steady = \A r \in Rows : seen[r].tag = table[r].tag]
          IN  Go(IF simulation THEN "build" ELSE IF kind = "live" THEN "payload" ELSE "history", c)
  /\ sample' = {}
  /\ UNCHANGED seen /\ Unchanging

\* The simulated records are built first.
BuildNext ==
  /\ pc = "build"
  /\ Look
  /\ \E rec \in Builds(seen', NoWords) :
       LET c == [call EXCEPT !.sim = Append(@, rec)]
       IN  Go(IF Len(c.sim) = c.want THEN "choose" ELSE "build", c)
  /\ UNCHANGED sample /\ Unchanging

\* Without a real tag the PLC is not asked.
Choose ==
  /\ pc = "choose"
  /\ Look
  /\ LET c == [call EXCEPT !.tab = seen']
     IN  IF RealIn(seen') = {} THEN Deliver([c EXCEPT !.batch = c.sim])
         ELSE Go(IF c.kind = "live" THEN "status" ELSE "history", c)
  /\ UNCHANGED sample /\ Unchanging

\* The status of a hybrid poll; the status block may be too short, or the read fail.
ReadStatus ==
  /\ pc = "status"
  /\ \E s \in {PlcStatus, SimStatus} : Go("payload", [call EXCEPT !.status = s])
  /\ UNCHANGED <<seen, sample>> /\ Unchanging

\* A read failed: tag by tag then, or the error of a poll without simulation.
ReadFails ==
  IF simulation THEN Go("tags", [call EXCEPT !.todo = RealIn(call.tab), !.payload = SimStatus])
  ELSE Go("idle", NoCall)

ReadPayloadStatus ==
  /\ pc = "payload"
  /\ Go("live", [call EXCEPT !.payload = PlcStatus]) \/ ReadFails
  /\ UNCHANGED <<seen, sample>> /\ Unchanging

\* The status of a payload is the one read before its record.
PayloadStatus(c) == c.payload

ReadLive ==
  /\ pc = "live"
  /\ \/ LET real == PlcRecord(moment, LiveWords)
        IN  Deliver([call EXCEPT
              !.batch = <<IF simulation THEN Overlay(real, call.sim[1], call.tab) ELSE real>>,
              !.status = PayloadStatus(call)])
     \/ ReadFails
  /\ UNCHANGED <<seen, sample>> /\ Unchanging

\* One real tag after the other; what cannot be read stays simulated.
ReadTag ==
  /\ pc = "tags" /\ call.todo # {}
  /\ LET t == CHOOSE u \in call.todo : \A x \in call.todo : Place[u] <= Place[x]
         words == [k \in 1 .. Width(t) |-> PlcWord(moment, Address[t] + k - 1)]
     IN  \E w \in {words, << >>} : Go("tags", [call EXCEPT !.todo = @ \ {t}, !.got[Row[t]] = w])
  /\ UNCHANGED <<seen, sample>> /\ Unchanging

\* With at least one of them the record is built anew.
Rebuild ==
  /\ pc = "tags" /\ call.todo = {}
  /\ \/ /\ call.got = NoWords
        /\ Deliver([call EXCEPT !.batch = call.sim])
        /\ UNCHANGED seen
     \/ /\ call.got # NoWords
        /\ Look
        /\ \E rec \in Builds(seen', call.got) : Deliver([call EXCEPT !.batch = <<rec>>])
  /\ UNCHANGED sample /\ Unchanging

\* What a history that could not be read is replaced with.  OnlyTheRest is wrong on purpose.
OnlyTheRest(c) == c.batch \o SubSeq(c.sim, Len(c.batch) + 1, c.want)
HistoryFallback(c) == c.sim

\* One slot of the history after the other, each with a record of some earlier scan.
ReadHistory ==
  /\ pc = "history"
  /\ \/ \E m \in 0 .. moment :
          LET c == [call EXCEPT !.batch = Append(@, PlcRecord(m, HistoryWords))]
              merged == [i \in 1 .. c.want |-> Overlay(c.batch[i], c.sim[i], c.tab)]
          IN  IF Len(c.batch) < c.want THEN Go("history", c)
              ELSE Deliver(IF simulation THEN [c EXCEPT !.batch = merged] ELSE c)
     \/ IF simulation THEN Deliver([call EXCEPT !.batch = HistoryFallback(call)])
        ELSE Go("idle", NoCall)
  /\ UNCHANGED <<seen, sample>> /\ Unchanging

-----------------------------------------------------------------------------
(* The parser.                                                             *)

\* The words of a value, the first the more significant one; none beyond the record.
WordsOf(rec, t) ==
  LET o == Offset[t]
  IN  IF ~(Range(t) \subseteq DOMAIN rec.words) THEN << >>
      ELSE IF Width(t) = 1 THEN <<rec.words[o]>>
      ELSE IF WordOrder[t] = "high_low" THEN <<rec.words[o], rec.words[o + 1]>>
      ELSE <<rec.words[o + 1], rec.words[o]>>

\* _s16 does not cut its argument to a word; _u16, _u32 and _s32 do.
Signed(n, size) == IF (n \div (size \div 2)) % 2 = 1 THEN n - size ELSE n
Double(w) == (w[1].val % WordSize) * WordSize + (w[2].val % WordSize)

\* _parse_tag_value before the scale; of a float32 the bits.
Number(t, w) ==
  CASE DataType[t] = "int16" -> Signed(w[1].val, WordSize)
    [] DataType[t] = "uint16" -> w[1].val % WordSize
    [] DataType[t] = "int32" -> Signed(Double(w), WordSize * WordSize)
    [] OTHER -> Double(w)

\* A tag without a validity bit, for a look at the tags, is valid.
Valid(rec, tab, t) ==
  LET row == tab[Row[t]]
  IN  ~(row.active /\ Bit[row.tag] # NoBit) \/ Bit[row.tag] \in rec.bits

\* What the parser makes of a record, out of the tags it knows and the map of their bits.
Parsed(rec, known, map) ==
  [rec |-> rec,
   value |-> [t \in ActiveIn(known) |-> WordsOf(rec, t)],
   valid |-> {t \in ActiveIn(known) : Valid(rec, map, t)}]

\* parse_record: the tags and the map of the validity bits are two looks.
ParseNext ==
  /\ pc = "parse" /\ call.batch # << >>
  /\ \E known \in {seen, table} :
       /\ seen' \in {known, table}
       /\ sample' = {Parsed(Head(call.batch), known, seen')}
  /\ Go("parse", [call EXCEPT !.batch = Tail(@)])
  /\ Unchanging

Return ==
  /\ pc = "parse" /\ call.batch = << >>
  /\ Go("idle", NoCall) /\ sample' = {}
  /\ UNCHANGED seen /\ Unchanging

-----------------------------------------------------------------------------
(* The PLC and the operator.                                               *)

Scan ==
  /\ moment < MaxMoment
  /\ moment' = moment + 1
  /\ \E bits \in SUBSET Bits : validAt' = [validAt EXCEPT ![moment + 1] = bits]
  /\ UNCHANGED <<simulation, tags, pc, call, sample>>

\* The settings page saves one row, with all its columns; a row that is deleted is no
\* longer active, and one that is created becomes so.
Edit ==
  /\ edits < MaxEdits
  /\ edits' = edits + 1
  /\ \E r \in Rows : \E entry \in Entry :
       /\ Row[entry.tag] = r /\ entry # table[r]
       /\ table' = [table EXCEPT ![r] = entry]
       /\ call' = [call EXCEPT !.calm = FALSE, !.steady = @ /\ entry.tag = table[r].tag]
  /\ UNCHANGED <<simulation, seen, plc, pc, sample>>

Init ==
  /\ simulation \in BOOLEAN
  /\ table \in Table /\ (\A r \in Rows : table[r].active) /\ seen = table /\ edits = 0
  /\ moment = 0 /\ validAt = [m \in 0 .. MaxMoment |-> {}]
  /\ pc = "idle" /\ call = NoCall /\ sample = {}

Next ==
  \/ Begin \/ BuildNext \/ Choose \/ ReadStatus \/ ReadPayloadStatus \/ ReadLive \/ ReadTag
  \/ Rebuild \/ ReadHistory \/ ParseNext \/ Return \/ Scan \/ Edit

Spec == Init /\ [][Next]_vars

-----------------------------------------------------------------------------
(* Properties.                                                             *)

TypeOK ==
  /\ simulation \in BOOLEAN
  /\ table \in Table /\ seen \in Table /\ edits \in 0 .. MaxEdits
  /\ moment \in 0 .. MaxMoment /\ validAt \in [0 .. MaxMoment -> SUBSET Bits]
  /\ pc \in PC /\ call \in Call
  /\ \A s \in sample :
       /\ s.rec \in Record /\ s.valid \subseteq DOMAIN s.value
       /\ \A t \in DOMAIN s.value : s.value[t] \in Seq(Word)
  /\ \A r \in {call.sim[i] : i \in DOMAIN call.sim} :
       \A i \in DOMAIN r.words : r.words[i].val >= 0

IsReal(t) == ~simulation \/ ~table[Row[t]].sim

\* The words of the rows do not overlap, and are in the live record.
Apart ==
  \A r \in Rows : LET t == table[r].tag IN
    /\ Range(t) \subseteq 0 .. LiveWords - 1
    /\ \A q \in Rows \ {r} : Range(t) \cap Range(table[q].tag) = {}
\* The columns of the registers stay as they are during the call: the code neither locks
\* nor copies them.
Steady == call.steady /\ Apart

\* A value of two words is never put together from the PLC and the simulation, nor from
\* two scans of the PLC, whatever fails and scans meanwhile and whichever tags are
\* switched on, off, to the PLC or to the simulation between the looks of the call; only
\* an edit of the registers of a tag during the call can tear it.
NeverTorn ==
  \A s \in sample : Steady => \A t \in DOMAIN s.value : LET w == s.value[t] IN
    \A k \in DOMAIN w : w[k].from = w[1].from /\ w[k].of = w[1].of

\* While nobody edits the tags: a tag that is simulated shows what was simulated for it,
\* one that is real shows its own registers, as of the scan of the record, or, where
\* nothing could be read, what was simulated for it; no value is a gap filled with zeros.
\* A record of the PLC has a tag at its offset; one that is simulated, what was read from
\* its address.
OwnRegisters(rec, t) ==
  IF rec.from = "plc" THEN Range(t) ELSE Address[t] .. Address[t] + Width(t) - 1
ValueFromItsSource ==
  \A s \in sample : call.calm /\ Apart =>
    \A t \in DOMAIN s.value : \A k \in DOMAIN s.value[t] : LET w == s.value[t][k] IN
      \/ w.from = "sim" /\ (IsReal(t) => simulation /\ s.rec.from = "sim")
      \/ /\ w.from = "plc" /\ IsReal(t) /\ w.val \in OwnRegisters(s.rec, t)
         /\ s.rec.from = "plc" => w.of = s.rec.of

\* A real tag in a record of the PLC is shown valid exactly if the PLC says so in that
\* scan, or an active simulated tag has the same validity bit: such a tag overrules the
\* PLC, which has cleared the bit, and nothing else does.
ValidIfPlcSaysSo ==
  \A s \in sample : call.calm /\ s.rec.from = "plc" =>
    \A t \in DOMAIN s.value : IsReal(t) /\ Bit[t] # NoBit =>
      (t \in s.valid <=> \/ Bit[t] \in validAt[s.rec.of]
                         \/ \E u \in DOMAIN s.value : ~IsReal(u) /\ Bit[u] = Bit[t])

\* What one read of the history returns is all from the PLC or all simulated: the
\* sequence numbers of the two have nothing to do with each other.
HistoryNotMixed ==
  \A i, k \in DOMAIN call.batch : call.batch[i].from = call.batch[k].from

\* A simulated value comes out of the parser as it went in, give or take the jitter of
\* its last word (the high word, if that is last), wherever neither the value nor the
\* jitter leaves the range of the type, as long as no edit of the registers of a tag
\* comes between encoding and parsing.
Fits(t, v) ==
  LET word == Encode(t, v)[Width(t)]
      half == WordSize \div 2
  IN  CASE DataType[t] = "int16" -> v \in 0 .. half - 3 \/ v \in 2 - half .. -3
        [] DataType[t] = "uint16" -> v \in 0 .. WordSize - 3
        [] DataType[t] = "int32" -> v \in 0 .. (half - 2) * WordSize - 1 /\ word <= WordSize - 3
        [] DataType[t] = "uint32" -> v \in 0 .. WordSize * WordSize - 1 /\ word <= WordSize - 3
        [] OTHER -> FALSE
ReadsBack ==
  \A s \in sample : Steady => \A t \in DOMAIN s.value : LET w == s.value[t] IN
    w # << >> /\ w[1].from = "sim" /\ Fits(t, w[1].of) =>
      LET unit == IF Width(t) = 2 /\ WordOrder[t] = "low_high" THEN WordSize ELSE 1
      IN  Number(t, w) - w[1].of \in {unit * d : d \in -2 .. 2}

=============================================================================
