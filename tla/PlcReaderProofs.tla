---------------------------- MODULE PlcReaderProofs ----------------------------
(***************************************************************************)
(* Types of polls and reads of the history, and why no value of a sample   *)
(* is torn, taken from the wrong source, marked valid by mistake or parsed *)
(* as another number than was encoded: for any table, any record lengths   *)
(* and word size, and any number of requests that fail, scans and edits,   *)
(* as long as the registers of the tags do not overlap and are not edited  *)
(* during the call.                                                        *)
(***************************************************************************)
EXTENDS PlcReader, WellFoundedInduction, TLAPS

\* The tags that a record can be held to: those that the rows are, if they do not overlap
\* and have been the same for the whole call, and none otherwise.
Followed == {t \in Tags : Steady /\ table[Row[t]].tag = t}
Agrees(tab) == \A t \in Followed : tab[Row[t]].tag = t

\* The words of a tag come from one place.
Whole(r) ==
  \A t \in Followed : Range(t) \subseteq DOMAIN r.words =>
    \A i, j \in Range(t) : r.words[i].from = r.words[j].from /\ r.words[i].of = r.words[j].of

\* The k-th word of a tag for which v was simulated: encoded, and the last with a jitter.
Near(t, v, k, x) ==
  \E j \in -2 .. 2 : (k # Width(t) => j = 0) /\ x = Jittered(Encode(t, v)[k], j)
Encoded(r) ==
  \A t \in Followed : \A i \in Range(t) \cap DOMAIN r.words : r.words[i].from = "sim" =>
    Near(t, r.words[i].of, i - Offset[t] + 1, r.words[i].val)

\* A record as the parser gets it, and one that the client has built.
Good(r) == r \in Record /\ Whole(r) /\ Encoded(r) /\ (r.from = "plc" => r.of \in 0 .. moment)
Built(r) ==
  /\ Good(r) /\ r.from = "sim"
  /\ DOMAIN r.words = 0 .. LiveWords - 1
  /\ \A i \in DOMAIN r.words : r.words[i].val >= 0

\* The words of one tag as the PLC had them in some scan.
PlcWords(m, t) == [k \in 1 .. Width(t) |-> PlcWord(m, Address[t] + k - 1)]
Registers(t) == Address[t] .. Address[t] + Width(t) - 1

\* Where a call is, how much it has read.
CallInv ==
  /\ pc \in {"build", "choose", "status", "tags"} => simulation
  /\ pc # "idle" => call.want >= 1
  /\ pc = "build" => Len(call.sim) < call.want
  /\ simulation /\ pc \in {"choose", "status", "payload", "live", "tags", "history"} =>
       Len(call.sim) = call.want
  /\ pc = "history" => Len(call.batch) < call.want
  /\ pc \notin {"history", "parse"} => call.batch = << >>
  /\ pc # "tags" => call.got = NoWords
  /\ pc = "tags" => call.todo \subseteq RealIn(call.tab)

\* The words that were read for a row are those of the tag that was in it.
GotFor(got, tab, q) ==
  tab[q].tag \in RealIn(tab) /\ \E m \in 0 .. moment : got[q] = PlcWords(m, tab[q].tag)

\* What a call holds is whole and genuine.
RecordInv ==
  /\ \A i \in DOMAIN call.sim : Built(call.sim[i])
  /\ pc = "history" => \A i \in DOMAIN call.batch :
       \E m \in 0 .. moment : call.batch[i] = PlcRecord(m, HistoryWords)
  /\ pc = "parse" => \A i \in DOMAIN call.batch : Good(call.batch[i])
  /\ \A q \in Rows : call.got[q] # << >> => GotFor(call.got, call.tab, q)
  /\ pc # "parse" => sample = {}
  /\ \A s \in sample : Good(s.rec) /\ \E known, map \in Table :
       /\ s = Parsed(s.rec, known, map) /\ Agrees(known)
       /\ call.calm => known = table /\ map = table

\* Every look of a call finds the same registers.
SteadyInv ==
  pc # "idle" =>
    /\ Agrees(seen)
    /\ simulation /\ pc \in {"status", "payload", "live", "tags", "history"} => Agrees(call.tab)

\* The words of the tags in use come from where they should, and the bits say so.
FromSource(r) ==
  \A t \in ActiveIn(table) \cap Followed : \A i \in Range(t) \cap DOMAIN r.words :
    LET w == r.words[i] IN
    \/ w.from = "sim" /\ (IsReal(t) => simulation /\ r.from = "sim")
    \/ /\ w.from = "plc" /\ IsReal(t) /\ w.val \in OwnRegisters(r, t)
       /\ r.from = "plc" => w.of = r.of
BitsRight(r) ==
  r.from = "plc" => \A t \in ActiveIn(table) : IsReal(t) /\ Bit[t] # NoBit =>
    (Bit[t] \in r.bits <=> \/ Bit[t] \in validAt[r.of]
                           \/ \E u \in ActiveIn(table) : ~IsReal(u) /\ Bit[u] = Bit[t])
AllSimulated(r) ==
  \A t \in ActiveIn(table) \cap Followed : \A k \in Range(t) : r.words[k].from = "sim"

\* What holds of a call while nobody edits the tags.
CalmInv ==
  call.calm /\ pc # "idle" =>
    /\ call.steady /\ seen = table
    /\ simulation /\ pc \in {"status", "payload", "live", "tags", "history"} => call.tab = table
    /\ \A i \in DOMAIN call.sim :
         call.sim[i].bits = BitsOf(ActiveIn(table)) /\ AllSimulated(call.sim[i])
    /\ pc = "parse" => \A i \in DOMAIN call.batch : FromSource(call.batch[i]) /\ BitsRight(call.batch[i])
    /\ \A s \in sample : FromSource(s.rec) /\ BitsRight(s.rec)

-----------------------------------------------------------------------------
(* Tags and words.                                                         *)

LEMMA SmallestExists ==
  ASSUME NEW S \in SUBSET Nat, S # {}
  PROVE  \E x \in S : \A y \in S : x <= y
<1>1. PICK x \in S : \A y \in S : ~(<<y, x>> \in OpToRel(<, Nat))
  BY NatLessThanWellFounded, WFMin
<1>2. \A y \in S : ~(y < x)
  BY <1>1 DEF OpToRel
<1> QED
  BY <1>2

LEMMA SquareIsPositive == WordSize * WordSize \in Nat \ {0}
  BY SizeAssumption

LEMMA LastExists ==
  ASSUME NEW S \in SUBSET Tags, S # {}
  PROVE  \E t \in S : \A u \in S : Place[u] <= Place[t]
<1>1. PICK last \in Tags : \A u \in Tags : Place[u] <= Place[last]
  BY TagAssumption
<1>2. \A u \in Tags : Place[u] \in Nat
  BY TagAssumption
<1> DEFINE D == {Place[last] - Place[u] : u \in S}
<1>3. D \in SUBSET Nat /\ D # {}
  BY <1>1, <1>2
<1>4. PICK x \in D : \A y \in D : x <= y
  BY <1>3, SmallestExists
<1>5. PICK t \in S : x = Place[last] - Place[t]
  OBVIOUS
<1>6. \A u \in S : Place[last] - Place[t] <= Place[last] - Place[u]
  BY <1>4, <1>5
<1> QED
  BY <1>2, <1>5, <1>6

LEMMA Widths ==
  ASSUME NEW t \in Tags
  PROVE  /\ Width(t) \in {1, 2} /\ Offset[t] \in Nat /\ Address[t] \in Nat /\ Row[t] \in Rows
         /\ Range(t) = Offset[t] .. Offset[t] + Width(t) - 1
         /\ Offset[t] \in Range(t) /\ Offset[t] + Width(t) - 1 \in Range(t)
  BY TagAssumption DEF Width, Range

\* The tags that are followed have words of their own, and whatever a look that agrees
\* with the table finds active is one of them.
LEMMA FollowedFacts ==
  ASSUME table \in Table
  PROVE  /\ Followed \subseteq Tags
         /\ \A t \in Followed : Range(t) \subseteq 0 .. LiveWords - 1
         /\ \A t, u \in Followed : t # u => Range(t) \cap Range(u) = {}
         /\ \A tab \in Table : Agrees(tab) /\ Followed # {} => ActiveIn(tab) \subseteq Followed
<1>1. Followed \subseteq Tags /\ \A t \in Followed : Row[t] \in Rows /\ table[Row[t]].tag = t
  BY TagAssumption DEF Followed
<1>2. \A t \in Followed : Range(t) \subseteq 0 .. LiveWords - 1
  BY <1>1 DEF Followed, Steady, Apart
<1>3. ASSUME NEW t \in Followed, NEW u \in Followed, t # u PROVE Range(t) \cap Range(u) = {}
  <2>1. Row[t] # Row[u]
    BY <1>1, <1>3
  <2> QED
    BY <1>1, <2>1 DEF Followed, Steady, Apart
<1>4. ASSUME NEW tab \in Table, Agrees(tab), Followed # {}, NEW t \in ActiveIn(tab) PROVE t \in Followed
  <2>1. t \in Tags /\ tab[Row[t]].tag = t /\ Row[t] \in Rows
    BY TagAssumption DEF ActiveIn
  <2>2. PICK v : v = table[Row[t]].tag
    OBVIOUS
  <2>3. v \in Tags /\ Row[v] = Row[t]
    BY <2>1, <2>2 DEF Table, Entry
  <2>4. v \in Followed
    BY <1>4, <2>2, <2>3 DEF Followed
  <2> QED
    BY <1>4, <2>1, <2>3, <2>4 DEF Agrees
<1> QED
  BY <1>1, <1>2, <1>3, <1>4

\* A word of a record belongs to one tag at most.
LEMMA OneOwner ==
  ASSUME table \in Table, NEW tab \in Table, Agrees(tab), NEW t \in Followed, NEW u \in ActiveIn(tab),
         NEW i \in Range(t), i \in Range(u)
  PROVE  t = u
  BY FollowedFacts

\* As long as neither the table nor what is known of the call changes, the same tags are
\* followed.
LEMMA SameFollowed ==
  ASSUME table' = table, call'.steady = call.steady
  PROVE  Followed' = Followed
BY DEF Followed, Steady, Apart

\* _encode_simulated_words makes as many words as the type has, of whole numbers.
LEMMA EncodeType ==
  ASSUME NEW t \in Tags, NEW v \in Int, NEW k \in 1 .. Width(t)
  PROVE  Encode(t, v)[k] \in Int
<1> DEFINE n == AtLeastZero(v) % (WordSize * WordSize)
<1>1. AtLeastZero(v) \in Int
  BY DEF AtLeastZero
<1>2. n \in Int
  BY <1>1, SquareIsPositive
<1>3. n \div WordSize \in Int /\ n % WordSize \in Int /\ v % WordSize \in Int
  BY <1>2, SizeAssumption
<1>4. CASE DataType[t] \notin Wide
  BY <1>3, <1>4 DEF Encode, Width
<1>5. CASE DataType[t] \in Wide
  <2>1. Encode(t, v) = IF WordOrder[t] = "low_high" THEN <<n % WordSize, n \div WordSize>>
                       ELSE <<n \div WordSize, n % WordSize>>
    BY <1>5 DEF Encode
  <2> HIDE DEF n
  <2> QED
    BY <2>1, <1>3 DEF Width
<1> QED
  BY <1>4, <1>5

\* Words of the PLC that a call has read for single tags.
GotOK(got, tab) ==
  got \in [Rows -> Seq(Word)] /\ \A q \in Rows : got[q] # << >> => GotFor(got, tab, q)

\* What is written for a tag are words, and none is negative.
LEMMA WrittenType ==
  ASSUME NEW tab \in Table, NEW real \in Table, NEW got, GotOK(got, real), NEW d \in Draws, NEW t \in Tags,
         NEW k \in DOMAIN Written(tab, got, d, t)
  PROVE  Written(tab, got, d, t)[k] \in Word /\ Written(tab, got, d, t)[k].val >= 0
<1> DEFINE words == TagWords(got, d, t)
           j == IF tab[Row[t]].sim /\ k = Len(words) THEN d.jitter ELSE 0
<1>1. k \in DOMAIN words /\ Written(tab, got, d, t)[k] = [words[k] EXCEPT !.val = Jittered(@, j)]
  BY DEF Written
<1>2. words[k] \in Word
  <2>1. CASE got[Row[t]] # << >>
    <3>1. got[Row[t]] \in Seq(Word) /\ words = got[Row[t]]
      BY <2>1, Widths DEF GotOK, TagWords
    <3> QED
      BY <1>1, <3>1
  <2>2. CASE got[Row[t]] = << >>
    <3> DEFINE v == SimValue(t, d.raw, d.elapsed)
    <3>1. words = [n \in 1 .. Width(t) |-> [from |-> "sim", of |-> v, val |-> Encode(t, v)[n]]]
      BY <2>2 DEF TagWords
    <3>2. v \in Int
      BY SizeAssumption DEF SimValue
    <3>3. \A n \in 1 .. Width(t) : Encode(t, v)[n] \in Int
      BY <3>2, EncodeType
    <3> HIDE DEF words, v
    <3> QED
      BY <1>1, <3>1, <3>2, <3>3 DEF Word
  <2> QED
    BY <2>1, <2>2
<1>3. d.jitter \in -2 .. 2
  BY SizeAssumption
<1>4. j \in Int
  BY <1>3
<1> HIDE DEF words, j
<1>5. \A x \in Int : Jittered(x, j) \in Int /\ Jittered(x, j) >= 0
  BY <1>4 DEF Jittered, AtLeastZero
<1> QED
  BY <1>1, <1>2, <1>5 DEF Word

\* The word that _build_record puts where the tag t is.
BuiltWord(tab, got, d, t, i) == Written(tab, got, d, t)[i - Offset[t] + 1]

\* What is written for a tag that is followed fills its own words.
LEMMA BuiltWordType ==
  ASSUME table \in Table, NEW tab \in Table, NEW real \in Table, Agrees(real), NEW got, GotOK(got, real),
         moment \in Nat, NEW d \in Draws, NEW t \in Followed
  PROVE  /\ DOMAIN Written(tab, got, d, t) = 1 .. Width(t)
         /\ \A i \in Range(t) : LET w == BuiltWord(tab, got, d, t, i) IN
              /\ w \in Word /\ w.val >= 0
              /\ got[Row[t]] = << >> => /\ w.from = "sim" /\ w.of = SimValue(t, d.raw, d.elapsed)
                                        /\ Near(t, w.of, i - Offset[t] + 1, w.val)
              /\ \A m \in Nat : got[Row[t]] = PlcWords(m, t) => w.from = "plc" /\ w.of = m
              /\ got[Row[t]] # << >> =>
                   /\ \E m \in 0 .. moment : got[Row[t]] = PlcWords(m, t)
                   /\ ~tab[Row[t]].sim => w.val \in Registers(t)
<1> DEFINE words == TagWords(got, d, t)
           v == SimValue(t, d.raw, d.elapsed)
<1>0. t \in Tags /\ Row[t] \in Rows /\ Width(t) \in {1, 2} /\ Offset[t] \in Nat /\ Address[t] \in Nat
      /\ Range(t) = Offset[t] .. Offset[t] + Width(t) - 1
  BY Widths, FollowedFacts
<1>1. ASSUME got[Row[t]] # << >>
      PROVE  real[Row[t]].tag = t /\ words = got[Row[t]] /\ \E m \in 0 .. moment : got[Row[t]] = PlcWords(m, t)
  <2>1. real[Row[t]].tag = t
    BY DEF Agrees
  <2> QED
    BY <1>0, <1>1, <2>1 DEF GotOK, GotFor, TagWords
<1>2. ASSUME got[Row[t]] = << >>
      PROVE  words = [n \in 1 .. Width(t) |-> [from |-> "sim", of |-> v, val |-> Encode(t, v)[n]]]
  BY <1>2 DEF TagWords
<1>3. DOMAIN words = 1 .. Width(t) /\ Len(words) = Width(t)
  <2>1. CASE got[Row[t]] # << >>
    <3>1. PICK m \in 0 .. moment : words = PlcWords(m, t)
      BY <1>1, <2>1
    <3> QED
      BY <1>0, <3>1 DEF PlcWords
  <2>2. CASE got[Row[t]] = << >>
    BY <1>0, <1>2, <2>2
  <2> QED
    BY <2>1, <2>2
<1>4. DOMAIN Written(tab, got, d, t) = 1 .. Width(t)
  BY <1>3 DEF Written
<1> SUFFICES ASSUME NEW i \in Range(t)
             PROVE  LET w == BuiltWord(tab, got, d, t, i) IN
              /\ w \in Word /\ w.val >= 0
              /\ got[Row[t]] = << >> => /\ w.from = "sim" /\ w.of = SimValue(t, d.raw, d.elapsed)
                                        /\ Near(t, w.of, i - Offset[t] + 1, w.val)
              /\ \A m \in Nat : got[Row[t]] = PlcWords(m, t) => w.from = "plc" /\ w.of = m
              /\ got[Row[t]] # << >> =>
                   /\ \E m \in 0 .. moment : got[Row[t]] = PlcWords(m, t)
                   /\ ~tab[Row[t]].sim => w.val \in Registers(t)
  BY <1>4
<1> DEFINE k == i - Offset[t] + 1
           j == IF tab[Row[t]].sim /\ k = Len(words) THEN d.jitter ELSE 0
           w == BuiltWord(tab, got, d, t, i)
<1>5. k \in 1 .. Width(t) /\ k \in Int
  BY <1>0
<1>6. w = [words[k] EXCEPT !.val = Jittered(@, j)]
  BY <1>3, <1>5 DEF BuiltWord, Written
<1>7. w \in Word /\ w.val >= 0
  BY <1>0, <1>4, <1>5, WrittenType DEF BuiltWord
<1>8. j \in -2 .. 2 /\ (~tab[Row[t]].sim => j = 0) /\ (k # Width(t) => j = 0)
  <2>1. d.jitter \in -2 .. 2
    BY SizeAssumption
  <2> HIDE DEF words, k
  <2> QED
    BY <1>3, <2>1
<1>9. k = i - Offset[t] + 1
  OBVIOUS
<1> HIDE DEF words, k, j, w
<1>10. CASE got[Row[t]] = << >>
  <2>1. w = [from |-> "sim", of |-> v, val |-> Jittered(Encode(t, v)[k], j)]
    BY <1>2, <1>5, <1>6, <1>10
  <2>2. Near(t, v, k, w.val)
    <3>1. w.val = Jittered(Encode(t, v)[k], j)
      BY <2>1
    <3> HIDE DEF v
    <3> QED
      BY <1>8, <3>1 DEF Near
  <2>3. \A m \in Nat : PlcWords(m, t) # << >>
    <3>1. \A m \in Nat : DOMAIN PlcWords(m, t) = 1 .. Width(t) /\ DOMAIN << >> = {}
      BY DEF PlcWords
    <3> QED
      BY <1>0, <3>1
  <2>4. w.from = "sim" /\ w.of = v
    BY <2>1
  <2> HIDE DEF v
  <2> QED
    BY <1>7, <1>9, <1>10, <2>2, <2>3, <2>4 DEF w, v
<1>11. CASE got[Row[t]] # << >>
  <2>1. PICK m \in 0 .. moment : got[Row[t]] = PlcWords(m, t) /\ words = PlcWords(m, t)
    BY <1>1, <1>11
  <2>2. words[k] = [from |-> "plc", of |-> m, val |-> Address[t] + k - 1]
    BY <1>5, <2>1 DEF PlcWords, PlcWord
  <2>3. w = [from |-> "plc", of |-> m, val |-> Jittered(Address[t] + k - 1, j)]
    BY <1>6, <2>2
  <2>4. \A n \in Nat : got[Row[t]] = PlcWords(n, t) => n = m
    <3>1. ASSUME NEW n \in Nat, got[Row[t]] = PlcWords(n, t) PROVE n = m
      <4>1. PlcWords(n, t)[k] = [from |-> "plc", of |-> n, val |-> Address[t] + k - 1]
        BY <1>5 DEF PlcWords, PlcWord
      <4>2. PlcWords(n, t)[k] = words[k]
        BY <2>1, <3>1
      <4> QED
        BY <2>2, <4>1, <4>2
    <3> QED
      BY <3>1
  <2>5. ASSUME ~tab[Row[t]].sim PROVE w.val \in Registers(t)
    <3>1. Jittered(Address[t] + k - 1, j) = Address[t] + k - 1
      BY <1>0, <1>5, <1>8, <2>5 DEF Jittered, AtLeastZero
    <3> QED
      BY <1>0, <1>5, <2>3, <3>1 DEF Registers
  <2>6. w.from = "plc" /\ w.of = m
    BY <2>3
  <2> QED
    BY <1>7, <1>11, <2>1, <2>4, <2>5, <2>6 DEF w
<1> QED
  BY <1>10, <1>11

\* Every word of the record is one that was written, or zero; a tag that is followed has
\* its own.
LEMMA BuildWords ==
  ASSUME table \in Table, moment \in Nat, NEW tab \in Table, NEW real \in Table, NEW got, GotOK(got, real),
         NEW d \in Draws, NEW i \in 0 .. LiveWords - 1
  PROVE  LET w == Build(tab, got, d).words[i] IN
         /\ w \in Word /\ w.val >= 0
         /\ Agrees(tab) /\ Agrees(real) =>
              /\ \A t \in ActiveIn(tab) \cap Followed : i \in Range(t) => w = BuiltWord(tab, got, d, t, i)
              /\ \A t \in Followed \ ActiveIn(tab) : i \in Range(t) => w = Zero
<1> DEFINE writers == {t \in ActiveIn(tab) : i - Offset[t] + 1 \in DOMAIN Written(tab, got, d, t)}
           last == CHOOSE t \in writers : \A u \in writers : Place[u] <= Place[t]
           inside == \E t \in ActiveIn(tab) : i < Offset[t] + Width(t)
           w == Build(tab, got, d).words[i]
<1>1. /\ inside /\ writers # {} => last \in ActiveIn(tab) /\ w = Written(tab, got, d, last)[i - Offset[last] + 1]
      /\ ~(inside /\ writers # {}) => w = Zero
      /\ writers # {} => last \in writers
  <2>1. writers # {} => last \in writers
    <3>1. writers \in SUBSET Tags
      BY DEF ActiveIn
    <3> QED
      BY <3>1, LastExists
  <2> HIDE DEF last
  <2>2. writers = {t \in ActiveIn(tab) : i - Offset[t] + 1 \in DOMAIN [u \in ActiveIn(tab) |-> Written(tab, got, d, u)][t]}
    OBVIOUS
  <2>3. w = IF inside THEN IF writers = {} THEN Zero
                           ELSE [u \in ActiveIn(tab) |-> Written(tab, got, d, u)][last][i - Offset[last] + 1]
            ELSE Zero
    <3> DEFINE W == {t \in ActiveIn(tab) : i - Offset[t] + 1 \in DOMAIN [u \in ActiveIn(tab) |-> Written(tab, got, d, u)][t]}
    <3>1. w = IF i \in {n \in 0 .. LiveWords - 1 : \E t \in ActiveIn(tab) : n < Offset[t] + Width(t)}
              THEN IF W = {} THEN Zero
                   ELSE [u \in ActiveIn(tab) |-> Written(tab, got, d, u)][CHOOSE t \in W : \A x \in W : Place[x] <= Place[t]]
                          [i - Offset[CHOOSE t \in W : \A x \in W : Place[x] <= Place[t]] + 1]
              ELSE Zero
      BY DEF Build
    <3>2. W = writers
      BY <2>2
    <3>3. last = CHOOSE t \in W : \A x \in W : Place[x] <= Place[t]
      BY <3>2, Zenon DEF last
    <3>4. i \in {n \in 0 .. LiveWords - 1 : \E t \in ActiveIn(tab) : n < Offset[t] + Width(t)} <=> inside
      OBVIOUS
    <3> HIDE DEF W, w, inside, writers
    <3> QED
      BY <3>1, <3>2, <3>3, <3>4
  <2> QED
    BY <2>1, <2>3
<1> HIDE DEF w, inside, last
<1>2. w \in Word /\ w.val >= 0
  <2>1. Zero \in Word /\ Zero.val >= 0
    BY DEF Zero, Word
  <2>2. CASE inside /\ writers # {}
    <3>1. last \in Tags /\ i - Offset[last] + 1 \in DOMAIN Written(tab, got, d, last)
      BY <1>1, <2>2 DEF ActiveIn
    <3> QED
      BY <1>1, <2>2, <3>1, WrittenType
  <2> QED
    BY <1>1, <2>1, <2>2
<1>3. ASSUME Agrees(tab), Agrees(real), NEW u \in writers, Followed # {} PROVE u \in Followed /\ i \in Range(u)
  <2>1. u \in Followed /\ u \in Tags
    BY <1>3, FollowedFacts
  <2>2. i - Offset[u] + 1 \in 1 .. Width(u)
    <3>1. DOMAIN Written(tab, got, d, u) = 1 .. Width(u)
      BY <1>3, <2>1, BuiltWordType
    <3> QED
      BY <3>1
  <2> QED
    BY <2>1, <2>2, Widths
<1>4. ASSUME Agrees(tab), Agrees(real), NEW t \in ActiveIn(tab) \cap Followed, i \in Range(t)
      PROVE  w = BuiltWord(tab, got, d, t, i)
  <2>0. t \in Tags /\ Width(t) \in {1, 2} /\ Offset[t] \in Nat /\ i \in Offset[t] .. Offset[t] + Width(t) - 1
    BY <1>4, Widths, FollowedFacts
  <2>1. i - Offset[t] + 1 \in 1 .. Width(t) /\ i < Offset[t] + Width(t)
    BY <2>0
  <2>2. t \in writers
    <3>1. DOMAIN Written(tab, got, d, t) = 1 .. Width(t)
      BY <1>4, BuiltWordType
    <3> QED
      BY <1>4, <2>1, <3>1
  <2>3. inside
    BY <2>1 DEF inside
  <2>4. last = t
    <3>1. last \in writers
      BY <1>1, <2>2
    <3>2. last \in Followed /\ i \in Range(last)
      BY <1>3, <1>4, <3>1
    <3> QED
      BY <1>4, <3>2, FollowedFacts
  <2> QED
    BY <1>1, <2>2, <2>3, <2>4 DEF BuiltWord
<1>5. ASSUME Agrees(tab), Agrees(real), NEW t \in Followed \ ActiveIn(tab), i \in Range(t)
      PROVE  w = Zero
  <2>1. writers = {}
    <3> SUFFICES ASSUME NEW u \in writers PROVE FALSE
      OBVIOUS
    <3>1. u \in Followed /\ i \in Range(u) /\ u \in ActiveIn(tab)
      BY <1>3, <1>5
    <3> QED
      BY <1>5, <3>1, FollowedFacts
  <2> QED
    BY <1>1, <2>1
<1> QED
  BY <1>2, <1>4, <1>5 DEF w

\* _build_record makes a record of whole values, each tag its own.
LEMMA BuildIsBuilt ==
  ASSUME table \in Table, moment \in Nat, NEW tab \in Table, NEW real \in Table, NEW got, GotOK(got, real),
         Agrees(tab), Agrees(real), NEW d \in Draws
  PROVE  LET r == Build(tab, got, d)
         IN  /\ Built(r) /\ r.bits = BitsOf(ActiveIn(tab))
             /\ \A t \in ActiveIn(tab) \cap Followed : \A i \in Range(t) :
                  r.words[i] = BuiltWord(tab, got, d, t, i)
<1> DEFINE r == Build(tab, got, d)
<1>1. /\ r.from = "sim" /\ r.of = d.elapsed /\ r.running = Running(d.elapsed)
      /\ r.bits = BitsOf(ActiveIn(tab)) /\ DOMAIN r.words = 0 .. LiveWords - 1
      /\ r = [from |-> r.from, of |-> r.of, running |-> r.running, bits |-> r.bits, words |-> r.words]
      /\ r.words = [i \in 0 .. LiveWords - 1 |-> r.words[i]]
  BY DEF Build
<1>2. \A t \in ActiveIn(tab) \cap Followed : \A i \in Range(t) : r.words[i] = BuiltWord(tab, got, d, t, i)
  BY BuildWords, FollowedFacts
<1>a. \A t \in Followed \ ActiveIn(tab) : \A i \in Range(t) : r.words[i] = Zero
  BY BuildWords, FollowedFacts
<1>3. \A i \in 0 .. LiveWords - 1 : r.words[i] \in Word /\ r.words[i].val >= 0
  BY BuildWords
<1> HIDE DEF r
<1>4. r.words \in [0 .. LiveWords - 1 -> Word]
  BY <1>1, <1>3
<1>5. d.elapsed \in Int /\ Running(d.elapsed) \in SUBSET {1, 2} /\ BitsOf(ActiveIn(tab)) \in SUBSET Bits
  BY SizeAssumption DEF Running, BitsOf, Bits, ActiveIn
<1>6. r \in Record
  BY <1>1, <1>4, <1>5 DEF Record
<1>7. Whole(r)
  <2> SUFFICES ASSUME NEW t \in Followed, NEW i \in Range(t), NEW k \in Range(t)
               PROVE  r.words[i].from = r.words[k].from /\ r.words[i].of = r.words[k].of
    BY DEF Whole
  <2>1. CASE t \in ActiveIn(tab) /\ got[Row[t]] = << >>
    BY <2>1, <1>2, BuiltWordType
  <2>2. CASE t \in ActiveIn(tab) /\ got[Row[t]] # << >>
    <3>1. PICK m \in 0 .. moment : got[Row[t]] = PlcWords(m, t)
      BY <2>2, BuiltWordType
    <3> QED
      BY <2>2, <3>1, <1>2, BuiltWordType
  <2>3. CASE t \notin ActiveIn(tab)
    BY <2>3, <1>a
  <2> QED
    BY <2>1, <2>2, <2>3
<1>8. Encoded(r)
  <2> SUFFICES ASSUME NEW t \in Followed, NEW i \in Range(t), r.words[i].from = "sim"
               PROVE  Near(t, r.words[i].of, i - Offset[t] + 1, r.words[i].val)
    BY DEF Encoded
  <2>1. CASE t \in ActiveIn(tab) /\ got[Row[t]] = << >>
    BY <2>1, <1>2, BuiltWordType
  <2>2. CASE t \in ActiveIn(tab) /\ got[Row[t]] # << >>
    <3>1. PICK m \in 0 .. moment : got[Row[t]] = PlcWords(m, t)
      BY <2>2, BuiltWordType
    <3> QED
      BY <2>2, <3>1, <1>2, BuiltWordType
  <2>3. CASE t \notin ActiveIn(tab)
    BY <2>3, <1>a DEF Zero
  <2> QED
    BY <2>1, <2>2, <2>3
<1> QED
  BY <1>1, <1>2, <1>3, <1>6, <1>7, <1>8 DEF Built, Good, r

\* A record of the PLC.
LEMMA PlcRecordIsGood ==
  ASSUME moment \in 0 .. MaxMoment, validAt \in [0 .. MaxMoment -> SUBSET Bits],
         NEW m \in 0 .. moment, NEW n \in {LiveWords, HistoryWords}
  PROVE  LET r == PlcRecord(m, n)
         IN  /\ Good(r) /\ r.from = "plc" /\ r.of = m /\ r.bits = validAt[m]
             /\ DOMAIN r.words = 0 .. n - 1
             /\ \A i \in 0 .. n - 1 : r.words[i] = PlcWord(m, i)
<1> DEFINE r == PlcRecord(m, n)
<1>1. /\ r.from = "plc" /\ r.of = m /\ r.bits = validAt[m] /\ r.running = {}
      /\ r.words = [i \in 0 .. n - 1 |-> PlcWord(m, i)]
  BY DEF PlcRecord
<1>2. m \in 0 .. MaxMoment /\ m \in Int
  BY SizeAssumption
<1>3. \A i \in 0 .. n - 1 : PlcWord(m, i) \in Word
  BY <1>2, SizeAssumption DEF PlcWord, Word
<1>4. r \in Record
  BY <1>1, <1>2, <1>3 DEF Record, PlcRecord
<1>5. Whole(r)
  BY <1>1 DEF Whole, PlcWord
<1>6. Encoded(r)
  BY <1>1 DEF Encoded, PlcWord
<1> QED
  BY <1>1, <1>4, <1>5, <1>6 DEF Good

\* _overlay_simulated_tags replaces all words of a tag or none.
LEMMA OverlayIsGood ==
  ASSUME table \in Table, NEW real, Good(real), real.from = "plc", NEW sim, Built(sim),
         NEW tab \in Table, Agrees(tab)
  PROVE  LET r == Overlay(real, sim, tab)
         IN  /\ Good(r) /\ r.from = "plc" /\ r.of = real.of
             /\ DOMAIN r.words = DOMAIN real.words
             /\ r.bits = real.bits \cup (sim.bits \cap BitsOf(SimIn(tab)))
             /\ \A t \in Followed : \A i \in Range(t) \cap DOMAIN real.words :
                  r.words[i] = IF t \in SimIn(tab) THEN sim.words[i] ELSE real.words[i]
<1> DEFINE r == Overlay(real, sim, tab)
           over == RangesOf(SimIn(tab)) \cap DOMAIN sim.words
<1> DEFINE bits == real.bits \cup (sim.bits \cap BitsOf(SimIn(tab)))
           words == [i \in DOMAIN real.words |-> IF i \in over THEN sim.words[i] ELSE real.words[i]]
<1>0. real = [from |-> real.from, of |-> real.of, running |-> real.running,
              bits |-> real.bits, words |-> real.words]
  BY DEF Good, Record
<1>1. /\ r.from = real.from /\ r.of = real.of /\ r.running = real.running
      /\ r.bits = bits /\ r.words = words
      /\ r = [from |-> real.from, of |-> real.of, running |-> real.running, bits |-> bits, words |-> words]
  <2>1. r = [[real EXCEPT !.words = words] EXCEPT !.bits = bits]
    BY <1>0 DEF Overlay, Put
  <2> HIDE DEF r, bits, words
  <2>2. r = [from |-> real.from, of |-> real.of, running |-> real.running, bits |-> bits, words |-> words]
    BY <1>0, <2>1
  <2> QED
    BY <2>2
<1>2. \A t \in Followed : \A i \in Range(t) : i \in over <=> t \in SimIn(tab)
  <2> SUFFICES ASSUME NEW t \in Followed, NEW i \in Range(t) PROVE i \in over <=> t \in SimIn(tab)
    OBVIOUS
  <2>1. i \in DOMAIN sim.words
    BY FollowedFacts DEF Built
  <2>2. \A u \in SimIn(tab) : i \in Range(u) => u = t
    BY OneOwner DEF SimIn
  <2> QED
    BY <2>1, <2>2 DEF RangesOf
<1> HIDE DEF r
<1>3. \A i \in over : sim.words[i] \in Word
  <2>1. over \subseteq 0 .. LiveWords - 1
    BY DEF Built
  <2>2. sim.words \in [0 .. LiveWords - 1 -> Word]
    BY DEF Built, Good, Record
  <2> QED
    BY <2>1, <2>2
<1> HIDE DEF over
<1>4. r.words \in [0 .. LiveWords - 1 -> Word] \cup [0 .. HistoryWords - 1 -> Word]
  <2>1. real.words \in [0 .. LiveWords - 1 -> Word] \cup [0 .. HistoryWords - 1 -> Word]
    BY DEF Good, Record
  <2>2. CASE real.words \in [0 .. LiveWords - 1 -> Word]
    BY <2>2, <1>1, <1>3
  <2>3. CASE real.words \in [0 .. HistoryWords - 1 -> Word]
    BY <2>3, <1>1, <1>3
  <2> QED
    BY <2>1, <2>2, <2>3
<1>5. r.bits \in SUBSET Bits
  BY <1>1 DEF Built, Good, Record
<1>6. r \in Record
  BY <1>1, <1>4, <1>5 DEF Good, Record
<1>7. \A t \in Followed : \A i \in Range(t) \cap DOMAIN real.words :
        r.words[i] = IF t \in SimIn(tab) THEN sim.words[i] ELSE real.words[i]
  BY <1>1, <1>2
<1>8. Whole(r)
  <2> SUFFICES ASSUME NEW t \in Followed, Range(t) \subseteq DOMAIN real.words,
                      NEW i \in Range(t), NEW k \in Range(t)
               PROVE  r.words[i].from = r.words[k].from /\ r.words[i].of = r.words[k].of
    BY <1>1 DEF Whole
  <2>1. Range(t) \subseteq DOMAIN sim.words
    BY FollowedFacts DEF Built
  <2> QED
    BY <1>7, <2>1 DEF Built, Good, Whole
<1>9. Encoded(r)
  <2> SUFFICES ASSUME NEW t \in Followed, NEW i \in Range(t) \cap DOMAIN real.words, r.words[i].from = "sim"
               PROVE  Near(t, r.words[i].of, i - Offset[t] + 1, r.words[i].val)
    BY <1>1 DEF Encoded
  <2>1. Range(t) \subseteq DOMAIN sim.words
    BY FollowedFacts DEF Built
  <2> QED
    BY <1>7, <2>1 DEF Built, Good, Encoded
<1> QED
  BY <1>1, <1>6, <1>7, <1>8, <1>9 DEF Good, r

-----------------------------------------------------------------------------
(* Steps.                                                                  *)

Inv == TypeOK /\ CallInv /\ RecordInv /\ HistoryNotMixed /\ SteadyInv /\ CalmInv

LEMMA NoCallType == NoCall \in Call
<1>0. \A q \in Rows : NoTable[q].tag \in Tags /\ Row[NoTable[q].tag] = q
  BY TagAssumption DEF NoTable
<1>1. NoTable \in Table /\ NoWords \in [Rows -> Seq(Word)]
  <2>1. NoTable \in [Rows -> Entry]
    BY <1>0 DEF NoTable, Entry
  <2> QED
    BY <1>0, <2>1 DEF Table, NoWords
<1>2. SimStatus \in Status
  BY DEF SimStatus, Status
<1>3. 0 \in 0 .. MaxCount
  BY SizeAssumption
<1> QED
  BY <1>1, <1>2, <1>3 DEF NoCall, Call

LEMMA Starts == Init => Inv
<1> SUFFICES ASSUME Init PROVE Inv
  OBVIOUS
<1> USE DEF Init
<1>1. /\ call.sim = << >> /\ call.batch = << >> /\ call.got = NoWords /\ DOMAIN call.sim = {}
      /\ DOMAIN call.batch = {}
  BY DEF NoCall
<1>2. TypeOK
  <2>1. table \in Table /\ seen \in Table
    OBVIOUS
  <2>2. edits \in 0 .. MaxEdits /\ moment \in 0 .. MaxMoment /\ validAt \in [0 .. MaxMoment -> SUBSET Bits]
    BY SizeAssumption
  <2> QED
    BY <1>1, <2>1, <2>2, NoCallType DEF TypeOK, PC
<1>3. CallInv
  BY <1>1 DEF CallInv
<1>4. RecordInv
  BY <1>1 DEF RecordInv, NoWords
<1> QED
  BY <1>1, <1>2, <1>3, <1>4 DEF Inv, HistoryNotMixed, SteadyInv, CalmInv

LEMMA NoWordsAreOK == \A tab : GotOK(NoWords, tab)
BY DEF GotOK, NoWords

\* A simulated record shows what was simulated, as long as nobody edits.
LEMMA BuiltFromSource ==
  ASSUME NEW r, Built(r), simulation, AllSimulated(r)
  PROVE  FromSource(r) /\ BitsRight(r)
BY DEF FromSource, BitsRight, Built, AllSimulated

LEMMA BeginKeeps == Inv /\ Begin => Inv'
<1> SUFFICES ASSUME Inv, Begin PROVE Inv'
  OBVIOUS
<1> USE DEF Unchanging, plc
<1>0. PICK calm \in BOOLEAN, steady \in BOOLEAN :
        (calm <=> seen = table) /\ (steady <=> \A q \in Rows : seen[q].tag = table[q].tag)
  OBVIOUS
<1>1. PICK kind \in {"live", "history"}, n \in 1 .. MaxCount :
        /\ kind = "live" => n = 1
        /\ call' = [NoCall EXCEPT !.kind = kind, !.want = n, !.calm = calm, !.steady = steady]
        /\ pc' = IF simulation THEN "build" ELSE IF kind = "live" THEN "payload" ELSE "history"
  <2>1. calm = (seen = table) /\ steady = (\A q \in Rows : seen[q].tag = table[q].tag)
    BY <1>0
  <2> QED
    BY <2>1, Zenon DEF Begin, Go
<1>2. /\ call' \in Call /\ call'.sim = << >> /\ call'.batch = << >> /\ call'.got = NoWords /\ call'.want = n
      /\ DOMAIN call'.sim = {} /\ DOMAIN call'.batch = {} /\ Len(call'.sim) = 0 /\ Len(call'.batch) = 0
      /\ call'.calm = calm /\ call'.steady = steady
  <2>1. n \in 0 .. MaxCount
    BY SizeAssumption
  <2>2. call' \in Call
    BY <1>1, <2>1, NoCallType DEF Call
  <2>3. /\ call'.sim = << >> /\ call'.batch = << >> /\ call'.got = NoWords /\ call'.want = n
        /\ call'.calm = calm /\ call'.steady = steady
    BY <1>1 DEF NoCall
  <2> QED
    BY <2>2, <2>3
<1>3. /\ sample' = {} /\ simulation' = simulation /\ seen' = seen /\ table' = table /\ edits' = edits
      /\ moment' = moment /\ validAt' = validAt
  BY DEF Begin
<1>4. TypeOK'
  BY <1>1, <1>2, <1>3 DEF TypeOK, PC, Inv
<1>5. CallInv'
  BY <1>1, <1>2, <1>3 DEF CallInv
<1>6. RecordInv'
  BY <1>1, <1>2, <1>3 DEF RecordInv, NoWords
<1>7. CalmInv'
  BY <1>0, <1>1, <1>2, <1>3 DEF CalmInv
<1>8. SteadyInv'
  <2>1. pc' \notin {"status", "tags", "payload", "live", "history"} \/ ~simulation'
    BY <1>1, <1>3
  <2>2. Agrees(seen)'
    <3>1. \A t \in Tags : Row[t] \in Rows
      BY Widths
    <3> QED
      BY <1>0, <1>2, <1>3, <3>1 DEF Agrees, Followed, Steady
  <2> QED
    BY <2>1, <2>2 DEF SteadyInv
<1> QED
  BY <1>2, <1>4, <1>5, <1>6, <1>7, <1>8 DEF Inv, HistoryNotMixed

LEMMA BuildNextKeeps == Inv /\ BuildNext => Inv'
<1> SUFFICES ASSUME Inv, BuildNext PROVE Inv'
  OBVIOUS
<1>1. PICK d \in Draws :
        LET c == [call EXCEPT !.sim = Append(@, Build(seen', NoWords, d))]
        IN  Go(IF Len(c.sim) = c.want THEN "choose" ELSE "build", c)
  BY DEF BuildNext, Builds
<1> DEFINE r == Build(seen', NoWords, d)
<1>2. /\ simulation' = simulation /\ seen' \in {seen, table} /\ table' = table /\ edits' = edits
      /\ moment' = moment /\ validAt' = validAt /\ sample' = sample
      /\ pc = "build" /\ sample = {} /\ moment \in Nat /\ seen' \in Table
      /\ table \in Table /\ moment \in 0 .. MaxMoment
  BY SizeAssumption DEF BuildNext, Look, Unchanging, plc, Inv, RecordInv, TypeOK
<1>a. Agrees(seen')
  BY <1>2 DEF Inv, SteadyInv, Agrees, Followed
<1>3. /\ Built(r) /\ r.bits = BitsOf(ActiveIn(seen'))
      /\ \A t \in ActiveIn(seen') \cap Followed : \A i \in Range(t) : r.words[i].from = "sim"
  <2>1. /\ Built(r) /\ r.bits = BitsOf(ActiveIn(seen'))
        /\ \A t \in ActiveIn(seen') \cap Followed : \A i \in Range(t) :
             r.words[i] = BuiltWord(seen', NoWords, d, t, i)
    BY <1>2, <1>a, BuildIsBuilt, NoWordsAreOK
  <2>2. \A t \in Followed : NoWords[Row[t]] = << >>
    BY <1>2, FollowedFacts, Widths DEF NoWords
  <2>3. \A t \in Followed : \A i \in Range(t) : BuiltWord(seen', NoWords, d, t, i).from = "sim"
    BY <1>2, <1>a, <2>2, BuiltWordType, NoWordsAreOK
  <2> QED
    BY <2>1, <2>3
<1> HIDE DEF r
<1>4. call \in Call /\ call.sim \in Seq(Record) /\ r \in Record /\ call.want \in Int
  BY <1>3, SizeAssumption DEF Inv, TypeOK, Call, Built, Good
<1>5. /\ call' = [call EXCEPT !.sim = Append(@, r)]
      /\ call' \in Call /\ call'.sim = Append(call.sim, r) /\ call'.want = call.want
      /\ call'.batch = call.batch /\ call'.got = call.got /\ call'.calm = call.calm
      /\ call'.steady = call.steady
      /\ pc' = IF Len(call'.sim) = call.want THEN "choose" ELSE "build"
  <2>1. /\ call' = [call EXCEPT !.sim = Append(@, r)]
        /\ pc' = IF Len(call'.sim) = call'.want THEN "choose" ELSE "build"
    BY <1>1, Zenon DEF Go, r
  <2>2. Append(call.sim, r) \in Seq(Record)
    BY <1>4
  <2>3. call' \in Call
    BY <1>4, <2>1, <2>2 DEF Call
  <2> QED
    BY <1>4, <2>1, <2>3 DEF Call
<1>6. /\ Len(call'.sim) = Len(call.sim) + 1 /\ DOMAIN call'.sim = 1 .. Len(call.sim) + 1
      /\ \A i \in 1 .. Len(call.sim) : call'.sim[i] = call.sim[i]
      /\ call'.sim[Len(call.sim) + 1] = r /\ Len(call.sim) \in Nat /\ DOMAIN call.sim = 1 .. Len(call.sim)
  BY <1>4, <1>5
<1>7. \A i \in DOMAIN call'.sim : (i \in DOMAIN call.sim /\ call'.sim[i] = call.sim[i]) \/ call'.sim[i] = r
  BY <1>6
<1>b. Followed' = Followed
  BY <1>2, <1>5, SameFollowed
<1>8. TypeOK'
  BY <1>2, <1>3, <1>5, <1>7 DEF Inv, TypeOK, PC, Built
<1>9. CallInv'
  BY <1>2, <1>4, <1>5, <1>6 DEF Inv, CallInv
<1>10. RecordInv'
  <2>1. (\A i \in DOMAIN call.sim : Built(call.sim[i]))'
    <3> SUFFICES ASSUME NEW i \in DOMAIN call'.sim PROVE Built(call.sim[i])'
      OBVIOUS
    <3>1. Built(call'.sim[i])
      BY <1>3, <1>7 DEF Inv, RecordInv
    <3> QED
      BY <1>2, <1>b, <3>1 DEF Built, Good, Whole, Encoded
  <2>2. call'.got = NoWords /\ pc' \in {"build", "choose"}
    BY <1>2, <1>5 DEF Inv, CallInv
  <2> QED
    BY <1>2, <2>1, <2>2 DEF RecordInv, NoWords
<1>11. CalmInv'
  BY <1>2, <1>3, <1>5, <1>7, <1>b DEF Inv, CalmInv, AllSimulated
<1>c. SteadyInv'
  BY <1>2, <1>5, <1>a, <1>b DEF SteadyInv, Agrees
<1>12. HistoryNotMixed'
  BY <1>5 DEF Inv, HistoryNotMixed
<1> QED
  BY <1>8, <1>9, <1>10, <1>11, <1>12, <1>c DEF Inv

\* A call that has its records: what is left of it.
LEMMA DeliverKeeps ==
  ASSUME Inv, NEW c, Deliver(c), sample' = {}, simulation' = simulation, table' = table, edits' = edits,
         moment' = moment, validAt' = validAt, seen' \in Table,
         c.kind \in {"live", "history"}, c.want \in 1 .. MaxCount, c.status \in Status,
         c.batch \in Seq(Record), c.calm \in BOOLEAN, c.steady \in BOOLEAN, c.steady = call.steady,
         Agrees(seen'), c.calm => c.steady,
         \A i \in DOMAIN c.batch : Good(c.batch[i]),
         \A i, k \in DOMAIN c.batch : c.batch[i].from = c.batch[k].from,
         c.calm => seen' = table /\ \A i \in DOMAIN c.batch : FromSource(c.batch[i]) /\ BitsRight(c.batch[i])
  PROVE  Inv'
<1>1. /\ pc' = "parse"
      /\ call' = [NoCall EXCEPT !.kind = c.kind, !.want = c.want, !.status = c.status,
                                !.batch = c.batch, !.calm = c.calm, !.steady = c.steady]
  BY DEF Deliver, Go
<1>2. call' \in Call
  <2>1. c.want \in 0 .. MaxCount
    BY SizeAssumption
  <2> QED
    BY <1>1, <2>1, NoCallType DEF Call
<1>3. /\ call'.sim = << >> /\ call'.batch = c.batch /\ call'.got = NoWords /\ call'.want = c.want
      /\ call'.calm = c.calm /\ call'.steady = c.steady
  BY <1>1 DEF NoCall
<1>a. Followed' = Followed
  BY <1>3, SameFollowed
<1>4. DOMAIN call'.sim = {} /\ c.want >= 1
  BY <1>3, SizeAssumption
<1>5. TypeOK'
  BY <1>1, <1>2, <1>4 DEF Inv, TypeOK, PC
<1>6. CallInv'
  BY <1>1, <1>3, <1>4 DEF CallInv
<1>7. RecordInv'
  <2>1. (\A i \in DOMAIN call.batch : Good(call.batch[i]))'
    BY <1>3, <1>a DEF Good, Whole, Encoded
  <2> QED
    BY <1>1, <1>3, <1>4, <2>1 DEF RecordInv, NoWords
<1>8. CalmInv'
  BY <1>1, <1>3, <1>4, <1>a DEF CalmInv, FromSource, BitsRight, IsReal
<1>9. SteadyInv'
  BY <1>1, <1>a DEF SteadyInv, Agrees
<1> QED
  BY <1>3, <1>5, <1>6, <1>7, <1>8, <1>9 DEF Inv, HistoryNotMixed

LEMMA ChooseKeeps == Inv /\ Choose => Inv'
<1> SUFFICES ASSUME Inv, Choose PROVE Inv'
  OBVIOUS
<1>1. /\ simulation' = simulation /\ seen' \in {seen, table} /\ table' = table /\ edits' = edits
      /\ moment' = moment /\ validAt' = validAt /\ sample' = sample
      /\ pc = "choose" /\ simulation /\ sample = {} /\ moment \in Nat /\ seen' \in Table
      /\ table \in Table /\ call.want >= 1
  BY SizeAssumption DEF Choose, Look, Unchanging, plc, Inv, CallInv, RecordInv, TypeOK
<1>2. call \in Call /\ call.want \in 1 .. MaxCount
  BY <1>1, SizeAssumption DEF Inv, TypeOK, Call
<1>3. (call.calm => call.steady /\ seen = table /\ seen' = table) /\ Agrees(seen')
  BY <1>1 DEF Inv, CalmInv, SteadyInv, Agrees, Followed
<1>4. \A i \in DOMAIN call.sim : Built(call.sim[i])
  BY DEF Inv, RecordInv
<1> DEFINE c == [call EXCEPT !.tab = seen']
<1>5. c \in Call /\ c.tab = seen' /\ c.sim = call.sim /\ c.want = call.want /\ c.kind = call.kind
      /\ c.calm = call.calm /\ c.batch = call.batch /\ c.got = call.got /\ c.status = call.status
      /\ c.steady = call.steady
  BY <1>1, <1>2 DEF Call
<1>6. CASE RealIn(seen') = {}
  <2> DEFINE e == [c EXCEPT !.batch = c.sim]
  <2>1. Deliver(e)
    BY <1>6 DEF Choose
  <2> HIDE DEF c
  <2>2. /\ e.kind = call.kind /\ e.want = call.want /\ e.status = call.status /\ e.batch = call.sim
        /\ e.calm = call.calm /\ e.steady = call.steady
    BY <1>5 DEF Call
  <2> HIDE DEF e
  <2>3. \A i \in DOMAIN call.sim : Good(call.sim[i]) /\ call.sim[i].from = "sim"
    BY <1>4 DEF Built
  <2>4. call.calm => \A i \in DOMAIN call.sim : FromSource(call.sim[i]) /\ BitsRight(call.sim[i])
    BY <1>1, <1>4, BuiltFromSource DEF Inv, CalmInv
  <2>5. /\ call.kind \in {"live", "history"} /\ call.status \in Status /\ call.sim \in Seq(Record)
        /\ call.calm \in BOOLEAN /\ call.steady \in BOOLEAN
    BY <1>2 DEF Call
  <2> QED
    BY <1>1, <1>2, <1>3, <2>1, <2>2, <2>3, <2>4, <2>5, DeliverKeeps
<1>7. CASE RealIn(seen') # {}
  <2>1. call' = c /\ pc' = IF c.kind = "live" THEN "status" ELSE "history"
    BY <1>7 DEF Choose, Go
  <2>2. call.batch = << >> /\ call.got = NoWords
    BY <1>1 DEF Inv, CallInv
  <2> HIDE DEF c
  <2>a. Followed' = Followed
    BY <1>1, <1>5, <2>1, SameFollowed
  <2>3. TypeOK'
    BY <1>1, <1>5, <2>1 DEF Inv, TypeOK, PC
  <2>4. CallInv'
    <3>1. Len(call'.batch) = 0 /\ Len(call'.sim) = call'.want
      BY <1>1, <1>5, <2>1, <2>2 DEF Inv, CallInv
    <3> QED
      BY <1>1, <1>5, <2>1, <2>2, <3>1 DEF CallInv
  <2>5. RecordInv'
    <3>1. (\A i \in DOMAIN call.sim : Built(call.sim[i]))'
      BY <1>1, <1>4, <1>5, <2>1, <2>a DEF Built, Good, Whole, Encoded
    <3>2. call'.got = NoWords /\ DOMAIN call'.batch = {}
      BY <1>5, <2>1, <2>2
    <3> QED
      BY <1>1, <2>1, <3>1, <3>2 DEF RecordInv, NoWords
  <2>6. CalmInv'
    BY <1>1, <1>3, <1>5, <2>1, <2>a DEF Inv, CalmInv, AllSimulated
  <2>7. SteadyInv'
    BY <1>1, <1>3, <1>5, <2>1, <2>a DEF SteadyInv, Agrees
  <2> QED
    BY <1>5, <2>1, <2>3, <2>4, <2>5, <2>6, <2>7 DEF Inv, HistoryNotMixed
<1> QED
  BY <1>6, <1>7

\* A call that ends.
LEMMA IdleKeeps ==
  ASSUME Inv, Go("idle", NoCall), sample' = {}, UNCHANGED <<simulation, seen, table, edits, moment, validAt>>
  PROVE  Inv'
<1>1. /\ pc' = "idle" /\ call' = NoCall /\ call' \in Call
      /\ DOMAIN call'.sim = {} /\ DOMAIN call'.batch = {} /\ call'.got = NoWords /\ call'.batch = << >>
  BY NoCallType DEF Go, NoCall
<1>2. TypeOK'
  BY <1>1 DEF Inv, TypeOK, PC
<1>3. CallInv' /\ CalmInv' /\ SteadyInv' /\ HistoryNotMixed'
  BY <1>1 DEF CallInv, CalmInv, SteadyInv, HistoryNotMixed
<1>4. RecordInv'
  BY <1>1 DEF RecordInv, NoWords
<1> QED
  BY <1>2, <1>3, <1>4 DEF Inv

\* A request for a status, or one that fails: the records stay as they are.
LEMMA StatusKeeps ==
  ASSUME Inv, pc \in {"status", "payload", "live"}, pc' \in {"payload", "live", "tags"},
         NEW status \in Status, NEW payload \in Status, NEW todo \in SUBSET Tags,
         call' = [call EXCEPT !.status = status, !.payload = payload, !.todo = todo],
         pc' = "tags" => simulation /\ todo \subseteq RealIn(call.tab),
         UNCHANGED <<simulation, seen, table, edits, moment, validAt, sample>>
  PROVE  Inv'
<1>1. /\ call' \in Call /\ call'.sim = call.sim /\ call'.batch = call.batch /\ call'.got = call.got
      /\ call'.want = call.want /\ call'.calm = call.calm /\ call'.tab = call.tab /\ call'.todo = todo
      /\ call'.steady = call.steady
  BY DEF Inv, TypeOK, Call
<1>a. Followed' = Followed
  BY <1>1, SameFollowed
<1>2. TypeOK'
  BY <1>1 DEF Inv, TypeOK, PC
<1>3. CallInv'
  BY <1>1 DEF Inv, CallInv
<1>4. HistoryNotMixed'
  BY <1>1 DEF Inv, HistoryNotMixed
<1>5. CalmInv'
  <2>1. sample = {}
    BY DEF Inv, RecordInv
  <2> QED
    BY <1>1, <1>a, <2>1 DEF Inv, CalmInv, AllSimulated
<1>b. SteadyInv'
  BY <1>1, <1>a DEF Inv, SteadyInv, Agrees, CallInv
<1>6. RecordInv'
  <2>1. (\A i \in DOMAIN call.sim : Built(call.sim[i]))'
    BY <1>1, <1>a DEF Inv, RecordInv, Built, Good, Whole, Encoded
  <2>2. call'.got = NoWords /\ sample' = {}
    BY <1>1 DEF Inv, CallInv, RecordInv
  <2> QED
    BY <2>1, <2>2 DEF RecordInv, NoWords
<1> QED
  BY <1>2, <1>3, <1>4, <1>5, <1>6, <1>b DEF Inv

LEMMA FailsKeeps ==
  ASSUME Inv, pc \in {"payload", "live"}, ReadFails,
         UNCHANGED <<simulation, seen, table, edits, moment, validAt, sample>>
  PROVE  Inv'
<1>1. call \in Call /\ sample = {} /\ SimStatus \in Status
  BY DEF Inv, TypeOK, RecordInv, SimStatus, Status
<1>2. CASE simulation
  <2>1. pc' = "tags" /\ call' = [call EXCEPT !.todo = RealIn(call.tab), !.payload = SimStatus]
    BY <1>2 DEF ReadFails, Go
  <2>2. call.status \in Status /\ RealIn(call.tab) \in SUBSET Tags
    BY <1>1 DEF Call, RealIn, ActiveIn
  <2>3. call' = [call EXCEPT !.status = call.status, !.payload = SimStatus, !.todo = RealIn(call.tab)]
    BY <1>1, <2>1 DEF Call
  <2> QED
    BY <1>1, <1>2, <2>1, <2>2, <2>3, StatusKeeps
<1>3. CASE ~simulation
  BY <1>1, <1>3, IdleKeeps DEF ReadFails
<1> QED
  BY <1>2, <1>3

LEMMA ReadStatusKeeps == Inv /\ (ReadStatus \/ ReadPayloadStatus) => Inv'
<1>1. ASSUME Inv, ReadStatus \/ ReadPayloadStatus
      PROVE  /\ call \in Call /\ PlcStatus \in Status /\ SimStatus \in Status
             /\ call.status \in Status /\ call.payload \in Status /\ call.todo \in SUBSET Tags
             /\ UNCHANGED <<simulation, seen, table, edits, moment, validAt, sample>>
  <2>1. call \in Call /\ moment \in Int
    BY <1>1 DEF Inv, TypeOK
  <2>2. PlcStatus \in Status /\ SimStatus \in Status
    BY <2>1 DEF PlcStatus, SimStatus, Status
  <2> QED
    BY <1>1, <2>1, <2>2 DEF ReadStatus, ReadPayloadStatus, Unchanging, plc, Call
<1>2. ASSUME Inv, ReadStatus PROVE Inv'
  <2>1. PICK s \in Status : pc = "status" /\ pc' = "payload" /\ call' = [call EXCEPT !.status = s]
    BY <1>1, <1>2 DEF ReadStatus, Go
  <2>2. call' = [call EXCEPT !.status = s, !.payload = call.payload, !.todo = call.todo]
    BY <1>1, <1>2, <2>1 DEF Call
  <2> QED
    BY <1>1, <1>2, <2>1, <2>2, StatusKeeps
<1>3. ASSUME Inv, ReadPayloadStatus PROVE Inv'
  <2>1. pc = "payload"
    BY <1>3 DEF ReadPayloadStatus
  <2>2. CASE Go("live", [call EXCEPT !.payload = PlcStatus])
    <3>1. PICK s \in Status : pc' = "live" /\ call' = [call EXCEPT !.payload = s]
      BY <1>1, <1>3, <2>2 DEF Go
    <3>2. call' = [call EXCEPT !.status = call.status, !.payload = s, !.todo = call.todo]
      BY <1>1, <1>3, <3>1 DEF Call
    <3>3. /\ call.status \in Status /\ call.todo \in SUBSET Tags /\ pc' = "live"
          /\ UNCHANGED <<simulation, seen, table, edits, moment, validAt, sample>>
      BY <1>1, <1>3, <3>1
    <3> QED
      BY <1>3, <2>1, <3>2, <3>3, StatusKeeps
  <2>3. CASE ReadFails
    BY <1>1, <1>3, <2>1, <2>3, FailsKeeps
  <2> QED
    BY <1>3, <2>2, <2>3 DEF ReadPayloadStatus
<1> QED
  BY <1>2, <1>3

\* A record of the PLC is right where nothing is simulated, and one that the simulated
\* tags were laid over where something is.
LEMMA PlcIsRight ==
  ASSUME Inv, ~simulation, NEW m \in 0 .. moment, NEW n \in {LiveWords, HistoryWords}
  PROVE  LET r == PlcRecord(m, n) IN Good(r) /\ r.from = "plc" /\ r \in Record /\ FromSource(r) /\ BitsRight(r)
<1> DEFINE r == PlcRecord(m, n)
<1>1. /\ Good(r) /\ r.from = "plc" /\ r.of = m /\ r.bits = validAt[m] /\ DOMAIN r.words = 0 .. n - 1
      /\ \A i \in 0 .. n - 1 : r.words[i] = PlcWord(m, i)
  BY PlcRecordIsGood DEF Inv, TypeOK
<1> HIDE DEF r
<1>2. FromSource(r)
  <2>1. \A t : IsReal(t)
    BY DEF IsReal
  <2>2. \A i \in DOMAIN r.words : r.words[i].from = "plc" /\ r.words[i].val = i /\ r.words[i].of = r.of
    <3>1. \A i \in DOMAIN r.words : r.words[i] = PlcWord(m, i)
      BY <1>1
    <3>2. \A i : PlcWord(m, i).from = "plc" /\ PlcWord(m, i).val = i /\ PlcWord(m, i).of = m
      BY DEF PlcWord
    <3> QED
      BY <1>1, <3>1, <3>2
  <2> QED
    BY <1>1, <2>1, <2>2 DEF FromSource, OwnRegisters
<1>3. BitsRight(r)
  BY <1>1 DEF BitsRight, IsReal
<1> QED
  BY <1>1, <1>2, <1>3 DEF Good, r

LEMMA OverlayIsRight ==
  ASSUME Inv, simulation, NEW m \in 0 .. moment, NEW n \in {LiveWords, HistoryWords},
         NEW sim, Built(sim), NEW tab \in Table, Agrees(tab),
         NEW calm \in BOOLEAN,
         calm => tab = table /\ sim.bits = BitsOf(ActiveIn(table)) /\ AllSimulated(sim)
  PROVE  LET r == Overlay(PlcRecord(m, n), sim, tab)
         IN  Good(r) /\ r.from = "plc" /\ r \in Record /\ (calm => FromSource(r) /\ BitsRight(r))
<1> DEFINE real == PlcRecord(m, n)
           r == Overlay(real, sim, tab)
<1>1. /\ Good(real) /\ real.from = "plc" /\ real.of = m /\ real.bits = validAt[m]
      /\ DOMAIN real.words = 0 .. n - 1
      /\ \A i \in 0 .. n - 1 : real.words[i] = PlcWord(m, i)
  BY PlcRecordIsGood DEF Inv, TypeOK
<1> HIDE DEF real
<1>2. /\ Good(r) /\ r.from = "plc" /\ r.of = m /\ DOMAIN r.words = 0 .. n - 1
      /\ r.bits = real.bits \cup (sim.bits \cap BitsOf(SimIn(tab)))
      /\ \A t \in Followed : \A i \in Range(t) \cap (0 .. n - 1) :
           r.words[i] = IF t \in SimIn(tab) THEN sim.words[i] ELSE real.words[i]
  <2>1. /\ Good(r) /\ r.from = "plc" /\ r.of = real.of
        /\ DOMAIN r.words = DOMAIN real.words
        /\ r.bits = real.bits \cup (sim.bits \cap BitsOf(SimIn(tab)))
        /\ \A t \in Followed : \A i \in Range(t) \cap DOMAIN real.words :
             r.words[i] = IF t \in SimIn(tab) THEN sim.words[i] ELSE real.words[i]
    <3>1. Good(real) /\ real.from = "plc" /\ table \in Table
      BY <1>1 DEF Inv, TypeOK
    <3> QED
      <4>1. table \in Table /\ Agrees(tab) /\ tab \in Table /\ Built(sim) /\ Good(real) /\ real.from = "plc"
        BY <3>1
      <4> QED
        BY <4>1, OverlayIsGood
  <2> HIDE DEF r
  <2> QED
    BY <1>1, <2>1
<1> HIDE DEF r
<1>3. ASSUME calm PROVE FromSource(r)
  <2> SUFFICES ASSUME NEW t \in ActiveIn(table) \cap Followed, NEW i \in Range(t) \cap (0 .. n - 1)
               PROVE  LET w == r.words[i] IN
                        \/ w.from = "sim" /\ (IsReal(t) => simulation /\ r.from = "sim")
                        \/ /\ w.from = "plc" /\ IsReal(t) /\ w.val \in OwnRegisters(r, t)
                           /\ r.from = "plc" => w.of = r.of
    BY <1>2 DEF FromSource
  <2>1. tab = table /\ t \in Tags
    BY <1>3 DEF ActiveIn
  <2>2. CASE t \in SimIn(table)
    BY <1>2, <1>3, <2>1, <2>2 DEF SimIn, RealIn, IsReal, AllSimulated
  <2>3. CASE t \notin SimIn(table)
    <3>1. r.words[i] = PlcWord(m, i)
      BY <1>1, <1>2, <2>1, <2>3
    <3>2. IsReal(t)
      BY <2>1, <2>3 DEF SimIn, RealIn, IsReal
    <3> QED
      BY <1>2, <3>1, <3>2 DEF PlcWord, OwnRegisters
  <2> QED
    BY <2>2, <2>3
<1>4. ASSUME calm PROVE BitsRight(r)
  <2> SUFFICES ASSUME NEW t \in ActiveIn(table), IsReal(t), Bit[t] # NoBit
               PROVE  Bit[t] \in r.bits <=> \/ Bit[t] \in validAt[m]
                                           \/ \E u \in ActiveIn(table) : ~IsReal(u) /\ Bit[u] = Bit[t]
    BY <1>2 DEF BitsRight
  <2>1. r.bits = validAt[m] \cup (BitsOf(ActiveIn(table)) \cap BitsOf(SimIn(table)))
    BY <1>1, <1>2, <1>4
  <2>2. BitsOf(SimIn(table)) \subseteq BitsOf(ActiveIn(table))
    BY DEF BitsOf, SimIn
  <2>3. Bit[t] \in BitsOf(SimIn(table)) <=> \E u \in ActiveIn(table) : ~IsReal(u) /\ Bit[u] = Bit[t]
    BY DEF BitsOf, SimIn, RealIn, IsReal
  <2> QED
    BY <2>1, <2>2, <2>3
<1> QED
  BY <1>2, <1>3, <1>4 DEF Good, r, real

\* What a step in the middle of a call finds.
LEMMA CallFacts ==
  ASSUME Inv
  PROVE  /\ call \in Call /\ table \in Table /\ seen \in Table
         /\ moment \in Nat /\ moment \in 0 .. MaxMoment /\ simulation \in BOOLEAN
         /\ call.kind \in {"live", "history"} /\ call.status \in Status /\ call.payload \in Status
         /\ call.sim \in Seq(Record) /\ call.batch \in Seq(Record) /\ call.calm \in BOOLEAN
         /\ call.tab \in Table /\ call.todo \in SUBSET Tags /\ call.got \in [Rows -> Seq(Word)]
         /\ call.steady \in BOOLEAN
         /\ pc # "idle" => call.want \in 1 .. MaxCount
         /\ call.calm /\ pc # "idle" => call.steady /\ seen = table
         /\ pc # "idle" => Agrees(seen)
         /\ pc # "parse" => sample = {}
         /\ \A i \in DOMAIN call.sim : Built(call.sim[i])
<1>1. call \in Call /\ table \in Table /\ seen \in Table /\ moment \in 0 .. MaxMoment /\ simulation \in BOOLEAN
  BY DEF Inv, TypeOK
<1>2. /\ call.kind \in {"live", "history"} /\ call.status \in Status /\ call.payload \in Status
      /\ call.sim \in Seq(Record) /\ call.batch \in Seq(Record) /\ call.calm \in BOOLEAN
      /\ call.tab \in Table /\ call.todo \in SUBSET Tags /\ call.got \in [Rows -> Seq(Word)]
      /\ call.steady \in BOOLEAN
      /\ call.want \in 0 .. MaxCount
  BY <1>1 DEF Call
<1>3. pc # "idle" => call.want \in 1 .. MaxCount
  BY <1>2, SizeAssumption DEF Inv, CallInv
<1>4. /\ call.calm /\ pc # "idle" => call.steady /\ seen = table
      /\ pc # "idle" => Agrees(seen)
      /\ pc # "parse" => sample = {}
      /\ \A i \in DOMAIN call.sim : Built(call.sim[i])
  BY DEF Inv, CalmInv, SteadyInv, RecordInv
<1>5. moment \in Nat
  BY <1>1, SizeAssumption
<1> QED
  BY <1>1, <1>2, <1>3, <1>4, <1>5

LEMMA ReadLiveKeeps == Inv /\ ReadLive => Inv'
<1> SUFFICES ASSUME Inv, ReadLive PROVE Inv'
  OBVIOUS
<1>1. pc = "live" /\ UNCHANGED <<simulation, seen, table, edits, moment, validAt, sample>>
  BY DEF ReadLive, Unchanging, plc
<1> DEFINE real == PlcRecord(moment, LiveWords)
           x == IF simulation THEN Overlay(real, call.sim[1], call.tab) ELSE real
           c == [call EXCEPT !.batch = <<x>>, !.status = call.payload]
<1>2. CASE Deliver(c)
  <2>1. Good(x) /\ x.from = "plc" /\ x \in Record /\ (call.calm => FromSource(x) /\ BitsRight(x))
    <3>1. CASE simulation
      <4>1. 1 \in DOMAIN call.sim
        BY <1>1, <3>1, CallFacts DEF Inv, CallInv
      <4>2. Built(call.sim[1])
        BY <4>1, CallFacts
      <4>3. call.calm =>
              call.tab = table /\ call.sim[1].bits = BitsOf(ActiveIn(table)) /\ AllSimulated(call.sim[1])
        BY <1>1, <3>1, <4>1 DEF Inv, CalmInv
      <4>4. moment \in 0 .. moment /\ call.tab \in Table /\ call.calm \in BOOLEAN /\ Agrees(call.tab)
        BY <1>1, <3>1, CallFacts DEF Inv, SteadyInv
      <4> QED
        BY <3>1, <4>2, <4>3, <4>4, OverlayIsRight
    <3>2. CASE ~simulation
      <4>1. moment \in 0 .. moment
        BY CallFacts
      <4> QED
        BY <3>2, <4>1, PlcIsRight
    <3> QED
      BY <3>1, <3>2
  <2> HIDE DEF x
  <2>2. /\ c.kind = call.kind /\ c.want = call.want /\ c.status = call.payload /\ c.batch = <<x>>
        /\ c.calm = call.calm /\ c.steady = call.steady
    BY CallFacts DEF Call
  <2> HIDE DEF c
  <2>3. c.batch \in Seq(Record) /\ DOMAIN c.batch = {1} /\ c.batch[1] = x
    BY <2>1, <2>2
  <2>4. Agrees(seen')
    BY <1>1, CallFacts
  <2> QED
    BY <1>1, <1>2, <2>1, <2>2, <2>3, <2>4, CallFacts, DeliverKeeps
<1>3. CASE ReadFails
  BY <1>1, <1>3, FailsKeeps
<1> QED
  BY <1>2, <1>3 DEF ReadLive, PayloadStatus

\* One tag after the other, the words of each as of some scan.
LEMMA ReadTagKeeps == Inv /\ ReadTag => Inv'
<1> SUFFICES ASSUME Inv, ReadTag PROVE Inv'
  OBVIOUS
<1>1. /\ pc = "tags" /\ UNCHANGED <<simulation, seen, table, edits, moment, validAt, sample>>
      /\ call.todo # {}
  BY DEF ReadTag, Unchanging, plc
<1> DEFINE t == CHOOSE u \in call.todo : \A x \in call.todo : Place[u] <= Place[x]
<1>2. t \in call.todo
  <2> DEFINE O == {Place[u] : u \in call.todo}
  <2>0. call.todo \in SUBSET Tags /\ \A u \in Tags : Place[u] \in Nat
    BY CallFacts, TagAssumption
  <2>1. O \in SUBSET Nat /\ O # {}
    BY <1>1, <2>0
  <2>2. PICK o \in O : \A p \in O : o <= p
    BY <2>1, SmallestExists
  <2>3. \E u \in call.todo : \A x \in call.todo : Place[u] <= Place[x]
    BY <2>2
  <2> QED
    BY <2>3
<1>3. t \in Tags /\ t \in RealIn(call.tab) /\ Row[t] \in Rows /\ call.tab[Row[t]].tag = t
  BY <1>1, <1>2, CallFacts, Widths DEF Inv, CallInv, RealIn, ActiveIn
<1> HIDE DEF t
<1>4. PICK w \in {PlcWords(moment, t), << >>} :
        pc' = "tags" /\ call' = [call EXCEPT !.todo = @ \ {t}, !.got[Row[t]] = w]
  BY <1>1 DEF ReadTag, Go, PlcWords, t
<1>5. w \in Seq(Word)
  <2>1. Width(t) \in Nat /\ Address[t] \in Nat /\ moment \in Int
    BY <1>3, Widths, CallFacts
  <2>2. \A k \in 1 .. Width(t) : PlcWord(moment, Address[t] + k - 1) \in Word
    BY <2>1 DEF PlcWord, Word
  <2>3. PlcWords(moment, t) \in [1 .. Width(t) -> Word]
    BY <2>2 DEF PlcWords
  <2>4. PlcWords(moment, t) \in Seq(Word)
    BY <2>1, <2>3
  <2>5. << >> \in Seq(Word)
    OBVIOUS
  <2> QED
    BY <2>4, <2>5
<1>6. /\ call' \in Call /\ call'.todo = call.todo \ {t} /\ call'.got = [call.got EXCEPT ![Row[t]] = w]
      /\ call'.sim = call.sim /\ call'.want = call.want /\ call'.tab = call.tab /\ call'.batch = call.batch
      /\ call'.calm = call.calm /\ call'.steady = call.steady
  <2>1. [call.got EXCEPT ![Row[t]] = w] \in [Rows -> Seq(Word)] /\ call.todo \ {t} \in SUBSET Tags
    BY <1>3, <1>5, CallFacts
  <2>2. call' = [call EXCEPT !.todo = call.todo \ {t}, !.got = [call.got EXCEPT ![Row[t]] = w]]
    BY <1>4
  <2> QED
    BY <2>1, <2>2, CallFacts DEF Call
<1>a. Followed' = Followed
  BY <1>1, <1>6, SameFollowed
<1>7. TypeOK'
  BY <1>1, <1>4, <1>6 DEF Inv, TypeOK
<1>8. CallInv'
  BY <1>1, <1>4, <1>6 DEF Inv, CallInv
<1>9. RecordInv'
  <2>1. (\A i \in DOMAIN call.sim : Built(call.sim[i]))'
    BY <1>1, <1>6, <1>a, CallFacts DEF Built, Good, Whole, Encoded
  <2>2. (\A q \in Rows : call.got[q] # << >> => GotFor(call.got, call.tab, q))'
    <3> SUFFICES ASSUME NEW q \in Rows, call'.got[q] # << >>
                 PROVE  GotFor(call.got, call.tab, q)'
      OBVIOUS
    <3>0. call'.tab = call.tab /\ moment' = moment
      BY <1>1, <1>6
    <3>1. CASE q = Row[t]
      <4>1. call'.got[q] = w /\ moment \in 0 .. moment
        BY <1>3, <1>6, <3>1, CallFacts
      <4>2. w = PlcWords(moment, t)
        BY <1>4, <4>1
      <4> QED
        BY <1>3, <3>0, <3>1, <4>1, <4>2 DEF GotFor
    <3>2. CASE q # Row[t]
      <4>1. call'.got[q] = call.got[q]
        BY <1>6, <3>2, CallFacts
      <4> QED
        BY <3>0, <4>1 DEF Inv, RecordInv, GotFor
    <3> QED
      BY <3>1, <3>2
  <2>3. sample' = {}
    BY <1>1, CallFacts
  <2> QED
    BY <1>4, <2>1, <2>2, <2>3 DEF RecordInv
<1>10. CalmInv'
  BY <1>1, <1>4, <1>6, <1>a, CallFacts DEF Inv, CalmInv, AllSimulated
<1>b. SteadyInv'
  BY <1>1, <1>4, <1>6, <1>a DEF Inv, SteadyInv, Agrees, CallInv
<1>11. HistoryNotMixed'
  BY <1>6 DEF Inv, HistoryNotMixed
<1> QED
  BY <1>7, <1>8, <1>9, <1>10, <1>11, <1>b DEF Inv

\* The record is built anew, or stays simulated where nothing could be read.
LEMMA RebuildKeeps == Inv /\ Rebuild => Inv'
<1> SUFFICES ASSUME Inv, Rebuild PROVE Inv'
  OBVIOUS
<1>1. pc = "tags" /\ simulation /\ UNCHANGED <<simulation, table, edits, moment, validAt, sample>>
  BY DEF Rebuild, Unchanging, plc, Inv, CallInv
<1>2. CASE call.got = NoWords /\ Deliver([call EXCEPT !.batch = call.sim]) /\ UNCHANGED seen
  <2> DEFINE c == [call EXCEPT !.batch = call.sim]
  <2>1. /\ c.kind = call.kind /\ c.want = call.want /\ c.status = call.status /\ c.batch = call.sim
        /\ c.calm = call.calm /\ c.steady = call.steady
    BY CallFacts DEF Call
  <2> HIDE DEF c
  <2>2. \A i \in DOMAIN call.sim : Good(call.sim[i]) /\ call.sim[i].from = "sim"
    BY CallFacts DEF Built
  <2>3. call.calm => \A i \in DOMAIN call.sim : FromSource(call.sim[i]) /\ BitsRight(call.sim[i])
    <3> SUFFICES ASSUME call.calm, NEW i \in DOMAIN call.sim
                 PROVE  FromSource(call.sim[i]) /\ BitsRight(call.sim[i])
      OBVIOUS
    <3>1. AllSimulated(call.sim[i])
      BY <1>1 DEF Inv, CalmInv
    <3>2. Built(call.sim[i])
      BY CallFacts
    <3> QED
      BY <1>1, <3>1, <3>2, BuiltFromSource
  <2>4. Deliver(c)
    BY <1>2 DEF c
  <2>5. seen' \in Table /\ (call.calm => call.steady /\ seen' = table) /\ Agrees(seen')
    BY <1>1, <1>2, CallFacts
  <2>6. c.batch \in Seq(Record) /\ c.want \in 1 .. MaxCount /\ c.kind \in {"live", "history"}
        /\ c.status \in Status /\ c.calm \in BOOLEAN /\ c.steady \in BOOLEAN /\ sample' = {}
    BY <1>1, <2>1, CallFacts
  <2> QED
    BY <1>1, <2>1, <2>2, <2>3, <2>4, <2>5, <2>6, DeliverKeeps
<1>3. ASSUME call.got # NoWords, Look, NEW d \in Draws, Deliver([call EXCEPT !.batch = <<Build(seen', call.got, d)>>])
      PROVE  Inv'
  <2> DEFINE x == Build(seen', call.got, d)
             c == [call EXCEPT !.batch = <<x>>]
  <2>1. GotOK(call.got, call.tab)
    BY CallFacts DEF GotOK, Inv, RecordInv
  <2>2. /\ seen' \in Table /\ Agrees(seen') /\ Agrees(call.tab)
        /\ call.calm => call.steady /\ seen' = table /\ call.tab = table
    <3>1. seen' \in {seen, table}
      BY <1>3 DEF Look
    <3>2. Agrees(seen) /\ Agrees(table)
      BY <1>1, CallFacts DEF Agrees, Followed
    <3> QED
      BY <1>1, <3>1, <3>2, CallFacts DEF Inv, CalmInv, SteadyInv
  <2>3. /\ Built(x) /\ \A t \in ActiveIn(seen') \cap Followed : \A i \in Range(t) : x.words[i] = BuiltWord(seen', call.got, d, t, i)
    BY <2>1, <2>2, BuildIsBuilt, CallFacts
  <2> HIDE DEF x
  <2>4. x.from = "sim" /\ Good(x) /\ x \in Record
    BY <2>3 DEF Built, Good
  <2>5. ASSUME call.calm PROVE FromSource(x)
    <3> SUFFICES ASSUME NEW t \in ActiveIn(table) \cap Followed, NEW i \in Range(t)
                 PROVE  LET w == x.words[i] IN
                          \/ w.from = "sim" /\ (IsReal(t) => simulation /\ x.from = "sim")
                          \/ /\ w.from = "plc" /\ IsReal(t) /\ w.val \in OwnRegisters(x, t)
                             /\ x.from = "plc" => w.of = x.of
      BY DEF FromSource
    <3>1. x.words[i] = BuiltWord(table, call.got, d, t, i) /\ t \in Tags
      BY <2>2, <2>3, <2>5 DEF ActiveIn
    <3>2. CASE call.got[Row[t]] = << >>
      <4>1. x.words[i].from = "sim"
        BY <2>1, <2>2, <3>1, <3>2, BuiltWordType, CallFacts
      <4> QED
        BY <1>1, <2>4, <4>1
    <3>3. CASE call.got[Row[t]] # << >>
      <4>1. t \in RealIn(table)
        <5>1. table[Row[t]].tag = t /\ Row[t] \in Rows
          BY <3>1, Widths DEF ActiveIn
        <5> QED
          BY <2>1, <2>2, <2>5, <3>3, <5>1 DEF GotOK, GotFor
      <4>2. ~table[Row[t]].sim /\ IsReal(t)
        BY <4>1 DEF RealIn, IsReal
      <4>3. PICK m \in 0 .. moment : call.got[Row[t]] = PlcWords(m, t)
        BY <2>1, <2>2, <3>3, BuiltWordType, CallFacts
      <4>4. m \in Nat
        BY <4>3
      <4>5. x.words[i].from = "plc" /\ x.words[i].val \in Registers(t)
        BY <2>1, <2>2, <2>5, <3>1, <3>3, <4>2, <4>3, <4>4, BuiltWordType, CallFacts
      <4> QED
        BY <2>4, <4>2, <4>5 DEF OwnRegisters, Registers
    <3> QED
      BY <3>2, <3>3
  <2>6. BitsRight(x)
    BY <2>4 DEF BitsRight
  <2>7. /\ c.kind = call.kind /\ c.want = call.want /\ c.status = call.status /\ c.batch = <<x>>
        /\ c.calm = call.calm /\ c.steady = call.steady
    BY CallFacts DEF Call
  <2>8. Deliver(c)
    BY <1>3 DEF x
  <2> HIDE DEF c
  <2>9. c.batch \in Seq(Record) /\ DOMAIN c.batch = {1} /\ c.batch[1] = x
    BY <2>4, <2>7
  <2>10. c.want \in 1 .. MaxCount /\ c.kind \in {"live", "history"}
         /\ c.status \in Status /\ c.calm \in BOOLEAN /\ c.steady \in BOOLEAN /\ sample' = {}
    BY <1>1, <2>7, CallFacts
  <2> QED
    BY <1>1, <2>2, <2>4, <2>5, <2>6, <2>7, <2>8, <2>9, <2>10, DeliverKeeps
<1> QED
  BY <1>2, <1>3 DEF Rebuild, Builds

\* The history: one slot more, all slots, or none.
LEMMA ReadHistoryKeeps == Inv /\ ReadHistory => Inv'
<1> SUFFICES ASSUME Inv, ReadHistory PROVE Inv'
  OBVIOUS
<1>1. pc = "history" /\ UNCHANGED <<simulation, seen, table, edits, moment, validAt, sample>>
  BY DEF ReadHistory, Unchanging, plc
<1>2. /\ simulation => Len(call.sim) = call.want
      /\ Len(call.batch) < call.want /\ call.want \in 1 .. MaxCount
      /\ \A i \in DOMAIN call.batch : \E m \in 0 .. moment : call.batch[i] = PlcRecord(m, HistoryWords)
  BY <1>1, CallFacts DEF Inv, CallInv, RecordInv
<1>3. ASSUME simulation, Deliver([call EXCEPT !.batch = HistoryFallback(call)]) PROVE Inv'
  <2> DEFINE c == [call EXCEPT !.batch = call.sim]
  <2>1. /\ c.kind = call.kind /\ c.want = call.want /\ c.status = call.status /\ c.batch = call.sim
        /\ c.calm = call.calm /\ c.steady = call.steady
    BY CallFacts DEF Call
  <2>2. Deliver(c)
    BY <1>3 DEF HistoryFallback
  <2> HIDE DEF c
  <2>3. \A i \in DOMAIN call.sim : Good(call.sim[i]) /\ call.sim[i].from = "sim"
    BY CallFacts DEF Built
  <2>4. call.calm => \A i \in DOMAIN call.sim : FromSource(call.sim[i]) /\ BitsRight(call.sim[i])
    <3> SUFFICES ASSUME call.calm, NEW i \in DOMAIN call.sim
                 PROVE  FromSource(call.sim[i]) /\ BitsRight(call.sim[i])
      OBVIOUS
    <3>1. AllSimulated(call.sim[i])
      BY <1>1 DEF Inv, CalmInv
    <3>2. Built(call.sim[i])
      BY CallFacts
    <3> QED
      BY <1>3, <3>1, <3>2, BuiltFromSource
  <2>5. seen' \in Table /\ (call.calm => call.steady /\ seen' = table) /\ Agrees(seen')
    BY <1>1, CallFacts
  <2>6. c.batch \in Seq(Record) /\ c.want \in 1 .. MaxCount /\ c.kind \in {"live", "history"}
        /\ c.status \in Status /\ c.calm \in BOOLEAN /\ c.steady \in BOOLEAN /\ sample' = {}
    BY <1>1, <1>2, <2>1, CallFacts
  <2> QED
    BY <1>1, <2>1, <2>2, <2>3, <2>4, <2>5, <2>6, DeliverKeeps
<1>4. ASSUME NEW m \in 0 .. moment,
             LET c == [call EXCEPT !.batch = Append(@, PlcRecord(m, HistoryWords))]
                 merged == [i \in 1 .. c.want |-> Overlay(c.batch[i], c.sim[i], c.tab)]
             IN  IF Len(c.batch) < c.want THEN Go("history", c)
                 ELSE Deliver(IF simulation THEN [c EXCEPT !.batch = merged] ELSE c)
      PROVE  Inv'
  <2> DEFINE x == PlcRecord(m, HistoryWords)
             c == [call EXCEPT !.batch = Append(@, x)]
             merged == [i \in 1 .. c.want |-> Overlay(c.batch[i], c.sim[i], c.tab)]
             e == [c EXCEPT !.batch = merged]
  <2>1. x \in Record /\ x.from = "plc"
    BY PlcRecordIsGood DEF Inv, TypeOK, Good
  <2> HIDE DEF x
  <2>2. Append(call.batch, x) \in Seq(Record)
    BY <2>1, CallFacts
  <2>3. c \in Call
    BY <2>2, CallFacts DEF Call
  <2>4. /\ c.batch = Append(call.batch, x) /\ c.want = call.want /\ c.sim = call.sim /\ c.tab = call.tab
        /\ c.kind = call.kind /\ c.calm = call.calm /\ c.got = call.got /\ c.status = call.status
        /\ c.steady = call.steady
    BY CallFacts DEF Call
  <2>5. (Len(c.batch) < c.want /\ Go("history", c)) \/ (~(Len(c.batch) < c.want) /\ simulation /\ Deliver(e))
          \/ (~(Len(c.batch) < c.want) /\ ~simulation /\ Deliver(c))
    BY <1>4 DEF x
  <2> HIDE DEF c
  <2>6. /\ Len(c.batch) = Len(call.batch) + 1 /\ Len(call.batch) \in Nat
        /\ DOMAIN c.batch = 1 .. Len(call.batch) + 1
        /\ \A i \in DOMAIN c.batch : (i \in DOMAIN call.batch /\ c.batch[i] = call.batch[i]) \/ c.batch[i] = x
    BY <2>1, <2>4, CallFacts
  <2>7. \A i \in DOMAIN c.batch : \E n \in 0 .. moment : c.batch[i] = PlcRecord(n, HistoryWords)
    BY <1>2, <2>6 DEF x
  <2>8. CASE Len(c.batch) < c.want /\ Go("history", c)
    <3>1. call' = c /\ pc' = "history"
      BY <2>8 DEF Go
    <3>a. Followed' = Followed
      BY <1>1, <2>4, <3>1, SameFollowed
    <3>2. TypeOK'
      BY <1>1, <2>3, <2>4, <3>1 DEF Inv, TypeOK
    <3>3. CallInv'
      BY <1>1, <2>4, <2>8, <3>1 DEF Inv, CallInv
    <3>4. RecordInv'
      <4>1. (\A i \in DOMAIN call.sim : Built(call.sim[i]))'
        BY <1>1, <2>4, <3>1, <3>a, CallFacts DEF Built, Good, Whole, Encoded
      <4>2. \A i \in DOMAIN call'.batch : \E n \in 0 .. moment' : call'.batch[i] = PlcRecord(n, HistoryWords)'
        BY <1>1, <2>7, <3>1 DEF PlcRecord
      <4>3. sample' = {} /\ call'.got = NoWords
        BY <1>1, <2>4, <3>1, CallFacts DEF Inv, CallInv
      <4> QED
        BY <3>1, <4>1, <4>2, <4>3 DEF RecordInv, NoWords, PlcRecord
    <3>5. CalmInv'
      BY <1>1, <2>4, <3>1, <3>a, CallFacts DEF Inv, CalmInv, AllSimulated
    <3>b. SteadyInv'
      BY <1>1, <2>4, <3>1, <3>a DEF Inv, SteadyInv, Agrees
    <3>6. HistoryNotMixed'
      <4>1. \A n : PlcRecord(n, HistoryWords).from = "plc"
        BY DEF PlcRecord
      <4>2. \A i \in DOMAIN c.batch : c.batch[i].from = "plc"
        BY <2>7, <4>1
      <4> QED
        BY <3>1, <4>2 DEF HistoryNotMixed
    <3> QED
      BY <3>2, <3>3, <3>4, <3>5, <3>6, <3>b DEF Inv
  <2>9. CASE ~(Len(c.batch) < c.want) /\ simulation /\ Deliver(e)
    <3>1. /\ DOMAIN c.batch = 1 .. c.want /\ DOMAIN call.sim = 1 .. c.want
      BY <1>2, <2>4, <2>6, <2>9, CallFacts
    <3>2. \A i \in 1 .. c.want : /\ Good(merged[i]) /\ merged[i].from = "plc" /\ merged[i] \in Record
                                 /\ call.calm => FromSource(merged[i]) /\ BitsRight(merged[i])
      <4> SUFFICES ASSUME NEW i \in 1 .. c.want
                   PROVE  /\ Good(merged[i]) /\ merged[i].from = "plc" /\ merged[i] \in Record
                          /\ call.calm => FromSource(merged[i]) /\ BitsRight(merged[i])
        OBVIOUS
      <4>1. PICK n \in 0 .. moment : c.batch[i] = PlcRecord(n, HistoryWords)
        BY <2>7, <3>1
      <4>2. merged[i] = Overlay(PlcRecord(n, HistoryWords), call.sim[i], call.tab)
        BY <2>4, <4>1
      <4>3. Built(call.sim[i]) /\ call.tab \in Table /\ call.calm \in BOOLEAN /\ Agrees(call.tab)
        BY <1>1, <2>9, <3>1, CallFacts DEF Inv, SteadyInv
      <4>4. call.calm =>
              call.tab = table /\ call.sim[i].bits = BitsOf(ActiveIn(table)) /\ AllSimulated(call.sim[i])
        BY <1>1, <2>9, <3>1 DEF Inv, CalmInv
      <4> HIDE DEF merged
      <4> QED
        BY <2>9, <4>2, <4>3, <4>4, OverlayIsRight
    <3>3. merged \in Seq(Record) /\ DOMAIN merged = 1 .. c.want
      <4>1. merged = [i \in 1 .. c.want |-> merged[i]]
        OBVIOUS
      <4>2. c.want \in Nat
        BY <1>2, <2>4, SizeAssumption
      <4> HIDE DEF merged
      <4>3. merged \in [1 .. c.want -> Record]
        BY <3>2, <4>1
      <4> QED
        BY <4>2, <4>3
    <3> HIDE DEF merged
    <3>4. /\ e.kind = call.kind /\ e.want = call.want /\ e.status = call.status /\ e.batch = merged
          /\ e.calm = call.calm /\ e.steady = call.steady
      BY <2>3, <2>4 DEF Call
    <3> HIDE DEF e
    <3>5. seen' \in Table /\ (call.calm => call.steady /\ seen' = table) /\ Agrees(seen')
      BY <1>1, CallFacts
    <3>6. e.batch \in Seq(Record) /\ e.want \in 1 .. MaxCount /\ e.kind \in {"live", "history"}
          /\ e.status \in Status /\ e.calm \in BOOLEAN /\ e.steady \in BOOLEAN /\ sample' = {}
      BY <1>1, <1>2, <3>3, <3>4, CallFacts
    <3>7. \A i \in DOMAIN e.batch : /\ Good(e.batch[i]) /\ e.batch[i].from = "plc"
                                    /\ e.calm => FromSource(e.batch[i]) /\ BitsRight(e.batch[i])
      BY <3>2, <3>3, <3>4
    <3> QED
      BY <1>1, <2>9, <3>4, <3>5, <3>6, <3>7, DeliverKeeps
  <2>10. CASE ~(Len(c.batch) < c.want) /\ ~simulation /\ Deliver(c)
    <3>1. \A i \in DOMAIN c.batch : /\ Good(c.batch[i]) /\ c.batch[i].from = "plc"
                                    /\ FromSource(c.batch[i]) /\ BitsRight(c.batch[i])
      BY <2>7, <2>10, PlcIsRight
    <3>2. seen' \in Table /\ (call.calm => call.steady /\ seen' = table) /\ Agrees(seen')
      BY <1>1, CallFacts
    <3>3. c.batch \in Seq(Record) /\ c.want \in 1 .. MaxCount /\ c.kind \in {"live", "history"}
          /\ c.status \in Status /\ c.calm \in BOOLEAN /\ c.steady \in BOOLEAN /\ sample' = {}
      BY <1>1, <1>2, <2>2, <2>4, CallFacts
    <3> QED
      BY <1>1, <2>4, <2>10, <3>1, <3>2, <3>3, DeliverKeeps
  <2> QED
    BY <2>5, <2>8, <2>9, <2>10
<1>5. ASSUME Go("idle", NoCall) PROVE Inv'
  BY <1>1, <1>5, IdleKeeps, CallFacts
<1> QED
  BY <1>3, <1>4, <1>5 DEF ReadHistory

\* The parser takes the words of a value out of the record.
LEMMA WordsOfARecord ==
  ASSUME NEW r \in Record, NEW t \in Tags
  PROVE  /\ WordsOf(r, t) \in Seq(Word)
         /\ \A k \in DOMAIN WordsOf(r, t) : \E i \in Range(t) : WordsOf(r, t)[k] = r.words[i]
         /\ DOMAIN WordsOf(r, t) # {} => Range(t) \subseteq DOMAIN r.words
         /\ DOMAIN WordsOf(r, t) # {} => 1 \in DOMAIN WordsOf(r, t)
<1>1. CASE ~(Range(t) \subseteq DOMAIN r.words)
  BY <1>1 DEF WordsOf
<1>2. CASE Range(t) \subseteq DOMAIN r.words
  <2>1. \A i \in DOMAIN r.words : r.words[i] \in Word
    <3>1. r.words \in [0 .. LiveWords - 1 -> Word] \cup [0 .. HistoryWords - 1 -> Word]
      BY DEF Record
    <3> QED
      BY <3>1
  <2>2. Width(t) \in {1, 2} /\ Offset[t] \in Nat /\ Range(t) = Offset[t] .. Offset[t] + Width(t) - 1
    BY Widths
  <2>3. CASE Width(t) = 1
    <3>1. Offset[t] \in Range(t) /\ r.words[Offset[t]] \in Word
      BY <1>2, <2>1, <2>2, <2>3
    <3>2. WordsOf(r, t) = <<r.words[Offset[t]]>>
      BY <1>2, <2>3 DEF WordsOf
    <3> QED
      BY <1>2, <3>1, <3>2
  <2>4. CASE Width(t) = 2
    <3>1. Offset[t] \in Range(t) /\ Offset[t] + 1 \in Range(t)
      BY <2>2, <2>4
    <3>2. r.words[Offset[t]] \in Word /\ r.words[Offset[t] + 1] \in Word
      BY <1>2, <2>1, <3>1
    <3>3. WordsOf(r, t) \in {<<r.words[Offset[t]], r.words[Offset[t] + 1]>>, <<r.words[Offset[t] + 1], r.words[Offset[t]]>>}
      BY <1>2, <2>4 DEF WordsOf
    <3>4. ASSUME NEW i \in Range(t), NEW j \in Range(t), r.words[i] \in Word, r.words[j] \in Word,
                 WordsOf(r, t) = <<r.words[i], r.words[j]>>
          PROVE  /\ WordsOf(r, t) \in Seq(Word) /\ DOMAIN WordsOf(r, t) = {1, 2}
                 /\ \A k \in DOMAIN WordsOf(r, t) : \E n \in Range(t) : WordsOf(r, t)[k] = r.words[n]
      BY <3>4
    <3> QED
      BY <1>2, <3>1, <3>2, <3>3, <3>4
  <2> QED
    BY <2>2, <2>3, <2>4
<1> QED
  BY <1>1, <1>2

LEMMA ParseNextKeeps == Inv /\ ParseNext => Inv'
<1> SUFFICES ASSUME Inv, ParseNext PROVE Inv'
  OBVIOUS
<1>1. PICK known \in {seen, table}, map \in {seen, table} :
        seen' = map /\ sample' = {Parsed(Head(call.batch), known, map)}
  BY DEF ParseNext
<1>pick. PICK r, s : /\ r = Head(call.batch) /\ s = Parsed(r, known, map)
                 /\ sample' = {s}
  BY <1>1
<1>2. /\ pc = "parse" /\ pc' = "parse" /\ call.batch # << >> /\ call' = [call EXCEPT !.batch = Tail(@)]
      /\ UNCHANGED <<simulation, table, edits, moment, validAt>>
  BY DEF ParseNext, Go, Unchanging, plc
<1>3. /\ known \in Table /\ seen' \in Table /\ (call.calm => known = table /\ seen' = table)
      /\ Agrees(known) /\ Agrees(seen')
  <2>1. Agrees(table)
    BY DEF Agrees, Followed
  <2> QED
    BY <1>1, <1>2, <2>1, CallFacts
<1>4. /\ r \in Record /\ Good(r)
      /\ call.calm => FromSource(r) /\ BitsRight(r)
  <2>1. 1 \in DOMAIN call.batch /\ r = call.batch[1]
    BY <1>pick, <1>2, CallFacts
  <2> QED
    BY <1>2, <2>1, CallFacts DEF Inv, RecordInv, CalmInv, Good
<1>5. /\ Tail(call.batch) \in Seq(Record)
      /\ \A i \in DOMAIN Tail(call.batch) : i + 1 \in DOMAIN call.batch /\ Tail(call.batch)[i] = call.batch[i + 1]
  BY <1>2, CallFacts
<1>6. /\ call' \in Call /\ call'.batch = Tail(call.batch) /\ call'.sim = call.sim /\ call'.got = call.got
      /\ call'.want = call.want /\ call'.calm = call.calm /\ call'.tab = call.tab
      /\ call'.steady = call.steady
  BY <1>2, <1>5, CallFacts DEF Call
<1>a. Followed' = Followed
  BY <1>2, <1>6, SameFollowed
<1>7. /\ s.rec = r /\ s.valid \subseteq DOMAIN s.value /\ DOMAIN s.value = ActiveIn(known)
      /\ \A t \in DOMAIN s.value : s.value[t] \in Seq(Word)
  <2>1. /\ s.rec = r /\ s.value = [t \in ActiveIn(known) |-> WordsOf(r, t)] /\ s.valid \subseteq ActiveIn(known)
    BY <1>pick DEF Parsed
  <2>2. \A t \in ActiveIn(known) : WordsOf(r, t) \in Seq(Word)
    BY <1>4, WordsOfARecord DEF ActiveIn
  <2> QED
    BY <2>1, <2>2
<1>8. sample' = {s}
  BY <1>pick
<1>9. s = Parsed(s.rec, known, map) /\ map = seen'
  BY <1>1, <1>pick, <1>7
<1>10. TypeOK'
  BY <1>2, <1>3, <1>4, <1>6, <1>7, <1>8 DEF Inv, TypeOK
<1>11. CallInv'
  BY <1>2, <1>6 DEF Inv, CallInv
<1>12. RecordInv'
  <2>1. (\A i \in DOMAIN call.sim : Built(call.sim[i]))'
    <3> SUFFICES ASSUME NEW i \in DOMAIN call.sim PROVE Built(call.sim[i])'
      BY <1>6
    <3>1. Built(call.sim[i])
      BY CallFacts
    <3>2. PICK x : x = call.sim[i] /\ x = call'.sim[i]
      BY <1>6
    <3>3. Built(x)'
      <4>1. Good(x) /\ Built(x)
        BY <3>1, <3>2 DEF Built
      <4>2. Good(x)'
        BY <1>2, <1>a, <4>1 DEF Good, Whole, Encoded
      <4> QED
        BY <4>1, <4>2 DEF Built
    <3> QED
      BY <3>2, <3>3
  <2>2. (\A i \in DOMAIN call.batch : Good(call.batch[i]))'
    <3> SUFFICES ASSUME NEW i \in DOMAIN call'.batch PROVE Good(call.batch[i])'
      OBVIOUS
    <3>1. Good(call'.batch[i])
      BY <1>2, <1>5, <1>6 DEF Inv, RecordInv
    <3>2. PICK x : x = call'.batch[i]
      OBVIOUS
    <3>3. Good(x)'
      BY <1>2, <1>a, <3>1, <3>2 DEF Good, Whole, Encoded
    <3> QED
      BY <3>2, <3>3
  <2>3. call'.got = NoWords
    BY <1>2, <1>6 DEF Inv, CallInv
  <2>4. (\A x \in sample : Good(x.rec) /\ \E k, m \in Table :
          /\ x = Parsed(x.rec, k, m) /\ Agrees(k)
          /\ call.calm => k = table /\ m = table)'
    <3>1. Good(s.rec)'
      BY <1>2, <1>4, <1>7, <1>a DEF Good, Whole, Encoded
    <3>2. Agrees(known)'
      BY <1>3, <1>a DEF Agrees
    <3> QED
      BY <1>2, <1>3, <1>6, <1>8, <1>9, <3>1, <3>2
  <2> QED
    BY <1>2, <2>1, <2>2, <2>3, <2>4 DEF RecordInv, NoWords
<1>13. CalmInv'
  <2> SUFFICES ASSUME call.calm PROVE CalmInv'
    BY <1>6 DEF CalmInv
  <2>1. (\A i \in DOMAIN call.batch : FromSource(call.batch[i]) /\ BitsRight(call.batch[i]))'
    <3> SUFFICES ASSUME NEW i \in DOMAIN call'.batch
                 PROVE  FromSource(call.batch[i])' /\ BitsRight(call.batch[i])'
      OBVIOUS
    <3>1. FromSource(call'.batch[i]) /\ BitsRight(call'.batch[i])
      BY <1>2, <1>5, <1>6 DEF Inv, CalmInv
    <3> QED
      BY <1>2, <1>a, <3>1 DEF FromSource, BitsRight, IsReal
  <2>2. (\A x \in sample : FromSource(x.rec) /\ BitsRight(x.rec))'
    BY <1>2, <1>4, <1>7, <1>8, <1>a, <1>6 DEF FromSource, BitsRight, IsReal
  <2>3. \A i \in DOMAIN call'.sim :
          call'.sim[i].bits = BitsOf(ActiveIn(table')) /\ AllSimulated(call'.sim[i])
    BY <1>2, <1>6 DEF Inv, CalmInv
  <2>4. call.steady
    BY <1>2, CallFacts
  <2> QED
    BY <1>2, <1>3, <1>6, <1>a, <2>1, <2>2, <2>3, <2>4 DEF CalmInv, AllSimulated
<1>b. SteadyInv'
  BY <1>2, <1>3, <1>a DEF SteadyInv, Agrees
<1>14. HistoryNotMixed'
  BY <1>5, <1>6 DEF Inv, HistoryNotMixed
<1> QED
  BY <1>10, <1>11, <1>12, <1>13, <1>14, <1>b DEF Inv

LEMMA ReturnKeeps == Inv /\ Return => Inv'
BY IdleKeeps DEF Return, Unchanging, plc

\* A scan of the PLC changes nothing of what was read before it.
LEMMA ScanKeeps == Inv /\ Scan => Inv'
<1> SUFFICES ASSUME Inv, Scan PROVE Inv'
  OBVIOUS
<1>1. PICK bits \in SUBSET Bits :
        /\ moment < MaxMoment /\ moment' = moment + 1 /\ validAt' = [validAt EXCEPT ![moment + 1] = bits]
        /\ UNCHANGED <<simulation, table, seen, edits, pc, call, sample>>
  BY DEF Scan, tags
<1>2. /\ moment \in Nat /\ moment \in 0 .. MaxMoment /\ moment' \in 0 .. MaxMoment
      /\ validAt' \in [0 .. MaxMoment -> SUBSET Bits] /\ \A m \in 0 .. moment : m \in 0 .. moment' /\ validAt'[m] = validAt[m]
  <2>1. moment \in Nat /\ moment \in 0 .. MaxMoment /\ validAt \in [0 .. MaxMoment -> SUBSET Bits]
    BY CallFacts DEF Inv, TypeOK
  <2>2. MaxMoment \in Nat
    BY SizeAssumption
  <2> QED
    BY <1>1, <2>1, <2>2
<1>a. Followed' = Followed
  BY <1>1, SameFollowed
<1>3. TypeOK'
  BY <1>1, <1>2 DEF Inv, TypeOK
<1>4. CallInv'
  BY <1>1 DEF Inv, CallInv, RealIn, ActiveIn
<1>6. RecordInv'
  <2>1. (\A i \in DOMAIN call.sim : Built(call.sim[i]))'
    <3> SUFFICES ASSUME NEW i \in DOMAIN call.sim PROVE Built(call.sim[i])'
      BY <1>1
    <3>1. Built(call.sim[i])
      BY CallFacts
    <3> QED
      BY <1>1, <1>2, <1>a, <3>1 DEF Built, Good, Whole, Encoded
  <2>2. (pc = "parse" => \A i \in DOMAIN call.batch : Good(call.batch[i]))'
    BY <1>1, <1>2, <1>a DEF Inv, RecordInv, Good, Whole, Encoded
  <2>3. (pc = "history" => \A i \in DOMAIN call.batch :
          \E m \in 0 .. moment : call.batch[i] = PlcRecord(m, HistoryWords))'
    <3> SUFFICES ASSUME pc = "history", NEW i \in DOMAIN call.batch
                 PROVE  \E m \in 0 .. moment' : call.batch[i] = PlcRecord(m, HistoryWords)'
      BY <1>1
    <3>1. PICK m \in 0 .. moment : call.batch[i] = PlcRecord(m, HistoryWords)
      BY DEF Inv, RecordInv
    <3>2. PlcRecord(m, HistoryWords)' = PlcRecord(m, HistoryWords)
      BY <1>2 DEF PlcRecord, PlcWord
    <3> QED
      BY <1>2, <3>1, <3>2
  <2>4. (\A q \in Rows : call.got[q] # << >> => GotFor(call.got, call.tab, q))'
    BY <1>1, <1>2 DEF Inv, RecordInv, GotFor, PlcWords, PlcWord, RealIn, ActiveIn
  <2>5. (\A s \in sample : Good(s.rec) /\ \E known, map \in Table :
          /\ s = Parsed(s.rec, known, map) /\ Agrees(known)
          /\ call.calm => known = table /\ map = table)'
    <3> SUFFICES ASSUME NEW s \in sample
                 PROVE  Good(s.rec)' /\ \E known, map \in Table :
                          /\ s = Parsed(s.rec, known, map) /\ Agrees(known)'
                          /\ call.calm => known = table /\ map = table
      BY <1>1
    <3>1. Good(s.rec) /\ \E known, map \in Table :
            /\ s = Parsed(s.rec, known, map) /\ Agrees(known)
            /\ call.calm => known = table /\ map = table
      BY DEF Inv, RecordInv
    <3>2. Good(s.rec)'
      BY <1>2, <1>a, <3>1 DEF Good, Whole, Encoded
    <3>3. \A known : Agrees(known) => Agrees(known)'
      BY <1>a DEF Agrees
    <3> QED
      BY <3>1, <3>2, <3>3
  <2>6. (pc # "parse" => sample = {})'
    BY <1>1, CallFacts
  <2> QED
    BY <2>1, <2>2, <2>3, <2>4, <2>5, <2>6 DEF RecordInv
<1>7. CalmInv'
  <2> SUFFICES ASSUME call.calm, pc # "idle" PROVE CalmInv'
    BY <1>1 DEF CalmInv
  <2>1. ASSUME NEW r, Good(r), FromSource(r), BitsRight(r) PROVE FromSource(r)' /\ BitsRight(r)'
    <3>1. FromSource(r)'
      BY <1>1, <1>a, <2>1 DEF FromSource, IsReal, ActiveIn
    <3>2. BitsRight(r)'
      BY <1>1, <1>2, <2>1 DEF BitsRight, Good, IsReal, ActiveIn
    <3> QED
      BY <3>1, <3>2
  <2>2. (pc = "parse" => \A i \in DOMAIN call.batch : FromSource(call.batch[i]) /\ BitsRight(call.batch[i]))'
    <3> SUFFICES ASSUME pc = "parse", NEW i \in DOMAIN call.batch
                 PROVE  (FromSource(call.batch[i]) /\ BitsRight(call.batch[i]))'
      BY <1>1
    <3>1. Good(call.batch[i]) /\ FromSource(call.batch[i]) /\ BitsRight(call.batch[i])
      BY DEF Inv, RecordInv, CalmInv
    <3>2. PICK r : r = call.batch[i]
      OBVIOUS
    <3>3. FromSource(r)' /\ BitsRight(r)'
      BY <2>1, <3>1, <3>2
    <3>4. call'.batch[i] = r
      BY <1>1, <3>2
    <3> QED
      BY <3>3, <3>4
  <2>3. (\A s \in sample : FromSource(s.rec) /\ BitsRight(s.rec))'
    <3> SUFFICES ASSUME NEW s \in sample PROVE (FromSource(s.rec) /\ BitsRight(s.rec))'
      BY <1>1
    <3>1. Good(s.rec) /\ FromSource(s.rec) /\ BitsRight(s.rec)
      BY DEF Inv, RecordInv, CalmInv
    <3> QED
      BY <2>1, <3>1
  <2>4. /\ call.steady /\ seen = table
        /\ simulation /\ pc \in {"status", "payload", "live", "tags", "history"} => call.tab = table
        /\ \A i \in DOMAIN call.sim :
             call.sim[i].bits = BitsOf(ActiveIn(table)) /\ AllSimulated(call.sim[i])
    BY DEF Inv, CalmInv
  <2> QED
    BY <1>1, <1>a, <2>2, <2>3, <2>4 DEF CalmInv, BitsOf, ActiveIn, AllSimulated
<1>8. HistoryNotMixed'
  BY <1>1 DEF Inv, HistoryNotMixed
<1>9. SteadyInv'
  BY <1>1, <1>a DEF Inv, SteadyInv, Agrees
<1> QED
  BY <1>3, <1>4, <1>6, <1>7, <1>8, <1>9 DEF Inv

\* An edit of the tags ends the calm; one that puts another tag into a row is the end of
\* all that is held against the records of the call.
LEMMA EditKeeps == Inv /\ Edit => Inv'
<1> SUFFICES ASSUME Inv, Edit PROVE Inv'
  OBVIOUS
<1>1. PICK q \in Rows, entry \in Entry :
        /\ Row[entry.tag] = q /\ table' = [table EXCEPT ![q] = entry]
        /\ call' = [call EXCEPT !.calm = FALSE, !.steady = @ /\ entry.tag = table[q].tag]
  BY DEF Edit
<1>2. /\ edits < MaxEdits /\ edits' = edits + 1
      /\ UNCHANGED <<simulation, seen, moment, validAt, pc, sample>>
  BY DEF Edit, plc
<1>3. table \in Table /\ table' \in Table
  <2>1. table \in [Rows -> Entry] /\ \A x \in Rows : Row[table[x].tag] = x
    BY CallFacts DEF Table
  <2>2. table' \in [Rows -> Entry] /\ \A x \in Rows : Row[table'[x].tag] = x
    BY <1>1, <2>1
  <2> QED
    BY <2>1, <2>2 DEF Table
<1>a. PICK b \in BOOLEAN : b <=> call.steady /\ entry.tag = table[q].tag
  OBVIOUS
<1>b. call' = [call EXCEPT !.calm = FALSE, !.steady = b]
  <2>1. b = (call.steady /\ entry.tag = table[q].tag)
    BY <1>a
  <2> QED
    BY <1>1, <2>1, Zenon
<1>4. /\ call' \in Call /\ call'.calm = FALSE /\ call'.batch = call.batch /\ call'.sim = call.sim
      /\ call'.got = call.got /\ call'.want = call.want /\ call'.tab = call.tab /\ call'.todo = call.todo
      /\ call'.steady = b
  BY <1>b, CallFacts DEF Call
<1>c. Followed' \subseteq Followed
  <2> SUFFICES ASSUME NEW t \in Followed' PROVE t \in Followed
    OBVIOUS
  <2>1. t \in Tags /\ call'.steady /\ Apart' /\ table'[Row[t]].tag = t
    BY DEF Followed, Steady
  <2>2. call.steady /\ entry.tag = table[q].tag
    BY <1>4, <1>a, <2>1
  <2>3. \A x \in Rows : table'[x].tag = table[x].tag
    BY <1>1, <1>3, <2>2 DEF Table
  <2>4. Apart
    BY <2>1, <2>3 DEF Apart
  <2> QED
    BY <2>1, <2>2, <2>3, <2>4, Widths DEF Followed, Steady
<1>5. TypeOK'
  <2>1. edits' \in 0 .. MaxEdits
    BY <1>2, SizeAssumption DEF Inv, TypeOK
  <2> QED
    BY <1>2, <1>3, <1>4, <2>1 DEF Inv, TypeOK
<1>6. CallInv'
  BY <1>2, <1>4 DEF Inv, CallInv
<1>d. ASSUME NEW x, Good(x) PROVE Good(x)'
  <2>1. Whole(x)' /\ Encoded(x)'
    BY <1>c, <1>d DEF Good, Whole, Encoded
  <2> QED
    BY <1>2, <1>d, <2>1 DEF Good
<1>e. ASSUME NEW tab, Agrees(tab) PROVE Agrees(tab)'
  BY <1>c, <1>e DEF Agrees
<1>7. RecordInv'
  <2>1. (\A i \in DOMAIN call.sim : Built(call.sim[i]))'
    <3> SUFFICES ASSUME NEW i \in DOMAIN call.sim PROVE Built(call.sim[i])'
      BY <1>4
    <3>1. Built(call.sim[i])
      BY CallFacts
    <3>2. PICK x : x = call.sim[i]
      OBVIOUS
    <3>3. Built(x)'
      BY <1>d, <3>1, <3>2 DEF Built
    <3> QED
      BY <1>4, <3>2, <3>3
  <2>2. (pc = "parse" => \A i \in DOMAIN call.batch : Good(call.batch[i]))'
    <3> SUFFICES ASSUME pc = "parse", NEW i \in DOMAIN call.batch PROVE Good(call.batch[i])'
      BY <1>2, <1>4
    <3>1. Good(call.batch[i])
      BY DEF Inv, RecordInv
    <3>2. PICK x : x = call.batch[i]
      OBVIOUS
    <3>3. Good(x)'
      BY <1>d, <3>1, <3>2
    <3> QED
      BY <1>4, <3>2, <3>3
  <2>3. (\A s \in sample : Good(s.rec) /\ \E known, map \in Table :
          /\ s = Parsed(s.rec, known, map) /\ Agrees(known)
          /\ call.calm => known = table /\ map = table)'
    <3> SUFFICES ASSUME NEW s \in sample
                 PROVE  Good(s.rec)' /\ \E known, map \in Table :
                          s = Parsed(s.rec, known, map) /\ Agrees(known)'
      BY <1>2, <1>4
    <3>1. PICK known \in Table, map \in Table :
            Good(s.rec) /\ s = Parsed(s.rec, known, map) /\ Agrees(known)
      BY DEF Inv, RecordInv
    <3>2. Good(s.rec)' /\ Agrees(known)'
      BY <1>d, <1>e, <3>1
    <3> QED
      BY <3>1, <3>2
  <2>4. (pc = "history" => \A i \in DOMAIN call.batch :
          \E m \in 0 .. moment : call.batch[i] = PlcRecord(m, HistoryWords))'
    <3>1. pc = "history" => \A i \in DOMAIN call.batch :
            \E m \in 0 .. moment : call.batch[i] = PlcRecord(m, HistoryWords)
      BY DEF Inv, RecordInv
    <3>2. \A m : PlcRecord(m, HistoryWords)' = PlcRecord(m, HistoryWords)
      BY <1>2 DEF PlcRecord, PlcWord
    <3> QED
      BY <1>2, <1>4, <3>1, <3>2
  <2>5. (\A x \in Rows : call.got[x] # << >> => GotFor(call.got, call.tab, x))'
    BY <1>2, <1>4 DEF Inv, RecordInv, GotFor
  <2>6. (pc # "parse" => sample = {})'
    BY <1>2, CallFacts
  <2> QED
    BY <2>1, <2>2, <2>3, <2>4, <2>5, <2>6 DEF RecordInv
<1>8. CalmInv' /\ HistoryNotMixed'
  BY <1>4 DEF Inv, CalmInv, HistoryNotMixed
<1>9. SteadyInv'
  <2> SUFFICES ASSUME pc # "idle"
               PROVE  /\ Agrees(seen)'
                      /\ simulation /\ pc \in {"status", "payload", "live", "tags", "history"} => Agrees(call.tab)'
    BY <1>2 DEF SteadyInv
  <2>1. Agrees(seen) /\ (simulation /\ pc \in {"status", "payload", "live", "tags", "history"} => Agrees(call.tab))
    BY DEF Inv, SteadyInv
  <2>2. \A t \in Followed' : t \in Followed /\ seen' = seen /\ call'.tab = call.tab
    BY <1>2, <1>4, <1>c
  <2> QED
    BY <2>1, <2>2 DEF Agrees
<1> QED
  BY <1>5, <1>6, <1>7, <1>8, <1>9 DEF Inv

-----------------------------------------------------------------------------
(* Numbers of two words.                                                   *)

LEMMA Divides ==
  ASSUME NEW n \in Nat, NEW w \in Nat \ {0}
  PROVE  n \div w \in Nat /\ n % w \in 0 .. w - 1 /\ n = (n \div w) * w + (n % w)
OBVIOUS

LEMMA DividesBelow ==
  ASSUME NEW n \in Nat, NEW w \in Nat \ {0}, NEW b \in Nat, n < b * w
  PROVE  n \div w < b
<1> DEFINE q == n \div w
<1>1. q \in Nat /\ q * w < b * w
  BY Divides
<1> HIDE DEF q
<1>2. ASSUME q >= b PROVE FALSE
  <2>1. (q - b) * w >= 0
    BY <1>1, <1>2
  <2>2. (q - b) * w = q * w - b * w
    BY <1>1
  <2> QED
    BY <1>1, <2>1, <2>2
<1> QED
  BY <1>1, <1>2 DEF q

LEMMA SmallRest ==
  ASSUME NEW w \in Nat \ {0}, NEW n \in 0 .. w - 1
  PROVE  n % w = n
OBVIOUS

LEMMA NegativeRest ==
  ASSUME NEW w \in Nat \ {0}, NEW v \in Int, v < 0, v > -w
  PROVE  v % w = v + w
OBVIOUS

LEMMA Composed ==
  ASSUME NEW w \in Nat \ {0}, NEW b \in Nat, NEW h \in 0 .. b - 1, NEW l \in 0 .. w - 1
  PROVE  h * w + l \in 0 .. b * w - 1
<1>1. h * w + w = (h + 1) * w
  OBVIOUS
<1>2. (b - (h + 1)) * w >= 0
  OBVIOUS
<1>3. (b - (h + 1)) * w = b * w - (h + 1) * w
  OBVIOUS
<1>4. h * w \in Nat /\ b * w \in Nat
  OBVIOUS
<1> QED
  BY <1>1, <1>2, <1>3, <1>4

\* The highest bit is the sign.
LEMMA SignOf ==
  ASSUME NEW half \in Nat \ {0}, NEW x \in 0 .. 2 * half - 1
  PROVE  Signed(x, 2 * half) = IF x < half THEN x ELSE x - 2 * half
<1>1. (2 * half) \div 2 = half
  OBVIOUS
<1>2. x < half => x \div half = 0
  OBVIOUS
<1>3. x >= half => x \div half = 1
  OBVIOUS
<1> QED
  BY <1>1, <1>2, <1>3 DEF Signed

Half == WordSize \div 2
LEMMA Halves ==
  /\ Half \in Nat \ {0} /\ WordSize = 2 * Half /\ Half * WordSize \in Nat \ {0}
  /\ WordSize * WordSize = 2 * (Half * WordSize)
<1>1. Half \in Nat \ {0} /\ WordSize = 2 * Half
  BY SizeAssumption, WordAssumption DEF Half
<1> QED
  BY <1>1

\* The jitter moves a word by two at most and leaves it a word.
LEMMA JitterIsSmall ==
  ASSUME NEW x \in Nat, NEW j \in -2 .. 2
  PROVE  Jittered(x, j) \in 0 .. x + 2 /\ Jittered(x, j) - x \in -2 .. 2 /\ (j = 0 => Jittered(x, j) = x)
BY DEF Jittered, AtLeastZero

\* The unit of the word with the jitter.
Unit(t) == IF Width(t) = 2 /\ WordOrder[t] = "low_high" THEN WordSize ELSE 1

\* Two words back to their number; b bounds the high word, before the jitter and after.
LEMMA DoubleReadsBack ==
  ASSUME NEW t \in Tags, DataType[t] \in Wide, NEW v \in Int, NEW w,
         NEW b \in 1 .. WordSize, v >= 0, v < b * WordSize,
         Encode(t, v)[2] <= WordSize - 3,
         WordOrder[t] = "low_high" => v < (b - 2) * WordSize \/ (b = WordSize),
         IF WordOrder[t] = "high_low" THEN Near(t, v, 1, w[1].val) /\ Near(t, v, 2, w[2].val)
         ELSE Near(t, v, 1, w[2].val) /\ Near(t, v, 2, w[1].val)
  PROVE  /\ Double(w) \in 0 .. b * WordSize - 1
         /\ \E d \in -2 .. 2 : Double(w) - v = Unit(t) * d
<1> DEFINE high == v \div WordSize
           low == v % WordSize
<1>1. WordSize \in Nat \ {0} /\ b \in Nat /\ v \in Nat
  BY SizeAssumption
<1>2. v < WordSize * WordSize
  <2>1. (WordSize - b) * WordSize >= 0
    BY <1>1
  <2>2. (WordSize - b) * WordSize = WordSize * WordSize - b * WordSize
    BY <1>1
  <2>3. b * WordSize \in Int /\ WordSize * WordSize \in Int
    BY <1>1
  <2> QED
    BY <1>1, <2>1, <2>2, <2>3
<1>3. AtLeastZero(v) % (WordSize * WordSize) = v
  <2>1. AtLeastZero(v) = v
    BY DEF AtLeastZero
  <2> QED
    BY <1>1, <1>2, <2>1, SquareIsPositive, SmallRest
<1>4. /\ high \in Nat /\ high < b /\ low \in 0 .. WordSize - 1 /\ v = high * WordSize + low
      /\ v < (b - 2) * WordSize => high < b - 2
  <2>1. high \in Nat /\ low \in 0 .. WordSize - 1 /\ v = high * WordSize + low
    BY <1>1, Divides
  <2>2. high < b
    BY <1>1, DividesBelow
  <2>3. ASSUME v < (b - 2) * WordSize PROVE high < b - 2
    <3>1. CASE b >= 2
      <4>1. b - 2 \in Nat
        BY <1>1, <3>1
      <4> QED
        BY <1>1, <2>3, <4>1, DividesBelow
    <3>2. CASE b = 1
      BY <1>1, <2>3, <3>2
    <3> QED
      BY <1>1, <3>1, <3>2
  <2> QED
    BY <2>1, <2>2, <2>3
<1>5. Width(t) = 2 /\ Encode(t, v) = IF WordOrder[t] = "low_high" THEN <<low, high>> ELSE <<high, low>>
  BY <1>3 DEF Encode, Width
<1> HIDE DEF high, low
<1>6. ASSUME NEW h \in 0 .. b - 1, NEW l \in 0 .. WordSize - 1, w[1].val = h, w[2].val = l
      PROVE  Double(w) = h * WordSize + l /\ Double(w) \in 0 .. b * WordSize - 1
  <2>1. h \in 0 .. WordSize - 1
    BY <1>1
  <2>2. h % WordSize = h /\ l % WordSize = l
    BY <1>1, <2>1, SmallRest
  <2> QED
    BY <1>1, <1>6, <2>2, Composed DEF Double
<1>7. CASE WordOrder[t] = "high_low"
  <2>1. PICK j \in -2 .. 2 : w[2].val = Jittered(low, j)
    BY <1>5, <1>7 DEF Near
  <2>2. w[1].val = Jittered(high, 0)
    BY <1>5, <1>7 DEF Near
  <2>3. w[1].val = high
    BY <1>4, <2>2, JitterIsSmall
  <2>4. low <= WordSize - 3
    BY <1>5, <1>7
  <2>5. PICK l : l = w[2].val
    OBVIOUS
  <2>6. l \in 0 .. WordSize - 1 /\ l - low \in -2 .. 2
    <3>1. l = Jittered(low, j) /\ low \in Nat
      BY <1>1, <1>4, <2>1, <2>5
    <3>2. l \in 0 .. low + 2 /\ l - low \in -2 .. 2
      BY <3>1, JitterIsSmall
    <3> QED
      BY <1>1, <1>4, <2>4, <3>1, <3>2
  <2>7. Double(w) = high * WordSize + l /\ Double(w) \in 0 .. b * WordSize - 1
    BY <1>1, <1>4, <1>6, <2>3, <2>5, <2>6
  <2>8. Unit(t) = 1
    BY <1>7 DEF Unit
  <2>9. Double(w) - v = l - low
    BY <1>1, <1>4, <2>6, <2>7
  <2> QED
    BY <2>6, <2>7, <2>8, <2>9
<1>8. CASE WordOrder[t] # "high_low"
  <2>0. WordOrder[t] = "low_high"
    BY <1>8, TagAssumption
  <2>1. PICK j \in -2 .. 2 : w[1].val = Jittered(high, j)
    BY <1>5, <2>0 DEF Near
  <2>2. w[2].val = Jittered(low, 0)
    BY <1>5, <2>0 DEF Near
  <2>3. w[2].val = low
    BY <1>4, <2>2, JitterIsSmall
  <2>4. PICK h : h = w[1].val
    OBVIOUS
  <2>5. h \in 0 .. high + 2 /\ h - high \in -2 .. 2
    <3>1. h = Jittered(high, j) /\ high \in Nat
      BY <1>4, <2>1, <2>4
    <3> QED
      BY <3>1, JitterIsSmall
  <2>6. high + 2 <= b - 1
    <3>1. CASE v < (b - 2) * WordSize
      BY <1>1, <1>4, <3>1
    <3>2. CASE b = WordSize
      BY <1>1, <1>4, <1>5, <2>0, <3>2
    <3> QED
      BY <2>0, <3>1, <3>2
  <2>7. h \in 0 .. b - 1
    BY <1>1, <1>4, <2>5, <2>6
  <2>8. Double(w) = h * WordSize + low /\ Double(w) \in 0 .. b * WordSize - 1
    BY <1>4, <1>6, <2>3, <2>4, <2>7
  <2>9. Unit(t) = WordSize
    BY <1>5, <2>0 DEF Unit
  <2>10. Double(w) - v = WordSize * (h - high)
    <3>1. h * WordSize - high * WordSize = WordSize * (h - high)
      BY <1>1, <1>4, <2>7
    <3>2. h * WordSize \in Int /\ high * WordSize \in Int
      BY <1>1, <1>4, <2>7
    <3> QED
      BY <1>1, <1>4, <2>8, <3>1, <3>2
  <2> QED
    BY <2>5, <2>8, <2>9, <2>10
<1> QED
  BY <1>7, <1>8

\* The words of a simulated value, in the order in which the parser takes them.
Simulated(t, v, w) ==
  IF Width(t) = 1 THEN Near(t, v, 1, w[1].val)
  ELSE IF WordOrder[t] = "high_low" THEN Near(t, v, 1, w[1].val) /\ Near(t, v, 2, w[2].val)
  ELSE Near(t, v, 1, w[2].val) /\ Near(t, v, 2, w[1].val)

LEMMA WordsAreNear ==
  ASSUME NEW r \in Record, Whole(r), Encoded(r), NEW t \in Followed,
         WordsOf(r, t) # << >>, WordsOf(r, t)[1].from = "sim"
  PROVE  WordsOf(r, t)[1].of \in Int /\ Simulated(t, WordsOf(r, t)[1].of, WordsOf(r, t))
<1> DEFINE w == WordsOf(r, t)
           o == Offset[t]
<1>1. Range(t) \subseteq DOMAIN r.words
  BY DEF WordsOf
<1>2. Width(t) \in {1, 2} /\ o \in Nat /\ Range(t) = o .. o + Width(t) - 1
  BY Widths DEF Followed
<1>3. \A i \in DOMAIN r.words : r.words[i].of \in Int
  <2>1. r.words \in [0 .. LiveWords - 1 -> Word] \cup [0 .. HistoryWords - 1 -> Word]
    BY DEF Record
  <2>2. \A i \in DOMAIN r.words : r.words[i] \in Word
    BY <2>1
  <2> QED
    BY <2>2 DEF Word
<1>4. \A i \in Range(t) : r.words[i].from = "sim" => Near(t, r.words[i].of, i - o + 1, r.words[i].val)
  BY <1>1 DEF Encoded
<1>5. CASE Width(t) = 1
  <2>1. w[1] = r.words[o] /\ o \in Range(t) /\ o - o + 1 = 1
    BY <1>1, <1>2, <1>5 DEF WordsOf
  <2> QED
    BY <1>1, <1>3, <1>4, <1>5, <2>1 DEF Simulated
<1>6. CASE Width(t) = 2
  <2>1. o \in Range(t) /\ o + 1 \in Range(t) /\ o - o + 1 = 1 /\ (o + 1) - o + 1 = 2
    BY <1>2, <1>6
  <2>2. w = IF WordOrder[t] = "high_low" THEN <<r.words[o], r.words[o + 1]>>
            ELSE <<r.words[o + 1], r.words[o]>>
    BY <1>1, <1>6 DEF WordsOf
  <2>3. r.words[o].from = r.words[o + 1].from /\ r.words[o].of = r.words[o + 1].of
    BY <1>1, <2>1 DEF Whole
  <2> HIDE DEF w
  <2>4. w[1] \in {r.words[o], r.words[o + 1]}
    BY <2>2
  <2>5. r.words[o].from = "sim" /\ w[1].of = r.words[o].of /\ w[1].of \in Int
    <3>1. w[1].from = "sim"
      BY DEF w
    <3> QED
      BY <1>1, <1>3, <2>1, <2>3, <2>4, <3>1
  <2>6. Near(t, w[1].of, 1, r.words[o].val) /\ Near(t, w[1].of, 2, r.words[o + 1].val)
    BY <1>4, <2>1, <2>3, <2>5
  <2>7. Simulated(t, w[1].of, w)
    BY <1>6, <2>2, <2>6 DEF Simulated
  <2> QED
    BY <2>5, <2>7 DEF w
<1> QED
  BY <1>2, <1>5, <1>6

\* A value of one word.
LEMMA WordReadsBack ==
  ASSUME NEW t \in Tags, DataType[t] \notin Wide, NEW v \in Int, Fits(t, v), NEW w, Simulated(t, v, w)
  PROVE  \E d \in -2 .. 2 : Number(t, w) - v = d
<1> DEFINE x == v % WordSize
<1>1. Width(t) = 1 /\ Encode(t, v) = <<x>> /\ DataType[t] \in {"int16", "uint16"}
  BY TagAssumption DEF Width, Encode
<1>2. Half \in Nat \ {0} /\ WordSize = 2 * Half
  BY Halves
<1>3. IF DataType[t] = "int16" THEN v \in 0 .. Half - 3 \/ v \in 2 - Half .. -3 ELSE v \in 0 .. WordSize - 3
  BY <1>1 DEF Fits, Half
<1>4. x = IF v >= 0 THEN v ELSE v + WordSize
  <2>1. CASE v >= 0
    <3>1. v \in 0 .. WordSize - 1 /\ WordSize \in Nat \ {0}
      BY <1>2, <1>3, <2>1
    <3>2. v % WordSize = v
      BY <3>1, SmallRest
    <3> QED
      BY <2>1, <3>2
  <2>2. CASE v < 0
    <3>1. v > -WordSize /\ WordSize \in Nat \ {0}
      BY <1>2, <1>3, <2>2
    <3>2. v % WordSize = v + WordSize
      BY <2>2, <3>1, NegativeRest
    <3> QED
      BY <2>2, <3>2
  <2> QED
    BY <2>1, <2>2
<1> HIDE DEF x
<1>5. x \in Nat
  BY <1>2, <1>3, <1>4
<1>6. PICK j \in -2 .. 2 : w[1].val = Jittered(x, j)
  BY <1>1 DEF Simulated, Near
<1>7. PICK y : y = w[1].val
  OBVIOUS
<1>8. y \in 0 .. x + 2 /\ y - x \in -2 .. 2
  <2>1. y = Jittered(x, j)
    BY <1>6, <1>7
  <2> QED
    BY <1>5, <2>1, JitterIsSmall
<1>9. y \in 0 .. WordSize - 1
  BY <1>2, <1>3, <1>4, <1>8
<1>10. CASE DataType[t] = "int16"
  <2>1. Number(t, w) = IF y < Half THEN y ELSE y - WordSize
    <3>1. Number(t, w) = Signed(y, 2 * Half)
      BY <1>2, <1>7, <1>10 DEF Number
    <3> QED
      BY <1>2, <1>9, <3>1, SignOf
  <2>2. Number(t, w) - v = y - x
    BY <1>2, <1>3, <1>4, <1>5, <1>8, <1>10, <2>1
  <2> QED
    BY <1>8, <2>2
<1>11. CASE DataType[t] = "uint16"
  <2>1. Number(t, w) = y
    <3>1. Number(t, w) = y % WordSize
      BY <1>7, <1>11 DEF Number
    <3> QED
      BY <1>2, <1>9, <3>1, SmallRest
  <2>2. Number(t, w) - v = y - x
    BY <1>3, <1>4, <1>11, <2>1
  <2> QED
    BY <1>8, <2>2
<1> QED
  BY <1>1, <1>10, <1>11

LEMMA NumberReadsBack ==
  ASSUME NEW t \in Tags, NEW v \in Int, Fits(t, v), NEW w, Simulated(t, v, w)
  PROVE  \E d \in -2 .. 2 : Number(t, w) - v = Unit(t) * d
<1>1. CASE DataType[t] \notin Wide
  <2>1. Unit(t) = 1
    BY <1>1 DEF Unit, Width
  <2> QED
    BY <1>1, <2>1, WordReadsBack
<1>2. CASE DataType[t] \in Wide
  <2>1. Width(t) = 2 /\ DataType[t] \in {"int32", "uint32"}
    BY <1>2 DEF Fits, Width, Wide
  <2>2. WordSize \in Nat \ {0} /\ Half \in Nat \ {0} /\ WordSize = 2 * Half
        /\ Half * WordSize \in Nat \ {0} /\ WordSize * WordSize = 2 * (Half * WordSize)
    BY SizeAssumption, Halves
  <2>3. IF WordOrder[t] = "high_low" THEN Near(t, v, 1, w[1].val) /\ Near(t, v, 2, w[2].val)
        ELSE Near(t, v, 1, w[2].val) /\ Near(t, v, 2, w[1].val)
    BY <2>1 DEF Simulated
  <2>4. CASE DataType[t] = "int32"
    <3>1. v \in 0 .. (Half - 2) * WordSize - 1 /\ Encode(t, v)[2] <= WordSize - 3
      BY <2>1, <2>4 DEF Fits, Half
    <3>2. Half \in 1 .. WordSize
      BY <2>2
    <3>3. v >= 0 /\ v < (Half - 2) * WordSize /\ v < Half * WordSize
      <4>1. (Half - 2) * WordSize = Half * WordSize - 2 * WordSize
        BY <2>2
      <4>2. (Half - 2) * WordSize \in Int
        BY <2>2
      <4> QED
        BY <2>2, <3>1, <4>1, <4>2
    <3>4. /\ Double(w) \in 0 .. Half * WordSize - 1
          /\ \E d \in -2 .. 2 : Double(w) - v = Unit(t) * d
      BY <1>2, <2>3, <3>1, <3>2, <3>3, DoubleReadsBack
    <3>5. Number(t, w) = Double(w)
      <4>1. Number(t, w) = Signed(Double(w), 2 * (Half * WordSize))
        BY <2>2, <2>4 DEF Number
      <4>2. Double(w) \in 0 .. 2 * (Half * WordSize) - 1 /\ Double(w) < Half * WordSize
        BY <2>2, <3>4
      <4> QED
        BY <2>2, <4>1, <4>2, SignOf
    <3> QED
      BY <3>4, <3>5
  <2>5. CASE DataType[t] = "uint32"
    <3>1. v >= 0 /\ v < WordSize * WordSize /\ Encode(t, v)[2] <= WordSize - 3
      <4>1. v \in 0 .. WordSize * WordSize - 1 /\ Encode(t, v)[2] <= WordSize - 3
        BY <2>1, <2>5 DEF Fits
      <4> QED
        BY <2>2, <4>1
    <3>2. WordSize \in 1 .. WordSize
      BY <2>2
    <3>3. \E d \in -2 .. 2 : Double(w) - v = Unit(t) * d
      BY <1>2, <2>3, <3>1, <3>2, DoubleReadsBack
    <3>4. Number(t, w) = Double(w)
      BY <2>5 DEF Number
    <3> QED
      BY <3>3, <3>4
  <2> QED
    BY <2>1, <2>4, <2>5
<1> QED
  BY <1>1, <1>2

-----------------------------------------------------------------------------
(* Theorems.                                                               *)

\* While the registers stay, every tag that the parser knows is one that is followed.
LEMMA ParsedFollowed ==
  ASSUME Steady, NEW known \in Table, Agrees(known), NEW t \in ActiveIn(known), table \in Table
  PROVE  t \in Followed
<1>1. t \in Tags /\ known[Row[t]].tag = t /\ Row[t] \in Rows
  BY Widths DEF ActiveIn
<1>2. table[Row[t]].tag \in Tags /\ Row[table[Row[t]].tag] = Row[t]
  BY <1>1 DEF Table, Entry
<1>3. table[Row[t]].tag \in Followed
  BY <1>2 DEF Followed
<1> QED
  BY <1>1, <1>2, <1>3 DEF Agrees

\* What is known of every call: the types, how far it has come, that the records it holds
\* are whole and genuine and, while nobody edits the tags, taken from the right source.
THEOREM CallIsInvariant == Spec => []Inv
<1>1. Inv /\ UNCHANGED vars => Inv'
  <2> SUFFICES ASSUME Inv, UNCHANGED vars PROVE Inv'
    OBVIOUS
  <2> USE DEF vars, plc, tags
  <2>0. Followed' = Followed
    BY SameFollowed
  <2>1. TypeOK' /\ CallInv' /\ HistoryNotMixed'
    BY DEF Inv, TypeOK, CallInv, HistoryNotMixed
  <2>2. RecordInv'
    <3>1. (\A i \in DOMAIN call.sim : Built(call.sim[i]))'
      BY <2>0 DEF Inv, RecordInv, Built, Good, Whole, Encoded
    <3>2. (pc = "parse" => \A i \in DOMAIN call.batch : Good(call.batch[i]))'
      BY <2>0 DEF Inv, RecordInv, Good, Whole, Encoded
    <3>3. (\A s \in sample : Good(s.rec) /\ \E known, map \in Table :
            /\ s = Parsed(s.rec, known, map) /\ Agrees(known)
            /\ call.calm => known = table /\ map = table)'
      BY <2>0 DEF Inv, RecordInv, Good, Whole, Encoded, Agrees
    <3>4. (pc = "history" => \A i \in DOMAIN call.batch :
            \E m \in 0 .. moment : call.batch[i] = PlcRecord(m, HistoryWords))'
      BY DEF Inv, RecordInv, PlcRecord
    <3>5. (\A q \in Rows : call.got[q] # << >> => GotFor(call.got, call.tab, q))'
      BY DEF Inv, RecordInv, GotFor
    <3>6. (pc # "parse" => sample = {})'
      BY DEF Inv, RecordInv
    <3> QED
      BY <3>1, <3>2, <3>3, <3>4, <3>5, <3>6 DEF RecordInv
  <2>3. CalmInv'
    BY <2>0 DEF Inv, CalmInv, FromSource, BitsRight, IsReal, AllSimulated
  <2>4. SteadyInv'
    BY <2>0 DEF Inv, SteadyInv, Agrees
  <2> QED
    BY <2>1, <2>2, <2>3, <2>4 DEF Inv
<1>2. Inv /\ [Next]_vars => Inv'
  BY <1>1, BeginKeeps, BuildNextKeeps, ChooseKeeps, ReadStatusKeeps, ReadLiveKeeps, ReadTagKeeps, RebuildKeeps,
     ReadHistoryKeeps, ParseNextKeeps, ReturnKeeps, ScanKeeps, EditKeeps DEF Next
<1> QED
  BY <1>2, Starts, PTL DEF Spec

\* The variables have their types, and what is simulated is never negative.
THEOREM PlcReaderTypes == Spec => []TypeOK
BY CallIsInvariant, PTL DEF Inv

\* One read of the history returns records of the PLC or simulated ones, never both.
THEOREM HistoryIsNotMixed == Spec => []HistoryNotMixed
BY CallIsInvariant, PTL DEF Inv

\* As long as the registers of the tags do not overlap and are not edited during the call,
\* no value of two words is put together from two sources or two scans, whatever fails and
\* however often the tags are switched, because every record that reaches the parser has
\* the words of such a tag from one place.
THEOREM NeverTornAlways == Spec => []NeverTorn
<1>1. Inv => NeverTorn
  <2> SUFFICES ASSUME Inv, NEW s \in sample, Steady, NEW t \in DOMAIN s.value, NEW k \in DOMAIN s.value[t]
               PROVE  s.value[t][k].from = s.value[t][1].from /\ s.value[t][k].of = s.value[t][1].of
    BY DEF NeverTorn
  <2>1. PICK known \in Table, map \in Table :
          Good(s.rec) /\ s = Parsed(s.rec, known, map) /\ Agrees(known)
    BY DEF Inv, RecordInv
  <2>2. t \in Tags /\ t \in Followed /\ s.value[t] = WordsOf(s.rec, t)
    <3>1. t \in ActiveIn(known) /\ s.value[t] = WordsOf(s.rec, t) /\ table \in Table
      BY <2>1 DEF Parsed, Inv, TypeOK
    <3> QED
      BY <2>1, <3>1, ParsedFollowed DEF ActiveIn
  <2>3. 1 \in DOMAIN s.value[t] /\ Range(t) \subseteq DOMAIN s.rec.words
    BY <2>1, <2>2, WordsOfARecord DEF Good
  <2>4. PICK i \in Range(t), j \in Range(t) : s.value[t][k] = s.rec.words[i] /\ s.value[t][1] = s.rec.words[j]
    BY <2>1, <2>2, <2>3, WordsOfARecord DEF Good
  <2> QED
    BY <2>1, <2>2, <2>3, <2>4 DEF Good, Whole
<1> QED
  BY <1>1, CallIsInvariant, PTL

\* While nobody edits the tags, and their registers do not overlap, a simulated tag shows what was simulated for it and a real
\* one its own registers, or what was simulated where nothing could be read.
THEOREM ValueFromItsSourceAlways == Spec => []ValueFromItsSource
<1>1. Inv => ValueFromItsSource
  <2> SUFFICES ASSUME Inv, NEW s \in sample, call.calm, Apart, NEW t \in DOMAIN s.value, NEW k \in DOMAIN s.value[t]
               PROVE  LET w == s.value[t][k] IN
                        \/ w.from = "sim" /\ (IsReal(t) => simulation /\ s.rec.from = "sim")
                        \/ /\ w.from = "plc" /\ IsReal(t) /\ w.val \in OwnRegisters(s.rec, t)
                           /\ s.rec.from = "plc" => w.of = s.rec.of
    BY DEF ValueFromItsSource
  <2>1. Good(s.rec) /\ s = Parsed(s.rec, table, table) /\ pc = "parse"
    BY DEF Inv, RecordInv
  <2>2. t \in ActiveIn(table) /\ t \in Tags /\ t \in Followed /\ s.value[t] = WordsOf(s.rec, t)
    BY <2>1 DEF Parsed, ActiveIn, Followed, Steady, Inv, CalmInv
  <2>3. PICK i \in Range(t) : s.value[t][k] = s.rec.words[i] /\ Range(t) \subseteq DOMAIN s.rec.words
    BY <2>1, <2>2, WordsOfARecord DEF Good
  <2>4. FromSource(s.rec)
    BY <2>1 DEF Inv, CalmInv
  <2> QED
    BY <2>2, <2>3, <2>4 DEF FromSource
<1> QED
  BY <1>1, CallIsInvariant, PTL

\* While nobody edits the tags, a real tag in a record of the PLC is valid exactly if the
\* PLC says so, or an active simulated tag shares its bit.
THEOREM ValidIfPlcSaysSoAlways == Spec => []ValidIfPlcSaysSo
<1>1. Inv => ValidIfPlcSaysSo
  <2> SUFFICES ASSUME Inv, NEW s \in sample, call.calm, s.rec.from = "plc",
                      NEW t \in DOMAIN s.value, IsReal(t), Bit[t] # NoBit
               PROVE  t \in s.valid <=> \/ Bit[t] \in validAt[s.rec.of]
                                        \/ \E u \in DOMAIN s.value : ~IsReal(u) /\ Bit[u] = Bit[t]
    BY DEF ValidIfPlcSaysSo
  <2>1. s = Parsed(s.rec, table, table) /\ pc = "parse"
    BY DEF Inv, RecordInv
  <2>2. DOMAIN s.value = ActiveIn(table) /\ (t \in s.valid <=> Bit[t] \in s.rec.bits)
    BY <2>1, Widths DEF Parsed, ActiveIn, Valid
  <2>3. BitsRight(s.rec)
    BY <2>1 DEF Inv, CalmInv
  <2> QED
    BY <2>2, <2>3 DEF BitsRight
<1> QED
  BY <1>1, CallIsInvariant, PTL

\* What is simulated for a tag comes out of the parser as it went in, give or take the
\* jitter of its last word, for any tags whose registers do not overlap and are not edited
\* during the call and any even number of values of a word: every record has the words of
\* a simulated tag encoded from the one value that they are of.
THEOREM ReadsBackAlways == Spec => []ReadsBack
<1>1. Inv => ReadsBack
  <2> SUFFICES ASSUME Inv, NEW s \in sample, Steady, NEW t \in DOMAIN s.value, s.value[t] # << >>,
                      s.value[t][1].from = "sim", Fits(t, s.value[t][1].of)
               PROVE  Number(t, s.value[t]) - s.value[t][1].of \in {Unit(t) * d : d \in -2 .. 2}
    BY DEF ReadsBack, Unit
  <2>1. PICK known \in Table, map \in Table :
          Good(s.rec) /\ s = Parsed(s.rec, known, map) /\ Agrees(known)
    BY DEF Inv, RecordInv
  <2>2. t \in Tags /\ t \in Followed /\ s.value[t] = WordsOf(s.rec, t) /\ s.value[t] # << >>
    <3>1. t \in ActiveIn(known) /\ s.value[t] = WordsOf(s.rec, t) /\ table \in Table
      BY <2>1 DEF Parsed, Inv, TypeOK
    <3> QED
      BY <2>1, <3>1, ParsedFollowed DEF ActiveIn
  <2>3. \E d \in -2 .. 2 : Number(t, s.value[t]) - s.value[t][1].of = Unit(t) * d
    BY <2>1, <2>2, WordsAreNear, NumberReadsBack DEF Good
  <2> QED
    BY <2>3
<1> QED
  BY <1>1, CallIsInvariant, PTL

=============================================================================
