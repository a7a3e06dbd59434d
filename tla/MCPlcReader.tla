------------------------------ MODULE MCPlcReader ------------------------------
(* Two rows.  The first has one word and needs a compressor; the second has two words, *)
(* the low one first, and a history record ends in the middle of them.  Edits move the *)
(* second to other registers, with another type, order and bit, that of the first, or  *)
(* let it overlap the first.                                                           *)
EXTENDS PlcReader

MCTags == 1 .. 4
MCRow == <<1, 2, 2, 2>>
MCPlace == <<1, 2, 3, 0>>
MCAddress == <<10, 11, 13, 9>>
MCOffset == <<0, 1, 3, 0>>
MCDataType == <<"int16", "uint32", "int32", "uint16">>
MCWordOrder == <<"high_low", "low_high", "high_low", "high_low">>
MCBit == <<0, 1, 0, NoBit>>
MCCompressor == <<1, 0, 0, 0>>
MCDurations == [start |-> 2, stable |-> 2, stop |-> 2]
\* Values that need the sign and the high word, compressors that run, that do not yet and
\* that do not any more.
MCDraws == {[raw |-> -4, jitter |-> 2, elapsed |-> 3], [raw |-> 20, jitter |-> -2, elapsed |-> 1],
            [raw |-> 21, jitter |-> 1, elapsed |-> -1], [raw |-> 5, jitter |-> -2, elapsed |-> 4]}
=============================================================================
