SPECIFICATION Spec
CONSTANTS
  Rows = {1, 2}
  Tags <- MCTags
  Row <- MCRow
  Place <- MCPlace
  Address <- MCAddress
  Offset <- MCOffset
  DataType <- MCDataType
  WordOrder <- MCWordOrder
  Bit <- MCBit
  Compressor <- MCCompressor
  WordSize = 16
  LiveWords = 5
  HistoryWords = 2
  Durations <- MCDurations
  Circuits = {1, 2}
  Draws <- MCDraws
  MaxCount = 2
  MaxMoment = 1
  MaxEdits = 1
INVARIANT TypeOK
INVARIANT NeverTorn
INVARIANT ValueFromItsSource
INVARIANT ValidIfPlcSaysSo
INVARIANT HistoryNotMixed
INVARIANT ReadsBack
