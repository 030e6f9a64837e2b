SPECIFICATION ClientSpec
CONSTANTS
  None = None
  Precision = 5
  HbarPlaces = 2
  MsPlaces = 1
  NanoPlaces = 2
  Amounts <- MCAmounts
  Hbars <- MCHbars
  TimeStrings <- MCTimeStrings
  Dates <- MCDates
  EarliestDate <- MCEarliestDate
  Paths <- MCPaths
  Pair = 2
  ByteStrings <- MCByteStrings
  Spellings <- MCSpellings
  GivenIds <- MCIds
  MaxUrlLength = 26
  Arguments <- MCArguments
  Numerals <- MCNumerals
  Parameters <- MCParameters
  WireNumbers <- MCWireNumbers
INVARIANTS
  AmountsAreKept
  InstantsAreKept
  ComparesChronologically
  SpellingsAreCanonical
  BytesAreKept
  RequestsSayWhatWasAsked
  ResultsSayWhatWasAnswered
CHECK_DEADLOCK FALSE
