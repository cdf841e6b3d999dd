\* Every integer, length and vector word, with bytes of three bits.
SPECIFICATION FairSpec
CONSTANTS
  Group = 4
  Numbers <- EveryNumber
  Lengths <- EveryLength
  Words <- EveryWord
  Native = TRUE
INVARIANTS
  TypeOK
  NumbersAndLengthsKept
  VectorsKept
PROPERTY
  AllRead
\* One integer is written and read.
CHECK_DEADLOCK FALSE
