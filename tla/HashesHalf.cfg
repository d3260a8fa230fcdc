SPECIFICATION MCSpec
CONSTANTS
  NChunks <- ChunkCounts
  Content <- Contents
  Block = 4
  LenBytes = 2
  Base = 16
  Byte <- Bytes
  MaxMessage = 9
  Vectors <- MCVectors
  Known <- MCKnown
INVARIANTS
  HalfAsDocumented
