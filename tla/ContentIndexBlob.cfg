SPECIFICATION IndexSpec
CONSTANTS
  Blob <- ThreeBytes
  ChunkSize = 2
  Crooked <- Stored
  advertTTL = 2
  MaxTime = 3
  MaxAdverts = 3
INVARIANTS ListedWasAnnounced LastAdvertCounts BlobIntact
CHECK_DEADLOCK FALSE
