\* Every job ends after a few steps.
SPECIFICATION Spec
CONSTANTS
  Radix = 2
  defaultMaxRecordBytes = 2
  defaultMaxSkew = 2
  Jobs <- AllJobs
INVARIANTS  NamesReadBack ChunksCoverBody PublishedIsAdmitted
CHECK_DEADLOCK FALSE
