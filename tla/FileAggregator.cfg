\* Files open; a write may come short.
SPECIFICATION FairSpec
CONSTANTS
  s1 = s1
  s2 = s2
  s3 = s3
  f1 = f1
  f2 = f2
  Streams <- MCTwoStreams
  Files = {f1, f2}
  FileOf <- MCTwoFileOf
  Faults = {"shortWrite"}
  PartSize = 2
  BufferSize = 2
  MaxParts = 2
PROPERTIES
  GetsOnDisk
  ComesToRest
\* The application has ended.
CHECK_DEADLOCK FALSE
