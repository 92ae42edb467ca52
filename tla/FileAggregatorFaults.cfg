\* Every fault of the file system the code handles; two streams share a file.
SPECIFICATION Spec
CONSTANTS
  s1 = s1
  s2 = s2
  s3 = s3
  f1 = f1
  f2 = f2
  Streams <- MCStreams
  Files = {f1, f2}
  FileOf <- MCFileOf
  Faults = {"open", "shortWrite", "flush", "mkpath"}
  PartSize = 1
  BufferSize = 2
  MaxParts = 2
INVARIANTS
  TypeOK
  NothingElseLost
  WriteIsAhead
\* The application has ended.
CHECK_DEADLOCK FALSE
