\* Both programs, with every document in both formats.
SPECIFICATION FrontSpec
CONSTANTS
  IntegerTexts = {"5"}
  DocumentNodes <- MCNodes
  Documents <- MCDocuments
INVARIANTS
  ConsoleTypeOK
  FormatsAgree
  FinishIsSeen
  OneDeletion
PROPERTIES
  InterruptEnds
\* A session that nobody ends, and a program that has ended.
CHECK_DEADLOCK FALSE
