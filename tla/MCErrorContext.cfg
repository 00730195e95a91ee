\* Nestings of up to three statements, two with a location and a Break.
CONSTANTS
  sIf = sIf
  sCall = sCall
  sBreak = sBreak
  NoStmt = NoStmt
  None = NoStmt
  Statements <- MCStatements
  Pos <- MCPos
  DetachedTags <- MCDetachedTags
  MaxDepth = 3
  Called = "get_kb_item"
  CallKinds <- MCCallKinds
SPECIFICATION Spec
\* An evaluation stops once its error has been reported.
CHECK_DEADLOCK FALSE
INVARIANTS
  TypeOK
  OriginKept
