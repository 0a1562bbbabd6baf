SPECIFICATION Spec
CONSTANTS
  Hash <- MCHash
  Code <- MCCode
  Width = 8
  One = 4
  Base = 1000
  ByteLimit = 128
  ArgOrder = "right"
  Invocations <- MCInvocations
  MaxInstructions = 400
  MaxErrors = 2
  SemaCheck <- Checked
  ModuleIndex <- Indexed
  LowerProgram <- Lowered
  AstDump <- TreeText
  IrDump <- ModuleText
  QbeEmit <- Emitted
  QbeTakes <- Compiles
  AsTakes <- Assembles
  Executes <- Executed
INVARIANTS CodeIsAccepted CyclesReported StatusTellsTheTruth DiagnosticsReachTheUser OneReport
PROPERTIES FilesAsAsked RunsAsMeant FoldsLikeRun IndexHolds DumpsTellApart
