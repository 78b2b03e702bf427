SPECIFICATION EdgesSpec
CONSTANTS
  Texts <- EdgeTexts
  MaxBytes = 5
  MaxEntries = 1
  MaxEdits = 1
  MaxOutput = 1
  MaxWritten = 2
  Sessions = {s1, s2}
  Chunks <- EdgeChunks
  Limits = {3}
  MaxUnread = 6
  Budget = 5
  MaxFed = 3
  MaxEvent = 4
  MaxCards = 2
  CandidateLimit = 3
  FileCalls <- FileInvocations
  ProcessCalls <- ProcessInvocations
  Requests <- ProviderRequests
  Queries <- SearchQueries
SYMMETRY Symmetry
INVARIANTS
  ToolsTypeOK
  ToolsHonest
  AnswersHonest
PROPERTIES
  FileHonest
CHECK_DEADLOCK FALSE
