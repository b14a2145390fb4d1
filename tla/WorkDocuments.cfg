SPECIFICATION ServeSpec
CONSTANTS
  Requests = {d1, d2}
  ByWork = {d2}
  Formats = {"tex", "pdf"}
  NoJob = NoJob
  MaxCrashes = 1
  Content = content
  Document = document
  Processes <- Services
  Main <- ServiceMain
CHECK_DEADLOCK FALSE
INVARIANTS WorkDocumentsInv DownloadsAreWhole
PROPERTIES StoredJobIsFinal RequestsEnd
