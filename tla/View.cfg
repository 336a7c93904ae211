SPECIFICATION Spec
CONSTANTS
  Pages = {p1, p2}
  NoPage = none
  MaxRedirects = 2
  Scripts = 1
  MaxLoads = 3
  MaxCalls = 3
  MaxWorkers = 1
INVARIANTS EntryIsTheDocumentUnlessNested
PROPERTIES WorkersSpeakToTheirDocument FormsAreNavigated
