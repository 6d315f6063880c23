SPECIFICATION FairSpec
CONSTANTS
  Runs = {r1, r2}
  e1 = e1
  e2 = e2
  fa = fa
  fb = fb
  fc = fc
  hx = hx
  hy = hy
  Legacy = Legacy
  NoRun = NoRun
  NoFile = NoFile
  Versions = {1, 2}
  MaxVersion = 2
  MaxFacts = 2
  Hashes = {hx, hy}
  Evidence <- TwoEvidence
  Files <- ThreeFiles
  FilesOf <- FilesOfTwo
  HashOf <- HashOfThree
  FactCount <- CountWithEmpty
  Readable <- ReadableByTwo
  Stranded <- StrandedTwo
INVARIANTS OneReading NeverDoneUnread ReparseNeverHides SuccessMeansIngested
PROPERTIES CompletedIsFinal ImplementsOnce EveryRunEnds
