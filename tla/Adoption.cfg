SPECIFICATION FairSpec
CONSTANTS
  first = first
  second = second
  kb = kb
  wiki = wiki
  articles = articles
  kbmd = kbmd
  config = config
  note = note
  template = template
  id1 = id1
  id2 = id2
  words = words
  draft = draft
  Root = Root
  NoOp = NoOp
  NoPlan = NoPlan
  Absent = Absent
  Directory = Directory
  Ops <- MCOps
  Dirs <- MCDirs
  Files <- MCFiles
  Notes = {note}
  Order <- MCOrder
  Parent <- MCParent
  Owned = {kb, kbmd}
  EmptyDirs = {articles}
  ReceiptPath = {kb}
  Contents <- MCContents
  Generated <- MCGenerated
  InitialNode <- MCInitialNode
  EditTo <- MCEditTo
  MaxFaults = 2
  MaxTrouble = 2
INVARIANTS
  TypeOK
  ResidueIsRecorded
  AdoptedIsWhole
PROPERTIES
  OnlyGeneratedIsTaken
  InterruptedAdoptionsComplete
