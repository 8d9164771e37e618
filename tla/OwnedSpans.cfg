SPECIFICATION MCSpec
CONSTANTS
  x = x
  y = y
  z = z
  Identities = {x, y, z}
  MaxMappings = 2
  Batches <- MCBatches
  Failed = Failed
  Plans = {p, q}
  NoPlan = NoPlan
  Taken = Taken
  MaxInputs = 2
  MaxDetections = 4
  MaxText = 4
  MaxEncoded = 8
  Threads = {s, t}
  Digests = {a, b, c}
  Rotten = Rotten
  Limit = 2
  Idle = Idle
  PostalLengths <- MCPostalLengths
  PeriodSuffixes <- MCPeriodSuffixes
  AddressAbbreviations <- MCAddressAbbreviations
  Corpora <- OwnedCorpora
  Keys = {"k", "l"}
  KeyLength = 3
  Bodies = {2, 3}
  Skips = {0, 1}
  MaxMentions = 2
  Radix = 3
  EmptyLength = 5
  MaxLength = 40
  Pending = Pending
  Trees <- MCTrees
  Whole = "engine"
  ActiveSets <- MCActiveSets
  PrepareEvents <- MCPrepareEvents
  NoCall = NoCall
  Callers = {c1, c2, c3}
  PackageKeys = {k1, k2}
  Promises = {11, 12, 13, 14, 15, 16, 17}
  MaxEntries = 1
  None = None
  Parts = {"resolution"}
INVARIANT OwnedLettersAreRedacted
