SPECIFICATION MCSpec
CONSTANTS
  None = None
  person = person
  personLike = personLike
  ann = ann
  bob = bob
  annText = annText
  bobText = bobText
  tainted = tainted
  Labels <- MCLabels
  Texts <- MCTexts
  Originals <- MCOriginals
  Contaminated <- MCContaminated
  LookAlike <- MCLookAlike
  BadIdentities <- MCBadIdentities
  Lifecycles <- MCLifecycles
  Times <- MCTimes
  ForeignWires <- MCForeignWires
  MaxCount = 3
  MaxMappings = 2
  MaxInputs = 2
  MaxArchives = 1
  Widths <- MCWidths
  Reported <- MCReported
  Policies <- MCPolicies
  NoPolicy = NoPolicy
  MaxCandidates = 3
  Band = 3
  Window = 6
  Floor = 18
  Top = 20
  HotTexts <- MCHotTexts
  Rules <- MCRules
  EntityLabels = {"p", "q"}
  AllowedLabels = {"p"}
  Same = "same"
  Unit = 24
  Scores = {18}
  MaxHits = 2
  LineKinds <- MCLineKinds
  MaxLines = 3
  EntityScores = {88}
  Characters = {"A", "a", "w", "p", " ", ",", ".", "nl", "9"}
  MaxTail = 4
  LineWindow = 3
  Margin = 1
  Cap = 2
  MaxValue = 2
  LongTail = 2
  NameTail = 1
  Lists <- MCLists
  Foreign <- MCForeign
  Haystacks <- MCHaystacks
  Unset = Unset
  Terms <- MCTerms
  MaxTerms = 2
  Pages <- MCPages
  ValueReach <- MCValueReach
  Buckets = {"d", "n"}
  Articles <- MCArticles
  WordOrder <- MCWordOrder
  Forms = {"Ltd", "Inc"}
  Determiners = {"the"}
  Definers = {"aka"}
  CapitalWords = {"Acme", "Bo", "Ltd", "Inc"}
  RoleWords = {"Bo"}
  SearchWindow = 2
  MaxEntities = 2
  Exchanged <- MCExchanged
  Reports <- MCReports
  Mappings <- MCMappings
  MaxDetected = 2
CHECK_DEADLOCK FALSE
INVARIANTS
  TypeOK
  OnePseudonymPerIdentity
  CountersCoverAllocations
  IssuedTextsRestore
  ExportsReload
  OnlyIssuedIsKept
  RulesAreExact
  SearchesAreExact
PROPERTIES
  ImplementsRegister
