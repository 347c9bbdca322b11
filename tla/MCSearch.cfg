CONSTANTS
  None = None
  Ids = {1, 2, 3}
  Words = {"a", "b"}
  Texts <- MCTexts
  Vectors = {"v"}
  LinkSets <- MCLinks
  MaxWrites = 3
  Candidates = 4
  MaxBallots = 3
  Limits = {1, 3}
  RERANK_DEPTH = 2
  EXACT_MAX = 3
  Twins <- MCTwins
  Seated = {"combmnz"}
  Olds <- MCOlds
  N = 5
  Weights = {1, 3}
  MaxLinks = 4
  PROPAGATION_ROUNDS = 20
  WL_ROUNDS = 3
  Energy = 1000
  Seeds <- MCSeeds
  Places = {1, 2, 3, 4}
  Worth <- MCWorth
  Trust <- MCTrust
  Recency <- MCRecency
  Name <- MCName
  Webs <- MCWebs
  Letters = {"a", "b"}
  WordLen = 4
  DEFAULT_LIMIT = 3
  TEXT_BUDGET = 5
  SHORT_EXACT = 3
INIT Init
NEXT Next
INVARIANTS
  SearchInv
  RecallInv
  CopiesAreTrue
  DominatorsLead
  CondorcetLeads
PROPERTY
  NoBetterMerged
CHECK_DEADLOCK FALSE
