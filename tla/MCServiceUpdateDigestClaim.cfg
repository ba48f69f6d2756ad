SPECIFICATION Spec
CONSTANTS
  None = None
  Services <- MCServices
  Images <- MCImages
  Digests = {"d1", "d2"}
  ComposeFiles <- MCComposeFiles
  Containers <- MCContainers
  Tags <- MCTags
  ActiveProfiles = {}
  Order <- MCOrder
  Known <- MCServices
  LocalBuilds = {}
  Answers = {"digest", "challenge", "SSRF_BLOCKED", "REGISTRY_UNAVAILABLE"}
  MaxLookups = 2
  MaxNetOps = 4
  Capacity = 1
  PositiveTtl = 1
  NegativeTtl = 0
  Deadline = 2
  MaxClock = 2
  MaxEvents = 1
CHECK_DEADLOCK FALSE
PROPERTY ApprovedDigestRuns
