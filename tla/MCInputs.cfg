SPECIFICATION Spec
CONSTANTS
  endpoint = endpoint
  a = a
  id1 = id1
  reg = reg
  auth1 = auth1
  auth2 = auth2
  tok1 = tok1
  tok2 = tok2
  use = use
  verifier = verifier
  Doors <- AllDoors
  Pages <- AllPages
  Batch = 2
  Configured = Configured
  Absent = Absent
  Calls <- SixCalls
  Loads <- ManyLoads
  CodeTtl = 2
  TokenTtl = 1
  MaxTime = 3
  Tokens <- StreamTokens
  MaxText = 7
  MaxChunk = 2
  MaxMessage = 2
  MaxBuffer = 4
  MaxOutput = 6
  Signals = {"SIGHUP", "SIGINT", "SIGTERM"}
INVARIANTS
  CorsIsExact
  CustomAsAsked
  CodeBuysOneToken
  AdmissionIsExact
  HonestIsServed
  ChunkingIsInvisible
  CodecIsExact
  SignalIsHeard
CHECK_DEADLOCK FALSE
