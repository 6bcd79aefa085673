SPECIFICATION FairSpec
CONSTANTS
  in = in
  zip = zip
  zip2 = zip2
  log = log
  csv = csv
  xml = xml
  table = table
  dummy = dummy
  q1 = q1
  q0 = q0
  main = main
  Items <- Archive
  Roots <- ArchiveRoots
  Children <- ArchiveChildren
  Flows <- TablesAndDummy
  Flow <- ArchiveFlow
  SqlAgents <- OneEach
  FlowOf <- OneEachFlow
  Unconnected <- DummyAgent
  Agent = main
  FileBytes <- InFiles
  MemBytes <- InMemory
  FileCapacity = 1
  MemCapacity = 2
  MaxCompletes = 2
  Handled <- Known
INVARIANTS
  QueueEmptyMeansIdle
  DoneMeansReported
PROPERTIES
  AgentEnds
CHECK_DEADLOCK FALSE
