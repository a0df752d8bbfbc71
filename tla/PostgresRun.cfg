SPECIFICATION Spec
CONSTANTS
  Openers = {p1, p2}
  NoOpener = NoOpener
  Server = p1
  LastVersion = 3
  MaxSchemaFaults = 1
  a = a
  b = b
  Doc = {d1}
  Content = {a, b}
  NoDoc = NoDoc
  IdentityOf <- Identities
  NoCorpus = NoCorpus
  Clients = {t1, t2, t3}
  Connections = {x, y}
  NoConn = NoConn
  NoOp = NoOp
  Jobs = {j1}
  Statuses = {"queued", "ready"}
  NoStatus = NoStatus
  MaxRevision = 2
  MaxCalls = 3
  MaxFaults = 1
CHECK_DEADLOCK FALSE
SYMMETRY Symmetry
INVARIANTS
    SchemaAgreed
    DatabaseInv
    PoolIsClean
    HybridOneState
PROPERTIES
    PostgresImplementsBackend
