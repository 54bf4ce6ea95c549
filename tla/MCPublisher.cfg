SPECIFICATION Spec
CONSTANTS
    None = None
    reports = reports
    tasks = tasks
    events = events
    k1 = k1
    k2 = k2
    T = "Report"
    Schema <- Schemas
    Call = {c1, c2}
    Service = {reports, tasks}
    Config <- Configs
    Request <- Requests
    Queue = {reports, tasks}
    Exchange = {events}
    Connection = {k1, k2}
    ConnectionOf <- Connections
    Existing = {"undeclared", "ttl"}
    ExistingKind = {"undeclared", "direct"}
    Unserializable = {"Stream"}
    Faults = {"connection", "restart"}
SYMMETRY CallSymmetry
INVARIANTS TypeOK DirectRouted DeclaredForGood OkAccounted ErrorsExplained Consumable
PROPERTY BoundRouted
CHECK_DEADLOCK FALSE
