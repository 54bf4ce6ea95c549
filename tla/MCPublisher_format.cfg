SPECIFICATION Spec
CONSTANTS
    None = None
    reports = reports
    tasks = tasks
    events = events
    k1 = k1
    k2 = k2
    T = "Notification"
    Schema <- Schemas
    Call = {c1}
    Service = {reports, tasks}
    Config <- Configs
    Request <- Requests
    Queue = {reports, tasks}
    Exchange = {events}
    Connection = {k1, k2}
    ConnectionOf <- Connections
    Existing = {"undeclared", "ttl"}
    ExistingKind = {"undeclared", "topic"}
    Unserializable = {"Stream"}
    Faults = {}
INVARIANT RawPayloadsWork
CHECK_DEADLOCK FALSE
