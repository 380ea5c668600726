SPECIFICATION ControlSpec
CONSTANTS
    Schedules = {a, b}
    Cadences = {c1, c2}
    BadCadence = BadCadence
    NoTime = NoTime
    NoRow = NoRow
    PerTick = 1
    ScanLimit = 1
    MaxFaults = 1
    Monitored = {1}
    Interval = 3
    MaxAge = 10
    Handlers = {h1, h2}
    Browsers = {b1}
    Subjects = {u}
    States = {1, 2}
    SessionIds = {1, 2}
    FlowTTL = 1
    SessionTTL = 1
    MaxFlows = 1
    MaxSessions = 1
    Attempts = 2
    Nobody = Nobody
    Clients = {k1, k2, k3}
    Proxies = {p}
    Junk = Junk
    Burst = 1
    MaxClients = 2
    MaxHops = 3
    MaxDebt = 3
INVARIANTS
    FiresAreExact
    VerdictsAreTimely
    LoginsAreSound
    SessionsAreSound
    NoSecondBucket
PROPERTIES
    SchedulesAreKept
    RecordsConverge
