\* One small instance of each component.
CONSTANTS
    u1 = u1
    u2 = u2
    t1 = t1
    addr1 = addr1
    ADDR1 = ADDR1
    addr2 = addr2
    None = None
    Users = {u1, u2}
    Emails = {addr1, ADDR1, addr2}
    AddressesOf <- MCAddressesOf
    Lower <- MCLower
    Teams = {t1}
    Roles = {"owner", "admin"}
    Repos = {"home"}
    Owner <- MCOwner
    Paths = {}
    MaxRequests = 2
    Authors = {"u"}
    DraftIds = {1, 2}
    Contents = {"c1", "c2"}
    MaxWaits = 2
    Forms = {"rsvp"}
    RecordIds = {1, 2}
    MaxRecords = 1
    Retention = 1
    People = {"p"}
    Browsers = {1, 2}
    SessionIds = {1, 2}
    TokenIds = {1}
    Lifetime = 1
    MaxDate = 2
    Clients <- MCClients
    Kinds = {"submit", "signIn"}
    Limit <- MCLimit
    Capacity <- MCCapacity
    Window = 2
    Enabled = TRUE
    MaxBodies = 1
    MaxClock = 2
    Hooks = {1}
    OwnerOf <- MCOwnerOf
    Events = {"e"}
    MaxEvents = 2
    MaxPerHook = 1
    KeepFor = 1
    MaxHour = 2
    Pages = {"s"}
    Visitors <- MCVisitors
    ViewWindow = 2
    KeepViews = 3
    MaxMinute = 5
SPECIFICATION Spec
INVARIANTS
    ServerTypes
    ListedIsWhole
    RecordsHaveTarget
    AccountsAreWhole
    LimitersAreFair
    DeliveriesAreTrue
    ViewsCountOnce
PROPERTIES
    ImplementsDirectory
    MembershipIsGiven
    NothingGoesEarly
    DeadStaysDead
CHECK_DEADLOCK FALSE
