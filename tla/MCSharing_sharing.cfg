\* Two people, one team and its repository, every kind of share; one request for
\* a path, one push, two logins.
CONSTANTS
    u1 = u1
    u2 = u2
    t1 = t1
    home = home
    addr1 = addr1
    addr2 = addr2
    addr3 = addr3
    None = None
    Users = {u1, u2}
    Emails = {addr1, addr2, addr3}
    AddressesOf <- MCAddressesOf
    Teams = {t1}
    Roles = {"owner", "admin", "viewer"}
    Repos = {home}
    Owner <- MCOwner
    Paths <- MCPaths
    Linked <- MCLinked
    Domain <- MCDomain
    LowerDomain <- MCLowerDomain
    Passwords = {"secret"}
    Requested <- MCRequested
    MaxTokens = 2
    MaxTime = 2
    Named = {addr2}
    Mails = {1}
    Asked <- MCAsked
    Slugs = {"site"}
    MaxEdits = 1
    Name <- MCName
    Written <- MCWritten
    Shared <- MCShared
    Upward = {"..", "..a"}
    Unfit = {"..", "..a", "a.."}
    Trees <- MCTrees
    Base <- MCBase
    MaxHops = 3
    MaxBlob = 2
    MaxTotal = 2
    Entries = {"x", "y"}
    Sizes = {1, 2}
    MaxBytes = 3
    MaxFiles = 2
    Attempts = 2
    WantedTeams = 1
    Servers = {"s1", "s2"}
    DefaultServer = "s1"
    LoginTokens = {"k", "l"}
    Accepts <- MCAccepts
    Terminals = {1, 2}
SPECIFICATION Spec
INVARIANTS
    SharingTypes
    DescribedIsServed
    AccessIsConsistent
    ProjectsHaveKeepers
    PathsStayInside
    ClientIsHonest
PROPERTIES
    TokensKeepRestrictions
    ClaimsNeverMove
    ExpiredLinksGo
CHECK_DEADLOCK FALSE
