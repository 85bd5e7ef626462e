------------------------------- MODULE Links -------------------------------
(***************************************************************************)
(* Public links: POST /, DELETE /:shareId and GET /public/:token of        *)
(* routes/shares.ts, the two /public/:token routes of routes/view.ts and   *)
(* services/expiredShares.ts.  A link is a row of the shares table with    *)
(* shareType "public_link"; at most one exists for a repository and a path *)
(* because every handler looks the pair up before it inserts.              *)
(***************************************************************************)
EXTENDS Directory

CONSTANTS Linked,      \* bound: the repositories and paths that links are made for
          Domain,      \* what follows the @ of an address
          LowerDomain, \* a domain in lower case
          Passwords,   \* share passwords
          Requested,   \* the values of expiresIn that occur
          MaxTokens,   \* bound: public tokens drawn for one link
          MaxTime      \* bound: the clock, in minutes

Units == {"m", "h", "d", "w"}
Malformed == [value |-> 0, unit |-> "?"]
Absent == "absent"   \* the body has no password
Unsaid == [value |-> 0, unit |-> "absent"]   \* the body has no expiresIn

ASSUME LinksAssumption ==
    /\ Linked \subseteq Repos \X Paths
    /\ Domain \in [Emails -> DOMAIN LowerDomain]
    /\ \A d \in DOMAIN LowerDomain : LowerDomain[d] \in DOMAIN LowerDomain
    /\ None \notin DOMAIN LowerDomain \cup Passwords /\ Absent \notin Passwords
    /\ Requested \subseteq [value : Nat, unit : Units] \cup {Malformed}
    /\ MaxTokens \in Nat \ {0} /\ MaxTime \in Nat

VARIABLES
    link, \* link[l] for the pair l of a repository and a path, NoLink if there is none
    now   \* the clock

linkVars == <<link, now>>

Never == MaxTime + 1
NoLink == [creator |-> None]
Link == [creator : Users, token : 1 .. MaxTokens, access : {"public", "org"},
         domain : DOMAIN LowerDomain \cup {None}, password : Passwords \cup {None},
         expires : Nat]

Exists(l) == link[l] # NoLink

LinksInit ==
    /\ link = [l \in Linked |-> NoLink]
    /\ now = 0

----------------------------------------------------------------------------

Minutes == [m |-> 1, h |-> 60, d |-> 24 * 60, w |-> 7 * 24 * 60]

\* What parseDuration makes of expiresIn; its callers take 0 for no duration.
ParseDuration(input) == IF input = Malformed THEN 0 ELSE input.value * Minutes[input.unit]

\* The instant stored for a duration that was asked for.
ExpiryAfter(input) ==
    LET duration == ParseDuration(input)
    IN  IF duration = 0 THEN Never ELSE now + duration

\* Mutant of OrgDomain: the whole address is stored.
OrgAddress(u, access) == IF access = "org" THEN email[u] ELSE None

\* (An address without an @, which only the login of a development server takes,
\* has no domain, and its links none.)
OrgDomain(u, access) == IF access = "org" THEN Domain[email[u]] ELSE None

CreateLink(u, l, access, password, expiresIn) ==
    /\ MayShare(u, l[1])
    /\ ~Exists(l)
    /\ link' = [link EXCEPT ![l] =
         [creator |-> u, token |-> 1, access |-> access,
          domain |-> OrgDomain(u, access), password |-> password,
          expires |-> IF expiresIn = Unsaid THEN Never ELSE ExpiryAfter(expiresIn)]]
    /\ UNCHANGED <<directoryVars, now>>

\* Mutant of UpdateLink: an expiry that is taken away draws no token.
UpdateLinkForGood(u, l, access, password, expiresIn) ==
    LET old == link[l]
        newPassword == IF password = Absent THEN old.password ELSE password
        loosens == \/ old.access = "org" /\ access = "public"
                   \/ old.password # None /\ newPassword = None
    IN  /\ MayShare(u, l[1])
        /\ Exists(l) /\ old.creator = u
        /\ loosens => old.token < MaxTokens
        /\ link' = [link EXCEPT ![l] =
             [creator |-> u, token |-> IF loosens THEN old.token + 1 ELSE old.token,
              access |-> access, domain |-> OrgDomain(u, access), password |-> newPassword,
              expires |-> IF expiresIn = Unsaid THEN old.expires ELSE ExpiryAfter(expiresIn)]]
        /\ UNCHANGED <<directoryVars, now>>

\* A second POST for the pair updates the row; a key the body lacks leaves its
\* column alone.  Whatever loosens the link draws a new token.
UpdateLink(u, l, access, password, expiresIn) ==
    LET old == link[l]
        newPassword == IF password = Absent THEN old.password ELSE password
        newExpiry == IF expiresIn = Unsaid THEN old.expires ELSE ExpiryAfter(expiresIn)
        loosens == \/ old.access = "org" /\ access = "public"
                   \/ old.password # None /\ newPassword = None
                   \/ old.expires # Never /\ newExpiry = Never
    IN  /\ MayShare(u, l[1])
        /\ Exists(l) /\ old.creator = u
        /\ loosens => old.token < MaxTokens
        /\ link' = [link EXCEPT ![l] =
             [creator |-> u, token |-> IF loosens THEN old.token + 1 ELSE old.token,
              access |-> access, domain |-> OrgDomain(u, access),
              password |-> newPassword, expires |-> newExpiry]]
        /\ UNCHANGED <<directoryVars, now>>

\* The creator revokes, with or without access to the repository.
RevokeLink(u, l) ==
    /\ Exists(l) /\ link[l].creator = u
    /\ link' = [link EXCEPT ![l] = NoLink]
    /\ UNCHANGED <<directoryVars, now>>

\* sweepExpiredShares: rows without an expiry are left alone.
Swept(row) == row # NoLink /\ row.expires # Never /\ row.expires <= now

\* Mutant of Sweep: the links of an organisation are left out.
SweepPublic ==
    /\ \E l \in Linked : Swept(link[l]) /\ link[l].access = "public"
    /\ link' = [l \in Linked |->
                  IF Swept(link[l]) /\ link[l].access = "public" THEN NoLink ELSE link[l]]
    /\ UNCHANGED <<directoryVars, now>>

Sweep ==
    /\ \E l \in Linked : Swept(link[l])
    /\ link' = [l \in Linked |-> IF Swept(link[l]) THEN NoLink ELSE link[l]]
    /\ UNCHANGED <<directoryVars, now>>

Tick ==
    /\ now < MaxTime
    /\ now' = now + 1
    /\ UNCHANGED <<directoryVars, link>>

\* The rows of a team's repository go with the team.
CascadeLinks == link' = [l \in Linked |->
                  IF Owner[l[1]] \in teams \ teams' THEN NoLink ELSE link[l]]

LinkSteps(u, l) ==
    \/ \E access \in {"public", "org"}, password \in Passwords \cup {None},
          expiresIn \in Requested \cup {Unsaid} :
            CreateLink(u, l, access, password, expiresIn)
    \/ \E access \in {"public", "org"}, password \in Passwords \cup {None, Absent},
          expiresIn \in Requested \cup {Unsaid} :
            UpdateLink(u, l, access, password, expiresIn)
    \/ RevokeLink(u, l)

LinksNext ==
    \/ \E u \in Users, l \in Linked : LinkSteps(u, l)
    \/ Sweep
    \/ Tick
    \/ DirectoryNext /\ CascadeLinks /\ UNCHANGED now

LinksSpec == LinksInit /\ DirectoryInit /\ [][LinksNext]_<<directoryVars, linkVars>>

----------------------------------------------------------------------------
(* What a visitor of a link is answered: an account, or None, and the      *)
(* password in the header, or None.                                        *)

DomainOf(visitor) == IF email[visitor] = None THEN None ELSE Domain[email[visitor]]

\* The expiry test the two routes have in common.
Expired(row) == row.expires # Never /\ row.expires < now

PasswordFits(row, password) == row.password = None \/ row.password = password

\* Mutant of Described: the metadata needs no password.
DescribedToAll(row, visitor, password) ==
    /\ ~Expired(row)
    /\ row.access = "org" /\ row.domain # None =>
         visitor # None /\ DomainOf(visitor) = row.domain

\* GET /api/shares/public/:token describes the link in full.
Described(row, visitor, password) ==
    /\ ~Expired(row)
    /\ PasswordFits(row, password)
    /\ row.access = "org" /\ row.domain # None =>
         visitor # None /\ DomainOf(visitor) = row.domain

\* GET /view/public/:token goes on to the file.
Served(row, visitor, password) ==
    /\ ~Expired(row)
    /\ PasswordFits(row, password)
    /\ row.access = "org" /\ row.domain # None =>
         /\ visitor # None /\ DomainOf(visitor) # None
         /\ LowerDomain[DomainOf(visitor)] = LowerDomain[row.domain]

\* The answer is kept out of shared caches.
NoStore(row) == row.password # None \/ (row.access = "org" /\ row.domain # None)

----------------------------------------------------------------------------
(* Properties.                                                             *)

\* The variables keep their types.
LinksTypeOK ==
    /\ link \in [Linked -> Link \cup {NoLink}]
    /\ now \in 0 .. MaxTime

\* A URL that has been handed out does not lose what restricts it: as long as a
\* link keeps its token it stays restricted to an organisation, has a password
\* and an expiry if it had them (another domain, password or instant perhaps),
\* whatever sequence of updates its creator sends ("so a
\* previously-distributed restricted URL does not silently start resolving as
\* a fully public one").
TokensKeepRestrictions ==
    [][\A l \in Linked :
         Exists(l) /\ link'[l] # NoLink /\ link'[l].token = link[l].token =>
           /\ link[l].access = "org" => link'[l].access = "org"
           /\ link[l].password # None => link'[l].password # None
           /\ link[l].expires # Never => link'[l].expires # Never]_linkVars

\* Whoever the metadata route describes a link to can open it, and what an
\* anonymous visitor without a password can open is the only thing a cache
\* may keep: the two routes decide separately.
DescribedIsServed ==
    \A l \in Linked, visitor \in Users \cup {None}, pw \in Passwords \cup {None} :
       Exists(l) =>
         /\ Described(link[l], visitor, pw) => Served(link[l], visitor, pw)
         /\ Served(link[l], visitor, pw) /\ ~NoStore(link[l]) => Served(link[l], None, None)

\* An expired link does not stay: its row is deleted, or the creator gives it
\* another expiry.
ExpiredLinksGo ==
    \A l \in Linked :
      (Exists(l) /\ Swept(link[l])) ~> (~Exists(l) \/ ~Swept(link[l]))
=============================================================================
