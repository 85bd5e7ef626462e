--------------------------- MODULE Sharing_proofs ---------------------------
(***************************************************************************)
(* What holds of links, shares and projects for any number of people,      *)
(* teams, repositories, paths and rows, whatever Directory does meanwhile  *)
(* (Teams_proofs has the facts about Directory and shows that the code of  *)
(* teams and sign-in does nothing else), of the client for any directory,  *)
(* limit and number of terminals, of the paths below shares in any file    *)
(* system, and of all of these together.                                   *)
(***************************************************************************)
EXTENDS MCSharing, Teams_proofs, Selection_proofs

LEMMA DirectoryInitTables == DirectoryInit => TablesInv
<1> SUFFICES ASSUME DirectoryInit PROVE TablesInv
  OBVIOUS
<1>1. email \in [Users -> Emails \cup {None}] /\ teams \subseteq Teams
      /\ role \in [Teams -> [Users -> Roles \cup {None}]]
  BY DEF DirectoryInit, Outsiders
<1>2. MembersInv /\ OwnersInv /\ \A u \in Registered : email[u] \in AddressesOf[u]
  BY DEF DirectoryInit, Outsiders, MembersInv, OwnersInv, Registered
<1> QED
  BY <1>1, <1>2 DEF TablesInv

LEMMA AccountsHaveAddresses ==
    ASSUME TablesInv, NEW u \in Users, u \in Registered
    PROVE  email[u] \in Emails
  BY DEF TablesInv, Registered

-----------------------------------------------------------------------------
(* Projects.                                                                 *)

\* A project's owner is there: a team that exists or a person with an account.
OwnerStays ==
    \A o \in Owners, s \in Slugs : project[o][s] # None => o \in teams \cup Registered

ProjectsInv == TablesInv /\ ProjectsTypeOK /\ OwnerStays

LEMMA ProjectsInitInv == ProjectsInit /\ DirectoryInit => ProjectsInv
<1> SUFFICES ASSUME ProjectsInit, DirectoryInit PROVE ProjectsInv
  OBVIOUS
<1>1. ProjectsTypeOK /\ OwnerStays
  BY DEF ProjectsInit, ProjectsTypeOK, OwnerStays, Owners
<1> QED
  BY <1>1, DirectoryInitTables DEF ProjectsInv

LEMMA ProjectsInvStep == ProjectsInv /\ [ProjectsNext]_<<directoryVars, projectVars>> => ProjectsInv'
<1> SUFFICES ASSUME ProjectsInv, [ProjectsNext]_<<directoryVars, projectVars>> PROVE ProjectsInv'
  OBVIOUS
<1>0. TablesInv /\ ProjectsTypeOK /\ OwnerStays
  BY DEF ProjectsInv
<1>1. [DirectoryNext]_directoryVars
  BY DEF ProjectsNext, CreateProject, BeginEdit, DeleteProject, EndEdit
<1>2. TablesInv' /\ Registered \subseteq Registered'
  BY <1>0, <1>1, TablesKept
<1>3. ASSUME UNCHANGED directoryVars PROVE UNCHANGED <<teams, Registered>>
  BY <1>3 DEF directoryVars, Registered
<1>4. ASSUME NEW u \in Users, NEW o \in Owners, NEW s \in Slugs, CreateProject(u, o, s) PROVE ProjectsInv'
  <2>1. o \in teams \cup Registered
    BY <1>0, <1>4 DEF CreateProject, TablesInv, MembersInv, IsMember
  <2>2. ProjectsTypeOK'
    BY <1>0, <1>4 DEF CreateProject, ProjectsTypeOK
  <2>3. \A p \in Owners, x \in Slugs : project'[p][x] # None => project[p][x] # None \/ p = o
    BY <1>0, <1>4 DEF CreateProject, ProjectsTypeOK
  <2>4. UNCHANGED teams
    BY <1>4 DEF CreateProject, directoryVars
  <2> QED
    BY <1>0, <1>2, <2>1, <2>2, <2>3, <2>4 DEF ProjectsInv, OwnerStays
<1>5. ASSUME NEW u \in Users, NEW o \in Owners, NEW s \in Slugs, DeleteProject(u, o, s) PROVE ProjectsInv'
  <2>1. ProjectsTypeOK' /\ \A p \in Owners, x \in Slugs : project'[p][x] # None => project[p][x] # None
    BY <1>0, <1>5 DEF DeleteProject, ProjectsTypeOK
  <2>2. UNCHANGED teams
    BY <1>5 DEF DeleteProject, directoryVars
  <2> QED
    BY <1>0, <1>2, <2>1, <2>2 DEF ProjectsInv, OwnerStays
<1>6. ASSUME UNCHANGED <<directoryVars, project>>, edits' \subseteq Users \X Owners \X Slugs PROVE ProjectsInv'
  BY <1>0, <1>2, <1>3, <1>6 DEF ProjectsInv, OwnerStays, ProjectsTypeOK
<1>7. ASSUME NEW u \in Users, NEW o \in Owners, NEW s \in Slugs, BeginEdit(u, o, s) PROVE ProjectsInv'
  BY <1>0, <1>6, <1>7 DEF BeginEdit, ProjectsTypeOK
<1>8. ASSUME NEW edit \in edits, EndEdit(edit) PROVE ProjectsInv'
  BY <1>0, <1>6, <1>8 DEF EndEdit, ProjectsTypeOK
<1>9. CASE DirectoryNext /\ CascadeProjects /\ UNCHANGED edits
  <2>1. \A o \in Owners : project'[o] = IF o \in teams \ teams' THEN [s \in Slugs |-> None] ELSE project[o]
    BY <1>9 DEF CascadeProjects
  <2>2. ProjectsTypeOK'
    BY <1>0, <1>9, <2>1 DEF ProjectsTypeOK, CascadeProjects
  <2>3. OwnerStays'
    BY <1>0, <1>2, <2>1 DEF OwnerStays
  <2> QED
    BY <1>2, <2>2, <2>3 DEF ProjectsInv
<1>10. CASE UNCHANGED <<directoryVars, projectVars>>
  BY <1>0, <1>6, <1>10 DEF projectVars, ProjectsTypeOK
<1> QED
  BY <1>4, <1>5, <1>7, <1>8, <1>9, <1>10 DEF ProjectsNext

LEMMA KeepersFollow == ProjectsInv => ProjectsHaveKeepers
<1> SUFFICES ASSUME ProjectsInv, NEW o \in Owners, NEW s \in Slugs, project[o][s] # None
             PROVE  \E u \in Registered : s \in Listed(u, o) /\ MayDelete(u, o)
  BY DEF ProjectsHaveKeepers
<1>0. TablesInv /\ o \in teams \cup Registered
  BY DEF ProjectsInv, OwnerStays
<1>1. CASE o \in Teams
  <2>1. o \in teams
    BY <1>0, <1>1, DirectoryAssumption DEF Registered
  <2>2. PICK u \in Users : role[o][u] = "owner"
    BY <1>0, <2>1 DEF TablesInv, OwnersInv
  <2>3. u \in Registered /\ IsMember(o, u)
    BY <1>0, <1>1, <2>2, NoneIsNoRole DEF TablesInv, MembersInv, IsMember
  <2> QED
    BY <1>1, <2>2, <2>3 DEF Listed, MayDelete
<1>2. CASE o \notin Teams
  <2>1. o \in Registered
    BY <1>0, <1>2 DEF TablesInv
  <2> QED
    BY <1>2, <2>1 DEF Listed, MayDelete
<1> QED
  BY <1>1, <1>2

\* Every project has someone who finds it in a list and may delete it.
THEOREM ProjectsKept == ProjectsSpec => []ProjectsHaveKeepers
<1>1. ProjectsInit /\ DirectoryInit => ProjectsInv
  BY ProjectsInitInv
<1>2. ProjectsInv /\ [ProjectsNext]_<<directoryVars, projectVars>> => ProjectsInv'
  BY ProjectsInvStep
<1>3. ProjectsInv => ProjectsHaveKeepers
  BY KeepersFollow
<1> QED
  BY <1>1, <1>2, <1>3, PTL DEF ProjectsSpec

-----------------------------------------------------------------------------
(* Links.                                                                    *)

LinksInv == TablesInv /\ LinksTypeOK

LEMMA LinkCases ==
    ASSUME LinksTypeOK, NEW l \in Linked, Exists(l)
    PROVE  link[l] \in Link
  BY DEF LinksTypeOK, Exists

\* An expiry that is stored is an instant.
LEMMA ExpiryType ==
    ASSUME now \in Nat, NEW input \in Requested
    PROVE  ExpiryAfter(input) \in Nat
<1>1. ParseDuration(input) \in Nat
  <2>1. CASE input = Malformed
    BY <2>1 DEF ParseDuration
  <2>2. CASE input # Malformed
    <3>1. input.value \in Nat /\ input.unit \in Units
      BY <2>2, LinksAssumption
    <3>2. Minutes[input.unit] \in Nat
      BY <3>1 DEF Units, Minutes
    <3>3. input.value * Minutes[input.unit] \in Nat
      BY <3>1, <3>2
    <3> QED
      BY <2>2, <3>3 DEF ParseDuration
  <2> QED
    BY <2>1, <2>2
<1> QED
  BY <1>1, LinksAssumption DEF ExpiryAfter, Never

\* What CreateLink and UpdateLink store is a row.
LEMMA LinkRowType ==
    ASSUME TablesInv, NEW u \in Users, u \in Registered, NEW tok \in 1 .. MaxTokens,
           NEW access \in {"public", "org"}, NEW pw \in Passwords \cup {None}, NEW exp \in Nat
    PROVE  [creator |-> u, token |-> tok, access |-> access, domain |-> OrgDomain(u, access),
            password |-> pw, expires |-> exp] \in Link
<1>1. OrgDomain(u, access) \in DOMAIN LowerDomain \cup {None}
  BY AccountsHaveAddresses, LinksAssumption DEF OrgDomain
<1> QED
  BY <1>1 DEF Link

\* The row after an update: only what is said changes, and the token stays only
\* if no restriction goes.
LEMMA UpdatedLink ==
    ASSUME LinksInv, NEW u \in Users, NEW l \in Linked, NEW access \in {"public", "org"},
           NEW pw \in Passwords \cup {None, Absent}, NEW input \in Requested \cup {Unsaid},
           UpdateLink(u, l, access, pw, input)
    PROVE  /\ link'[l] \in Link
           /\ link' = [link EXCEPT ![l] = link'[l]]
           /\ link'[l].token = link[l].token =>
                /\ link[l].access = "org" => link'[l].access = "org"
                /\ link[l].password # None => link'[l].password # None
                /\ link[l].expires # Never => link'[l].expires # Never
<1> DEFINE old == link[l]
           newPassword == IF pw = Absent THEN old.password ELSE pw
           newExpiry == IF input = Unsaid THEN old.expires ELSE ExpiryAfter(input)
           loosens == \/ old.access = "org" /\ access = "public"
                      \/ old.password # None /\ newPassword = None
                      \/ old.expires # Never /\ newExpiry = Never
           tok == IF loosens THEN old.token + 1 ELSE old.token
           row == [creator |-> u, token |-> tok, access |-> access, domain |-> OrgDomain(u, access),
                   password |-> newPassword, expires |-> newExpiry]
<1>0. TablesInv /\ LinksTypeOK
  BY DEF LinksInv
<1>1. /\ u \in Registered /\ Exists(l) /\ (loosens => old.token < MaxTokens)
      /\ link' = [link EXCEPT ![l] = row]
  BY DEF UpdateLink, MayShare
<1>2. old \in Link
  BY <1>0, <1>1, LinkCases
<1>3. old.token \in 1 .. MaxTokens /\ old.password \in Passwords \cup {None} /\ old.expires \in Nat
      /\ old.access \in {"public", "org"}
  BY <1>2 DEF Link
<1>4. tok \in 1 .. MaxTokens
  BY <1>1, <1>3, LinksAssumption
<1>5. newPassword \in Passwords \cup {None}
  BY <1>3
<1>6. newExpiry \in Nat
  BY <1>0, <1>3, ExpiryType, LinksAssumption DEF LinksTypeOK
<1>7. row \in Link
  BY <1>0, <1>1, <1>4, <1>5, <1>6, LinkRowType
<1>8. link'[l] = row
  BY <1>0, <1>1 DEF LinksTypeOK
<1>9. tok = old.token => ~loosens
  BY <1>3
<1>10. row.token = tok /\ row.access = access /\ row.password = newPassword /\ row.expires = newExpiry
  OBVIOUS
<1> HIDE DEF row, tok
<1>11. row.token = old.token =>
         /\ old.access = "org" => row.access = "org"
         /\ old.password # None => row.password # None
         /\ old.expires # Never => row.expires # Never
  BY <1>3, <1>9, <1>10
<1> QED
  BY <1>1, <1>7, <1>8, <1>11

LEMMA CreatedLink ==
    ASSUME LinksInv, NEW u \in Users, NEW l \in Linked, NEW access \in {"public", "org"},
           NEW pw \in Passwords \cup {None}, NEW input \in Requested \cup {Unsaid},
           CreateLink(u, l, access, pw, input)
    PROVE  /\ link'[l] \in Link
           /\ link' = [link EXCEPT ![l] = link'[l]]
<1> DEFINE exp == IF input = Unsaid THEN Never ELSE ExpiryAfter(input)
           row == [creator |-> u, token |-> 1, access |-> access, domain |-> OrgDomain(u, access),
                   password |-> pw, expires |-> exp]
<1>0. TablesInv /\ LinksTypeOK
  BY DEF LinksInv
<1>1. u \in Registered /\ link' = [link EXCEPT ![l] = row]
  BY DEF CreateLink, MayShare
<1>2. exp \in Nat
  BY <1>0, ExpiryType, LinksAssumption DEF LinksTypeOK, Never
<1>3. 1 \in 1 .. MaxTokens
  BY LinksAssumption
<1>4. row \in Link
  BY <1>0, <1>1, <1>2, <1>3, LinkRowType
<1>5. link'[l] = row
  BY <1>0, <1>1 DEF LinksTypeOK
<1> QED
  BY <1>1, <1>4, <1>5

\* What a step of the links does to each row: a restriction goes with the row
\* or with the token.
LinkStays(l) ==
    Exists(l) /\ link'[l] # NoLink /\ link'[l].token = link[l].token =>
      /\ link[l].access = "org" => link'[l].access = "org"
      /\ link[l].password # None => link'[l].password # None
      /\ link[l].expires # Never => link'[l].expires # Never

LEMMA LinksInitInv == LinksInit /\ DirectoryInit => LinksInv
  BY DirectoryInitTables, LinksAssumption DEF LinksInit, LinksInv, LinksTypeOK

LEMMA LinksStep ==
    ASSUME LinksInv, [LinksNext]_<<directoryVars, linkVars>>
    PROVE  LinksInv' /\ \A l \in Linked : LinkStays(l)
<1>0. TablesInv /\ LinksTypeOK
  BY DEF LinksInv
<1>1. [DirectoryNext]_directoryVars
  BY DEF LinksNext, LinkSteps, CreateLink, UpdateLink, RevokeLink, Sweep, Tick
<1>2. TablesInv'
  BY <1>0, <1>1, TablesKept
<1>3. ASSUME \A l \in Linked : link'[l] \in {link[l], NoLink}, now' \in 0 .. MaxTime,
             DOMAIN link' = Linked, link' = [l \in Linked |-> link'[l]]
      PROVE  LinksInv' /\ \A l \in Linked : LinkStays(l)
  BY <1>0, <1>2, <1>3 DEF LinksInv, LinksTypeOK, LinkStays
<1>4. ASSUME NEW u \in Users, NEW l \in Linked, LinkSteps(u, l)
      PROVE  LinksInv' /\ \A k \in Linked : LinkStays(k)
  <2>1. ASSUME NEW access \in {"public", "org"}, NEW pw \in Passwords \cup {None},
               NEW input \in Requested \cup {Unsaid}, CreateLink(u, l, access, pw, input)
        PROVE  LinksInv' /\ \A k \in Linked : LinkStays(k)
    <3>1. UNCHANGED now /\ ~Exists(l)
      BY <2>1 DEF CreateLink
    <3> QED
      BY <1>0, <1>2, <2>1, <3>1, CreatedLink DEF LinksInv, LinksTypeOK, LinkStays
  <2>2. ASSUME NEW access \in {"public", "org"}, NEW pw \in Passwords \cup {None, Absent},
               NEW input \in Requested \cup {Unsaid}, UpdateLink(u, l, access, pw, input)
        PROVE  LinksInv' /\ \A k \in Linked : LinkStays(k)
    <3>1. UNCHANGED now
      BY <2>2 DEF UpdateLink
    <3> QED
      BY <1>0, <1>2, <2>2, <3>1, UpdatedLink DEF LinksInv, LinksTypeOK, LinkStays
  <2>3. CASE RevokeLink(u, l)
    BY <1>0, <1>3, <2>3 DEF RevokeLink, LinksTypeOK
  <2> QED
    BY <1>4, <2>1, <2>2, <2>3 DEF LinkSteps
<1>5. CASE Sweep
  BY <1>0, <1>3, <1>5 DEF Sweep, LinksTypeOK
<1>6. CASE Tick
  BY <1>0, <1>3, <1>6, LinksAssumption DEF Tick, LinksTypeOK
<1>7. CASE DirectoryNext /\ CascadeLinks /\ UNCHANGED now
  BY <1>0, <1>3, <1>7 DEF CascadeLinks, LinksTypeOK
<1>8. CASE UNCHANGED <<directoryVars, linkVars>>
  BY <1>0, <1>3, <1>8 DEF linkVars, LinksTypeOK
<1> QED
  BY <1>4, <1>5, <1>6, <1>7, <1>8 DEF LinksNext

\* The variables of the links keep their types.
THEOREM LinkTypes == LinksSpec => []LinksTypeOK
<1>1. LinksInit /\ DirectoryInit => LinksInv
  BY LinksInitInv
<1>2. LinksInv /\ [LinksNext]_<<directoryVars, linkVars>> => LinksInv'
  BY LinksStep
<1>3. LinksInv => LinksTypeOK
  BY DEF LinksInv
<1> QED
  BY <1>1, <1>2, <1>3, PTL DEF LinksSpec

\* As long as a link keeps its token it stays restricted to an organisation, by
\* a password and in time if it was, whatever its creator sends.
THEOREM RestrictionsStay == LinksSpec => TokensKeepRestrictions
<1>1. LinksInit /\ DirectoryInit => LinksInv
  BY LinksInitInv
<1>2. LinksInv /\ [LinksNext]_<<directoryVars, linkVars>> => LinksInv'
  BY LinksStep
<1>3. LinksInv /\ [LinksNext]_<<directoryVars, linkVars>> =>
        [\A l \in Linked :
           Exists(l) /\ link'[l] # NoLink /\ link'[l].token = link[l].token =>
             /\ link[l].access = "org" => link'[l].access = "org"
             /\ link[l].password # None => link'[l].password # None
             /\ link[l].expires # Never => link'[l].expires # Never]_linkVars
  BY LinksStep DEF LinkStays
<1> QED
  BY <1>1, <1>2, <1>3, PTL DEF LinksSpec, TokensKeepRestrictions

LEMMA RoutesDecideAlike == DescribedIsServed
  BY DEF DescribedIsServed, Described, Served, NoStore, Expired, PasswordFits

\* The two routes agree for every row, every visitor and every password.
THEOREM RoutesAgree == LinksSpec => []DescribedIsServed
  BY RoutesDecideAlike, PTL

-----------------------------------------------------------------------------
(* Shares with teams and addresses.                                          *)

GrantsInv == TablesInv /\ GrantsTypeOK

LEMMA MailCases ==
    ASSUME GrantsTypeOK, NEW i \in Mails
    PROVE  mail[i] # NoShare => mail[i] \in MailShare
  BY DEF GrantsTypeOK

LEMMA NoShareIsNone ==
    /\ NoShare \notin TeamShare /\ NoShare \notin MailShare /\ NoShare.creator = None
    /\ \A u \in Users : u # None
<1>1. \A u \in Users : u # None
  BY DirectoryAssumption
<1> QED
  BY <1>1 DEF NoShare, TeamShare, MailShare

\* Of a recipient row that stays, the account it names stays.
ClaimStays(i) ==
    \A e \in Emails :
      mail[i] # NoShare /\ mail'[i] # NoShare /\ mail[i].to[e].user # None =>
        mail'[i].to[e].user = mail[i].to[e].user

LEMMA CreatedMail ==
    ASSUME GrantsInv, NEW i \in Mails, NEW u \in Users, NEW r \in Repos, NEW p \in Paths,
           NEW permission \in Permissions, NEW stored \in SUBSET Named,
           CreateMailShare(i, u, r, p, permission, stored)
    PROVE  mail' \in [Mails -> MailShare \cup {NoShare}] /\ \A j \in Mails : ClaimStays(j)
<1> DEFINE to == [e \in Emails |->
                    IF e \in stored THEN [user |-> AccountOf(e), accepted |-> FALSE, listed |-> TRUE]
                    ELSE NoRecipient]
           row == [creator |-> u, repo |-> r, path |-> p, permission |-> permission, to |-> to]
<1>1. mail[i] = NoShare /\ mail' = [mail EXCEPT ![i] = row]
  BY DEF CreateMailShare
<1>2. \A e \in Emails : AccountOf(e) \in Users \cup {None}
  BY DEF AccountOf, Free
<1>3. to \in [Emails -> Recipient]
  BY <1>2 DEF Recipient, NoRecipient
<1>4. row \in MailShare
  BY <1>3 DEF MailShare
<1> QED
  BY <1>1, <1>4 DEF GrantsInv, GrantsTypeOK, ClaimStays

LEMMA AcceptedMail ==
    ASSUME GrantsInv, NEW i \in Mails, NEW u \in Users, AcceptShare(i, u)
    PROVE  mail' \in [Mails -> MailShare \cup {NoShare}] /\ \A j \in Mails : ClaimStays(j)
<1> DEFINE e == email[u]
           row == [mail[i] EXCEPT !.to[e] = [user |-> u, accepted |-> TRUE, listed |-> TRUE]]
<1>1. /\ e \in Emails /\ mail[i].to[e].user \in {None, u}
      /\ mail[i] # NoShare /\ mail' = [mail EXCEPT ![i] = row]
  BY AccountsHaveAddresses DEF AcceptShare, GrantsInv
<1>2. mail[i] \in MailShare
  BY <1>1, MailCases DEF GrantsInv
<1>3. [user |-> u, accepted |-> TRUE, listed |-> TRUE] \in Recipient
  BY DEF Recipient
<1>4. /\ row.to \in [Emails -> Recipient]
      /\ row.to[e] = [user |-> u, accepted |-> TRUE, listed |-> TRUE]
      /\ \A x \in Emails \ {e} : row.to[x] = mail[i].to[x]
  BY <1>1, <1>2, <1>3 DEF MailShare
<1>5. row \in MailShare
  BY <1>2, <1>4 DEF MailShare
<1>6. mail'[i] = row /\ \A j \in Mails \ {i} : mail'[j] = mail[j]
  BY <1>1 DEF GrantsInv, GrantsTypeOK
<1>7. mail' \in [Mails -> MailShare \cup {NoShare}]
  BY <1>1, <1>5 DEF GrantsInv, GrantsTypeOK
<1>8. ClaimStays(i)
  BY <1>1, <1>4, <1>6 DEF ClaimStays
<1> QED
  BY <1>6, <1>7, <1>8 DEF ClaimStays

LEMMA GrantsInitInv == GrantsInit /\ DirectoryInit => GrantsInv
  BY DirectoryInitTables DEF GrantsInit, GrantsInv, GrantsTypeOK

LEMMA GrantsStep ==
    ASSUME GrantsInv, [GrantsNext]_<<directoryVars, grantVars>>
    PROVE  GrantsInv' /\ \A i \in Mails : ClaimStays(i)
<1>0. TablesInv /\ GrantsTypeOK
  BY DEF GrantsInv
<1>1. [DirectoryNext]_directoryVars
  <2>1. ASSUME NEW u \in Users, NEW r \in Repos, NEW p \in Paths, GrantSteps(u, r, p)
        PROVE  UNCHANGED directoryVars
    BY <2>1 DEF GrantSteps, PutTeamShare, RevokeTeamShare, CreateMailShare, RevokeTarget
  <2>2. ASSUME NEW i \in Mails, NEW u \in Users, AcceptShare(i, u) \/ RevokeMail(i, u)
        PROVE  UNCHANGED directoryVars
    BY <2>2 DEF AcceptShare, RevokeMail
  <2> QED
    BY <2>1, <2>2 DEF GrantsNext
<1>2. TablesInv'
  BY <1>0, <1>1, TablesKept
\* Team shares change and mail shares at most go, or the other way round.
<1>3. ASSUME teamShare' \in [Repos -> [Paths -> [Teams -> TeamShare \cup {NoShare}]]],
             mail' \in [Mails -> MailShare \cup {NoShare}],
             \A i \in Mails : mail'[i] \in {mail[i], NoShare}
      PROVE  GrantsInv' /\ \A i \in Mails : ClaimStays(i)
  BY <1>2, <1>3 DEF GrantsInv, GrantsTypeOK, ClaimStays
<1>4. ASSUME NEW u \in Users, NEW r \in Repos, NEW p \in Paths, GrantSteps(u, r, p)
      PROVE  GrantsInv' /\ \A i \in Mails : ClaimStays(i)
  <2>1. ASSUME NEW t \in Teams, NEW permission \in Permissions, PutTeamShare(u, r, p, t, permission)
        PROVE  GrantsInv' /\ \A i \in Mails : ClaimStays(i)
    <3>1. [creator |-> u, permission |-> permission] \in TeamShare
      BY DEF TeamShare
    <3> QED
      BY <1>0, <1>3, <2>1, <3>1 DEF PutTeamShare, GrantsTypeOK
  <2>2. ASSUME NEW t \in Teams, RevokeTeamShare(u, r, p, t)
        PROVE  GrantsInv' /\ \A i \in Mails : ClaimStays(i)
    BY <1>0, <1>3, <2>2 DEF RevokeTeamShare, GrantsTypeOK
  <2>3. ASSUME NEW i \in Mails, NEW permission \in Permissions, NEW stored \in SUBSET Named,
               CreateMailShare(i, u, r, p, permission, stored)
        PROVE  GrantsInv' /\ \A j \in Mails : ClaimStays(j)
    <3>1. UNCHANGED teamShare
      BY <2>3 DEF CreateMailShare
    <3> QED
      BY <1>0, <1>2, <2>3, <3>1, CreatedMail DEF GrantsInv, GrantsTypeOK
  <2>4. CASE RevokeTarget(u, r, p)
    BY <1>0, <1>3, <2>4 DEF RevokeTarget, GrantsTypeOK
  <2> QED
    BY <1>4, <2>1, <2>2, <2>3, <2>4 DEF GrantSteps
<1>5. ASSUME NEW i \in Mails, NEW u \in Users, AcceptShare(i, u)
      PROVE  GrantsInv' /\ \A j \in Mails : ClaimStays(j)
  <2>1. UNCHANGED teamShare
    BY <1>5 DEF AcceptShare
  <2> QED
    BY <1>0, <1>2, <1>5, <2>1, AcceptedMail DEF GrantsInv, GrantsTypeOK
<1>6. ASSUME NEW i \in Mails, NEW u \in Users, RevokeMail(i, u)
      PROVE  GrantsInv' /\ \A j \in Mails : ClaimStays(j)
  BY <1>0, <1>3, <1>6 DEF RevokeMail, GrantsTypeOK
<1>7. CASE DirectoryNext /\ CascadeGrants
  <2>1. \A i \in Mails : mail'[i] \in {mail[i], NoShare}
    BY <1>7 DEF CascadeGrants
  <2>2. mail' \in [Mails -> MailShare \cup {NoShare}]
    BY <1>0, <1>7 DEF CascadeGrants, GrantsTypeOK
  <2>3. teamShare' \in [Repos -> [Paths -> [Teams -> TeamShare \cup {NoShare}]]]
    BY <1>0, <1>7 DEF CascadeGrants, GrantsTypeOK
  <2> QED
    BY <1>3, <2>1, <2>2, <2>3
<1>8. CASE UNCHANGED <<directoryVars, grantVars>>
  BY <1>0, <1>3, <1>8 DEF grantVars, GrantsTypeOK
<1> QED
  BY <1>4, <1>5, <1>6, <1>7, <1>8 DEF GrantsNext

LEMMA GrantsInductive == GrantsSpec => []GrantsInv
<1>1. GrantsInit /\ DirectoryInit => GrantsInv
  BY GrantsInitInv
<1>2. GrantsInv /\ [GrantsNext]_<<directoryVars, grantVars>> => GrantsInv'
  BY GrantsStep
<1> QED
  BY <1>1, <1>2, PTL DEF GrantsSpec

\* The variables of the shares keep their types.
THEOREM GrantTypes == GrantsSpec => []GrantsTypeOK
<1>1. GrantsInv => GrantsTypeOK
  BY DEF GrantsInv
<1> QED
  BY <1>1, GrantsInductive, PTL

\* A recipient row that names an account keeps naming it.
THEOREM ClaimsStay == GrantsSpec => ClaimsNeverMove
<1>1. GrantsInv /\ [GrantsNext]_<<directoryVars, grantVars>> =>
        [\A i \in Mails, e \in Emails :
           mail[i] # NoShare /\ mail'[i] # NoShare /\ mail[i].to[e].user # None =>
             mail'[i].to[e].user = mail[i].to[e].user]_grantVars
  BY GrantsStep DEF ClaimStays
<1> QED
  BY <1>1, GrantsInductive, PTL DEF GrantsSpec, ClaimsNeverMove

\* The paths of shares, and what normalizeRelativePath makes of them.

Forbidden == {Control, ".", "..", ".git"}

\* A sequence whose elements are in a set is one of that set.
LEMMA OfNames ==
    ASSUME NEW S, NEW T, NEW names \in Seq(S), \A n \in 1 .. Len(names) : names[n] \in T
    PROVE  names \in Seq(T)
<1>1. Len(names) \in Nat /\ names = [n \in 1 .. Len(names) |-> names[n]]
  BY LenProperties
<1> DEFINE last == Len(names)
<1> HIDE DEF last
<1>2. names \in [1 .. last -> T] /\ last \in Nat
  <2>1. names = [n \in 1 .. last |-> names[n]] /\ \A n \in 1 .. last : names[n] \in T
    BY <1>1 DEF last
  <2>2. names \in [1 .. last -> T]
    BY <2>1
  <2> QED
    BY <1>1, <2>2 DEF last
<1> QED
  BY <1>2, IsASeq

\* What is left when names are dropped, the empty one among them.
LEMMA DroppingNames ==
    ASSUME NEW names \in Seq(Name \cup {""}), NEW dropped, "" \in dropped
    PROVE  /\ Dropping(names, dropped) \in Seq(Name)
           /\ \A some : Uses(Dropping(names, dropped), some) => Uses(names, some)
           /\ ~Uses(names, dropped) => Dropping(names, dropped) = names
<1> DEFINE kept == {i \in DOMAIN names : names[i] \notin dropped}
           rest == Keep(names, kept)
<1>0. rest = Dropping(names, dropped)
  BY DEF Dropping
<1>1. kept \in SUBSET (DOMAIN names) /\ \A i \in kept : names[i] # ""
  OBVIOUS
<1>2. ASSUME ~Uses(names, dropped) PROVE rest = names
  <2>1. kept = DOMAIN names
    BY <1>2 DEF Uses
  <2> QED
    BY <2>1, KeepAll
<1> HIDE DEF kept
<1>3. /\ rest \in Seq(Name \cup {""}) /\ DOMAIN rest = 1 .. Len(rest)
      /\ \A n \in DOMAIN rest : Nth(n, kept) \in kept /\ rest[n] = names[Nth(n, kept)]
  BY <1>1, KeepSources
<1> HIDE DEF rest
<1>4. \A n \in DOMAIN rest : \E i \in DOMAIN names : rest[n] = names[i] /\ names[i] # ""
  BY <1>1, <1>3
<1>5. \A n \in 1 .. Len(rest) : rest[n] \in Name
  <2> SUFFICES ASSUME NEW n \in 1 .. Len(rest) PROVE rest[n] \in Name
    OBVIOUS
  <2>1. rest[n] \in Name \cup {""}
    BY <1>3, ElementOfSeq
  <2>2. rest[n] # ""
    BY <1>3, <1>4
  <2> QED
    BY <2>1, <2>2
<1>6. rest \in Seq(Name)
  BY <1>3, <1>5, OfNames
<1>7. \A some : Uses(rest, some) => Uses(names, some)
  BY <1>4 DEF Uses
<1> QED
  BY <1>0, <1>2, <1>6, <1>7

\* Nothing written is the root.
LEMMA EmptyIsRoot == Normalize(Empty) = <<>>
BY DEF Normalize

\* What normalizeRelativePath returns: names, and none that it refuses.
LEMMA Normalized ==
    ASSUME NEW written, IsWritten(written), Normalize(written) # Invalid
    PROVE  Normalize(written) \in Seq(Name) /\ ~Uses(Normalize(written), Forbidden)
<1>1. CASE written = Empty
  <2>1. Normalize(written) = <<>>
    BY <1>1, EmptyIsRoot
  <2>2. Len(<<>>) = 0 /\ DOMAIN <<>> = 1 .. Len(<<>>)
    BY EmptySeq, LenProperties
  <2>3. DOMAIN Normalize(written) = {}
    BY <2>1, <2>2
  <2>4. ~Uses(Normalize(written), Forbidden)
    BY <2>3 DEF Uses
  <2> QED
    BY <2>1, <2>4, EmptySeq
<1>2. CASE written # Empty
  <2>1. Normalize(written) = Dropping(written.names, {""}) /\ ~Uses(written.names, Forbidden)
    BY <1>2 DEF Normalize, Forbidden
  <2> QED
    BY <2>1, DroppingNames DEF IsWritten
<1> QED
  BY <1>1, <1>2

\* No path is Invalid.
LEMMA PathsAreValid == ASSUME NEW path \in Seq(Name) PROVE path # Invalid
<1>1. SUFFICES ASSUME path = <<"">> PROVE FALSE
  BY DEF Invalid
<1>2. Len(path) = 1
  BY <1>1
<1>3. path[1] = ""
  BY <1>1
<1>4. path[1] \in Name
  <2>1. 1 \in 1 .. Len(path)
    BY <1>2
  <2> QED
    BY <2>1, ElementOfSeq
<1> QED
  BY <1>3, <1>4, WrittenPathsAssumption

\* A sequence that starts with another starts with what that one starts with.
LEMMA Prefixes ==
    ASSUME NEW s \in Seq(Name), NEW p \in Seq(Name), NEW q \in Seq(Name)
    PROVE  /\ StartsWith(p, s) /\ StartsWith(q, p) => StartsWith(q, s)
           /\ StartsWith(s, s) /\ (StartsWith(<<>>, s) => s = <<>>)
<1>1. \A x, y \in Seq(Name) :
        StartsWith(y, x) <=> Len(x) <= Len(y) /\ \A k \in 1 .. Len(x) : y[k] = x[k]
  <2> SUFFICES ASSUME NEW x \in Seq(Name), NEW y \in Seq(Name), Len(x) <= Len(y)
               PROVE  SubSeq(y, 1, Len(x)) = x <=> \A k \in 1 .. Len(x) : y[k] = x[k]
    BY DEF StartsWith
  <2>1. Len(x) \in Nat /\ Len(y) \in Nat
    OBVIOUS
  <2>2. /\ SubSeq(y, 1, Len(x)) \in Seq(Name)
        /\ Len(SubSeq(y, 1, Len(x))) = Len(x)
        /\ \A k \in 1 .. Len(x) : SubSeq(y, 1, Len(x))[k] = y[k]
    BY <2>1
  <2>3. (\A k \in 1 .. Len(x) : SubSeq(y, 1, Len(x))[k] = x[k]) => SubSeq(y, 1, Len(x)) = x
    BY <2>1, <2>2
  <2> QED
    BY <2>1, <2>2, <2>3
<1>2. StartsWith(<<>>, s) => s = <<>>
  <2>1. Len(<<>>) = 0 /\ Len(s) \in Nat /\ (Len(s) = 0 => s = <<>>)
    BY EmptySeq, LenProperties
  <2> QED
    BY <2>1 DEF StartsWith
<1> QED
  BY <1>1, <1>2

\* A share that covers a path covers what is below it, and itself if its path is
\* one that normalizes.
LEMMA CoversBelow ==
    ASSUME NEW s, IsWritten(s), NEW p, IsWritten(p), NEW q, IsWritten(q)
    PROVE  /\ ShareScopeCovers(s, p) /\ ShareScopeCovers(p, q) => ShareScopeCovers(s, q)
           /\ Normalize(s) # Invalid => ShareScopeCovers(s, s)
<1>1. \A x \in {s, p, q} : Normalize(x) = Invalid \/ Normalize(x) \in Seq(Name)
  BY Normalized
<1>2. ASSUME ShareScopeCovers(s, p), ShareScopeCovers(p, q), Normalize(s) # <<>>
      PROVE  Normalize(q) # Invalid /\ StartsWith(Normalize(q), Normalize(s))
  <2>1. /\ Normalize(s) # Invalid /\ Normalize(p) # Invalid
        /\ StartsWith(Normalize(p), Normalize(s))
    BY <1>2 DEF ShareScopeCovers
  <2>2. Normalize(p) # <<>>
    BY <1>1, <1>2, <2>1, Prefixes
  <2>3. Normalize(q) # Invalid /\ StartsWith(Normalize(q), Normalize(p))
    BY <1>2, <2>2 DEF ShareScopeCovers
  <2> QED
    BY <1>1, <2>1, <2>3, Prefixes
<1>3. ASSUME ShareScopeCovers(s, p), ShareScopeCovers(p, q) PROVE ShareScopeCovers(s, q)
  <2>1. Normalize(s) # Invalid
    BY <1>3 DEF ShareScopeCovers
  <2> QED
    BY <1>2, <1>3, <2>1 DEF ShareScopeCovers
<1>4. ASSUME Normalize(s) # Invalid PROVE ShareScopeCovers(s, s)
  <2>1. StartsWith(Normalize(s), Normalize(s))
    BY <1>1, <1>4, Prefixes
  <2> QED
    BY <1>4, <2>1 DEF ShareScopeCovers
<1> QED
  BY <1>3, <1>4

\* The paths of the shares are written paths.
LEMMA PathsAreWritten == \A p \in Asked \cup Paths : IsWritten(p)
BY GrantsAssumption

\* Access to a path is access to what is below it, and to read.
LEMMA AccessGoesDown ==
    ASSUME GrantsTypeOK, NEW u \in Users, NEW r \in Repos, NEW p \in Asked, NEW q \in Asked,
           NEW permission \in Permissions, CanAccess(u, r, p, permission), ShareScopeCovers(p, q)
    PROVE  CanAccess(u, r, q, permission) /\ CanAccess(u, r, q, "read")
<1>1. \A s \in Paths : ShareScopeCovers(s, p) => ShareScopeCovers(s, q)
  BY CoversBelow, PathsAreWritten
<1>2. \A share : Satisfies(share, permission) => Satisfies(share, "read")
  BY DEF Satisfies
<1>3. OwnTeamGrants(u, r, permission) => OwnTeamGrants(u, r, "read")
  BY DEF OwnTeamGrants
<1>4. TeamShareGrants(u, r, p, permission) =>
        TeamShareGrants(u, r, q, permission) /\ TeamShareGrants(u, r, q, "read")
  BY <1>1, <1>2 DEF TeamShareGrants
<1>5. MailShareGrants(u, r, p, permission) =>
        MailShareGrants(u, r, q, permission) /\ MailShareGrants(u, r, q, "read")
  <2> SUFFICES ASSUME NEW i \in Mails, mail[i] # NoShare, mail[i].repo = r,
                      mail[i].to[email[u]].listed, Satisfies(mail[i], permission),
                      ShareScopeCovers(mail[i].path, p)
               PROVE  ShareScopeCovers(mail[i].path, q)
    BY <1>2 DEF MailShareGrants
  <2>1. mail[i].path \in Paths
    BY MailCases DEF MailShare
  <2> QED
    BY <1>1, <2>1
<1> QED
  BY <1>3, <1>4, <1>5 DEF CanAccess

\* What the list of incoming shares shows a user can open.
LEMMA IncomingOpens ==
    ASSUME GrantsTypeOK, NEW u \in Registered, NEW item \in Incoming(u),
           Normalize(item[2]) # Invalid
    PROVE  CanAccess(u, item[1], item[2], "read")
<1>1. \A share : Satisfies(share, "read")
  BY DEF Satisfies
<1>2. ASSUME NEW i \in Mails, mail[i] # NoShare, mail[i].to[email[u]].listed,
             item = <<mail[i].repo, mail[i].path>>
      PROVE  CanAccess(u, item[1], item[2], "read")
  <2>1. mail[i].path \in Paths
    BY <1>2, MailCases DEF MailShare
  <2>2. ShareScopeCovers(mail[i].path, mail[i].path)
    BY <1>2, <2>1, CoversBelow, PathsAreWritten
  <2> QED
    BY <1>1, <1>2, <2>2 DEF CanAccess, MailShareGrants
<1>3. ASSUME item \in Repos \X Paths, NEW t \in Teams,
             teamShare[item[1]][item[2]][t] # NoShare, IsMember(t, u)
      PROVE  CanAccess(u, item[1], item[2], "read")
  <2>1. item[2] \in Paths
    BY <1>3
  <2>2. ShareScopeCovers(item[2], item[2])
    BY <2>1, CoversBelow, PathsAreWritten
  <2> QED
    BY <1>1, <1>3, <2>1, <2>2 DEF CanAccess, TeamShareGrants
<1> QED
  BY <1>2, <1>3 DEF Incoming

\* Who gets in by a share has it in the list.
LEMMA AccessIsListed ==
    ASSUME GrantsTypeOK, NEW u \in Users, NEW r \in Repos, NEW p \in Asked,
           NEW permission \in Permissions, CanAccess(u, r, p, permission),
           ~Owns(u, r), ~OwnTeamGrants(u, r, permission)
    PROVE  \E item \in Incoming(u) : item[1] = r /\ ShareScopeCovers(item[2], p)
<1>1. CASE TeamShareGrants(u, r, p, permission)
  <2>1. PICK q \in Paths, t \in Teams :
          teamShare[r][q][t] # NoShare /\ ShareScopeCovers(q, p) /\ IsMember(t, u)
    BY <1>1 DEF TeamShareGrants
  <2>2. <<r, q>> \in Incoming(u)
    BY <2>1 DEF Incoming
  <2> QED
    BY <2>1, <2>2
<1>2. CASE MailShareGrants(u, r, p, permission)
  <2>1. PICK i \in Mails :
          /\ mail[i] # NoShare /\ mail[i].repo = r /\ mail[i].to[email[u]].listed
          /\ ShareScopeCovers(mail[i].path, p)
    BY <1>2 DEF MailShareGrants
  <2>2. <<mail[i].repo, mail[i].path>> \in Incoming(u)
    BY <2>1 DEF Incoming
  <2> QED
    BY <2>1, <2>2
<1> QED
  BY <1>1, <1>2 DEF CanAccess

LEMMA AccessFollows == GrantsInv => AccessIsConsistent
<1> SUFFICES ASSUME GrantsTypeOK PROVE AccessIsConsistent
  BY DEF GrantsInv
<1>1. \A u \in Registered : u \in Users
  BY DEF Registered
<1> QED
  BY <1>1, AccessGoesDown, IncomingOpens, AccessIsListed DEF AccessIsConsistent


\* The access decision is consistent whatever it rests on and however the paths
\* of shares and requests are spelled.
THEOREM AccessConsistent == GrantsSpec => []AccessIsConsistent
  BY AccessFollows, GrantsInductive, PTL

-----------------------------------------------------------------------------
(* patra push.                                                               *)

\* The variables of a command, with the fields that PushTypeOK leaves out.
Commands == [phase : Phases, attempt : 1 .. Attempts, exit : Exits, failed : BOOLEAN,
             gets : 0 .. 2, teams : 0 .. WantedTeams]
Effects == [uploads : Nat, files : SUBSET Entries, bytes : Nat, emails : Nat, teams : Nat]
PushTypes ==
    /\ local \in [Entries -> LocalEntry]
    /\ plan \in [gets : {1, 2}, email : BOOLEAN, teams : 0 .. WantedTeams]
    /\ cli \in Commands
    /\ collected \in SUBSET Entries
    /\ read \in [files : SUBSET Entries, bytes : Nat]
    /\ served \in Effects

\* What is read was collected, and stays within the limits that were checked.
ReadInv ==
    /\ read.files \subseteq collected
    /\ Cardinality(collected) <= MaxFiles /\ read.bytes <= MaxBytes
    /\ cli.phase \in {"resolve", "collect"} => read.files = {}
    /\ cli.phase = "upload" => read.files = collected

Unsent == served = [uploads |-> 0, files |-> {}, bytes |-> 0, emails |-> 0, teams |-> 0]
Sent == served.uploads = 1 /\ served.files = collected /\ served.bytes <= MaxBytes
Unshared == served.emails = 0 /\ served.teams = 0

\* The shares that have been made when so many teams are left: all of them,
\* unless something failed.
SharedBut(left, failed) ==
    /\ Sent
    /\ served.emails <= 1 /\ served.teams + left <= plan.teams
    /\ ~failed => (plan.email => served.emails = 1) /\ served.teams + left = plan.teams

\* What each phase may rely on.
PhaseInv ==
    /\ cli.phase = "resolve" => cli.gets > 0
    /\ cli.phase \in {"resolve", "collect", "read", "upload"} => Unsent
    /\ cli.phase \in {"resolve", "collect", "read", "upload", "email"} =>
         cli.teams = plan.teams /\ ~cli.failed
    /\ cli.phase = "email" => plan.email /\ Sent /\ Unshared
    /\ cli.phase \in {"find", "team"} => cli.teams > 0 /\ SharedBut(cli.teams, cli.failed)
    /\ cli.phase = "ended" <=> cli.exit # "none"
    /\ cli.exit = "ok" => SharedBut(0, FALSE)
    /\ cli.exit = "partial" => SharedBut(0, TRUE)
    /\ cli.exit = "error" => Unshared /\ (Unsent \/ Sent)

PushInv == PushTypes /\ ReadInv /\ PhaseInv

LEMMA PushInitInv == PushInit => PushInv
<1> SUFFICES ASSUME PushInit PROVE PushInv
  OBVIOUS
<1>1. plan \in [gets : {1, 2}, email : BOOLEAN, teams : 0 .. WantedTeams]
  BY DEF PushInit
<1>2. PushTypes
  BY <1>1, PushAssumption DEF PushInit, PushTypes, Commands, Phases, Exits, Effects
<1>3. ReadInv
  BY FS_EmptySet, PushAssumption DEF PushInit, ReadInv
<1>4. PhaseInv
  BY <1>1 DEF PushInit, PhaseInv, Unsent
<1> QED
  BY <1>2, <1>3, <1>4 DEF PushInv

\* What the steps that the phases share make of the command.
LEMMA CommandSteps ==
    ASSUME PushTypes
    PROVE  /\ \A phase \in Phases : Enter(phase) =>
                cli' \in Commands /\ cli'.phase = phase /\ cli'.exit = cli.exit
                /\ cli'.failed = cli.failed /\ cli'.teams = cli.teams
           /\ \A exit \in Exits : End(exit) =>
                cli' \in Commands /\ cli'.phase = "ended" /\ cli'.exit = exit
           /\ Again => cli' \in Commands /\ cli'.phase = cli.phase /\ cli'.exit = cli.exit
                       /\ cli'.failed = cli.failed /\ cli'.teams = cli.teams /\ cli'.gets = cli.gets
           /\ \A failed \in BOOLEAN, left \in 0 .. WantedTeams : GoOn(failed, left) =>
                /\ cli' \in Commands /\ cli'.failed = failed /\ cli'.teams = left
                /\ \/ left > 0 /\ cli'.phase = "find" /\ cli'.exit = cli.exit
                   \/ left = 0 /\ cli'.phase = "ended" /\ cli'.exit = (IF failed THEN "partial" ELSE "ok")
<1>1. cli \in Commands /\ Attempts \in Nat /\ 1 \in 1 .. Attempts
  BY PushAssumption DEF PushTypes
<1>2. ASSUME NEW phase \in Phases, Enter(phase)
      PROVE  cli' \in Commands /\ cli'.phase = phase /\ cli'.exit = cli.exit
             /\ cli'.failed = cli.failed /\ cli'.teams = cli.teams
  BY <1>1, <1>2 DEF Enter, Commands
<1>3. ASSUME NEW exit \in Exits, End(exit)
      PROVE  cli' \in Commands /\ cli'.phase = "ended" /\ cli'.exit = exit
  BY <1>1, <1>3 DEF End, Commands, Phases
<1>4. ASSUME Again
      PROVE  cli' \in Commands /\ cli'.phase = cli.phase /\ cli'.exit = cli.exit
             /\ cli'.failed = cli.failed /\ cli'.teams = cli.teams /\ cli'.gets = cli.gets
  BY <1>1, <1>4 DEF Again, Commands
<1>5. ASSUME NEW failed \in BOOLEAN, NEW left \in 0 .. WantedTeams, GoOn(failed, left)
      PROVE  /\ cli' \in Commands /\ cli'.failed = failed /\ cli'.teams = left
             /\ \/ left > 0 /\ cli'.phase = "find" /\ cli'.exit = cli.exit
                \/ left = 0 /\ cli'.phase = "ended" /\ cli'.exit = (IF failed THEN "partial" ELSE "ok")
  <2> DEFINE next == [cli EXCEPT !.attempt = 1, !.failed = failed, !.teams = left]
  <2>1. next \in Commands /\ next.failed = failed /\ next.teams = left /\ next.exit = cli.exit
    BY <1>1 DEF Commands
  <2>2. cli' = IF left > 0 THEN [next EXCEPT !.phase = "find"]
               ELSE [next EXCEPT !.phase = "ended", !.exit = IF failed THEN "partial" ELSE "ok"]
    BY <1>5 DEF GoOn
  <2> HIDE DEF next
  <2>3. CASE left > 0
    BY <2>1, <2>2, <2>3 DEF Commands, Phases
  <2>4. CASE ~(left > 0)
    <3>1. left = 0
      BY <2>4, PushAssumption
    <3>2. CASE failed
      <4>1. cli' = [next EXCEPT !.phase = "ended", !.exit = "partial"]
        BY <2>2, <2>4, <3>2
      <4> QED
        BY <2>1, <3>1, <3>2, <4>1 DEF Commands, Phases, Exits
    <3>3. CASE ~failed
      <4>1. cli' = [next EXCEPT !.phase = "ended", !.exit = "ok"]
        BY <2>2, <2>4, <3>3
      <4> QED
        BY <2>1, <3>1, <3>3, <4>1 DEF Commands, Phases, Exits
    <3> QED
      BY <3>2, <3>3
  <2> QED
    BY <2>3, <2>4
<1> QED
  BY <1>2, <1>3, <1>4, <1>5

LEMMA ResolveKeeps ==
    ASSUME PushInv, ResolveAnswered \/ ResolveAgain \/ ResolveFails
    PROVE  PushInv'
<1>1. /\ cli.phase = "resolve" /\ cli \in Commands /\ cli.gets \in 1 .. 2 /\ cli.exit = "none"
      /\ UNCHANGED <<local, plan, collected, read, served>>
  BY DEF PushInv, PushTypes, PhaseInv, Commands, ResolveAnswered, ResolveAgain, ResolveFails
<1>2. /\ cli' \in Commands
      /\ \/ /\ cli'.phase \in {"resolve", "collect"} /\ cli'.exit = "none"
            /\ cli'.failed = cli.failed /\ cli'.teams = cli.teams
            /\ cli'.phase = "resolve" => cli'.gets > 0
         \/ cli'.phase = "ended" /\ cli'.exit = "error"
  <2>0. cli.gets - 1 \in 0 .. 2 /\ 1 \in 1 .. Attempts /\ {"resolve", "collect"} \subseteq Phases
    BY <1>1, PushAssumption DEF Phases
  <2>1. CASE ResolveAnswered
    <3>1. CASE cli.gets > 1
      <4>1. cli' = [cli EXCEPT !.gets = @ - 1, !.attempt = 1, !.phase = "resolve"]
        BY <2>1, <3>1 DEF ResolveAnswered
      <4>2. cli' \in Commands /\ cli'.gets = cli.gets - 1
        BY <1>1, <2>0, <4>1 DEF Commands
      <4>3. cli'.phase = "resolve" /\ cli'.exit = "none" /\ cli'.failed = cli.failed /\ cli'.teams = cli.teams
        BY <1>1, <4>1 DEF Commands
      <4> QED
        BY <1>1, <3>1, <4>2, <4>3
    <3>2. CASE ~(cli.gets > 1)
      <4>1. cli' = [cli EXCEPT !.gets = @ - 1, !.attempt = 1, !.phase = "collect"]
        BY <2>1, <3>2 DEF ResolveAnswered
      <4>2. cli' \in Commands /\ cli'.phase = "collect"
        BY <1>1, <2>0, <4>1 DEF Commands
      <4> QED
        BY <1>1, <4>1, <4>2 DEF Commands
    <3> QED
      BY <3>1, <3>2
  <2>2. CASE ResolveAgain
    <3>1. /\ cli' \in Commands /\ cli'.phase = cli.phase /\ cli'.exit = cli.exit
          /\ cli'.failed = cli.failed /\ cli'.teams = cli.teams /\ cli'.gets = cli.gets
      BY <2>2, CommandSteps DEF PushInv, ResolveAgain
    <3> QED
      BY <1>1, <3>1
  <2>3. CASE ResolveFails
    BY <1>1, <2>3, CommandSteps DEF PushInv, ResolveFails, Exits
  <2> QED
    BY <2>1, <2>2, <2>3
<1>3. PushTypes'
  BY <1>1, <1>2 DEF PushInv, PushTypes
<1>4. ReadInv'
  BY <1>1, <1>2 DEF PushInv, ReadInv
<1>5. PhaseInv'
  <2>1. Unsent' /\ Unshared' /\ cli.teams = plan.teams /\ ~cli.failed
    BY <1>1 DEF PushInv, PhaseInv, Unsent, Unshared
  <2> QED
    BY <1>1, <1>2, <2>1 DEF PhaseInv
<1> QED
  BY <1>3, <1>4, <1>5 DEF PushInv

LEMMA CollectKeeps ==
    ASSUME PushInv, Collect
    PROVE  PushInv'
<1>1. /\ cli.phase = "collect" /\ cli.exit = "none" /\ cli \in Commands /\ UNCHANGED <<local, plan, read, served>>
      /\ read.files = {} /\ read.bytes <= MaxBytes /\ Unsent /\ cli.teams = plan.teams /\ ~cli.failed
  BY DEF PushInv, PushTypes, ReadInv, PhaseInv, Collect
<1>2. \/ /\ Enter("read") /\ collected' \in SUBSET Entries /\ Cardinality(collected') <= MaxFiles
      \/ End("error") /\ UNCHANGED collected
  BY DEF Collect, OfKind
<1>3. CASE Enter("read") /\ collected' \in SUBSET Entries /\ Cardinality(collected') <= MaxFiles
  <2>1. /\ cli' \in Commands /\ cli'.phase = "read" /\ cli'.exit = "none"
        /\ cli'.failed = cli.failed /\ cli'.teams = cli.teams
    BY <1>1, <1>3, CommandSteps DEF PushInv, Phases
  <2>2. PushTypes'
    BY <1>1, <1>3, <2>1 DEF PushInv, PushTypes
  <2>3. ReadInv'
    BY <1>1, <1>3, <2>1 DEF ReadInv
  <2>4. PhaseInv'
    BY <1>1, <2>1 DEF PhaseInv, Unsent
  <2> QED
    BY <2>2, <2>3, <2>4 DEF PushInv
<1>4. CASE End("error") /\ UNCHANGED collected
  <2>1. cli' \in Commands /\ cli'.phase = "ended" /\ cli'.exit = "error"
    BY <1>4, CommandSteps DEF PushInv, Exits
  <2>2. PushTypes'
    BY <1>1, <1>4, <2>1 DEF PushInv, PushTypes
  <2>3. ReadInv'
    BY <1>1, <1>4, <2>1 DEF PushInv, ReadInv
  <2>4. PhaseInv'
    BY <1>1, <2>1 DEF PhaseInv, Unsent, Unshared
  <2> QED
    BY <2>2, <2>3, <2>4 DEF PushInv
<1> QED
  BY <1>2, <1>3, <1>4

LEMMA ReadFileKeeps ==
    ASSUME PushInv, NEW e \in Entries, ReadFile(e)
    PROVE  PushInv'
<1>1. /\ cli.phase = "read" /\ cli.exit = "none" /\ cli \in Commands /\ e \in collected
      /\ UNCHANGED <<local, plan, collected, served>>
      /\ read.files \subseteq collected /\ read.bytes \in Nat /\ read.bytes <= MaxBytes
      /\ Unsent /\ cli.teams = plan.teams /\ ~cli.failed /\ local[e].size \in Nat
  BY PushAssumption DEF PushInv, PushTypes, ReadInv, PhaseInv, ReadFile, LocalEntry
<1>2. CASE End("error") /\ UNCHANGED read
  <2>1. cli' \in Commands /\ cli'.phase = "ended" /\ cli'.exit = "error"
    BY <1>2, CommandSteps DEF PushInv, Exits
  <2>2. PushTypes'
    BY <1>1, <1>2, <2>1 DEF PushInv, PushTypes
  <2>3. ReadInv'
    BY <1>1, <1>2, <2>1 DEF PushInv, ReadInv
  <2>4. PhaseInv'
    BY <1>1, <2>1 DEF PhaseInv, Unsent, Unshared
  <2> QED
    BY <2>2, <2>3, <2>4 DEF PushInv
<1>3. CASE ~(local[e].kind = "vanished" \/ read.bytes + local[e].size > MaxBytes)
  <2>1. /\ read' = [files |-> read.files \cup {e}, bytes |-> read.bytes + local[e].size]
        /\ IF read'.files = collected THEN Enter("upload") ELSE UNCHANGED cli
        /\ read.bytes + local[e].size <= MaxBytes
    BY <1>1, <1>3, PushAssumption DEF ReadFile
  <2>2. /\ read' \in [files : SUBSET Entries, bytes : Nat]
        /\ read'.files \subseteq collected /\ read'.bytes <= MaxBytes
    BY <1>1, <2>1 DEF PushInv, PushTypes
  <2>3. /\ cli' \in Commands /\ cli'.exit = "none" /\ cli'.failed = cli.failed /\ cli'.teams = cli.teams
        /\ \/ cli'.phase = "upload" /\ read'.files = collected
           \/ cli'.phase = "read"
    BY <1>1, <2>1, CommandSteps DEF PushInv, Phases
  <2>4. PushTypes'
    BY <1>1, <2>2, <2>3 DEF PushInv, PushTypes
  <2>5. ReadInv'
    BY <1>1, <2>2, <2>3 DEF PushInv, ReadInv
  <2>6. PhaseInv'
    BY <1>1, <2>3 DEF PhaseInv, Unsent
  <2> QED
    BY <2>4, <2>5, <2>6 DEF PushInv
<1> QED
  BY <1>2, <1>3 DEF ReadFile

LEMMA DisturbKeeps ==
    ASSUME PushInv, NEW e \in Entries, NEW entry \in LocalEntry, Disturb(e, entry)
    PROVE  PushInv'
<1>1. PushTypes'
  BY DEF PushInv, PushTypes, Disturb
<1>2. ReadInv'
  BY DEF PushInv, ReadInv, Disturb
<1>3. PhaseInv'
  BY DEF PushInv, PhaseInv, Disturb, Unsent, Sent, Unshared, SharedBut
<1> QED
  BY <1>1, <1>2, <1>3 DEF PushInv

\* The steps from the upload on leave the files alone.
LEMMA FilesAreRead ==
    ASSUME PushInv, UNCHANGED <<local, plan, collected, read>>, cli' \in Commands,
           served' \in Effects,
           cli'.phase \notin {"resolve", "collect", "upload"}, PhaseInv'
    PROVE  PushInv'
<1>1. PushTypes'
  BY DEF PushInv, PushTypes
<1>2. ReadInv'
  BY DEF PushInv, ReadInv
<1> QED
  BY <1>1, <1>2 DEF PushInv

\* A request that was acted on counts once, and touches nothing else.
LEMMA EffectFields ==
    ASSUME PushTypes
    PROVE  /\ Uploaded \in Effects
           /\ Uploaded.uploads = served.uploads + 1
           /\ Uploaded.files = read.files /\ Uploaded.bytes = read.bytes
           /\ Uploaded.emails = served.emails /\ Uploaded.teams = served.teams
           /\ [served EXCEPT !.emails = @ + 1] =
                [uploads |-> served.uploads, files |-> served.files, bytes |-> served.bytes,
                 emails |-> served.emails + 1, teams |-> served.teams]
           /\ [served EXCEPT !.teams = @ + 1] =
                [uploads |-> served.uploads, files |-> served.files, bytes |-> served.bytes,
                 emails |-> served.emails, teams |-> served.teams + 1]
<1>1. served \in Effects
  BY DEF PushTypes
<1>2. /\ read.files \in SUBSET Entries /\ read.bytes \in Nat
      /\ served.uploads + 1 \in Nat
  BY <1>1 DEF PushTypes, Effects
<1>4. /\ Uploaded \in Effects
      /\ Uploaded.uploads = served.uploads + 1 /\ Uploaded.files = read.files /\ Uploaded.bytes = read.bytes
      /\ Uploaded.emails = served.emails /\ Uploaded.teams = served.teams
  BY <1>1, <1>2 DEF Effects, Uploaded
<1>3. /\ [served EXCEPT !.emails = @ + 1] =
           [uploads |-> served.uploads, files |-> served.files, bytes |-> served.bytes,
            emails |-> served.emails + 1, teams |-> served.teams]
      /\ [served EXCEPT !.teams = @ + 1] =
           [uploads |-> served.uploads, files |-> served.files, bytes |-> served.bytes,
            emails |-> served.emails, teams |-> served.teams + 1]
  BY <1>1 DEF Effects
<1> QED
  BY <1>3, <1>4

LEMMA UploadKeeps ==
    ASSUME PushInv, UploadAnswered \/ UploadFails
    PROVE  PushInv'
<1>1. /\ cli.phase = "upload" /\ cli.exit = "none" /\ cli \in Commands /\ served \in Effects
      /\ UNCHANGED <<local, plan, collected, read>>
      /\ read \in [files : SUBSET Entries, bytes : Nat] /\ read.files = collected /\ read.bytes <= MaxBytes
      /\ Unsent /\ cli.teams = plan.teams /\ cli.failed = FALSE
      /\ plan.teams \in 0 .. WantedTeams
  BY DEF PushInv, PushTypes, ReadInv, PhaseInv, UploadAnswered, UploadFails, Commands
<1>2. /\ Uploaded \in Effects /\ Uploaded.uploads = 1
      /\ Uploaded.files = collected /\ Uploaded.bytes = read.bytes
      /\ Uploaded.emails = 0 /\ Uploaded.teams = 0
  <2>1. served.uploads = 0 /\ served.emails = 0 /\ served.teams = 0
    BY <1>1 DEF Unsent
  <2> QED
    BY <1>1, <2>1, EffectFields DEF PushInv
<1>3. CASE UploadAnswered
  <2>1. served' = Uploaded /\ served' \in Effects /\ Sent' /\ Unshared'
    BY <1>1, <1>2, <1>3 DEF UploadAnswered, Done, Sent, Unshared, Effects
  <2>2. CASE plan.email
    <3>1. Enter("email")
      BY <1>3, <2>2 DEF UploadAnswered
    <3>2. /\ cli' \in Commands /\ cli'.phase = "email" /\ cli'.exit = "none"
          /\ cli'.failed = cli.failed /\ cli'.teams = cli.teams
      BY <1>1, <3>1, CommandSteps DEF PushInv, Phases
    <3>3. PhaseInv'
      BY <1>1, <2>1, <2>2, <3>2 DEF PhaseInv
    <3> QED
      BY <1>1, <2>1, <3>2, <3>3, FilesAreRead
  <2>3. CASE ~plan.email
    <3>1. GoOn(FALSE, cli.teams)
      BY <1>3, <2>3 DEF UploadAnswered
    <3>2. /\ cli' \in Commands /\ cli'.failed = FALSE /\ cli'.teams = cli.teams
          /\ \/ cli.teams > 0 /\ cli'.phase = "find" /\ cli'.exit = "none"
             \/ cli.teams = 0 /\ cli'.phase = "ended" /\ cli'.exit = "ok"
      BY <1>1, <3>1, CommandSteps DEF PushInv
    <3>3. SharedBut(cli.teams, FALSE)'
      BY <1>1, <2>1, <2>3, <3>2 DEF SharedBut, Unshared
    <3>4. PhaseInv'
      BY <1>1, <2>3, <3>2, <3>3 DEF PhaseInv
    <3> QED
      BY <1>1, <2>1, <3>2, <3>4, FilesAreRead
  <2> QED
    BY <2>2, <2>3
<1>4. CASE UploadFails
  <2>1. /\ served' \in Effects /\ Unshared' /\ (Unsent' \/ Sent')
    BY <1>1, <1>2, <1>4 DEF UploadFails, Done, NotDone, Sent, Unsent, Unshared, Effects
  <2>2. cli' \in Commands /\ cli'.phase = "ended" /\ cli'.exit = "error"
    BY <1>4, CommandSteps DEF PushInv, UploadFails, Exits
  <2>3. PhaseInv'
    BY <2>1, <2>2 DEF PhaseInv
  <2> QED
    BY <1>1, <2>1, <2>2, <2>3, FilesAreRead
<1> QED
  BY <1>3, <1>4

\* Going on after an upload or a share keeps what is to be said of the shares.
LEMMA GoingOn ==
    ASSUME PushInv, cli.exit = "none", UNCHANGED <<local, plan, collected, read>>,
           NEW failed \in BOOLEAN, NEW left \in 0 .. WantedTeams, GoOn(failed, left),
           served' \in Effects,
           /\ Sent' /\ served'.emails <= 1 /\ served'.teams + left <= plan.teams
           /\ ~failed => (plan.email => served'.emails = 1) /\ served'.teams + left = plan.teams
    PROVE  PushInv'
<1>1. /\ cli' \in Commands /\ cli'.failed = failed /\ cli'.teams = left
      /\ \/ left > 0 /\ cli'.phase = "find" /\ cli'.exit = "none"
         \/ left = 0 /\ cli'.phase = "ended" /\ cli'.exit = (IF failed THEN "partial" ELSE "ok")
  BY CommandSteps DEF PushInv
<1>2. plan' = plan
  OBVIOUS
<1>3. PhaseInv'
  <2>1. CASE left > 0
    BY <1>1, <1>2, <2>1 DEF PhaseInv, SharedBut
  <2>2. CASE left = 0 /\ failed
    BY <1>1, <1>2, <2>2 DEF PhaseInv, SharedBut
  <2>3. CASE left = 0 /\ ~failed
    BY <1>1, <1>2, <2>3 DEF PhaseInv, SharedBut
  <2> QED
    BY <1>1, <2>1, <2>2, <2>3
<1> QED
  BY <1>1, <1>3, FilesAreRead

LEMMA EmailKeeps ==
    ASSUME PushInv, NEW answered \in BOOLEAN, ShareByEmail(answered)
    PROVE  PushInv'
<1>1. /\ cli.exit = "none" /\ cli.teams = plan.teams /\ cli.teams \in 0 .. WantedTeams
      /\ plan.email /\ Sent /\ Unshared /\ served \in Effects /\ UNCHANGED <<local, plan, collected, read>>
  BY DEF PushInv, PushTypes, PhaseInv, ShareByEmail, Commands
<1>2. served' = [served EXCEPT !.emails = @ + 1] \/ (~answered /\ served' = served)
  BY DEF ShareByEmail, Done, NotDone
<1>3. /\ served' \in Effects /\ Sent' /\ served'.emails <= 1 /\ served'.teams = 0
      /\ answered => served'.emails = 1
  BY <1>1, <1>2, EffectFields DEF PushInv, Sent, Unshared, Effects
<1>4. GoOn(~answered, cli.teams)
  BY Zenon DEF ShareByEmail
<1>5. served'.teams + cli.teams = plan.teams
  BY <1>1, <1>3
<1>6. served'.teams + cli.teams <= plan.teams
  BY <1>1, <1>5
<1> QED
  BY <1>1, <1>3, <1>4, <1>5, <1>6, GoingOn

LEMMA FindKeeps ==
    ASSUME PushInv, FindTeam \/ FindAgain \/ FindFails
    PROVE  PushInv'
<1>1. /\ cli.phase = "find" /\ cli.exit = "none" /\ cli.teams \in 1 .. WantedTeams /\ cli.failed \in BOOLEAN
      /\ SharedBut(cli.teams, cli.failed) /\ UNCHANGED <<local, plan, collected, read, served>>
      /\ served \in Effects
      /\ plan.teams \in Nat
  <2>1. cli.phase = "find" /\ UNCHANGED <<local, plan, collected, read, served>>
    BY DEF FindTeam, FindAgain, FindFails
  <2>2. cli.exit = "none" /\ cli.teams > 0 /\ SharedBut(cli.teams, cli.failed)
    BY <2>1 DEF PushInv, PhaseInv
  <2>3. /\ cli.teams \in 0 .. WantedTeams /\ cli.failed \in BOOLEAN /\ served \in Effects
        /\ plan.teams \in Nat
    BY PushAssumption DEF PushInv, PushTypes, Commands
  <2> QED
    BY <2>1, <2>2, <2>3, PushAssumption
<1>2. CASE FindTeam \/ FindAgain
  <2>1. /\ cli' \in Commands /\ cli'.phase \in {"find", "team"} /\ cli'.exit = "none"
        /\ cli'.failed = cli.failed /\ cli'.teams = cli.teams
    BY <1>1, <1>2, CommandSteps DEF PushInv, FindTeam, FindAgain, Phases
  <2>2. SharedBut(cli.teams, cli.failed)'
    BY <1>1, <2>1 DEF SharedBut, Sent
  <2>3. PhaseInv'
    BY <1>1, <2>1, <2>2 DEF PhaseInv
  <2> QED
    BY <1>1, <2>1, <2>3, FilesAreRead
<1>3. CASE FindFails
  <2>1. GoOn(TRUE, cli.teams - 1)
    BY <1>3 DEF FindFails
  <2>3. cli.teams - 1 \in 0 .. WantedTeams
    BY <1>1, PushAssumption
  <2>2. Sent' /\ served'.emails <= 1 /\ served'.teams + (cli.teams - 1) <= plan.teams
    BY <1>1 DEF SharedBut, Sent, Effects
  <2> QED
    BY <1>1, <2>1, <2>2, <2>3, GoingOn
<1> QED
  BY <1>2, <1>3

LEMMA TeamShareKeeps ==
    ASSUME PushInv, NEW answered \in BOOLEAN, ShareWithTeam(answered)
    PROVE  PushInv'
<1> DEFINE failed == cli.failed \/ ~answered
<1>1. /\ cli.exit = "none" /\ cli.teams \in 1 .. WantedTeams /\ cli.failed \in BOOLEAN
      /\ SharedBut(cli.teams, cli.failed) /\ UNCHANGED <<local, plan, collected, read>>
      /\ served \in Effects /\ plan.teams \in Nat
  BY DEF PushInv, PushTypes, PhaseInv, ShareWithTeam, Commands
<1>2. served' = [served EXCEPT !.teams = @ + 1] \/ (~answered /\ served' = served)
  BY DEF ShareWithTeam, Done, NotDone
<1>3. /\ served' \in Effects /\ Sent' /\ served'.emails = served.emails
      /\ served'.teams \in {served.teams, served.teams + 1}
      /\ answered => served'.teams = served.teams + 1
  BY <1>1, <1>2, EffectFields DEF PushInv, SharedBut, Sent, Effects
<1>4. GoOn(failed, cli.teams - 1)
  BY Zenon DEF ShareWithTeam
<1>6. failed \in BOOLEAN /\ cli.teams - 1 \in 0 .. WantedTeams
  BY <1>1, PushAssumption
<1>5. /\ served'.emails <= 1 /\ served'.teams + (cli.teams - 1) <= plan.teams
      /\ ~failed => (plan.email => served'.emails = 1) /\ served'.teams + (cli.teams - 1) = plan.teams
  BY <1>1, <1>3 DEF SharedBut, Effects
<1> HIDE DEF failed
<1> QED
  BY <1>1, <1>3, <1>4, <1>5, <1>6, GoingOn

LEMMA PushInvStep == PushInv /\ [PushNext]_pushVars => PushInv'
<1> SUFFICES ASSUME PushInv, [PushNext]_pushVars PROVE PushInv'
  OBVIOUS
<1>1. CASE UNCHANGED pushVars
  BY <1>1 DEF pushVars, PushInv, PushTypes, ReadInv, PhaseInv, Unsent, Sent, Unshared, SharedBut
<1>2. CASE PushNext
  BY <1>2, ResolveKeeps, CollectKeeps, ReadFileKeeps, DisturbKeeps, UploadKeeps, EmailKeeps, FindKeeps,
     TeamShareKeeps DEF PushNext
<1> QED
  BY <1>1, <1>2

LEMMA PushAlways == PushSpec => []PushInv
  BY PushInitInv, PushInvStep, PTL DEF PushSpec

\* The variables of a push keep their types.
THEOREM PushTypesKept == PushSpec => []PushTypeOK
<1>1. PushInv => PushTypeOK
  BY DEF PushInv, PushTypes, ReadInv, Commands, PushTypeOK
<1> QED
  BY <1>1, PushAlways, PTL

LEMMA PushTells ==
    ASSUME PushInv
    PROVE  PushIsHonest
<1>1. Cardinality(collected) <= MaxFiles /\ Cardinality({}) = 0 /\ MaxFiles \in Nat /\ MaxBytes \in Nat
  BY FS_EmptySet, PushAssumption DEF PushInv, ReadInv
<1>2. /\ plan.teams \in Nat /\ cli.teams \in Nat /\ cli.phase \in Phases /\ cli.exit \in Exits
      /\ served \in Effects
  BY PushAssumption DEF PushInv, PushTypes, Commands
<1>3. Unsent => PushIsHonest \/ cli.exit \in {"ok", "partial"}
  BY <1>1, <1>2 DEF Unsent, PushIsHonest
<1>4. cli.exit = "none" => Unsent \/ (Sent /\ Unshared) \/ SharedBut(cli.teams, cli.failed)
  BY <1>2 DEF PushInv, PhaseInv, Phases
<1>5. (Sent /\ Unshared => PushIsHonest \/ cli.exit = "ok")
  BY <1>1, <1>2 DEF Sent, Unshared, PushIsHonest
<1>6. CASE cli.exit = "none"
  <2>1. SharedBut(cli.teams, cli.failed) => PushIsHonest
    BY <1>1, <1>2, <1>6 DEF SharedBut, Sent, PushIsHonest, Effects
  <2> QED
    BY <1>3, <1>4, <1>5, <1>6, <2>1
<1>7. CASE cli.exit = "error"
  BY <1>3, <1>5, <1>7 DEF PushInv, PhaseInv
<1>8. CASE cli.exit = "partial"
  BY <1>1, <1>2, <1>8 DEF PushInv, PhaseInv, SharedBut, Sent, PushIsHonest, Effects
<1>9. CASE cli.exit = "ok"
  BY <1>1, <1>2, <1>9 DEF PushInv, PhaseInv, SharedBut, Sent, PushIsHonest, Effects
<1> QED
  BY <1>2, <1>6, <1>7, <1>8, <1>9 DEF Exits

\* The exit code of a push tells what happened, for any directory, any limits,
\* any number of attempts and of teams.
THEOREM ExitCodesTell == PushSpec => []PushIsHonest
<1>1. PushInv => PushIsHonest
  BY PushTells
<1> QED
  BY <1>1, PushAlways, PTL

-----------------------------------------------------------------------------
(* patra login.                                                              *)

\* A whole file holds a token with a server that knows it, and so does every
\* command that has got as far as to write; no file, no token.
LoginInv ==
    /\ LoginTypeOK
    /\ config.state = "whole" => config.token \in Accepts[config.url]
    /\ config.state = "absent" => config.token = NoToken
    /\ \A n \in Terminals : login[n].stage = "writing" => login[n].token \in Accepts[login[n].url]

LEMMA LoginInitInv == LoginInit => LoginInv
  BY LoginAssumption DEF LoginInit, LoginInv, LoginTypeOK, Configs, Away

LEMMA LoginInvStep == LoginInv /\ [LoginNext]_loginVars => LoginInv'
<1> SUFFICES ASSUME LoginInv, [LoginNext]_loginVars PROVE LoginInv'
  OBVIOUS
<1>0. /\ config \in Configs /\ login \in [Terminals -> Logins \cup {Away}]
      /\ \A n \in Terminals : login[n].stage # "away" => login[n] \in Logins
      /\ \A url \in Servers : Accepts[url] \subseteq LoginTokens
  BY LoginAssumption DEF LoginInv, LoginTypeOK, Away
<1>1. ASSUME NEW n \in Terminals, NEW token \in LoginTokens,
             NEW fromEnv \in {{url} : url \in Servers} \cup {{}}, StartLogin(n, token, fromEnv)
      PROVE  LoginInv'
  <2>1. ApiUrl(fromEnv) \in Servers
    BY <1>0, LoginAssumption DEF ApiUrl, Configs
  <2> DEFINE command == [stage |-> "asking", url |-> ApiUrl(fromEnv), token |-> token]
  <2>2. login' = [login EXCEPT ![n] = command] /\ UNCHANGED config
    BY <1>1 DEF StartLogin
  <2>3. command \in Logins /\ command.stage # "writing"
    BY <2>1 DEF Logins
  <2> HIDE DEF command
  <2> QED
    BY <1>0, <2>2, <2>3 DEF LoginInv, LoginTypeOK
<1>2. ASSUME NEW n \in Terminals, BeginSave(n) PROVE LoginInv'
  <2>1. /\ login[n] \in Logins /\ login[n].token \in Accepts[login[n].url]
        /\ login' = [login EXCEPT ![n].stage = "writing"] /\ config' = [config EXCEPT !.state = "torn"]
    BY <1>0, <1>2 DEF BeginSave
  <2>2. /\ [login[n] EXCEPT !.stage = "writing"] \in Logins
        /\ [login[n] EXCEPT !.stage = "writing"].token = login[n].token
        /\ [login[n] EXCEPT !.stage = "writing"].url = login[n].url
    BY <2>1 DEF Logins
  <2>3. config' \in Configs /\ config'.state = "torn"
    BY <1>0, <2>1 DEF Configs
  <2>4. login' \in [Terminals -> Logins \cup {Away}]
    BY <1>0, <2>1, <2>2
  <2>5. \A m \in Terminals : login'[m].stage = "writing" => login'[m].token \in Accepts[login'[m].url]
    BY <1>0, <2>1, <2>2 DEF LoginInv
  <2> QED
    BY <2>3, <2>4, <2>5 DEF LoginInv, LoginTypeOK
<1>3. ASSUME NEW n \in Terminals, EndSave(n) PROVE LoginInv'
  <2>1. /\ login[n] \in Logins /\ login[n].token \in Accepts[login[n].url]
        /\ login' = [login EXCEPT ![n] = Away]
    BY <1>0, <1>3 DEF EndSave, LoginInv
  <2>2. \/ UNCHANGED config
        \/ \E state \in {"whole", "torn"} :
             config' = [state |-> state, loose |-> FALSE, url |-> login[n].url, token |-> login[n].token]
    BY <1>3 DEF EndSave
  <2>3. config' \in Configs
    <3>1. login[n].url \in Servers /\ login[n].token \in LoginTokens
      BY <2>1 DEF Logins
    <3>2. \A state \in {"whole", "torn"} :
            [state |-> state, loose |-> FALSE, url |-> login[n].url, token |-> login[n].token] \in Configs
      BY <3>1 DEF Configs
    <3> QED
      BY <1>0, <2>2, <3>2
  <2>4. /\ config'.state = "whole" => config'.token \in Accepts[config'.url]
        /\ config'.state = "absent" => config'.token = NoToken
    BY <2>1, <2>2 DEF LoginInv
  <2>5. /\ login' \in [Terminals -> Logins \cup {Away}]
        /\ \A m \in Terminals : login'[m].stage = "writing" => login'[m].token \in Accepts[login'[m].url]
    BY <1>0, <2>1 DEF LoginInv, Away
  <2> QED
    BY <2>3, <2>4, <2>5 DEF LoginInv, LoginTypeOK
<1>4. ASSUME NEW n \in Terminals, Abandon(n) PROVE LoginInv'
  BY <1>0, <1>4 DEF Abandon, LoginInv, LoginTypeOK, Away
<1>5. CASE Delete
  BY <1>0, <1>5, LoginAssumption DEF Delete, LoginInv, LoginTypeOK, Configs
<1>6. CASE Chmod
  BY <1>0, <1>6 DEF Chmod, LoginInv, LoginTypeOK, Configs
<1>7. CASE UNCHANGED loginVars
  BY <1>7 DEF loginVars, LoginInv, LoginTypeOK
<1> QED
  BY <1>1, <1>2, <1>3, <1>4, <1>5, <1>6, <1>7 DEF LoginNext

LEMMA LoginAlways == LoginSpec => []LoginInv
  BY LoginInitInv, LoginInvStep, PTL DEF LoginSpec

\* A file that loads has a token its server knows.
LEMMA TokensFollow == LoginInv => SavedTokensWork
  BY DEF LoginInv, SavedTokensWork, Loads

\* What a later command reads and sends is a token that very server accepted,
\* for any number of terminals, servers and tokens.
THEOREM TokensWork == LoginSpec => [](LoginTypeOK /\ SavedTokensWork)
<1>1. LoginInv => LoginTypeOK
  BY DEF LoginInv
<1> QED
  BY <1>1, TokensFollow, LoginAlways, PTL

-----------------------------------------------------------------------------
(* Paths: sequences of names.                                                *)

\* What the assumption says of the bounds and the base.
LEMMA PathBounds == MaxHops \in Nat /\ MaxBlob \in Nat /\ MaxTotal \in Nat /\ Base \in Seq(Name)
BY PathsAssumption

\* The length and the names of a part of a path.
LEMMA Parts ==
    ASSUME NEW S, NEW path \in Seq(S), NEW m \in 1 .. Len(path) + 1, NEW n \in 0 .. Len(path)
    PROVE  /\ SubSeq(path, m, n) \in Seq(S)
           /\ Len(SubSeq(path, m, n)) = IF m <= n THEN n - m + 1 ELSE 0
           /\ \A i \in 1 .. n - m + 1 : SubSeq(path, m, n)[i] = path[m + i - 1]
<1>1. Len(path) \in Nat /\ \A i \in 1 .. Len(path) : path[i] \in S
  BY LenProperties, ElementOfSeq
<1>2. m \in Int /\ n \in Int /\ \A i \in m .. n : path[i] \in S
  BY <1>1
<1> QED
  BY <1>2, SubSeqProperties

\* The part of a part.
LEMMA Shorter ==
    ASSUME NEW S, NEW path \in Seq(S), NEW n \in 0 .. Len(path), NEW m \in 0 .. n
    PROVE  SubSeq(SubSeq(path, 1, n), 1, m) = SubSeq(path, 1, m)
<1>1. Len(path) \in Nat
  BY LenProperties
<1> DEFINE upper == SubSeq(path, 1, n)
           one == SubSeq(upper, 1, m)
           other == SubSeq(path, 1, m)
<1>2. upper \in Seq(S) /\ Len(upper) = n /\ \A i \in 1 .. n : upper[i] = path[i]
  BY <1>1, Parts
<1>3. other \in Seq(S) /\ Len(other) = m /\ \A i \in 1 .. m : other[i] = path[i]
  BY <1>1, Parts
<1> HIDE DEF upper
<1>4. one \in Seq(S) /\ Len(one) = m /\ \A i \in 1 .. m : one[i] = upper[i]
  BY <1>1, <1>2, Parts
<1> HIDE DEF one, other
<1>5. one = other
  BY <1>2, <1>3, <1>4, SeqEqual
<1> QED
  BY <1>5 DEF one, other, upper

\* The parts of a path with a name more.
LEMMA LongerParts ==
    ASSUME NEW S, NEW path \in Seq(S), NEW x \in S, NEW n \in 0 .. Len(path)
    PROVE  /\ SubSeq(Append(path, x), 1, n) = SubSeq(path, 1, n)
           /\ SubSeq(Append(path, x), n + 1, Len(path) + 1) = Append(SubSeq(path, n + 1, Len(path)), x)
<1> DEFINE long == Append(path, x)
           end == SubSeq(path, n + 1, Len(path))
<1>1. Len(path) \in Nat
  BY LenProperties
<1>2. /\ long \in Seq(S) /\ Len(long) = Len(path) + 1 /\ long[Len(path) + 1] = x
      /\ \A i \in 1 .. Len(path) : long[i] = path[i]
  BY AppendProperties
<1> HIDE DEF long
<1>3. SubSeq(long, 1, n) = SubSeq(path, 1, n)
  <2> DEFINE one == SubSeq(long, 1, n)
             other == SubSeq(path, 1, n)
  <2>1. one \in Seq(S) /\ Len(one) = n /\ \A i \in 1 .. n : one[i] = long[i]
    BY <1>1, <1>2, Parts
  <2>2. other \in Seq(S) /\ Len(other) = n /\ \A i \in 1 .. n : other[i] = path[i]
    BY <1>1, Parts
  <2> HIDE DEF one, other
  <2>3. \A i \in 1 .. n : i \in 1 .. Len(path)
    BY <1>1
  <2>4. \A i \in 1 .. n : one[i] = other[i]
    BY <1>2, <2>1, <2>2, <2>3
  <2>5. one = other
    BY <2>1, <2>2, <2>4, SeqEqual
  <2> QED
    BY <2>5 DEF one, other
<1>4. SubSeq(long, n + 1, Len(path) + 1) = Append(end, x)
  <2> DEFINE one == SubSeq(long, n + 1, Len(path) + 1)
             other == Append(end, x)
             k == Len(path) - n
  <2>0. k \in Nat /\ n + 1 \in 1 .. Len(path) + 1 /\ n + 1 \in 1 .. Len(long) + 1
    BY <1>1, <1>2
  <2>1. one \in Seq(S) /\ Len(one) = k + 1 /\ \A i \in 1 .. k + 1 : one[i] = long[n + i]
    BY <1>1, <1>2, <2>0, Parts
  <2>2. end \in Seq(S) /\ Len(end) = k /\ \A i \in 1 .. k : end[i] = path[n + i]
    BY <1>1, <2>0, Parts
  <2> HIDE DEF end, one
  <2>3. /\ other \in Seq(S) /\ Len(other) = k + 1 /\ other[k + 1] = x
        /\ \A i \in 1 .. k : other[i] = end[i]
    BY <2>2, AppendProperties
  <2> HIDE DEF other
  <2>4. \A i \in 1 .. k : n + i \in 1 .. Len(path)
    BY <1>1
  <2>5. n + (k + 1) = Len(path) + 1
    BY <1>1
  <2> HIDE DEF k
  <2>6. \A i \in 1 .. k + 1 : i \in 1 .. k \/ i = k + 1
    BY <2>0
  <2>7. one[k + 1] = other[k + 1]
    BY <1>2, <2>0, <2>1, <2>3, <2>5
  <2>8. \A i \in 1 .. k : one[i] = other[i]
    <3> SUFFICES ASSUME NEW i \in 1 .. k PROVE one[i] = other[i]
      OBVIOUS
    <3>1. i \in 1 .. k + 1
      BY <2>0
    <3> QED
      BY <1>2, <2>1, <2>2, <2>3, <2>4, <3>1
  <2>9. one = other
    BY <2>1, <2>3, <2>6, <2>7, <2>8, SeqEqual
  <2> QED
    BY <2>9 DEF one, other
<1> QED
  BY <1>3, <1>4 DEF long, end

-----------------------------------------------------------------------------
(* File systems: links are followed one after the other.                     *)

\* What is above an entry is a directory.
LEMMA AboveAreDirs ==
    ASSUME NEW tree, IsTree(tree), NEW p \in DOMAIN tree, NEW n \in 0 .. Len(p) - 1
    PROVE  IsDir(tree, SubSeq(p, 1, n)) /\ ~IsLink(tree, SubSeq(p, 1, n))
<1>1. SubSeq(p, 1, n) \in Above(p)
  BY DEF Above
<1> QED
  BY <1>1 DEF IsTree, IsDir, IsLink

\* An entry is a file, a directory or a link, at a path of names.
LEMMA EntryTypes ==
    ASSUME NEW tree, IsTree(tree), NEW p \in DOMAIN tree
    PROVE  /\ p \in Seq(Name) /\ Len(p) \in Nat /\ SubSeq(p, 1, Len(p)) = p
           /\ IsFile(tree, p) \/ IsDir(tree, p) \/ IsLink(tree, p)
           /\ IsLink(tree, p) => tree[p].to \in Seq(Name)
<1>1. p \in Seq(Name)
  BY DEF IsTree
<1> QED
  BY <1>1, LenProperties, SubSeqFull DEF IsTree, IsFile, IsDir, IsLink

\* There is at most one link on a path as it is written.
LEMMA OneLink ==
    ASSUME NEW tree, IsTree(tree), NEW path \in Seq(Name), NEW m \in LinksOn(tree, path),
           NEW n \in LinksOn(tree, path)
    PROVE  m = n
<1>1. \A i, j \in LinksOn(tree, path) : ~ (i < j)
  <2> SUFFICES ASSUME NEW i \in LinksOn(tree, path), NEW j \in LinksOn(tree, path), i < j PROVE FALSE
    OBVIOUS
  <2> DEFINE q == SubSeq(path, 1, j)
  <2>1. Len(path) \in Nat /\ i \in 1 .. Len(path) /\ j \in 1 .. Len(path)
    BY LenProperties DEF LinksOn
  <2>2. q \in DOMAIN tree /\ IsLink(tree, SubSeq(path, 1, i))
    BY DEF LinksOn, IsLink
  <2>3. Len(q) = j
    BY <2>1, Parts
  <2>4. SubSeq(q, 1, i) = SubSeq(path, 1, i)
    BY <2>1, Shorter
  <2> HIDE DEF q
  <2>5. i \in 0 .. Len(q) - 1
    BY <2>1, <2>3
  <2> QED
    BY <2>2, <2>4, <2>5, AboveAreDirs
<1>2. m \in Nat /\ n \in Nat
  BY LenProperties DEF LinksOn
<1> QED
  BY <1>1, <1>2

\* Following a link gives a path again.
LEMMA FollowType ==
    ASSUME NEW tree, IsTree(tree), NEW path \in Seq(Name)
    PROVE  Follow(tree, path) \in Seq(Name)
<1>1. CASE LinksOn(tree, path) = {}
  BY <1>1 DEF Follow
<1>2. ASSUME NEW n \in LinksOn(tree, path)
      PROVE  tree[SubSeq(path, 1, n)].to \o SubSeq(path, n + 1, Len(path)) \in Seq(Name)
  <2>1. Len(path) \in Nat /\ n \in 1 .. Len(path) /\ IsLink(tree, SubSeq(path, 1, n))
    BY LenProperties DEF LinksOn
  <2>2. tree[SubSeq(path, 1, n)].to \in Seq(Name)
    BY <2>1, EntryTypes DEF IsLink
  <2>3. n + 1 \in 1 .. Len(path) + 1 /\ Len(path) \in 0 .. Len(path)
    BY <2>1
  <2>4. SubSeq(path, n + 1, Len(path)) \in Seq(Name)
    BY <2>3, Parts
  <2> QED
    BY <2>2, <2>4, ConcatProperties
<1> QED
  BY <1>1, <1>2 DEF Follow

\* An entry that is no link has none on the way to it.
LEMMA EntriesHaveNoLinks ==
    ASSUME NEW tree, IsTree(tree), NEW p \in DOMAIN tree, ~IsLink(tree, p)
    PROVE  LinksOn(tree, p) = {} /\ Follow(tree, p) = p
<1>1. ASSUME NEW n \in 1 .. Len(p) PROVE ~IsLink(tree, SubSeq(p, 1, n))
  <2>1. Len(p) \in Nat /\ SubSeq(p, 1, Len(p)) = p
    BY EntryTypes
  <2>2. CASE n = Len(p)
    BY <2>1, <2>2
  <2>3. CASE n \in 0 .. Len(p) - 1
    BY <2>3, AboveAreDirs
  <2>4. n = Len(p) \/ n \in 0 .. Len(p) - 1
    <3>1. Len(p) \in Nat
      BY EntryTypes
    <3> QED
      BY <3>1
  <2> QED
    BY <2>2, <2>3, <2>4
<1> QED
  BY <1>1 DEF LinksOn, Follow

\* To follow the link on a path leaves alone what comes after it.
LEMMA FollowLonger ==
    ASSUME NEW tree, IsTree(tree), NEW path \in Seq(Name), NEW x \in Name, LinksOn(tree, path) # {}
    PROVE  Follow(tree, Append(path, x)) = Append(Follow(tree, path), x)
<1> DEFINE long == Append(path, x)
<1>1. PICK n : n \in LinksOn(tree, path)
  OBVIOUS
<1>2. Len(path) \in Nat /\ n \in 1 .. Len(path) /\ IsLink(tree, SubSeq(path, 1, n))
  BY <1>1, LenProperties DEF LinksOn
<1>3. long \in Seq(Name) /\ Len(long) = Len(path) + 1
  BY AppendProperties
<1>4. /\ SubSeq(long, 1, n) = SubSeq(path, 1, n)
      /\ SubSeq(long, n + 1, Len(long)) = Append(SubSeq(path, n + 1, Len(path)), x)
  <2>1. n \in 0 .. Len(path)
    BY <1>2
  <2> QED
    BY <1>3, <2>1, LongerParts
<1> HIDE DEF long
<1>5. n \in LinksOn(tree, long)
  <2>1. n \in 1 .. Len(long)
    BY <1>2, <1>3
  <2>2. IsLink(tree, SubSeq(long, 1, n))
    BY <1>2, <1>4
  <2> QED
    BY <2>1, <2>2 DEF LinksOn
<1>6. Follow(tree, path) = tree[SubSeq(path, 1, n)].to \o SubSeq(path, n + 1, Len(path))
  <2>1. (CHOOSE m \in LinksOn(tree, path) : TRUE) = n
    BY <1>1, OneLink
  <2> QED
    BY <1>1, <2>1 DEF Follow
<1>7. Follow(tree, long) = tree[SubSeq(path, 1, n)].to \o Append(SubSeq(path, n + 1, Len(path)), x)
  <2>1. (CHOOSE m \in LinksOn(tree, long) : TRUE) = n
    BY <1>3, <1>5, OneLink
  <2> QED
    BY <1>4, <1>5, <2>1 DEF Follow
<1>8. tree[SubSeq(path, 1, n)].to \in Seq(Name)
  BY <1>2, EntryTypes DEF IsLink
<1>9. SubSeq(path, n + 1, Len(path)) \in Seq(Name)
  <2>1. n + 1 \in 1 .. Len(path) + 1 /\ Len(path) \in 0 .. Len(path)
    BY <1>2
  <2> QED
    BY <2>1, Parts
<1>10. \A s, t \in Seq(Name) : s \o Append(t, x) = Append(s \o t, x)
  <2> SUFFICES ASSUME NEW s \in Seq(Name), NEW t \in Seq(Name) PROVE s \o Append(t, x) = Append(s \o t, x)
    OBVIOUS
  <2>1. Append(t, x) = t \o <<x>> /\ s \o t \in Seq(Name) /\ <<x>> \in Seq(Name)
    BY AppendIsConcat, ConcatProperties
  <2> QED
    BY <2>1, AppendIsConcat, ConcatAssociative
<1> QED
  BY <1>6, <1>7, <1>8, <1>9, <1>10 DEF long

\* The hops that RealPath takes: there is a function that its recursive definition
\* describes.
LEMMA Hops ==
    ASSUME NEW tree, IsTree(tree), NEW path \in Seq(Name)
    PROVE  \E hop \in [0 .. MaxHops -> Seq(Name)] :
             /\ hop[0] = path
             /\ \A n \in 0 .. MaxHops : n < MaxHops => hop[n + 1] = Follow(tree, hop[n])
             /\ RealPath(tree, path) =
                  IF IsFile(tree, hop[MaxHops]) \/ IsDir(tree, hop[MaxHops]) THEN hop[MaxHops] ELSE Invalid
<1> USE PathBounds
<1> DEFINE Fits(f, n) == f = [k \in 0 .. n |-> IF k = 0 THEN path ELSE Follow(tree, f[k - 1])]
           S == {n \in Nat : \E f : Fits(f, n)}
<1>1. 0 \in S
  <2> DEFINE f == [k \in 0 .. 0 |-> path]
  <2>1. Fits(f, 0)
    OBVIOUS
  <2> QED
    BY <2>1
<1>2. ASSUME NEW n \in Nat, n \in S PROVE n + 1 \in S
  <2>1. PICK f : Fits(f, n)
    BY <1>2
  <2> DEFINE g == [k \in 0 .. n + 1 |-> IF k = n + 1 THEN Follow(tree, f[n]) ELSE f[k]]
  <2>2. ASSUME NEW k \in 0 .. n + 1 PROVE g[k] = IF k = 0 THEN path ELSE Follow(tree, g[k - 1])
    <3>1. CASE k = n + 1
      <4>1. g[k] = Follow(tree, f[n]) /\ g[k - 1] = f[n] /\ k # 0
        BY <3>1
      <4> QED
        BY <4>1
    <3>2. CASE k \in 0 .. n
      <4>1. g[k] = f[k] /\ (k # 0 => g[k - 1] = f[k - 1])
        BY <3>2
      <4>2. f[k] = IF k = 0 THEN path ELSE Follow(tree, f[k - 1])
        BY <2>1, <3>2
      <4> QED
        BY <4>1, <4>2
    <3> QED
      BY <3>1, <3>2
  <2>3. Fits(g, n + 1)
    BY <2>2
  <2> HIDE DEF Fits
  <2> QED
    BY <2>3
<1>3. MaxHops \in S
  <2> HIDE DEF S
  <2>1. \A n \in 0 .. MaxHops : n < MaxHops /\ n \in S => n + 1 \in S
    BY <1>2
  <2> QED
    BY <1>1, <2>1, UpTo
<1> DEFINE hop == CHOOSE f : Fits(f, MaxHops)
<1>4. Fits(hop, MaxHops)
  <2> HIDE DEF Fits
  <2> QED
    BY <1>3
<1>5. RealPath(tree, path) =
        IF IsFile(tree, hop[MaxHops]) \/ IsDir(tree, hop[MaxHops]) THEN hop[MaxHops] ELSE Invalid
  BY DEF RealPath
<1> HIDE DEF hop
<1>6. /\ DOMAIN hop = 0 .. MaxHops /\ hop = [n \in 0 .. MaxHops |-> hop[n]] /\ hop[0] = path
      /\ \A n \in 0 .. MaxHops : n < MaxHops => hop[n + 1] = Follow(tree, hop[n])
  <2>1. hop[0] = path /\ DOMAIN hop = 0 .. MaxHops /\ hop = [n \in 0 .. MaxHops |-> hop[n]]
    BY <1>4
  <2>2. ASSUME NEW n \in 0 .. MaxHops, n < MaxHops PROVE hop[n + 1] = Follow(tree, hop[n])
    <3>1. n + 1 \in 0 .. MaxHops /\ n + 1 # 0 /\ (n + 1) - 1 = n
      BY <2>2
    <3> QED
      BY <1>4, <3>1
  <2> QED
    BY <2>1, <2>2
<1> HIDE DEF Fits
<1>7. \A n \in 0 .. MaxHops : hop[n] \in Seq(Name)
  <2> DEFINE T == {n \in 0 .. MaxHops : hop[n] \in Seq(Name)}
  <2>1. 0 \in T
    BY <1>6
  <2>2. ASSUME NEW n \in 0 .. MaxHops, n < MaxHops, n \in T PROVE n + 1 \in T
    <3>1. n + 1 \in 0 .. MaxHops
      BY <2>2
    <3>2. hop[n + 1] = Follow(tree, hop[n]) /\ hop[n] \in Seq(Name)
      BY <1>6, <2>2
    <3>3. hop[n + 1] \in Seq(Name)
      BY <3>2, FollowType
    <3> QED
      BY <3>1, <3>3
  <2> HIDE DEF T
  <2>3. \A n \in 0 .. MaxHops : n \in T
    BY <2>1, <2>2, UpTo
  <2> QED
    BY <2>3 DEF T
<1>8. hop \in [0 .. MaxHops -> Seq(Name)]
  BY <1>6, <1>7
<1> QED
  BY <1>5, <1>6, <1>8

\* What RealPath gives is an entry that is no link.
LEMMA RealIsThere ==
    ASSUME NEW tree, IsTree(tree), NEW path \in Seq(Name), RealPath(tree, path) # Invalid
    PROVE  /\ RealPath(tree, path) \in DOMAIN tree /\ ~IsLink(tree, RealPath(tree, path))
           /\ RealPath(tree, path) \in Seq(Name)
<1>1. IsFile(tree, RealPath(tree, path)) \/ IsDir(tree, RealPath(tree, path))
  BY Hops
<1> QED
  BY <1>1, EntryTypes DEF IsFile, IsDir, IsLink

\* An entry that is no link is where it says.
LEMMA EntriesAreReal ==
    ASSUME NEW tree, IsTree(tree), NEW p \in DOMAIN tree, ~IsLink(tree, p)
    PROVE  RealPath(tree, p) = p
<1> USE PathBounds
<1>1. p \in Seq(Name) /\ (IsFile(tree, p) \/ IsDir(tree, p)) /\ Follow(tree, p) = p
  BY EntryTypes, EntriesHaveNoLinks
<1>2. PICK hop \in [0 .. MaxHops -> Seq(Name)] :
        /\ hop[0] = p
        /\ \A n \in 0 .. MaxHops : n < MaxHops => hop[n + 1] = Follow(tree, hop[n])
        /\ RealPath(tree, p) =
             IF IsFile(tree, hop[MaxHops]) \/ IsDir(tree, hop[MaxHops]) THEN hop[MaxHops] ELSE Invalid
  BY <1>1, Hops
<1> DEFINE S == {n \in 0 .. MaxHops : hop[n] = p}
<1>3. 0 \in S /\ \A n \in 0 .. MaxHops : n < MaxHops /\ n \in S => n + 1 \in S
  BY <1>1, <1>2
<1> HIDE DEF S
<1>4. MaxHops \in S
  BY <1>3, UpTo
<1>5. hop[MaxHops] = p
  BY <1>4 DEF S
<1> QED
  BY <1>1, <1>2, <1>5

\* One name further: where a path leads, its longer one leads to the entry below,
\* unless that is a link.
LEMMA RealBelow ==
    ASSUME NEW tree, IsTree(tree), NEW path \in Seq(Name), NEW x \in Name,
           RealPath(tree, path) # Invalid,
           Append(RealPath(tree, path), x) \in DOMAIN tree,
           ~IsLink(tree, Append(RealPath(tree, path), x))
    PROVE  RealPath(tree, Append(path, x)) = Append(RealPath(tree, path), x)
<1> USE PathBounds
<1> DEFINE real == RealPath(tree, path)
           below == Append(real, x)
<1>1. PICK hop \in [0 .. MaxHops -> Seq(Name)] :
        /\ hop[0] = path
        /\ \A n \in 0 .. MaxHops : n < MaxHops => hop[n + 1] = Follow(tree, hop[n])
        /\ real = IF IsFile(tree, hop[MaxHops]) \/ IsDir(tree, hop[MaxHops]) THEN hop[MaxHops] ELSE Invalid
  BY Hops
<1>2. PICK jump \in [0 .. MaxHops -> Seq(Name)] :
        /\ jump[0] = Append(path, x)
        /\ \A n \in 0 .. MaxHops : n < MaxHops => jump[n + 1] = Follow(tree, jump[n])
        /\ RealPath(tree, Append(path, x)) =
             IF IsFile(tree, jump[MaxHops]) \/ IsDir(tree, jump[MaxHops]) THEN jump[MaxHops] ELSE Invalid
  <2>1. Append(path, x) \in Seq(Name)
    BY AppendProperties
  <2> QED
    BY <2>1, Hops
<1>3. hop[MaxHops] = real
  BY <1>1
<1>4. below \in DOMAIN tree /\ ~IsLink(tree, below) /\ LinksOn(tree, below) = {} /\ Follow(tree, below) = below
  BY EntriesHaveNoLinks
<1>5. IsFile(tree, below) \/ IsDir(tree, below)
  BY <1>4, EntryTypes
<1> HIDE DEF real, below
<1>6. ASSUME NEW n \in 0 .. MaxHops, LinksOn(tree, hop[n]) = {} PROVE hop[n] = real
  <2> DEFINE S == {k \in 0 .. MaxHops : k >= n => hop[k] = hop[n]}
  <2>1. Follow(tree, hop[n]) = hop[n]
    BY <1>6 DEF Follow
  <2>2. 0 \in S
    OBVIOUS
  <2>3. ASSUME NEW k \in 0 .. MaxHops, k < MaxHops, k \in S PROVE k + 1 \in S
    <3>1. CASE k >= n
      <4>1. hop[k] = hop[n] /\ hop[k + 1] = Follow(tree, hop[k]) /\ k + 1 \in 0 .. MaxHops
        BY <1>1, <2>3, <3>1
      <4> QED
        BY <2>1, <4>1
    <3>2. CASE k < n
      <4>1. k + 1 \in 0 .. MaxHops /\ (k + 1 >= n => k + 1 = n)
        BY <2>3, <3>2
      <4> QED
        BY <4>1
    <3> QED
      BY <3>1, <3>2
  <2> HIDE DEF S
  <2>4. MaxHops \in S
    BY <2>2, <2>3, UpTo
  <2>5. hop[MaxHops] = hop[n]
    BY <2>4 DEF S
  <2> QED
    BY <1>3, <2>5
<1> DEFINE S == {n \in 0 .. MaxHops : jump[n] = Append(hop[n], x)}
<1>7. 0 \in S
  BY <1>1, <1>2
<1>8. ASSUME NEW n \in 0 .. MaxHops, n < MaxHops, n \in S PROVE n + 1 \in S
  <2>1. /\ n + 1 \in 0 .. MaxHops /\ jump[n] = Append(hop[n], x) /\ hop[n] \in Seq(Name)
        /\ hop[n + 1] = Follow(tree, hop[n]) /\ jump[n + 1] = Follow(tree, jump[n])
    BY <1>1, <1>2, <1>8
  <2>2. CASE LinksOn(tree, hop[n]) # {}
    <3>1. jump[n + 1] = Append(hop[n + 1], x)
      BY <2>1, <2>2, FollowLonger
    <3> QED
      BY <2>1, <3>1
  <2>3. CASE LinksOn(tree, hop[n]) = {}
    <3>1. hop[n] = real /\ hop[n + 1] = real
      BY <1>6, <2>1, <2>3 DEF Follow
    <3>2. jump[n] = below /\ jump[n + 1] = below
      BY <1>4, <2>1, <3>1 DEF below
    <3> QED
      BY <2>1, <3>1, <3>2 DEF below
  <2> QED
    BY <2>2, <2>3
<1> HIDE DEF S
<1>9. MaxHops \in S
  BY <1>7, <1>8, UpTo
<1>10. jump[MaxHops] = below
  BY <1>3, <1>9 DEF S, below
<1> QED
  BY <1>2, <1>5, <1>10 DEF below, real

\* The nearest ancestor that exists is there: at worst the root is.
LEMMA ExistingIsNearest ==
    ASSUME NEW tree, IsTree(tree), NEW path \in Seq(Name)
    PROVE  /\ Existing(tree, path) \in 0 .. Len(path)
           /\ RealPath(tree, SubSeq(path, 1, Existing(tree, path))) # Invalid
           /\ \A m \in Existing(tree, path) + 1 .. Len(path) : RealPath(tree, SubSeq(path, 1, m)) = Invalid
<1> DEFINE last == Len(path)
           There(n) == RealPath(tree, SubSeq(path, 1, n)) # Invalid
           T == {k \in 0 .. last : There(last - k)}
<1>1. last \in Nat
  BY LenProperties
<1>2. There(0)
  <2>1. SubSeq(path, 1, 0) = <<>>
    BY SubSeqEmpty
  <2>2. <<>> \in DOMAIN tree /\ ~IsLink(tree, <<>>)
    BY DEF IsTree, IsLink
  <2>3. RealPath(tree, <<>>) = <<>> /\ <<>> \in Seq(Name)
    BY <2>2, EntriesAreReal, EmptySeq
  <2>4. <<>> # Invalid
    BY DEF Invalid
  <2> QED
    BY <2>1, <2>3, <2>4
<1> HIDE DEF last, There
<1>3. T \in SUBSET Nat /\ last \in T
  BY <1>1, <1>2
<1>4. PICK k \in T : \A m \in T : k <= m
  <2> HIDE DEF T
  <2> QED
    BY <1>3, Least
<1>5. /\ last - k \in 0 .. last /\ There(last - k)
      /\ \A m \in (last - k) + 1 .. last : ~There(m)
  <2>1. k \in 0 .. last /\ There(last - k) /\ last - k \in 0 .. last
    BY <1>1, <1>4
  <2>2. ASSUME NEW m \in (last - k) + 1 .. last, There(m) PROVE FALSE
    <3>1. last - m \in 0 .. last /\ last - (last - m) = m /\ last - m < k
      BY <1>1, <2>1
    <3>2. last - m \in T
      BY <2>2, <3>1
    <3> QED
      BY <1>1, <1>4, <2>1, <3>1, <3>2
  <2> QED
    BY <2>1, <2>2
<1>6. Existing(tree, path) = CHOOSE n \in 0 .. last : There(n) /\ \A m \in n + 1 .. last : ~There(m)
  BY DEF Existing, There, last
<1>7. /\ Existing(tree, path) \in 0 .. last /\ There(Existing(tree, path))
      /\ \A m \in Existing(tree, path) + 1 .. last : ~There(m)
  BY <1>5, <1>6
<1> QED
  BY <1>7 DEF There, last

-----------------------------------------------------------------------------
(* Names: what the checks on the letters let through.                        *)

\* Such names, written with slashes, mean themselves.
LEMMA SpelledOut ==
    ASSUME NEW names \in Seq(Name), ~Uses(names, Forbidden)
    PROVE  Normalize(Spelled(names)) = names /\ (names # <<>> => IsWritten(Spelled(names)))
<1>1. CASE names = <<>>
  <2>0. Spelled(names) = Empty
    BY <1>1 DEF Empty
  <2>1. Normalize(Spelled(names)) = names
    BY <1>1, <2>0, EmptyIsRoot
  <2> QED
    BY <1>1, <2>1
<1>2. CASE names # <<>>
  <2>1. Spelled(names).names = names /\ Spelled(names).back = FALSE
    BY <1>2 DEF Spelled
  <2>2. Empty.names = Invalid
    BY DEF Empty, Spelled, Invalid
  <2>3. Spelled(names) # Empty
    BY <2>1, <2>2, PathsAreValid
  <2>5. Len(names) \in Nat \ {0} /\ DOMAIN names = 1 .. Len(names)
    BY <1>2, EmptySeq, LenProperties
  <2>4. \A i \in 1 .. Len(names) : names[i] # "" /\ names[i] \in Name \cup {""}
    BY WrittenPathsAssumption, ElementOfSeq
  <2>6. names[1] # "" /\ ~Uses(names, {""})
    <3>1. 1 \in 1 .. Len(names)
      BY <2>5
    <3>2. names[1] # ""
      BY <2>4, <3>1
    <3>3. ~Uses(names, {""})
      BY <2>4, <2>5 DEF Uses
    <3> QED
      BY <3>2, <3>3
  <2>7. names \in Seq(Name \cup {""})
    BY <2>4, OfNames
  <2>8. Dropping(names, {""}) = names
    BY <2>6, <2>7, DroppingNames
  <2>9. Normalize(Spelled(names)) = names
    BY <2>1, <2>3, <2>6, <2>8 DEF Normalize, Forbidden
  <2> QED
    BY <1>2, <2>1, <2>7, <2>9 DEF IsWritten
<1> QED
  BY <1>1, <1>2

-----------------------------------------------------------------------------
(* Resolving: a path that is found is where the operating system finds it.   *)

\* The two parts of a path that was put together.
LEMMA Joined ==
    ASSUME NEW S, NEW s \in Seq(S), NEW t \in Seq(S)
    PROVE  /\ s \o t \in Seq(S) /\ Len(s \o t) = Len(s) + Len(t)
           /\ StartsWith(s \o t, s) /\ Rest(s, s \o t) = t
<1> DEFINE path == s \o t
           one == SubSeq(path, 1, Len(s))
           other == SubSeq(path, Len(s) + 1, Len(path))
<1>1. Len(s) \in Nat /\ Len(t) \in Nat
  BY LenProperties
<1>2. /\ path \in Seq(S) /\ Len(path) = Len(s) + Len(t)
      /\ \A i \in 1 .. Len(s) + Len(t) : path[i] = IF i <= Len(s) THEN s[i] ELSE t[i - Len(s)]
  BY ConcatProperties
<1> HIDE DEF path
<1>3. one = s
  <2>1. Len(s) \in 0 .. Len(path) /\ 1 \in 1 .. Len(path) + 1
    BY <1>1, <1>2
  <2>2. one \in Seq(S) /\ Len(one) = Len(s) /\ \A i \in 1 .. Len(s) : one[i] = path[i]
    BY <1>1, <1>2, <2>1, Parts
  <2>3. \A i \in 1 .. Len(s) : path[i] = s[i]
    BY <1>1, <1>2
  <2> HIDE DEF one
  <2> QED
    BY <2>2, <2>3, SeqEqual
<1>4. other = t
  <2>1. Len(s) + 1 \in 1 .. Len(path) + 1 /\ Len(path) \in 0 .. Len(path)
    BY <1>1, <1>2
  <2>2. /\ other \in Seq(S) /\ Len(other) = Len(t)
        /\ \A i \in 1 .. Len(t) : other[i] = path[Len(s) + i]
    <3>1. /\ other \in Seq(S)
          /\ Len(other) = IF Len(s) + 1 <= Len(path) THEN Len(path) - (Len(s) + 1) + 1 ELSE 0
          /\ \A i \in 1 .. Len(path) - (Len(s) + 1) + 1 : other[i] = path[(Len(s) + 1) + i - 1]
      BY <1>2, <2>1, Parts
    <3> HIDE DEF other
    <3>2. Len(other) = Len(t)
      BY <1>1, <1>2, <3>1
    <3>3. \A i \in 1 .. Len(t) : i \in 1 .. Len(path) - (Len(s) + 1) + 1 /\ (Len(s) + 1) + i - 1 = Len(s) + i
      BY <1>1, <1>2
    <3> QED
      BY <3>1, <3>2, <3>3
  <2>3. \A i \in 1 .. Len(t) : path[Len(s) + i] = t[i]
    <3> SUFFICES ASSUME NEW i \in 1 .. Len(t) PROVE path[Len(s) + i] = t[i]
      OBVIOUS
    <3>1. /\ Len(s) + i \in 1 .. Len(s) + Len(t) /\ ~ (Len(s) + i <= Len(s))
          /\ (Len(s) + i) - Len(s) = i
      BY <1>1
    <3> QED
      BY <1>2, <3>1
  <2> HIDE DEF other
  <2> QED
    BY <2>2, <2>3, SeqEqual
<1>5. Len(s) <= Len(path)
  BY <1>1, <1>2
<1> QED
  BY <1>2, <1>3, <1>4, <1>5 DEF StartsWith, Rest, path

\* A path that starts with another one is that one and the rest.
LEMMA Split ==
    ASSUME NEW S, NEW path \in Seq(S), NEW base, StartsWith(path, base), Len(base) \in Nat
    PROVE  Rest(base, path) \in Seq(S) /\ path = base \o Rest(base, path)
<1>1. Len(path) \in Nat /\ Len(base) <= Len(path) /\ SubSeq(path, 1, Len(base)) = base
  BY LenProperties DEF StartsWith
<1>2. /\ 1 \in 1 .. Len(path) + 1 /\ Len(base) \in 1 - 1 .. Len(path) /\ Len(path) \in Len(base) .. Len(path)
      /\ Len(base) + 1 \in 1 .. Len(path) + 1 /\ Len(path) \in 0 .. Len(path)
  BY <1>1
<1>3. SubSeq(path, 1, Len(base)) \o SubSeq(path, Len(base) + 1, Len(path)) = SubSeq(path, 1, Len(path))
  BY <1>2, ConcatAdjacentSubSeq
<1>4. SubSeq(path, 1, Len(path)) = path
  BY SubSeqFull
<1>5. SubSeq(path, Len(base) + 1, Len(path)) \in Seq(S)
  BY <1>2, Parts
<1> QED
  BY <1>1, <1>3, <1>4, <1>5 DEF Rest

\* A part and the next name.
LEMMA NextPart ==
    ASSUME NEW S, NEW path \in Seq(S), NEW n \in Nat, n < Len(path)
    PROVE  /\ SubSeq(path, 1, n) \in Seq(S) /\ path[n + 1] \in S
           /\ SubSeq(path, 1, n + 1) = Append(SubSeq(path, 1, n), path[n + 1])
<1>1. Len(path) \in Nat
  BY LenProperties
<1>2. n + 1 \in 1 .. Len(path) /\ n \in 0 .. Len(path) /\ 1 \in 1 .. Len(path) /\ (n + 1) - 1 = n
      /\ 1 \in 1 .. Len(path) + 1
  BY <1>1
<1>3. path[n + 1] \in S /\ SubSeq(path, 1, n) \in Seq(S)
  BY <1>2, ElementOfSeq, Parts
<1>4. SubSeq(path, 1, n + 1) = SubSeq(path, 1, (n + 1) - 1) \o <<path[n + 1]>>
  <2>1. n + 1 \in 1 .. Len(path)
    BY <1>2
  <2> QED
    BY <1>2, <2>1, SubSeqRecursiveSecond
<1> QED
  BY <1>2, <1>3, <1>4, AppendIsConcat

\* One name into the second part.
LEMMA StepOn ==
    ASSUME NEW S, NEW s \in Seq(S), NEW t \in Seq(S), Len(t) > 0
    PROVE  /\ t[1] \in S /\ Len(s) + 1 \in 1 .. Len(s \o t)
           /\ SubSeq(s \o t, 1, Len(s) + 1) = Append(s, t[1])
<1> DEFINE path == s \o t
<1>1. Len(s) \in Nat /\ Len(t) \in Nat
  BY LenProperties
<1>2. path \in Seq(S) /\ Len(path) = Len(s) + Len(t) /\ SubSeq(path, 1, Len(s)) = s
  BY Joined DEF StartsWith
<1>3. path[Len(s) + 1] = t[1]
  <2>1. Len(s) + 1 \in 1 .. Len(s) + Len(t) /\ ~ (Len(s) + 1 <= Len(s)) /\ (Len(s) + 1) - Len(s) = 1
    BY <1>1
  <2> QED
    BY <2>1, ConcatProperties
<1> HIDE DEF path
<1>4. SubSeq(path, 1, Len(s) + 1) = Append(SubSeq(path, 1, Len(s)), path[Len(s) + 1])
  <2>1. Len(s) < Len(path)
    BY <1>1, <1>2
  <2> QED
    BY <1>1, <1>2, <2>1, NextPart
<1>5. Len(s) + 1 \in 1 .. Len(path) /\ 1 \in 1 .. Len(t)
  BY <1>1, <1>2
<1>6. t[1] \in S
  BY <1>5, ElementOfSeq
<1> QED
  BY <1>2, <1>3, <1>4, <1>5, <1>6 DEF path

\* What resolveRealPathInside returns, when there is a file or a directory at it,
\* is what the operating system finds at the path, and it is below the base.
LEMMA ResolvedIsReal ==
    ASSUME NEW tree, IsTree(tree), NEW written, IsWritten(written),
           ResolveRealPathInside(tree, written) \in DOMAIN tree,
           ~IsLink(tree, ResolveRealPathInside(tree, written))
    PROVE  /\ Normalize(written) \in Seq(Name) /\ ~Uses(Normalize(written), Forbidden)
           /\ ResolveRealPathInside(tree, written) = RealPath(tree, Base \o Normalize(written))
           /\ StartsWith(ResolveRealPathInside(tree, written), RealBase(tree))
<1> USE PathBounds
<1> DEFINE found == ResolveRealPathInside(tree, written)
           path == Base \o ResolveInside(written)
           n == Existing(tree, path)
           real == RealPath(tree, SubSeq(path, 1, n))
           last == SubSeq(path, n + 1, Len(path))
<1>1. found # Invalid
  BY EntryTypes, PathsAreValid
<1>2. /\ found = real \o last /\ ResolveInside(written) # Invalid
      /\ IsInside(RealBase(tree), found)
  BY <1>1 DEF ResolveRealPathInside
<1>3. ResolveInside(written) = Normalize(written) /\ Normalize(written) # Invalid
  BY <1>2 DEF ResolveInside
<1>4. Normalize(written) \in Seq(Name) /\ ~Uses(Normalize(written), Forbidden)
  BY <1>3, Normalized
<1>5. path \in Seq(Name) /\ path = Base \o Normalize(written)
  BY <1>3, <1>4, ConcatProperties
<1> HIDE DEF path
<1>6. /\ n \in 0 .. Len(path) /\ real # Invalid
      /\ \A m \in n + 1 .. Len(path) : RealPath(tree, SubSeq(path, 1, m)) = Invalid
  BY <1>5, ExistingIsNearest
<1> HIDE DEF n
<1>7. Len(path) \in Nat /\ n \in Nat
  BY <1>5, <1>6, LenProperties
<1>8. found \in DOMAIN tree /\ ~IsLink(tree, found)
  OBVIOUS
<1> HIDE DEF found
<1>9. CASE n = Len(path)
  <2>1. last = <<>>
    <3>1. Len(path) < n + 1 /\ n + 1 \in Int /\ Len(path) \in Int
      BY <1>7, <1>9
    <3> QED
      BY <3>1, SubSeqEmpty
  <2>2. SubSeq(path, 1, n) = path
    BY <1>5, <1>9, SubSeqFull
  <2>3. real \in Seq(Name)
    BY <1>5, <1>6, <2>2, RealIsThere
  <2>4. real \o <<>> = real
    BY <2>3, ConcatEmptySeq
  <2>5. found = RealPath(tree, path)
    BY <1>2, <2>1, <2>2, <2>4
  <2>6. path = Base \o Normalize(written) /\ StartsWith(found, RealBase(tree))
    BY <1>2, <1>5 DEF IsInside
  <2> QED
    BY <1>4, <2>5, <2>6 DEF found
<1>10. CASE n < Len(path)
  <2> DEFINE upper == SubSeq(path, 1, n)
             x == path[n + 1]
  <2>1. upper \in Seq(Name) /\ x \in Name /\ SubSeq(path, 1, n + 1) = Append(upper, x)
    BY <1>5, <1>7, <1>10, NextPart
  <2>2. n + 1 \in 1 .. Len(path) + 1 /\ Len(path) \in 0 .. Len(path) /\ n + 1 \in n + 1 .. Len(path)
    BY <1>7, <1>10
  <2>3. last \in Seq(Name) /\ Len(last) > 0 /\ last[1] = x
    <3>1. /\ last \in Seq(Name)
          /\ Len(last) = IF n + 1 <= Len(path) THEN Len(path) - (n + 1) + 1 ELSE 0
          /\ \A i \in 1 .. Len(path) - (n + 1) + 1 : last[i] = path[(n + 1) + i - 1]
      BY <1>5, <2>2, Parts
    <3> HIDE DEF last, x
    <3>2. Len(last) > 0 /\ 1 \in 1 .. Len(path) - (n + 1) + 1 /\ (n + 1) + 1 - 1 = n + 1
      BY <1>7, <1>10, <3>1
    <3>3. last[1] = path[n + 1]
      BY <3>1, <3>2
    <3> QED
      BY <3>1, <3>2, <3>3 DEF x
  <2>4. real \in Seq(Name)
    BY <1>6, <2>1, RealIsThere
  <2>5. RealPath(tree, Append(upper, x)) = Invalid
    BY <1>6, <2>1, <2>2
  <2> HIDE DEF last, x
  <2> DEFINE q == SubSeq(found, 1, Len(real) + 1)
  <2>6. q = Append(real, x) /\ Len(real) + 1 \in 1 .. Len(found)
    BY <1>2, <2>3, <2>4, StepOn
  <2>7. q \in DOMAIN tree /\ ~IsLink(tree, q)
    <3>1. found \in Seq(Name) /\ Len(found) \in Nat /\ SubSeq(found, 1, Len(found)) = found
      BY <1>8, EntryTypes
    <3>2. CASE Len(real) + 1 = Len(found)
      BY <1>8, <3>1, <3>2
    <3>3. CASE Len(real) + 1 \in 0 .. Len(found) - 1
      BY <1>8, <3>3, AboveAreDirs DEF IsDir
    <3>4. Len(real) + 1 = Len(found) \/ Len(real) + 1 \in 0 .. Len(found) - 1
      <4> DEFINE i == Len(real) + 1
      <4>1. i \in 1 .. Len(found)
        BY <2>6
      <4>3. Len(found) \in Nat
        BY <3>1
      <4> HIDE DEF i
      <4>2. i = Len(found) \/ i \in 0 .. Len(found) - 1
        BY <4>1, <4>3
      <4> QED
        BY <4>2 DEF i
    <3> QED
      BY <3>2, <3>3, <3>4
  <2> HIDE DEF q
  <2>8. RealPath(tree, Append(upper, x)) = Append(real, x)
    <3>1. real = RealPath(tree, upper) /\ RealPath(tree, upper) # Invalid
      BY <1>6
    <3> HIDE DEF real, upper
    <3>2. Append(RealPath(tree, upper), x) \in DOMAIN tree /\ ~IsLink(tree, Append(RealPath(tree, upper), x))
      BY <2>6, <2>7, <3>1
    <3> QED
      BY <2>1, <3>1, <3>2, RealBelow
  <2>9. Append(real, x) # Invalid
    BY <2>1, <2>4, AppendProperties, PathsAreValid
  <2> QED
    BY <2>5, <2>8, <2>9
<1>11. n = Len(path) \/ n < Len(path)
  BY <1>6, <1>7
<1> QED
  BY <1>9, <1>10, <1>11

\* What is served is below the base, and is what the operating system finds at the
\* path or at an index below it.
LEMMA ServedFiles ==
    ASSUME NEW tree, IsTree(tree), NEW written, IsWritten(written),
           ServeFile(tree, written) # Invalid
    PROVE  LET opened == ServeFile(tree, written)
               path == Base \o Normalize(written)
           IN  /\ StartsWith(opened, RealBase(tree)) /\ IsFile(tree, opened)
               /\ \/ opened = RealPath(tree, path)
                  \/ \E i \in DOMAIN IndexNames : opened = RealPath(tree, Append(path, IndexNames[i]))
<1> DEFINE found == ResolveRealPathInside(tree, written)
           Index(i) == ResolveRealPathInside(tree, Spelled(Append(Normalize(written), IndexNames[i])))
           indexes == {i \in DOMAIN IndexNames : IsFile(tree, Index(i))}
           first == CHOOSE i \in indexes : \A j \in indexes : i <= j
           opened == ServeFile(tree, written)
           path == Base \o Normalize(written)
<1>1. opened = IF IsFile(tree, found) THEN found
               ELSE IF IsDir(tree, found) /\ indexes # {} THEN Index(first)
               ELSE Invalid
  BY DEF ServeFile
<1>2. \A p : IsFile(tree, p) \/ IsDir(tree, p) => p \in DOMAIN tree /\ ~IsLink(tree, p)
  BY DEF IsFile, IsDir, IsLink
<1>3. CASE IsFile(tree, found)
  <2>1. opened = found
    BY <1>1, <1>3
  <2>2. found = RealPath(tree, path) /\ StartsWith(found, RealBase(tree))
    BY <1>2, <1>3, ResolvedIsReal
  <2> QED
    BY <1>3, <2>1, <2>2
<1>4. CASE ~IsFile(tree, found)
  <2>1. IsDir(tree, found) /\ indexes # {} /\ opened = Index(first)
    BY <1>1, <1>4
  <2>2. Normalize(written) \in Seq(Name) /\ ~Uses(Normalize(written), Forbidden)
    BY <1>2, <2>1, ResolvedIsReal
  <2>3. DOMAIN IndexNames = 1 .. 2
    BY DEF IndexNames
  <2>4. first \in indexes
    <3>1. indexes \in SUBSET Nat
      BY <2>3
    <3> HIDE DEF indexes
    <3>2. \E i \in indexes : \A j \in indexes : i <= j
      BY <2>1, <3>1, Least
    <3> QED
      BY <3>2
  <2> HIDE DEF first
  <2>5. first \in DOMAIN IndexNames /\ IsFile(tree, Index(first))
    BY <2>4
  <2> DEFINE name == IndexNames[first]
             longer == Append(Normalize(written), name)
  <2>6. name \in Name /\ name \notin Forbidden
    <3>1. name \in Name
      BY <2>3, <2>5, PathsAssumption, ElementOfSeq, LenProperties
    <3>2. first = 1 \/ first = 2
      BY <2>3, <2>5
    <3>3. name \in {"index.html", "index.xhtml"}
      BY <3>2 DEF IndexNames
    <3> QED
      BY <3>1, <3>3 DEF Forbidden, Control
  <2> HIDE DEF name
  <2>7. longer \in Seq(Name) /\ longer # <<>> /\ ~Uses(longer, Forbidden)
    <3> DEFINE names == Normalize(written)
    <3>1. Len(names) \in Nat /\ DOMAIN names = 1 .. Len(names)
      BY <2>2, LenProperties
    <3> HIDE DEF names
    <3>2. /\ longer \in Seq(Name) /\ longer # <<>> /\ Len(longer) = Len(names) + 1
          /\ longer[Len(names) + 1] = name
          /\ \A i \in 1 .. Len(names) : longer[i] = names[i]
      BY <2>2, <2>6, AppendProperties DEF names
    <3> HIDE DEF longer
    <3>3. DOMAIN longer = 1 .. Len(names) + 1
      BY <3>2, LenProperties
    <3>4. \A i \in DOMAIN longer : i \in DOMAIN names \/ i = Len(names) + 1
      BY <3>1, <3>3
    <3>5. \A i \in DOMAIN names : names[i] \notin Forbidden
      BY <2>2 DEF Uses, names
    <3> QED
      BY <2>6, <3>1, <3>2, <3>4, <3>5 DEF Uses
  <2>8. Normalize(Spelled(longer)) = longer /\ IsWritten(Spelled(longer))
    BY <2>7, SpelledOut
  <2>9. Index(first) = ResolveRealPathInside(tree, Spelled(longer))
    BY DEF name
  <2> HIDE DEF longer, Index
  <2>10. /\ Index(first) = RealPath(tree, Base \o longer)
         /\ StartsWith(Index(first), RealBase(tree))
    BY <1>2, <2>5, <2>8, <2>9, ResolvedIsReal
  <2>11. Base \o longer = Append(path, name)
    <3>1. /\ Base \in Seq(Name) /\ <<name>> \in Seq(Name) /\ path \in Seq(Name)
          /\ longer = Normalize(written) \o <<name>> /\ Append(path, name) = path \o <<name>>
      BY <2>2, <2>6, PathBounds, AppendIsConcat, ConcatProperties DEF longer
    <3> QED
      BY <2>2, <3>1, ConcatAssociative
  <2> QED
    BY <2>1, <2>5, <2>10, <2>11 DEF name
<1> QED
  BY <1>3, <1>4

\* The checks on letters agree with each other.
LEMMA MeaningsKept ==
    ASSUME NEW base, IsWritten(base), NEW child, IsWritten(child)
    PROVE  /\ JoinSharePath(base, child) # Invalid => StartsWith(JoinSharePath(base, child), Normalize(base))
           /\ Normalize(child) # Invalid => Normalize(Spelled(Normalize(child))) = Normalize(child)
           /\ ClientAccepts(child) /\ child # Empty => Normalize(child) \in {Invalid, child.names}
<1>1. ASSUME JoinSharePath(base, child) # Invalid
      PROVE  StartsWith(JoinSharePath(base, child), Normalize(base))
  <2>1. /\ Normalize(base) # Invalid /\ Normalize(child) # Invalid
        /\ JoinSharePath(base, child) = Normalize(base) \o Normalize(child)
    BY <1>1 DEF JoinSharePath
  <2>2. Normalize(base) \in Seq(Name) /\ Normalize(child) \in Seq(Name)
    BY <2>1, Normalized
  <2> QED
    BY <2>1, <2>2, Joined
<1>2. ASSUME Normalize(child) # Invalid
      PROVE  Normalize(Spelled(Normalize(child))) = Normalize(child)
  BY <1>2, Normalized, SpelledOut
<1>3. ASSUME ClientAccepts(child), child # Empty, Normalize(child) # Invalid
      PROVE  Normalize(child) = child.names
  <2>1. ~Uses(child.names, {"", ".", "..", Control})
    BY <1>3 DEF ClientAccepts
  <2>2. ~Uses(child.names, {""})
    BY <2>1 DEF Uses
  <2>3. Normalize(child) = Dropping(child.names, {""})
    BY <1>3 DEF Normalize
  <2> QED
    BY <2>2, <2>3, DroppingNames DEF IsWritten
<1> QED
  BY <1>1, <1>2, <1>3

-----------------------------------------------------------------------------
(* Imports.                                                                  *)

\* The base, resolved or not, and the path of an import are paths of names.
LEMMA RealBaseType == ASSUME NEW tree, IsTree(tree) PROVE RealBase(tree) \in Seq(Name)
BY PathBounds, RealIsThere DEF RealBase

LEMMA ImportPathType ==
    ASSUME NEW written, IsWritten(written), ImportPath(written) # Invalid
    PROVE  ImportPath(written) \in Seq(Name)
<1>1. CASE written = Empty
  BY <1>1, EmptySeq DEF ImportPath
<1>2. CASE written # Empty
  <2>1. ImportPath(written) = Dropping(written.names, {"", "."})
    BY <1>2 DEF ImportPath
  <2> QED
    BY <2>1, DroppingNames DEF IsWritten
<1> QED
  BY <1>1, <1>2

\* The walk of the copy enters all directories on the way to a file below the base,
\* unless the way starts with two dots.
LEMMA EntersAll ==
    ASSUME NEW tree, IsTree(tree), NEW names \in Seq(Name),
           NEW p \in FilesBelow(tree, RealBase(tree) \o names)
    PROVE  (\A n \in Len(RealBase(tree) \o names) .. Len(p) : Enters(tree, SubSeq(p, 1, n)))
             <=> Below(Rest(RealBase(tree), p))
<1> DEFINE base == RealBase(tree)
           source == base \o names
           rest == Rest(base, p)
<1>1. base \in Seq(Name) /\ Len(base) \in Nat /\ Len(names) \in Nat
  BY RealBaseType, LenProperties
<1>2. /\ p \in DOMAIN tree /\ IsFile(tree, p) /\ ~IsLink(tree, p) /\ StartsWith(p, source)
      /\ p \in Seq(Name) /\ Len(p) \in Nat /\ SubSeq(p, 1, Len(p)) = p
  BY EntryTypes DEF FilesBelow, IsFile, IsLink
<1> HIDE DEF base
<1>3. source \in Seq(Name) /\ Len(source) = Len(base) + Len(names) /\ SubSeq(source, 1, Len(base)) = base
  BY <1>1, Joined DEF StartsWith
<1> HIDE DEF source
<1>4. Len(source) <= Len(p) /\ SubSeq(p, 1, Len(source)) = source
  BY <1>2 DEF StartsWith
<1>5. SubSeq(p, 1, Len(base)) = base
  <2>1. Len(source) \in 0 .. Len(p) /\ Len(base) \in 0 .. Len(source)
    BY <1>1, <1>2, <1>3, <1>4
  <2>2. SubSeq(SubSeq(p, 1, Len(source)), 1, Len(base)) = SubSeq(p, 1, Len(base))
    BY <1>2, <2>1, Shorter
  <2> QED
    BY <1>3, <1>4, <2>2
<1>6. ASSUME NEW n \in Len(source) .. Len(p)
      PROVE  /\ Enters(tree, SubSeq(p, 1, n)) <=> Below(Rest(base, SubSeq(p, 1, n)))
             /\ Below(rest) => Below(Rest(base, SubSeq(p, 1, n)))
  <2> DEFINE q == SubSeq(p, 1, n)
  <2>1. n \in Nat /\ n \in 0 .. Len(p) /\ Len(base) <= n /\ Len(base) \in 0 .. n
    BY <1>1, <1>2, <1>3, <1>4
  <2>2. q \in DOMAIN tree /\ ~IsLink(tree, q)
    <3>1. CASE n = Len(p)
      BY <1>2, <3>1
    <3>2. CASE n \in 0 .. Len(p) - 1
      BY <1>2, <3>2, AboveAreDirs DEF IsDir
    <3>4. Len(p) \in Nat
      BY <1>2
    <3>5. n \in 0 .. Len(p)
      BY <2>1
    <3>3. n = Len(p) \/ n \in 0 .. Len(p) - 1
      BY <3>4, <3>5
    <3> QED
      BY <3>1, <3>2, <3>3
  <2>3. q \in Seq(Name) /\ Len(q) = n /\ \A i \in 1 .. n : q[i] = p[i]
    BY <1>2, <2>1, Parts
  <2>4. SubSeq(q, 1, Len(base)) = base
    BY <1>2, <1>5, <2>1, Shorter
  <2> HIDE DEF q
  <2>5. RealPath(tree, q) = q
    BY <2>2, EntriesAreReal
  <2>6. StartsWith(q, base)
    BY <2>1, <2>3, <2>4 DEF StartsWith
  <2>7. Enters(tree, q) <=> Below(Rest(base, q))
    BY <2>2, <2>5, <2>6 DEF Enters, IsInside, base
  <2>8. ASSUME Below(rest) PROVE Below(Rest(base, q))
    <3>1. CASE n = Len(base)
      <4>1. Rest(base, q) = <<>>
        <5>1. Len(base) + 1 \in Int /\ Len(q) \in Int /\ Len(q) < Len(base) + 1
          BY <1>1, <2>1, <2>3, <3>1
        <5> QED
          BY <5>1, SubSeqEmpty DEF Rest
      <4> QED
        BY <4>1 DEF Below
    <3>2. CASE Len(base) < n
      <4>1. Rest(base, q)[1] = q[Len(base) + 1]
        <5>1. Len(base) + 1 \in 1 .. Len(q) + 1 /\ Len(q) \in 0 .. Len(q)
          BY <1>1, <2>1, <2>3
        <5>2. \A i \in 1 .. Len(q) - (Len(base) + 1) + 1 : Rest(base, q)[i] = q[(Len(base) + 1) + i - 1]
          BY <2>3, <5>1, Parts DEF Rest
        <5>3. 1 \in 1 .. Len(q) - (Len(base) + 1) + 1 /\ (Len(base) + 1) + 1 - 1 = Len(base) + 1
          BY <1>1, <2>1, <2>3, <3>2
        <5> QED
          BY <5>2, <5>3
      <4>2. rest[1] = p[Len(base) + 1] /\ rest # <<>>
        <5>1. Len(base) + 1 \in 1 .. Len(p) + 1 /\ Len(p) \in 0 .. Len(p)
          BY <1>1, <1>2, <2>1
        <5>2. /\ Len(rest) = IF Len(base) + 1 <= Len(p) THEN Len(p) - (Len(base) + 1) + 1 ELSE 0
              /\ \A i \in 1 .. Len(p) - (Len(base) + 1) + 1 : rest[i] = p[(Len(base) + 1) + i - 1]
          BY <1>2, <5>1, Parts DEF Rest
        <5> HIDE DEF rest
        <5>3. 1 \in 1 .. Len(p) - (Len(base) + 1) + 1 /\ (Len(base) + 1) + 1 - 1 = Len(base) + 1
          BY <1>1, <1>2, <2>1, <3>2
        <5>4. rest[1] = p[Len(base) + 1]
          BY <5>2, <5>3
        <5>7. Len(p) \in Nat
          BY <1>2
        <5>8. Len(base) \in Nat /\ Len(base) < n /\ n \in 0 .. Len(p)
          BY <1>1, <2>1, <3>2
        <5>9. Len(rest) = IF Len(base) + 1 <= Len(p) THEN Len(p) - (Len(base) + 1) + 1 ELSE 0
          BY <5>2
        <5>5. Len(rest) # 0
          BY <5>7, <5>8, <5>9
        <5>6. rest # <<>>
          BY <5>5, EmptySeq
        <5> QED
          BY <5>4, <5>6
      <4>3. q[Len(base) + 1] = p[Len(base) + 1]
        <5>1. Len(base) + 1 \in 1 .. n
          BY <1>1, <2>1, <3>2
        <5> QED
          BY <2>3, <5>1
      <4>4. rest[1] \notin Upward
        BY <2>8, <4>2 DEF Below
      <4> QED
        BY <4>1, <4>2, <4>3, <4>4 DEF Below
    <3> QED
      BY <1>1, <2>1, <3>1, <3>2
  <2> QED
    BY <2>7, <2>8 DEF q
<1>7. Len(p) \in Len(source) .. Len(p)
  BY <1>1, <1>2, <1>3, <1>4
<1>8. Enters(tree, p) <=> Below(rest)
  BY <1>2, <1>6, <1>7
<1> QED
  BY <1>2, <1>6, <1>7, <1>8 DEF source, base

\* What is part of a set of files is not larger in total.
LEMMA PartsAreSmaller ==
    ASSUME NEW tree, NEW files, IsFiniteSet(files), \A p \in files : tree[p].size \in 0 .. MaxBlob,
           NEW some \in SUBSET files
    PROVE  /\ TotalSize(tree, some) <= TotalSize(tree, files)
           /\ TotalSize(tree, some) \in Nat /\ TotalSize(tree, files) \in Nat
<1> USE PathBounds
<1> DEFINE Bytes(set) == UNION {{p} \X (1 .. tree[p].size) : p \in set}
<1>1. IsFiniteSet(files \X (1 .. MaxBlob))
  <2>1. MaxBlob \in Nat /\ 1 \in Int /\ MaxBlob \in Int
    OBVIOUS
  <2>2. IsFiniteSet(1 .. MaxBlob)
    BY <2>1, FS_Interval
  <2> QED
    BY <2>2, FS_Product
<1>2. Bytes(files) \in SUBSET (files \X (1 .. MaxBlob))
  <2> SUFFICES ASSUME NEW p \in files, NEW b \in {p} \X (1 .. tree[p].size)
               PROVE  b \in files \X (1 .. MaxBlob)
    OBVIOUS
  <2>1. MaxBlob \in Nat
    OBVIOUS
  <2>2. tree[p].size \in 0 .. MaxBlob
    OBVIOUS
  <2>3. \A i \in 1 .. tree[p].size : i \in 1 .. MaxBlob
    BY <2>1, <2>2
  <2> QED
    BY <2>3
<1>3. Bytes(some) \in SUBSET Bytes(files)
  OBVIOUS
<1> HIDE DEF Bytes
<1>4. IsFiniteSet(Bytes(files))
  BY <1>1, <1>2, FS_Subset
<1>5. Cardinality(Bytes(some)) <= Cardinality(Bytes(files)) /\ IsFiniteSet(Bytes(some))
  BY <1>3, <1>4, FS_Subset
<1>6. Cardinality(Bytes(some)) \in Nat /\ Cardinality(Bytes(files)) \in Nat
  BY <1>4, <1>5, FS_CardinalityType
<1> QED
  BY <1>5, <1>6 DEF TotalSize, Bytes

\* What an import copies is what is below the selection, within the limits.
LEMMA ImportsAreSelected ==
    ASSUME NEW tree, IsTree(tree), NEW written, IsWritten(written), Import(tree, written) # {}
    PROVE  LET source == RealBase(tree) \o ImportPath(written)
               taken == Import(tree, written)
               Kept(p) == Below(Rest(RealBase(tree), p)) /\ ~Uses(Rest(source, p), {".git"})
           IN  /\ taken = {p \in FilesBelow(tree, source) : Kept(p)}
               /\ \A p \in taken : RealPath(tree, p) = p /\ tree[p].size <= MaxBlob
               /\ MaxTotal > 0 => TotalSize(tree, taken) <= MaxTotal
<1> DEFINE source == RealBase(tree) \o ImportPath(written)
           taken == Import(tree, written)
           files == FilesBelow(tree, source)
           Kept(p) == Below(Rest(RealBase(tree), p)) /\ ~Uses(Rest(source, p), {".git"})
<1>1. ImportPath(written) # Invalid /\ WithinLimit(tree, source) /\ taken = CopyWithoutSymlinks(tree, source)
  BY DEF Import
<1>2. taken = {p \in files : Kept(p)}
  <2>1. ImportPath(written) \in Seq(Name)
    BY <1>1, ImportPathType
  <2>2. \A p \in files : (\A n \in Len(source) .. Len(p) : Enters(tree, SubSeq(p, 1, n)))
                           <=> Below(Rest(RealBase(tree), p))
    BY <2>1, EntersAll
  <2>3. taken = {p \in files : /\ \A n \in Len(source) .. Len(p) : Enters(tree, SubSeq(p, 1, n))
                               /\ ~Uses(Rest(source, p), {".git"})}
    BY <1>1 DEF CopyWithoutSymlinks
  <2> HIDE DEF source, files, taken
  <2> QED
    BY <2>2, <2>3
<1>3. \A p \in files : /\ p \in DOMAIN tree /\ ~IsLink(tree, p) /\ tree[p].size \in Nat
                       /\ tree[p].size <= MaxBlob
  BY <1>1 DEF FilesBelow, WithinLimit, IsFile, IsLink, IsTree
<1>4. \A p \in taken : RealPath(tree, p) = p /\ tree[p].size <= MaxBlob
  BY <1>2, <1>3, EntriesAreReal
<1>5. ASSUME MaxTotal > 0 PROVE TotalSize(tree, taken) <= MaxTotal
  <2>1. IsFiniteSet(files)
    <3>1. IsFiniteSet(DOMAIN tree) /\ files \in SUBSET DOMAIN tree
      BY DEF IsTree, FilesBelow
    <3> QED
      BY <3>1, FS_Subset
  <2>2. \A p \in files : tree[p].size \in 0 .. MaxBlob
    <3>1. MaxBlob \in Nat
      BY PathBounds
    <3> QED
      BY <1>3, <3>1
  <2>3. taken \in SUBSET files
    BY <1>2
  <2>4. TotalSize(tree, files) <= MaxTotal
    BY <1>1, <1>5 DEF WithinLimit
  <2> HIDE DEF taken, files
  <2>5. /\ TotalSize(tree, taken) <= TotalSize(tree, files)
        /\ TotalSize(tree, taken) \in Nat /\ TotalSize(tree, files) \in Nat
    BY <2>1, <2>2, <2>3, PartsAreSmaller
  <2>6. MaxTotal \in Nat
    BY PathBounds
  <2> QED
    BY <2>4, <2>5, <2>6
<1> QED
  BY <1>2, <1>4, <1>5

-----------------------------------------------------------------------------
(* What a request opens, whatever the tree, the path and the limits are.     *)

PathsInv ==
    asked = NotAsked \/ asked \in [tree : Trees, base : Shared, child : Written]

\* A request is of the trees and paths there are, and that is all the properties need.
LEMMA PathsKept ==
    /\ PathsInit => PathsInv
    /\ PathsInv /\ [PathsNext]_asked => PathsInv'
    /\ PathsInv => PathsStayInside
<1>1. PathsInit => PathsInv
  BY DEF PathsInit, PathsInv
<1>2. PathsInv /\ [PathsNext]_asked => PathsInv'
  BY DEF PathsInv, PathsNext, Ask
<1>3. PathsInv => PathsStayInside
  <2> SUFFICES ASSUME PathsInv, asked # NotAsked PROVE PathsStayInside
    BY DEF PathsStayInside
  <2>1. asked.tree \in Trees /\ asked.base \in Shared /\ asked.child \in Written
    BY DEF PathsInv
  <2>2. IsTree(asked.tree) /\ IsWritten(asked.base) /\ IsWritten(asked.child)
    BY <2>1, PathsAssumption
  <2>3. ServedIsInside
    BY <2>2, ServedFiles DEF ServedIsInside
  <2>4. PathsKeepTheirMeaning
    BY <2>2, MeaningsKept DEF PathsKeepTheirMeaning
  <2>5. ImportIsSelected
    BY <2>2, ImportsAreSelected DEF ImportIsSelected
  <2> QED
    BY <2>3, <2>4, <2>5 DEF PathsStayInside
<1> QED
  BY <1>1, <1>2, <1>3

\* For any file system with links, any path a request, a share or an import has, and
\* any limits: what is served is inside and is what is found at that path, paths keep
\* their meaning, an import copies what was selected.
THEOREM PathsInside == PathsSpec => []PathsStayInside
<1>1. PathsInit => PathsInv
  BY PathsKept
<1>2. PathsInv /\ [PathsNext]_asked => PathsInv'
  BY PathsKept
<1>3. PathsInv => PathsStayInside
  BY PathsKept
<1> QED
  BY <1>1, <1>2, <1>3, PTL DEF PathsSpec

-----------------------------------------------------------------------------
(* All of these together.                                                    *)

Kinds == {"links", "grants", "projects", "paths", "push", "login"}

\* Only the component that a behaviour is of moves, but each moves over the
\* same people and teams: where projects do not move there are none.
SharingInv ==
    /\ part \in Kinds
    /\ TablesInv
    /\ LinksTypeOK /\ GrantsTypeOK /\ ProjectsTypeOK
    /\ part # "projects" => ProjectsInit
    /\ OwnerStays
    /\ PathsInv /\ PushInv /\ LoginInv

LEMMA NoProjectsNoOwners == ProjectsInit => OwnerStays
  BY DEF ProjectsInit, OwnerStays

LEMMA SharingInitInv == Init => SharingInv
<1> SUFFICES ASSUME Init PROVE SharingInv
  OBVIOUS
<1>1. part \in Kinds /\ DirectoryInit /\ LinksInit /\ GrantsInit /\ ProjectsInit /\ LoginInit /\ PushInit
      /\ PathsInit
  BY DEF Init, Kinds
<1> QED
  BY <1>1, DirectoryInitTables, ProjectsInitInv, LinksInitInv, GrantsInitInv, PushInitInv, LoginInitInv, PathsKept
     DEF SharingInv, ProjectsInv, LinksInv, GrantsInv

\* A step moves one component; the directory moves in the first three only, and
\* as Directory allows.
LEMMA OneMoves ==
    ASSUME [Next]_sharingVars
    PROVE  /\ UNCHANGED part
           /\ \/ part = "links" /\ LinksNext /\ UNCHANGED <<grantVars, projectVars, clientVars>>
              \/ part = "grants" /\ GrantsNext /\ UNCHANGED <<linkVars, projectVars, clientVars>>
              \/ part = "projects" /\ ProjectsNext /\ UNCHANGED <<linkVars, grantVars, clientVars>>
              \/ part = "push" /\ PushNext /\ UNCHANGED <<peopleVars, asked, loginVars>>
              \/ part = "login" /\ LoginNext /\ UNCHANGED <<peopleVars, asked, pushVars>>
              \/ part = "paths" /\ PathsNext /\ UNCHANGED <<peopleVars, pushVars, loginVars>>
              \/ UNCHANGED <<peopleVars, clientVars>>
  BY DEF Next, InLinks, InPeople, InClient, sharingVars, peopleVars, clientVars

LEMMA SharingStep ==
    ASSUME SharingInv, [Next]_sharingVars
    PROVE  /\ SharingInv'
           /\ [\A l \in Linked : LinkStays(l)]_linkVars
           /\ [\A i \in Mails : ClaimStays(i)]_grantVars
<1>1. /\ LinksInv /\ GrantsInv /\ PathsInv /\ PushInv /\ LoginInv /\ ProjectsInv
      /\ part \in Kinds /\ (part # "projects" => ProjectsInit)
  BY DEF SharingInv, LinksInv, GrantsInv, ProjectsInv
<1>2. UNCHANGED linkVars => LinksTypeOK'
  BY <1>1 DEF LinksInv, LinksTypeOK, linkVars
<1>3. UNCHANGED grantVars => GrantsTypeOK'
  BY <1>1 DEF GrantsInv, GrantsTypeOK, grantVars
<1>4. UNCHANGED projectVars => ProjectsTypeOK' /\ (ProjectsInit => ProjectsInit')
  BY <1>1 DEF ProjectsInv, ProjectsTypeOK, ProjectsInit, projectVars
<1>5. ProjectsInit' => OwnerStays'
  BY DEF ProjectsInit, OwnerStays
<1>6. UNCHANGED asked => PathsInv'
  BY <1>1, PathsKept
<1>7. (UNCHANGED pushVars => PushInv') /\ (UNCHANGED loginVars => LoginInv')
  BY <1>1, PushInvStep, LoginInvStep
<1>16. UNCHANGED clientVars => UNCHANGED asked /\ UNCHANGED pushVars /\ UNCHANGED loginVars
  BY DEF clientVars
<1>8. UNCHANGED peopleVars => TablesInv' /\ (OwnerStays => OwnerStays') /\ LinksTypeOK' /\ GrantsTypeOK'
                              /\ ProjectsTypeOK' /\ UNCHANGED <<linkVars, grantVars, projectVars>>
  <2> SUFFICES ASSUME UNCHANGED peopleVars
               PROVE  TablesInv' /\ (OwnerStays => OwnerStays') /\ LinksTypeOK' /\ GrantsTypeOK'
                      /\ ProjectsTypeOK' /\ UNCHANGED <<linkVars, grantVars, projectVars>>
    OBVIOUS
  <2>1. UNCHANGED <<directoryVars, linkVars>> /\ UNCHANGED <<grantVars, projectVars>>
    BY DEF peopleVars
  <2>2. TablesInv'
    BY <1>1, <2>1, LinksStep DEF LinksInv
  <2>3. OwnerStays => OwnerStays'
    BY <2>1 DEF OwnerStays, directoryVars, projectVars, Registered
  <2> QED
    BY <1>2, <1>3, <1>4, <2>1, <2>2, <2>3
<1>9. UNCHANGED part
  BY OneMoves
<1>10. CASE part = "links" /\ LinksNext /\ UNCHANGED <<grantVars, projectVars, clientVars>>
  BY <1>1, <1>3, <1>4, <1>5, <1>6, <1>7, <1>9, <1>10, <1>16, LinksStep DEF SharingInv, LinksInv
<1>11. CASE part = "grants" /\ GrantsNext /\ UNCHANGED <<linkVars, projectVars, clientVars>>
  BY <1>1, <1>2, <1>4, <1>5, <1>6, <1>7, <1>9, <1>11, <1>16, GrantsStep DEF SharingInv, GrantsInv
<1>12. CASE part = "projects" /\ ProjectsNext /\ UNCHANGED <<linkVars, grantVars, clientVars>>
  BY <1>1, <1>2, <1>3, <1>6, <1>7, <1>9, <1>12, <1>16, ProjectsInvStep DEF SharingInv, ProjectsInv
<1>13. CASE part = "push" /\ PushNext /\ UNCHANGED <<peopleVars, asked, loginVars>>
  BY <1>1, <1>4, <1>6, <1>7, <1>8, <1>9, <1>13, PushInvStep DEF SharingInv, ProjectsInv
<1>14. CASE part = "login" /\ LoginNext /\ UNCHANGED <<peopleVars, asked, pushVars>>
  BY <1>1, <1>4, <1>6, <1>7, <1>8, <1>9, <1>14, LoginInvStep DEF SharingInv, ProjectsInv
<1>15. CASE part = "paths" /\ PathsNext /\ UNCHANGED <<peopleVars, pushVars, loginVars>>
  BY <1>1, <1>4, <1>7, <1>8, <1>9, <1>15, PathsKept DEF SharingInv, ProjectsInv
<1>17. CASE UNCHANGED <<peopleVars, clientVars>>
  BY <1>1, <1>4, <1>6, <1>7, <1>8, <1>9, <1>16, <1>17 DEF SharingInv, ProjectsInv
<1> QED
  BY <1>10, <1>11, <1>12, <1>13, <1>14, <1>15, <1>17, OneMoves

LEMMA SharingAlways ==
    Spec => /\ []SharingInv
            /\ [][\A l \in Linked : LinkStays(l)]_linkVars
            /\ [][\A i \in Mails : ClaimStays(i)]_grantVars
<1>1. SharingInv /\ [Next]_sharingVars => SharingInv'
  BY SharingStep
<1>2. SharingInv /\ [Next]_sharingVars => [\A l \in Linked : LinkStays(l)]_linkVars
  BY SharingStep
<1>3. SharingInv /\ [Next]_sharingVars => [\A i \in Mails : ClaimStays(i)]_grantVars
  BY SharingStep
<1> QED
  BY <1>1, <1>2, <1>3, SharingInitInv, PTL DEF Spec

\* The variables of everything that is shared, and of the client, keep their
\* types.
THEOREM SharingTyped == Spec => []SharingTypes
<1>1. SharingInv => SharingTypes
  <2>1. PushInv => PushTypeOK
    BY DEF PushInv, PushTypes, ReadInv, Commands, PushTypeOK
  <2> QED
    BY <2>1 DEF SharingInv, SharingTypes, LoginInv, Kinds
<1> QED
  BY <1>1, SharingAlways, PTL

\* The exit code of a push tells what happened and a saved token works, for any
\* directory, limits, attempts, teams, terminals and servers.
THEOREM ClientHonest == Spec => []ClientIsHonest
<1>1. SharingInv => ClientIsHonest
  BY PushTells, TokensFollow DEF SharingInv, ClientIsHonest
<1> QED
  BY <1>1, SharingAlways, PTL

\* What each component promises alone, it keeps beside the others over the same
\* people and teams.
THEOREM SharingKeepsItsPromises ==
    Spec => /\ [](DescribedIsServed /\ AccessIsConsistent /\ ProjectsHaveKeepers /\ PathsStayInside)
            /\ TokensKeepRestrictions /\ ClaimsNeverMove
<1>1. SharingInv => DescribedIsServed
  BY RoutesDecideAlike
<1>2. SharingInv => AccessIsConsistent
  BY AccessFollows DEF SharingInv, GrantsInv
<1>3. SharingInv => ProjectsHaveKeepers
  BY KeepersFollow DEF SharingInv, ProjectsInv
<1>6. SharingInv => PathsStayInside
  BY PathsKept DEF SharingInv
<1>4. [\A l \in Linked : LinkStays(l)]_linkVars =>
        [\A l \in Linked :
           Exists(l) /\ link'[l] # NoLink /\ link'[l].token = link[l].token =>
             /\ link[l].access = "org" => link'[l].access = "org"
             /\ link[l].password # None => link'[l].password # None
             /\ link[l].expires # Never => link'[l].expires # Never]_linkVars
  BY DEF LinkStays
<1>5. [\A i \in Mails : ClaimStays(i)]_grantVars =>
        [\A i \in Mails, e \in Emails :
           mail[i] # NoShare /\ mail'[i] # NoShare /\ mail[i].to[e].user # None =>
             mail'[i].to[e].user = mail[i].to[e].user]_grantVars
  BY DEF ClaimStays
<1> QED
  BY <1>1, <1>2, <1>3, <1>4, <1>5, <1>6, SharingAlways, PTL DEF TokensKeepRestrictions, ClaimsNeverMove
=============================================================================
