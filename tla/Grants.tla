------------------------------- MODULE Grants -------------------------------
(***************************************************************************)
(* Shares with teams and with addresses (routes/shares.ts), and the access *)
(* decision they feed (canAccessRepoPath in middleware/shareAccess.ts),    *)
(* which the viewer, the files and the GitHub routes ask before they act.  *)
(* A share keeps its path as the request spelled it; Empty is the whole    *)
(* repository.                                                             *)
(***************************************************************************)
EXTENDS Directory, WrittenPaths

CONSTANTS Named, \* bound: the addresses that email shares are for
          Mails, \* bound: the email shares that may exist at once
          Asked  \* the paths that access is asked for, as they are written

Permissions == {"read", "write"}

ASSUME GrantsAssumption ==
    Named \subseteq Emails /\ Paths \subseteq Asked /\ \A p \in Asked : IsWritten(p)

VARIABLES
    teamShare, \* teamShare[r][p][t]: the share of path p of repository r with team t
    mail       \* mail[i]: an email share and its recipients

grantVars == <<teamShare, mail>>

NoShare == [creator |-> None]
NoRecipient == [user |-> None, accepted |-> FALSE, listed |-> FALSE]
TeamShare == [creator : Users, permission : Permissions]
Recipient == [user : Users \cup {None}, accepted : BOOLEAN, listed : BOOLEAN]
MailShare == [creator : Users, repo : Repos, path : Paths, permission : Permissions,
              to : [Emails -> Recipient]]

GrantsInit ==
    /\ teamShare = [r \in Repos |-> [p \in Paths |-> [t \in Teams |-> NoShare]]]
    /\ mail = [i \in Mails |-> NoShare]

----------------------------------------------------------------------------
(* The access decision.                                                    *)

\* A share covers its path and what is below it, and one of the whole repository
\* covers anything; one whose path does not normalize covers nothing.
ShareScopeCovers(share, target) ==
    LET scope == Normalize(share)
        path == Normalize(target)
    IN  /\ scope # Invalid
        /\ scope = <<>> \/ (path # Invalid /\ StartsWith(path, scope))

\* Mutant of Satisfies: the permission has to be the same.
SatisfiesExactly(share, permission) == share.permission = permission

Satisfies(share, permission) == permission = "write" => share.permission = "write"

TeamShareGrants(u, r, path, permission) ==
    \E p \in Paths, t \in Teams :
      /\ teamShare[r][p][t] # NoShare
      /\ Satisfies(teamShare[r][p][t], permission)
      /\ ShareScopeCovers(p, path)
      /\ IsMember(t, u)

MailShareGrants(u, r, path, permission) ==
    \E i \in Mails :
      /\ mail[i] # NoShare /\ mail[i].repo = r
      /\ mail[i].to[email[u]].listed
      /\ Satisfies(mail[i], permission)
      /\ ShareScopeCovers(mail[i].path, path)

CanAccess(u, r, path, permission) ==
    \/ Owns(u, r)
    \/ OwnTeamGrants(u, r, permission)
    \/ u \in Registered /\ ( \/ TeamShareGrants(u, r, path, permission)
                             \/ MailShareGrants(u, r, path, permission) )

\* GET /incoming: the shares a user finds in the list, as repository and path.
Incoming(u) ==
    {<<mail[i].repo, mail[i].path>> : i \in {j \in Mails : mail[j] # NoShare /\ mail[j].to[email[u]].listed}}
    \cup {item \in Repos \X Paths : \E t \in Teams :
             teamShare[item[1]][item[2]][t] # NoShare /\ IsMember(t, u)}

----------------------------------------------------------------------------
(* The handlers.                                                           *)

\* A share of the path with the team is updated by its creator alone.
PutTeamShare(u, r, p, t, permission) ==
    /\ MayShare(u, r)
    /\ t \in teams /\ IsMember(t, u)
    /\ teamShare[r][p][t] # NoShare => teamShare[r][p][t].creator = u
    /\ teamShare' = [teamShare EXCEPT ![r][p][t] = [creator |-> u, permission |-> permission]]
    /\ UNCHANGED <<directoryVars, mail>>

\* The account whose address is spelled exactly like this, if there is one.
AccountOf(e) == IF Free(e) THEN None ELSE CHOOSE u \in Users : email[u] = e

\* The recipients are inserted one by one: an address that is named twice, or
\* that is no string, ends the handler and leaves the rows before it.
CreateMailShare(i, u, r, p, permission, stored) ==
    /\ MayShare(u, r)
    /\ mail[i] = NoShare
    /\ mail' = [mail EXCEPT ![i] =
         [creator |-> u, repo |-> r, path |-> p, permission |-> permission,
          to |-> [e \in Emails |->
                    IF e \in stored THEN [user |-> AccountOf(e), accepted |-> FALSE, listed |-> TRUE]
                    ELSE NoRecipient]]]
    /\ UNCHANGED <<directoryVars, teamShare>>

\* Mutant of AcceptShare: whoever has the address accepts.
AcceptByAddress(i, u) ==
    /\ u \in Registered
    /\ mail[i] # NoShare
    /\ mail[i].to[email[u]].listed /\ ~mail[i].to[email[u]].accepted
    /\ mail' = [mail EXCEPT ![i].to[email[u]] = [user |-> u, accepted |-> TRUE, listed |-> TRUE]]
    /\ UNCHANGED <<directoryVars, teamShare>>

\* A row is free for the account it names, and for any account with the address
\* as long as it names none.
AcceptShare(i, u) ==
    /\ u \in Registered
    /\ mail[i] # NoShare
    /\ LET to == mail[i].to[email[u]]
       IN  /\ to.listed /\ to.user \in {None, u}
           /\ ~to.accepted
    /\ mail' = [mail EXCEPT ![i].to[email[u]] = [user |-> u, accepted |-> TRUE, listed |-> TRUE]]
    /\ UNCHANGED <<directoryVars, teamShare>>

RevokeMail(i, u) ==
    /\ mail[i].creator = u
    /\ mail' = [mail EXCEPT ![i] = NoShare]
    /\ UNCHANGED <<directoryVars, teamShare>>

\* GET / and share --revoke of the client: every mail share of this target that
\* the person made goes, whomever it is for; a failing call leaves the rest.
MadeBy(u) == {i \in Mails : mail[i] # NoShare /\ mail[i].creator = u}

RevokeTarget(u, r, p) ==
    \E gone \in SUBSET {i \in MadeBy(u) : mail[i].repo = r /\ mail[i].path = p} :
      /\ gone # {}
      /\ mail' = [i \in Mails |-> IF i \in gone THEN NoShare ELSE mail[i]]
      /\ UNCHANGED <<directoryVars, teamShare>>

RevokeTeamShare(u, r, p, t) ==
    /\ teamShare[r][p][t].creator = u
    /\ teamShare' = [teamShare EXCEPT ![r][p][t] = NoShare]
    /\ UNCHANGED <<directoryVars, mail>>

\* Shares of a team's repositories and shares with the team go with the team.
CascadeGrants ==
    LET gone == teams \ teams'
    IN  /\ teamShare' = [r \in Repos |-> [p \in Paths |-> [t \in Teams |->
                           IF t \in gone \/ Owner[r] \in gone THEN NoShare ELSE teamShare[r][p][t]]]]
        /\ mail' = [i \in Mails |->
                      IF mail[i] # NoShare /\ mail[i].repo \in {r \in Repos : Owner[r] \in gone}
                      THEN NoShare ELSE mail[i]]

GrantSteps(u, r, p) ==
    \/ \E t \in Teams : \/ \E permission \in Permissions : PutTeamShare(u, r, p, t, permission)
                        \/ RevokeTeamShare(u, r, p, t)
    \/ \E i \in Mails, permission \in Permissions, stored \in SUBSET Named :
          CreateMailShare(i, u, r, p, permission, stored)
    \/ RevokeTarget(u, r, p)

GrantsNext ==
    \/ \E u \in Users, r \in Repos, p \in Paths : GrantSteps(u, r, p)
    \/ \E i \in Mails, u \in Users : AcceptShare(i, u) \/ RevokeMail(i, u)
    \/ DirectoryNext /\ CascadeGrants

GrantsSpec == GrantsInit /\ DirectoryInit /\ [][GrantsNext]_<<directoryVars, grantVars>>

----------------------------------------------------------------------------
(* Properties.                                                             *)

\* The variables keep their types.
GrantsTypeOK ==
    /\ teamShare \in [Repos -> [Paths -> [Teams -> TeamShare \cup {NoShare}]]]
    /\ mail \in [Mails -> MailShare \cup {NoShare}]

\* The decision is consistent whatever combination of ownership, membership and
\* shares it rests on: who may write may read; who may act on a path may act in
\* the same way on everything below it, shared by itself or not; what the list of
\* incoming shares shows a user can open, unless its path is one that does not
\* normalize (POST / stores those too); and who gets in by a share finds one in
\* that list that covers the path.
AccessIsConsistent ==
    /\ \A u \in Users, r \in Repos, p, q \in Asked, permission \in Permissions :
         CanAccess(u, r, p, permission) /\ ShareScopeCovers(p, q) =>
           CanAccess(u, r, q, permission) /\ CanAccess(u, r, q, "read")
    /\ \A u \in Registered : \A item \in Incoming(u) :
         Normalize(item[2]) # Invalid => CanAccess(u, item[1], item[2], "read")
    /\ \A u \in Users, r \in Repos, p \in Asked, permission \in Permissions :
         CanAccess(u, r, p, permission) =>
           \/ Owns(u, r) \/ OwnTeamGrants(u, r, permission)
           \/ \E item \in Incoming(u) : item[1] = r /\ ShareScopeCovers(item[2], p)

\* A recipient row that names an account keeps naming it while the share
\* exists, whoever has the address later ("can't be re-updated/hijacked").
ClaimsNeverMove ==
    [][\A i \in Mails, e \in Emails :
         mail[i] # NoShare /\ mail'[i] # NoShare /\ mail[i].to[e].user # None =>
           mail'[i].to[e].user = mail[i].to[e].user]_grantVars
=============================================================================
