------------------------------- MODULE Teams -------------------------------
(***************************************************************************)
(* The people of a deployment, the teams they form and the invitations     *)
(* that turn an address into a membership (routes/teams.ts,                *)
(* services/invitations.ts and the sign-in of routes/auth.ts).             *)
(*                                                                         *)
(* The database driver is synchronous, so a handler runs without           *)
(* interruption between two waits for the network or the disk.  A handler  *)
(* that reads the caller's role before the body of its request takes two   *)
(* steps, and the role it acts on is the one it read first.                *)
(***************************************************************************)
EXTENDS Directory

CONSTANTS Lower,       \* an address in lower case
          MaxRequests  \* bound: handlers waiting for a body at once

ASSUME TeamsAssumption ==
    /\ Lower \in [Emails -> Emails]
    /\ MaxRequests \in Nat

VARIABLES
    signingIn, \* first sign-ins between the user row and the end of the callback
    invites,   \* invitations: one row per team and address
    requests   \* handlers waiting for a body, with the role they read

teamVars == <<directoryVars, signingIn, invites, requests>>

NoInvite == [role |-> None, accepted |-> FALSE]
Invitations == [role : Roles, accepted : BOOLEAN]

Ops == {"invite", "setRole", "update"}
Requests == [op : Ops, team : Teams, user : Users, role : Roles]

Managers == {"owner", "admin"}
OtherOwner(t, u) == \E o \in Users \ {u} : role[t][o] = "owner"

TeamsInit ==
    /\ DirectoryInit
    /\ signingIn = {}
    /\ invites = [t \in Teams |-> [e \in Emails |-> NoInvite]]
    /\ requests = {}

----------------------------------------------------------------------------
(* Sign-in.                                                                *)

IsPending(t, e) == invites[t][e] # NoInvite /\ ~invites[t][e].accepted

PendingFor(t, address) == {e \in Emails : IsPending(t, e) /\ Lower[e] = Lower[address]}

\* Every pending invitation to the address is consumed, in the order the
\* query returns them: the first one of a team makes the member, the others
\* find a member.
AcceptPending(u, address) ==
    /\ \E joined \in [Teams -> Roles \cup {None}] :
        /\ \A t \in Teams :
             joined[t] \in IF role[t][u] = None /\ PendingFor(t, address) # {}
                           THEN {invites[t][e].role : e \in PendingFor(t, address)}
                           ELSE {role[t][u]}
        /\ role' = [t \in Teams |-> [role[t] EXCEPT ![u] = joined[t]]]
    /\ invites' = [t \in Teams |-> [e \in Emails |->
                     IF e \in PendingFor(t, address)
                     THEN [invites[t][e] EXCEPT !.accepted = TRUE]
                     ELSE invites[t][e]]]

\* A first sign-in stores the user, then waits for git init on the disk.
Register(u, e) ==
    /\ email[u] = None
    /\ e \in AddressesOf[u] /\ Free(e)
    /\ email' = [email EXCEPT ![u] = e]
    /\ signingIn' = signingIn \cup {u}
    /\ UNCHANGED <<teams, role, invites, requests>>

FinishRegistration(u) ==
    /\ u \in signingIn
    /\ signingIn' = signingIn \ {u}
    /\ AcceptPending(u, email[u])
    /\ UNCHANGED <<email, teams, requests>>

\* The process dies, or git fails, before the callback of a new user ends.
AbandonRegistration(u) ==
    /\ u \in signingIn
    /\ signingIn' = signingIn \ {u}
    /\ UNCHANGED <<email, teams, role, invites, requests>>

\* A later sign-in takes over the address the provider reports.
SignIn(u, e) ==
    /\ u \in Registered
    /\ e \in AddressesOf[u] /\ (Free(e) \/ email[u] = e)
    /\ email' = [email EXCEPT ![u] = e]
    /\ AcceptPending(u, e)
    /\ UNCHANGED <<signingIn, teams, requests>>

----------------------------------------------------------------------------
(* Teams and their members.                                                *)

\* GET /: the same rows let a member read the team and its members.
TeamsOf(u) == {t \in teams : IsMember(t, u)}

CreateTeam(t, u) ==
    /\ u \in Registered
    /\ t \notin teams
    /\ teams' = teams \cup {t}
    /\ role' = [role EXCEPT ![t][u] = "owner"]
    /\ UNCHANGED <<email, signingIn, invites, requests>>

\* Members and invitations go with the team; a handler that waits for the body
\* of a request about the team can only fail afterwards, team ids are not reused.
DeleteTeam(t, u) ==
    /\ role[t][u] = "owner"
    /\ teams' = teams \ {t}
    /\ role' = [role EXCEPT ![t] = Outsiders]
    /\ invites' = [invites EXCEPT ![t] = [e \in Emails |-> NoInvite]]
    /\ requests' = {r \in requests : r.team # t}
    /\ UNCHANGED <<email, signingIn>>

\* The role a handler demands of its caller before it reads the body.
Demanded == [invite |-> Managers, update |-> Managers, setRole |-> {"owner"}]

Begin(op, t, u) ==
    /\ Cardinality(requests) < MaxRequests
    /\ role[t][u] \in Demanded[op]
    /\ requests' = requests \cup {[op |-> op, team |-> t, user |-> u, role |-> role[t][u]]}
    /\ UNCHANGED <<email, signingIn, teams, role, invites>>

\* The body is refused: no role, an unknown one, no address, a name too long.
Refuse(r) ==
    /\ requests' = requests \ {r}
    /\ UNCHANGED <<email, signingIn, teams, role, invites>>

\* PATCH /:teamId writes the name and the description, which nothing reads.
UpdateTeam(r) == r.op = "update" /\ Refuse(r)

\* Mutant of InviteUser: a manager may name an owner.
InviteAnyone(r, e, granted) ==
    /\ r.op = "invite"
    /\ \E u \in Registered :
         /\ email[u] = e
         /\ role[r.team][u] = None
         /\ role' = [role EXCEPT ![r.team][u] = granted]
    /\ requests' = requests \ {r}
    /\ UNCHANGED <<email, signingIn, teams, invites>>

\* POST /:teamId/members for an address that an account has.
InviteUser(r, e, granted) ==
    /\ r.op = "invite"
    /\ granted = "owner" => r.role = "owner"
    /\ \E u \in Registered :
         /\ email[u] = e
         /\ role[r.team][u] = None
         /\ role' = [role EXCEPT ![r.team][u] = granted]
    /\ requests' = requests \ {r}
    /\ UNCHANGED <<email, signingIn, teams, invites>>

\* The same for an address no account has.
InviteAddress(r, e, granted) ==
    /\ r.op = "invite"
    /\ granted = "owner" => r.role = "owner"
    /\ Free(e)
    /\ invites[r.team][e] = NoInvite
    /\ invites' = [invites EXCEPT ![r.team][e] = [role |-> granted, accepted |-> FALSE]]
    /\ requests' = requests \ {r}
    /\ UNCHANGED <<email, signingIn, teams, role>>

\* POST /invitations/:token/accept: the token stands for its row.
AcceptInvitation(t, e, u) ==
    /\ u \in Registered
    /\ invites[t][e] # NoInvite
    /\ Lower[email[u]] = Lower[e]
    /\ invites' = [invites EXCEPT ![t][e].accepted = TRUE]
    /\ role' = [role EXCEPT ![t][u] = IF @ = None THEN invites[t][e].role ELSE @]
    /\ UNCHANGED <<email, signingIn, teams, requests>>

\* Mutant of ChangeRole: the last owner may step down.
ChangeAnyRole(r, u, granted) ==
    /\ r.op = "setRole"
    /\ role[r.team][u] # None
    /\ role' = [role EXCEPT ![r.team][u] = granted]
    /\ requests' = requests \ {r}
    /\ UNCHANGED <<email, signingIn, teams, invites>>

\* PATCH /:teamId/members/:userId.
ChangeRole(r, u, granted) ==
    /\ r.op = "setRole"
    /\ role[r.team][u] # None
    /\ role[r.team][u] = "owner" /\ granted # "owner" => OtherOwner(r.team, u)
    /\ role' = [role EXCEPT ![r.team][u] = granted]
    /\ requests' = requests \ {r}
    /\ UNCHANGED <<email, signingIn, teams, invites>>

\* DELETE /:teamId/members/:userId by u, for v.
RemoveMember(t, u, v) ==
    /\ u # v => /\ role[t][u] \in Managers
                /\ role[t][v] \in Managers => role[t][u] = "owner"
    /\ role[t][v] # None
    /\ role[t][v] = "owner" => OtherOwner(t, v)
    /\ role' = [role EXCEPT ![t][v] = None]
    /\ UNCHANGED <<email, signingIn, teams, invites, requests>>

TeamSteps(t) ==
    \/ \E u \in Users : CreateTeam(t, u)
    \/ \E op \in Ops, u \in Users : Begin(op, t, u)
    \/ \E e \in Emails, u \in Users : AcceptInvitation(t, e, u)
    \/ \E u, v \in Users : RemoveMember(t, u, v)

RequestSteps(r) ==
    \/ Refuse(r)
    \/ UpdateTeam(r)
    \/ \E e \in Emails, granted \in Roles : InviteUser(r, e, granted) \/ InviteAddress(r, e, granted)
    \/ \E u \in Users, granted \in Roles : ChangeRole(r, u, granted)

SignInSteps(u) ==
    \/ \E e \in Emails : Register(u, e) \/ SignIn(u, e)
    \/ FinishRegistration(u)
    \/ AbandonRegistration(u)

TeamsNext ==
    \/ \E t \in Teams : TeamSteps(t)
    \/ \E t \in Teams, u \in Users : DeleteTeam(t, u)
    \/ \E r \in requests : RequestSteps(r)
    \/ \E u \in Users : SignInSteps(u)

TeamsSpec == TeamsInit /\ [][TeamsNext]_teamVars

----------------------------------------------------------------------------
(* Properties.                                                             *)

\* The variables keep their types.
TeamsTypeOK ==
    /\ email \in [Users -> Emails \cup {None}]
    /\ signingIn \subseteq Users
    /\ teams \subseteq Teams
    /\ role \in [Teams -> [Users -> Roles \cup {None}]]
    /\ invites \in [Teams -> [Emails -> Invitations \cup {NoInvite}]]
    /\ requests \subseteq Requests

\* Standing in a team is given, never taken.  Whoever becomes an owner created
\* the team, was named by a handler that had read the role "owner" of its
\* caller, or holds an invitation as owner, which such a handler has written.
\* Whoever joins an existing team was asked: by the address of their account at
\* that moment, in an invitation or in the request of a member who may invite.
Appoints(t) == \E r \in requests : r.team = t /\ r.role = "owner"
Invites(t, u, granted) ==
    \E e \in Emails : invites[t][e].role = granted /\ Lower[e] = Lower[email'[u]]

MembershipIsGiven ==
    [][/\ \A t \in teams, u \in Users :
            /\ role'[t][u] = "owner" /\ role[t][u] # "owner" =>
                 Appoints(t) \/ Invites(t, u, "owner")
            /\ role'[t][u] # None /\ role[t][u] = None =>
                 \/ \E r \in requests \ requests' : r.team = t /\ r.op = "invite"
                 \/ Invites(t, u, role'[t][u])
       /\ \A t \in Teams, e \in Emails :
            invites'[t][e].role = "owner" /\ invites[t][e].role # "owner" => Appoints(t)]_teamVars

\* For the rest of the server the tables behave as Directory says, whatever the
\* handlers, the invitations and the sign-ins do: addresses stay unique, only
\* people with an account become members, a team never loses its last owner.
ImplementsDirectory == DirectorySpec
=============================================================================
