----------------------------- MODULE Directory -----------------------------
(***************************************************************************)
(* What the rest of the server relies on about people and teams: whose     *)
(* address is whose, and who has which role in which team.  Teams is the   *)
(* code that keeps these tables and is shown to implement this module;     *)
(* Links, Grants and Projects are modelled in its place, over any          *)
(* behaviour of the directory.                                             *)
(***************************************************************************)
EXTENDS Naturals, FiniteSets

CONSTANTS Users,       \* accounts at the identity provider
          Emails,      \* addresses, as they are spelled
          AddressesOf, \* the addresses the provider may report for a user
          Teams,       \* team slugs
          Roles,       \* the roles of a member that occur
          Repos,       \* repositories
          Owner,       \* the user or the team that owns each
          Paths,       \* the paths that things are shared at
          None         \* no address, no role, nobody

AllRoles == {"owner", "admin", "member", "viewer"}

ASSUME DirectoryAssumption ==
    /\ AddressesOf \in [Users -> SUBSET Emails]
    /\ Roles \subseteq AllRoles /\ "owner" \in Roles
    /\ Owner \in [Repos -> Users \cup Teams] /\ Users \cap Teams = {}
    /\ None \notin Emails \cup AllRoles \cup Users \cup Teams

VARIABLES
    email, \* users.email, None for a person without an account
    teams, \* the teams that exist
    role   \* team_members: role[t][u]

directoryVars == <<email, teams, role>>

Registered == {u \in Users : email[u] # None}
Free(e) == \A u \in Users : email[u] # e
IsMember(t, u) == role[t][u] # None
Outsiders == [u \in Users |-> None]

Owns(u, r) == Owner[r] = u

\* A member of the owning team: any role reads, a viewer does not write.
OwnTeamGrants(u, r, permission) ==
    /\ Owner[r] \in Teams
    /\ IsMember(Owner[r], u)
    /\ permission = "write" => role[Owner[r]][u] # "viewer"

\* The owner and the members of the owning team who may write share.
MayShare(u, r) == u \in Registered /\ (Owns(u, r) \/ OwnTeamGrants(u, r, "write"))

DirectoryInit ==
    /\ email = [u \in Users |-> None]
    /\ teams = {}
    /\ role = [t \in Teams |-> Outsiders]

\* A sign-in: the address is stored, unanswered invitations make a member.
PersonSignsIn(u, e) ==
    /\ e \in AddressesOf[u] /\ (Free(e) \/ email[u] = e)
    /\ email' = [email EXCEPT ![u] = e]
    /\ \E joined \in [Teams -> Roles \cup {None}] :
        /\ \A t \in Teams : joined[t] = role[t][u] \/ (t \in teams /\ role[t][u] = None)
        /\ role' = [t \in Teams |-> [role[t] EXCEPT ![u] = joined[t]]]
    /\ UNCHANGED teams

TeamAppears(t, u) ==
    /\ u \in Registered /\ t \notin teams
    /\ teams' = teams \cup {t}
    /\ role' = [role EXCEPT ![t][u] = "owner"]
    /\ UNCHANGED email

TeamDisappears(t) ==
    /\ t \in teams
    /\ teams' = teams \ {t}
    /\ role' = [role EXCEPT ![t] = Outsiders]
    /\ UNCHANGED email

\* Someone joins, leaves or changes roles; an owner remains.
MembershipChanges(t, u, r) ==
    /\ t \in teams /\ u \in Registered
    /\ role' = [role EXCEPT ![t][u] = r]
    /\ \E o \in Users : role'[t][o] = "owner"
    /\ UNCHANGED <<email, teams>>

DirectoryNext ==
    \/ \E u \in Users, e \in Emails : PersonSignsIn(u, e)
    \/ \E t \in Teams, u \in Users : TeamAppears(t, u)
    \/ \E t \in Teams : TeamDisappears(t)
    \/ \E t \in Teams, u \in Users, r \in Roles \cup {None} : MembershipChanges(t, u, r)

DirectorySpec == DirectoryInit /\ [][DirectoryNext]_directoryVars
=============================================================================
