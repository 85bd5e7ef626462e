---------------------------- MODULE Teams_proofs ----------------------------
(***************************************************************************)
(* Teams implements Directory, and standing in a team is given, for any    *)
(* number of people, teams, addresses and waiting handlers.                *)
(***************************************************************************)
EXTENDS Teams, TLAPS

\* Only people with an account are members, and only of teams that exist.
MembersInv ==
    \A t \in Teams, u \in Users : role[t][u] # None => t \in teams /\ u \in Registered

\* Every team has an owner.
OwnersInv == \A t \in teams : \E o \in Users : role[t][o] = "owner"

\* Invitations and waiting handlers belong to teams that exist; only an owner
\* gets as far as to change a role.
PendingInv ==
    /\ \A t \in Teams, e \in Emails : invites[t][e] # NoInvite => t \in teams
    /\ \A r \in requests : r.team \in teams /\ (r.op = "setRole" => r.role = "owner")

\* An account has an address that the provider reports for its person.
AddressInv ==
    /\ \A u \in Registered : email[u] \in AddressesOf[u]
    /\ signingIn \subseteq Registered

\* What Directory alone guarantees of its tables.
TablesInv ==
    /\ email \in [Users -> Emails \cup {None}]
    /\ teams \subseteq Teams
    /\ role \in [Teams -> [Users -> Roles \cup {None}]]
    /\ MembersInv
    /\ OwnersInv
    /\ \A u \in Registered : email[u] \in AddressesOf[u]

IInv == TeamsTypeOK /\ MembersInv /\ OwnersInv /\ PendingInv /\ AddressInv

-----------------------------------------------------------------------------
(* What the rows may hold.                                                   *)

LEMMA NoneIsNoRole == None \notin Roles /\ None # "owner" /\ "owner" \in Roles
  BY DirectoryAssumption DEF AllRoles

LEMMA InviteCases ==
    ASSUME TeamsTypeOK, NEW t \in Teams, NEW e \in Emails
    PROVE  /\ invites[t][e] # NoInvite => invites[t][e] \in Invitations
           /\ invites[t][e].role \in Roles \cup {None}
           /\ invites[t][e].role # None => invites[t][e] # NoInvite
<1>1. invites[t][e] \in Invitations \cup {NoInvite}
  BY DEF TeamsTypeOK
<1>2. NoInvite.role = None
  BY DEF NoInvite
<1>3. \A x \in Invitations : x.role \in Roles /\ x # NoInvite
  BY <1>2, NoneIsNoRole DEF Invitations
<1> QED
  BY <1>1, <1>2, <1>3

\* What AcceptPending does to one team.
LEMMA AcceptPendingGives ==
    ASSUME IInv, NEW u \in Users, NEW address \in Emails, AcceptPending(u, address)
    PROVE  /\ role' \in [Teams -> [Users -> Roles \cup {None}]]
           /\ \A t \in Teams, v \in Users \ {u} : role'[t][v] = role[t][v]
           /\ \A t \in Teams : role'[t][u] # role[t][u] =>
                /\ role[t][u] = None /\ t \in teams
                /\ \E e \in PendingFor(t, address) : role'[t][u] = invites[t][e].role
           /\ invites' \in [Teams -> [Emails -> Invitations \cup {NoInvite}]]
           /\ \A t \in Teams, e \in Emails :
                /\ invites'[t][e].role = invites[t][e].role
                /\ invites'[t][e] # NoInvite => invites[t][e] # NoInvite
           /\ \E joined \in [Teams -> Roles \cup {None}] :
                /\ \A t \in Teams : joined[t] = role[t][u] \/ (t \in teams /\ role[t][u] = None)
                /\ role' = [t \in Teams |-> [role[t] EXCEPT ![u] = joined[t]]]
<1>0. TeamsTypeOK /\ PendingInv
  BY DEF IInv
<1>1. PICK joined \in [Teams -> Roles \cup {None}] :
        /\ \A t \in Teams :
             joined[t] \in IF role[t][u] = None /\ PendingFor(t, address) # {}
                           THEN {invites[t][e].role : e \in PendingFor(t, address)}
                           ELSE {role[t][u]}
        /\ role' = [t \in Teams |-> [role[t] EXCEPT ![u] = joined[t]]]
  BY DEF AcceptPending
<1>2. \A t \in Teams : PendingFor(t, address) # {} => t \in teams
  BY <1>0 DEF PendingFor, IsPending, PendingInv
<1>3. role' \in [Teams -> [Users -> Roles \cup {None}]]
  BY <1>0, <1>1 DEF TeamsTypeOK
<1>4. \A t \in Teams : role'[t][u] = joined[t] /\ \A v \in Users \ {u} : role'[t][v] = role[t][v]
  BY <1>0, <1>1 DEF TeamsTypeOK
<1>5. \A t \in Teams : joined[t] = role[t][u]
                       \/ (role[t][u] = None /\ \E e \in PendingFor(t, address) : joined[t] = invites[t][e].role)
  BY <1>1
<1>6. ASSUME NEW t \in Teams, NEW e \in Emails
      PROVE  /\ invites'[t][e] \in Invitations \cup {NoInvite}
             /\ invites'[t][e].role = invites[t][e].role
             /\ invites'[t][e] # NoInvite => invites[t][e] # NoInvite
  <2>1. CASE e \in PendingFor(t, address)
    <3>1. invites'[t][e] = [invites[t][e] EXCEPT !.accepted = TRUE]
      BY <2>1 DEF AcceptPending
    <3>2. invites[t][e] \in Invitations /\ invites[t][e] # NoInvite
      BY <1>0, <2>1, InviteCases DEF PendingFor, IsPending
    <3> QED
      BY <3>1, <3>2 DEF Invitations
  <2>2. CASE e \notin PendingFor(t, address)
    <3>1. invites'[t][e] = invites[t][e]
      BY <2>2 DEF AcceptPending
    <3> QED
      BY <1>0, <3>1 DEF TeamsTypeOK
  <2> QED
    BY <2>1, <2>2
<1>7. invites' \in [Teams -> [Emails -> Invitations \cup {NoInvite}]]
  BY <1>6 DEF AcceptPending
<1>8. \A t \in Teams : joined[t] = role[t][u] \/ (t \in teams /\ role[t][u] = None)
  BY <1>2, <1>5
<1>9. \A t \in Teams : role'[t][u] # role[t][u] =>
        /\ role[t][u] = None /\ t \in teams
        /\ \E e \in PendingFor(t, address) : role'[t][u] = invites[t][e].role
  BY <1>2, <1>4, <1>5
<1>10. \E j \in [Teams -> Roles \cup {None}] :
         /\ \A t \in Teams : j[t] = role[t][u] \/ (t \in teams /\ role[t][u] = None)
         /\ role' = [t \in Teams |-> [role[t] EXCEPT ![u] = j[t]]]
  BY <1>1, <1>8
<1> QED
  BY <1>3, <1>4, <1>6, <1>7, <1>9, <1>10

LEMMA TeamsInitInv == TeamsInit => IInv
<1> SUFFICES ASSUME TeamsInit PROVE IInv
  OBVIOUS
<1>1. TeamsTypeOK
  BY DEF TeamsInit, DirectoryInit, Outsiders, TeamsTypeOK
<1>2. MembersInv /\ OwnersInv /\ PendingInv /\ AddressInv
  BY DEF TeamsInit, DirectoryInit, Outsiders, MembersInv, OwnersInv, PendingInv, AddressInv, Registered
<1> QED
  BY <1>1, <1>2 DEF IInv

-----------------------------------------------------------------------------
(* One member of one team joins, leaves or changes roles.                    *)

LEMMA RoleTypes ==
    ASSUME role \in [Teams -> [Users -> Roles \cup {None}]],
           NEW t \in Teams, NEW u \in Users, NEW x \in Roles \cup {None},
           role' = [role EXCEPT ![t][u] = x]
    PROVE  /\ role' \in [Teams -> [Users -> Roles \cup {None}]]
           /\ role'[t][u] = x
           /\ \A v \in Users \ {u} : role'[t][v] = role[t][v]
           /\ \A k \in Teams \ {t}, v \in Users : role'[k][v] = role[k][v]
  OBVIOUS

\* Such a step keeps the tables in order.
LEMMA MembershipKeeps ==
    ASSUME TablesInv, NEW t \in Teams, NEW u \in Users, NEW x \in Roles \cup {None},
           MembershipChanges(t, u, x)
    PROVE  MembersInv' /\ OwnersInv' /\ role' \in [Teams -> [Users -> Roles \cup {None}]]
<1>0. teams \subseteq Teams /\ MembersInv /\ OwnersInv
      /\ role \in [Teams -> [Users -> Roles \cup {None}]]
  BY DEF TablesInv
<1>1. role' = [role EXCEPT ![t][u] = x] /\ t \in teams /\ u \in Registered /\ UNCHANGED <<email, teams>>
      /\ \E o \in Users : role'[t][o] = "owner"
  BY DEF MembershipChanges
<1>2. MembersInv'
  BY <1>0, <1>1, RoleTypes DEF MembersInv, Registered
<1>3. OwnersInv'
  <2> SUFFICES ASSUME NEW k \in teams PROVE \E o \in Users : role'[k][o] = "owner"
    BY <1>1 DEF OwnersInv
  <2>1. k \in Teams
    BY <1>0
  <2> QED
    BY <1>0, <1>1, <2>1, RoleTypes DEF OwnersInv
<1> QED
  BY <1>0, <1>1, <1>2, <1>3, RoleTypes

\* So does every other step of Directory, and accounts stay.
LEMMA TablesKept ==
    ASSUME TablesInv, [DirectoryNext]_directoryVars
    PROVE  TablesInv' /\ Registered \subseteq Registered'
<1>0. /\ email \in [Users -> Emails \cup {None}] /\ teams \subseteq Teams
      /\ role \in [Teams -> [Users -> Roles \cup {None}]]
      /\ MembersInv /\ OwnersInv
      /\ \A u \in Registered : email[u] \in AddressesOf[u]
  BY DEF TablesInv
<1>1. ASSUME NEW u \in Users, NEW e \in Emails, PersonSignsIn(u, e)
      PROVE  TablesInv' /\ Registered \subseteq Registered'
  <2>1. PICK joined \in [Teams -> Roles \cup {None}] :
          /\ \A t \in Teams : joined[t] = role[t][u] \/ (t \in teams /\ role[t][u] = None)
          /\ role' = [t \in Teams |-> [role[t] EXCEPT ![u] = joined[t]]]
    BY <1>1 DEF PersonSignsIn
  <2>2. /\ role' \in [Teams -> [Users -> Roles \cup {None}]]
        /\ \A t \in Teams : role'[t][u] = joined[t] /\ \A v \in Users \ {u} : role'[t][v] = role[t][v]
    BY <1>0, <2>1
  <2>3. /\ email' \in [Users -> Emails \cup {None}] /\ UNCHANGED teams
        /\ email'[u] = e /\ \A v \in Users \ {u} : email'[v] = email[v]
    BY <1>0, <1>1 DEF PersonSignsIn
  <2>4. e # None /\ e \in AddressesOf[u]
    BY <1>1, DirectoryAssumption DEF PersonSignsIn
  <2>5. Registered' = Registered \cup {u}
    BY <2>3, <2>4 DEF Registered
  <2>6. MembersInv'
    BY <1>0, <2>1, <2>2, <2>3, <2>5 DEF MembersInv
  <2>7. OwnersInv'
    <3> SUFFICES ASSUME NEW t \in teams PROVE \E o \in Users : role'[t][o] = "owner"
      BY <2>3 DEF OwnersInv
    <3>1. PICK o \in Users : role[t][o] = "owner"
      BY <1>0 DEF OwnersInv
    <3>2. role'[t][o] = "owner"
      BY <1>0, <2>1, <2>2, <3>1, NoneIsNoRole
    <3> QED
      BY <3>2
  <2>8. \A v \in Registered' : email'[v] \in AddressesOf[v]
    BY <1>0, <2>3, <2>4, <2>5 DEF Registered
  <2> QED
    BY <1>0, <2>2, <2>3, <2>5, <2>6, <2>7, <2>8 DEF TablesInv
<1>2. ASSUME NEW t \in Teams, NEW u \in Users, TeamAppears(t, u)
      PROVE  TablesInv' /\ Registered \subseteq Registered'
  <2>1. role' = [role EXCEPT ![t][u] = "owner"] /\ u \in Registered /\ t \notin teams
        /\ teams' = teams \cup {t} /\ UNCHANGED email
    BY <1>2 DEF TeamAppears
  <2>2. UNCHANGED Registered
    BY <2>1 DEF Registered
  <2>3. /\ role' \in [Teams -> [Users -> Roles \cup {None}]]
        /\ role'[t][u] = "owner"
        /\ \A v \in Users \ {u} : role'[t][v] = role[t][v]
        /\ \A k \in Teams \ {t}, v \in Users : role'[k][v] = role[k][v]
    BY <1>0, <2>1, RoleTypes, NoneIsNoRole
  <2>4. MembersInv'
    BY <1>0, <2>1, <2>2, <2>3 DEF MembersInv
  <2>5. OwnersInv'
    BY <1>0, <2>1, <2>3 DEF OwnersInv
  <2> QED
    BY <1>0, <2>1, <2>2, <2>3, <2>4, <2>5 DEF TablesInv
<1>3. ASSUME NEW t \in Teams, TeamDisappears(t)
      PROVE  TablesInv' /\ Registered \subseteq Registered'
  <2>1. UNCHANGED email /\ UNCHANGED Registered /\ teams' = teams \ {t}
    BY <1>3 DEF TeamDisappears, Registered
  <2>2. /\ role' \in [Teams -> [Users -> Roles \cup {None}]]
        /\ \A v \in Users : role'[t][v] = None
        /\ \A k \in Teams \ {t}, v \in Users : role'[k][v] = role[k][v]
    BY <1>0, <1>3 DEF TeamDisappears, Outsiders
  <2>3. MembersInv'
    BY <1>0, <2>1, <2>2 DEF MembersInv
  <2>4. OwnersInv'
    BY <1>0, <2>1, <2>2 DEF OwnersInv
  <2> QED
    BY <1>0, <2>1, <2>2, <2>3, <2>4 DEF TablesInv
<1>4. ASSUME NEW t \in Teams, NEW u \in Users, NEW x \in Roles \cup {None}, MembershipChanges(t, u, x)
      PROVE  TablesInv' /\ Registered \subseteq Registered'
  <2>1. MembersInv' /\ OwnersInv' /\ role' \in [Teams -> [Users -> Roles \cup {None}]]
    BY <1>4, MembershipKeeps
  <2>2. UNCHANGED <<email, teams>> /\ UNCHANGED Registered
    BY <1>4 DEF MembershipChanges, Registered
  <2> QED
    BY <1>0, <2>1, <2>2 DEF TablesInv
<1>5. CASE UNCHANGED directoryVars
  BY <1>0, <1>5 DEF directoryVars, TablesInv, MembersInv, OwnersInv, Registered
<1> QED
  BY <1>1, <1>2, <1>3, <1>4, <1>5 DEF DirectoryNext

\* Every handler that changes one row of team_members does what Directory says.
LEMMA MemberSteps ==
    ASSUME IInv, NEW t \in Teams, NEW u \in Users, NEW x \in Roles \cup {None}
    PROVE  /\ \A r \in requests, e \in Emails : InviteUser(r, e, x) /\ r.team = t /\ email[u] = e
                /\ role' = [role EXCEPT ![t][u] = x] /\ role[t][u] = None /\ u \in Registered
                => MembershipChanges(t, u, x)
           /\ \A r \in requests : r.team = t /\ ChangeRole(r, u, x) => MembershipChanges(t, u, x)
           /\ \A v \in Users : RemoveMember(t, v, u) => MembershipChanges(t, u, None)
<1>0. TeamsTypeOK /\ MembersInv /\ OwnersInv /\ PendingInv
  BY DEF IInv
<1>1. ASSUME NEW y \in Roles \cup {None}, role' = [role EXCEPT ![t][u] = y], t \in teams, u \in Registered,
             y = "owner" \/ role[t][u] # "owner" \/ OtherOwner(t, u),
             UNCHANGED <<email, teams>>
      PROVE  MembershipChanges(t, u, y)
  <2>1. PICK o \in Users : role[t][o] = "owner"
    BY <1>0, <1>1 DEF OwnersInv
  <2>2. \E q \in Users : role'[t][q] = "owner"
    BY <1>0, <1>1, <2>1, RoleTypes DEF OtherOwner, TeamsTypeOK
  <2> QED
    BY <1>1, <2>2 DEF MembershipChanges
<1>2. ASSUME NEW r \in requests, NEW e \in Emails, InviteUser(r, e, x), r.team = t,
             role' = [role EXCEPT ![t][u] = x], role[t][u] = None, u \in Registered
      PROVE  MembershipChanges(t, u, x)
  BY <1>0, <1>1, <1>2, NoneIsNoRole DEF InviteUser, PendingInv
<1>3. ASSUME NEW r \in requests, r.team = t, ChangeRole(r, u, x) PROVE MembershipChanges(t, u, x)
  BY <1>0, <1>1, <1>3 DEF ChangeRole, MembersInv
<1>4. ASSUME NEW v \in Users, RemoveMember(t, v, u) PROVE MembershipChanges(t, u, None)
  BY <1>0, <1>1, <1>4 DEF RemoveMember, MembersInv
<1> QED
  BY <1>2, <1>3, <1>4

-----------------------------------------------------------------------------
(* Every step of the teams is a step of Directory, or leaves it alone.       *)

LEMMA SignInRefines ==
    ASSUME IInv, NEW u \in Users, SignInSteps(u)
    PROVE  (\E e \in Emails : PersonSignsIn(u, e)) \/ UNCHANGED directoryVars
<1>0. TeamsTypeOK /\ AddressInv
  BY DEF IInv
<1>1. ASSUME NEW e \in Emails, Register(u, e) PROVE PersonSignsIn(u, e)
  <2> DEFINE joined == [t \in Teams |-> role[t][u]]
  <2>1. joined \in [Teams -> Roles \cup {None}] /\ \A t \in Teams : joined[t] = role[t][u]
    BY <1>0 DEF TeamsTypeOK
  <2>2. role = [t \in Teams |-> [role[t] EXCEPT ![u] = role[t][u]]]
    BY <1>0 DEF TeamsTypeOK
  <2>3. role' = [t \in Teams |-> [role[t] EXCEPT ![u] = joined[t]]]
    BY <1>1, <2>1, <2>2 DEF Register
  <2> QED
    BY <1>1, <2>1, <2>3 DEF Register, PersonSignsIn
<1>2. ASSUME NEW e \in Emails, SignIn(u, e) PROVE PersonSignsIn(u, e)
  BY <1>2, AcceptPendingGives DEF SignIn, PersonSignsIn
<1>3. CASE FinishRegistration(u)
  <2>1. u \in Registered /\ email[u] \in AddressesOf[u]
    BY <1>0, <1>3 DEF FinishRegistration, AddressInv
  <2>2. email[u] \in Emails
    BY <1>0, <2>1 DEF TeamsTypeOK, Registered
  <2>3. email' = [email EXCEPT ![u] = email[u]] /\ UNCHANGED teams
    BY <1>0, <1>3 DEF FinishRegistration, TeamsTypeOK
  <2>4. PersonSignsIn(u, email[u])
    BY <1>3, <2>1, <2>2, <2>3, AcceptPendingGives DEF FinishRegistration, PersonSignsIn
  <2> QED
    BY <2>2, <2>4
<1>4. CASE AbandonRegistration(u)
  BY <1>4 DEF AbandonRegistration, directoryVars
<1> QED
  BY <1>1, <1>2, <1>3, <1>4 DEF SignInSteps

LEMMA RequestRefines ==
    ASSUME IInv, NEW r \in requests, RequestSteps(r)
    PROVE  \/ \E u \in Users, x \in Roles \cup {None} : MembershipChanges(r.team, u, x)
           \/ UNCHANGED directoryVars
<1>0. TeamsTypeOK /\ r.team \in Teams
  BY DEF IInv, TeamsTypeOK, Requests
<1>1. CASE Refuse(r) \/ UpdateTeam(r)
  BY <1>1 DEF Refuse, UpdateTeam, directoryVars
<1>2. ASSUME NEW e \in Emails, NEW x \in Roles, InviteUser(r, e, x)
      PROVE  \E u \in Users : MembershipChanges(r.team, u, x)
  <2>1. PICK u \in Registered : /\ email[u] = e /\ role[r.team][u] = None
                                /\ role' = [role EXCEPT ![r.team][u] = x]
    BY <1>2 DEF InviteUser
  <2>2. u \in Users
    BY <2>1 DEF Registered
  <2> QED
    BY <1>0, <1>2, <2>1, <2>2, MemberSteps
<1>3. ASSUME NEW e \in Emails, NEW x \in Roles, InviteAddress(r, e, x) PROVE UNCHANGED directoryVars
  BY <1>3 DEF InviteAddress, directoryVars
<1>4. ASSUME NEW u \in Users, NEW x \in Roles, ChangeRole(r, u, x) PROVE MembershipChanges(r.team, u, x)
  BY <1>0, <1>4, MemberSteps
<1> QED
  BY <1>1, <1>2, <1>3, <1>4 DEF RequestSteps

LEMMA TeamRefines ==
    ASSUME IInv, NEW t \in Teams, TeamSteps(t)
    PROVE  \/ \E u \in Users : TeamAppears(t, u)
           \/ \E u \in Users, x \in Roles \cup {None} : MembershipChanges(t, u, x)
           \/ UNCHANGED directoryVars
<1>0. TeamsTypeOK /\ MembersInv /\ OwnersInv /\ PendingInv
  BY DEF IInv
<1>1. ASSUME NEW u \in Users, CreateTeam(t, u) PROVE TeamAppears(t, u)
  BY <1>1 DEF CreateTeam, TeamAppears
<1>2. ASSUME NEW op \in Ops, NEW u \in Users, Begin(op, t, u) PROVE UNCHANGED directoryVars
  BY <1>2 DEF Begin, directoryVars
<1>3. ASSUME NEW e \in Emails, NEW u \in Users, AcceptInvitation(t, e, u)
      PROVE  UNCHANGED directoryVars \/ \E x \in Roles : MembershipChanges(t, u, x)
  <2>1. CASE role[t][u] = None
    <3> DEFINE x == invites[t][e].role
    <3>1. role' = [role EXCEPT ![t][u] = x] /\ UNCHANGED <<email, teams>> /\ u \in Registered
      BY <1>0, <1>3, <2>1 DEF AcceptInvitation, TeamsTypeOK
    <3>2. x \in Roles /\ t \in teams
      BY <1>0, <1>3, InviteCases DEF AcceptInvitation, PendingInv, Invitations
    <3>3. PICK o \in Users : role[t][o] = "owner"
      BY <1>0, <3>2 DEF OwnersInv
    <3>4. role'[t][o] = "owner"
      BY <1>0, <2>1, <3>1, <3>2, <3>3, RoleTypes, NoneIsNoRole DEF TeamsTypeOK
    <3> QED
      BY <3>1, <3>2, <3>4 DEF MembershipChanges
  <2>2. CASE role[t][u] # None
    <3>1. role' = [role EXCEPT ![t][u] = role[t][u]] /\ UNCHANGED <<email, teams>>
      BY <1>0, <1>3, <2>2 DEF AcceptInvitation, TeamsTypeOK
    <3> QED
      BY <1>0, <3>1 DEF directoryVars, TeamsTypeOK
  <2> QED
    BY <2>1, <2>2
<1>4. ASSUME NEW u \in Users, NEW v \in Users, RemoveMember(t, u, v) PROVE MembershipChanges(t, v, None)
  BY <1>4, MemberSteps
<1> QED
  BY <1>1, <1>2, <1>3, <1>4 DEF TeamSteps

LEMMA TeamsRefine ==
    ASSUME IInv, [TeamsNext]_teamVars
    PROVE  [DirectoryNext]_directoryVars
<1>1. ASSUME NEW t \in Teams, NEW u \in Users, DeleteTeam(t, u) PROVE TeamDisappears(t)
  <2>1. t \in teams
    BY <1>1, NoneIsNoRole DEF DeleteTeam, IInv, MembersInv
  <2> QED
    BY <1>1, <2>1 DEF DeleteTeam, TeamDisappears
<1>2. ASSUME NEW t \in Teams, TeamSteps(t) PROVE [DirectoryNext]_directoryVars
  BY <1>2, TeamRefines DEF DirectoryNext
<1>3. ASSUME NEW r \in requests, RequestSteps(r) PROVE [DirectoryNext]_directoryVars
  <2>1. r.team \in Teams
    BY DEF IInv, TeamsTypeOK, Requests
  <2> QED
    BY <1>3, <2>1, RequestRefines DEF DirectoryNext
<1>4. ASSUME NEW u \in Users, SignInSteps(u) PROVE [DirectoryNext]_directoryVars
  BY <1>4, SignInRefines DEF DirectoryNext
<1>5. CASE UNCHANGED teamVars
  BY <1>5 DEF teamVars, directoryVars
<1> QED
  BY <1>1, <1>2, <1>3, <1>4, <1>5 DEF TeamsNext, DirectoryNext

-----------------------------------------------------------------------------
(* The invariant.                                                            *)

\* What the code keeps beside the tables of Directory.
WaitingInv ==
    /\ signingIn \subseteq Registered
    /\ invites \in [Teams -> [Emails -> Invitations \cup {NoInvite}]]
    /\ requests \subseteq Requests
    /\ PendingInv

LEMMA SignInKeepsWaiting ==
    ASSUME IInv, Registered \subseteq Registered', NEW u \in Users, SignInSteps(u)
    PROVE  WaitingInv'
<1>0. TeamsTypeOK /\ PendingInv /\ AddressInv
  BY DEF IInv
<1>1. ASSUME NEW e \in Emails, Register(u, e) PROVE WaitingInv'
  <2>1. u \in Registered'
    <3>1. e # None
      BY DirectoryAssumption
    <3> QED
      BY <1>0, <1>1, <3>1 DEF Register, Registered, TeamsTypeOK
  <2> QED
    BY <1>0, <1>1, <2>1 DEF Register, WaitingInv, PendingInv, AddressInv, TeamsTypeOK
<1>2. ASSUME NEW e \in Emails, AcceptPending(u, e), signingIn' \subseteq signingIn, UNCHANGED <<teams, requests>>
      PROVE  WaitingInv'
  <2>1. /\ invites' \in [Teams -> [Emails -> Invitations \cup {NoInvite}]]
        /\ \A t \in Teams, a \in Emails : invites'[t][a] # NoInvite => invites[t][a] # NoInvite
    BY <1>2, AcceptPendingGives
  <2> QED
    BY <1>0, <1>2, <2>1 DEF WaitingInv, PendingInv, AddressInv, TeamsTypeOK
<1>3. ASSUME NEW e \in Emails, SignIn(u, e) PROVE WaitingInv'
  BY <1>2, <1>3 DEF SignIn
<1>4. CASE FinishRegistration(u)
  <2>1. email[u] \in Emails
    BY <1>0, <1>4 DEF FinishRegistration, AddressInv, TeamsTypeOK, Registered
  <2> QED
    BY <1>2, <1>4, <2>1 DEF FinishRegistration
<1>5. CASE AbandonRegistration(u)
  BY <1>0, <1>5 DEF AbandonRegistration, WaitingInv, PendingInv, AddressInv, TeamsTypeOK
<1> QED
  BY <1>1, <1>3, <1>4, <1>5 DEF SignInSteps

LEMMA TeamKeepsWaiting ==
    ASSUME IInv, Registered \subseteq Registered', NEW t \in Teams,
           TeamSteps(t) \/ \E u \in Users : DeleteTeam(t, u)
    PROVE  WaitingInv'
<1>0. TeamsTypeOK /\ MembersInv /\ PendingInv /\ AddressInv
  BY DEF IInv
<1>1. ASSUME NEW u \in Users, CreateTeam(t, u) PROVE WaitingInv'
  BY <1>0, <1>1 DEF CreateTeam, WaitingInv, PendingInv, AddressInv, TeamsTypeOK
<1>2. ASSUME NEW op \in Ops, NEW u \in Users, Begin(op, t, u) PROVE WaitingInv'
  <2>1. role[t][u] # None
    BY <1>2, NoneIsNoRole, DirectoryAssumption DEF Begin, Demanded, Ops, Managers, AllRoles
  <2>2. t \in teams /\ [op |-> op, team |-> t, user |-> u, role |-> role[t][u]] \in Requests
    BY <1>0, <2>1 DEF MembersInv, Requests, TeamsTypeOK
  <2>3. op = "setRole" => role[t][u] = "owner"
    BY <1>2 DEF Begin, Demanded
  <2> QED
    BY <1>0, <1>2, <2>2, <2>3 DEF Begin, WaitingInv, PendingInv, AddressInv, TeamsTypeOK
<1>3. ASSUME NEW e \in Emails, NEW u \in Users, AcceptInvitation(t, e, u) PROVE WaitingInv'
  <2>1. invites[t][e] \in Invitations
    BY <1>0, <1>3, InviteCases DEF AcceptInvitation
  <2>2. [invites[t][e] EXCEPT !.accepted = TRUE] \in Invitations
    BY <2>1 DEF Invitations
  <2>3. /\ invites' \in [Teams -> [Emails -> Invitations \cup {NoInvite}]]
        /\ \A k \in Teams, a \in Emails : k # t \/ a # e => invites'[k][a] = invites[k][a]
    BY <1>0, <1>3, <2>2 DEF AcceptInvitation, TeamsTypeOK
  <2> QED
    BY <1>0, <1>3, <2>3 DEF AcceptInvitation, WaitingInv, PendingInv, AddressInv, TeamsTypeOK
<1>4. ASSUME NEW u \in Users, NEW v \in Users, RemoveMember(t, u, v) PROVE WaitingInv'
  BY <1>0, <1>4 DEF RemoveMember, WaitingInv, PendingInv, AddressInv, TeamsTypeOK
<1>5. ASSUME NEW u \in Users, DeleteTeam(t, u) PROVE WaitingInv'
  <2>1. /\ invites' \in [Teams -> [Emails -> Invitations \cup {NoInvite}]]
        /\ \A a \in Emails : invites'[t][a] = NoInvite
        /\ \A k \in Teams \ {t}, a \in Emails : invites'[k][a] = invites[k][a]
    BY <1>0, <1>5 DEF DeleteTeam, TeamsTypeOK
  <2>2. teams' = teams \ {t} /\ requests' = {r \in requests : r.team # t} /\ UNCHANGED signingIn
    BY <1>5 DEF DeleteTeam
  <2> QED
    BY <1>0, <2>1, <2>2 DEF WaitingInv, PendingInv, AddressInv, TeamsTypeOK
<1> QED
  BY <1>1, <1>2, <1>3, <1>4, <1>5 DEF TeamSteps

LEMMA RequestKeepsWaiting ==
    ASSUME IInv, Registered \subseteq Registered', NEW r \in requests, RequestSteps(r)
    PROVE  WaitingInv'
<1>0. TeamsTypeOK /\ PendingInv /\ AddressInv /\ r \in Requests /\ r.team \in teams
  BY DEF IInv, TeamsTypeOK, PendingInv
<1>1. CASE Refuse(r) \/ UpdateTeam(r)
  BY <1>0, <1>1 DEF Refuse, UpdateTeam, WaitingInv, PendingInv, AddressInv, TeamsTypeOK
<1>2. ASSUME NEW e \in Emails, NEW x \in Roles, InviteUser(r, e, x) PROVE WaitingInv'
  BY <1>0, <1>2 DEF InviteUser, WaitingInv, PendingInv, AddressInv, TeamsTypeOK
<1>3. ASSUME NEW e \in Emails, NEW x \in Roles, InviteAddress(r, e, x) PROVE WaitingInv'
  <2>1. [role |-> x, accepted |-> FALSE] \in Invitations
    BY DEF Invitations
  <2>2. /\ invites' \in [Teams -> [Emails -> Invitations \cup {NoInvite}]]
        /\ \A k \in Teams, a \in Emails : k # r.team \/ a # e => invites'[k][a] = invites[k][a]
    BY <1>0, <1>3, <2>1 DEF InviteAddress, TeamsTypeOK
  <2> QED
    BY <1>0, <1>3, <2>2 DEF InviteAddress, WaitingInv, PendingInv, AddressInv, TeamsTypeOK
<1>4. ASSUME NEW u \in Users, NEW x \in Roles, ChangeRole(r, u, x) PROVE WaitingInv'
  BY <1>0, <1>4 DEF ChangeRole, WaitingInv, PendingInv, AddressInv, TeamsTypeOK
<1> QED
  BY <1>1, <1>2, <1>3, <1>4 DEF RequestSteps

LEMMA TeamsStep == IInv /\ [TeamsNext]_teamVars => IInv'
<1> SUFFICES ASSUME IInv, [TeamsNext]_teamVars PROVE IInv'
  OBVIOUS
<1>1. TablesInv' /\ Registered \subseteq Registered'
  BY TeamsRefine, TablesKept DEF IInv, TablesInv, TeamsTypeOK, AddressInv
<1>2. WaitingInv'
  <2>1. CASE TeamsNext
    BY <1>1, <2>1, SignInKeepsWaiting, TeamKeepsWaiting, RequestKeepsWaiting DEF TeamsNext
  <2>2. CASE UNCHANGED teamVars
    BY <2>2 DEF teamVars, directoryVars, IInv, TeamsTypeOK, WaitingInv, PendingInv, AddressInv, Registered
  <2> QED
    BY <2>1, <2>2
<1> QED
  BY <1>1, <1>2 DEF TablesInv, WaitingInv, IInv, TeamsTypeOK, AddressInv, Registered

LEMMA TeamsAlways == TeamsSpec => []IInv
  BY TeamsInitInv, TeamsStep, PTL DEF TeamsSpec

-----------------------------------------------------------------------------
(* The theorems.                                                             *)

\* The rows of users, teams, members and invitations and the handlers that wait
\* keep their types.
THEOREM TeamTypes == TeamsSpec => []TeamsTypeOK
<1>1. IInv => TeamsTypeOK
  BY DEF IInv
<1> QED
  BY <1>1, TeamsAlways, PTL

\* Whatever handlers, invitations and sign-ins do, the tables of users and
\* members behave as Directory says: the rest of the server may rely on it.
THEOREM TeamsImplementDirectory == TeamsSpec => ImplementsDirectory
<1>1. TeamsInit => DirectoryInit
  BY DEF TeamsInit
<1>2. IInv /\ [TeamsNext]_teamVars => [DirectoryNext]_directoryVars
  BY TeamsRefine
<1> QED
  BY <1>1, <1>2, TeamsAlways, PTL DEF TeamsSpec, ImplementsDirectory, DirectorySpec

\* Whoever becomes an owner of a team was named by a handler that had read the
\* role "owner", or holds an invitation that such a handler has written; whoever
\* joins was asked, by the address of their account.
THEOREM StandingIsGiven == TeamsSpec => MembershipIsGiven
<1> DEFINE Given(t, u) ==
             /\ role'[t][u] = "owner" /\ role[t][u] # "owner" => Appoints(t) \/ Invites(t, u, "owner")
             /\ role'[t][u] # None /\ role[t][u] = None =>
                  \/ \E r \in requests \ requests' : r.team = t /\ r.op = "invite"
                  \/ Invites(t, u, role'[t][u])
           Invited(t, e) == invites'[t][e].role = "owner" /\ invites[t][e].role # "owner" => Appoints(t)
           Step == /\ \A t \in teams, u \in Users : Given(t, u)
                   /\ \A t \in Teams, e \in Emails : Invited(t, e)
<1>1. IInv /\ [TeamsNext]_teamVars => [
        /\ \A t \in teams, u \in Users :
             /\ role'[t][u] = "owner" /\ role[t][u] # "owner" =>
                  Appoints(t) \/ Invites(t, u, "owner")
             /\ role'[t][u] # None /\ role[t][u] = None =>
                  \/ \E r \in requests \ requests' : r.team = t /\ r.op = "invite"
                  \/ Invites(t, u, role'[t][u])
        /\ \A t \in Teams, e \in Emails :
             invites'[t][e].role = "owner" /\ invites[t][e].role # "owner" => Appoints(t)]_teamVars
  <2> SUFFICES ASSUME IInv, TeamsNext PROVE Step
    OBVIOUS
  <2>0. TeamsTypeOK /\ AddressInv /\ PendingInv
    BY DEF IInv
  <2>1. ASSUME UNCHANGED role PROVE \A t \in teams, u \in Users : Given(t, u)
    BY <2>1
  <2>2. ASSUME UNCHANGED invites PROVE \A t \in Teams, e \in Emails : Invited(t, e)
    BY <2>2
  <2>3. ASSUME NEW u \in Users, NEW e \in Emails, AcceptPending(u, e), email'[u] = e PROVE Step
    <3>1. /\ \A t \in Teams, v \in Users \ {u} : role'[t][v] = role[t][v]
          /\ \A t \in Teams : role'[t][u] # role[t][u] =>
               \E a \in PendingFor(t, e) : role'[t][u] = invites[t][a].role
          /\ \A t \in Teams, a \in Emails : invites'[t][a].role = invites[t][a].role
      BY <2>3, AcceptPendingGives
    <3>2. \A t \in Teams : role'[t][u] # role[t][u] => Invites(t, u, role'[t][u])
      BY <2>3, <3>1 DEF PendingFor, Invites
    <3>3. teams \subseteq Teams
      BY <2>0 DEF TeamsTypeOK
    <3> QED
      BY <3>1, <3>2, <3>3
  <2>4. ASSUME NEW u \in Users, SignInSteps(u) PROVE Step
    <3>1. ASSUME NEW e \in Emails, Register(u, e) PROVE Step
      BY <2>1, <2>2, <3>1 DEF Register
    <3>2. ASSUME NEW e \in Emails, SignIn(u, e) PROVE Step
      BY <2>0, <2>3, <3>2 DEF SignIn, TeamsTypeOK
    <3>3. CASE FinishRegistration(u)
      <4>1. email[u] \in Emails /\ email'[u] = email[u]
        BY <2>0, <3>3 DEF FinishRegistration, AddressInv, TeamsTypeOK, Registered
      <4> QED
        BY <2>3, <3>3, <4>1 DEF FinishRegistration
    <3>4. CASE AbandonRegistration(u)
      BY <2>1, <2>2, <3>4 DEF AbandonRegistration
    <3> QED
      BY <2>4, <3>1, <3>2, <3>3, <3>4 DEF SignInSteps
  <2>5. ASSUME NEW t \in Teams, TeamSteps(t) PROVE Step
    <3>1. ASSUME NEW u \in Users, CreateTeam(t, u) PROVE Step
      <4>1. \A k \in teams, v \in Users : role'[k][v] = role[k][v]
        BY <2>0, <3>1 DEF CreateTeam, TeamsTypeOK
      <4> QED
        BY <2>2, <3>1, <4>1 DEF CreateTeam
    <3>2. ASSUME NEW op \in Ops, NEW u \in Users, Begin(op, t, u) PROVE Step
      BY <2>1, <2>2, <3>2 DEF Begin
    <3>3. ASSUME NEW e \in Emails, NEW u \in Users, AcceptInvitation(t, e, u) PROVE Step
      <4>1. /\ role'[t][u] = IF role[t][u] = None THEN invites[t][e].role ELSE role[t][u]
            /\ \A v \in Users \ {u} : role'[t][v] = role[t][v]
            /\ \A k \in Teams \ {t} : role'[k] = role[k]
        BY <2>0, <3>3 DEF AcceptInvitation, TeamsTypeOK
      <4>2. role'[t][u] # role[t][u] => Invites(t, u, role'[t][u])
        BY <3>3, <4>1 DEF AcceptInvitation, Invites
      <4>3. \A k \in teams, v \in Users : Given(k, v)
        BY <2>0, <4>1, <4>2 DEF TeamsTypeOK
      <4>4. invites'[t][e].role = invites[t][e].role
            /\ \A k \in Teams, a \in Emails : k # t \/ a # e => invites'[k][a] = invites[k][a]
        <5>1. invites[t][e] \in Invitations
          BY <2>0, <3>3, InviteCases DEF AcceptInvitation
        <5>2. [invites[t][e] EXCEPT !.accepted = TRUE].role = invites[t][e].role
          BY <5>1 DEF Invitations
        <5> QED
          BY <2>0, <3>3, <5>2 DEF AcceptInvitation, TeamsTypeOK
      <4>5. \A k \in Teams, a \in Emails : Invited(k, a)
        BY <4>4
      <4> QED
        BY <4>3, <4>5
    <3>4. ASSUME NEW u \in Users, NEW v \in Users, RemoveMember(t, u, v) PROVE Step
      <4>1. \A k \in Teams, w \in Users : role'[k][w] \in {role[k][w], None}
        BY <2>0, <3>4 DEF RemoveMember, TeamsTypeOK
      <4>2. \A k \in teams, w \in Users : Given(k, w)
        BY <2>0, <4>1, NoneIsNoRole DEF TeamsTypeOK
      <4> QED
        BY <2>2, <3>4, <4>2 DEF RemoveMember
    <3> QED
      BY <2>5, <3>1, <3>2, <3>3, <3>4 DEF TeamSteps
  <2>6. ASSUME NEW t \in Teams, NEW u \in Users, DeleteTeam(t, u) PROVE Step
    <3>1. \A k \in Teams, w \in Users : role'[k][w] \in {role[k][w], None}
      BY <2>0, <2>6 DEF DeleteTeam, TeamsTypeOK, Outsiders
    <3>2. \A k \in teams, w \in Users : Given(k, w)
      BY <2>0, <3>1, NoneIsNoRole DEF TeamsTypeOK
    <3>3. \A k \in Teams, e \in Emails : invites'[k][e] \in {invites[k][e], NoInvite}
      BY <2>0, <2>6 DEF DeleteTeam, TeamsTypeOK
    <3>4. \A k \in Teams, e \in Emails : Invited(k, e)
      BY <3>3, NoneIsNoRole DEF NoInvite
    <3> QED
      BY <3>2, <3>4
  <2>7. ASSUME NEW r \in requests, RequestSteps(r) PROVE Step
    <3>0. r \in Requests /\ r.team \in Teams /\ teams \subseteq Teams
      BY <2>0 DEF TeamsTypeOK, Requests
    <3>1. CASE Refuse(r) \/ UpdateTeam(r)
      BY <2>1, <2>2, <3>1 DEF Refuse, UpdateTeam
    <3>2. ASSUME NEW u \in Users, NEW x \in Roles, role' = [role EXCEPT ![r.team][u] = x]
          PROVE  /\ role'[r.team][u] = x
                 /\ \A k \in Teams, v \in Users : k # r.team \/ v # u => role'[k][v] = role[k][v]
      BY <2>0, <3>0, <3>2 DEF TeamsTypeOK
    <3>3. ASSUME NEW e \in Emails, NEW x \in Roles, InviteUser(r, e, x) PROVE Step
      <4>1. PICK u \in Registered : role' = [role EXCEPT ![r.team][u] = x]
        BY <3>3 DEF InviteUser
      <4>2. r \in requests \ requests' /\ r.op = "invite" /\ (x = "owner" => r.role = "owner")
        BY <3>3 DEF InviteUser
      <4>3. x = "owner" => Appoints(r.team)
        BY <4>2 DEF Appoints
      <4>4. u \in Users
        BY <4>1 DEF Registered
      <4>5. \A k \in teams, v \in Users : Given(k, v)
        BY <3>0, <3>2, <4>1, <4>2, <4>3, <4>4
      <4> QED
        BY <2>2, <3>3, <4>5 DEF InviteUser
    <3>4. ASSUME NEW e \in Emails, NEW x \in Roles, InviteAddress(r, e, x) PROVE Step
      <4>1. x = "owner" => Appoints(r.team)
        BY <3>4 DEF InviteAddress, Appoints
      <4>2. /\ invites'[r.team][e] = [role |-> x, accepted |-> FALSE]
            /\ \A k \in Teams, a \in Emails : k # r.team \/ a # e => invites'[k][a] = invites[k][a]
        BY <2>0, <3>0, <3>4 DEF InviteAddress, TeamsTypeOK
      <4>3. \A k \in Teams, a \in Emails : Invited(k, a)
        BY <4>1, <4>2
      <4> QED
        BY <2>1, <3>4, <4>3 DEF InviteAddress
    <3>5. ASSUME NEW u \in Users, NEW x \in Roles, ChangeRole(r, u, x) PROVE Step
      <4>1. role' = [role EXCEPT ![r.team][u] = x] /\ role[r.team][u] # None
        BY <3>5 DEF ChangeRole
      <4>2. x = "owner" => Appoints(r.team)
        BY <2>0, <3>5 DEF ChangeRole, Appoints, PendingInv
      <4>3. \A k \in teams, v \in Users : Given(k, v)
        BY <3>0, <3>2, <4>1, <4>2
      <4> QED
        BY <2>2, <3>5, <4>3 DEF ChangeRole
    <3> QED
      BY <2>7, <3>1, <3>3, <3>4, <3>5 DEF RequestSteps
  <2> QED
    BY <2>4, <2>5, <2>6, <2>7 DEF TeamsNext
<1> QED
  BY <1>1, TeamsAlways, PTL DEF TeamsSpec, MembershipIsGiven

=============================================================================
