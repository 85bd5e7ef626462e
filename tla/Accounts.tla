------------------------------- MODULE Accounts -------------------------------
(***************************************************************************)
(* What a person has beside an address: the personal repository, the       *)
(* sessions, the API tokens, the GitHub credential and the cached role     *)
(* (routes/auth.ts, routes/users.ts and the middleware that authenticates  *)
(* a request).  A sign-in waits for the provider and, the first time, for  *)
(* git init; other handlers wait for a body or for GitHub.  A new process  *)
(* may have another list of system administrators.                         *)
(***************************************************************************)
EXTENDS Naturals, FiniteSets

CONSTANTS People,     \* accounts at the identity provider
          Browsers,   \* bound: sign-ins underway at once
          SessionIds, \* bound: sessions that are ever made
          TokenIds,   \* bound: API tokens that are ever made
          Lifetime,   \* days a session lasts
          MaxDate     \* bound: the calendar

ASSUME AccountsAssumption == Lifetime \in Nat /\ MaxDate \in Nat

VARIABLES
    account,   \* account[p]: the user row of p
    personal,  \* personal[p]: repositories whose owner is the user p
    signIn,    \* signIn[b]: the callback that browser b waits for
    cutShort,  \* history: those whose first sign-in did not end
    session,   \* session[s]
    token,     \* token[k]
    minting,   \* POST /tokens requests that wait for their body
    installs,  \* GitHub App callbacks that wait for GitHub
    sysadmins, \* SYSADMIN_EMAILS of the running process
    date

accountVars == <<account, personal, signIn, cutShort, session, token, minting,
                 installs, sysadmins, date>>

NoAccount == [cached |-> "none"]
Idle == [phase |-> "idle"]
Unused == [state |-> "unused"]
LoggedOut == [state |-> "gone"]

DeploymentRoles == {"user", "sysadmin"}
AccountRows == [cached : DeploymentRoles, pat : BOOLEAN, app : BOOLEAN]
SignIns == [phase : {"provider", "repository"}, person : People]
Sessions == [state : {"live"}, user : People, until : Nat]
Tokens == [state : {"live", "revoked"}, user : People, expires : Nat]
Never == MaxDate + 1

HasAccount(p) == account[p] # NoAccount

\* deploymentRoleForEmail.
DeploymentRole(p) == IF p \in sysadmins THEN "sysadmin" ELSE "user"

AccountsInit ==
    /\ account = [p \in People |-> NoAccount]
    /\ personal = [p \in People |-> 0]
    /\ signIn = [b \in Browsers |-> Idle]
    /\ cutShort = {}
    /\ session = [s \in SessionIds |-> Unused]
    /\ token = [k \in TokenIds |-> Unused]
    /\ minting = {} /\ installs = {}
    /\ sysadmins = {}
    /\ date = 0

----------------------------------------------------------------------------
(* Who a request acts for.                                                 *)

\* sessionMiddleware.
SessionWorks(s) == session[s].state = "live" /\ session[s].until > date

\* requireAuth: an expiry is an instant, a token without one never expires.
TokenWorks(k) ==
    /\ token[k].state = "live"
    /\ token[k].expires = Never \/ token[k].expires > date

ActsFor(p) == \/ \E s \in SessionIds : SessionWorks(s) /\ session[s].user = p
              \/ \E k \in TokenIds : TokenWorks(k) /\ token[k].user = p

----------------------------------------------------------------------------
(* Sign-in and sign-out.                                                   *)

\* The cookies match and the provider is asked for the profile.
BeginSignIn(b, p) ==
    /\ signIn[b] = Idle
    /\ signIn' = [signIn EXCEPT ![b] = [phase |-> "provider", person |-> p]]
    /\ UNCHANGED <<account, personal, cutShort, session, token, minting, installs, sysadmins, date>>

\* The provider fails, or has not verified the address.
RejectSignIn(b) ==
    /\ signIn[b].phase = "provider"
    /\ signIn' = [signIn EXCEPT ![b] = Idle]
    /\ UNCHANGED <<account, personal, cutShort, session, token, minting, installs, sysadmins, date>>

\* Mutant of OpenSession: a session of the same person is used again.
RenewSession(p, s) ==
    /\ session[s] \notin {Unused, LoggedOut} => session[s].user = p
    /\ session[s] # LoggedOut
    /\ session' = [session EXCEPT ![s] = [state |-> "live", user |-> p, until |-> date + Lifetime]]

OpenSession(p, s) ==
    /\ session[s] = Unused
    /\ session' = [session EXCEPT ![s] = [state |-> "live", user |-> p, until |-> date + Lifetime]]

\* A row for this person is found: its role is refreshed, no repository made.
SignInAgain(b, s) ==
    LET p == signIn[b].person
    IN  /\ signIn[b].phase = "provider" /\ HasAccount(p)
        /\ account' = [account EXCEPT ![p].cached = DeploymentRole(p)]
        /\ OpenSession(p, s)
        /\ signIn' = [signIn EXCEPT ![b] = Idle]
        /\ UNCHANGED <<personal, cutShort, token, minting, installs, sysadmins, date>>

\* The first time the row is inserted and git init started.
SignUp(b) ==
    LET p == signIn[b].person
    IN  /\ signIn[b].phase = "provider" /\ ~HasAccount(p)
        /\ account' = [account EXCEPT ![p] =
                         [cached |-> DeploymentRole(p), pat |-> FALSE, app |-> FALSE]]
        /\ signIn' = [signIn EXCEPT ![b].phase = "repository"]
        /\ UNCHANGED <<personal, cutShort, session, token, minting, installs, sysadmins, date>>

FinishSignUp(b, s) ==
    LET p == signIn[b].person
    IN  /\ signIn[b].phase = "repository"
        /\ personal' = [personal EXCEPT ![p] = @ + 1]
        /\ OpenSession(p, s)
        /\ signIn' = [signIn EXCEPT ![b] = Idle]
        /\ UNCHANGED <<account, cutShort, token, minting, installs, sysadmins, date>>

\* git init fails: the row stays.
FailSignUp(b) ==
    /\ signIn[b].phase = "repository"
    /\ signIn' = [signIn EXCEPT ![b] = Idle]
    /\ cutShort' = cutShort \cup {signIn[b].person}
    /\ UNCHANGED <<account, personal, session, token, minting, installs, sysadmins, date>>

\* POST /logout deletes the row the cookie names, expired or not.
LogOut(s) ==
    /\ session[s].state = "live"
    /\ session' = [session EXCEPT ![s] = LoggedOut]
    /\ UNCHANGED <<account, personal, signIn, cutShort, token, minting, installs, sysadmins, date>>

----------------------------------------------------------------------------
(* API tokens: managed by sessions only.                                   *)

BeginMint(s) ==
    /\ SessionWorks(s)
    /\ minting' = minting \cup {session[s].user}
    /\ UNCHANGED <<account, personal, signIn, cutShort, session, token, installs, sysadmins, date>>

\* The session may have ended while the body was read.
Mint(p, k, expires) ==
    /\ token[k] = Unused
    /\ expires # Never => expires >= date
    /\ minting' = minting \ {p}
    /\ token' = [token EXCEPT ![k] = [state |-> "live", user |-> p, expires |-> expires]]
    /\ UNCHANGED <<account, personal, signIn, cutShort, session, installs, sysadmins, date>>

\* The token has no name.
RefuseMint(p) ==
    /\ minting' = minting \ {p}
    /\ UNCHANGED <<account, personal, signIn, cutShort, session, token, installs, sysadmins, date>>

Revoke(s, k) ==
    /\ SessionWorks(s)
    /\ token[k].state = "live" /\ token[k].user = session[s].user
    /\ token' = [token EXCEPT ![k].state = "revoked"]
    /\ UNCHANGED <<account, personal, signIn, cutShort, session, minting, installs, sysadmins, date>>

----------------------------------------------------------------------------
(* The deployment role.                                                    *)

\* GET /session works the role out anew and stores it; requireSysadmin as well.
RefreshRole(p) ==
    /\ ActsFor(p) /\ account[p].cached # DeploymentRole(p)
    /\ account' = [account EXCEPT ![p].cached = DeploymentRole(p)]
    /\ UNCHANGED <<personal, signIn, cutShort, session, token, minting, installs, sysadmins, date>>

----------------------------------------------------------------------------
(* The GitHub credential.                                                  *)

\* Mutant of SetCredential: the installation is kept beside a token.
SetBesideApp(p, pat, app) ==
    account' = [account EXCEPT ![p].pat = pat, ![p].app = app \/ @]

SetCredential(p, pat, app) == account' = [account EXCEPT ![p].pat = pat, ![p].app = app]

BeginInstall(p) ==
    /\ ActsFor(p)
    /\ installs' = installs \cup {p}
    /\ UNCHANGED <<account, personal, signIn, cutShort, session, token, minting, sysadmins, date>>

\* GitHub has confirmed the installation and who may use it.
FinishInstall(p) ==
    /\ p \in installs /\ installs' = installs \ {p}
    /\ SetCredential(p, FALSE, TRUE)
    /\ UNCHANGED <<personal, signIn, cutShort, session, token, minting, sysadmins, date>>

RejectInstall(p) ==
    /\ p \in installs /\ installs' = installs \ {p}
    /\ UNCHANGED <<account, personal, signIn, cutShort, session, token, minting, sysadmins, date>>

PutGitHubToken(p) ==
    /\ ActsFor(p)
    /\ SetCredential(p, TRUE, FALSE)
    /\ UNCHANGED <<personal, signIn, cutShort, session, token, minting, installs, sysadmins, date>>

Disconnect(p) ==
    /\ ActsFor(p)
    /\ SetCredential(p, FALSE, FALSE)
    /\ UNCHANGED <<personal, signIn, cutShort, session, token, minting, installs, sysadmins, date>>

\* getUserGitHubCredential: what an import authenticates with.
Credential(p) ==
    IF ~HasAccount(p) THEN "none"
    ELSE IF account[p].app THEN "app" ELSE IF account[p].pat THEN "pat" ELSE "none"

\* GET /me/github-token: what the settings say.
Connected(p) == HasAccount(p) /\ (account[p].app \/ account[p].pat)

----------------------------------------------------------------------------

NextDate ==
    /\ date < MaxDate
    /\ date' = date + 1
    /\ UNCHANGED <<account, personal, signIn, cutShort, session, token, minting, installs, sysadmins>>

\* The process ends and another one starts, with its own environment.
Redeploy(listed) ==
    /\ sysadmins' = listed
    /\ cutShort' = cutShort \cup {signIn[b].person : b \in {c \in Browsers : signIn[c].phase = "repository"}}
    /\ signIn' = [b \in Browsers |-> Idle]
    /\ minting' = {} /\ installs' = {}
    /\ UNCHANGED <<account, personal, session, token, date>>

SignInPhases(b) ==
    \/ \E p \in People : BeginSignIn(b, p)
    \/ RejectSignIn(b)
    \/ SignUp(b)
    \/ FailSignUp(b)
    \/ \E s \in SessionIds : SignInAgain(b, s) \/ FinishSignUp(b, s)

TokenSteps(s) ==
    \/ BeginMint(s)
    \/ \E k \in TokenIds : Revoke(s, k)
    \/ LogOut(s)

PersonSteps(p) ==
    \/ RefreshRole(p)
    \/ BeginInstall(p) \/ FinishInstall(p) \/ RejectInstall(p)
    \/ PutGitHubToken(p) \/ Disconnect(p)

AccountsNext ==
    \/ \E b \in Browsers : SignInPhases(b)
    \/ \E s \in SessionIds : TokenSteps(s)
    \/ \E p \in minting : RefuseMint(p) \/ (\E k \in TokenIds, e \in 0 .. Never : Mint(p, k, e))
    \/ \E p \in People : PersonSteps(p)
    \/ NextDate
    \/ \E listed \in SUBSET People : Redeploy(listed)

AccountsSpec == AccountsInit /\ [][AccountsNext]_accountVars

----------------------------------------------------------------------------
(* Properties.                                                             *)

\* The variables keep their types.
AccountsTypeOK ==
    /\ account \in [People -> AccountRows \cup {NoAccount}]
    /\ personal \in [People -> Nat]
    /\ signIn \in [Browsers -> SignIns \cup {Idle}]
    /\ cutShort \subseteq People
    /\ session \in [SessionIds -> Sessions \cup {Unused, LoggedOut}]
    /\ token \in [TokenIds -> Tokens \cup {Unused}]
    /\ minting \subseteq People /\ installs \subseteq People
    /\ sysadmins \subseteq People
    /\ date \in 0 .. MaxDate

\* However often and at the same time a person signs in, there is one account
\* and one personal repository: it is missing only while the first sign-in is
\* underway or when that was cut short, which is the only way to go without
\* one.  Nobody acts without an account, and the credential
\* that was stored last is the one that imports use.
AccountsAreWhole ==
    /\ \A p \in People :
         /\ personal[p] <= 1
         /\ personal[p] = 1 <=>
              /\ HasAccount(p) /\ p \notin cutShort
              /\ \A b \in Browsers : signIn[b] # [phase |-> "repository", person |-> p]
         /\ ActsFor(p) => HasAccount(p)
         /\ HasAccount(p) /\ account[p].pat => Credential(p) = "pat"
         /\ Connected(p) <=> Credential(p) # "none"
         /\ p \in installs \cup minting => HasAccount(p)

\* What has stopped working never works again: a session that was logged out or
\* has expired, a token that was revoked or has expired, across every restart.
\* New sessions come from sign-ins, and new tokens from a request that a session
\* of that person began.
DeadStaysDead ==
    [][/\ \A s \in SessionIds :
            /\ session[s] # Unused /\ ~SessionWorks(s) => ~SessionWorks(s)'
            /\ session[s] = Unused /\ session'[s] # Unused =>
                 \E b \in Browsers : signIn[b] # Idle /\ signIn[b].person = session'[s].user
       /\ \A k \in TokenIds :
            /\ token[k] # Unused /\ ~TokenWorks(k) => ~TokenWorks(k)'
            /\ token[k] = Unused /\ token'[k] # Unused => token'[k].user \in minting]_accountVars
=============================================================================
