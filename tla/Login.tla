-------------------------------- MODULE Login --------------------------------
(***************************************************************************)
(* patra login and the file in which the client keeps its token            *)
(* (commands/login.ts, lib/config.ts of the client).  Several terminals    *)
(* may run the command at once; a write of the file truncates it first and *)
(* a process may be killed at any point.                                   *)
(***************************************************************************)
EXTENDS Naturals, FiniteSets

CONSTANTS Servers,       \* API URLs
          DefaultServer, \* the URL of a client without any configuration
          LoginTokens,   \* tokens that are given to the command
          Accepts,       \* Accepts[url]: the tokens the server at url knows
          Terminals      \* bound: commands that run at once

ASSUME LoginAssumption ==
    /\ DefaultServer \in Servers
    /\ Accepts \in [Servers -> SUBSET LoginTokens]

VARIABLES
    config, \* the file: absent, whole or torn; and whether others may write it
    login   \* login[n]: the command in terminal n

loginVars == <<config, login>>

NoToken == "no token"
Away == [stage |-> "away"]
Configs == [state : {"absent", "whole", "torn"}, loose : BOOLEAN,
            url : Servers, token : LoginTokens \cup {NoToken}]
Logins == [stage : {"asking", "writing"}, url : Servers, token : LoginTokens]

LoginInit ==
    /\ config = [state |-> "absent", loose |-> FALSE, url |-> DefaultServer, token |-> NoToken]
    /\ login = [n \in Terminals |-> Away]

\* loadConfig: a file that others may write, or that is no JSON, is an error.
Loads == config.state = "absent" \/ (config.state = "whole" /\ ~config.loose)

\* getApiUrl: the environment comes first, then the file, then the default.
ApiUrl(fromEnv) ==
    IF fromEnv # {} THEN CHOOSE url \in fromEnv : TRUE
    ELSE IF config.state = "whole" THEN config.url ELSE DefaultServer

\* authenticate: the file is loaded and the server asked about the token.
StartLogin(n, token, fromEnv) ==
    /\ login[n] = Away
    /\ Loads
    /\ login' = [login EXCEPT ![n] = [stage |-> "asking", url |-> ApiUrl(fromEnv), token |-> token]]
    /\ UNCHANGED config

\* The server answers and the file is truncated; its mode is set as well.
BeginSave(n) ==
    /\ login[n].stage = "asking" /\ login[n].token \in Accepts[login[n].url]
    /\ login' = [login EXCEPT ![n].stage = "writing"]
    /\ config' = [config EXCEPT !.state = "torn"]

\* Where another command has truncated or written the file since, its text may
\* stick out behind this one; a file that was deleted since stays away.
EndSave(n) ==
    LET shared == config.state = "whole" \/ \E m \in Terminals \ {n} : login[m].stage = "writing"
    IN  /\ login[n].stage = "writing"
        /\ login' = [login EXCEPT ![n] = Away]
        /\ IF config.state = "absent" THEN UNCHANGED config
           ELSE \E state \in IF shared THEN {"whole", "torn"} ELSE {"whole"} :
                  config' = [state |-> state, loose |-> FALSE,
                             url |-> login[n].url, token |-> login[n].token]

\* The server does not know the token, or does not answer, or the process is
\* killed; a file that was being written stays as it is.
Abandon(n) ==
    /\ login[n] # Away
    /\ login' = [login EXCEPT ![n] = Away]
    /\ UNCHANGED config

\* The user deletes the file, or changes its mode.
Delete ==
    /\ config.state # "absent"
    /\ config' = [state |-> "absent", loose |-> FALSE, url |-> DefaultServer, token |-> NoToken]
    /\ UNCHANGED login

Chmod ==
    /\ config.state # "absent"
    /\ config' = [config EXCEPT !.loose = ~@]
    /\ UNCHANGED login

LoginNext ==
    \/ \E n \in Terminals, token \in LoginTokens, fromEnv \in {{url} : url \in Servers} \cup {{}} :
         StartLogin(n, token, fromEnv)
    \/ \E n \in Terminals : BeginSave(n) \/ EndSave(n) \/ Abandon(n)
    \/ Delete
    \/ Chmod

LoginSpec == LoginInit /\ [][LoginNext]_loginVars

----------------------------------------------------------------------------
(* Properties.                                                             *)

\* The variables keep their types.
LoginTypeOK == config \in Configs /\ login \in [Terminals -> Logins \cup {Away}]

\* What a later command reads from the file and sends is a token that the very
\* server it is sent to has accepted, never a token of one login with the URL
\* of another or half of either: a file that does not say so is refused.
SavedTokensWork == Loads /\ config.token # NoToken => config.token \in Accepts[config.url]
=============================================================================
