------------------------------ MODULE MCServer ------------------------------
(***************************************************************************)
(* Instances of the components of the server that share no state: people   *)
(* and teams, drafts and their forms, accounts and credentials, the rate   *)
(* limiters, webhooks, views.  A behaviour is one of any one of them; the  *)
(* variable part says of which.                                            *)
(***************************************************************************)
EXTENDS Teams, Forms, Accounts, RateLimits, Webhooks, Views, TLC

CONSTANTS u1, u2, t1, addr1, ADDR1, addr2

VARIABLE part

serverVars == <<teamVars, allFormVars, accountVars, limitVars, webhookVars, viewVars, part>>

\* ADDR1 is addr1 in another spelling; u2 may come with an address u1 had before.
MCAddressesOf == (u1 :> {addr1, addr2}) @@ (u2 :> {addr2})
MCLower == (addr1 :> addr1) @@ (ADDR1 :> addr1) @@ (addr2 :> addr2)
MCOwner == "home" :> t1

MCClients == {[ip |-> ip, agent |-> "x"] : ip \in {"i", "j"}}
MCLimit == [public |-> 2, auth |-> 1, global |-> 2, ip |-> 2, visitor |-> 1]
MCCapacity == [shared |-> 2, global |-> 1, ip |-> 1, visitor |-> 2]

MCOwnerOf == [h \in Hooks |-> "u"]

MCVisitors == {[ip |-> "i", agent |-> "x"], [ip |-> "i", agent |-> "y"], [ip |-> "j", agent |-> "x"]}

Init ==
    /\ part \in {"teams", "forms", "accounts", "limits", "webhooks", "views"}
    /\ TeamsInit /\ FormsInit /\ AccountsInit /\ LimitsInit /\ WebhooksInit /\ ViewsInit

Next ==
    /\ UNCHANGED part
    /\ \/ /\ part = "teams" /\ TeamsNext
          /\ UNCHANGED <<allFormVars, accountVars, limitVars, webhookVars, viewVars>>
       \/ /\ part = "forms" /\ FormsNext
          /\ UNCHANGED <<teamVars, accountVars, limitVars, webhookVars, viewVars>>
       \/ /\ part = "accounts" /\ AccountsNext
          /\ UNCHANGED <<teamVars, allFormVars, limitVars, webhookVars, viewVars>>
       \/ /\ part = "limits" /\ LimitsNext
          /\ UNCHANGED <<teamVars, allFormVars, accountVars, webhookVars, viewVars>>
       \/ /\ part = "webhooks" /\ WebhooksNext
          /\ UNCHANGED <<teamVars, allFormVars, accountVars, limitVars, viewVars>>
       \/ /\ part = "views" /\ ViewsNext
          /\ UNCHANGED <<teamVars, allFormVars, accountVars, limitVars, webhookVars>>

Spec == Init /\ [][Next]_serverVars

\* The variables of the component that moves keep their types.
ServerTypes ==
    CASE part = "teams"    -> TeamsTypeOK
      [] part = "forms"    -> DraftsTypeOK /\ FormsTypeOK
      [] part = "accounts" -> AccountsTypeOK
      [] part = "limits"   -> LimitsTypeOK
      [] part = "webhooks" -> WebhooksTypeOK
      [] part = "views"    -> ViewsTypeOK
=============================================================================
