----------------------------- MODULE MCSharing -----------------------------
(***************************************************************************)
(* Instances of what serves and makes shares: Links, Grants and Projects   *)
(* over the same people and teams, which move in any way that Directory    *)
(* allows, the paths below shares, and the command-line client.  These     *)
(* share no state but the directory: a behaviour is one of any one of      *)
(* them, and the variable part says of which.                              *)
(***************************************************************************)
EXTENDS Links, Grants, Projects, Paths, Push, Login, TLC

CONSTANTS u1, u2, t1, home, addr1, addr2, addr3

VARIABLE part

peopleVars == <<directoryVars, linkVars, grantVars, projectVars>>
clientVars == <<asked, pushVars, loginVars>>
sharingVars == <<peopleVars, clientVars, part>>

\* addr2 is of the domain of addr1, in other letters; addr3 is of another one.
MCAddressesOf == (u1 :> {addr1, addr2}) @@ (u2 :> {addr2, addr3})
MCOwner == home :> t1
MCDomain == (addr1 :> "x.org") @@ (addr2 :> "X.org") @@ (addr3 :> "y.org")
MCLowerDomain == [d \in {"x.org", "X.org", "y.org"} |-> IF d = "X.org" THEN "x.org" ELSE d]
MCPaths == {Empty, Spelled(<<"a">>), Spelled(<<"", "a">>)}
MCAsked == MCPaths \cup {Spelled(<<"a", "b">>), Spelled(<<"a", "..", "b">>)}
MCLinked == {<<home, Empty>>}
MCRequested == {[value |-> 0, unit |-> "h"], [value |-> 1, unit |-> "m"], Malformed}

\* The base d is a link to the worktree w, and e is a directory outside.  In
\* the worktree there is at most one thing at a, or in a, and one beside it.
Dir == [kind |-> "dir"]
File(size) == [kind |-> "file", size |-> size]
LinkTo(path) == [kind |-> "link", to |-> path]
MCBase == <<"d">>
InW(names) == <<"w">> \o names
Bare == (<<>> :> Dir) @@ (MCBase :> LinkTo(<<"w">>)) @@ (<<"w">> :> Dir)
        @@ (<<"e">> :> Dir) @@ (<<"e", "a">> :> File(1))
Nothing == <<>> :> Dir
AtA == {Nothing, InW(<<"a">>) :> File(1), InW(<<"a">>) :> File(3)}
       \cup {InW(<<"a">>) :> LinkTo(path) : path \in {<<"e">>, <<"e", "a">>, InW(<<"a">>), InW(<<"b">>)}}
       \cup {(InW(<<"a">>) :> Dir) @@ (InW(<<"a", name>>) :> node) :
               name \in {"a", "index.html"}, node \in {File(1), LinkTo(<<"e", "a">>)}}
       \cup {(InW(<<"a">>) :> Dir) @@ (InW(<<"a", ".git">>) :> File(1))}
BesideA == {Nothing, InW(<<"b">>) :> File(2), InW(<<"..a">>) :> File(1)}
MCTrees == {Bare @@ x @@ y : x \in AtA, y \in BesideA}

MCName == {"a", "b", "d", "e", "w", ".", "..", ".git", "..a", "a..", Control, "index.html", "index.xhtml"}
PartNames == {"", "a", "b", ".", "..", ".git", "..a", "a..", Control, "index.html"}
MCWritten == {[names |-> <<name>>, back |-> FALSE] : name \in PartNames}
             \cup [names : PartNames \X PartNames, back : BOOLEAN]
             \cup [names : {<<"", "a", "a">>, <<"a", "..", "e">>, <<"a", "", "a">>}, back : BOOLEAN]
MCShared == {Spelled(<<"a">>), Spelled(<<"..">>)}

MCAccepts == ("s1" :> {"k"}) @@ ("s2" :> {"l"})

Init ==
    /\ part \in {"links", "grants", "projects", "paths", "push", "login"}
    /\ DirectoryInit /\ LinksInit /\ GrantsInit /\ ProjectsInit
    /\ PathsInit /\ LoginInit
    /\ IF part = "push" THEN PushInit
       ELSE PushInit /\ plan = [gets |-> 1, email |-> FALSE, teams |-> 0]
                     /\ local = [e \in Entries |-> CHOOSE entry \in LocalEntry : TRUE]

InPeople == UNCHANGED <<clientVars, part>>
InLinks == part = "links" /\ UNCHANGED <<grantVars, projectVars>> /\ InPeople
InClient == UNCHANGED <<peopleVars, part>>

Next ==
    \/ InLinks /\ LinksNext
    \/ part = "grants" /\ GrantsNext /\ UNCHANGED <<linkVars, projectVars>> /\ InPeople
    \/ part = "projects" /\ ProjectsNext /\ UNCHANGED <<linkVars, grantVars>> /\ InPeople
    \/ part = "paths" /\ PathsNext /\ UNCHANGED <<pushVars, loginVars>> /\ InClient
    \/ part = "push" /\ PushNext /\ UNCHANGED <<asked, loginVars>> /\ InClient
    \/ part = "login" /\ LoginNext /\ UNCHANGED <<asked, pushVars>> /\ InClient

\* The scheduler starts the sweep of expired links at every interval.
Spec == Init /\ [][Next]_sharingVars /\ WF_sharingVars(InLinks /\ Sweep)

\* The variables of the component that moves keep their types.
SharingTypes ==
    CASE part = "links"    -> LinksTypeOK
      [] part = "grants"   -> GrantsTypeOK
      [] part = "projects" -> ProjectsTypeOK
      [] part = "push"     -> PushTypeOK
      [] part = "login"    -> LoginTypeOK
      [] OTHER             -> TRUE

\* The client tells the truth: what its exit code says of a push, and what it
\* keeps after a login.
ClientIsHonest == PushIsHonest /\ SavedTokensWork
=============================================================================
