------------------------------ MODULE Projects ------------------------------
(***************************************************************************)
(* Projects: named folders of a user or of a team (routes/projects.ts).    *)
(* A project is its owner and its slug; what else its row holds is text.   *)
(***************************************************************************)
EXTENDS Directory

CONSTANTS Slugs,    \* project slugs
          MaxEdits  \* bound: updates waiting for a body at once

ASSUME ProjectsAssumption == MaxEdits \in Nat

VARIABLES
    project, \* project[o][s]: the user who created it, None where there is none
    edits    \* PATCH requests that have passed the check and wait for the body

projectVars == <<project, edits>>

Owners == Users \cup Teams

ProjectsInit ==
    /\ project = [o \in Owners |-> [s \in Slugs |-> None]]
    /\ edits = {}

\* A team's project needs a membership, of any role; for a user's the body names
\* the owner, and any account will do.
CreateProject(u, o, s) ==
    /\ u \in Registered
    /\ IF o \in Teams THEN IsMember(o, u) ELSE o \in Registered
    /\ project[o][s] = None
    /\ project' = [project EXCEPT ![o][s] = u]
    /\ UNCHANGED <<directoryVars, edits>>

MayEdit(u, o) == o = u \/ (o \in Teams /\ role[o][u] \in {"owner", "admin"})
MayDelete(u, o) == o = u \/ (o \in Teams /\ role[o][u] = "owner")

\* GET /: by team, by user, or what the caller created.
Listed(u, o) ==
    IF o \in Teams THEN IF IsMember(o, u) THEN {s \in Slugs : project[o][s] # None} ELSE {}
    ELSE IF o = u THEN {s \in Slugs : project[o][s] # None} ELSE {}

BeginEdit(u, o, s) ==
    /\ u \in Registered
    /\ project[o][s] # None /\ MayEdit(u, o)
    /\ Cardinality(edits) < MaxEdits
    /\ edits' = edits \cup {<<u, o, s>>}
    /\ UNCHANGED <<directoryVars, project>>

\* The update of name and description; nothing is left to update once the row
\* is gone.
EndEdit(edit) ==
    /\ edits' = edits \ {edit}
    /\ UNCHANGED <<directoryVars, project>>

DeleteProject(u, o, s) ==
    /\ u \in Registered
    /\ project[o][s] # None /\ MayDelete(u, o)
    /\ project' = [project EXCEPT ![o][s] = None]
    /\ UNCHANGED <<directoryVars, edits>>

\* Mutant of CascadeProjects: the projects of a team stay.
ProjectsStay == UNCHANGED project

\* A team's projects go with the team.
CascadeProjects ==
    project' = [o \in Owners |-> IF o \in teams \ teams' THEN [s \in Slugs |-> None] ELSE project[o]]

ProjectsNext ==
    \/ \E u \in Users, o \in Owners, s \in Slugs :
          CreateProject(u, o, s) \/ BeginEdit(u, o, s) \/ DeleteProject(u, o, s)
    \/ \E edit \in edits : EndEdit(edit)
    \/ DirectoryNext /\ CascadeProjects /\ UNCHANGED edits

ProjectsSpec == ProjectsInit /\ DirectoryInit /\ [][ProjectsNext]_<<directoryVars, projectVars>>

----------------------------------------------------------------------------
(* Properties.                                                             *)

\* The variables keep their types.
ProjectsTypeOK ==
    /\ project \in [Owners -> [Slugs -> Users \cup {None}]]
    /\ edits \subseteq Users \X Owners \X Slugs

\* Every project has someone who finds it in a list and may delete it, however
\* members come and go: none is left behind when its team or the person who
\* created it leaves.
ProjectsHaveKeepers ==
    \A o \in Owners, s \in Slugs :
      project[o][s] # None => \E u \in Registered : s \in Listed(u, o) /\ MayDelete(u, o)
=============================================================================
