---------------------------- MODULE MCRepoPublish ----------------------------
(* Instances of RepoPublish: a handful of requests, two paths, one or two      *)
(* contents.                                                                   *)
(* The branch names are strings because the code names "main".                 *)
EXTENDS RepoPublish, TLC

MainOnly == {"main"}
MainAndMaster == {"main", "master"}
OnMain == "main"
OnMaster == "master"

NoFaults == {}
AllButCut == FaultKinds \ {"hookCut"}
FaultsAnswered == {"cloneFail", "hookLost", "pushTimeout", "extractFail", "sourceFail"}
TimeoutsOnly == {"pushTimeout"}
CrashOnly == {"crash"}

\* Requests of one kind, paths and contents are interchangeable (safety runs only).
Interchangeable ==
    Permutations(Edits) \cup Permutations(Pushes) \cup Permutations(Files) \cup Permutations(Blobs)
=============================================================================
