-------------------------------- MODULE Push --------------------------------
(***************************************************************************)
(* patra push (commands/push.ts, lib/target.ts and lib/api-client.ts of    *)
(* the client): it finds the repository, collects a directory, reads the   *)
(* files, uploads them in one request and shares the target.  Requests may *)
(* be lost on the way there or back, and the files belong to others, who   *)
(* change them meanwhile.                                                  *)
(***************************************************************************)
EXTENDS Naturals, FiniteSets
LOCAL INSTANCE Functions

CONSTANTS Entries,      \* what is in the directory
          Sizes,        \* the sizes that files have
          MaxBytes,     \* PATRA_MAX_UPLOAD_BYTES
          MaxFiles,     \* PATRA_MAX_UPLOAD_FILES
          Attempts,     \* PATRA_MAX_RETRIES: how often a GET is sent
          WantedTeams   \* bound: the teams that --share-team names

ASSUME PushAssumption ==
    /\ IsFiniteSet(Entries) /\ Sizes \subseteq Nat /\ MaxBytes \in Nat /\ MaxFiles \in Nat
    /\ Attempts \in Nat \ {0} /\ WantedTeams \in Nat

VARIABLES
    local,     \* local[e]: what the entry e is at present
    cli,       \* the command: its phase, the attempt at a request, what is left to do
    plan,      \* what the command line asks for
    collected, \* the files that were found
    read,      \* the files and bytes that have been read
    served     \* what has been done at the server

pushVars == <<local, cli, plan, collected, read, served>>

\* Dotfiles and node_modules are hidden; a name may be one the server would not
\* take; the size of a vanished file cannot be read.
EntryKinds == {"file", "link", "hidden", "odd", "vanished"}
LocalEntry == [kind : EntryKinds, size : Sizes]

Phases == {"resolve", "collect", "read", "upload", "email", "find", "team", "ended"}
Exits == {"none", "ok", "partial", "error"}

PushInit ==
    /\ local \in [Entries -> LocalEntry]
    /\ plan \in [gets : {1, 2}, email : BOOLEAN, teams : 0 .. WantedTeams]
    /\ cli = [phase |-> "resolve", attempt |-> 1, exit |-> "none", failed |-> FALSE,
              gets |-> plan.gets, teams |-> plan.teams]
    /\ collected = {}
    /\ read = [files |-> {}, bytes |-> 0]
    /\ served = [uploads |-> 0, files |-> {}, bytes |-> 0, emails |-> 0, teams |-> 0]

----------------------------------------------------------------------------
(* What the phases have in common.                                         *)

Enter(phase) == cli' = [cli EXCEPT !.phase = phase, !.attempt = 1]
End(exit) == cli' = [cli EXCEPT !.phase = "ended", !.exit = exit]

\* After the upload or a share: the next team, or the exit code.
GoOn(failed, teams) ==
    LET next == [cli EXCEPT !.attempt = 1, !.failed = failed, !.teams = teams]
    IN  cli' = IF teams > 0 THEN [next EXCEPT !.phase = "find"]
               ELSE [next EXCEPT !.phase = "ended", !.exit = IF failed THEN "partial" ELSE "ok"]

\* request with method GET: no answer, or one of 429, 502, 503, 504, is worth
\* another attempt; every other failure, a redirect included, is final.
Again ==
    /\ cli.attempt < Attempts
    /\ cli' = [cli EXCEPT !.attempt = @ + 1]

\* request with another method is sent once.  Whatever the client takes for a
\* failure (no answer in time, a redirect, an error, a body that is too large,
\* or no JSON after an upload) may or may not have been acted on.
Done(effect) == served' = effect
NotDone == UNCHANGED served

----------------------------------------------------------------------------
(* resolveTarget: one GET for the personal repository, two for a team's.   *)

ResolveAnswered ==
    /\ cli.phase = "resolve"
    /\ cli' = [cli EXCEPT !.gets = @ - 1, !.attempt = 1,
                          !.phase = IF cli.gets > 1 THEN "resolve" ELSE "collect"]
    /\ UNCHANGED <<local, plan, collected, read, served>>

ResolveAgain == cli.phase = "resolve" /\ Again /\ UNCHANGED <<local, plan, collected, read, served>>

ResolveFails ==
    /\ cli.phase = "resolve"
    /\ End("error")
    /\ UNCHANGED <<local, plan, collected, read, served>>

----------------------------------------------------------------------------
(* collectFiles, enforceUploadLimits and the loop that reads.              *)

OfKind(kind) == {e \in Entries : local[e].kind = kind}

\* Links and what is hidden are skipped, everything else must be in order.
Collect ==
    LET files == OfKind("file") \cup OfKind("odd")
        total == SumFunction([e \in files |-> local[e].size])
        acceptable == /\ OfKind("vanished") = {} /\ files # {}
                      /\ OfKind("odd") = {}
                      /\ Cardinality(files) <= MaxFiles /\ total <= MaxBytes
    IN  /\ cli.phase = "collect"
        /\ IF acceptable THEN Enter("read") /\ collected' = files
           ELSE End("error") /\ UNCHANGED collected
        /\ UNCHANGED <<local, plan, read, served>>

\* The bytes are counted again as they are read.
ReadFile(e) ==
    /\ cli.phase = "read" /\ e \in collected \ read.files
    /\ IF local[e].kind = "vanished" \/ read.bytes + local[e].size > MaxBytes
       THEN End("error") /\ UNCHANGED read
       ELSE /\ read' = [files |-> read.files \cup {e}, bytes |-> read.bytes + local[e].size]
            /\ IF read'.files = collected THEN Enter("upload") ELSE UNCHANGED cli
    /\ UNCHANGED <<local, plan, collected, served>>

----------------------------------------------------------------------------
(* The upload, and the shares that were asked for.                         *)

Uploaded == [served EXCEPT !.uploads = @ + 1, !.files = read.files, !.bytes = read.bytes]

UploadAnswered ==
    /\ cli.phase = "upload"
    /\ Done(Uploaded)
    /\ IF plan.email THEN Enter("email") ELSE GoOn(FALSE, cli.teams)
    /\ UNCHANGED <<local, plan, collected, read>>

UploadFails ==
    /\ cli.phase = "upload"
    /\ Done(Uploaded) \/ NotDone
    /\ End("error")
    /\ UNCHANGED <<local, plan, collected, read>>

ShareByEmail(answered) ==
    /\ cli.phase = "email"
    /\ Done([served EXCEPT !.emails = @ + 1]) \/ (~answered /\ NotDone)
    /\ GoOn(~answered, cli.teams)
    /\ UNCHANGED <<local, plan, collected, read>>

FindTeam ==
    /\ cli.phase = "find"
    /\ Enter("team")
    /\ UNCHANGED <<local, plan, collected, read, served>>

FindAgain == cli.phase = "find" /\ Again /\ UNCHANGED <<local, plan, collected, read, served>>

\* The team is not in the list, or there is no list: on to the next one.
FindFails ==
    /\ cli.phase = "find"
    /\ GoOn(TRUE, cli.teams - 1)
    /\ UNCHANGED <<local, plan, collected, read, served>>

\* Mutant of ShareWithTeam: the outcome of the last share is the exit code.
ShareForgetful(answered) ==
    /\ cli.phase = "team"
    /\ Done([served EXCEPT !.teams = @ + 1]) \/ (~answered /\ NotDone)
    /\ GoOn(~answered, cli.teams - 1)
    /\ UNCHANGED <<local, plan, collected, read>>

ShareWithTeam(answered) ==
    /\ cli.phase = "team"
    /\ Done([served EXCEPT !.teams = @ + 1]) \/ (~answered /\ NotDone)
    /\ GoOn(cli.failed \/ ~answered, cli.teams - 1)
    /\ UNCHANGED <<local, plan, collected, read>>

\* Somebody else writes to a file, or removes it.
Disturb(e, entry) ==
    /\ cli.phase \in {"collect", "read"}
    /\ local[e].kind = "file" /\ entry.kind \in {"file", "vanished"} /\ entry # local[e]
    /\ local' = [local EXCEPT ![e] = entry]
    /\ UNCHANGED <<cli, plan, collected, read, served>>

PushNext ==
    \/ ResolveAnswered \/ ResolveAgain \/ ResolveFails
    \/ Collect
    \/ \E e \in Entries : ReadFile(e) \/ (\E entry \in LocalEntry : Disturb(e, entry))
    \/ UploadAnswered \/ UploadFails
    \/ \E answered \in BOOLEAN : ShareByEmail(answered) \/ ShareWithTeam(answered)
    \/ FindTeam \/ FindAgain \/ FindFails

PushSpec == PushInit /\ [][PushNext]_pushVars

----------------------------------------------------------------------------
(* Properties.                                                             *)

\* The variables keep their types.
PushTypeOK ==
    /\ local \in [Entries -> LocalEntry]
    /\ cli.phase \in Phases /\ cli.exit \in Exits /\ cli.attempt \in 1 .. Attempts
    /\ collected \subseteq Entries /\ read.files \subseteq collected

\* The exit code tells what happened, whatever is lost and whatever others do
\* to the files meanwhile: 0 is an upload of all the files that were collected
\* and every share that was asked for; a code for a partial success is an
\* upload; without an upload nothing is shared.  No upload and no share is
\* made twice, and none is larger than the limit.
PushIsHonest ==
    /\ served.uploads <= 1 /\ served.emails <= 1 /\ served.teams <= plan.teams
    /\ served.bytes <= MaxBytes /\ Cardinality(served.files) <= MaxFiles
    /\ served.emails + served.teams > 0 => served.uploads = 1
    /\ cli.exit \in {"ok", "partial"} => served.uploads = 1 /\ served.files = collected
    /\ cli.exit = "ok" => /\ plan.email => served.emails = 1
                          /\ served.teams = plan.teams
    /\ cli.exit = "error" => served.emails + served.teams = 0
=============================================================================
