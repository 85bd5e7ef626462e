-------------------------------- MODULE Forms --------------------------------
(***************************************************************************)
(* Site data: forms on hosted pages whose submissions are kept for the     *)
(* owner of the page (routes/siteData.ts, services/siteDataCleanup.ts).    *)
(* The page is a draft here; a repository of a user is managed the same    *)
(* way and goes with no handler of its own.  The opt-ins and the records   *)
(* have no foreign key to the draft.                                       *)
(***************************************************************************)
EXTENDS Drafts

CONSTANTS Forms,      \* the collections of a draft
          RecordIds,  \* bound: the submissions that are stored
          MaxRecords, \* SITE_DATA_MAX_RECORDS_PER_COLLECTION
          Retention   \* days that a deleted record is kept; 0 keeps it forever

ASSUME FormsAssumption ==
    MaxRecords \in Nat /\ Retention \in Nat /\ IsFiniteSet(RecordIds)

VARIABLES
    form,     \* form[d][f]: the opt-in of form f of draft d
    record,   \* record[i]: a submission
    opening,  \* opt-in requests that have passed authorizeManager and wait for the body
    dropping, \* dropping[d]: the table that the handler which deleted d empties next
    orphans   \* history variable: submissions that such a handler left behind

formVars == <<form, record, opening, dropping, orphans>>
allFormVars == <<draftVars, formVars>>

NoForm == [owner |-> "none"]
NoRecord == [owner |-> "none"]
OptIns == [owner : Authors, enabled : BOOLEAN]
\* For how many days a record has been deleted, up to one more than it is kept.
Ages == 0 .. Retention + 1
Live == Retention + 2
Records == [owner : Authors, of : DraftIds, in : Forms, deleted : Ages \cup {Live}]

FormsInit ==
    /\ DraftsInit
    /\ form = [d \in DraftIds |-> [f \in Forms |-> NoForm]]
    /\ record = [i \in RecordIds |-> NoRecord]
    /\ opening = {}
    /\ dropping = [d \in DraftIds |-> "none"]
    /\ orphans = {}

Stored(d) == {i \in RecordIds : record[i] # NoRecord /\ record[i].of = d}
LiveIn(d, f) == {i \in Stored(d) : record[i].in = f /\ record[i].deleted = Live}

\* resolveTarget and authorizeManager.
Manages(u, d) == HasDraft(d) /\ draft[d].owner = u

----------------------------------------------------------------------------

BeginOpen(d, u) ==
    /\ Waits + Cardinality(opening) < MaxWaits
    /\ Manages(u, d)
    /\ opening' = opening \cup {[draft |-> d, owner |-> u]}
    /\ UNCHANGED <<draftVars, form, record, dropping, orphans>>

\* The row is enabled again or inserted, without another look at the draft.
FinishOpen(o, f) ==
    /\ opening' = opening \ {o}
    /\ form' = [form EXCEPT ![o.draft][f] =
                  [owner |-> IF @ = NoForm THEN o.owner ELSE @.owner, enabled |-> TRUE]]
    /\ UNCHANGED <<draftVars, record, dropping, orphans>>

\* The body is not JSON or names no collection.
RefuseOpen(o) ==
    /\ opening' = opening \ {o}
    /\ UNCHANGED <<draftVars, form, record, dropping, orphans>>

CloseForm(d, u, f) ==
    /\ Manages(u, d) /\ form[d][f] # NoForm
    /\ form' = [form EXCEPT ![d][f].enabled = FALSE]
    /\ UNCHANGED <<draftVars, record, opening, dropping, orphans>>

\* Mutant of Accepts: the target is not looked up again.
AcceptsOptedIn(d, f) ==
    /\ form[d][f] # NoForm /\ form[d][f].enabled
    /\ Cardinality(LiveIn(d, f)) < MaxRecords

\* POST /:target/data/:collection, by anyone, after the body has been read.
Accepts(d, f) ==
    /\ form[d][f] # NoForm /\ form[d][f].enabled
    /\ Manages(form[d][f].owner, d)
    /\ Cardinality(LiveIn(d, f)) < MaxRecords

Submit(i, d, f) ==
    /\ record[i] = NoRecord
    /\ Accepts(d, f)
    /\ record' = [record EXCEPT ![i] =
                    [owner |-> form[d][f].owner, of |-> d, in |-> f, deleted |-> Live]]
    /\ orphans' = orphans \ {i}
    /\ UNCHANGED <<draftVars, form, opening, dropping>>

\* DELETE /:target/records/:recordId marks the record.
DeleteRecord(i, u) ==
    /\ record[i] # NoRecord /\ Manages(u, record[i].of)
    /\ record[i].deleted = Live
    /\ record' = [record EXCEPT ![i].deleted = 0]
    /\ UNCHANGED <<draftVars, form, opening, dropping, orphans>>

\* Mutant of Purged: the last day counts as over.
PurgedAtOnce(i) ==
    /\ record[i] # NoRecord /\ record[i].deleted # Live
    /\ Retention > 0 /\ record[i].deleted >= Retention

\* purgeDeletedSiteDataRecords, a job of the scheduler.
Purged(i) ==
    /\ record[i] # NoRecord /\ record[i].deleted # Live
    /\ Retention > 0 /\ record[i].deleted > Retention

Purge ==
    /\ \E i \in RecordIds : Purged(i)
    /\ record' = [i \in RecordIds |-> IF Purged(i) THEN NoRecord ELSE record[i]]
    /\ UNCHANGED <<draftVars, form, opening, dropping, orphans>>

NextDay ==
    /\ record' = [i \in RecordIds |->
                    IF record[i] # NoRecord /\ record[i].deleted < Retention + 1
                    THEN [record[i] EXCEPT !.deleted = @ + 1] ELSE record[i]]
    /\ UNCHANGED <<draftVars, form, opening, dropping, orphans>>

\* DELETE /:draftId deletes the row, and then the submissions and the opt-ins
\* (deleteSiteDataForTarget): three commits.
DeleteDraft(d) ==
    /\ FinishRemoval(d)
    /\ dropping' = [dropping EXCEPT ![d] = "records"]
    /\ UNCHANGED <<form, record, opening, orphans>>

DropRecords(d) ==
    /\ dropping[d] = "records"
    /\ record' = [i \in RecordIds |-> IF i \in Stored(d) THEN NoRecord ELSE record[i]]
    /\ dropping' = [dropping EXCEPT ![d] = "forms"]
    /\ UNCHANGED <<draftVars, form, opening, orphans>>

DropForms(d) ==
    /\ dropping[d] = "forms"
    /\ form' = [form EXCEPT ![d] = [f \in Forms |-> NoForm]]
    /\ dropping' = [dropping EXCEPT ![d] = "none"]
    /\ UNCHANGED <<draftVars, record, opening, orphans>>

\* One of the two fails.  The row is gone: nobody can ask again.
FailDrop(d) ==
    /\ dropping[d] # "none"
    /\ dropping' = [dropping EXCEPT ![d] = "none"]
    /\ orphans' = orphans \cup Stored(d)
    /\ UNCHANGED <<draftVars, form, record, opening>>

\* A new process: nobody waits for a body any more, or goes on dropping.
Restart ==
    /\ CrashDrafts
    /\ opening' = {}
    /\ dropping' = [d \in DraftIds |-> "none"]
    /\ orphans' = orphans \cup {i \in RecordIds : \E d \in DraftIds : dropping[d] # "none" /\ i \in Stored(d)}
    /\ UNCHANGED <<form, record>>

FormSteps(d, f) ==
    \/ \E o \in opening : FinishOpen(o, f)
    \/ \E u \in Authors : CloseForm(d, u, f)
    \/ \E i \in RecordIds : Submit(i, d, f)

FormsNext ==
    \/ DraftSteps /\ UNCHANGED formVars
    \/ \E d \in DraftIds, u \in Authors : BeginOpen(d, u)
    \/ \E d \in DraftIds, f \in Forms : FormSteps(d, f)
    \/ \E o \in opening : RefuseOpen(o)
    \/ \E i \in RecordIds, u \in Authors : DeleteRecord(i, u)
    \/ Purge
    \/ NextDay
    \/ \E d \in DraftIds : DeleteDraft(d) \/ DropRecords(d) \/ DropForms(d) \/ FailDrop(d)
    \/ Restart

FormsSpec == FormsInit /\ [][FormsNext]_allFormVars

----------------------------------------------------------------------------
(* Properties.                                                             *)

\* The variables keep their types.
FormsTypeOK ==
    /\ form \in [DraftIds -> [Forms -> OptIns \cup {NoForm}]]
    /\ record \in [RecordIds -> Records \cup {NoRecord}]
    /\ opening \subseteq [draft : DraftIds, owner : Authors]
    /\ dropping \in [DraftIds -> {"none", "records", "forms"}]
    /\ orphans \subseteq RecordIds

\* Every submission that is stored belongs to a draft that exists and to its
\* owner, who can therefore list and delete it; the only others are those of a
\* draft that is just being deleted and those that a deletion left behind when it
\* was cut short.  None comes in for a draft that is gone, although an opt-in may
\* outlive its draft (a request that was authorized before the draft was deleted
\* inserts it afterwards).  And a form never holds more than its limit.
RecordsHaveTarget ==
    /\ \A i \in RecordIds : record[i] # NoRecord =>
         \/ Manages(record[i].owner, record[i].of)
         \/ dropping[record[i].of] = "records" \/ i \in orphans
    /\ \A d \in DraftIds, f \in Forms : Cardinality(LiveIn(d, f)) <= MaxRecords

\* What a user has stored goes in order, whatever fails in between: a draft's
\* row never before its file, so that it can be deleted again and no file stays
\* that a row once named; a submission only after its draft, or in the purge of
\* what the owner deleted long enough ago.
NothingGoesEarly ==
    [][/\ \A d \in DraftIds : HasDraft(d) /\ draft'[d] = NoDraft => file'[d] = NoFile
       /\ \A i \in RecordIds : record[i] # NoRecord /\ record'[i] = NoRecord =>
            \/ ~HasDraft(record[i].of)
            \/ Retention > 0 /\ record[i].deleted = Retention + 1]_allFormVars
=============================================================================
