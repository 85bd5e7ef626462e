---------------------------- MODULE Server_proofs ----------------------------
(***************************************************************************)
(* What holds of drafts and their forms and of accounts and credentials,   *)
(* for any number of people, drafts, submissions, browsers and restarts,   *)
(* and of the components of the server together, each as Teams_proofs,     *)
(* Services_proofs or this module shows it alone.                          *)
(***************************************************************************)
EXTENDS MCServer, Teams_proofs, Services_proofs

-----------------------------------------------------------------------------
(* Drafts and their forms.                                                   *)

\* A row is inserted once, by the only handler that writes its file, and goes
\* with the handler that removed the file.
FilesInv ==
    /\ \A d \in DraftIds : HasDraft(d) => file[d] \in {Holding(draft[d].sha), NoFile}
    /\ \A up \in uploads : ~HasDraft(up.id)
    /\ \A up, other \in uploads : up.id = other.id => up = other
    /\ \A d \in removals : HasDraft(d)
    /\ \A d \in DraftIds : HasDraft(d) => d \in drawn
    /\ \A up \in uploads : up.id \in drawn

\* An identifier that has been drawn and that neither a row nor a handler has.
Gone(d) == d \in drawn /\ ~HasDraft(d) /\ \A up \in uploads : up.id # d

\* The site data that is dropped is that of a draft that is gone.
DroppingInv == \A d \in DraftIds : dropping[d] # "none" => Gone(d)

\* The owner of a submission owns the draft, unless a deletion is under way or
\* was cut short.
TargetsInv ==
    \A i \in RecordIds : record[i] # NoRecord =>
      \/ Manages(record[i].owner, record[i].of)
      \/ dropping[record[i].of] = "records" \/ i \in orphans

\* A form holds no more than its limit.
FormLimitsInv == \A d \in DraftIds, f \in Forms : Cardinality(LiveIn(d, f)) <= MaxRecords

FormsInv == DraftsTypeOK /\ FormsTypeOK /\ FilesInv /\ DroppingInv /\ TargetsInv /\ FormLimitsInv

-----------------------------------------------------------------------------
(* Values that stand for nothing.                                            *)

LEMMA NothingIsNoRow ==
    /\ NoDraft \notin DraftRows /\ NoRecord \notin Records /\ NoForm \notin OptIns
    /\ \A content : Holding(content) \notin {NoFile, Torn}
    /\ NoFile # Torn
<1>1. NoDraft \notin DraftRows
  BY DEF NoDraft, DraftRows
<1>2. NoRecord \notin Records
  BY DEF NoRecord, Records
<1>3. NoForm \notin OptIns
  BY DEF NoForm, OptIns
<1>4. \A content : Holding(content) # NoFile
  BY DEF Holding, NoFile
<1>5. \A content : Holding(content) # Torn
  BY DraftsAssumption DEF Holding, Torn
<1>6. NoFile # Torn
  BY DraftsAssumption DEF NoFile, Torn
<1> QED
  BY <1>1, <1>2, <1>3, <1>4, <1>5, <1>6

\* Live is none of the ages.
LEMMA LiveIsNoAge == Live \in Nat /\ Retention + 1 < Live /\ \A age \in Ages : age \in Nat /\ age < Live
  BY FormsAssumption DEF Live, Ages

-----------------------------------------------------------------------------
(* Drafts: what the handlers do to rows and files.                           *)

LEMMA DraftStepsKeepTypes ==
    ASSUME DraftsTypeOK, DraftSteps
    PROVE  DraftsTypeOK'
<1>1. ASSUME NEW d \in DraftIds, NEW u \in Authors, NEW content \in Contents, StartWriting(d, u, content)
      PROVE  /\ file' \in [DraftIds -> {NoFile, Torn} \cup {Holding(c) : c \in Contents}]
             /\ uploads' \subseteq Uploads /\ drawn' \subseteq DraftIds
  BY <1>1 DEF StartWriting, DraftsTypeOK, Uploads
<1>2. ASSUME NEW d \in DraftIds, NEW u \in Authors, UploadSteps(d, u) PROVE DraftsTypeOK'
  <2>1. ASSUME NEW content \in Contents, BeginUpload(d, u, content) PROVE DraftsTypeOK'
    BY <1>1, <2>1 DEF BeginUpload, DraftsTypeOK
  <2>2. CASE BeginCopy(d, u)
    BY <2>2 DEF BeginCopy, DraftsTypeOK, Copies
  <2>3. CASE BeginRemoval(d, u)
    BY <2>3 DEF BeginRemoval, DraftsTypeOK
  <2> QED
    BY <1>2, <2>1, <2>2, <2>3 DEF UploadSteps
<1>3. ASSUME NEW up \in uploads, FinishUpload(up) PROVE DraftsTypeOK'
  <2>1. up.id \in DraftIds /\ up.owner \in Authors /\ up.content \in Contents
    BY DEF DraftsTypeOK, Uploads
  <2> QED
    BY <1>3, <2>1 DEF FinishUpload, DraftsTypeOK, DraftRows
<1>4. ASSUME NEW up \in uploads, FailUpload(up) PROVE DraftsTypeOK'
  BY <1>4 DEF FailUpload, DraftsTypeOK
<1>5. ASSUME NEW c \in copies, NEW d \in DraftIds, FinishCopy(c, d) PROVE DraftsTypeOK'
  <2>1. c.of \in DraftIds /\ c.owner \in Authors
    BY DEF DraftsTypeOK, Copies
  <2>2. CASE file[c.of] = NoFile
    BY <1>5, <2>2 DEF FinishCopy, DraftsTypeOK
  <2>3. CASE file[c.of] # NoFile
    <3>1. PICK content \in file[c.of].holds : StartWriting(d, c.owner, content)
      BY <1>5, <2>3 DEF FinishCopy
    <3>2. content \in Contents
      BY <2>1, <2>3, <3>1 DEF DraftsTypeOK, Torn, Holding
    <3> QED
      BY <1>1, <1>5, <2>1, <3>1, <3>2 DEF FinishCopy, DraftsTypeOK
  <2> QED
    BY <2>2, <2>3
<1>6. ASSUME NEW d \in DraftIds, Unlink(d) \/ FailRemoval(d) PROVE DraftsTypeOK'
  BY <1>6 DEF Unlink, FailRemoval, DraftsTypeOK
<1> QED
  BY <1>2, <1>3, <1>4, <1>5, <1>6 DEF DraftSteps

\* A file is begun where there is neither a row nor a file nor a handler.
LEMMA WritingKeepsFiles ==
    ASSUME DraftsTypeOK, FilesInv, NEW d \in DraftIds, NEW u \in Authors, NEW content,
           StartWriting(d, u, content), UNCHANGED <<draft, removals>>
    PROVE  FilesInv'
<1>1. ~HasDraft(d) /\ \A up \in uploads : up.id # d
  BY DEF StartWriting, Fresh, FilesInv
<1>2. \A e \in DraftIds : HasDraft(e) => file'[e] = file[e]
  BY <1>1 DEF StartWriting, DraftsTypeOK
<1>3. uploads' = uploads \cup {[id |-> d, owner |-> u, content |-> content]} /\ drawn' = drawn \cup {d}
  BY DEF StartWriting
<1> QED
  BY <1>1, <1>2, <1>3 DEF FilesInv, HasDraft

LEMMA DraftStepsKeepFiles ==
    ASSUME DraftsTypeOK, FilesInv, DraftSteps
    PROVE  FilesInv'
<1>1. ASSUME NEW d \in DraftIds, NEW u \in Authors, UploadSteps(d, u) PROVE FilesInv'
  <2>1. ASSUME NEW content \in Contents, BeginUpload(d, u, content) PROVE FilesInv'
    BY <2>1, WritingKeepsFiles DEF BeginUpload
  <2>2. CASE BeginCopy(d, u)
    BY <2>2 DEF BeginCopy, FilesInv, HasDraft
  <2>3. CASE BeginRemoval(d, u)
    BY <2>3 DEF BeginRemoval, FilesInv, HasDraft
  <2> QED
    BY <1>1, <2>1, <2>2, <2>3 DEF UploadSteps
<1>2. ASSUME NEW up \in uploads, FinishUpload(up) PROVE FilesInv'
  <2>1. up.id \in DraftIds /\ up.owner \in Authors /\ up.content \in Contents
    BY DEF DraftsTypeOK, Uploads
  <2>2. file'[up.id] = Holding(up.content) /\ draft'[up.id] = [owner |-> up.owner, sha |-> up.content]
    BY <1>2, <2>1 DEF FinishUpload, DraftsTypeOK
  <2>3. \A d \in DraftIds \ {up.id} : file'[d] = file[d] /\ draft'[d] = draft[d]
    BY <1>2, <2>1 DEF FinishUpload, DraftsTypeOK
  <2>4. \A other \in uploads' : other \in uploads /\ other.id # up.id /\ other.id \in DraftIds
    BY <1>2 DEF FinishUpload, FilesInv, DraftsTypeOK, Uploads
  <2>5. draft'[up.id] # NoDraft
    BY <2>1, <2>2, NothingIsNoRow DEF DraftRows
  <2>6. \A d \in removals' : d \in removals /\ d \in DraftIds
    BY <1>2 DEF FinishUpload, DraftsTypeOK
  <2>7. drawn' = drawn /\ up.id \in drawn
    BY <1>2 DEF FinishUpload, FilesInv
  <2> QED
    BY <2>1, <2>2, <2>3, <2>4, <2>5, <2>6, <2>7 DEF FilesInv, HasDraft
<1>3. ASSUME NEW up \in uploads, FailUpload(up) PROVE FilesInv'
  BY <1>3 DEF FailUpload, FilesInv, HasDraft
<1>4. ASSUME NEW c \in copies, NEW d \in DraftIds, FinishCopy(c, d) PROVE FilesInv'
  <2>1. c.owner \in Authors
    BY DEF DraftsTypeOK, Copies
  <2>2. CASE UNCHANGED <<file, drawn, uploads>>
    BY <1>4, <2>2 DEF FinishCopy, FilesInv, HasDraft
  <2>3. ASSUME NEW content, StartWriting(d, c.owner, content) PROVE FilesInv'
    BY <1>4, <2>1, <2>3, WritingKeepsFiles DEF FinishCopy
  <2> QED
    BY <1>4, <2>2, <2>3 DEF FinishCopy
<1>5. ASSUME NEW d \in DraftIds, Unlink(d) \/ FailRemoval(d) PROVE FilesInv'
  BY <1>5 DEF Unlink, FailRemoval, FilesInv, HasDraft, DraftsTypeOK
<1> QED
  BY <1>1, <1>2, <1>3, <1>4, <1>5 DEF DraftSteps

\* A step of a draft's own deletes no row and changes none.
LEMMA DraftStepsKeepRows ==
    ASSUME DraftsTypeOK, FilesInv, DraftSteps, NEW d \in DraftIds, HasDraft(d)
    PROVE  draft'[d] = draft[d]
<1>1. ASSUME NEW up \in uploads, FinishUpload(up) PROVE draft'[d] = draft[d]
  BY <1>1 DEF FinishUpload, FilesInv, DraftsTypeOK
<1>2. (\A up \in uploads : ~FinishUpload(up)) => UNCHANGED draft
  BY DEF DraftSteps, UploadSteps, BeginUpload, BeginCopy, BeginRemoval, FailUpload, FinishCopy,
         Unlink, FailRemoval
<1> QED
  BY <1>1, <1>2

\* A row that goes has lost its file before.
LEMMA RemovalsKeepDrafts ==
    ASSUME DraftsTypeOK, FilesInv
    PROVE  /\ \A d \in DraftIds : FinishRemoval(d) =>
                /\ DraftsTypeOK' /\ FilesInv'
                /\ file'[d] = NoFile /\ draft'[d] = NoDraft
                /\ \A e \in DraftIds \ {d} : draft'[e] = draft[e]
           /\ CrashDrafts => DraftsTypeOK' /\ FilesInv'
<1>1. ASSUME NEW d \in DraftIds, FinishRemoval(d)
      PROVE  /\ DraftsTypeOK' /\ FilesInv'
             /\ file'[d] = NoFile /\ draft'[d] = NoDraft
             /\ \A e \in DraftIds \ {d} : draft'[e] = draft[e]
  <2>1. DraftsTypeOK'
    BY <1>1 DEF FinishRemoval, DraftsTypeOK
  <2>2. draft'[d] = NoDraft /\ \A e \in DraftIds \ {d} : draft'[e] = draft[e]
    BY <1>1 DEF FinishRemoval, DraftsTypeOK
  <2>3. /\ file' = file /\ file[d] = NoFile
        /\ UNCHANGED <<drawn, uploads>> /\ removals' = removals \ {d}
    BY <1>1 DEF FinishRemoval
  <2>4. \A up \in uploads : up.id \in DraftIds
    BY DEF DraftsTypeOK, Uploads
  <2>5. FilesInv'
    BY <2>2, <2>3, <2>4 DEF FilesInv, HasDraft, DraftsTypeOK
  <2> QED
    BY <2>1, <2>2, <2>3, <2>5
<1>2. CrashDrafts => DraftsTypeOK' /\ FilesInv'
  BY DEF CrashDrafts, DraftsTypeOK, FilesInv, HasDraft
<1> QED
  BY <1>1, <1>2

\* A draft that is gone does not come back: no identifier is drawn twice.
LEMMA GoneStays ==
    ASSUME DraftsTypeOK, FilesInv, NEW d \in DraftIds, Gone(d),
           \/ DraftSteps \/ CrashDrafts \/ UNCHANGED draftVars \/ \E e \in DraftIds : FinishRemoval(e)
    PROVE  Gone(d)'
<1>1. ASSUME NEW e \in DraftIds, NEW u, NEW content, StartWriting(e, u, content), UNCHANGED draft
      PROVE  Gone(d)'
  BY <1>1 DEF StartWriting, Fresh, Gone, HasDraft
<1>2. ASSUME NEW e \in DraftIds, NEW u \in Authors, UploadSteps(e, u) PROVE Gone(d)'
  BY <1>1, <1>2 DEF UploadSteps, BeginUpload, BeginCopy, BeginRemoval, Gone, HasDraft
<1>3. ASSUME NEW up \in uploads, FinishUpload(up) PROVE Gone(d)'
  <2>1. up.id # d /\ up.id \in DraftIds
    BY DEF Gone, DraftsTypeOK, Uploads
  <2> QED
    BY <1>3, <2>1 DEF FinishUpload, Gone, HasDraft, DraftsTypeOK
<1>4. ASSUME NEW up \in uploads, FailUpload(up) PROVE Gone(d)'
  BY <1>4 DEF FailUpload, Gone, HasDraft
<1>5. ASSUME NEW c \in copies, NEW e \in DraftIds, FinishCopy(c, e) PROVE Gone(d)'
  <2>1. CASE UNCHANGED <<file, drawn, uploads>>
    BY <1>5, <2>1 DEF FinishCopy, Gone, HasDraft
  <2> QED
    BY <1>1, <1>5, <2>1 DEF FinishCopy
<1>6. ASSUME NEW e \in DraftIds, Unlink(e) \/ FailRemoval(e) PROVE Gone(d)'
  BY <1>6 DEF Unlink, FailRemoval, Gone, HasDraft
<1>7. CASE CrashDrafts \/ UNCHANGED draftVars
  BY <1>7 DEF CrashDrafts, draftVars, Gone, HasDraft
<1>8. ASSUME NEW e \in DraftIds, FinishRemoval(e) PROVE Gone(d)'
  BY <1>8 DEF FinishRemoval, Gone, HasDraft, DraftsTypeOK
<1> QED
  BY <1>2, <1>3, <1>4, <1>5, <1>6, <1>7, <1>8 DEF DraftSteps

-----------------------------------------------------------------------------
(* Forms.                                                                    *)

\* What a step of the forms leaves in place: a draft with a submission that
\* stays, and the owner, the draft and the form of every submission.
RecordsStay ==
    \A i \in RecordIds : record'[i] # NoRecord =>
      /\ record[i] # NoRecord
      /\ record'[i].owner = record[i].owner
      /\ record'[i].of = record[i].of
      /\ record'[i].in = record[i].in
      /\ record'[i].deleted = Live => record[i].deleted = Live

LEMMA FormsInitInv == FormsInit => FormsInv
<1> SUFFICES ASSUME FormsInit PROVE FormsInv
  OBVIOUS
<1>1. DraftsTypeOK /\ FilesInv
  BY DEF FormsInit, DraftsInit, DraftsTypeOK, FilesInv, HasDraft
<1>2. FormsTypeOK /\ DroppingInv /\ TargetsInv
  BY DEF FormsInit, FormsTypeOK, DroppingInv, TargetsInv
<1>3. \A d \in DraftIds, f \in Forms : LiveIn(d, f) = {}
  BY DEF FormsInit, LiveIn, Stored
<1>4. FormLimitsInv
  BY <1>3, FS_EmptySet, FormsAssumption DEF FormLimitsInv
<1> QED
  BY <1>1, <1>2, <1>4 DEF FormsInv

LEMMA FormsKeepTypes ==
    ASSUME DraftsTypeOK, FormsTypeOK, FormsNext
    PROVE  FormsTypeOK'
<1> USE LiveIsNoAge, FormsAssumption
<1>1. ASSUME NEW d \in DraftIds, NEW u \in Authors, BeginOpen(d, u) PROVE FormsTypeOK'
  BY <1>1 DEF BeginOpen, FormsTypeOK
<1>2. ASSUME NEW o \in opening, NEW f \in Forms, FinishOpen(o, f) PROVE FormsTypeOK'
  <2>1. o.draft \in DraftIds /\ o.owner \in Authors
    BY DEF FormsTypeOK
  <2>2. [owner |-> IF form[o.draft][f] = NoForm THEN o.owner ELSE form[o.draft][f].owner, enabled |-> TRUE]
          \in OptIns
    BY <2>1 DEF FormsTypeOK, OptIns
  <2> QED
    BY <1>2, <2>1, <2>2 DEF FinishOpen, FormsTypeOK
<1>3. ASSUME NEW d \in DraftIds, NEW u \in Authors, NEW f \in Forms, CloseForm(d, u, f)
      PROVE  FormsTypeOK'
  <2>1. form[d][f] \in OptIns
    BY <1>3 DEF CloseForm, FormsTypeOK
  <2>2. [form[d][f] EXCEPT !.enabled = FALSE] \in OptIns
    BY <2>1 DEF OptIns
  <2> QED
    BY <1>3, <2>2 DEF CloseForm, FormsTypeOK
<1>4. ASSUME NEW d \in DraftIds, NEW i \in RecordIds, NEW f \in Forms, Submit(i, d, f)
      PROVE  FormsTypeOK'
  <2>1. form[d][f].owner \in Authors
    BY <1>4 DEF Submit, Accepts, FormsTypeOK, OptIns
  <2>2. [owner |-> form[d][f].owner, of |-> d, in |-> f, deleted |-> Live] \in Records
    BY <2>1 DEF Records
  <2> QED
    BY <1>4, <2>2 DEF Submit, FormsTypeOK
<1>5. ASSUME NEW i \in RecordIds, NEW u \in Authors, DeleteRecord(i, u) PROVE FormsTypeOK'
  <2>1. [record[i] EXCEPT !.deleted = 0] \in Records
    BY <1>5 DEF DeleteRecord, FormsTypeOK, Records, Ages
  <2> QED
    BY <1>5, <2>1 DEF DeleteRecord, FormsTypeOK
<1>6. CASE Purge
  BY <1>6 DEF Purge, FormsTypeOK
<1>7. CASE NextDay
  <2>1. ASSUME NEW i \in RecordIds, record[i] # NoRecord, record[i].deleted < Retention + 1
        PROVE  [record[i] EXCEPT !.deleted = @ + 1] \in Records
    <3>1. record[i] \in Records
      BY <2>1 DEF FormsTypeOK
    <3>2. record[i].deleted \in Nat /\ record[i].deleted + 1 \in Ages
      BY <2>1, <3>1 DEF Records, Ages
    <3> QED
      BY <3>1, <3>2 DEF Records
  <2> QED
    BY <1>7, <2>1 DEF NextDay, FormsTypeOK
<1>8. ASSUME NEW d \in DraftIds, DeleteDraft(d) \/ DropRecords(d) \/ DropForms(d) \/ FailDrop(d)
      PROVE  FormsTypeOK'
  <2>1. CASE DeleteDraft(d)
    BY <2>1 DEF DeleteDraft, FormsTypeOK
  <2>2. CASE DropRecords(d)
    BY <2>2 DEF DropRecords, FormsTypeOK
  <2>3. CASE DropForms(d)
    BY <2>3 DEF DropForms, FormsTypeOK
  <2>4. CASE FailDrop(d)
    BY <2>4 DEF FailDrop, FormsTypeOK, Stored
  <2> QED
    BY <1>8, <2>1, <2>2, <2>3, <2>4
<1>9. ASSUME UNCHANGED <<form, record, dropping, orphans>>, opening' \subseteq opening PROVE FormsTypeOK'
  BY <1>9 DEF FormsTypeOK
<1>10. ASSUME NEW o \in opening, RefuseOpen(o) PROVE FormsTypeOK'
  BY <1>9, <1>10 DEF RefuseOpen
<1>11. CASE Restart
  BY <1>11 DEF Restart, FormsTypeOK
<1>12. CASE DraftSteps /\ UNCHANGED formVars
  BY <1>9, <1>12 DEF formVars
<1> QED
  BY <1>1, <1>2, <1>3, <1>4, <1>5, <1>6, <1>7, <1>8, <1>10, <1>11, <1>12 DEF FormsNext, FormSteps

\* What a step other than a submission does: it keeps the submissions or takes
\* some, only a deletion takes a row, and only the handler that deletes a draft
\* stops with its submissions, gone or left behind.
RowsStay == \A d \in DraftIds : HasDraft(d) => draft'[d] = draft[d] \/ DeleteDraft(d)

DroppingGoesOn ==
    /\ orphans \subseteq orphans'
    /\ \A d \in DraftIds : dropping[d] = "records" =>
         \/ dropping'[d] = "records"
         \/ \A i \in Stored(d) : record'[i] = NoRecord \/ i \in orphans'

LEMMA DeletionsKeep ==
    ASSUME FormsInv, NEW d \in DraftIds,
           DeleteDraft(d) \/ DropRecords(d) \/ DropForms(d) \/ FailDrop(d)
    PROVE  RecordsStay /\ RowsStay /\ DroppingGoesOn
<1>0. DraftsTypeOK /\ FormsTypeOK /\ FilesInv
  BY DEF FormsInv
<1>1. CASE DeleteDraft(d)
  <2>1. RecordsStay
    BY <1>1 DEF DeleteDraft, RecordsStay
  <2>2. RowsStay
    BY <1>0, <1>1, RemovalsKeepDrafts DEF DeleteDraft, RowsStay
  <2>3. DroppingGoesOn
    BY <1>0, <1>1 DEF DeleteDraft, DroppingGoesOn, FormsTypeOK
  <2> QED
    BY <2>1, <2>2, <2>3
<1>2. CASE DropRecords(d)
  <2>1. RecordsStay
    BY <1>2 DEF DropRecords, RecordsStay
  <2>2. RowsStay
    BY <1>2 DEF DropRecords, RowsStay, draftVars
  <2>3. DroppingGoesOn
    BY <1>0, <1>2 DEF DropRecords, DroppingGoesOn, FormsTypeOK, Stored
  <2> QED
    BY <2>1, <2>2, <2>3
<1>3. CASE DropForms(d)
  <2>1. RecordsStay /\ RowsStay
    BY <1>3 DEF DropForms, RecordsStay, RowsStay, draftVars
  <2>2. DroppingGoesOn
    BY <1>0, <1>3 DEF DropForms, DroppingGoesOn, FormsTypeOK
  <2> QED
    BY <2>1, <2>2
<1>4. CASE FailDrop(d)
  <2>1. RecordsStay /\ RowsStay
    BY <1>4 DEF FailDrop, RecordsStay, RowsStay, draftVars
  <2>2. DroppingGoesOn
    BY <1>0, <1>4 DEF FailDrop, DroppingGoesOn, FormsTypeOK
  <2> QED
    BY <2>1, <2>2
<1> QED
  BY <1>1, <1>2, <1>3, <1>4

LEMMA OtherStepsKeep ==
    ASSUME FormsInv, FormsNext,
           \A i \in RecordIds, d \in DraftIds, f \in Forms : ~Submit(i, d, f)
    PROVE  RecordsStay /\ RowsStay /\ DroppingGoesOn
<1>0. DraftsTypeOK /\ FormsTypeOK /\ FilesInv
  BY DEF FormsInv
<1>1. UNCHANGED record => RecordsStay
  BY DEF RecordsStay
<1>2. UNCHANGED draft => RowsStay
  BY DEF RowsStay
<1>3. UNCHANGED <<dropping, orphans>> => DroppingGoesOn
  BY DEF DroppingGoesOn
<1>4. CASE DraftSteps /\ UNCHANGED formVars
  <2>1. RowsStay
    BY <1>0, <1>4, DraftStepsKeepRows DEF RowsStay
  <2> QED
    BY <1>1, <1>3, <1>4, <2>1 DEF formVars
<1>5. ASSUME NEW i \in RecordIds, NEW u \in Authors, DeleteRecord(i, u)
      PROVE  RecordsStay /\ RowsStay /\ DroppingGoesOn
  <2>1. record[i] \in Records
    BY <1>0, <1>5 DEF DeleteRecord, FormsTypeOK
  <2>2. /\ record'[i] = [record[i] EXCEPT !.deleted = 0]
        /\ \A j \in RecordIds \ {i} : record'[j] = record[j]
    BY <1>0, <1>5 DEF DeleteRecord, FormsTypeOK
  <2>3. record'[i].owner = record[i].owner /\ record'[i].of = record[i].of /\ record'[i].in = record[i].in
        /\ record[i].deleted = Live
    BY <1>5, <2>1, <2>2 DEF DeleteRecord, Records
  <2>4. RecordsStay
    BY <1>5, <2>2, <2>3 DEF RecordsStay, DeleteRecord
  <2> QED
    BY <1>2, <1>3, <1>5, <2>4 DEF DeleteRecord, draftVars
<1>6. CASE Purge
  <2>1. RecordsStay
    BY <1>6 DEF Purge, RecordsStay
  <2> QED
    BY <1>2, <1>3, <1>6, <2>1 DEF Purge, draftVars
<1>7. CASE NextDay
  <2>1. ASSUME NEW i \in RecordIds, record'[i] # NoRecord
        PROVE  /\ record[i] # NoRecord
               /\ record'[i].owner = record[i].owner /\ record'[i].of = record[i].of
               /\ record'[i].in = record[i].in
               /\ record'[i].deleted = Live => record[i].deleted = Live
    <3>1. CASE record[i] # NoRecord /\ record[i].deleted < Retention + 1
      <4>1. record[i] \in Records
        BY <1>0, <3>1 DEF FormsTypeOK
      <4>2. record'[i] = [record[i] EXCEPT !.deleted = @ + 1]
        BY <1>7, <3>1 DEF NextDay
      <4>3. record[i].deleted \in Nat
        BY <4>1, LiveIsNoAge DEF Records
      <4>4. record'[i].deleted = record[i].deleted + 1
        BY <4>1, <4>2 DEF Records
      <4>5. record'[i].deleted # Live
        BY <3>1, <4>3, <4>4, FormsAssumption DEF Live
      <4>6. record'[i].owner = record[i].owner /\ record'[i].of = record[i].of /\ record'[i].in = record[i].in
        BY <4>1, <4>2 DEF Records
      <4> QED
        BY <3>1, <4>5, <4>6
    <3>2. CASE ~(record[i] # NoRecord /\ record[i].deleted < Retention + 1)
      BY <1>7, <2>1, <3>2 DEF NextDay
    <3> QED
      BY <3>1, <3>2
  <2>2. RecordsStay
    BY <2>1 DEF RecordsStay
  <2> QED
    BY <1>2, <1>3, <1>7, <2>2 DEF NextDay, draftVars
<1>8. CASE Restart
  <2>1. UNCHANGED <<draft, record>>
    BY <1>8 DEF Restart, CrashDrafts
  <2>2. DroppingGoesOn
    BY <1>8 DEF Restart, DroppingGoesOn, Stored
  <2> QED
    BY <1>1, <1>2, <2>1, <2>2
<1>9. ASSUME UNCHANGED <<draftVars, record, dropping, orphans>>
      PROVE  RecordsStay /\ RowsStay /\ DroppingGoesOn
  BY <1>1, <1>2, <1>3, <1>9 DEF draftVars
<1>10. ASSUME NEW d \in DraftIds, NEW f \in Forms, FormSteps(d, f)
       PROVE  UNCHANGED <<draftVars, record, dropping, orphans>>
  BY <1>10 DEF FormSteps, FinishOpen, CloseForm
<1>11. ASSUME NEW d \in DraftIds, NEW u \in Authors, BeginOpen(d, u)
       PROVE  UNCHANGED <<draftVars, record, dropping, orphans>>
  BY <1>11 DEF BeginOpen
<1>12. ASSUME NEW o \in opening, RefuseOpen(o) PROVE UNCHANGED <<draftVars, record, dropping, orphans>>
  BY <1>12 DEF RefuseOpen
<1> QED
  BY <1>4, <1>5, <1>6, <1>7, <1>8, <1>9, <1>10, <1>11, <1>12, DeletionsKeep DEF FormsNext

\* Submissions that stay leave no form with more than it had.
LEMMA StayingKeepsLimits ==
    ASSUME FormLimitsInv, RecordsStay
    PROVE  FormLimitsInv'
<1> SUFFICES ASSUME NEW d \in DraftIds, NEW f \in Forms PROVE Cardinality(LiveIn(d, f)') <= MaxRecords
  BY DEF FormLimitsInv
<1>1. LiveIn(d, f)' \subseteq LiveIn(d, f)
  BY DEF LiveIn, Stored, RecordsStay
<1>2. IsFiniteSet(LiveIn(d, f))
  BY FS_Subset, FormsAssumption DEF LiveIn, Stored
<1>3. Cardinality(LiveIn(d, f)') <= Cardinality(LiveIn(d, f)) /\ IsFiniteSet(LiveIn(d, f)')
  BY <1>1, <1>2, FS_Subset
<1>4. Cardinality(LiveIn(d, f)') \in Nat /\ Cardinality(LiveIn(d, f)) \in Nat
  BY <1>2, <1>3, FS_CardinalityType
<1> QED
  BY <1>3, <1>4, FormsAssumption DEF FormLimitsInv

LEMMA SubmitKeeps ==
    ASSUME FormsInv, NEW i \in RecordIds, NEW d \in DraftIds, NEW f \in Forms, Submit(i, d, f)
    PROVE  TargetsInv' /\ FormLimitsInv'
<1>0. FormsTypeOK /\ TargetsInv /\ FormLimitsInv
  BY DEF FormsInv
<1>1. /\ record'[i] = [owner |-> form[d][f].owner, of |-> d, in |-> f, deleted |-> Live]
      /\ \A j \in RecordIds \ {i} : record'[j] = record[j]
      /\ UNCHANGED draft /\ record[i] = NoRecord
      /\ Manages(form[d][f].owner, d) /\ Cardinality(LiveIn(d, f)) < MaxRecords
  BY <1>0 DEF Submit, Accepts, FormsTypeOK, draftVars
<1>2. TargetsInv'
  <2>1. dropping' = dropping /\ orphans' = orphans \ {i}
    BY DEF Submit
  <2>2. draft'[record'[i].of] # NoDraft /\ draft'[record'[i].of].owner = record'[i].owner
    BY <1>1 DEF Manages, HasDraft
  <2> QED
    BY <1>0, <1>1, <2>1, <2>2 DEF TargetsInv, Manages, HasDraft
<1>3. \A e \in DraftIds, g \in Forms : IsFiniteSet(LiveIn(e, g)) /\ Cardinality(LiveIn(e, g)) \in Nat
  <2>1. ASSUME NEW e \in DraftIds, NEW g \in Forms PROVE IsFiniteSet(LiveIn(e, g))
    BY FS_Subset, FormsAssumption DEF LiveIn, Stored
  <2> QED
    BY <2>1, FS_CardinalityType
<1>4. ASSUME NEW e \in DraftIds, NEW g \in Forms PROVE Cardinality(LiveIn(e, g)') <= MaxRecords
  <2>1. i \notin LiveIn(e, g)
    BY <1>1 DEF LiveIn, Stored
  <2>2. CASE e = d /\ g = f
    <3>1. LiveIn(e, g)' = LiveIn(e, g) \cup {i}
      <4>1. \A j \in RecordIds \ {i} : j \in LiveIn(e, g)' <=> j \in LiveIn(e, g)
        BY <1>1 DEF LiveIn, Stored
      <4>2. i \in LiveIn(e, g)'
        BY <1>1, <2>2, NothingIsNoRow DEF LiveIn, Stored, NoRecord
      <4> QED
        BY <4>1, <4>2 DEF LiveIn, Stored
    <3>2. Cardinality(LiveIn(e, g)') = Cardinality(LiveIn(e, g)) + 1
      BY <1>3, <2>1, <3>1, FS_AddElement
    <3> QED
      BY <1>1, <1>3, <2>2, <3>2, FormsAssumption
  <2>3. CASE ~(e = d /\ g = f)
    <3>1. LiveIn(e, g)' = LiveIn(e, g)
      BY <1>1, <2>1, <2>3 DEF LiveIn, Stored
    <3> QED
      BY <1>0, <3>1 DEF FormLimitsInv
  <2> QED
    BY <2>2, <2>3
<1> QED
  BY <1>2, <1>4 DEF FormLimitsInv

\* What is dropped stays gone, and a handler drops what it has deleted.
LEMMA DroppingKept ==
    ASSUME FormsInv, FormsNext
    PROVE  DroppingInv'
<1>0. DraftsTypeOK /\ FormsTypeOK /\ FilesInv /\ DroppingInv
  BY DEF FormsInv
<1>1. ASSUME NEW d \in DraftIds, DeleteDraft(d) PROVE DroppingInv'
  <2>1. Gone(d)'
    <3>1. d \in drawn /\ \A up \in uploads : up.id # d
      BY <1>0, <1>1 DEF DeleteDraft, FinishRemoval, FilesInv
    <3>2. draft'[d] = NoDraft /\ UNCHANGED <<drawn, uploads>>
      BY <1>0, <1>1 DEF DeleteDraft, FinishRemoval, DraftsTypeOK
    <3> QED
      BY <3>1, <3>2 DEF Gone, HasDraft
  <2>2. \A e \in DraftIds \ {d} : dropping'[e] = dropping[e]
    BY <1>0, <1>1 DEF DeleteDraft, FormsTypeOK
  <2>3. \A e \in DraftIds : Gone(e) => Gone(e)'
    BY <1>0, <1>1, GoneStays DEF DeleteDraft
  <2> QED
    BY <1>0, <2>1, <2>2, <2>3 DEF DroppingInv
<1>2. ASSUME \A d \in DraftIds : ~DeleteDraft(d) PROVE DroppingInv'
  <2>1. DraftSteps \/ CrashDrafts \/ UNCHANGED draftVars
    BY <1>2 DEF FormsNext, FormSteps, BeginOpen, FinishOpen, CloseForm, Submit, RefuseOpen,
                DeleteRecord, Purge, NextDay, DropRecords, DropForms, FailDrop, Restart
  <2>2. \A e \in DraftIds : Gone(e) => Gone(e)'
    BY <1>0, <2>1, GoneStays
  <2>3. ASSUME NEW e \in DraftIds, dropping'[e] # "none" PROVE dropping[e] # "none"
    <3>1. ASSUME NEW d \in DraftIds, DropRecords(d) PROVE dropping[e] # "none"
      BY <1>0, <2>3, <3>1 DEF DropRecords, FormsTypeOK
    <3>2. ASSUME NEW d \in DraftIds, DropForms(d) \/ FailDrop(d) PROVE dropping[e] # "none"
      BY <1>0, <2>3, <3>2 DEF DropForms, FailDrop, FormsTypeOK
    <3>3. CASE Restart
      BY <2>3, <3>3 DEF Restart
    <3>4. CASE UNCHANGED dropping
      BY <2>3, <3>4
    <3> QED
      BY <1>2, <3>1, <3>2, <3>3, <3>4
         DEF FormsNext, FormSteps, BeginOpen, FinishOpen, CloseForm, Submit, RefuseOpen,
             DeleteRecord, Purge, NextDay, formVars
  <2> QED
    BY <1>0, <2>2, <2>3 DEF DroppingInv
<1> QED
  BY <1>1, <1>2

\* A submission that stays keeps its owner or is accounted for.
LEMMA OthersKeepTargets ==
    ASSUME FormsInv, RecordsStay, RowsStay, DroppingGoesOn, FormsTypeOK'
    PROVE  TargetsInv'
<1> SUFFICES ASSUME NEW i \in RecordIds, record'[i] # NoRecord
             PROVE  \/ draft'[record'[i].of] # NoDraft /\ draft'[record'[i].of].owner = record'[i].owner
                    \/ dropping'[record'[i].of] = "records" \/ i \in orphans'
  BY DEF TargetsInv, Manages, HasDraft
<1> DEFINE d == record[i].of
<1>0. FormsTypeOK /\ TargetsInv
  BY DEF FormsInv
<1>1. record[i] # NoRecord /\ record'[i].owner = record[i].owner /\ record'[i].of = d
  BY DEF RecordsStay
<1>2. d \in DraftIds
  BY <1>0, <1>1 DEF FormsTypeOK, Records
<1>3. CASE Manages(record[i].owner, d)
  <2>1. CASE draft'[d] = draft[d]
    BY <1>1, <1>3, <2>1 DEF Manages, HasDraft
  <2>2. CASE DeleteDraft(d)
    BY <1>0, <1>1, <1>2, <2>2 DEF DeleteDraft, FormsTypeOK
  <2> QED
    BY <1>2, <1>3, <2>1, <2>2 DEF RowsStay, Manages
<1>4. CASE dropping[d] = "records"
  <2>1. i \in Stored(d)
    BY <1>1 DEF Stored
  <2> QED
    BY <1>1, <1>2, <1>4, <2>1 DEF DroppingGoesOn
<1>5. CASE i \in orphans
  BY <1>5 DEF DroppingGoesOn
<1> QED
  BY <1>0, <1>1, <1>3, <1>4, <1>5 DEF TargetsInv

LEMMA FormsInvStep == FormsInv /\ [FormsNext]_allFormVars => FormsInv'
<1> SUFFICES ASSUME FormsInv, [FormsNext]_allFormVars PROVE FormsInv'
  OBVIOUS
<1>0. DraftsTypeOK /\ FormsTypeOK /\ FilesInv /\ DroppingInv /\ TargetsInv /\ FormLimitsInv
  BY DEF FormsInv
<1>1. CASE FormsNext
  <2>1. FormsTypeOK' /\ DroppingInv'
    BY <1>0, <1>1, FormsKeepTypes, DroppingKept
  <2>2. DraftsTypeOK' /\ FilesInv'
    <3>1. CASE UNCHANGED draftVars
      BY <1>0, <3>1 DEF draftVars, DraftsTypeOK, FilesInv, HasDraft
    <3>2. CASE DraftSteps
      BY <1>0, <3>2, DraftStepsKeepTypes, DraftStepsKeepFiles
    <3>3. CASE CrashDrafts \/ \E d \in DraftIds : FinishRemoval(d)
      BY <1>0, <3>3, RemovalsKeepDrafts
    <3>4. UNCHANGED draftVars \/ DraftSteps \/ CrashDrafts \/ \E d \in DraftIds : FinishRemoval(d)
      BY <1>1 DEF FormsNext, FormSteps, BeginOpen, FinishOpen, CloseForm, Submit, RefuseOpen,
                  DeleteRecord, Purge, NextDay, DeleteDraft, DropRecords, DropForms, FailDrop, Restart
    <3> QED
      BY <3>1, <3>2, <3>3, <3>4
  <2>3. ASSUME NEW i \in RecordIds, NEW d \in DraftIds, NEW f \in Forms, Submit(i, d, f)
        PROVE  TargetsInv' /\ FormLimitsInv'
    BY <2>3, SubmitKeeps
  <2>4. ASSUME \A i \in RecordIds, d \in DraftIds, f \in Forms : ~Submit(i, d, f)
        PROVE  TargetsInv' /\ FormLimitsInv'
    BY <1>0, <1>1, <2>1, <2>4, OtherStepsKeep, OthersKeepTargets, StayingKeepsLimits
  <2> QED
    BY <2>1, <2>2, <2>3, <2>4 DEF FormsInv
<1>2. CASE UNCHANGED allFormVars
  <2>1. DraftsTypeOK' /\ FormsTypeOK' /\ FilesInv'
    BY <1>0, <1>2 DEF allFormVars, draftVars, formVars, DraftsTypeOK, FormsTypeOK, FilesInv, HasDraft
  <2>2. DroppingInv' /\ TargetsInv' /\ FormLimitsInv'
    BY <1>0, <1>2 DEF allFormVars, draftVars, formVars, DroppingInv, Gone, TargetsInv, FormLimitsInv,
                      HasDraft, Manages, LiveIn, Stored
  <2> QED
    BY <2>1, <2>2 DEF FormsInv
<1> QED
  BY <1>1, <1>2

LEMMA FormsInductive == FormsSpec => []FormsInv
<1>1. FormsInit => FormsInv
  BY FormsInitInv
<1>2. FormsInv /\ [FormsNext]_allFormVars => FormsInv'
  BY FormsInvStep
<1> QED
  BY <1>1, <1>2, PTL DEF FormsSpec

-----------------------------------------------------------------------------
(* The theorems.                                                             *)

\* The variables of drafts and forms keep their types.
THEOREM FormTypes == FormsSpec => [](DraftsTypeOK /\ FormsTypeOK)
<1>1. FormsInv => DraftsTypeOK /\ FormsTypeOK
  BY DEF FormsInv
<1> QED
  BY <1>1, FormsInductive, PTL

LEMMA ListedFollows == FormsInv => ListedIsWhole
<1> SUFFICES ASSUME FormsInv PROVE ListedIsWhole
  OBVIOUS
<1>0. DraftsTypeOK /\ FilesInv
  BY DEF FormsInv
<1>1. ASSUME NEW url \in Urls, HasDraft(url.id), draft[url.id].sha = url.sha
      PROVE  /\ file[url.id] \in {Holding(url.sha), NoFile}
             /\ file[url.id].holds \subseteq {url.sha}
             /\ file[url.id] # NoFile => file[url.id].holds = {url.sha}
  <2>1. file[url.id] \in {Holding(url.sha), NoFile}
    BY <1>0, <1>1 DEF FilesInv, Urls
  <2>2. Holding(url.sha).holds = {url.sha} /\ NoFile.holds = {}
    BY DEF Holding, NoFile
  <2> QED
    BY <2>1, <2>2
<1>2. \A url \in Urls : ContentAt(url) \subseteq {url.sha}
  BY <1>1 DEF ContentAt, ValidSignature
<1>3. ASSUME NEW u \in Authors, NEW url \in UrlsFor(u), ~url.expired, file[url.id] # NoFile
      PROVE  ContentAt(url) = {url.sha}
  <2>1. url \in Urls /\ HasDraft(url.id) /\ draft[url.id].sha = url.sha
    BY DEF UrlsFor
  <2> QED
    BY <1>1, <1>3, <2>1 DEF ContentAt, ValidSignature
<1> QED
  BY <1>0, <1>2, <1>3 DEF ListedIsWhole, FilesInv

\* A draft that is listed is whole, and a URL is answered with what it was
\* signed for or not at all, whatever fails, overlaps or crashes.
THEOREM ListedWhole == FormsSpec => []ListedIsWhole
  BY ListedFollows, FormsInductive, PTL

\* Every submission belongs to a draft that exists and to its owner, unless the
\* draft is just being deleted or its deletion was cut short after the row had
\* gone, and no form exceeds its limit.
THEOREM SubmissionsHaveOwners == FormsSpec => []RecordsHaveTarget
<1>1. FormsInv => RecordsHaveTarget
  BY DEF FormsInv, TargetsInv, FormLimitsInv, RecordsHaveTarget
<1> QED
  BY <1>1, FormsInductive, PTL

\* A row never goes before its file, a submission only after its draft or in the
\* purge of what was deleted long enough ago.
THEOREM InOrder == FormsSpec => NothingGoesEarly
<1>1. FormsInv /\ [FormsNext]_allFormVars =>
        [/\ \A d \in DraftIds : HasDraft(d) /\ draft'[d] = NoDraft => file'[d] = NoFile
         /\ \A i \in RecordIds : record[i] # NoRecord /\ record'[i] = NoRecord =>
              \/ ~HasDraft(record[i].of)
              \/ Retention > 0 /\ record[i].deleted = Retention + 1]_allFormVars
  <2> SUFFICES ASSUME FormsInv, FormsNext
               PROVE  /\ \A d \in DraftIds : HasDraft(d) /\ draft'[d] = NoDraft => file'[d] = NoFile
                      /\ \A i \in RecordIds : record[i] # NoRecord /\ record'[i] = NoRecord =>
                           \/ ~HasDraft(record[i].of)
                           \/ Retention > 0 /\ record[i].deleted = Retention + 1
    OBVIOUS
  <2>0. DraftsTypeOK /\ FormsTypeOK /\ FilesInv /\ DroppingInv
    BY DEF FormsInv
  <2>1. ASSUME NEW i \in RecordIds, NEW d \in DraftIds, NEW f \in Forms, Submit(i, d, f)
        PROVE  /\ UNCHANGED draft
               /\ \A j \in RecordIds : record[j] # NoRecord => record'[j] # NoRecord
    BY <2>0, <2>1 DEF Submit, draftVars, FormsTypeOK
  <2>2. ASSUME NEW d \in DraftIds, HasDraft(d), draft'[d] = NoDraft PROVE file'[d] = NoFile
    <3>1. DeleteDraft(d)
      BY <2>1, <2>2, OtherStepsKeep DEF RowsStay, HasDraft
    <3> QED
      BY <2>0, <3>1, RemovalsKeepDrafts DEF DeleteDraft
  <2>3. ASSUME NEW i \in RecordIds, record[i] # NoRecord, record'[i] = NoRecord
        PROVE  Purge \/ \E d \in DraftIds : DropRecords(d)
    <3>1. ASSUME NEW j \in RecordIds, NEW u \in Authors, DeleteRecord(j, u) PROVE FALSE
      <4>1. record[j] \in Records
        BY <2>0, <3>1 DEF DeleteRecord, FormsTypeOK
      <4>2. record'[j] \in Records
        BY <2>0, <3>1, <4>1, LiveIsNoAge, FormsAssumption DEF DeleteRecord, FormsTypeOK, Records, Ages
      <4> QED
        BY <2>0, <2>3, <3>1, <4>2, NothingIsNoRow DEF DeleteRecord, FormsTypeOK
    <3>2. CASE NextDay
      <4>1. record[i] \in Records
        BY <2>0, <2>3 DEF FormsTypeOK
      <4>2. record'[i] \in Records
        BY <3>2, <2>0, <4>1, <2>3, LiveIsNoAge, FormsAssumption DEF NextDay, Records, Ages
      <4> QED
        BY <2>3, <4>2, NothingIsNoRow
    <3>3. record' # record
      BY <2>3
    <3> QED
      BY <2>1, <2>3, <3>1, <3>2, <3>3
         DEF FormsNext, FormSteps, BeginOpen, FinishOpen, CloseForm, RefuseOpen, DeleteDraft, DropForms,
             FailDrop, Restart, formVars
  <2>4. ASSUME NEW i \in RecordIds, Purge, record[i] # NoRecord, record'[i] = NoRecord
        PROVE  Retention > 0 /\ record[i].deleted = Retention + 1
    <3>1. record[i] \in Records /\ Purged(i)
      BY <2>0, <2>4 DEF Purge, FormsTypeOK
    <3> QED
      BY <3>1, FormsAssumption DEF Purged, Records, Ages, Live
  <2>5. ASSUME NEW i \in RecordIds, NEW d \in DraftIds, DropRecords(d),
               record[i] # NoRecord, record'[i] = NoRecord
        PROVE  ~HasDraft(record[i].of)
    <3>1. record[i].of = d
      BY <2>5 DEF DropRecords, Stored
    <3> QED
      BY <2>0, <2>5, <3>1 DEF DropRecords, DroppingInv, Gone
  <2> QED
    BY <2>2, <2>3, <2>4, <2>5
<1> QED
  BY <1>1, FormsInductive, PTL DEF FormsSpec, NothingGoesEarly

-----------------------------------------------------------------------------
(* Accounts, sessions and credentials.                                       *)

Initialising(b) == signIn[b].phase = "repository"

\* At most one browser initialises the repository of a person, and only that
\* of a person whose first sign-in it is; a first sign-in leaves a row.
FirstInv ==
    /\ \A b \in Browsers : Initialising(b) =>
         /\ HasAccount(signIn[b].person)
         /\ signIn[b].person \notin cutShort
         /\ \A c \in Browsers :
              Initialising(c) /\ signIn[c].person = signIn[b].person => c = b
    /\ \A p \in cutShort : HasAccount(p)

\* The repository is there as soon as the first sign-in is over.
RepositoryInv ==
    \A p \in People :
      /\ personal[p] <= 1
      /\ personal[p] = 1 <=>
           /\ HasAccount(p) /\ p \notin cutShort
           /\ \A b \in Browsers : ~(Initialising(b) /\ signIn[b].person = p)

\* Whatever acts for a person was made for an account.
OwnedInv ==
    /\ \A s \in SessionIds : session[s].state = "live" => HasAccount(session[s].user)
    /\ \A k \in TokenIds : token[k] # Unused => HasAccount(token[k].user)
    /\ \A p \in installs \cup minting : HasAccount(p)

\* One credential at a time.
CredentialInv == \A p \in People : HasAccount(p) => ~(account[p].pat /\ account[p].app)

AccountsInv == AccountsTypeOK /\ FirstInv /\ RepositoryInv /\ OwnedInv /\ CredentialInv

-----------------------------------------------------------------------------

\* The rows that stand for nothing are told from the others by one field.
LEMMA AccountRowCases ==
    ASSUME AccountsTypeOK
    PROVE  /\ \A p \in People : HasAccount(p) => account[p] \in AccountRows
           /\ \A b \in Browsers : signIn[b].phase # "idle" => signIn[b] \in SignIns
           /\ \A b \in Browsers : signIn[b] # Idle => signIn[b] \in SignIns
           /\ \A s \in SessionIds : session[s].state = "live" => session[s] \in Sessions
           /\ \A s \in SessionIds : session[s] \notin {Unused, LoggedOut} => session[s].state = "live"
           /\ \A k \in TokenIds : token[k].state \in {"live", "revoked"} => token[k] \in Tokens
           /\ \A k \in TokenIds : token[k] # Unused => token[k] \in Tokens
  BY DEF AccountsTypeOK, HasAccount, NoAccount, Idle, Unused, LoggedOut, AccountRows, SignIns,
         Sessions, Tokens

\* Whoever acts has an account.
LEMMA ActsForAccount ==
    ASSUME OwnedInv, NEW p, ActsFor(p)
    PROVE  HasAccount(p)
<1>1. ASSUME NEW s \in SessionIds, SessionWorks(s), session[s].user = p PROVE HasAccount(p)
  BY <1>1 DEF SessionWorks, OwnedInv
<1>2. ASSUME NEW k \in TokenIds, TokenWorks(k), token[k].user = p PROVE HasAccount(p)
  BY <1>2 DEF TokenWorks, OwnedInv, Unused
<1> QED
  BY <1>1, <1>2 DEF ActsFor

LEMMA AccountsInitInv == AccountsInit => AccountsInv
<1> SUFFICES ASSUME AccountsInit PROVE AccountsInv
  OBVIOUS
<1>1. AccountsTypeOK
  BY AccountsAssumption DEF AccountsInit, AccountsTypeOK
<1>2. FirstInv /\ RepositoryInv /\ OwnedInv /\ CredentialInv
  BY DEF AccountsInit, FirstInv, RepositoryInv, OwnedInv, CredentialInv, Initialising, HasAccount, Idle, Unused
<1> QED
  BY <1>1, <1>2 DEF AccountsInv

-----------------------------------------------------------------------------
(* Types.                                                                    *)

LEMMA SignInsKeepTypes ==
    ASSUME AccountsTypeOK, NEW b \in Browsers, SignInPhases(b)
    PROVE  AccountsTypeOK'
<1> USE AccountRowCases, AccountsAssumption
<1>1. ASSUME NEW p \in People, BeginSignIn(b, p) PROVE AccountsTypeOK'
  <2>1. [phase |-> "provider", person |-> p] \in SignIns
    BY DEF SignIns
  <2> QED
    BY <1>1, <2>1 DEF BeginSignIn, AccountsTypeOK
<1>2. CASE RejectSignIn(b)
  BY <1>2 DEF RejectSignIn, AccountsTypeOK
<1>3. CASE SignUp(b)
  <2> DEFINE p == signIn[b].person
  <2>1. signIn[b] \in SignIns /\ p \in People
    BY <1>3 DEF SignUp, SignIns
  <2>2. [cached |-> DeploymentRole(p), pat |-> FALSE, app |-> FALSE] \in AccountRows
    BY DEF AccountRows, DeploymentRoles, DeploymentRole
  <2>3. [signIn[b] EXCEPT !.phase = "repository"] \in SignIns
    BY <2>1 DEF SignIns
  <2> QED
    BY <1>3, <2>1, <2>2, <2>3 DEF SignUp, AccountsTypeOK
<1>4. CASE FailSignUp(b)
  <2>1. signIn[b] \in SignIns /\ signIn[b].person \in People
    BY <1>4 DEF FailSignUp, SignIns
  <2> QED
    BY <1>4, <2>1 DEF FailSignUp, AccountsTypeOK
<1>5. ASSUME NEW s \in SessionIds, SignInAgain(b, s) PROVE AccountsTypeOK'
  <2> DEFINE p == signIn[b].person
  <2>1. signIn[b] \in SignIns /\ p \in People
    BY <1>5 DEF SignInAgain, SignIns
  <2>2. account[p] \in AccountRows
    BY <1>5, <2>1 DEF SignInAgain
  <2>3. [account[p] EXCEPT !.cached = DeploymentRole(p)] \in AccountRows
    BY <2>2 DEF AccountRows, DeploymentRoles, DeploymentRole
  <2>4. [state |-> "live", user |-> p, until |-> date + Lifetime] \in Sessions
    BY <2>1 DEF Sessions, AccountsTypeOK
  <2> QED
    BY <1>5, <2>1, <2>3, <2>4 DEF SignInAgain, OpenSession, AccountsTypeOK
<1>6. ASSUME NEW s \in SessionIds, FinishSignUp(b, s) PROVE AccountsTypeOK'
  <2> DEFINE p == signIn[b].person
  <2>1. signIn[b] \in SignIns /\ p \in People
    BY <1>6 DEF FinishSignUp, SignIns
  <2>2. [state |-> "live", user |-> p, until |-> date + Lifetime] \in Sessions
    BY <2>1 DEF Sessions, AccountsTypeOK
  <2> QED
    BY <1>6, <2>1, <2>2 DEF FinishSignUp, OpenSession, AccountsTypeOK
<1> QED
  BY <1>1, <1>2, <1>3, <1>4, <1>5, <1>6 DEF SignInPhases

LEMMA TokensKeepTypes ==
    ASSUME AccountsTypeOK
    PROVE  /\ \A s \in SessionIds : TokenSteps(s) => AccountsTypeOK'
           /\ \A p \in minting : RefuseMint(p) => AccountsTypeOK'
           /\ \A p \in minting, k \in TokenIds, e \in 0 .. Never : Mint(p, k, e) => AccountsTypeOK'
<1> USE AccountRowCases, AccountsAssumption
<1>1. ASSUME NEW s \in SessionIds, TokenSteps(s) PROVE AccountsTypeOK'
  <2>1. CASE BeginMint(s)
    BY <2>1 DEF BeginMint, SessionWorks, Sessions, AccountsTypeOK
  <2>2. ASSUME NEW k \in TokenIds, Revoke(s, k) PROVE AccountsTypeOK'
    <3>1. [token[k] EXCEPT !.state = "revoked"] \in Tokens
      BY <2>2 DEF Revoke, Tokens
    <3> QED
      BY <2>2, <3>1 DEF Revoke, AccountsTypeOK
  <2>3. CASE LogOut(s)
    BY <2>3 DEF LogOut, AccountsTypeOK
  <2> QED
    BY <1>1, <2>1, <2>2, <2>3 DEF TokenSteps
<1>2. ASSUME NEW p \in minting, RefuseMint(p) PROVE AccountsTypeOK'
  BY <1>2 DEF RefuseMint, AccountsTypeOK
<1>3. ASSUME NEW p \in minting, NEW k \in TokenIds, NEW e \in 0 .. Never, Mint(p, k, e)
      PROVE  AccountsTypeOK'
  <2>1. [state |-> "live", user |-> p, expires |-> e] \in Tokens
    BY DEF Tokens, AccountsTypeOK, Never
  <2> QED
    BY <1>3, <2>1 DEF Mint, AccountsTypeOK
<1> QED
  BY <1>1, <1>2, <1>3

LEMMA PersonKeepsTypes ==
    ASSUME AccountsTypeOK, OwnedInv, NEW p \in People, PersonSteps(p)
    PROVE  AccountsTypeOK'
<1> USE AccountRowCases
<1>1. ActsFor(p) => HasAccount(p)
  BY ActsForAccount
<1>2. ASSUME HasAccount(p), NEW x \in BOOLEAN, NEW y \in BOOLEAN, SetCredential(p, x, y)
      PROVE  account' \in [People -> AccountRows \cup {NoAccount}]
  <2>1. [account[p] EXCEPT !.pat = x, !.app = y] \in AccountRows
    BY <1>2 DEF AccountRows
  <2> QED
    BY <1>2, <2>1 DEF SetCredential, AccountsTypeOK
<1>3. CASE RefreshRole(p)
  <2>1. [account[p] EXCEPT !.cached = DeploymentRole(p)] \in AccountRows
    BY <1>1, <1>3 DEF RefreshRole, AccountRows, DeploymentRoles, DeploymentRole
  <2> QED
    BY <1>3, <2>1 DEF RefreshRole, AccountsTypeOK
<1>4. CASE BeginInstall(p)
  BY <1>4 DEF BeginInstall, AccountsTypeOK
<1>5. CASE FinishInstall(p)
  <2>1. HasAccount(p)
    BY <1>5 DEF FinishInstall, OwnedInv
  <2> QED
    BY <1>2, <1>5, <2>1 DEF FinishInstall, AccountsTypeOK
<1>6. CASE RejectInstall(p)
  BY <1>6 DEF RejectInstall, AccountsTypeOK
<1>7. CASE PutGitHubToken(p)
  BY <1>1, <1>2, <1>7 DEF PutGitHubToken, AccountsTypeOK
<1>8. CASE Disconnect(p)
  BY <1>1, <1>2, <1>8 DEF Disconnect, AccountsTypeOK
<1> QED
  BY <1>3, <1>4, <1>5, <1>6, <1>7, <1>8 DEF PersonSteps

LEMMA ProcessKeepsTypes ==
    ASSUME AccountsTypeOK
    PROVE  /\ NextDate => AccountsTypeOK'
           /\ \A listed \in SUBSET People : Redeploy(listed) => AccountsTypeOK'
<1>1. ASSUME NextDate PROVE AccountsTypeOK'
  BY <1>1, AccountsAssumption DEF NextDate, AccountsTypeOK
<1>2. ASSUME NEW listed \in SUBSET People, Redeploy(listed) PROVE AccountsTypeOK'
  <2>1. \A b \in Browsers : signIn[b].phase = "repository" => signIn[b].person \in People
    BY AccountRowCases DEF SignIns
  <2> QED
    BY <1>2, <2>1 DEF Redeploy, AccountsTypeOK
<1> QED
  BY <1>1, <1>2

LEMMA AccountsKeepTypes ==
    ASSUME AccountsTypeOK, OwnedInv, AccountsNext
    PROVE  AccountsTypeOK'
  BY SignInsKeepTypes, TokensKeepTypes, PersonKeepsTypes, ProcessKeepsTypes
     DEF AccountsNext, AccountsTypeOK

-----------------------------------------------------------------------------
(* The invariant.                                                            *)

\* The steps that leave who has an account, what is initialised, the cut short
\* and the repositories alone.
LEMMA RepositoriesUntouched ==
    ASSUME AccountsTypeOK, FirstInv, RepositoryInv,
           UNCHANGED <<personal, cutShort>>,
           \A p \in People : HasAccount(p)' <=> HasAccount(p),
           \A b \in Browsers : Initialising(b)' <=> Initialising(b),
           \A b \in Browsers : Initialising(b) => signIn'[b].person = signIn[b].person
    PROVE  FirstInv' /\ RepositoryInv'
<1>1. \A b \in Browsers : Initialising(b) => signIn[b].person \in People
  BY AccountRowCases DEF Initialising, SignIns
<1>2. cutShort \subseteq People
  BY DEF AccountsTypeOK
<1>3. FirstInv'
  BY <1>1, <1>2 DEF FirstInv
<1>4. RepositoryInv'
  BY DEF RepositoryInv
<1> QED
  BY <1>3, <1>4

LEMMA SignInsKeepInv ==
    ASSUME AccountsInv, NEW b \in Browsers, SignInPhases(b)
    PROVE  FirstInv' /\ RepositoryInv' /\ OwnedInv'
<1> DEFINE p == signIn[b].person
<1>0. AccountsTypeOK /\ FirstInv /\ RepositoryInv /\ OwnedInv
  BY DEF AccountsInv
<1> USE <1>0, AccountRowCases
<1>1. ASSUME signIn[b].phase # "idle" PROVE p \in People
  BY <1>1 DEF SignIns
<1>2. ASSUME NEW q \in People, BeginSignIn(b, q) PROVE FirstInv' /\ RepositoryInv' /\ OwnedInv'
  <2>1. signIn'[b].phase = "provider" /\ \A c \in Browsers \ {b} : signIn'[c] = signIn[c]
    BY <1>2 DEF BeginSignIn, AccountsTypeOK
  <2>2. \A c \in Browsers : Initialising(c)' <=> Initialising(c)
    BY <1>2, <2>1 DEF BeginSignIn, Initialising, Idle
  <2>3. FirstInv' /\ RepositoryInv'
    BY <1>2, <2>1, <2>2, RepositoriesUntouched DEF BeginSignIn, HasAccount, Initialising, Idle
  <2> QED
    BY <1>2, <2>3 DEF BeginSignIn, OwnedInv, HasAccount
<1>3. CASE RejectSignIn(b)
  <2>1. signIn'[b].phase = "idle" /\ \A c \in Browsers \ {b} : signIn'[c] = signIn[c]
    BY <1>3 DEF RejectSignIn, AccountsTypeOK, Idle
  <2>2. \A c \in Browsers : Initialising(c)' <=> Initialising(c)
    BY <1>3, <2>1 DEF RejectSignIn, Initialising
  <2>3. FirstInv' /\ RepositoryInv'
    BY <1>3, <2>1, <2>2, RepositoriesUntouched DEF RejectSignIn, HasAccount, Initialising
  <2> QED
    BY <1>3, <2>3 DEF RejectSignIn, OwnedInv, HasAccount
<1>4. CASE SignUp(b)
  <2>1. p \in People /\ ~HasAccount(p)
    BY <1>1, <1>4 DEF SignUp
  <2>2. signIn[b] \in SignIns
    BY <1>4 DEF SignUp
  <2>3. signIn'[b].phase = "repository" /\ signIn'[b].person = p
        /\ \A c \in Browsers \ {b} : signIn'[c] = signIn[c]
    BY <1>4, <2>2 DEF SignUp, AccountsTypeOK, SignIns
  <2>4. \A q \in People : HasAccount(q)' <=> HasAccount(q) \/ q = p
    BY <1>4, <2>1 DEF SignUp, AccountsTypeOK, HasAccount, NoAccount
  <2>5. \A c \in Browsers : Initialising(c) => signIn[c].person \in People
    BY DEF Initialising, SignIns
  <2>6. FirstInv'
    <3>1. UNCHANGED cutShort /\ cutShort \subseteq People
      BY <1>4 DEF SignUp, AccountsTypeOK
    <3>2. p \notin cutShort /\ \A c \in Browsers : Initialising(c) => signIn[c].person # p
      BY <2>1 DEF FirstInv
    <3> QED
      BY <2>1, <2>3, <2>4, <2>5, <3>1, <3>2 DEF FirstInv, Initialising
  <2>7. RepositoryInv'
    <3>1. UNCHANGED <<personal, cutShort>>
      BY <1>4 DEF SignUp
    <3>2. \A q \in People \ {p}, c \in Browsers :
            (Initialising(c) /\ signIn[c].person = q)' <=> Initialising(c) /\ signIn[c].person = q
      BY <1>4, <2>3 DEF Initialising, SignUp
    <3>3. personal[p] = 0
      BY <2>1 DEF RepositoryInv, AccountsTypeOK
    <3>4. ASSUME NEW q \in People
          PROVE  /\ personal[q] <= 1
                 /\ personal[q] = 1 <=>
                      /\ HasAccount(q)' /\ q \notin cutShort
                      /\ \A c \in Browsers : ~(Initialising(c) /\ signIn[c].person = q)'
      <4>1. CASE q = p
        BY <2>3, <3>3, <4>1 DEF Initialising
      <4>2. CASE q # p
        BY <2>4, <3>2, <4>2 DEF RepositoryInv
      <4> QED
        BY <4>1, <4>2
    <3> QED
      BY <3>1, <3>4 DEF RepositoryInv
  <2>8. OwnedInv'
    BY <1>4, <2>4 DEF SignUp, OwnedInv, Sessions, Tokens, AccountsTypeOK
  <2> QED
    BY <2>6, <2>7, <2>8
<1>5. CASE FailSignUp(b)
  <2>1. p \in People /\ Initialising(b) /\ UNCHANGED <<account, personal, session, token, minting, installs>>
    BY <1>1, <1>5 DEF FailSignUp, Initialising
  <2>2. signIn'[b].phase = "idle" /\ \A c \in Browsers \ {b} : signIn'[c] = signIn[c]
    BY <1>5 DEF FailSignUp, AccountsTypeOK, Idle
  <2>3. cutShort' = cutShort \cup {p}
    BY <1>5 DEF FailSignUp
  <2>4. \A c \in Browsers \ {b} : Initialising(c) => signIn[c].person # p
    BY <2>1 DEF FirstInv
  <2>5. \A c \in Browsers : Initialising(c)' <=> Initialising(c) /\ c # b
    BY <2>2 DEF Initialising
  <2>6. FirstInv'
    BY <2>1, <2>2, <2>3, <2>4, <2>5 DEF FirstInv, HasAccount
  <2>7. RepositoryInv'
    BY <2>1, <2>2, <2>3, <2>4, <2>5 DEF RepositoryInv, HasAccount
  <2>8. OwnedInv'
    BY <2>1 DEF OwnedInv, HasAccount
  <2> QED
    BY <2>6, <2>7, <2>8
<1>6. ASSUME NEW s \in SessionIds, SignInAgain(b, s) PROVE FirstInv' /\ RepositoryInv' /\ OwnedInv'
  <2>1. p \in People /\ HasAccount(p)
    BY <1>1, <1>6 DEF SignInAgain
  <2>2. signIn'[b].phase = "idle" /\ \A c \in Browsers \ {b} : signIn'[c] = signIn[c]
    BY <1>6 DEF SignInAgain, AccountsTypeOK, Idle
  <2>3. \A q \in People : HasAccount(q)' <=> HasAccount(q)
    <3>1. account[p] \in AccountRows /\ [account[p] EXCEPT !.cached = DeploymentRole(p)] \in AccountRows
      BY <2>1 DEF AccountRows, DeploymentRoles, DeploymentRole
    <3>2. account'[p] \in AccountRows /\ \A q \in People \ {p} : account'[q] = account[q]
      BY <1>6, <2>1, <3>1 DEF SignInAgain, AccountsTypeOK
    <3> QED
      BY <2>1, <3>2 DEF HasAccount, AccountRows, NoAccount, DeploymentRoles
  <2>4. \A c \in Browsers : Initialising(c)' <=> Initialising(c)
    BY <1>6, <2>2 DEF SignInAgain, Initialising
  <2>5. FirstInv' /\ RepositoryInv'
    BY <1>6, <2>2, <2>3, <2>4, RepositoriesUntouched DEF SignInAgain, Initialising
  <2>6. OwnedInv'
    <3>1. session'[s].user = p /\ \A q \in SessionIds \ {s} : session'[q] = session[q]
      BY <1>6 DEF SignInAgain, OpenSession, AccountsTypeOK
    <3>2. \A q \in SessionIds : (session[q].state = "live" => HasAccount(session[q].user))'
      BY <2>1, <2>3, <3>1 DEF OwnedInv, Sessions
    <3> QED
      BY <1>6, <2>3, <3>2 DEF SignInAgain, OwnedInv, Tokens, AccountsTypeOK
  <2> QED
    BY <2>5, <2>6
<1>7. ASSUME NEW s \in SessionIds, FinishSignUp(b, s) PROVE FirstInv' /\ RepositoryInv' /\ OwnedInv'
  <2>1. p \in People /\ Initialising(b) /\ UNCHANGED <<account, cutShort, token, minting, installs>>
    BY <1>1, <1>7 DEF FinishSignUp, Initialising
  <2>2. signIn'[b].phase = "idle" /\ \A c \in Browsers \ {b} : signIn'[c] = signIn[c]
    BY <1>7 DEF FinishSignUp, AccountsTypeOK, Idle
  <2>3. HasAccount(p) /\ p \notin cutShort
        /\ \A c \in Browsers \ {b} : Initialising(c) => signIn[c].person # p
    BY <2>1 DEF FirstInv
  <2>4. \A c \in Browsers : Initialising(c)' <=> Initialising(c) /\ c # b
    BY <2>2 DEF Initialising
  <2>5. FirstInv'
    BY <2>1, <2>2, <2>4 DEF FirstInv, HasAccount
  <2>6. RepositoryInv'
    <3>1. personal[p] = 0
      BY <2>1 DEF RepositoryInv, AccountsTypeOK
    <3>2. personal'[p] = 1 /\ \A q \in People \ {p} : personal'[q] = personal[q]
      BY <1>7, <2>1, <3>1 DEF FinishSignUp, AccountsTypeOK
    <3> QED
      BY <2>1, <2>2, <2>3, <2>4, <3>2 DEF RepositoryInv, HasAccount
  <2>7. OwnedInv'
    <3>1. session'[s].user = p /\ \A q \in SessionIds \ {s} : session'[q] = session[q]
      BY <1>7 DEF FinishSignUp, OpenSession, AccountsTypeOK
    <3>2. \A q \in SessionIds : (session[q].state = "live" => HasAccount(session[q].user))'
      BY <2>1, <2>3, <3>1 DEF OwnedInv, HasAccount
    <3> QED
      BY <2>1, <3>2 DEF OwnedInv, HasAccount
  <2> QED
    BY <2>5, <2>6, <2>7
<1> QED
  BY <1>2, <1>3, <1>4, <1>5, <1>6, <1>7 DEF SignInPhases

LEMMA TokensKeepInv ==
    ASSUME AccountsInv, NEW s \in SessionIds, TokenSteps(s)
    PROVE  FirstInv' /\ RepositoryInv' /\ OwnedInv'
<1>0. AccountsTypeOK /\ FirstInv /\ RepositoryInv /\ OwnedInv
  BY DEF AccountsInv
<1>1. UNCHANGED <<account, personal, signIn, cutShort, installs>>
  BY DEF TokenSteps, BeginMint, Revoke, LogOut
<1>2. FirstInv' /\ RepositoryInv'
  BY <1>0, <1>1, RepositoriesUntouched DEF HasAccount, Initialising
<1>3. CASE BeginMint(s)
  BY <1>0, <1>1, <1>2, <1>3 DEF BeginMint, SessionWorks, OwnedInv, HasAccount
<1>4. ASSUME NEW k \in TokenIds, Revoke(s, k) PROVE OwnedInv'
  <2>1. token[k] # Unused /\ token'[k].user = token[k].user
    BY <1>0, <1>4, AccountRowCases DEF Revoke, Tokens, Unused, AccountsTypeOK
  <2>2. \A l \in TokenIds \ {k} : token'[l] = token[l]
    BY <1>0, <1>4 DEF Revoke, AccountsTypeOK
  <2> QED
    BY <1>0, <1>1, <1>4, <2>1, <2>2 DEF Revoke, OwnedInv, HasAccount
<1>5. CASE LogOut(s)
  BY <1>0, <1>1, <1>2, <1>5 DEF LogOut, LoggedOut, OwnedInv, HasAccount, AccountsTypeOK
<1> QED
  BY <1>2, <1>3, <1>4, <1>5 DEF TokenSteps

LEMMA MintKeepsInv ==
    ASSUME AccountsInv, NEW p \in minting,
           RefuseMint(p) \/ \E k \in TokenIds, e \in 0 .. Never : Mint(p, k, e)
    PROVE  FirstInv' /\ RepositoryInv' /\ OwnedInv'
<1>0. AccountsTypeOK /\ FirstInv /\ RepositoryInv /\ OwnedInv
  BY DEF AccountsInv
<1>1. UNCHANGED <<account, personal, signIn, cutShort, session, installs>> /\ minting' = minting \ {p}
  BY DEF RefuseMint, Mint
<1>2. FirstInv' /\ RepositoryInv'
  BY <1>0, <1>1, RepositoriesUntouched DEF HasAccount, Initialising
<1>3. HasAccount(p)
  BY <1>0 DEF OwnedInv
<1>4. CASE RefuseMint(p)
  BY <1>0, <1>1, <1>2, <1>4 DEF RefuseMint, OwnedInv, HasAccount
<1>5. ASSUME NEW k \in TokenIds, NEW e \in 0 .. Never, Mint(p, k, e) PROVE OwnedInv'
  <2>1. token'[k].user = p /\ \A l \in TokenIds \ {k} : token'[l] = token[l]
    BY <1>0, <1>5 DEF Mint, AccountsTypeOK
  <2> QED
    BY <1>0, <1>1, <1>3, <2>1 DEF OwnedInv, HasAccount
<1> QED
  BY <1>2, <1>4, <1>5

LEMMA PersonKeepsInv ==
    ASSUME AccountsInv, NEW p \in People, PersonSteps(p)
    PROVE  FirstInv' /\ RepositoryInv' /\ OwnedInv'
<1>0. AccountsTypeOK /\ FirstInv /\ RepositoryInv /\ OwnedInv
  BY DEF AccountsInv
<1>1. UNCHANGED <<personal, signIn, cutShort, session, token, minting>>
  BY DEF PersonSteps, RefreshRole, BeginInstall, FinishInstall, RejectInstall, PutGitHubToken, Disconnect
<1>2. ActsFor(p) => HasAccount(p)
  BY <1>0, ActsForAccount
<1>3. \A q \in installs : HasAccount(q)
  BY <1>0 DEF OwnedInv
<1>4. installs' \subseteq installs \/ (ActsFor(p) /\ installs' = installs \cup {p})
  BY DEF PersonSteps, RefreshRole, BeginInstall, FinishInstall, RejectInstall, PutGitHubToken, Disconnect
<1>5. \A q \in People : HasAccount(q)' <=> HasAccount(q)
  <2>1. CASE UNCHANGED account
    BY <2>1 DEF HasAccount
  <2>2. ASSUME HasAccount(p), \E new \in AccountRows : account' = [account EXCEPT ![p] = new]
        PROVE  \A q \in People : HasAccount(q)' <=> HasAccount(q)
    BY <1>0, <2>2 DEF HasAccount, AccountsTypeOK, AccountRows, NoAccount, DeploymentRoles
  <2>3. ASSUME HasAccount(p), NEW x \in BOOLEAN, NEW y \in BOOLEAN, SetCredential(p, x, y)
        PROVE  \A q \in People : HasAccount(q)' <=> HasAccount(q)
    <3>1. [account[p] EXCEPT !.pat = x, !.app = y] \in AccountRows
      BY <1>0, <2>3, AccountRowCases DEF AccountRows
    <3> QED
      BY <2>2, <2>3, <3>1 DEF SetCredential
  <2>4. CASE RefreshRole(p)
    <3>1. [account[p] EXCEPT !.cached = DeploymentRole(p)] \in AccountRows
      BY <1>0, <1>2, <2>4, AccountRowCases DEF RefreshRole, AccountRows, DeploymentRoles, DeploymentRole
    <3> QED
      BY <1>2, <2>2, <2>4, <3>1 DEF RefreshRole
  <2>5. CASE BeginInstall(p) \/ RejectInstall(p)
    BY <2>1, <2>5 DEF BeginInstall, RejectInstall
  <2>6. CASE FinishInstall(p)
    BY <1>3, <2>3, <2>6 DEF FinishInstall
  <2>7. CASE PutGitHubToken(p) \/ Disconnect(p)
    BY <1>2, <2>3, <2>7 DEF PutGitHubToken, Disconnect
  <2> QED
    BY <2>4, <2>5, <2>6, <2>7 DEF PersonSteps
<1>6. FirstInv' /\ RepositoryInv'
  BY <1>0, <1>1, <1>5, RepositoriesUntouched DEF Initialising
<1>7. OwnedInv'
  <2>1. \A s \in SessionIds : session[s].state = "live" => session[s].user \in People
    BY <1>0, AccountRowCases DEF Sessions
  <2>2. \A k \in TokenIds : token[k] # Unused => token[k].user \in People
    BY <1>0, AccountRowCases DEF Tokens
  <2>3. installs \cup minting \subseteq People
    BY <1>0 DEF AccountsTypeOK
  <2> QED
    BY <1>0, <1>1, <1>2, <1>4, <1>5, <2>1, <2>2, <2>3 DEF OwnedInv
<1> QED
  BY <1>6, <1>7

LEMMA ProcessKeepsInv ==
    ASSUME AccountsInv, NextDate \/ \E listed \in SUBSET People : Redeploy(listed)
    PROVE  FirstInv' /\ RepositoryInv' /\ OwnedInv'
<1>0. AccountsTypeOK /\ FirstInv /\ RepositoryInv /\ OwnedInv
  BY DEF AccountsInv
<1>1. CASE NextDate
  <2>1. FirstInv' /\ RepositoryInv'
    BY <1>0, <1>1, RepositoriesUntouched DEF NextDate, HasAccount, Initialising
  <2> QED
    BY <1>0, <1>1, <2>1 DEF NextDate, OwnedInv, HasAccount
<1>2. ASSUME NEW listed \in SUBSET People, Redeploy(listed)
      PROVE  FirstInv' /\ RepositoryInv' /\ OwnedInv'
  <2>1. UNCHANGED <<account, personal, session, token>> /\ minting' = {} /\ installs' = {}
    BY <1>2 DEF Redeploy
  <2>2. \A b \in Browsers : ~Initialising(b)'
    BY <1>2 DEF Redeploy, Initialising, Idle
  <2>3. \A p : p \in cutShort' <=>
                 p \in cutShort \/ \E b \in Browsers : Initialising(b) /\ signIn[b].person = p
    BY <1>2 DEF Redeploy, Initialising
  <2>4. FirstInv'
    BY <1>0, <2>1, <2>2, <2>3 DEF FirstInv, HasAccount
  <2>5. RepositoryInv'
    BY <1>0, <2>1, <2>2, <2>3 DEF RepositoryInv, HasAccount
  <2>6. OwnedInv'
    BY <1>0, <2>1 DEF OwnedInv, HasAccount
  <2> QED
    BY <2>4, <2>5, <2>6
<1> QED
  BY <1>1, <1>2

LEMMA CredentialKept ==
    ASSUME AccountsInv, AccountsNext
    PROVE  CredentialInv'
<1>0. AccountsTypeOK /\ OwnedInv /\ CredentialInv
  BY DEF AccountsInv
<1>1. ASSUME NEW p \in People, ~HasAccount(p) \/ account[p] \in AccountRows,
             NEW new \in AccountRows, ~(new.pat /\ new.app), account' = [account EXCEPT ![p] = new]
      PROVE  CredentialInv'
  BY <1>0, <1>1 DEF CredentialInv, HasAccount, AccountsTypeOK
<1>2. CASE UNCHANGED account
  BY <1>0, <1>2 DEF CredentialInv, HasAccount
<1>3. ASSUME NEW p \in People, HasAccount(p), account' = [account EXCEPT ![p].cached = DeploymentRole(p)]
      PROVE  CredentialInv'
  <2>1. account[p] \in AccountRows
    BY <1>0, <1>3, AccountRowCases
  <2> DEFINE new == [account[p] EXCEPT !.cached = DeploymentRole(p)]
  <2>2. new \in AccountRows /\ ~(new.pat /\ new.app)
    BY <1>0, <1>3, <2>1 DEF AccountRows, DeploymentRoles, DeploymentRole, CredentialInv
  <2> QED
    BY <1>1, <1>3, <2>1, <2>2
<1>4. ASSUME NEW p \in People, HasAccount(p), NEW x \in BOOLEAN, NEW y \in BOOLEAN, ~(x /\ y),
             SetCredential(p, x, y)
      PROVE  CredentialInv'
  <2>1. account[p] \in AccountRows
    BY <1>0, <1>4, AccountRowCases
  <2> DEFINE new == [account[p] EXCEPT !.pat = x, !.app = y]
  <2>2. new \in AccountRows /\ ~(new.pat /\ new.app)
    BY <1>4, <2>1 DEF AccountRows
  <2> QED
    BY <1>1, <1>4, <2>1, <2>2 DEF SetCredential
<1>5. ASSUME NEW b \in Browsers, SignInPhases(b) PROVE CredentialInv'
  <2>1. signIn[b].phase # "idle" => signIn[b].person \in People
    BY <1>0, AccountRowCases DEF SignIns
  <2>2. CASE SignUp(b)
    <3> DEFINE new == [cached |-> DeploymentRole(signIn[b].person), pat |-> FALSE, app |-> FALSE]
    <3>1. new \in AccountRows /\ ~(new.pat /\ new.app)
      BY DEF AccountRows, DeploymentRoles, DeploymentRole
    <3> QED
      BY <1>1, <2>1, <2>2, <3>1 DEF SignUp
  <2>3. ASSUME NEW s \in SessionIds, SignInAgain(b, s) PROVE CredentialInv'
    BY <1>3, <2>1, <2>3 DEF SignInAgain
  <2> QED
    BY <1>2, <1>5, <2>2, <2>3 DEF SignInPhases, BeginSignIn, RejectSignIn, FailSignUp, FinishSignUp
<1>6. ASSUME NEW p \in People, PersonSteps(p) PROVE CredentialInv'
  <2>1. ActsFor(p) => HasAccount(p)
    BY <1>0, ActsForAccount
  <2>2. p \in installs => HasAccount(p)
    BY <1>0 DEF OwnedInv
  <2> QED
    BY <1>2, <1>3, <1>4, <1>6, <2>1, <2>2
       DEF PersonSteps, RefreshRole, BeginInstall, FinishInstall, RejectInstall, PutGitHubToken,
           Disconnect
<1> QED
  BY <1>2, <1>5, <1>6
     DEF AccountsNext, TokenSteps, BeginMint, Revoke, LogOut, RefuseMint, Mint, NextDate, Redeploy

LEMMA AccountsStep == AccountsInv /\ [AccountsNext]_accountVars => AccountsInv'
<1> SUFFICES ASSUME AccountsInv, [AccountsNext]_accountVars PROVE AccountsInv'
  OBVIOUS
<1>1. CASE AccountsNext
  <2>1. AccountsTypeOK'
    BY <1>1, AccountsKeepTypes DEF AccountsInv
  <2>2. FirstInv' /\ RepositoryInv' /\ OwnedInv'
    BY <1>1, SignInsKeepInv, TokensKeepInv, MintKeepsInv, PersonKeepsInv, ProcessKeepsInv
       DEF AccountsNext
  <2> QED
    BY <1>1, <2>1, <2>2, CredentialKept DEF AccountsInv
<1>2. CASE UNCHANGED accountVars
  BY <1>2 DEF accountVars, AccountsInv, AccountsTypeOK, FirstInv, RepositoryInv, OwnedInv, CredentialInv,
              HasAccount, Initialising
<1> QED
  BY <1>1, <1>2

LEMMA AccountsAlways == AccountsSpec => []AccountsInv
  BY AccountsInitInv, AccountsStep, PTL DEF AccountsSpec

-----------------------------------------------------------------------------
(* The theorems.                                                             *)

\* The rows of users, sessions, tokens and the handlers that wait keep their
\* types, whoever signs in and however often the server is started anew.
THEOREM AccountTypes == AccountsSpec => []AccountsTypeOK
<1>1. AccountsInv => AccountsTypeOK
  BY DEF AccountsInv
<1> QED
  BY <1>1, AccountsAlways, PTL

\* One account, one personal repository, which is missing only during or after
\* a first sign-in that was cut short; nobody acts without an account.
THEOREM AccountsWhole == AccountsSpec => []AccountsAreWhole
<1>1. AccountsInv => AccountsAreWhole
  <2> SUFFICES ASSUME AccountsInv, NEW p \in People
               PROVE  /\ personal[p] <= 1
                      /\ personal[p] = 1 <=>
                           /\ HasAccount(p) /\ p \notin cutShort
                           /\ \A b \in Browsers : signIn[b] # [phase |-> "repository", person |-> p]
                      /\ ActsFor(p) => HasAccount(p)
                      /\ HasAccount(p) /\ account[p].pat => Credential(p) = "pat"
                      /\ Connected(p) <=> Credential(p) # "none"
                      /\ p \in installs \cup minting => HasAccount(p)
    BY DEF AccountsAreWhole
  <2>1. AccountsTypeOK /\ RepositoryInv /\ OwnedInv /\ CredentialInv
    BY DEF AccountsInv
  <2>2. \A b \in Browsers : signIn[b] = [phase |-> "repository", person |-> p] <=>
                              Initialising(b) /\ signIn[b].person = p
    BY <2>1, AccountRowCases DEF Initialising, SignIns
  <2>3. personal[p] <= 1 /\ (personal[p] = 1 <=>
          /\ HasAccount(p) /\ p \notin cutShort
          /\ \A b \in Browsers : signIn[b] # [phase |-> "repository", person |-> p])
    BY <2>1, <2>2 DEF RepositoryInv
  <2>4. ActsFor(p) => HasAccount(p)
    BY <2>1, ActsForAccount
  <2>5. /\ HasAccount(p) /\ account[p].pat => Credential(p) = "pat"
        /\ Connected(p) <=> Credential(p) # "none"
    BY <2>1 DEF Connected, Credential, CredentialInv
  <2>6. p \in installs \cup minting => HasAccount(p)
    BY <2>1 DEF OwnedInv
  <2> QED
    BY <2>3, <2>4, <2>5, <2>6
<1> QED
  BY <1>1, AccountsAlways, PTL

\* A session that was logged out or expired and a token that was revoked or
\* expired never work again; new ones come from a sign-in, or from a request
\* that a session of the same person began.
THEOREM DeadStays == AccountsSpec => DeadStaysDead
<1> DEFINE OldSession(s) == session[s] # Unused /\ ~SessionWorks(s) => ~SessionWorks(s)'
           NewSession(s) == session[s] = Unused /\ session'[s] # Unused =>
                              \E b \in Browsers : signIn[b] # Idle /\ signIn[b].person = session'[s].user
           OldToken(k) == token[k] # Unused /\ ~TokenWorks(k) => ~TokenWorks(k)'
           NewToken(k) == token[k] = Unused /\ token'[k] # Unused => token'[k].user \in minting
           Step == /\ \A s \in SessionIds : OldSession(s) /\ NewSession(s)
                   /\ \A k \in TokenIds : OldToken(k) /\ NewToken(k)
<1>1. AccountsTypeOK /\ [AccountsNext]_accountVars => [
       /\ \A s \in SessionIds :
            /\ session[s] # Unused /\ ~SessionWorks(s) => ~SessionWorks(s)'
            /\ session[s] = Unused /\ session'[s] # Unused =>
                 \E b \in Browsers : signIn[b] # Idle /\ signIn[b].person = session'[s].user
       /\ \A k \in TokenIds :
            /\ token[k] # Unused /\ ~TokenWorks(k) => ~TokenWorks(k)'
            /\ token[k] = Unused /\ token'[k] # Unused => token'[k].user \in minting]_accountVars
  <2> SUFFICES ASSUME AccountsTypeOK, AccountsNext PROVE Step
    OBVIOUS
  <2>1. ASSUME UNCHANGED <<session, date>> PROVE \A s \in SessionIds : OldSession(s) /\ NewSession(s)
    BY <2>1 DEF SessionWorks
  <2>2. ASSUME UNCHANGED <<token, date>> PROVE \A k \in TokenIds : OldToken(k) /\ NewToken(k)
    BY <2>2 DEF TokenWorks
  <2>3. ASSUME NEW b \in Browsers, NEW s \in SessionIds, signIn[b] # Idle,
               OpenSession(signIn[b].person, s), UNCHANGED date
        PROVE  \A q \in SessionIds : OldSession(q) /\ NewSession(q)
    BY <2>3 DEF OpenSession, SessionWorks, AccountsTypeOK
  <2>4. ASSUME NEW b \in Browsers, SignInPhases(b) PROVE Step
    BY <2>1, <2>2, <2>3, <2>4
       DEF SignInPhases, BeginSignIn, RejectSignIn, SignUp, FailSignUp, SignInAgain, FinishSignUp, Idle
  <2>5. ASSUME NEW s \in SessionIds, TokenSteps(s) PROVE Step
    <3>1. CASE BeginMint(s)
      BY <2>1, <2>2, <3>1 DEF BeginMint
    <3>2. ASSUME NEW k \in TokenIds, Revoke(s, k) PROVE Step
      <4>1. UNCHANGED <<session, date>> /\ token[k].state = "live"
            /\ token' = [token EXCEPT ![k].state = "revoked"]
        BY <3>2 DEF Revoke
      <4>2. token[k] \in Tokens
        BY <4>1, AccountRowCases
      <4>3. token'[k].state = "revoked" /\ \A l \in TokenIds \ {k} : token'[l] = token[l]
        BY <4>1, <4>2 DEF AccountsTypeOK, Tokens
      <4>4. \A l \in TokenIds : OldToken(l) /\ NewToken(l)
        BY <4>1, <4>3 DEF TokenWorks, Unused
      <4> QED
        BY <2>1, <4>1, <4>4
    <3>3. CASE LogOut(s)
      <4>1. \A q \in SessionIds : OldSession(q) /\ NewSession(q)
        BY <3>3 DEF LogOut, LoggedOut, SessionWorks, AccountsTypeOK, Unused
      <4> QED
        BY <2>2, <3>3, <4>1 DEF LogOut
    <3> QED
      BY <2>5, <3>1, <3>2, <3>3 DEF TokenSteps
  <2>6. ASSUME NEW p \in minting, NEW k \in TokenIds, NEW e \in 0 .. Never, Mint(p, k, e) PROVE Step
    <3>1. \A l \in TokenIds : OldToken(l) /\ NewToken(l)
      BY <2>6 DEF Mint, TokenWorks, AccountsTypeOK
    <3> QED
      BY <2>1, <2>6, <3>1 DEF Mint
  <2>7. ASSUME NEW p \in minting, RefuseMint(p) PROVE Step
    BY <2>1, <2>2, <2>7 DEF RefuseMint
  <2>8. ASSUME NEW p \in People, PersonSteps(p) PROVE Step
    BY <2>1, <2>2, <2>8 DEF PersonSteps, RefreshRole, BeginInstall, FinishInstall, RejectInstall,
                            PutGitHubToken, Disconnect
  <2>9. CASE NextDate
    <3>1. \A s \in SessionIds : session[s].state = "live" => session[s].until \in Nat
      BY AccountRowCases DEF Sessions
    <3>2. \A k \in TokenIds : token[k] # Unused => token[k].expires \in Nat
      BY AccountRowCases DEF Tokens
    <3>3. date' = date + 1 /\ date \in Nat /\ UNCHANGED <<session, token>>
      BY <2>9, AccountsAssumption DEF NextDate, AccountsTypeOK
    <3> QED
      BY <3>1, <3>2, <3>3 DEF SessionWorks, TokenWorks, Unused
  <2>10. ASSUME NEW listed \in SUBSET People, Redeploy(listed) PROVE Step
    BY <2>1, <2>2, <2>10 DEF Redeploy
  <2> QED
    BY <2>4, <2>5, <2>6, <2>7, <2>8, <2>9, <2>10 DEF AccountsNext
<1>2. AccountsInv => AccountsTypeOK
  BY DEF AccountsInv
<1> QED
  BY <1>1, <1>2, AccountsAlways, PTL DEF AccountsSpec, DeadStaysDead

-----------------------------------------------------------------------------
(* The components together.                                                  *)

\* A step of the server is a step of the component that moves and none of any
\* other: each component runs as it would alone.
LEMMA PartsMoveAlone ==
    ASSUME [Next]_serverVars
    PROVE  /\ [TeamsNext]_teamVars /\ [FormsNext]_allFormVars /\ [AccountsNext]_accountVars
           /\ [LimitsNext]_limitVars /\ [WebhooksNext]_webhookVars /\ [ViewsNext]_viewVars
           /\ UNCHANGED part
  BY DEF Next, serverVars

\* A behaviour of the server is one of each of its components: people and teams,
\* drafts and forms, accounts, limiters, webhooks and views share no state.
THEOREM ServerIsItsParts ==
    Spec => /\ TeamsSpec /\ FormsSpec /\ AccountsSpec
            /\ LimitsSpec /\ WebhooksSpec /\ ViewsSpec
<1>1. Init => /\ TeamsInit /\ FormsInit /\ AccountsInit
              /\ LimitsInit /\ WebhooksInit /\ ViewsInit
  BY DEF Init
<1>2. [Next]_serverVars => /\ [TeamsNext]_teamVars /\ [FormsNext]_allFormVars
                           /\ [AccountsNext]_accountVars /\ [LimitsNext]_limitVars
                           /\ [WebhooksNext]_webhookVars /\ [ViewsNext]_viewVars
  BY PartsMoveAlone
<1> QED
  BY <1>1, <1>2, PTL DEF Spec, TeamsSpec, FormsSpec, AccountsSpec, LimitsSpec, WebhooksSpec, ViewsSpec

\* The variables of all components of the server keep their types.
THEOREM ServerTyped == Spec => []ServerTypes
<1>1. TeamsTypeOK /\ DraftsTypeOK /\ FormsTypeOK /\ AccountsTypeOK
      /\ LimitsTypeOK /\ WebhooksTypeOK /\ ViewsTypeOK
      /\ part \in {"teams", "forms", "accounts", "limits", "webhooks", "views"} => ServerTypes
  BY DEF ServerTypes
<1>2. Init => part \in {"teams", "forms", "accounts", "limits", "webhooks", "views"}
  BY DEF Init
<1>3. part \in {"teams", "forms", "accounts", "limits", "webhooks", "views"} /\ [Next]_serverVars
      => (part \in {"teams", "forms", "accounts", "limits", "webhooks", "views"})'
  BY PartsMoveAlone
<1> QED
  BY <1>1, <1>2, <1>3, ServerIsItsParts, TeamTypes, FormTypes, AccountTypes, LimitTypes, WebhookTypes,
     ViewTypes, PTL DEF Spec

\* What each component promises, the server keeps: drafts that are listed are
\* whole, submissions have owners or were left by a deletion that was cut short,
\* accounts are whole, limiters neither refuse without cause nor allow more than
\* two budgets in a window, the log of deliveries is true, views are counted
\* once; teams do what Directory allows, standing is given, nothing goes early
\* and what is dead stays dead.
THEOREM ServerKeepsItsPromises ==
    Spec => /\ [](/\ ListedIsWhole /\ RecordsHaveTarget /\ AccountsAreWhole
                  /\ LimitersAreFair /\ DeliveriesAreTrue /\ ViewsCountOnce)
            /\ ImplementsDirectory /\ MembershipIsGiven /\ NothingGoesEarly /\ DeadStaysDead
  BY ServerIsItsParts, ListedWhole, SubmissionsHaveOwners, AccountsWhole, LimitersFair, DeliveriesHonest,
     ViewsCountedOnce, TeamsImplementDirectory, StandingIsGiven, InOrder, DeadStays, PTL
=============================================================================
