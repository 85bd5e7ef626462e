------------------------------- MODULE Drafts -------------------------------
(***************************************************************************)
(* Drafts: one HTML document each, a row in the drafts table and a file    *)
(* under DATA_DIR/drafts (routes/drafts.ts).  The row and the file are     *)
(* written one after the other, by handlers that wait for the disk in      *)
(* between, and the process may die at any point.  A content stands for    *)
(* its SHA-256.                                                            *)
(***************************************************************************)
EXTENDS Naturals, FiniteSets

CONSTANTS Authors,  \* the people with an account
          DraftIds, \* bound: identifiers that are drawn
          Contents, \* the documents that are uploaded
          MaxWaits  \* bound: handlers waiting for the disk or a body at once

ASSUME DraftsAssumption == MaxWaits \in Nat /\ \E a, b \in Contents : a # b

VARIABLES
    draft,    \* draft[d]: the row of d
    file,     \* file[d]: what is at its storage path
    drawn,    \* history variable: the identifiers that have been drawn
    uploads,  \* handlers that are writing the file of a new draft
    copies,   \* handlers that are reading the file of the draft they duplicate
    removals  \* drafts whose file a handler is removing

draftVars == <<draft, file, drawn, uploads, copies, removals>>

NoDraft == [owner |-> "none"]
NoFile == [holds |-> {}]
Torn == [holds |-> Contents]   \* written in part
Holding(content) == [holds |-> {content}]

DraftRows == [owner : Authors, sha : Contents]
Uploads == [id : DraftIds, owner : Authors, content : Contents]
Copies == [of : DraftIds, owner : Authors]
Urls == [id : DraftIds, sha : Contents, expired : BOOLEAN]

HasDraft(d) == draft[d] # NoDraft

DraftsInit ==
    /\ draft = [d \in DraftIds |-> NoDraft]
    /\ file = [d \in DraftIds |-> NoFile]
    /\ drawn = {}
    /\ uploads = {} /\ copies = {} /\ removals = {}

Waits == Cardinality(uploads) + Cardinality(copies) + Cardinality(removals)

\* generateId never draws an identifier twice.
Fresh(d) == d \notin drawn

----------------------------------------------------------------------------
(* POST / and POST /:draftId/duplicate.                                    *)

\* The directory is made and the write begins.
StartWriting(d, u, content) ==
    /\ Fresh(d)
    /\ drawn' = drawn \cup {d}
    /\ file' = [file EXCEPT ![d] = Torn]
    /\ uploads' = uploads \cup {[id |-> d, owner |-> u, content |-> content]}

\* Mutant of BeginUpload: the row goes first.
BeginWithRow(d, u, content) ==
    /\ Waits < MaxWaits
    /\ StartWriting(d, u, content)
    /\ draft' = [draft EXCEPT ![d] = [owner |-> u, sha |-> content]]
    /\ UNCHANGED <<copies, removals>>

BeginUpload(d, u, content) ==
    /\ Waits < MaxWaits
    /\ StartWriting(d, u, content)
    /\ UNCHANGED <<draft, copies, removals>>

\* The write ends and the row is inserted.
FinishUpload(up) ==
    /\ uploads' = uploads \ {up}
    /\ file' = [file EXCEPT ![up.id] = Holding(up.content)]
    /\ draft' = [draft EXCEPT ![up.id] = [owner |-> up.owner, sha |-> up.content]]
    /\ UNCHANGED <<drawn, copies, removals>>

\* The disk is full: what was written stays.
FailUpload(up) ==
    /\ uploads' = uploads \ {up}
    /\ UNCHANGED <<draft, file, drawn, copies, removals>>

BeginCopy(d, u) ==
    /\ Waits < MaxWaits
    /\ HasDraft(d) /\ draft[d].owner = u
    /\ copies' = copies \cup {[of |-> d, owner |-> u]}
    /\ UNCHANGED <<draft, file, drawn, uploads, removals>>

\* The file has been read: a file that is gone meanwhile is a 404.
FinishCopy(c, d) ==
    /\ copies' = copies \ {c}
    /\ IF file[c.of] = NoFile
       THEN UNCHANGED <<file, drawn, uploads>>
       ELSE \E content \in file[c.of].holds : StartWriting(d, c.owner, content)
    /\ UNCHANGED <<draft, removals>>

----------------------------------------------------------------------------
(* DELETE /:draftId.  The row goes after the file; Forms goes on with the  *)
(* site data of the draft.                                                 *)

BeginRemoval(d, u) ==
    /\ Waits < MaxWaits
    /\ HasDraft(d) /\ draft[d].owner = u
    /\ removals' = removals \cup {d}
    /\ UNCHANGED <<draft, file, drawn, uploads, copies>>

\* rm has unlinked the file and goes on with the directory.
Unlink(d) ==
    /\ d \in removals
    /\ file' = [file EXCEPT ![d] = NoFile]
    /\ UNCHANGED <<draft, drawn, uploads, copies, removals>>

\* rm fails, before or after it has unlinked the file.
FailRemoval(d) ==
    /\ d \in removals
    /\ removals' = removals \ {d}
    /\ UNCHANGED <<draft, file, drawn, uploads, copies>>

FinishRemoval(d) ==
    /\ d \in removals /\ file[d] = NoFile
    /\ removals' = removals \ {d}
    /\ draft' = [draft EXCEPT ![d] = NoDraft]
    /\ UNCHANGED <<file, drawn, uploads, copies>>

----------------------------------------------------------------------------
(* Pages, and the content they frame.                                      *)

\* renderDraftPage: the owner's page frames a URL that lives for five minutes.
UrlsFor(u) == {url \in Urls : HasDraft(url.id) /\ draft[url.id] = [owner |-> u, sha |-> url.sha]}

ValidSignature(url) == ~url.expired /\ draft[url.id].sha = url.sha

\* serveDraftContent: what a URL is answered with, {} being a 404.
ContentAt(url) ==
    IF HasDraft(url.id) /\ ValidSignature(url) THEN file[url.id].holds ELSE {}

\* A new process finds the rows and the files.
CrashDrafts ==
    /\ uploads' = {} /\ copies' = {} /\ removals' = {}
    /\ UNCHANGED <<draft, file, drawn>>

UploadSteps(d, u) ==
    \/ \E content \in Contents : BeginUpload(d, u, content)
    \/ BeginCopy(d, u)
    \/ BeginRemoval(d, u)

DraftSteps ==
    \/ \E d \in DraftIds, u \in Authors : UploadSteps(d, u)
    \/ \E up \in uploads : FinishUpload(up) \/ FailUpload(up)
    \/ \E c \in copies, d \in DraftIds : FinishCopy(c, d)
    \/ \E d \in DraftIds : Unlink(d) \/ FailRemoval(d)

----------------------------------------------------------------------------
(* Properties.                                                             *)

\* The variables keep their types.
DraftsTypeOK ==
    /\ draft \in [DraftIds -> DraftRows \cup {NoDraft}]
    /\ file \in [DraftIds -> {NoFile, Torn} \cup {Holding(content) : content \in Contents}]
    /\ drawn \subseteq DraftIds
    /\ uploads \subseteq Uploads /\ copies \subseteq Copies /\ removals \subseteq DraftIds

\* A draft that is listed is the document that was uploaded, whole, until its
\* owner deletes it: no crash, failed write or overlapping handler leaves a row
\* with half a file, a URL is answered with what it was signed for or not at
\* all, and the URL the owner's page frames is answered as long as the file is
\* there.
ListedIsWhole ==
    /\ \A d \in DraftIds : HasDraft(d) => file[d] \in {Holding(draft[d].sha), NoFile}
    /\ \A url \in Urls : ContentAt(url) \subseteq {url.sha}
    /\ \A u \in Authors : \A url \in UrlsFor(u) :
         ~url.expired /\ file[url.id] # NoFile => ContentAt(url) = {url.sha}
=============================================================================
