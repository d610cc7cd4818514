---------------------------- MODULE KnowledgeDesk ----------------------------
(***************************************************************************)
(* The knowledge base of a project: documents, the chunks that retrieval   *)
(* searches, the worker's task that makes them, and the page on which the  *)
(* documents are added, uploaded, edited and deleted and the retrieval is  *)
(* tried.                                                                  *)
(*                                                                         *)
(* A task reads its document, deletes the document's chunks (locking them),*)
(* embeds the content it read and commits chunks and status in the one     *)
(* database transaction.  Nothing keeps two tasks of a document apart: an  *)
(* edit, or a message delivered again, starts another.                     *)
(***************************************************************************)
EXTENDS KnowledgeBase

CONSTANTS MaxDocs,     \* bound: documents
          MaxTasks,    \* bound: tasks
          MaxRequests, \* bound: saves, uploads and deletions
          MaxFaults    \* bound: lost answers and messages, killed workers, failed embeddings

ASSUME KnowledgeAssumption == /\ Contents # {} /\ NoContent \notin Contents
                              /\ {MaxDocs, MaxTasks, MaxRequests, MaxFaults} \subseteq Nat

VARIABLES
    home,    \* the project the page shows is the default one
    list,    \* the documents the page shows
    asked,   \* the list is being loaded
    modal,   \* the dialog that is open
    call,    \* the request in flight that changes something, one at a time (a bound)
    requests, faults

server == <<docs, chunks, tasks>>
page   == <<list, asked, modal, call>>
bounds == <<requests, faults>>
vars   == <<home, server, page, bounds>>

-----------------------------------------------------------------------------
\* The worker

Start(t) ==
    /\ tasks[t].at = "sent"
    /\ LET doc == docs[tasks[t].doc]
       IN  tasks' = IF doc.at = "deleted" THEN [tasks EXCEPT ![t] = Over(@)]
                    ELSE [Disturbed(tasks, tasks[t].doc) EXCEPT ![t] =
                             [@ EXCEPT !.at = "read", !.read = doc.content, !.status = doc.at,
                                       !.alone = (Others(t) = {})]]
    /\ UNCHANGED <<home, docs, chunks, page, bounds>>

\* (Faulty variant: the chunks stay.)
OldNone(d) == {}
\* Chunked from scratch: all the chunks that there are go.
Old(d) == ChunksOf(d)
\* The statement sees the chunks of this moment, also when it has to wait for
\* another task that deletes some of them.
Delete(t) ==
    /\ tasks[t].at = "read"
    /\ LET old == Old(tasks[t].doc)
       IN  tasks' = [tasks EXCEPT ![t].at = IF LockedBy(t, old) = {} THEN "embedding" ELSE "waiting",
                                  ![t].old = old]
    /\ UNCHANGED <<home, docs, chunks, page, bounds>>
Unlock(t) ==
    /\ tasks[t].at = "waiting" /\ LockedBy(t, tasks[t].old) = {}
    /\ tasks' = [tasks EXCEPT ![t].at = "embedding", ![t].old = @ \cap chunks]
    /\ UNCHANGED <<home, docs, chunks, page, bounds>>

\* (Faulty variant: the document of a task is taken to be there still.)
GoneNever(d) == FALSE
\* A chunk refers to its document.
Gone(d) == docs[d].at = "deleted"

\* The status is written when it differs from the one that was read.  A
\* document deleted meanwhile fails the commit, and then it is not found.
Finish(t) ==
    /\ tasks[t].at = "embedding"
    /\ LET d == tasks[t].doc
       IN  IF Gone(d) THEN UNCHANGED <<docs, chunks>>
           ELSE /\ chunks' = (chunks \ tasks[t].old) \cup {[doc |-> d, by |-> t, content |-> tasks[t].read]}
                /\ docs' = IF tasks[t].status = "ready" THEN docs ELSE [docs EXCEPT ![d].at = "ready"]
    /\ tasks' = [tasks EXCEPT ![t] = Over(@)]
    /\ UNCHANGED <<home, page, bounds>>

\* The embedding fails: rolled back, and the document marked.
Fail(t) ==
    /\ faults < MaxFaults /\ faults' = faults + 1
    /\ tasks[t].at = "embedding"
    /\ docs' = [docs EXCEPT ![tasks[t].doc].at = IF @ = "deleted" THEN @ ELSE "failed"]
    /\ tasks' = [tasks EXCEPT ![t] = Over(@)]
    /\ UNCHANGED <<home, chunks, page, requests>>

\* A worker is killed and its message delivered again; or it is delivered
\* again while the task runs on.
Redeliver(t) ==
    /\ faults < MaxFaults /\ faults' = faults + 1
    /\ InHand(t)
    /\ \/ tasks' = [tasks EXCEPT ![t] = NewTask(@.doc)]
       \/ Len(tasks) < MaxTasks /\ tasks' = Append(tasks, NewTask(tasks[t].doc))
    /\ UNCHANGED <<home, docs, chunks, page, requests>>

Ingest(t) == Start(t) \/ Delete(t) \/ Unlock(t) \/ Finish(t) \/ Fail(t) \/ Redeliver(t)

-----------------------------------------------------------------------------
\* The list of documents

Listed == [d \in DOMAIN docs |-> docs[d].at]

\* (Faulty variant: a list whose last load failed is not polled.)
PollUnlessFailed ==
    /\ ~list.error /\ \E d \in DOMAIN list.docs : list.docs[d] = "processing"
    /\ ~asked /\ asked' = TRUE
    /\ UNCHANGED <<home, server, list, modal, call, bounds>>
Poll ==
    /\ \E d \in DOMAIN list.docs : list.docs[d] = "processing"
    /\ ~asked /\ asked' = TRUE
    /\ UNCHANGED <<home, server, list, modal, call, bounds>>

ListArrives == /\ asked /\ asked' = FALSE
               /\ list' = [known |-> TRUE, error |-> FALSE, docs |-> Listed]
               /\ UNCHANGED <<home, server, modal, call, bounds>>

\* The error takes the place of the list, which stays behind it.
LoseList == /\ faults < MaxFaults /\ faults' = faults + 1
            /\ asked /\ asked' = FALSE
            /\ list' = [list EXCEPT !.error = TRUE]
            /\ UNCHANGED <<home, server, modal, call, requests>>

-----------------------------------------------------------------------------
\* The dialogs

Closed == [at |-> "none", doc |-> 0, text |-> NoContent, loading |-> FALSE, pending |-> FALSE]
Idle   == [at |-> "idle", kind |-> "none", doc |-> 0, text |-> NoContent]

Show(new) == /\ modal' = new
             /\ UNCHANGED <<home, server, list, asked, call, bounds>>
Send(c, new) == /\ call = Idle /\ call' = [c EXCEPT !.at = "sent"]
                /\ requests < MaxRequests /\ requests' = requests + 1
                /\ modal' = new
                /\ UNCHANGED <<home, server, list, asked, faults>>

\* Dialogs are opened only while the bound leaves a request for them.
Openable == modal = Closed /\ requests < MaxRequests
Shown(d) == list.known /\ ~list.error /\ list.docs[d] # "deleted"

Add == Openable /\ Show([Closed EXCEPT !.at = "new"])
Edit(d) == /\ Openable /\ Shown(d)
           /\ Show([Closed EXCEPT !.at = "edit", !.doc = d, !.loading = TRUE])
\* get_document: the content, or an error when the document is not there.
DetailArrives == /\ modal.loading
                 /\ Show([modal EXCEPT !.loading = FALSE,
                              !.text = IF docs[modal.doc].at = "deleted" THEN NoContent
                                       ELSE docs[modal.doc].content])
Type(c) == /\ modal.at \in {"new", "edit"} /\ ~modal.loading /\ ~modal.pending /\ modal.text # c
           /\ Show([modal EXCEPT !.text = c])
Close == modal # Closed /\ Show(Closed)

OnSubmit == /\ modal.at \in {"new", "edit"} /\ modal.text # NoContent
            /\ ~modal.pending /\ ~modal.loading
            /\ Send([Idle EXCEPT !.kind = modal.at, !.doc = modal.doc, !.text = modal.text],
                    [modal EXCEPT !.pending = TRUE])

AskDelete(d) == Openable /\ Shown(d) /\ Show([Closed EXCEPT !.at = "delete", !.doc = d])
OnDelete == /\ modal.at = "delete" /\ ~modal.pending
            /\ Send([Idle EXCEPT !.kind = "delete", !.doc = modal.doc], [modal EXCEPT !.pending = TRUE])

\* The trial of the retrieval: the answer is a passage that is searched now,
\* or that there is none, or an error.
Retrieve == Openable /\ Show([Closed EXCEPT !.at = "retrieve"])
Run == /\ modal.at = "retrieve" /\ ~modal.pending
       /\ Show([modal EXCEPT !.pending = TRUE, !.text = NoContent])
Hits == /\ modal.at = "retrieve" /\ modal.pending
        /\ \E hit \in {c.content : c \in chunks} \cup {NoContent} :
              Show([modal EXCEPT !.pending = FALSE, !.text = hit])

\* A file is picked; no dialog.
OnUpload(c) == modal = Closed /\ Send([Idle EXCEPT !.kind = "upload", !.text = c], modal)

-----------------------------------------------------------------------------
\* The API's handlers

\* A task is sent after the commit.  A message that cannot be sent fails the
\* request.
Commit(ds, d) ==
    /\ docs' = ds
    /\ \/ /\ Len(tasks) < MaxTasks
          /\ tasks' = Append(Disturbed(tasks, d), NewTask(d))
          /\ call' = [call EXCEPT !.at = "ok"]
          /\ UNCHANGED faults
       \/ /\ faults < MaxFaults /\ faults' = faults + 1
          /\ tasks' = Disturbed(tasks, d)
          /\ call' = [call EXCEPT !.at = "error"]

Answer(at) == call' = [call EXCEPT !.at = at] /\ UNCHANGED <<docs, tasks, faults>>

\* create_document, upload_document.
CreateDocument == /\ call.kind \in {"new", "upload"} /\ Len(docs) < MaxDocs
                  /\ Commit(Append(docs, NewDoc(call.text)), Len(docs) + 1)
                  /\ UNCHANGED chunks

\* The request of the page names no project: the default one is meant.
Found(d) == docs[d].at # "deleted" /\ home

UpdateDocument ==
    /\ call.kind = "edit"
    /\ IF ~Found(call.doc) THEN Answer("error")
       ELSE IF call.text = docs[call.doc].content THEN Answer("ok")
       ELSE Commit([docs EXCEPT ![call.doc] = NewDoc(call.text)], call.doc)
    /\ UNCHANGED chunks

\* With its chunks; waits for a task that has some of them locked.
DeleteDocument ==
    /\ call.kind = "delete" /\ LockedBy(0, ChunksOf(call.doc)) = {}
    /\ IF docs[call.doc].at = "deleted" THEN Answer("error") /\ UNCHANGED chunks
       ELSE /\ docs' = [docs EXCEPT ![call.doc].at = "deleted"]
            /\ chunks' = chunks \ ChunksOf(call.doc)
            /\ tasks' = Disturbed(tasks, call.doc)
            /\ call' = [call EXCEPT !.at = "ok"]
            /\ UNCHANGED faults

Serve == /\ call.at = "sent"
         /\ CreateDocument \/ UpdateDocument \/ DeleteDocument
         /\ UNCHANGED <<home, list, asked, modal, requests>>

LoseAnswer == /\ faults < MaxFaults /\ faults' = faults + 1
              /\ call.at = "ok" /\ call' = [call EXCEPT !.at = "error"]
              /\ UNCHANGED <<home, server, list, asked, modal, requests>>

\* The continuations.  A save or a deletion that went well closes whichever
\* dialog of its kind is open by now; one that did not shows its error in the
\* dialog that asked.
Dialogs(kind) == CASE kind = "delete" -> {"delete"} [] kind = "upload" -> {} [] OTHER -> {"new", "edit"}
Answered == /\ call.at \in {"ok", "error"} /\ call' = Idle
            /\ modal' = IF modal.at \notin Dialogs(call.kind) THEN modal
                        ELSE IF call.at = "ok" THEN Closed ELSE [modal EXCEPT !.pending = FALSE]
            /\ asked' = (asked \/ call.at = "ok")
            /\ UNCHANGED <<home, server, list, bounds>>

-----------------------------------------------------------------------------

\* An empty knowledge base, or a document that was ingested.
Init ==
    /\ home \in BOOLEAN
    /\ \/ docs = <<>> /\ chunks = {}
       \/ \E c \in Contents : /\ docs = <<[at |-> "ready", content |-> c]>>
                              /\ chunks = {[doc |-> 1, by |-> 0, content |-> c]}
    /\ tasks = <<>>
    /\ list = [known |-> FALSE, error |-> FALSE, docs |-> <<>>]
    /\ asked = TRUE
    /\ modal = Closed /\ call = Idle
    /\ requests = 0 /\ faults = 0

Editing == \/ Add \/ DetailArrives \/ Close \/ OnSubmit \/ OnDelete
           \/ Retrieve \/ Run \/ Hits
           \/ \E c \in Contents : Type(c) \/ OnUpload(c)
           \/ \E d \in DOMAIN list.docs : Edit(d) \/ AskDelete(d)

Next == \/ \E t \in DOMAIN tasks : Ingest(t)
        \/ Poll \/ ListArrives \/ LoseList
        \/ Editing \/ Serve \/ LoseAnswer \/ Answered

Spec == Init /\ [][Next]_vars

\* Workers work on the messages they have, answers arrive, the interval runs.
Fairness == /\ WF_vars(Poll) /\ WF_vars(ListArrives)
            /\ \A t \in 1..MaxTasks : WF_vars(t \in DOMAIN tasks /\ (Start(t) \/ Delete(t) \/ Unlock(t) \/ Finish(t)))
FairSpec == Spec /\ Fairness

-----------------------------------------------------------------------------
\* Properties

\* Every variable keeps its type.
TypeOK ==
    /\ \A d \in DOMAIN docs : docs[d].at \in {"processing", "ready", "failed", "deleted"}
    /\ \A c \in chunks : c.doc \in DOMAIN docs /\ c.content \in Contents
    /\ \A t \in DOMAIN tasks : /\ tasks[t].doc \in DOMAIN docs
                               /\ tasks[t].at \in {"sent", "read", "waiting", "embedding", "over"}
                               /\ tasks[t].read \in Contents \cup {NoContent}
    /\ Len(list.docs) <= Len(docs)

\* The page learns that a document it shows in processing has settled.
Behind(d) == /\ d \in DOMAIN list.docs /\ list.docs[d] = "processing"
             /\ docs[d].at # "processing"
PageLearnsOfIngest == \A d \in 1..MaxDocs : Behind(d) ~> ~Behind(d)

-----------------------------------------------------------------------------
\* Stated of the program and not true of it

\* "Saving re-indexes the document": not when the task of an earlier content
\* ends after the task of this one.
ReadyIsCurrent == \A d \in DOMAIN docs :
    docs[d].at = "ready" /\ (\A t \in DOMAIN tasks : tasks[t].doc = d => tasks[t].at = "over")
    => {c.content : c \in ChunksOf(d)} = {docs[d].content}

\* "Edit document": in any project but the default one, every save of an
\* existing document is answered with "document not found".
EditsAreFound == call.kind = "edit" /\ call.at = "error" /\ faults = 0 => docs[call.doc].at = "deleted"

\* "this task flips them to 'ready' (with chunk_count) or 'failed'": not a
\* document whose message was lost after its commit.
NoneIsStuck == \A d \in DOMAIN docs :
    docs[d].at = "processing" => \E t \in DOMAIN tasks : tasks[t].doc = d /\ tasks[t].at # "over"
=============================================================================
