---------------------------- MODULE KnowledgeBase ----------------------------
(***************************************************************************)
(* What a knowledge base keeps: its documents, the chunks that retrieval   *)
(* searches and the ingest tasks that make the ones of the others; and     *)
(* what must be true of the three.  KnowledgeDesk says how they change.    *)
(***************************************************************************)
EXTENDS Naturals, FiniteSets, Sequences

CONSTANTS Contents,    \* what a document may say
          NoContent    \* what a form holds before its content is known

VARIABLES
    docs,    \* the documents, in the order of their creation
    chunks,  \* the chunks: one for each content a task has put in
    tasks    \* the tasks, in the order they were sent

NewDoc(c) == [at |-> "processing", content |-> c]
Existing  == {d \in DOMAIN docs : docs[d].at # "deleted"}
ChunksOf(d) == {c \in chunks : c.doc = d}

\* read: the content and the status it found; old: the chunks it deletes;
\* alone: no other task had the document in hand, and nobody edited it, meanwhile.
NewTask(d) == [doc |-> d, at |-> "sent", read |-> NoContent, status |-> "processing",
               old |-> {}, alone |-> FALSE]
Over(t) == [t EXCEPT !.at = "over", !.read = NoContent, !.status = "processing", !.old = {}, !.alone = FALSE]

InHand(t) == tasks[t].at \in {"read", "waiting", "embedding"}
Others(t) == {u \in DOMAIN tasks \ {t} : tasks[u].doc = tasks[t].doc /\ InHand(u)}

\* The tasks of d that are in hand are not alone with it any more.
Disturbed(ts, d) == [u \in DOMAIN ts |-> [ts[u] EXCEPT !.alone = @ /\ ts[u].doc # d]]

LockedBy(t, cs) == {u \in DOMAIN tasks \ {t} : tasks[u].at = "embedding" /\ tasks[u].old \cap cs # {}}

-----------------------------------------------------------------------------
\* Properties

\* What is searched belongs to a document that exists, a document that is ready
\* has something to be found by, and no two tasks delete the same chunks: an
\* ingest takes a while between its statements, and documents are deleted and
\* edited, and messages delivered again, meanwhile (ingest_document).
ReadyIsSearchable ==
    /\ \A c \in chunks : c.doc \in Existing
    /\ \A d \in DOMAIN docs : docs[d].at = "ready" => ChunksOf(d) # {}
    /\ \A t \in DOMAIN tasks : tasks[t].at = "embedding" => LockedBy(t, tasks[t].old) = {}

\* "Re-chunk from scratch so re-ingest is idempotent": a task that is alone
\* with its document leaves the chunks of the document's content and no
\* others, whatever tasks before it left, delivered again or not.
IngestRebuilds == [][\A t \in DOMAIN tasks : tasks[t].alone /\ tasks'[t].at = "over" =>
    LET d == tasks[t].doc
        now == {c \in chunks' : c.doc = d}
    IN  docs'[d].at = "ready" =>
            Cardinality(now) = 1 /\ \A c \in now : c.content = docs'[d].content]_<<docs, chunks, tasks>>
=============================================================================
