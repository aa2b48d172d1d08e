-------------------------- MODULE DocumentRegistry --------------------------
(***************************************************************************)
(* What the document store promises its callers about source bytes (the    *)
(* docstrings of src/store/service.py, models.py and objects.py):          *)
(* a document is recorded together with bytes that have its content, the   *)
(* same content is never two documents, a document keeps its bytes for as  *)
(* long as it is retained, and it loses them only by being deleted.  Bytes *)
(* that are not a document may be discarded at any time.  Uploads          *)
(* implements this specification in the runs that say so.                  *)
(***************************************************************************)
CONSTANTS
    Candidate,   \* the document ids create_upload hands out
    Content,     \* the contents bytes can have, one for each SHA-256
    None         \* no bytes, no document

VARIABLES
    documents,   \* candidate -> the content it is a document of, or None
    objects      \* candidate -> the content of the bytes under its key, or None

vars == <<documents, objects>>

\* Documents and objects have contents or none.
TypeOK ==
    /\ documents \in [Candidate -> Content \cup {None}]
    /\ objects \in [Candidate -> Content \cup {None}]

Init ==
    /\ documents = [c \in Candidate |-> None]
    /\ objects = [c \in Candidate |-> None]

\* A client writes the bytes of a candidate that is not a document.
Write(c, k) ==
    /\ documents[c] = None
    /\ objects[c] = None
    /\ objects' = [objects EXCEPT ![c] = k]
    /\ UNCHANGED documents

\* Bytes become a document in one step, unless their content already is one.
Record(c) ==
    /\ documents[c] = None
    /\ objects[c] # None
    /\ \A d \in Candidate : documents[d] # objects[c]
    /\ documents' = [documents EXCEPT ![c] = objects[c]]
    /\ UNCHANGED objects

\* Bytes of candidates that are not documents go away.
Discard(gone) ==
    /\ \A c \in gone : documents[c] = None
    /\ objects' = [c \in Candidate |-> IF c \in gone THEN None ELSE objects[c]]
    /\ UNCHANGED documents

\* A document goes away together with its bytes.
Delete(c) ==
    /\ documents[c] # None
    /\ documents' = [documents EXCEPT ![c] = None]
    /\ objects' = [objects EXCEPT ![c] = None]

Next ==
    \/ \E c \in Candidate, k \in Content : Write(c, k)
    \/ \E c \in Candidate : Record(c) \/ Delete(c)
    \/ \E gone \in SUBSET Candidate : Discard(gone)

Spec == Init /\ [][Next]_vars
=============================================================================
