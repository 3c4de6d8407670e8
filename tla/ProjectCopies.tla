--------------------------- MODULE ProjectCopies ---------------------------
(***************************************************************************)
(* A project that uploads to and queries several communities, composed of  *)
(* its index (LocalIndex), the communities (KnowledgeStore) and the rules  *)
(* for copies (CopyBases). An upload (community/upload.go) lists what the  *)
(* community has, takes index.lock, scans the file, records agreements and *)
(* sends its batch; a query (reconcileSources) takes the answers of the    *)
(* communities as they come and then looks at the project's own copy and   *)
(* bases without the lock.                                                 *)
(***************************************************************************)
EXTENDS KnowledgeStore, LocalIndex

CONSTANT NoLink

ASSUME ProjectCopiesAssumption == NoLink \notin Links

VARIABLES upload,   \* UploadKnowledge or knowledge.status of one process
          late,     \* batches on their way whose sender does not wait
          query     \* one query

vars == <<storeVars, indexVars, upload, late, query>>

NoUpload == [pc |-> "idle", link |-> NoLink, listed |-> NoCopy,
             text |-> NoText, key |-> NoBatch, answer |-> NoCopy]
NoQuery == [pc |-> "idle", local |-> NoText, obs |-> NoBases, bases |-> NoBases, links |-> {}]

TypeOK ==
    /\ StoreTypeOK
    /\ LocalTypeOK
    /\ lock = "build" <=> build.pc # "idle"
    /\ lock = "upload" <=> upload.pc \notin {"idle", "listed"}
    /\ upload \in [pc : {"idle", "listed", "scanned", "sent", "answered"},
                   link : Links \cup {NoLink}, listed : Copy,
                   text : Texts \cup {NoText}, key : Batches \cup {NoBatch},
                   answer : Copy]
    /\ late \in SUBSET [link : Links, key : Batches, text : Texts]
    /\ query \in [pc : {"idle", "looked", "settling"},
                  local : Texts \cup {NoText}, obs : [Links -> Copy], bases : [Links -> Copy],
                  links : SUBSET Links]

Init ==
    /\ StoreInit
    /\ LocalInit
    /\ upload = NoUpload
    /\ late = {}
    /\ query = NoQuery

Store(c, copy) == index' = [index EXCEPT !.bases = StoreCopyBases(@, c, copy)]

-----------------------------------------------------------------------------
(* UploadKnowledge *)

\* inventoryKnowledge, before the lock.
ListInventory(c) ==
    /\ upload.pc = "idle"
    /\ upload' = [NoUpload EXCEPT !.pc = "listed", !.link = c, !.listed = Current(c)]
    /\ UNCHANGED <<storeVars, indexVars, late, query>>

\* TryLock and the scan; an upload that finds the lock taken ends.
LockAndScan ==
    /\ upload.pc = "listed"
    /\ IF lock = "free"
       THEN lock' = "upload" /\ upload' = [upload EXCEPT !.pc = "scanned", !.text = file.text]
       ELSE upload' = NoUpload /\ UNCHANGED lock
    /\ UNCHANGED <<storeVars, file, index, build, late, query>>

\* Mutant: whatever the community has is taken for an agreement.
AnyListed == upload.listed # NoCopy

ListedAgrees == upload.listed # NoCopy /\ upload.listed.text = upload.text

\* An agreement is recorded whatever follows.
Agreements ==
    IF ListedAgrees THEN Store(upload.link, [upload.listed EXCEPT !.text = upload.text])
    ELSE UNCHANGED index

\* Nothing to send: the upload is complete. knowledge.status ends here in any
\* case.
StoreAgreements ==
    /\ upload.pc = "scanned"
    /\ Agreements
    /\ upload' = NoUpload
    /\ lock' = "free"
    /\ UNCHANGED <<storeVars, file, build, late, query>>

FreshKeys == {b \in Batches : receipts[b] = NoCopy /\ b \notin expired
                              /\ \A r \in late : r.key # b}

\* New, changed or renamed: the file is read again and sent under a new key.
SendBatch ==
    /\ upload.pc = "scanned" /\ upload.text # NoText
    /\ file.text # NoText
    /\ Agreements
    /\ \E key \in FreshKeys :
         upload' = [upload EXCEPT !.pc = "sent", !.text = file.text, !.key = key,
                                  !.listed = NoCopy]
    /\ UNCHANGED <<storeVars, file, lock, build, late, query>>

ServePut ==
    /\ upload.pc = "sent"
    /\ PutKnowledge(upload.link, upload.key, upload.text)
    /\ upload' = [upload EXCEPT !.pc = "answered", !.answer = PutResult(upload.key)]
    /\ UNCHANGED <<indexVars, late, query>>

\* The answer does not come, or the connection broke before the request was
\* handled: the same batch is sent again.
Retry ==
    /\ upload.pc \in {"sent", "answered"}
    /\ late' = late \cup (IF upload.pc = "sent"
                          THEN {[link |-> upload.link, key |-> upload.key, text |-> upload.text]}
                          ELSE {})
    /\ upload' = [upload EXCEPT !.pc = "sent", !.answer = NoCopy]
    /\ UNCHANGED <<storeVars, indexVars, query>>

StoreReceipt ==
    /\ upload.pc = "answered" /\ upload.answer # NoCopy
    /\ Store(upload.link, upload.answer)
    /\ lock' = "free"
    /\ upload' = NoUpload
    /\ UNCHANGED <<storeVars, file, build, late, query>>

\* Mutant: an error path keeps the lock.
KeepsLock == lock

Released == IF lock = "upload" THEN "free" ELSE lock

\* An error, a refusal or the end of the process, whatever is on its way.
StopUpload ==
    /\ upload.pc # "idle"
    /\ late' = late \cup (IF upload.pc = "sent"
                          THEN {[link |-> upload.link, key |-> upload.key, text |-> upload.text]}
                          ELSE {})
    /\ lock' = Released
    /\ upload' = NoUpload
    /\ UNCHANGED <<storeVars, file, index, build, query>>

ServeLate(r) ==
    /\ late' = late \ {r}
    /\ \/ PutKnowledge(r.link, r.key, r.text)
       \/ UNCHANGED storeVars
    /\ UNCHANGED <<indexVars, upload, query>>

\* The age of a key matters as long as it may still be sent.
SentKeyAges(key) ==
    /\ upload.key = key \/ \E r \in late : r.key = key
    /\ Age(key)
    /\ UNCHANGED <<indexVars, upload, late, query>>

Upload ==
    \/ \E c \in Links : ListInventory(c)
    \/ LockAndScan \/ StoreAgreements \/ SendBatch \/ ServePut
    \/ Retry \/ StoreReceipt \/ StopUpload

-----------------------------------------------------------------------------
(* A query *)

\* The answers are there, each from an index that may be behind or none at
\* all, and LookupCopies reads the project's own copy. (Without one, every
\* text is shown and nothing is remembered.)
LookupCopies ==
    /\ query.pc = "idle" /\ index.copy # NoText
    /\ \E obs \in [Links -> UNION {Observable(c) : c \in Links}] :
         /\ \A c \in Links : obs[c] \in Observable(c)
         /\ Seen(obs) # {}
         /\ query' = [NoQuery EXCEPT !.pc = "looked", !.obs = obs, !.local = index.copy,
                                     !.links = Seen(obs)]
    /\ UNCHANGED <<storeVars, indexVars, upload, late>>

BasesWith(c) == [query.bases EXCEPT ![c] = index.bases[c]]

\* The bases of one link; after the last the group is resolved, and what all
\* agree on is left to remember.
ReadCopyBases(c) ==
    /\ query.pc = "looked" /\ c \in query.links
    /\ LET settled == Settled(query.local, query.obs, BasesWith(c))
       IN query' = IF query.links # {c}
                   THEN [query EXCEPT !.bases = BasesWith(c), !.links = @ \ {c}]
                   ELSE IF settled = {} THEN NoQuery
                   ELSE [query EXCEPT !.pc = "settling", !.bases = NoBases, !.links = settled]
    /\ UNCHANGED <<storeVars, indexVars, upload, late>>

\* Nobody waits for the lock: a busy index only forgets the observation.
RememberCopies(c) ==
    /\ query.pc = "settling" /\ c \in query.links
    /\ \/ lock = "free" /\ Store(c, query.obs[c])
       \/ lock # "free" /\ UNCHANGED index
    /\ query' = IF query.links = {c} THEN NoQuery ELSE [query EXCEPT !.links = @ \ {c}]
    /\ UNCHANGED <<storeVars, file, lock, build, upload, late>>

\* The query is given up.
StopQuery ==
    /\ query.pc # "idle"
    /\ query' = NoQuery
    /\ UNCHANGED <<storeVars, indexVars, upload, late>>

Query ==
    \/ LookupCopies \/ StopQuery
    \/ \E c \in Links : ReadCopyBases(c) \/ RememberCopies(c)

Next ==
    \/ Upload
    \/ \E r \in late : ServeLate(r)
    \/ \E key \in Batches : SentKeyAges(key)
    \/ Query
    \/ LocalNext /\ UNCHANGED <<storeVars, upload, late, query>>
    \/ StoreNext /\ UNCHANGED <<indexVars, upload, late, query>>

Spec == Init /\ [][Next]_vars

-----------------------------------------------------------------------------
\* A batch changes a community at most once, however often it is sent and
\* however late it arrives: an old accepted retry never overwrites what was
\* uploaded after it (upload.md l.22).
BatchOnce ==
    \A c \in Links : \A i, j \in 1..Len(versions[c]) :
        i < j /\ versions[c][i].key # NoBatch => versions[c][i].key # versions[c][j].key

\* A base is a text the community had at just that sequence.
BaseWasShared ==
    \A c \in Links :
        index.bases[c].text # NoText =>
            /\ index.bases[c].seq \in 1..Len(versions[c])
            /\ versions[c][index.bases[c].seq].text = index.bases[c].text

\* A delayed answer, an old inventory, a crash or a rebuild never takes a
\* base back behind an upload acknowledgement or a newer observation.
BaseNeverGoesBack ==
    [][\A c \in Links : index'.bases[c].seq >= index.bases[c].seq]_vars

\* A remote text replaces the project's own only in a community that had the
\* project's text first and then changed it: an edit nobody else has seen
\* never loses to a copy it was made from.
LocalEditKept ==
    \A d \in Links : query.pc = "looked" /\ query.links = {d} =>
        \A t \in Winners(query.local, query.obs, BasesWith(d)) :
            t = query.local \/
            \E c \in Seen(query.obs) :
                /\ query.obs[c].text = t
                /\ \E s \in 1..(query.obs[c].seq - 1) : versions[c][s].text = query.local

\* An index whose manifest fits the file holds the text of the file: what was
\* changed during a rebuild is noticed by the next.
ManifestHonest ==
    index.manifest = file.stamp => index.copy = file.text
=============================================================================
