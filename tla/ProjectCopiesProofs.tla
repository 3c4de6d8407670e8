------------------------ MODULE ProjectCopiesProofs ------------------------
(***************************************************************************)
(* Proofs about ProjectCopies, for any communities, texts, batches and     *)
(* bounds: a batch counts once, a base is a copy that was shared and never *)
(* moves back, an unseen edit never loses, and an index that says it is    *)
(* current is.                                                             *)
(***************************************************************************)
EXTENDS ProjectCopies, SequenceTheorems, FiniteSetTheorems, TLAPS

-----------------------------------------------------------------------------
(* What a community has had, by its versions V. *)

\* A copy is one of the versions, or none at all.
Shared(V, c, copy) ==
    IF copy.text = NoText THEN copy.seq = 0
    ELSE copy.seq \in 1..Len(V[c]) /\ V[c][copy.seq].text = copy.text

\* A history only gets longer.
Grows ==
    \A c \in Links : /\ Len(versions[c]) \in Nat /\ Len(versions'[c]) \in Nat
                     /\ Len(versions[c]) <= Len(versions'[c])
                     /\ \A s \in 1..Len(versions[c]) : versions'[c][s] = versions[c][s]

LEMMA SharedLasts ==
    ASSUME Grows, NEW c \in Links, NEW copy, copy.seq \in Nat, Shared(versions, c, copy)
    PROVE  Shared(versions', c, copy)
  BY DEF Grows, Shared

LEMMA NoCopyShared == ASSUME NEW c PROVE Shared(versions, c, NoCopy)
  BY DEF Shared, NoCopy

LEMMA NoCopyTyped == NoCopy \in Copy /\ NoCopy.text = NoText /\ NoCopy.seq = 0
  BY DEF NoCopy, Copy

-----------------------------------------------------------------------------
(* The invariant. *)

\* A key that has changed something is answered or too old.
KeysUsed ==
    \A c \in Links : \A i \in 1..Len(versions[c]) :
        versions[c][i].key # NoBatch =>
            versions[c][i].key \in expired \/ receipts[versions[c][i].key] # NoCopy

\* Who may still send a batch: the upload, and what it left on its way.
Sends(c, key) ==
    \/ upload.pc \in {"sent", "answered"} /\ upload.link = c /\ upload.key = key
    \/ \E r \in late : r.link = c /\ r.key = key

\* A batch is sent to one community, and its receipt is a copy of that one.
BatchInv ==
    /\ \A c, d \in Links, key \in Batches : Sends(c, key) /\ Sends(d, key) => c = d
    /\ \A c \in Links, key \in Batches :
         Sends(c, key) /\ receipts[key] # NoCopy => Shared(versions, c, receipts[key])
    /\ \A r \in late : r.text # NoText

UploadInv ==
    /\ upload.pc # "idle" => upload.link \in Links
    /\ upload.pc \in {"listed", "scanned"} => Shared(versions, upload.link, upload.listed)
    /\ upload.pc \in {"sent", "answered"} => upload.key \in Batches /\ upload.text \in Texts
    /\ upload.pc = "answered" => Shared(versions, upload.link, upload.answer)

QueryInv ==
    \A c \in Links : /\ Shared(versions, c, index.bases[c])
                     /\ Shared(versions, c, query.obs[c])
                     /\ Shared(versions, c, query.bases[c])

\* A rebuild knows what it has read.
BuildInv ==
    /\ build.manifest <= file.stamp
    /\ index.manifest <= file.stamp
    /\ build.pc = "swapping" /\ build.manifest = file.stamp => build.copy = file.text

IInv == TypeOK /\ KeysUsed /\ BatchOnce /\ BatchInv /\ UploadInv /\ QueryInv /\ BuildInv /\ ManifestHonest

-----------------------------------------------------------------------------
(* The communities. *)

LEMMA HistoryTyped ==
    ASSUME StoreTypeOK, NEW c \in Links
    PROVE  /\ versions[c] \in Seq(Version) /\ Len(versions[c]) \in Nat
           /\ \A i \in 1..Len(versions[c]) : versions[c][i] \in Version
  BY DEF StoreTypeOK

\* One more version of one community's document.
LEMMA ChangeGrows ==
    ASSUME StoreTypeOK, NEW c \in Links, NEW t \in Texts \cup {NoText},
           NEW key \in Batches \cup {NoBatch}, Change(c, t, key)
    PROVE  /\ Grows
           /\ versions' \in [Links -> Seq(Version)]
           /\ Len(versions'[c]) = Len(versions[c]) + 1
           /\ versions'[c][Len(versions'[c])] = [text |-> t, key |-> key]
           /\ \A d \in Links \ {c} : versions'[d] = versions[d]
  <1> DEFINE v == [text |-> t, key |-> key]
  <1>1. v \in Version
    BY DEF Version
  <1>2. versions'[c] = Append(versions[c], v) /\ \A d \in Links \ {c} : versions'[d] = versions[d]
    BY DEF Change, StoreTypeOK
  <1>3. versions' = [d \in Links |-> versions'[d]]
    BY DEF Change, StoreTypeOK
  <1> HIDE DEF v
  <1>4. versions[c] \in Seq(Version) /\ Len(versions[c]) \in Nat
    BY HistoryTyped
  <1>5. /\ Append(versions[c], v) \in Seq(Version)
        /\ Len(Append(versions[c], v)) = Len(versions[c]) + 1
        /\ Append(versions[c], v)[Len(versions[c]) + 1] = v
        /\ \A s \in 1..Len(versions[c]) : Append(versions[c], v)[s] = versions[c][s]
    BY <1>1, <1>4, AppendProperties
  <1>6. versions' \in [Links -> Seq(Version)]
    <2>1. \A d \in Links : versions'[d] \in Seq(Version)
      BY <1>2, <1>5, HistoryTyped
    <2>2. QED
      BY <1>3, <2>1
  <1>7. Grows
    <2>1. ASSUME NEW d \in Links
          PROVE  /\ Len(versions[d]) \in Nat /\ Len(versions'[d]) \in Nat
                 /\ Len(versions[d]) <= Len(versions'[d])
                 /\ \A s \in 1..Len(versions[d]) : versions'[d][s] = versions[d][s]
      <3>1. CASE d = c
        BY <1>2, <1>4, <1>5, <3>1
      <3>2. CASE d # c
        BY <1>2, <3>2, HistoryTyped
      <3>3. QED
        BY <3>1, <3>2
    <2>2. QED
      BY <2>1 DEF Grows
  <1>8. QED
    BY <1>2, <1>5, <1>6, <1>7 DEF v

LEMMA SameGrows ==
    ASSUME StoreTypeOK, versions' = versions
    PROVE  Grows
  BY HistoryTyped DEF Grows

\* What used a key stays used, and an unused key may change something once.
LEMMA ChangeKeeps ==
    ASSUME StoreTypeOK, KeysUsed, BatchOnce, NoBatch \notin Batches,
           NEW c \in Links, NEW t \in Texts \cup {NoText}, NEW key \in Batches \cup {NoBatch},
           Change(c, t, key), expired' = expired,
           \A k \in Batches : receipts[k] # NoCopy => receipts'[k] = receipts[k],
           key \in Batches => key \notin expired /\ receipts[key] = NoCopy /\ receipts'[key] # NoCopy
    PROVE  KeysUsed' /\ BatchOnce'
  <1>1. /\ Grows /\ Len(versions'[c]) = Len(versions[c]) + 1
        /\ versions'[c][Len(versions'[c])] = [text |-> t, key |-> key]
        /\ \A d \in Links \ {c} : versions'[d] = versions[d]
    BY ChangeGrows
  <1>2. \A d \in Links : \A i \in 1..Len(versions[d]) : versions[d][i].key \in Batches \cup {NoBatch}
    BY HistoryTyped DEF Version
  <1>3. versions'[c][Len(versions'[c])].key = key /\ Len(versions[c]) \in Nat
    BY <1>1 DEF Grows
  <1>4. ASSUME NEW i \in 1..Len(versions'[c])
        PROVE  \/ i \in 1..Len(versions[c]) /\ versions'[c][i] = versions[c][i]
               \/ i = Len(versions'[c]) /\ versions'[c][i].key = key
    BY <1>1, <1>3 DEF Grows
  <1>5. KeysUsed'
    <2>1. SUFFICES ASSUME NEW d \in Links, NEW i \in 1..Len(versions'[d]), versions'[d][i].key # NoBatch
                   PROVE  versions'[d][i].key \in expired' \/ receipts'[versions'[d][i].key] # NoCopy
      BY DEF KeysUsed
    <2>2. CASE i \in 1..Len(versions[d]) /\ versions'[d][i] = versions[d][i]
      BY <1>2, <2>1, <2>2 DEF KeysUsed
    <2>3. CASE d = c /\ versions'[d][i].key = key
      BY <2>1, <2>3
    <2>4. QED
      BY <1>1, <1>4, <2>2, <2>3
  <1>6. BatchOnce'
    <2>1. SUFFICES ASSUME NEW d \in Links, NEW i \in 1..Len(versions'[d]), NEW j \in 1..Len(versions'[d]),
                          i < j, versions'[d][i].key # NoBatch
                   PROVE  versions'[d][i].key # versions'[d][j].key
      BY DEF BatchOnce
    <2>2. CASE d # c
      BY <1>1, <2>1, <2>2 DEF BatchOnce
    <2>3. CASE d = c
      <3>1. i \in 1..Len(versions[c]) /\ versions'[c][i] = versions[c][i]
        BY <1>1, <1>3, <1>4, <2>1, <2>3
      <3>2. CASE j \in 1..Len(versions[c]) /\ versions'[c][j] = versions[c][j]
        BY <2>1, <2>3, <3>1, <3>2 DEF BatchOnce
      <3>3. CASE versions'[c][j].key = key
        <4>1. versions[c][i].key \in Batches
          BY <1>2, <2>1, <2>3, <3>1
        <4>2. versions[c][i].key \in expired \/ receipts[versions[c][i].key] # NoCopy
          BY <2>1, <2>3, <3>1 DEF KeysUsed
        <4>3. QED
          BY <2>3, <3>1, <3>3, <4>1, <4>2
      <3>4. QED
        BY <1>4, <2>3, <3>2, <3>3
    <2>4. QED
      BY <2>2, <2>3
  <1>7. QED
    BY <1>5, <1>6

\* What a step of a community may do: histories grow, receipts are kept until
\* their key is too old, and a new receipt is a copy of its community.
StoreKept ==
    /\ StoreTypeOK' /\ Grows
    /\ KeysUsed' /\ BatchOnce'
    /\ \A key \in Batches : receipts'[key] # NoCopy /\ receipts'[key] # receipts[key]
          => receipts[key] = NoCopy

LEMMA CurrentShared ==
    ASSUME StoreTypeOK, NEW c \in Links
    PROVE  Current(c) \in Copy /\ Shared(versions, c, Current(c))
  <1> DEFINE n == Len(versions[c])
  <1>1. n \in Nat /\ \A i \in 1..n : versions[c][i] \in Version
    BY HistoryTyped
  <1>2. CASE n = 0 \/ versions[c][n].text = NoText
    BY <1>2, NoCopyTyped, NoCopyShared DEF Current
  <1>3. CASE n # 0 /\ versions[c][n].text # NoText
    <2>1. Current(c) = [text |-> versions[c][n].text, seq |-> n]
      BY <1>3 DEF Current, CopyAt
    <2>2. n \in 1..n /\ versions[c][n].text \in Texts
      BY <1>1, <1>3 DEF Version
    <2>3. Current(c) \in Copy
      BY <1>1, <2>1, <2>2 DEF Copy
    <2>4. Current(c).text = versions[c][n].text /\ Current(c).seq = n
      BY <2>1
    <2>5. Shared(versions, c, Current(c))
      BY <1>3, <2>2, <2>4 DEF Shared
    <2>6. QED
      BY <2>3, <2>5
  <1>4. QED
    BY <1>2, <1>3

\* A put, by whoever sends it.
LEMMA PutKeeps ==
    ASSUME StoreTypeOK, KeysUsed, BatchOnce,
           NEW c \in Links, NEW key \in Batches, NEW t \in Texts, PutKnowledge(c, key, t)
    PROVE  /\ StoreKept /\ expired' = expired
           /\ \A k \in Batches \ {key} : receipts'[k] = receipts[k]
           /\ receipts'[key] # receipts[key] =>
                 receipts'[key].text # NoText /\ Shared(versions', c, receipts'[key])
  <1>1. CASE UNCHANGED storeVars
    BY <1>1, SameGrows DEF storeVars, StoreKept, StoreTypeOK, KeysUsed, BatchOnce
  <1>2. CASE /\ key \notin expired /\ ~Answered(key)
             /\ \/ Current(c).text = t /\ UNCHANGED versions
                \/ Change(c, t, key)
             /\ receipts' = [receipts EXCEPT ![key] = [text |-> t, seq |-> Len(versions'[c])]]
             /\ UNCHANGED expired
    <2> DEFINE copy == [text |-> t, seq |-> Len(versions'[c])]
    <2>1. receipts'[key] = copy /\ \A k \in Batches \ {key} : receipts'[k] = receipts[k]
      BY <1>2 DEF StoreTypeOK
    <2>2. copy.text = t /\ t # NoText /\ copy # NoCopy
      BY CopyBasesAssumption DEF NoCopy
    <2>3. receipts[key] = NoCopy
      BY <1>2 DEF Answered
    <2>4. /\ versions' \in [Links -> Seq(Version)] /\ Grows
          /\ Shared(versions', c, copy) /\ Len(versions'[c]) \in Nat
          /\ KeysUsed' /\ BatchOnce'
      <3>1. CASE Current(c).text = t /\ UNCHANGED versions
        <4>1. Current(c) = CopyAt(c, Len(versions[c])) /\ Len(versions[c]) # 0
          BY <2>2, <3>1, NoCopyTyped DEF Current
        <4>2. versions[c][Len(versions[c])].text = t
          BY <3>1, <4>1 DEF CopyAt
        <4>3. Len(versions[c]) \in Nat /\ Len(versions[c]) \in 1..Len(versions[c])
          BY <4>1, HistoryTyped
        <4>4. Shared(versions', c, copy)
          BY <2>2, <3>1, <4>2, <4>3 DEF Shared
        <4>5. KeysUsed' /\ BatchOnce'
          <5>1. \A d \in Links : \A i \in 1..Len(versions[d]) : versions[d][i].key \in Batches \cup {NoBatch}
            BY HistoryTyped DEF Version
          <5>2. \A k \in Batches : receipts[k] # NoCopy => receipts'[k] # NoCopy
            BY <2>1, <2>2
          <5>3. versions' = versions /\ expired' = expired
            BY <1>2, <3>1
          <5> HIDE DEF copy
          <5>4. KeysUsed'
            BY <5>1, <5>2, <5>3 DEF KeysUsed
          <5>5. BatchOnce'
            BY <5>3 DEF BatchOnce
          <5>6. QED
            BY <5>4, <5>5
        <4>6. QED
          BY <3>1, <4>3, <4>4, <4>5, SameGrows DEF StoreTypeOK
      <3>2. CASE Change(c, t, key)
        <4>1. /\ Grows /\ versions' \in [Links -> Seq(Version)]
              /\ Len(versions'[c]) = Len(versions[c]) + 1
              /\ versions'[c][Len(versions'[c])] = [text |-> t, key |-> key]
          BY <3>2, ChangeGrows
        <4>2. Len(versions'[c]) \in Nat /\ Len(versions'[c]) \in 1..Len(versions'[c])
          BY <4>1 DEF Grows
        <4>3. Shared(versions', c, copy)
          BY <2>2, <4>1, <4>2 DEF Shared
        <4>4. KeysUsed' /\ BatchOnce'
          BY <1>2, <2>1, <2>2, <2>3, <3>2, ChangeKeeps, KnowledgeStoreAssumption
        <4>5. QED
          BY <4>1, <4>2, <4>3, <4>4
      <3>3. QED
        BY <1>2, <3>1, <3>2
    <2>5. copy \in Copy
      BY <2>4 DEF Copy
    <2>6. StoreTypeOK'
      BY <1>2, <2>4, <2>5 DEF StoreTypeOK
    <2> HIDE DEF copy
    <2>7. QED
      BY <1>2, <2>1, <2>2, <2>3, <2>4, <2>6 DEF StoreKept
  <1>3. QED
    BY <1>1, <1>2 DEF PutKnowledge

LEMMA StoreNextKeeps ==
    ASSUME StoreTypeOK, KeysUsed, BatchOnce, StoreNext \/ \E key \in Batches : Age(key)
    PROVE  StoreKept /\ \A key \in Batches : receipts'[key] \in {receipts[key], NoCopy}
  <1>1. ASSUME NEW c \in Links, NEW t \in Texts \cup {NoText}, Change(c, t, NoBatch),
               UNCHANGED <<receipts, expired>>
        PROVE  StoreKept /\ \A key \in Batches : receipts'[key] \in {receipts[key], NoCopy}
    <2>1. Grows /\ versions' \in [Links -> Seq(Version)]
      BY <1>1, ChangeGrows
    <2>2. KeysUsed' /\ BatchOnce'
      BY <1>1, ChangeKeeps, KnowledgeStoreAssumption
    <2>3. QED
      BY <1>1, <2>1, <2>2 DEF StoreKept, StoreTypeOK
  <1>2. \A c \in Links : \A i \in 1..Len(versions[c]) : versions[c][i].key \in Batches \cup {NoBatch}
    BY HistoryTyped DEF Version
  <1>3. ASSUME PruneReceipts
        PROVE  StoreKept /\ \A key \in Batches : receipts'[key] \in {receipts[key], NoCopy}
    <2>1. \A key \in Batches : receipts'[key] = IF key \in expired /\ receipts[key] # NoCopy
                                                 THEN NoCopy ELSE receipts[key]
      BY <1>3 DEF PruneReceipts, Prunable
    <2>2. receipts' \in [Batches -> Copy]
      BY <1>3, NoCopyTyped DEF PruneReceipts, StoreTypeOK
    <2>3. KeysUsed' /\ BatchOnce'
      BY <1>2, <1>3, <2>1 DEF PruneReceipts, KeysUsed, BatchOnce
    <2>4. QED
      BY <1>3, <2>1, <2>2, <2>3, SameGrows DEF PruneReceipts, StoreKept, StoreTypeOK
  <1>4. ASSUME NEW key \in Batches, Age(key)
        PROVE  StoreKept /\ \A k \in Batches : receipts'[k] \in {receipts[k], NoCopy}
    BY <1>4, SameGrows DEF Age, StoreKept, StoreTypeOK, KeysUsed, BatchOnce
  <1>5. QED
    BY <1>1, <1>3, <1>4 DEF StoreNext, OtherUpload, DeleteKnowledge

-----------------------------------------------------------------------------
(* The project. *)

Files == [text : Texts \cup {NoText}, stamp : 0..MaxEdits]
Indexes == [copy : Texts \cup {NoText}, manifest : NoManifest..MaxEdits, bases : [Links -> Copy]]
Builds == [pc : {"idle", "loading", "swapping"}, copy : Texts \cup {NoText}, manifest : 0..MaxEdits]
UploadStates == [pc : {"idle", "listed", "scanned", "sent", "answered"},
                 link : Links \cup {NoLink}, listed : Copy,
                 text : Texts \cup {NoText}, key : Batches \cup {NoBatch}, answer : Copy]
Sent == [link : Links, key : Batches, text : Texts]
QueryStates == [pc : {"idle", "looked", "settling"}, local : Texts \cup {NoText},
                obs : [Links -> Copy], bases : [Links -> Copy], links : SUBSET Links]

LockInv == /\ lock \in {"free", "build", "upload"}
           /\ lock = "build" <=> build.pc # "idle"
           /\ lock = "upload" <=> upload.pc \notin {"idle", "listed"}

ProjectType == /\ file \in Files /\ index \in Indexes /\ build \in Builds
               /\ upload \in UploadStates /\ late \in SUBSET Sent /\ query \in QueryStates

LEMMA TypeParts == TypeOK <=> StoreTypeOK /\ ProjectType /\ LockInv
  BY DEF TypeOK, LocalTypeOK, ProjectType, LockInv, Files, Indexes, Builds, UploadStates, Sent, QueryStates

LEMMA IdleTyped ==
    /\ NoUpload \in UploadStates /\ NoUpload.pc = "idle"
    /\ NoQuery \in QueryStates /\ NoQuery.pc = "idle"
    /\ \A c \in Links : NoQuery.obs[c] = NoCopy /\ NoQuery.bases[c] = NoCopy
    /\ NoBuild.pc = "idle" /\ NoBuild.manifest = 0
    /\ NoBuild \in Builds
  <1>1. NoBases \in [Links -> Copy] /\ \A c \in Links : NoBases[c] = NoCopy
    BY NoCopyTyped DEF NoBases
  <1>2. NoUpload \in UploadStates /\ NoUpload.pc = "idle"
    BY NoCopyTyped DEF NoUpload, UploadStates
  <1>3. NoQuery \in QueryStates /\ NoQuery.pc = "idle"
    BY <1>1 DEF NoQuery, QueryStates
  <1>4. \A c \in Links : NoQuery.obs[c] = NoCopy /\ NoQuery.bases[c] = NoCopy
    BY <1>1 DEF NoQuery
  <1>5. NoBuild \in Builds /\ NoBuild.pc = "idle" /\ NoBuild.manifest = 0
    BY LocalIndexAssumption DEF NoBuild, Builds
  <1>6. QED
    BY <1>2, <1>3, <1>4, <1>5

\* Recording a base touches nothing else of the index, and never takes it back.
LEMMA StoreBase ==
    ASSUME index \in Indexes, NEW c \in Links, NEW copy \in Copy, Store(c, copy),
           Shared(versions, c, index.bases[c])
    PROVE  /\ index' \in Indexes
           /\ index'.manifest = index.manifest /\ index'.copy = index.copy
           /\ index'.bases[c] \in {index.bases[c], copy}
           /\ \A d \in Links \ {c} : index'.bases[d] = index.bases[d]
           /\ index'.bases[c].seq >= index.bases[c].seq
  <1> DEFINE bases == StoreCopyBases(index.bases, c, copy)
  <1>1. index.bases \in [Links -> Copy] /\ index.bases[c].seq \in Nat /\ copy.seq \in Nat
    BY DEF Indexes, Copy
  <1>2. /\ bases \in [Links -> Copy] /\ bases[c] \in {index.bases[c], copy}
        /\ \A d \in Links \ {c} : bases[d] = index.bases[d]
    BY <1>1 DEF StoreCopyBases
  <1>3. bases[c].seq >= index.bases[c].seq
    <2>1. index.bases[c].text = NoText => index.bases[c].seq = 0
      BY DEF Shared
    <2>2. CASE index.bases[c].text # NoText /\ index.bases[c].seq >= copy.seq
      BY <1>1, <2>2 DEF StoreCopyBases
    <2>3. CASE ~(index.bases[c].text # NoText /\ index.bases[c].seq >= copy.seq)
      <3>1. bases[c] = copy
        BY <1>1, <2>3 DEF StoreCopyBases
      <3>2. copy.seq >= index.bases[c].seq
        BY <1>1, <2>1, <2>3
      <3>3. QED
        BY <3>1, <3>2
    <2>4. QED
      BY <2>2, <2>3
  <1>4. index' = [index EXCEPT !.bases = bases]
    BY DEF Store
  <1> HIDE DEF bases
  <1>5. index' \in Indexes /\ index'.bases = bases
    BY <1>2, <1>4 DEF Indexes
  <1>6. index'.manifest = index.manifest /\ index'.copy = index.copy
    BY <1>4 DEF Indexes
  <1>7. QED
    BY <1>2, <1>3, <1>5, <1>6

\* What the local part of the invariant asks of a step.
ProjectKept == ProjectType' /\ LockInv' /\ BuildInv' /\ ManifestHonest'

\* Rebuilds and edits.
LEMMA BuildKeeps ==
    ASSUME IInv, LocalNext, UNCHANGED <<storeVars, upload, late, query>>
    PROVE  ProjectKept /\ index'.bases = index.bases
  <1>1. /\ ProjectType /\ LockInv /\ BuildInv /\ ManifestHonest
        /\ file \in Files /\ index \in Indexes /\ build \in Builds
    BY TypeParts DEF IInv, ProjectType
  <1>2. file.stamp \in 0..MaxEdits /\ index.manifest \in NoManifest..MaxEdits /\ build.manifest \in 0..MaxEdits
    BY <1>1 DEF Files, Indexes, Builds
  <1>3. ASSUME NEW t \in Texts \cup {NoText}, Edit(t)
        PROVE  ProjectKept /\ index'.bases = index.bases
    <2>1. file' = [text |-> t, stamp |-> file.stamp + 1] /\ file'.stamp = file.stamp + 1
      BY <1>3 DEF Edit
    <2>2. file' \in Files /\ UNCHANGED <<index, lock, build>>
      BY <1>2, <1>3, <2>1, LocalIndexAssumption DEF Edit, Files
    <2>3. index.manifest # file'.stamp /\ build.manifest # file'.stamp
      BY <1>1, <1>2, <2>1, LocalIndexAssumption DEF BuildInv, NoManifest
    <2>4. index.manifest <= file'.stamp /\ build.manifest <= file'.stamp
      BY <1>1, <1>2, <2>1, LocalIndexAssumption DEF BuildInv, NoManifest
    <2>5. QED
      BY <1>1, <2>2, <2>3, <2>4 DEF ProjectKept, ProjectType, LockInv, BuildInv, ManifestHonest
  <1>4. ASSUME StartBuild PROVE ProjectKept /\ index'.bases = index.bases
    <2> DEFINE b == [NoBuild EXCEPT !.pc = "loading", !.manifest = file.stamp]
    <2>1. b \in Builds
      BY <1>2, IdleTyped DEF Builds
    <2>2. b.pc = "loading" /\ b.manifest = file.stamp
      BY DEF NoBuild
    <2>3. build' = b /\ lock' = "build" /\ lock = "free" /\ UNCHANGED <<file, index>>
      BY <1>4 DEF StartBuild
    <2> HIDE DEF b
    <2>4. LockInv'
      BY <1>1, <2>2, <2>3 DEF LockInv
    <2>5. BuildInv'
      BY <1>1, <1>2, <2>2, <2>3 DEF BuildInv
    <2>6. QED
      BY <1>1, <2>1, <2>3, <2>4, <2>5 DEF ProjectKept, ProjectType, ManifestHonest
  <1>5. ASSUME Load PROVE ProjectKept /\ index'.bases = index.bases
    <2> DEFINE b == [build EXCEPT !.pc = "swapping", !.copy = file.text]
    <2>1. b \in Builds
      BY <1>1 DEF Builds, Files
    <2>2. b.pc = "swapping" /\ b.manifest = build.manifest /\ b.copy = file.text
      BY <1>1 DEF Builds
    <2>3. build' = b /\ build.pc = "loading" /\ UNCHANGED <<file, index, lock>>
      BY <1>5 DEF Load
    <2> HIDE DEF b
    <2>4. LockInv'
      BY <1>1, <2>2, <2>3 DEF LockInv
    <2>5. BuildInv'
      BY <1>1, <2>2, <2>3 DEF BuildInv
    <2>6. QED
      BY <1>1, <2>1, <2>3, <2>4, <2>5 DEF ProjectKept, ProjectType, ManifestHonest
  <1>6. ASSUME StopBuild PROVE ProjectKept /\ index'.bases = index.bases
    <2>1. build' = NoBuild /\ lock' = "free" /\ lock = "build" /\ UNCHANGED <<file, index>>
      BY <1>1, <1>6 DEF StopBuild, LockInv
    <2>2. LockInv'
      BY <1>1, <2>1, IdleTyped DEF LockInv
    <2>3. BuildInv'
      BY <1>1, <1>2, <2>1, IdleTyped DEF BuildInv
    <2>4. QED
      BY <1>1, <2>1, <2>2, <2>3, IdleTyped DEF ProjectKept, ProjectType, ManifestHonest
  <1>7. ASSUME Swap PROVE ProjectKept /\ index'.bases = index.bases
    <2>1. /\ index' = [copy |-> build.copy, manifest |-> build.manifest, bases |-> index.bases]
          /\ build' = NoBuild /\ lock' = "free" /\ lock = "build" /\ build.pc = "swapping"
          /\ UNCHANGED file
      BY <1>1, <1>7 DEF Swap, LockInv, Listed, Kept
    <2>2. /\ index'.copy = build.copy /\ index'.manifest = build.manifest /\ index'.bases = index.bases
          /\ index' \in Indexes
      BY <1>1, <2>1, LocalIndexAssumption DEF Builds, Indexes, NoManifest
    <2>3. LockInv'
      BY <1>1, <2>1, IdleTyped DEF LockInv
    <2>4. BuildInv' /\ ManifestHonest'
      BY <1>1, <1>2, <2>1, <2>2, IdleTyped DEF BuildInv, ManifestHonest
    <2>5. QED
      BY <1>1, <2>1, <2>2, <2>3, <2>4, IdleTyped DEF ProjectKept, ProjectType
  <1>8. QED
    BY <1>3, <1>4, <1>5, <1>6, <1>7 DEF LocalNext, EnsureFresh

-----------------------------------------------------------------------------
(* What holds of a copy goes on to hold. *)

LEMMA Typed ==
    ASSUME IInv
    PROVE  /\ StoreTypeOK /\ ProjectType /\ LockInv
           /\ KeysUsed /\ BatchOnce /\ BatchInv /\ UploadInv /\ QueryInv /\ BuildInv /\ ManifestHonest
           /\ file \in Files /\ index \in Indexes /\ build \in Builds
           /\ upload \in UploadStates /\ late \in SUBSET Sent /\ query \in QueryStates
           /\ index.bases \in [Links -> Copy] /\ query.obs \in [Links -> Copy]
           /\ query.bases \in [Links -> Copy] /\ receipts \in [Batches -> Copy]
           /\ upload.listed \in Copy /\ upload.answer \in Copy
           /\ \A copy \in Copy : copy.seq \in Nat
  <1>1. StoreTypeOK /\ ProjectType /\ LockInv
    BY TypeParts DEF IInv
  <1>2. QED
    BY <1>1 DEF IInv, ProjectType, StoreTypeOK, Indexes, UploadStates, QueryStates, Copy

LEMMA SharedNow ==
    ASSUME IInv, Grows
    PROVE  /\ \A c \in Links : /\ Shared(versions', c, index.bases[c])
                               /\ Shared(versions', c, query.obs[c])
                               /\ Shared(versions', c, query.bases[c])
           /\ upload.pc \in {"listed", "scanned"} => Shared(versions', upload.link, upload.listed)
           /\ upload.pc = "answered" => Shared(versions', upload.link, upload.answer)
           /\ \A c \in Links, key \in Batches :
                Sends(c, key) /\ receipts[key] # NoCopy => Shared(versions', c, receipts[key])
  <1>1. \A c \in Links : /\ Shared(versions', c, index.bases[c])
                         /\ Shared(versions', c, query.obs[c])
                         /\ Shared(versions', c, query.bases[c])
    <2>1. ASSUME NEW c \in Links
          PROVE  /\ Shared(versions, c, index.bases[c]) /\ Shared(versions, c, query.obs[c])
                 /\ Shared(versions, c, query.bases[c])
                 /\ index.bases[c].seq \in Nat /\ query.obs[c].seq \in Nat /\ query.bases[c].seq \in Nat
      BY Typed DEF QueryInv
    <2>2. QED
      BY <2>1, SharedLasts
  <1>2. ASSUME upload.pc \in {"listed", "scanned"} PROVE Shared(versions', upload.link, upload.listed)
    <2>1. upload.link \in Links /\ Shared(versions, upload.link, upload.listed) /\ upload.listed.seq \in Nat
      BY <1>2, Typed DEF UploadInv
    <2>2. QED
      BY <2>1, SharedLasts
  <1>3. ASSUME upload.pc = "answered" PROVE Shared(versions', upload.link, upload.answer)
    <2>1. upload.link \in Links /\ Shared(versions, upload.link, upload.answer) /\ upload.answer.seq \in Nat
      BY <1>3, Typed DEF UploadInv
    <2>2. QED
      BY <2>1, SharedLasts
  <1>4. ASSUME NEW c \in Links, NEW key \in Batches, Sends(c, key), receipts[key] # NoCopy
        PROVE  Shared(versions', c, receipts[key])
    <2>1. Shared(versions, c, receipts[key]) /\ receipts[key].seq \in Nat
      BY <1>4, Typed DEF BatchInv
    <2>2. QED
      BY <2>1, SharedLasts
  <1>5. QED
    BY <1>1, <1>2, <1>3, <1>4

\* Nobody new sends a batch, and no receipt is new.
LEMMA BatchLasts ==
    ASSUME IInv, Grows,
           \A c \in Links, key \in Batches : Sends(c, key)' => Sends(c, key),
           \A key \in Batches : receipts'[key] \in {receipts[key], NoCopy},
           \A r \in late' : r.text # NoText
    PROVE  BatchInv'
  <1>1. \A c, d \in Links, key \in Batches : Sends(c, key)' /\ Sends(d, key)' => c = d
    BY Typed DEF BatchInv
  <1>2. ASSUME NEW c \in Links, NEW key \in Batches, Sends(c, key)', receipts'[key] # NoCopy
        PROVE  Shared(versions', c, receipts'[key])
    <2>1. Sends(c, key) /\ receipts'[key] = receipts[key]
      BY <1>2
    <2>2. QED
      BY <1>2, <2>1, SharedNow
  <1>3. QED
    BY <1>1, <1>2 DEF BatchInv

\* A step that leaves the project's own part alone.
LEMMA LocalSame ==
    ASSUME IInv, UNCHANGED indexVars, upload' \in UploadStates, late' \in SUBSET Sent, query' \in QueryStates,
           lock = "upload" <=> upload'.pc \notin {"idle", "listed"}
    PROVE  ProjectKept
  <1>1. LockInv'
    BY Typed DEF LockInv, indexVars
  <1>2. ProjectType'
    BY Typed DEF ProjectType, indexVars
  <1>3. BuildInv' /\ ManifestHonest'
    BY Typed DEF BuildInv, ManifestHonest, indexVars
  <1>4. QED
    BY <1>1, <1>2, <1>3 DEF ProjectKept

LEMMA QuerySame ==
    ASSUME IInv, Grows, query' = query, index'.bases = index.bases
    PROVE  QueryInv'
  BY SharedNow DEF QueryInv

\* What every action has to show.
StepKeeps == StoreKept /\ ProjectKept /\ BatchInv' /\ UploadInv' /\ QueryInv'

LEMMA StoreSame ==
    ASSUME IInv, UNCHANGED storeVars
    PROVE  StoreKept /\ Grows /\ \A key \in Batches : receipts'[key] \in {receipts[key], NoCopy}
  BY Typed, SameGrows DEF storeVars, StoreKept, StoreTypeOK, KeysUsed, BatchOnce

-----------------------------------------------------------------------------
(* The actions of an upload. *)

LEMMA ListInventoryKeeps ==
    ASSUME IInv, NEW c \in Links, ListInventory(c)
    PROVE  StepKeeps
  <1> DEFINE u == [NoUpload EXCEPT !.pc = "listed", !.link = c, !.listed = Current(c)]
  <1>1. Current(c) \in Copy /\ Shared(versions, c, Current(c))
    BY Typed, CurrentShared
  <1>2. u \in UploadStates
    BY <1>1, IdleTyped DEF UploadStates
  <1>3. u.pc = "listed" /\ u.link = c /\ u.listed = Current(c)
    BY DEF NoUpload
  <1>4. upload' = u /\ upload.pc = "idle" /\ UNCHANGED <<storeVars, indexVars, late, query>>
    BY DEF ListInventory
  <1> HIDE DEF u
  <1>5. StoreKept /\ Grows /\ \A key \in Batches : receipts'[key] \in {receipts[key], NoCopy}
    BY <1>4, StoreSame
  <1>6. ProjectKept
    BY <1>2, <1>3, <1>4, LocalSame, Typed DEF LockInv
  <1>7. UploadInv'
    BY <1>1, <1>3, <1>4 DEF UploadInv, storeVars
  <1>8. BatchInv'
    BY <1>3, <1>4, <1>5, BatchLasts, Typed DEF Sends, BatchInv
  <1>9. QueryInv'
    BY <1>4, <1>5, QuerySame DEF indexVars
  <1>10. QED
    BY <1>5, <1>6, <1>7, <1>8, <1>9 DEF StepKeeps

LEMMA LockAndScanKeeps ==
    ASSUME IInv, LockAndScan
    PROVE  StepKeeps
  <1> DEFINE u == [upload EXCEPT !.pc = "scanned", !.text = file.text]
  <1>1. u \in UploadStates /\ u.pc = "scanned" /\ u.link = upload.link /\ u.listed = upload.listed
    BY Typed DEF UploadStates, Files
  <1>2. /\ upload.pc = "listed" /\ UNCHANGED <<storeVars, file, index, build, late, query>>
        /\ \/ lock = "free" /\ lock' = "upload" /\ upload' = u
           \/ lock # "free" /\ upload' = NoUpload /\ lock' = lock
    BY DEF LockAndScan
  <1> HIDE DEF u
  <1>3. StoreKept /\ Grows /\ \A key \in Batches : receipts'[key] \in {receipts[key], NoCopy}
    BY <1>2, StoreSame
  <1>4. upload' \in UploadStates /\ upload'.pc \in {"idle", "scanned"}
    BY <1>1, <1>2, IdleTyped
  <1>5. LockInv'
    BY <1>1, <1>2, IdleTyped, Typed DEF LockInv
  <1>6. ProjectType'
    BY <1>2, <1>4, Typed DEF ProjectType
  <1>7. BuildInv' /\ ManifestHonest'
    BY <1>2, Typed DEF BuildInv, ManifestHonest
  <1>8. UploadInv'
    BY <1>1, <1>2, <1>3, IdleTyped, SharedNow, Typed DEF UploadInv, storeVars
  <1>9. BatchInv'
    BY <1>2, <1>3, <1>4, BatchLasts, Typed DEF Sends, BatchInv
  <1>10. QueryInv'
    BY <1>2, <1>3, QuerySame
  <1>11. QED
    BY <1>3, <1>5, <1>6, <1>7, <1>8, <1>9, <1>10 DEF StepKeeps, ProjectKept

\* The upload may record a copy of its community.
Records == index' = index \/ \E copy \in Copy : Shared(versions, upload.link, copy)
                                                /\ Store(upload.link, copy)

LEMMA RecordsFacts ==
    ASSUME IInv, upload.link \in Links, UNCHANGED storeVars, Records
    PROVE  /\ index' \in Indexes /\ index'.manifest = index.manifest /\ index'.copy = index.copy
           /\ \A c \in Links : Shared(versions', c, index'.bases[c])
  <1>1. Grows /\ versions' = versions
    BY StoreSame DEF storeVars
  <1>2. CASE index' = index
    BY <1>1, <1>2, SharedNow, Typed
  <1>3. CASE \E copy \in Copy : Shared(versions, upload.link, copy) /\ Store(upload.link, copy)
    <2>1. PICK copy \in Copy : Shared(versions, upload.link, copy) /\ Store(upload.link, copy)
      BY <1>3
    <2>2. Shared(versions, upload.link, index.bases[upload.link])
      BY Typed DEF QueryInv
    <2>3. /\ index' \in Indexes /\ index'.manifest = index.manifest /\ index'.copy = index.copy
          /\ index'.bases[upload.link] \in {index.bases[upload.link], copy}
          /\ \A d \in Links \ {upload.link} : index'.bases[d] = index.bases[d]
      BY <2>1, <2>2, StoreBase, Typed
    <2>4. QED
      BY <1>1, <2>1, <2>3, SharedNow
  <1>4. QED
    BY <1>2, <1>3 DEF Records

\* The upload has ended, and has perhaps recorded a copy of its community.
LEMMA UploadEnds ==
    ASSUME IInv, upload.pc \notin {"idle", "listed"}, upload' = NoUpload, lock' = "free",
           UNCHANGED <<storeVars, file, build, late, query>>,
           Records
    PROVE  StepKeeps
  <1>1. upload.link \in Links /\ lock = "upload" /\ build.pc = "idle"
    BY Typed DEF UploadInv, LockInv
  <1>2. StoreKept /\ Grows /\ \A key \in Batches : receipts'[key] \in {receipts[key], NoCopy}
    BY StoreSame
  <1>3. /\ index' \in Indexes /\ index'.manifest = index.manifest /\ index'.copy = index.copy
        /\ \A c \in Links : Shared(versions', c, index'.bases[c])
    BY <1>1, RecordsFacts
  <1>4. LockInv'
    BY <1>1, IdleTyped, Typed DEF LockInv
  <1>5. ProjectType'
    BY <1>3, IdleTyped, Typed DEF ProjectType
  <1>6. BuildInv' /\ ManifestHonest'
    BY <1>3, Typed DEF BuildInv, ManifestHonest
  <1>7. UploadInv'
    BY IdleTyped DEF UploadInv
  <1>8. BatchInv'
    BY <1>2, BatchLasts, IdleTyped, Typed DEF Sends, BatchInv
  <1>9. QueryInv'
    BY <1>2, <1>3, SharedNow DEF QueryInv
  <1>10. QED
    BY <1>2, <1>4, <1>5, <1>6, <1>7, <1>8, <1>9 DEF StepKeeps, ProjectKept

LEMMA AgreementsRecorded ==
    ASSUME IInv, upload.pc = "scanned", Agreements
    PROVE  Records
  <1> DEFINE copy == [upload.listed EXCEPT !.text = upload.text]
  <1>1. index' = index \/ (ListedAgrees /\ Store(upload.link, copy))
    BY DEF Agreements
  <1>2. ASSUME ListedAgrees PROVE copy \in Copy /\ Shared(versions, upload.link, copy)
    <2>1. copy = upload.listed
      BY <1>2, Typed DEF ListedAgrees, Copy
    <2>2. Shared(versions, upload.link, upload.listed)
      BY Typed DEF UploadInv
    <2>3. QED
      BY <2>1, <2>2, Typed
  <1> HIDE DEF copy
  <1>3. QED
    BY <1>1, <1>2 DEF Records

LEMMA StoreAgreementsKeeps ==
    ASSUME IInv, StoreAgreements
    PROVE  StepKeeps
  <1>1. /\ upload.pc = "scanned" /\ upload' = NoUpload /\ lock' = "free" /\ Agreements
        /\ UNCHANGED <<storeVars, file, build, late, query>>
    BY DEF StoreAgreements
  <1>2. QED
    BY <1>1, AgreementsRecorded, UploadEnds

LEMMA StoreReceiptKeeps ==
    ASSUME IInv, StoreReceipt
    PROVE  StepKeeps
  <1>1. Shared(versions, upload.link, upload.answer) /\ upload.answer \in Copy
    BY Typed DEF StoreReceipt, UploadInv
  <1>2. Records
    BY <1>1 DEF StoreReceipt, Records
  <1>3. QED
    BY <1>2, UploadEnds DEF StoreReceipt

LEMMA SendBatchKeeps ==
    ASSUME IInv, SendBatch
    PROVE  StepKeeps
  <1>1. PICK key \in FreshKeys :
          upload' = [upload EXCEPT !.pc = "sent", !.text = file.text, !.key = key, !.listed = NoCopy]
    BY DEF SendBatch
  <1>2. key \in Batches /\ receipts[key] = NoCopy /\ \A r \in late : r.key # key
    BY DEF FreshKeys
  <1>3. /\ upload.pc = "scanned" /\ file.text # NoText
        /\ Agreements /\ UNCHANGED <<storeVars, file, lock, build, late, query>>
    BY DEF SendBatch
  <1>4. /\ upload' \in UploadStates /\ upload'.pc = "sent" /\ upload'.link = upload.link
        /\ upload'.key = key /\ upload'.text = file.text
    BY <1>1, <1>2, NoCopyTyped, Typed DEF UploadStates, Files
  <1>5. file.text \in Texts /\ upload.link \in Links
    BY <1>3, Typed DEF Files, UploadInv
  <1>6. StoreKept /\ Grows /\ receipts' = receipts
    BY <1>3, StoreSame DEF storeVars
  <1>7. /\ index' \in Indexes /\ index'.manifest = index.manifest /\ index'.copy = index.copy
        /\ \A c \in Links : Shared(versions', c, index'.bases[c])
    BY <1>3, <1>5, AgreementsRecorded, RecordsFacts
  <1>8. ProjectKept
    <2>1. LockInv'
      BY <1>3, <1>4, Typed DEF LockInv
    <2>2. ProjectType'
      BY <1>3, <1>4, <1>7, Typed DEF ProjectType
    <2>3. BuildInv' /\ ManifestHonest'
      BY <1>3, <1>7, Typed DEF BuildInv, ManifestHonest
    <2>4. QED
      BY <2>1, <2>2, <2>3 DEF ProjectKept
  <1>9. UploadInv'
    BY <1>2, <1>4, <1>5 DEF UploadInv
  <1>10. BatchInv'
    <2>1. ASSUME NEW c \in Links, NEW k \in Batches, Sends(c, k)'
          PROVE  (k # key /\ Sends(c, k)) \/ (k = key /\ c = upload.link)
      BY <1>2, <1>3, <1>4, <2>1 DEF Sends
    <2>2. \A c, d \in Links, k \in Batches : Sends(c, k)' /\ Sends(d, k)' => c = d
      BY <2>1, Typed DEF BatchInv
    <2>3. ASSUME NEW c \in Links, NEW k \in Batches, Sends(c, k)', receipts'[k] # NoCopy
          PROVE  Shared(versions', c, receipts'[k])
      BY <1>2, <1>6, <2>1, <2>3, SharedNow
    <2>4. \A r \in late' : r.text # NoText
      BY <1>3, Typed DEF BatchInv
    <2>5. QED
      BY <2>2, <2>3, <2>4 DEF BatchInv
  <1>11. QueryInv'
    BY <1>3, <1>6, <1>7, SharedNow DEF QueryInv
  <1>12. QED
    BY <1>6, <1>8, <1>9, <1>10, <1>11 DEF StepKeeps

-----------------------------------------------------------------------------
(* A put arrives. *)

\* Its receipt is a copy of the one community it was sent to.
LEMMA PutBatch ==
    ASSUME IInv, NEW c \in Links, NEW key \in Batches, NEW t \in Texts,
           Sends(c, key), PutKnowledge(c, key, t)
    PROVE  /\ StoreKept /\ Grows /\ expired' = expired
           /\ \A d \in Links, k \in Batches :
                Sends(d, k) /\ receipts'[k] # NoCopy => Shared(versions', d, receipts'[k])
           /\ receipts' \in [Batches -> Copy]
  <1>1. /\ StoreKept /\ expired' = expired
        /\ \A k \in Batches \ {key} : receipts'[k] = receipts[k]
        /\ receipts'[key] # receipts[key] => Shared(versions', c, receipts'[key])
    BY PutKeeps, Typed
  <1>2. Grows /\ receipts' \in [Batches -> Copy]
    BY <1>1 DEF StoreKept, StoreTypeOK
  <1>3. ASSUME NEW d \in Links, NEW k \in Batches, Sends(d, k), receipts'[k] # NoCopy
        PROVE  Shared(versions', d, receipts'[k])
    <2>1. CASE receipts'[k] = receipts[k]
      BY <1>2, <1>3, <2>1, SharedNow
    <2>2. CASE receipts'[k] # receipts[k]
      <3>1. k = key
        BY <1>1, <2>2
      <3>2. d = c
        BY <1>3, <3>1, Typed DEF BatchInv
      <3>3. QED
        BY <1>1, <2>2, <3>1, <3>2
    <2>3. QED
      BY <2>1, <2>2
  <1>4. QED
    BY <1>1, <1>2, <1>3

LEMMA ServePutKeeps ==
    ASSUME IInv, ServePut
    PROVE  StepKeeps
  <1> DEFINE answer == PutResult(upload.key)
             u == [upload EXCEPT !.pc = "answered", !.answer = answer]
  <1>1. /\ upload.pc = "sent" /\ PutKnowledge(upload.link, upload.key, upload.text) /\ upload' = u
        /\ UNCHANGED <<indexVars, late, query>>
    BY DEF ServePut
  <1>2. upload.link \in Links /\ upload.key \in Batches /\ upload.text \in Texts
    BY <1>1, Typed DEF UploadInv
  <1>3. Sends(upload.link, upload.key)
    BY <1>1 DEF Sends
  <1>4. /\ StoreKept /\ Grows /\ receipts' \in [Batches -> Copy]
        /\ \A d \in Links, k \in Batches :
             Sends(d, k) /\ receipts'[k] # NoCopy => Shared(versions', d, receipts'[k])
    BY <1>1, <1>2, <1>3, PutBatch
  <1>5. answer \in Copy /\ Shared(versions', upload.link, answer)
    <2>1. CASE answer = NoCopy
      BY <2>1, NoCopyTyped DEF Shared
    <2>2. CASE answer # NoCopy
      BY <1>2, <1>3, <1>4, <2>2 DEF PutResult
    <2>3. QED
      BY <2>1, <2>2
  <1> HIDE DEF answer
  <1>6. /\ u \in UploadStates /\ u.pc = "answered" /\ u.link = upload.link /\ u.key = upload.key
        /\ u.text = upload.text /\ u.answer = answer
    BY <1>5, Typed DEF UploadStates
  <1> HIDE DEF u
  <1>7. ProjectKept
    BY <1>1, <1>6, LocalSame, Typed DEF LockInv
  <1>8. UploadInv'
    BY <1>1, <1>2, <1>5, <1>6 DEF UploadInv
  <1>9. BatchInv'
    <2>1. \A d \in Links, k \in Batches : Sends(d, k)' => Sends(d, k)
      BY <1>1, <1>6 DEF Sends
    <2>2. \A r \in late' : r.text # NoText
      BY <1>1, Typed DEF BatchInv
    <2>3. QED
      BY <1>4, <2>1, <2>2, Typed DEF BatchInv
  <1>10. QueryInv'
    BY <1>1, <1>4, QuerySame DEF indexVars
  <1>11. QED
    BY <1>4, <1>7, <1>8, <1>9, <1>10 DEF StepKeeps

\* What an upload has sent, when its sender stops waiting for it.
LEMMA LeftOnItsWay ==
    ASSUME IInv,
           late' = late \cup (IF upload.pc = "sent"
                              THEN {[link |-> upload.link, key |-> upload.key, text |-> upload.text]}
                              ELSE {})
    PROVE  /\ late' \in SUBSET Sent
           /\ \A r \in late' : r.text # NoText
           /\ \A r \in late' : r \in late \/ (upload.pc = "sent" /\ r.link = upload.link /\ r.key = upload.key)
  <1> DEFINE r0 == [link |-> upload.link, key |-> upload.key, text |-> upload.text]
  <1>1. CASE upload.pc # "sent"
    BY <1>1, Typed DEF BatchInv
  <1>2. CASE upload.pc = "sent"
    <2>1. upload.link \in Links /\ upload.key \in Batches /\ upload.text \in Texts
      BY <1>2, Typed DEF UploadInv
    <2>2. r0 \in Sent /\ r0.link = upload.link /\ r0.key = upload.key /\ r0.text = upload.text
      BY <2>1 DEF Sent
    <2>3. late' = late \cup {r0}
      BY <1>2
    <2> HIDE DEF r0
    <2>4. QED
      BY <1>2, <2>1, <2>2, <2>3, CopyBasesAssumption, Typed DEF BatchInv
  <1>3. QED
    BY <1>1, <1>2

LEMMA RetryKeeps ==
    ASSUME IInv, Retry
    PROVE  StepKeeps
  <1> DEFINE u == [upload EXCEPT !.pc = "sent", !.answer = NoCopy]
  <1>1. /\ upload.pc \in {"sent", "answered"} /\ upload' = u
        /\ UNCHANGED <<storeVars, indexVars, query>>
    BY DEF Retry
  <1>2. /\ late' \in SUBSET Sent /\ \A r \in late' : r.text # NoText
        /\ \A r \in late' : r \in late \/ (upload.pc = "sent" /\ r.link = upload.link /\ r.key = upload.key)
    BY LeftOnItsWay DEF Retry
  <1>3. u \in UploadStates
    BY NoCopyTyped, Typed DEF UploadStates
  <1>4. u.pc = "sent" /\ u.link = upload.link /\ u.key = upload.key /\ u.text = upload.text
    BY Typed DEF UploadStates
  <1> HIDE DEF u
  <1>5. StoreKept /\ Grows /\ \A key \in Batches : receipts'[key] \in {receipts[key], NoCopy}
    BY <1>1, StoreSame
  <1>6. ProjectKept
    BY <1>1, <1>2, <1>3, <1>4, LocalSame, Typed DEF LockInv
  <1>7. UploadInv'
    BY <1>1, <1>4, Typed DEF UploadInv
  <1>8. BatchInv'
    BY <1>1, <1>2, <1>4, <1>5, BatchLasts DEF Sends
  <1>9. QueryInv'
    BY <1>1, <1>5, QuerySame DEF indexVars
  <1>10. QED
    BY <1>5, <1>6, <1>7, <1>8, <1>9 DEF StepKeeps

LEMMA StopUploadKeeps ==
    ASSUME IInv, StopUpload
    PROVE  StepKeeps
  <1>1. /\ upload.pc # "idle" /\ upload' = NoUpload
        /\ lock' = IF lock = "upload" THEN "free" ELSE lock
        /\ UNCHANGED <<storeVars, file, index, build, query>>
    BY DEF StopUpload, Released
  <1>2. /\ late' \in SUBSET Sent /\ \A r \in late' : r.text # NoText
        /\ \A r \in late' : r \in late \/ (upload.pc = "sent" /\ r.link = upload.link /\ r.key = upload.key)
    BY LeftOnItsWay DEF StopUpload
  <1>3. StoreKept /\ Grows /\ \A key \in Batches : receipts'[key] \in {receipts[key], NoCopy}
    BY <1>1, StoreSame
  <1>4. LockInv'
    BY <1>1, IdleTyped, Typed DEF LockInv
  <1>5. ProjectType'
    BY <1>1, <1>2, IdleTyped, Typed DEF ProjectType
  <1>6. BuildInv' /\ ManifestHonest'
    BY <1>1, Typed DEF BuildInv, ManifestHonest
  <1>7. UploadInv'
    BY <1>1, IdleTyped DEF UploadInv
  <1>8. BatchInv'
    BY <1>1, <1>2, <1>3, BatchLasts, IdleTyped DEF Sends
  <1>9. QueryInv'
    BY <1>1, <1>3, QuerySame
  <1>10. QED
    BY <1>3, <1>4, <1>5, <1>6, <1>7, <1>8, <1>9 DEF StepKeeps, ProjectKept

LEMMA UploadKeeps ==
    ASSUME IInv, Upload
    PROVE  StepKeeps
  BY ListInventoryKeeps, LockAndScanKeeps, StoreAgreementsKeeps, SendBatchKeeps, ServePutKeeps,
     RetryKeeps, StoreReceiptKeeps, StopUploadKeeps DEF Upload

\* A step of the communities while the project does nothing.
LEMMA StoreStepKeeps ==
    ASSUME IInv, StoreKept, UNCHANGED <<indexVars, upload, query>>, late' \in SUBSET late,
           \A d \in Links, k \in Batches :
              Sends(d, k) /\ receipts'[k] # NoCopy => Shared(versions', d, receipts'[k])
    PROVE  StepKeeps
  <1>1. Grows
    BY DEF StoreKept
  <1>2. ProjectKept
    BY LocalSame, Typed DEF LockInv
  <1>3. UploadInv'
    BY <1>1, SharedNow, Typed DEF UploadInv
  <1>4. BatchInv'
    <2>1. \A d \in Links, k \in Batches : Sends(d, k)' => Sends(d, k)
      BY DEF Sends
    <2>2. QED
      BY <2>1, Typed DEF BatchInv
  <1>5. QueryInv'
    BY <1>1, QuerySame DEF indexVars
  <1>6. QED
    BY <1>2, <1>3, <1>4, <1>5 DEF StepKeeps

LEMMA ServeLateKeeps ==
    ASSUME IInv, NEW r \in late, ServeLate(r)
    PROVE  StepKeeps
  <1>1. r.link \in Links /\ r.key \in Batches /\ r.text \in Texts
    BY Typed DEF Sent, BatchInv
  <1>2. late' \in SUBSET late /\ UNCHANGED <<indexVars, upload, query>>
    BY DEF ServeLate
  <1>3. CASE PutKnowledge(r.link, r.key, r.text)
    <2>1. Sends(r.link, r.key)
      BY DEF Sends
    <2>2. /\ StoreKept
          /\ \A d \in Links, k \in Batches :
               Sends(d, k) /\ receipts'[k] # NoCopy => Shared(versions', d, receipts'[k])
      BY <1>1, <1>3, <2>1, PutBatch
    <2>3. QED
      BY <1>2, <2>2, StoreStepKeeps
  <1>4. CASE UNCHANGED storeVars
    <2>1. StoreKept /\ Grows /\ receipts' = receipts
      BY <1>4, StoreSame DEF storeVars
    <2>2. QED
      BY <1>2, <2>1, SharedNow, StoreStepKeeps
  <1>5. QED
    BY <1>3, <1>4 DEF ServeLate

\* Others write, keys get old, receipts are pruned.
LEMMA CommunitiesKeep ==
    ASSUME IInv, StoreNext \/ \E key \in Batches : Age(key), UNCHANGED <<indexVars, upload, late, query>>
    PROVE  StepKeeps
  <1>1. StoreKept /\ \A key \in Batches : receipts'[key] \in {receipts[key], NoCopy}
    BY StoreNextKeeps, Typed
  <1>2. Grows
    BY <1>1 DEF StoreKept
  <1>3. \A d \in Links, k \in Batches :
           Sends(d, k) /\ receipts'[k] # NoCopy => Shared(versions', d, receipts'[k])
    BY <1>1, <1>2, SharedNow
  <1>4. QED
    BY <1>1, <1>3, StoreStepKeeps

LEMMA LocalKeeps ==
    ASSUME IInv, LocalNext, UNCHANGED <<storeVars, upload, late, query>>
    PROVE  StepKeeps
  <1>1. StoreKept /\ Grows /\ \A key \in Batches : receipts'[key] \in {receipts[key], NoCopy}
    BY StoreSame
  <1>2. ProjectKept /\ index'.bases = index.bases
    BY BuildKeeps
  <1>3. UploadInv'
    BY <1>1, SharedNow, Typed DEF UploadInv
  <1>4. BatchInv'
    BY <1>1, BatchLasts, Typed DEF Sends, BatchInv
  <1>5. QueryInv'
    BY <1>1, <1>2, QuerySame
  <1>6. QED
    BY <1>1, <1>2, <1>3, <1>4, <1>5 DEF StepKeeps

-----------------------------------------------------------------------------
(* The actions of a query. *)

LEMMA ObservableShared ==
    ASSUME StoreTypeOK, NEW c \in Links, NEW copy \in Observable(c)
    PROVE  copy \in Copy /\ Shared(versions, c, copy)
  <1>1. CASE copy = NoCopy
    BY <1>1, NoCopyTyped, NoCopyShared
  <1>2. CASE \E s \in 1..Len(versions[c]) : versions[c][s].text # NoText /\ copy = CopyAt(c, s)
    <2>1. PICK s \in 1..Len(versions[c]) : versions[c][s].text # NoText /\ copy = CopyAt(c, s)
      BY <1>2
    <2>2. s \in Nat /\ versions[c][s].text \in Texts
      BY <2>1, HistoryTyped DEF Version
    <2>3. copy = [text |-> versions[c][s].text, seq |-> s]
      BY <2>1 DEF CopyAt
    <2>4. copy \in Copy
      BY <2>2, <2>3 DEF Copy
    <2>5. copy.text = versions[c][s].text /\ copy.seq = s
      BY <2>3
    <2>6. QED
      BY <2>1, <2>4, <2>5 DEF Shared
  <1>3. QED
    BY <1>1, <1>2 DEF Observable

\* A step of the query, which may record a copy it has observed.
LEMMA QueryStepKeeps ==
    ASSUME IInv, UNCHANGED <<storeVars, file, lock, build, upload, late>>, query' \in QueryStates,
           index' = index \/ \E c \in Links : lock = "free" /\ Store(c, query.obs[c]),
           \A c \in Links : Shared(versions, c, query'.obs[c]) /\ Shared(versions, c, query'.bases[c])
    PROVE  StepKeeps
  <1>1. StoreKept /\ Grows /\ \A key \in Batches : receipts'[key] \in {receipts[key], NoCopy}
    BY StoreSame
  <1>2. /\ index' \in Indexes /\ index'.manifest = index.manifest /\ index'.copy = index.copy
        /\ \A c \in Links : Shared(versions, c, index'.bases[c])
    <2>1. CASE index' = index
      BY <2>1, Typed DEF QueryInv
    <2>2. CASE \E c \in Links : lock = "free" /\ Store(c, query.obs[c])
      <3>1. PICK c \in Links : Store(c, query.obs[c])
        BY <2>2
      <3>2. query.obs[c] \in Copy /\ Shared(versions, c, query.obs[c]) /\ Shared(versions, c, index.bases[c])
        BY Typed DEF QueryInv
      <3>3. /\ index' \in Indexes /\ index'.manifest = index.manifest /\ index'.copy = index.copy
            /\ index'.bases[c] \in {index.bases[c], query.obs[c]}
            /\ \A d \in Links \ {c} : index'.bases[d] = index.bases[d]
        BY <3>1, <3>2, StoreBase, Typed
      <3>4. QED
        BY <3>2, <3>3, Typed DEF QueryInv
    <2>3. QED
      BY <2>1, <2>2
  <1>3. ProjectType' /\ LockInv'
    BY <1>2, Typed DEF ProjectType, LockInv
  <1>4. BuildInv' /\ ManifestHonest'
    BY <1>2, Typed DEF BuildInv, ManifestHonest
  <1>5. UploadInv'
    BY <1>1, SharedNow, Typed DEF UploadInv
  <1>6. BatchInv'
    BY <1>1, BatchLasts, Typed DEF Sends, BatchInv
  <1>7. QueryInv'
    <2>1. versions' = versions
      BY DEF storeVars
    <2>2. QED
      BY <1>2, <2>1 DEF QueryInv
  <1>8. QED
    BY <1>1, <1>3, <1>4, <1>5, <1>6, <1>7 DEF StepKeeps, ProjectKept

LEMMA NoQueryKeeps ==
    ASSUME NEW c \in Links
    PROVE  Shared(versions, c, NoQuery.obs[c]) /\ Shared(versions, c, NoQuery.bases[c])
  BY IdleTyped, NoCopyShared

LEMMA LookupCopiesKeeps ==
    ASSUME IInv, LookupCopies
    PROVE  StepKeeps
  <1>1. PICK obs \in [Links -> UNION {Observable(c) : c \in Links}] :
          /\ \A c \in Links : obs[c] \in Observable(c)
          /\ query' = [NoQuery EXCEPT !.pc = "looked", !.obs = obs, !.local = index.copy, !.links = Seen(obs)]
    BY DEF LookupCopies
  <1>2. \A c \in Links : obs[c] \in Copy /\ Shared(versions, c, obs[c])
    BY <1>1, ObservableShared, Typed
  <1>3. obs \in [Links -> Copy] /\ Seen(obs) \in SUBSET Links
    BY <1>2 DEF Seen
  <1>4. query' \in QueryStates
    BY <1>1, <1>3, IdleTyped, Typed DEF QueryStates, Indexes
  <1>5. query'.obs = obs /\ query'.bases = NoQuery.bases
    BY <1>1 DEF NoQuery
  <1>6. \A c \in Links : Shared(versions, c, query'.obs[c]) /\ Shared(versions, c, query'.bases[c])
    BY <1>2, <1>5, NoQueryKeeps
  <1>7. UNCHANGED <<storeVars, file, lock, build, upload, late, index>>
    BY DEF LookupCopies, indexVars
  <1>8. QED
    BY <1>4, <1>6, <1>7, QueryStepKeeps

LEMMA BasesWithShared ==
    ASSUME IInv, NEW c \in Links
    PROVE  /\ BasesWith(c) \in [Links -> Copy]
           /\ \A d \in Links : BasesWith(c)[d] = (IF d = c THEN index.bases[c] ELSE query.bases[d])
           /\ \A d \in Links : Shared(versions, d, BasesWith(c)[d])
  <1>1. BasesWith(c) = [query.bases EXCEPT ![c] = index.bases[c]]
    BY DEF BasesWith
  <1>2. \A d \in Links : BasesWith(c)[d] = (IF d = c THEN index.bases[c] ELSE query.bases[d])
    BY <1>1, Typed
  <1>3. QED
    BY <1>1, <1>2, Typed DEF QueryInv

LEMMA ReadCopyBasesKeeps ==
    ASSUME IInv, NEW c \in Links, ReadCopyBases(c)
    PROVE  StepKeeps
  <1> DEFINE settled == Settled(query.local, query.obs, BasesWith(c))
             more == [query EXCEPT !.bases = BasesWith(c), !.links = @ \ {c}]
             last == [query EXCEPT !.pc = "settling", !.bases = NoBases, !.links = settled]
  <1>1. query' \in {NoQuery, more, last} /\ UNCHANGED <<storeVars, file, lock, build, upload, late, index>>
    BY DEF ReadCopyBases, indexVars
  <1>2. settled \in SUBSET Links
    BY DEF Settled, Agreed, Seen
  <1> HIDE DEF settled
  <1>3. more \in QueryStates /\ more.obs = query.obs /\ more.bases = BasesWith(c)
    BY BasesWithShared, Typed DEF QueryStates
  <1>4. last \in QueryStates /\ last.obs = query.obs /\ \A d \in Links : last.bases[d] = NoCopy
    <2>1. NoBases \in [Links -> Copy] /\ \A d \in Links : NoBases[d] = NoCopy
      BY NoCopyTyped DEF NoBases
    <2>2. QED
      BY <1>2, <2>1, Typed DEF QueryStates
  <1> HIDE DEF more, last
  <1>5. query' \in QueryStates
    BY <1>1, <1>3, <1>4, IdleTyped
  <1>6. ASSUME NEW d \in Links
        PROVE  Shared(versions, d, query'.obs[d]) /\ Shared(versions, d, query'.bases[d])
    <2>1. CASE query' = NoQuery
      BY <2>1, NoQueryKeeps
    <2>2. CASE query' = more
      BY <1>3, <2>2, BasesWithShared, Typed DEF QueryInv
    <2>3. CASE query' = last
      BY <1>4, <2>3, NoCopyShared, Typed DEF QueryInv
    <2>4. QED
      BY <1>1, <2>1, <2>2, <2>3
  <1>7. QED
    BY <1>1, <1>5, <1>6, QueryStepKeeps

LEMMA RememberCopiesKeeps ==
    ASSUME IInv, NEW c \in Links, RememberCopies(c)
    PROVE  StepKeeps
  <1> DEFINE more == [query EXCEPT !.links = @ \ {c}]
  <1>1. /\ query' \in {NoQuery, more} /\ UNCHANGED <<storeVars, file, lock, build, upload, late>>
        /\ index' = index \/ (lock = "free" /\ Store(c, query.obs[c]))
    BY DEF RememberCopies
  <1>2. more \in QueryStates /\ more.obs = query.obs /\ more.bases = query.bases
    BY Typed DEF QueryStates
  <1> HIDE DEF more
  <1>3. query' \in QueryStates
    BY <1>1, <1>2, IdleTyped
  <1>4. \A d \in Links : Shared(versions, d, query'.obs[d]) /\ Shared(versions, d, query'.bases[d])
    BY <1>1, <1>2, NoQueryKeeps, Typed DEF QueryInv
  <1>5. QED
    BY <1>1, <1>3, <1>4, QueryStepKeeps

LEMMA StopQueryKeeps ==
    ASSUME IInv, StopQuery
    PROVE  StepKeeps
  <1>1. query' = NoQuery /\ UNCHANGED <<storeVars, file, lock, build, upload, late, index>>
    BY DEF StopQuery, indexVars
  <1>2. QED
    BY <1>1, IdleTyped, NoQueryKeeps, QueryStepKeeps

LEMMA QueryKeeps ==
    ASSUME IInv, Query
    PROVE  StepKeeps
  BY LookupCopiesKeeps, ReadCopyBasesKeeps, RememberCopiesKeeps, StopQueryKeeps DEF Query

-----------------------------------------------------------------------------
(* The invariant holds. *)

LEMMA InitKeeps == Init => IInv
  <1> SUFFICES ASSUME Init PROVE IInv
    OBVIOUS
  <1>1. StoreTypeOK /\ \A c \in Links : Len(versions[c]) = 0
    BY NoCopyTyped, EmptySeq DEF Init, StoreInit, StoreTypeOK
  <1>2. upload = NoUpload /\ late = {} /\ query = NoQuery
    BY DEF Init
  <1>3. NoBases \in [Links -> Copy] /\ \A c \in Links : NoBases[c] = NoCopy
    BY NoCopyTyped DEF NoBases
  <1>4. /\ file \in Files /\ file.stamp = 0 /\ index \in Indexes /\ index.manifest = NoManifest
        /\ index.bases = NoBases /\ lock = "free" /\ build = NoBuild
    BY <1>3, LocalIndexAssumption DEF Init, LocalInit, Files, Indexes, NoManifest
  <1>5. ProjectType /\ LockInv
    BY <1>2, <1>4, IdleTyped DEF ProjectType, LockInv
  <1>6. BuildInv /\ ManifestHonest
    BY <1>4, IdleTyped DEF BuildInv, ManifestHonest, NoManifest
  <1>7. UploadInv
    BY <1>2, IdleTyped DEF UploadInv
  <1>8. BatchInv
    BY <1>2, IdleTyped DEF BatchInv, Sends
  <1>9. QueryInv
    BY <1>2, <1>3, <1>4, NoQueryKeeps, NoCopyShared DEF QueryInv
  <1>10. KeysUsed /\ BatchOnce
    BY <1>1 DEF KeysUsed, BatchOnce
  <1>11. QED
    BY <1>1, <1>5, <1>6, <1>7, <1>8, <1>9, <1>10, TypeParts DEF IInv

LEMMA ActionsKeep == ASSUME IInv, Next PROVE StepKeeps
  <1>1. ASSUME NEW key \in Batches, SentKeyAges(key) PROVE StepKeeps
    BY <1>1, CommunitiesKeep DEF SentKeyAges
  <1>2. QED
    BY <1>1, UploadKeeps, ServeLateKeeps, QueryKeeps, LocalKeeps, CommunitiesKeep DEF Next

LEMMA TypePartsLast == ProjectType' /\ LockInv' /\ StoreTypeOK' => TypeOK'
  BY DEF TypeOK, LocalTypeOK, ProjectType, LockInv, Files, Indexes, Builds, UploadStates, Sent, QueryStates

LEMMA NextKeeps == IInv /\ [Next]_vars => IInv'
  <1> SUFFICES ASSUME IInv, [Next]_vars PROVE IInv'
    OBVIOUS
  <1>1. CASE Next
    <2>1. StepKeeps
      BY <1>1, ActionsKeep
    <2>2. QED
      BY <2>1, TypePartsLast DEF StepKeeps, StoreKept, ProjectKept, IInv
  <1>2. CASE UNCHANGED vars
    <2>1. /\ TypeOK' /\ KeysUsed' /\ BatchOnce' /\ ManifestHonest'
      BY <1>2 DEF IInv, vars, storeVars, indexVars, TypeOK, StoreTypeOK, LocalTypeOK, KeysUsed,
                  BatchOnce, ManifestHonest
    <2>2. BatchInv' /\ UploadInv' /\ QueryInv' /\ BuildInv'
      BY <1>2 DEF IInv, vars, storeVars, indexVars, BatchInv, Sends, UploadInv, QueryInv, BuildInv, Shared
    <2>3. QED
      BY <2>1, <2>2 DEF IInv
  <1>3. QED
    BY <1>1, <1>2

LEMMA InvariantHolds == Spec => []IInv
  BY InitKeeps, NextKeeps, PTL DEF Spec

\* A query that goes on has found the project's own copy.
LocalRead == query.pc # "idle" => query.local # NoText

LEMMA LocalReadHolds == Spec => []LocalRead
  <1>1. Init => LocalRead
    BY IdleTyped DEF Init, LocalRead
  <1>2. IInv /\ LocalRead /\ [Next]_vars => LocalRead'
    <2> SUFFICES ASSUME IInv, LocalRead, [Next]_vars PROVE LocalRead'
      OBVIOUS
    <2>1. CASE query' = query
      BY <2>1 DEF LocalRead
    <2>2. CASE query' = NoQuery
      BY <2>2, IdleTyped DEF LocalRead
    <2>3. CASE LookupCopies
      <3>1. index.copy # NoText /\ query'.local = index.copy
        BY <2>3 DEF LookupCopies, NoQuery
      <3>2. QED
        BY <3>1 DEF LocalRead
    <2>4. ASSUME NEW c \in Links, ReadCopyBases(c) PROVE LocalRead'
      <3>1. query.pc = "looked" /\ query.local # NoText
        BY <2>4 DEF ReadCopyBases, LocalRead
      <3>2. query' = NoQuery \/ query'.local = query.local
        BY <2>4, Typed DEF ReadCopyBases, QueryStates
      <3>3. QED
        BY <2>2, <3>1, <3>2 DEF LocalRead
    <2>5. ASSUME NEW c \in Links, RememberCopies(c) PROVE LocalRead'
      <3>1. query.pc = "settling" /\ query.local # NoText
        BY <2>5 DEF RememberCopies, LocalRead
      <3>2. query' = NoQuery \/ query'.local = query.local
        BY <2>5, Typed DEF RememberCopies, QueryStates
      <3>3. QED
        BY <2>2, <3>1, <3>2 DEF LocalRead
    <2>6. CASE StopQuery
      BY <2>2, <2>6 DEF StopQuery
    <2>7. CASE Upload
      BY <2>1, <2>7 DEF Upload, ListInventory, LockAndScan, StoreAgreements, SendBatch, ServePut,
                        Retry, StoreReceipt, StopUpload
    <2>8. QED
      BY <2>1, <2>3, <2>4, <2>5, <2>6, <2>7 DEF Next, Query, ServeLate, SentKeyAges, vars
  <1>3. QED
    BY <1>1, <1>2, InvariantHolds, PTL DEF Spec

\* A text that replaces the local one is what some community made of it.
LEMMA WinnerMoved ==
    ASSUME NEW local \in Texts, NEW obs \in [Links -> Copy], NEW bases \in [Links -> Copy],
           NEW t \in Winners(local, obs, bases), t # local
    PROVE  \E c \in Seen(obs) : /\ obs[c].text = t /\ bases[c].text = local
                                /\ ~Behind(obs[c], bases[c])
  <1> DEFINE all == GroupTexts(local, obs)
  <1>1. local # NoText /\ local \in all
    BY CopyBasesAssumption DEF GroupTexts
  <1>2. IsFiniteSet(all)
    <2>1. IsFiniteSet(Seen(obs))
      BY CopyBasesAssumption, FS_Subset DEF Seen
    <2>2. IsFiniteSet({obs[c].text : c \in Seen(obs)})
      <3> DEFINE texts == {obs[c].text : c \in Seen(obs)}
                 map == [c \in Seen(obs) |-> obs[c].text]
      <3>1. map \in Surjection(Seen(obs), texts)
        BY DEF Surjection
      <3>2. QED
        BY <2>1, <3>1, FS_Surjection
    <2>3. all = {obs[c].text : c \in Seen(obs)} \cup {local}
      BY <1>1 DEF GroupTexts
    <2>4. QED
      BY <2>2, <2>3, FS_AddElement
  <1>3. t \in all => Cardinality(all) > 1
    <2>1. SUFFICES ASSUME t \in all PROVE Cardinality(all) > 1
      OBVIOUS
    <2>2. IsFiniteSet({local}) /\ Cardinality({local}) = 1
      BY FS_Singleton
    <2>3. Cardinality({local} \cup {t}) = 2
      <3> HIDE DEF all
      <3>1. t \notin {local}
        OBVIOUS
      <3>2. Cardinality({local} \cup {t}) = IF t \in {local} THEN Cardinality({local})
                                             ELSE Cardinality({local}) + 1
        BY <2>2, FS_AddElement
      <3>3. QED
        BY <2>2, <3>1, <3>2
    <2>4. {local} \cup {t} \subseteq all
      BY <1>1, <2>1
    <2>5. Cardinality({local} \cup {t}) <= Cardinality(all) /\ Cardinality(all) \in Nat
      BY <1>2, <2>4, FS_Subset, FS_CardinalityType
    <2> HIDE DEF all
    <2>6. QED
      BY <2>3, <2>5
  <1>4. Cardinality(all) \in Nat
    BY <1>2, FS_CardinalityType
  <1>5. t \in Successors(local, obs, bases)
    <2> HIDE DEF all
    <2>1. Winners(local, obs, bases) =
            IF local = NoText \/ Cardinality(all) <= 1 THEN all
            ELSE IF Successors(local, obs, bases) # {} THEN Successors(local, obs, bases)
            ELSE {local}
      BY DEF Winners, all
    <2>2. QED
      BY <1>1, <1>3, <1>4, <2>1
  <1>6. t \in RemoteWinners(local, obs, bases)
    BY <1>5 DEF Successors
  <1>7. PICK c \in Seen(obs) : obs[c].text = t /\ CopyChoice(local, obs[c], bases[c]) = "remote_changed"
    BY <1>6 DEF RemoteWinners
  <1>8. bases[c].text = local /\ ~Behind(obs[c], bases[c])
    BY <1>7 DEF CopyChoice
  <1>9. QED
    BY <1>7, <1>8

-----------------------------------------------------------------------------
(* The theorems. *)

\* Every variable keeps its type, and the two holders of the lock hold it for
\* exactly as long as they work.
THEOREM TypeCorrect == Spec => []TypeOK
  BY InvariantHolds, PTL DEF IInv

\* Whatever is sent again or arrives late, a batch changes its community once.
THEOREM BatchCountsOnce == Spec => []BatchOnce
  BY InvariantHolds, PTL DEF IInv

\* Every base of a project is a text its community had at just that sequence.
THEOREM BasesWereShared == Spec => []BaseWasShared
  <1>1. IInv => BaseWasShared
    BY DEF IInv, QueryInv, Shared, BaseWasShared
  <1>2. QED
    BY <1>1, InvariantHolds, PTL

\* No step takes a base back to an older sequence.
THEOREM BasesOnlyAdvance == Spec => BaseNeverGoesBack
  <1> DEFINE Forward == \A c \in Links : index'.bases[c].seq >= index.bases[c].seq
  <1>1. IInv /\ [Next]_vars => Forward
    <2> SUFFICES ASSUME IInv, [Next]_vars PROVE Forward
      OBVIOUS
    <2>1. \A c \in Links : index.bases[c].seq \in Nat /\ Shared(versions, c, index.bases[c])
      BY Typed DEF QueryInv
    <2>2. ASSUME index'.bases = index.bases PROVE Forward
      BY <2>1, <2>2
    <2>3. ASSUME NEW d \in Links, NEW copy \in Copy, Store(d, copy) PROVE Forward
      <3>1. /\ index'.bases[d].seq >= index.bases[d].seq
            /\ \A c \in Links \ {d} : index'.bases[c] = index.bases[c]
        BY <2>1, <2>3, StoreBase, Typed
      <3>2. QED
        BY <2>1, <3>1
    <2>4. CASE upload.pc = "scanned" /\ Agreements
      <3>1. upload.link \in Links /\ [upload.listed EXCEPT !.text = upload.text] \in Copy
        BY <2>4, Typed DEF UploadInv, UploadStates, Copy
      <3>2. QED
        BY <2>2, <2>3, <2>4, <3>1 DEF Agreements
    <2>5. CASE StoreReceipt
      <3>1. upload.link \in Links /\ upload.answer \in Copy
        BY <2>5, Typed DEF StoreReceipt, UploadInv
      <3>2. QED
        BY <2>3, <2>5, <3>1 DEF StoreReceipt
    <2>6. ASSUME NEW c \in Links, RememberCopies(c) PROVE Forward
      BY <2>2, <2>3, <2>6, Typed DEF RememberCopies
    <2>7. CASE LocalNext /\ UNCHANGED <<storeVars, upload, late, query>>
      BY <2>2, <2>7, BuildKeeps
    <2>8. CASE index' = index
      BY <2>2, <2>8
    <2>9. CASE Upload
      BY <2>4, <2>5, <2>8, <2>9 DEF Upload, ListInventory, LockAndScan, StoreAgreements, SendBatch, ServePut,
                                    Retry, StopUpload, indexVars
    <2>10. CASE Query
      BY <2>6, <2>8, <2>10 DEF Query, LookupCopies, ReadCopyBases, StopQuery, indexVars
    <2> HIDE DEF Forward
    <2>11. QED
      BY <2>7, <2>8, <2>9, <2>10 DEF Next, ServeLate, SentKeyAges, vars, indexVars
  <1>2. QED
    BY <1>1, InvariantHolds, PTL DEF Spec, BaseNeverGoesBack

\* Where a remote text replaces the project's own, its community had that own
\* text before: nothing is lost that only the project has.
THEOREM UnseenEditsWin == Spec => []LocalEditKept
  <1>1. IInv /\ LocalRead => LocalEditKept
    <2> SUFFICES ASSUME IInv, LocalRead, NEW d \in Links, query.pc = "looked", query.links = {d},
                        NEW t \in Winners(query.local, query.obs, BasesWith(d)), t # query.local
                 PROVE  \E c \in Seen(query.obs) :
                           /\ query.obs[c].text = t
                           /\ \E s \in 1..(query.obs[c].seq - 1) : versions[c][s].text = query.local
      BY DEF LocalEditKept
    <2>1. query.local \in Texts
      BY Typed DEF LocalRead, QueryStates
    <2>2. BasesWith(d) \in [Links -> Copy] /\ \A c \in Links : Shared(versions, c, BasesWith(d)[c])
      BY BasesWithShared
    <2>3. PICK c \in Seen(query.obs) : /\ query.obs[c].text = t
                                       /\ BasesWith(d)[c].text = query.local
                                       /\ ~Behind(query.obs[c], BasesWith(d)[c])
      <3>1. query.obs \in [Links -> Copy]
        BY Typed
      <3>2. BasesWith(d) \in [Links -> Copy]
        BY <2>2
      <3>3. QED
        BY <2>1, <3>1, <3>2, WinnerMoved
    <2>4. c \in Links /\ query.obs[c].text # NoText /\ query.local # NoText
      BY <2>1, <2>3, CopyBasesAssumption DEF Seen
    <2> DEFINE base == BasesWith(d)[c]
               seen == query.obs[c]
    <2>5. /\ base \in Copy /\ seen \in Copy
          /\ base.seq \in 1..Len(versions[c]) /\ versions[c][base.seq].text = query.local
          /\ versions[c][seen.seq].text = t
      BY <2>2, <2>3, <2>4, Typed DEF Shared, QueryInv
    <2>6. base.seq \in Nat /\ seen.seq \in Nat /\ base.seq >= 1
      BY <2>4, <2>5, HistoryTyped, Typed
    <2>7. base.seq <= seen.seq /\ base.seq # seen.seq
      BY <2>3, <2>4, <2>5, <2>6 DEF Behind
    <2>8. base.seq \in 1..(seen.seq - 1)
      BY <2>6, <2>7
    <2>9. QED
      BY <2>3, <2>5, <2>8
  <1>2. QED
    BY <1>1, InvariantHolds, LocalReadHolds, PTL

\* An index whose manifest fits the file has the file's text.
THEOREM IndexIsHonest == Spec => []ManifestHonest
  BY InvariantHolds, PTL DEF IInv
=============================================================================
