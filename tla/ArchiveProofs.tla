--------------------------- MODULE ArchiveProofs ---------------------------
(***************************************************************************)
(* Proofs about ArchiveDownload, for every library, chunk size and number  *)
(* of previews: what an erasure removes after an archive was asked for is  *)
(* in the operator's file, whole and not older; a replay is exact; and the *)
(* server is never further ahead of a checkpoint than one chunk.           *)
(***************************************************************************)
EXTENDS ArchiveDownload, ListProofs

-----------------------------------------------------------------------------
(* The inductive invariant. *)

\* What a chain of chunks carries, and what a position of the stream is past.
Sent(chain) == UNION {c.rows : c \in Range(chain)}
Reached(p) == IF p.section = 2 THEN Rows ELSE {r \in Rows : r[1] <= p.key}

\* A position has sent every row it is past, and counted each of them once.
Streamed(p) == /\ Sent(p.chain) = Reached(p)
               /\ p.records = Cardinality(Reached(p))

\* The finished archive of a session holds this chain and is complete.
Filed(t, chain, records) == /\ final[t].chunks = chain
                            /\ Complete(final[t], records)

\* An open session is that of the last ticket. Its freeze stands from the lock
\* on, so the rows it streams do not change, and the two positions it keeps are
\* one chunk apart.
SessionInv ==
    /\ frozen = IF Open /\ session.phase # "preview" THEN session.ticket ELSE 0
    /\ Open =>
         /\ alive /\ session.ticket = tickets
         /\ session.phase = "preview" => session.index = 0
         /\ session.phase \in {"preview", "locked"} <=> session.at.section # 2
         /\ session.phase \in {"downloaded", "verified"} => session.archive
         /\ session.phase = "verified" =>
              Filed(session.ticket, session.at.chain, session.at.records)

StreamInv ==
    Open => /\ Streamed(session.at)
            /\ session.index = 0 => session.at = StartOfStream
            /\ session.index > 0 => /\ Streamed(session.previous)
                                    /\ session.previous.section # 2
                                    /\ session.at = PositionAfter(session.previous)

\* A path is named after a session: its checkpoint has the ticket of that one
\* or of an earlier one, which no chunk is served for. The chunks it counts are
\* the first of the partial file, and all there is of a finished one.
DiskInv ==
    \A p \in Paths :
      /\ checkpoint[p] # NoCheckpoint =>
           /\ p <= tickets /\ checkpoint[p].ticket <= p
           /\ checkpoint[p].ticket = p \/ checkpoint[p].index = 0
           /\ Len(checkpoint[p].chain) = checkpoint[p].index
           /\ checkpoint[p].index <= Len(partial[p].chunks) =>
                SubSeq(partial[p].chunks, 1, checkpoint[p].index) = checkpoint[p].chain
      /\ final[p] # NoFile =>
           checkpoint[p] # NoCheckpoint /\ final[p].chunks = checkpoint[p].chain

\* The answer a download is about to save is where the server has got to, unless
\* the session it came from is over.
Received == Open /\ session.ticket = ticket =>
              /\ session.index = Mark.index + 1
              /\ body.chain = session.at.chain /\ body.records = session.at.records

CallInv ==
    /\ pc = "idle" => path = 0 /\ ticket = 0
    /\ pc # "idle" => 1 <= ticket /\ ticket <= path
    /\ pc = "first" => Mark = NoCheckpoint /\ Part.chunks = <<>>
    /\ pc \notin {"idle", "first"} => Mark # NoCheckpoint /\ Mark.ticket = ticket
    /\ pc \in {"loop", "wait", "write"} => Part.chunks = Mark.chain
    /\ pc \in {"first", "loop", "wait", "write", "save"} => final[path] = NoFile
    /\ pc \in {"write", "save"} => ticket = path /\ body \in Answers /\ Received
    /\ pc = "save" => /\ body.chain = Append(Mark.chain, body.chunk)
                      /\ Part.chunks = body.chain

\* A request for a chunk of the last session asks for none its checkpoint does
\* not cover or continue with. A request to verify has a complete archive behind it.
Asked(r) == /\ checkpoint[r.ticket] # NoCheckpoint
            /\ checkpoint[r.ticket].ticket = r.ticket
            /\ r.index <= checkpoint[r.ticket].index

RequestInv ==
    \A r \in inflight :
      /\ r.kind = "chunk" /\ r.ticket = tickets => Asked(r)
      /\ r.kind = "verify" => Filed(r.ticket, r.chain, r.records)

ReachInv ==
    Open =>
      LET c == checkpoint[session.ticket]
      IN /\ session.index > 0 => c # NoCheckpoint
         /\ c # NoCheckpoint /\ c.ticket = session.ticket =>
              \/ /\ session.index = c.index
                 /\ session.at.chain = c.chain
                 /\ session.at.records = c.records
              \/ /\ session.index = c.index + 1
                 /\ session.previous.chain = c.chain
                 /\ session.previous.records = c.records

EraseInv == erased # NoSession => ~alive

IInv == /\ TypeOK
        /\ SessionInv /\ StreamInv
        /\ DiskInv /\ CallInv /\ RequestInv /\ ReachInv
        /\ EraseInv /\ ErasedIsArchived

-----------------------------------------------------------------------------
(* The rows and the chunks they are sent in. *)

\* A finite set of natural numbers that is not empty has a largest element.
LEMMA FiniteMax ==
    ASSUME NEW S, S \subseteq Nat, IsFiniteSet(S), S # {}
    PROVE  Max(S) \in S /\ \A x \in S : x <= Max(S)
  <1>1. \E m \in S : \A x \in S : m >= x
    BY GreatestNatural
  <1>2. Max(S) \in S /\ \A x \in S : Max(S) >= x
    BY <1>1 DEF Max
  <1>3. QED
    BY <1>2

\* A document has one row, so there are no more rows than documents.
LEMMA RowsFacts ==
    ASSUME LibraryTypeOK
    PROVE  /\ Rows \subseteq Docs \X Nat
           /\ IsFiniteSet(Rows) /\ Cardinality(Rows) <= Cardinality(Docs)
           /\ \A r \in Rows : r[1] \in Docs /\ r[1] \in Nat \ {0}
           /\ \A r, s \in Rows : r[1] = s[1] => r = s
  <1>1. /\ Docs \subseteq Nat \ {0} /\ IsFiniteSet(Docs)
        /\ \A d \in Docs : docs[d] \in Nat
    BY LibraryAssumption DEF LibraryTypeOK
  <1>2. \A r \in Rows : r \in Docs \X Nat /\ r[1] \in Docs /\ r[2] = docs[r[1]]
    BY <1>1 DEF Rows, Present
  <1>3. \A r, s \in Rows : r[1] = s[1] => r = s
    BY DEF Rows
  <1> DEFINE f == [r \in Rows |-> r[1]]
  <1>4. f \in Injection(Rows, Docs)
    BY <1>2, <1>3 DEF Injection, IsInjective
  <1>5. IsFiniteSet(Rows) /\ Cardinality(Rows) <= Cardinality(Docs)
    BY <1>1, <1>4, FS_Injection
  <1>6. QED
    BY <1>1, <1>2, <1>3, <1>5

\* A chunk that is not full has all the rows that are left. A full one has those
\* up to its last key: no row between is passed over.
LEMMA ChunkFacts ==
    ASSUME LibraryTypeOK, NEW p, p.key \in Nat
    PROVE  /\ ChunkRows(p) \subseteq Rows /\ IsFiniteSet(ChunkRows(p))
           /\ Cardinality(ChunkRows(p)) < ChunkSize =>
                ChunkRows(p) = {r \in Rows : r[1] > p.key}
           /\ ~(Cardinality(ChunkRows(p)) < ChunkSize) =>
                LET last == Max({r[1] : r \in ChunkRows(p)})
                IN /\ last \in Docs /\ last > p.key
                   /\ ChunkRows(p) = {r \in Rows : r[1] > p.key /\ r[1] <= last}
  <1> DEFINE C == ChunkRows(p)
             Before(k) == {s \in Rows : p.key < s[1] /\ s[1] < k}
             Left == {r \in Rows : r[1] > p.key}
  <1>1. /\ IsFiniteSet(Rows) /\ ChunkSize \in Nat \ {0}
        /\ \A r \in Rows : r[1] \in Docs /\ r[1] \in Nat
    BY RowsFacts, DeletionAssumption
  <1>2. C = {r \in Rows : r[1] > p.key /\ Cardinality(Before(r[1])) < ChunkSize}
    BY DEF ChunkRows
  <1>3. C \subseteq Left /\ C \subseteq Rows
    BY <1>2
  <1>4. IsFiniteSet(C) /\ Cardinality(C) \in Nat
    BY <1>1, <1>3, FS_Subset, FS_CardinalityType
  <1>5. \A k : IsFiniteSet(Before(k)) /\ Cardinality(Before(k)) \in Nat
    BY <1>1, FS_Subset, FS_CardinalityType
  <1>6. ASSUME Cardinality(C) < ChunkSize
        PROVE  C = Left
    <2>1. SUFFICES ASSUME Left \ C # {}
                   PROVE  FALSE
      BY <1>3
    <2> DEFINE K == {r[1] : r \in Left \ C}
    <2>2. K \subseteq Nat /\ K # {}
      BY <2>1, <1>1
    <2>3. PICK k \in K : \A j \in K : k <= j
      BY <2>2, LeastNatural
    <2>4. PICK r \in Left \ C : r[1] = k
      BY <2>3
    <2>5. Before(k) \subseteq C
      <3>1. \A s \in Before(k) : s \in Left /\ s[1] \in Nat /\ s[1] < k
        BY <1>1
      <3>2. \A s \in Left \ C : k <= s[1]
        BY <2>3
      <3>3. k \in Nat
        BY <2>2
      <3>4. QED
        BY <3>1, <3>2, <3>3
    <2>6. Cardinality(Before(k)) <= Cardinality(C)
      BY <2>5, <1>4, FS_Subset
    <2>7. Cardinality(Before(r[1])) < ChunkSize
      <3> HIDE DEF C, Before
      <3> QED
        BY <2>4, <2>6, <1>4, <1>5, <1>6, <1>1
    <2>8. QED
      BY <2>4, <2>7, <1>2
  <1>7. ASSUME ~(Cardinality(C) < ChunkSize)
        PROVE  LET last == Max({r[1] : r \in C})
               IN /\ last \in Docs /\ last > p.key
                  /\ C = {r \in Rows : r[1] > p.key /\ r[1] <= last}
    <2> DEFINE K == {r[1] : r \in C}
               last == Max(K)
    <2>1. C # {}
      BY <1>7, <1>1, FS_EmptySet
    <2>2. K \subseteq Nat /\ K # {}
      BY <2>1, <1>3, <1>1
    <2>3. IsFiniteSet(K)
      <3> DEFINE f == [r \in C |-> r[1]]
      <3>1. f \in Surjection(C, K)
        BY DEF Surjection
      <3>2. QED
        BY <3>1, <1>4, FS_Surjection
    <2>4. last \in K /\ \A k \in K : k <= last
      BY <2>2, <2>3, FiniteMax
    <2>5. PICK r \in C : r[1] = last
      BY <2>4
    <2>6. last \in Docs /\ last \in Nat /\ last > p.key
      BY <2>5, <1>1, <1>2
    <2>7. ASSUME NEW s \in Rows, s[1] > p.key, s[1] <= last
          PROVE  s \in C
      <3>1. Before(s[1]) \subseteq Before(last)
        <4>1. \A u \in Rows : u[1] \in Nat /\ (u[1] < s[1] => u[1] < last)
          <5> HIDE DEF last
          <5> QED
            BY <2>6, <2>7, <1>1
        <4>2. QED
          BY <4>1
      <3>2. Cardinality(Before(s[1])) <= Cardinality(Before(last))
        BY <3>1, <1>5, FS_Subset
      <3>3. Cardinality(Before(last)) < ChunkSize
        BY <2>5, <1>2
      <3>4. Cardinality(Before(s[1])) < ChunkSize
        <4> HIDE DEF Before, last
        <4> QED
          BY <3>2, <3>3, <1>5, <1>1
      <3>5. QED
        BY <3>4, <2>7, <1>2
    <2>8. \A s \in C : s \in Rows /\ s[1] > p.key /\ s[1] <= last
      BY <2>4, <1>3
    <2>9. C = {s \in Rows : s[1] > p.key /\ s[1] <= last}
      BY <2>7, <2>8
    <2>10. QED
      BY <2>6, <2>9
  <1>8. QED
    BY <1>3, <1>4, <1>6, <1>7

LEMMA SentFacts ==
    /\ Sent(<<>>) = {}
    /\ \A s \in Seq(Chunks), c \in Chunks : Sent(Append(s, c)) = Sent(s) \cup c.rows
  <1>1. Sent(<<>>) = {}
    BY DEF Sent, Range
  <1>2. ASSUME NEW s \in Seq(Chunks), NEW c \in Chunks
        PROVE  Sent(Append(s, c)) = Sent(s) \cup c.rows
    <2>1. Range(Append(s, c)) = Range(s) \cup {c}
      BY AppendFacts
    <2>2. QED
      BY <2>1 DEF Sent
  <1>3. QED
    BY <1>1, <1>2

\* From a position that has streamed what it is past, the next chunk leads to
\* another such position, the last one exactly when the chunk is the end.
LEMMA PositionFacts ==
    ASSUME LibraryTypeOK, NEW p \in Positions, p.section # 2, Streamed(p)
    PROVE  /\ ChunkFrom(p) \in Chunks
           /\ PositionAfter(p) \in Positions
           /\ PositionAfter(p).chain = Append(p.chain, ChunkFrom(p))
           /\ PositionAfter(p).section = 2 <=> ChunkFrom(p).end
           /\ Streamed(PositionAfter(p))
  <1> DEFINE C == ChunkRows(p)
             c == ChunkFrom(p)
             q == PositionAfter(p)
             R == {r \in Rows : r[1] <= p.key}
             last == Max({r[1] : r \in C})
  <1>1. /\ p.chain \in Seq(Chunks) /\ p.key \in Docs \cup {0}
        /\ p.records \in 0..Cardinality(Docs) /\ p.records \in Nat /\ p.key \in Nat
    <2>1. /\ p.chain \in Seq(Chunks) /\ p.key \in Docs \cup {0}
          /\ p.records \in 0..Cardinality(Docs)
      BY DEF Positions
    <2>2. Cardinality(Docs) \in Nat /\ Docs \subseteq Nat
      BY LibraryAssumption, FS_CardinalityType
    <2>3. QED
      <3> HIDE DEF C, c, last, q, R
      <3>1. p.key \in Nat
        <4>1. \A k \in Docs \cup {0} : k \in Nat
          BY <2>2
        <4>2. QED
          BY <2>1, <4>1
      <3>2. p.records \in Nat
        BY <2>1, <2>2
      <3>3. QED
        BY <2>1, <3>1, <3>2
  <1>2. /\ C \subseteq Rows /\ IsFiniteSet(C)
        /\ Cardinality(C) < ChunkSize => C = {r \in Rows : r[1] > p.key}
        /\ ~(Cardinality(C) < ChunkSize) =>
             /\ last \in Docs /\ last > p.key
             /\ C = {r \in Rows : r[1] > p.key /\ r[1] <= last}
    BY <1>1, ChunkFacts
  <1>3. /\ IsFiniteSet(Rows) /\ Cardinality(Rows) <= Cardinality(Docs)
        /\ Rows \subseteq Docs \X Nat /\ \A r \in Rows : r[1] \in Nat
    BY RowsFacts
  <1>4. Cardinality(C) \in Nat /\ Cardinality(Docs) \in Nat /\ ChunkSize \in Nat
    BY <1>2, FS_CardinalityType, LibraryAssumption, DeletionAssumption
  <1>5. c.rows = C /\ c.end = (Cardinality(C) < ChunkSize) /\ c \in Chunks
    <2>1. C \in SUBSET (Docs \X Nat)
      BY <1>2, <1>3
    <2>2. QED
      BY <2>1 DEF ChunkFrom, Chunks
  <1>6. /\ q.section = (IF c.end THEN 2 ELSE 1)
        /\ q.key = (IF c.end THEN 0 ELSE last)
        /\ q.chain = Append(p.chain, c)
        /\ q.records = p.records + Cardinality(C)
    <2> HIDE DEF C, c
    <2>1. /\ q.section = (IF c.end THEN 2 ELSE 1)
          /\ q.key = (IF c.end THEN 0 ELSE Max({r[1] : r \in c.rows}))
          /\ q.chain = Append(p.chain, c)
          /\ q.records = p.records + Cardinality(c.rows)
      BY DEF PositionAfter, c
    <2>2. QED
      BY <2>1, <1>5
  <1>7. Sent(p.chain) = R /\ p.records = Cardinality(R)
    BY DEF Streamed, Reached
  <1>8. Sent(q.chain) = R \cup C
    BY <1>1, <1>5, <1>6, <1>7, SentFacts
  <1>9. Reached(q) = R \cup C
    <2>1. CASE c.end
      <3>1. Reached(q) = Rows /\ C = {r \in Rows : r[1] > p.key}
        BY <2>1, <1>2, <1>5, <1>6 DEF Reached
      <3>2. Rows = R \cup {r \in Rows : r[1] > p.key}
        BY <1>1, <1>3
      <3>3. QED
        BY <3>1, <3>2
    <2>2. CASE ~c.end
      <3> HIDE DEF C, last, q
      <3>1. /\ last \in Docs /\ last > p.key /\ last \in Nat
            /\ C = {r \in Rows : r[1] > p.key /\ r[1] <= last}
        BY <2>2, <1>2, <1>5, LibraryAssumption
      <3>2. q.section = 1 /\ q.key = last
        BY <2>2, <1>6
      <3>3. Reached(q) = {r \in Rows : r[1] <= last}
        BY <3>2 DEF Reached
      <3>4. \A r \in Rows : r[1] <= last <=> r[1] <= p.key \/ (r[1] > p.key /\ r[1] <= last)
        BY <3>1, <1>1, <1>3
      <3>5. QED
        BY <3>1, <3>3, <3>4
    <2>3. QED
      BY <2>1, <2>2
  <1>10. /\ q.records = Cardinality(R \cup C)
         /\ Cardinality(R \cup C) <= Cardinality(Docs) /\ Cardinality(R \cup C) \in Nat
    <2>1. R \cap C = {}
      <3>1. \A r \in C : r \in Rows /\ r[1] > p.key
        BY DEF ChunkRows
      <3>2. QED
        BY <3>1, <1>1, <1>3
    <2>2. IsFiniteSet(R) /\ IsFiniteSet(R \cup C)
      BY <1>3, <1>2, FS_Subset, FS_Union
    <2>3. Cardinality(R \cup C) = Cardinality(R) + Cardinality(C) - Cardinality({})
      BY <2>1, <2>2, <1>2, FS_Union
    <2>4. Cardinality({}) = 0 /\ Cardinality(R) \in Nat /\ Cardinality(R \cup C) \in Nat
      BY <2>2, FS_EmptySet, FS_CardinalityType
    <2>5. Cardinality(R \cup C) <= Cardinality(Rows) /\ Cardinality(Rows) \in Nat
      BY <1>2, <1>3, FS_Subset, FS_CardinalityType
    <2> HIDE DEF R, C, q
    <2>6. QED
      BY <2>3, <2>4, <2>5, <1>3, <1>4, <1>6, <1>7
  <1>11. q \in Positions
    <2>1. q.section \in 0..2 /\ q.key \in Docs \cup {0}
      <3> HIDE DEF C, c, last, q, R
      <3>1. CASE c.end
        BY <1>6, <3>1
      <3>2. CASE ~c.end
        <4>1. last \in Docs
          BY <1>2, <1>5, <3>2
        <4>2. q.section = 1 /\ q.key = last
          BY <1>6, <3>2
        <4>3. QED
          BY <4>1, <4>2
      <3>3. QED
        BY <3>1, <3>2
    <2>2. q.chain \in Seq(Chunks)
      BY <1>1, <1>5, <1>6
    <2>3. q.records \in 0..Cardinality(Docs)
      BY <1>10, <1>4
    <2>4. q = [section |-> q.section, key |-> q.key, chain |-> q.chain, records |-> q.records]
      BY DEF PositionAfter
    <2>5. QED
      <3> HIDE DEF q
      <3> QED
        BY <2>1, <2>2, <2>3, <2>4 DEF Positions
  <1>12. Streamed(q)
    BY <1>8, <1>9, <1>10 DEF Streamed
  <1>13. QED
    BY <1>5, <1>6, <1>11, <1>12

-----------------------------------------------------------------------------
(* What a step leaves alone. *)

LEMMA SessionFacts ==
    ASSUME TypeOK, Open
    PROVE  /\ session \in Sessions
           /\ session.ticket \in 1..MaxTickets /\ session.ticket \in Paths
           /\ session.phase \in Phases
           /\ session.archive \in BOOLEAN /\ session.lapsed \in BOOLEAN
           /\ session.index \in Nat
           /\ session.at \in Positions /\ session.previous \in Positions
  <1>1. session \in Sessions
    BY DEF TypeOK, DeletionTypeOK, Open
  <1>2. QED
    BY <1>1 DEF Sessions, Paths

\* The session goes on as it was, as far as the stream is concerned, or ends.
SameStream == Open' => /\ Open
                       /\ session'.ticket = session.ticket
                       /\ session'.index = session.index
                       /\ session'.at = session.at
                       /\ session'.previous = session.previous

\* No finished archive is touched.
FilesStay == \A p \in Paths : final[p] # NoFile => final'[p] = final[p]

LEMMA StreamFrame ==
    ASSUME StreamInv, SameStream, UNCHANGED docs
    PROVE  StreamInv'
  <1>1. SUFFICES ASSUME Open'
                 PROVE  /\ Streamed(session.at)'
                        /\ session'.index = 0 => session'.at = StartOfStream
                        /\ session'.index > 0 =>
                             /\ Streamed(session.previous)'
                             /\ session'.previous.section # 2
                             /\ (session.at = PositionAfter(session.previous))'
    BY DEF StreamInv
  <1>2. /\ session'.index = session.index /\ session'.at = session.at
        /\ session'.previous = session.previous
    BY <1>1 DEF SameStream
  <1>3. /\ Streamed(session.at)
        /\ session.index = 0 => session.at = StartOfStream
        /\ session.index > 0 => /\ Streamed(session.previous)
                                /\ session.previous.section # 2
                                /\ session.at = PositionAfter(session.previous)
    BY <1>1 DEF StreamInv, SameStream
  <1>4. Rows' = Rows
    BY DEF Rows, Present
  <1>5. Streamed(session.at)' <=> Streamed(session.at)
    BY <1>2, <1>4 DEF Streamed, Reached, Sent
  <1>6. Streamed(session.previous)' <=> Streamed(session.previous)
    BY <1>2, <1>4 DEF Streamed, Reached, Sent
  <1>7. PositionAfter(session.previous)' = PositionAfter(session.previous)
    BY <1>2, <1>4 DEF PositionAfter, ChunkFrom, ChunkRows
  <1>8. QED
    BY <1>2, <1>3, <1>5, <1>6, <1>7

\* What a finished archive was good for it stays good for.
LEMMA FiledFrame ==
    ASSUME TypeOK, FilesStay
    PROVE  \A t \in Paths : \A chain, records :
                Filed(t, chain, records) =>
                  final[t] # NoFile /\ final'[t].chunks = chain /\ Complete(final'[t], records)
  <1>1. ASSUME NEW t \in Paths, NEW chain, NEW records, Filed(t, chain, records)
        PROVE  final[t] # NoFile /\ final'[t] = final[t]
    <2>1. final[t].chunks # <<>>
      BY <1>1 DEF Filed, Complete
    <2>2. final[t] # NoFile
      BY <2>1 DEF NoFile
    <2>3. QED
      BY <2>2 DEF FilesStay
  <1>2. QED
    BY <1>1 DEF Filed

\* What is said of the client and of its files, beside a step of the server.
ClientInv == /\ DiskTypeOK /\ CallTypeOK /\ inflight \subseteq Requests
             /\ DiskInv /\ CallInv /\ RequestInv /\ ReachInv

LEMMA ServerFrame ==
    ASSUME ClientInv, SameStream, UNCHANGED <<tickets, callVars, diskVars>>,
           inflight' \subseteq inflight
    PROVE  ClientInv'
  <1>1. /\ tickets' = tickets /\ pc' = pc /\ path' = path /\ ticket' = ticket
        /\ body' = body /\ checkpoint' = checkpoint /\ partial' = partial
        /\ final' = final
    BY DEF callVars, diskVars
  <1>2. DiskTypeOK' /\ CallTypeOK' /\ (inflight \subseteq Requests)'
    BY <1>1 DEF ClientInv, DiskTypeOK, CallTypeOK, Checkpoints, Requests
  <1>3. DiskInv'
    BY <1>1 DEF ClientInv, DiskInv
  <1>4. Received => Received'
    BY <1>1 DEF Received, SameStream, Mark
  <1>5. CallInv'
    BY <1>1, <1>4 DEF ClientInv, CallInv, Mark, Part
  <1>6. RequestInv'
    BY <1>1 DEF ClientInv, RequestInv, Asked, Filed, Complete, RowsOf
  <1>7. ReachInv'
    BY <1>1 DEF ClientInv, ReachInv, SameStream
  <1>8. QED
    BY <1>2, <1>3, <1>5, <1>6, <1>7 DEF ClientInv

\* What is said of the server, beside a step of the client.
ServerInv == /\ DeletionTypeOK
             /\ SessionInv /\ StreamInv /\ EraseInv /\ ErasedIsArchived

LEMMA ClientFrame ==
    ASSUME TypeOK, ServerInv, UNCHANGED serverVars, FilesStay
    PROVE  ServerInv'
  <1>1. /\ docs' = docs /\ sequence' = sequence /\ reset' = reset
        /\ alive' = alive /\ frozen' = frozen /\ session' = session
        /\ tickets' = tickets /\ checked' = checked /\ erased' = erased
    BY DEF serverVars, libraryVars, deletionVars
  <1>2. DeletionTypeOK'
    BY <1>1 DEF ServerInv, DeletionTypeOK, LibraryTypeOK
  <1>3. SessionInv'
    <2>1. ASSUME Open, session.phase = "verified"
          PROVE  Filed(session.ticket, session.at.chain, session.at.records)'
      <3>1. Filed(session.ticket, session.at.chain, session.at.records)
        BY <2>1 DEF ServerInv, SessionInv
      <3>2. session.ticket \in Paths
        BY <2>1, SessionFacts
      <3>3. /\ final'[session.ticket].chunks = session.at.chain
            /\ Complete(final'[session.ticket], session.at.records)
        BY <3>1, <3>2, FiledFrame
      <3>4. QED
        BY <3>3, <1>1 DEF Filed, Complete, RowsOf
    <2>2. QED
      BY <2>1, <1>1 DEF ServerInv, SessionInv, Open
  <1>4. StreamInv'
    <2>1. SameStream
      BY <1>1 DEF SameStream, Open
    <2>2. QED
      BY <2>1, <1>1, StreamFrame DEF ServerInv
  <1>5. EraseInv'
    BY <1>1 DEF ServerInv, EraseInv
  <1>6. ErasedIsArchived'
    <2>1. SUFFICES ASSUME erased # NoSession, erased.archive
                   PROVE  /\ Complete(final'[erased.ticket], Cardinality(erased.rows))
                          /\ RowsOf(final'[erased.ticket]) = erased.rows
      BY <1>1 DEF ErasedIsArchived, Complete, RowsOf
    <2>2. erased.ticket \in Paths
      BY <2>1 DEF TypeOK, DeletionTypeOK, Paths
    <2>3. /\ Complete(final[erased.ticket], Cardinality(erased.rows))
          /\ RowsOf(final[erased.ticket]) = erased.rows
      BY <2>1 DEF ServerInv, ErasedIsArchived
    <2>4. Filed(erased.ticket, final[erased.ticket].chunks, Cardinality(erased.rows))
      BY <2>3 DEF Filed
    <2>5. final'[erased.ticket].chunks = final[erased.ticket].chunks
      BY <2>2, <2>4, FiledFrame
    <2>6. Complete(final'[erased.ticket], Cardinality(erased.rows))
      BY <2>2, <2>4, FiledFrame
    <2>7. QED
      BY <2>3, <2>5, <2>6 DEF RowsOf
  <1>7. QED
    BY <1>2, <1>3, <1>4, <1>5, <1>6 DEF ServerInv

LEMMA Parts == /\ IInv <=> ServerInv /\ ClientInv
               /\ IInv => TypeOK
  BY DEF IInv, TypeOK, ServerInv, ClientInv

-----------------------------------------------------------------------------
(* The steps of the operator, of the clock and of the uploads. *)

\* A step that writes neither the knowledge nor what an erasure leaves behind.
Bystander == /\ UNCHANGED <<libraryVars, alive, tickets, erased, callVars, diskVars>>
             /\ inflight' \subseteq inflight

LEMMA BystanderKeeps ==
    ASSUME IInv, Bystander,
           session' \in Sessions \cup {NoSession}, frozen' \in 0..tickets,
           checked' \subseteq Uploads, SameStream,
           SessionInv'
    PROVE  IInv'
  <1>1. /\ docs' = docs /\ sequence' = sequence /\ reset' = reset /\ alive' = alive
        /\ tickets' = tickets /\ erased' = erased /\ final' = final
    BY DEF Bystander, libraryVars, diskVars
  <1>2. DeletionTypeOK'
    BY <1>1, Parts DEF TypeOK, DeletionTypeOK, LibraryTypeOK
  <1>3. StreamInv'
    BY <1>1, StreamFrame DEF IInv
  <1>4. EraseInv' /\ ErasedIsArchived'
    BY <1>1 DEF IInv, EraseInv, ErasedIsArchived, Complete, RowsOf
  <1>5. ClientInv'
    BY Parts, ServerFrame DEF Bystander
  <1>6. QED
    BY <1>2, <1>3, <1>4, <1>5 DEF IInv, TypeOK, ClientInv

\* Status, Cancel and the cleanup worker end the session and the freeze with it.
LEMMA EndKeeps ==
    ASSUME IInv, Unlocked, UNCHANGED <<libraryVars, alive, tickets, checked, erased>>,
           UNCHANGED clientVars
    PROVE  IInv'
  <1>1. frozen' = 0 /\ session' = NoSession /\ ~Open' /\ checked' = checked
    BY DEF Unlocked, Open
  <1>2. Bystander
    BY DEF Bystander, clientVars
  <1>3. SessionInv' /\ SameStream
    BY <1>1 DEF SessionInv, SameStream
  <1>4. frozen' \in 0..tickets /\ checked' \subseteq Uploads
    BY <1>1 DEF IInv, TypeOK, DeletionTypeOK
  <1>5. QED
    BY <1>1, <1>2, <1>3, <1>4, BystanderKeeps

LEMMA LapseKeeps ==
    ASSUME IInv, Lapse, UNCHANGED clientVars
    PROVE  IInv'
  <1>1. /\ Open /\ session' = [session EXCEPT !.lapsed = TRUE]
        /\ Bystander /\ frozen' = frozen /\ checked' = checked
        /\ tickets' = tickets /\ alive' = alive /\ final' = final
    BY DEF Lapse, Bystander, clientVars, diskVars
  <1>2. session \in Sessions
    BY <1>1, SessionFacts, Parts
  <1>3. session' \in Sessions
    BY <1>1, <1>2 DEF Sessions
  <1>4. /\ session'.ticket = session.ticket /\ session'.phase = session.phase
        /\ session'.archive = session.archive /\ session'.index = session.index
        /\ session'.at = session.at /\ session'.previous = session.previous
    BY <1>1, <1>2 DEF Sessions
  <1>5. SameStream
    BY <1>1, <1>4 DEF SameStream
  <1>6. Open'
    BY <1>3 DEF Open, Sessions, NoSession
  <1>7. SessionInv'
    BY <1>1, <1>4, <1>6 DEF IInv, SessionInv, Filed, Complete, RowsOf
  <1>8. QED
    BY <1>1, <1>3, <1>5, <1>7, BystanderKeeps DEF IInv, TypeOK, DeletionTypeOK

LEMMA LockKeeps ==
    ASSUME IInv, NEW t, NEW choice \in BOOLEAN, LockCommunity(t, choice),
           UNCHANGED clientVars
    PROVE  IInv'
  <1>1. /\ Open /\ session.ticket = t /\ session.phase = "preview"
        /\ session' = [session EXCEPT !.phase = "locked", !.archive = choice]
        /\ frozen' = t /\ Bystander /\ checked' = checked
        /\ tickets' = tickets /\ alive' = alive
    BY DEF LockCommunity, Valid, Bystander, clientVars
  <1>2. session \in Sessions /\ session.ticket \in 1..MaxTickets
    BY <1>1, SessionFacts, Parts
  <1>3. session' \in Sessions
    BY <1>1, <1>2 DEF Sessions, Phases
  <1>4. /\ session'.ticket = session.ticket /\ session'.phase = "locked"
        /\ session'.index = session.index
        /\ session'.at = session.at /\ session'.previous = session.previous
    BY <1>1, <1>2 DEF Sessions
  <1>5. SameStream
    BY <1>1, <1>4 DEF SameStream
  <1>6. Open' /\ session.ticket = tickets /\ alive /\ session.at.section # 2
    BY <1>1, <1>3 DEF Open, Sessions, NoSession, IInv, SessionInv
  <1>7. SessionInv'
    BY <1>1, <1>4, <1>6 DEF SessionInv
  <1>8. frozen' \in 0..tickets /\ checked' \subseteq Uploads
    BY <1>1, <1>2, <1>6 DEF IInv, TypeOK, DeletionTypeOK
  <1>9. QED
    BY <1>1, <1>3, <1>5, <1>7, <1>8, BystanderKeeps

\* Beginning an upload or giving it up.
LEMMA UploadKeeps ==
    ASSUME IInv, NEW u \in Uploads, BeginUpload(u) \/ RollBackUpload(u),
           UNCHANGED clientVars
    PROVE  IInv'
  <1>1. /\ Bystander /\ frozen' = frozen /\ session' = session /\ alive' = alive
        /\ tickets' = tickets /\ final' = final
        /\ checked' \subseteq checked \cup {u}
    BY DEF BeginUpload, RollBackUpload, Bystander, clientVars, diskVars
  <1>2. SessionInv' /\ SameStream
    BY <1>1 DEF IInv, SessionInv, SameStream, Open, Filed, Complete, RowsOf
  <1>3. /\ session' \in Sessions \cup {NoSession} /\ frozen' \in 0..tickets
        /\ checked' \subseteq Uploads
    BY <1>1 DEF IInv, TypeOK, DeletionTypeOK
  <1>4. QED
    BY <1>1, <1>2, <1>3, BystanderKeeps

LEMMA LibraryKeeps ==
    ASSUME LibraryTypeOK, LibraryNext
    PROVE  LibraryTypeOK'
  <1>1. PICK S \in SUBSET Docs : PutKnowledge(S) \/ DeleteKnowledge(S)
    BY DEF LibraryNext
  <1>2. sequence \in Nat /\ reset \in 0..sequence /\ \A d \in Docs : docs[d] \in 0..sequence
    BY DEF LibraryTypeOK
  <1>3. sequence' = sequence + 1 /\ reset' \in {reset, sequence + 1}
    BY <1>1 DEF PutKnowledge, DeleteKnowledge
  <1>4. docs' \in [Docs -> 0..(sequence + 1)]
    BY <1>1, <1>2 DEF PutKnowledge, DeleteKnowledge
  <1>5. QED
    BY <1>2, <1>3, <1>4 DEF LibraryTypeOK

\* A stream that has not begun is past nothing, whatever the library holds.
LEMMA FreshStream == Streamed(StartOfStream) /\ Streamed(StartOfStream)'
  <1> DEFINE p == StartOfStream
  <1>1. p.section = 0 /\ p.key = 0 /\ p.chain = <<>> /\ p.records = 0
    BY DEF StartOfStream
  <1>2. \A r \in Rows : ~(r[1] <= 0)
    BY LibraryAssumption DEF Rows, Present
  <1>3. \A r \in Rows' : ~(r[1] <= 0)
    BY LibraryAssumption DEF Rows, Present
  <1> HIDE DEF p
  <1>4. Reached(p) = {} /\ Reached(p)' = {}
    BY <1>1, <1>2, <1>3 DEF Reached
  <1>5. Sent(p.chain) = {} /\ p.records = Cardinality({})
    BY <1>1, SentFacts, FS_EmptySet
  <1>6. Streamed(p) /\ Streamed(p)'
    BY <1>4, <1>5 DEF Streamed
  <1>7. QED
    BY <1>6 DEF p

\* An upload commits only into a community that is not frozen, so that a session
\* that streams keeps its rows.
LEMMA CommitKeeps ==
    ASSUME IInv, NEW u \in Uploads, CommitUpload(u), UNCHANGED clientVars
    PROVE  IInv'
  <1>1. /\ frozen = 0 /\ frozen' = 0 /\ session' = session /\ alive' = alive
        /\ tickets' = tickets /\ erased' = erased /\ checked' \subseteq checked
        /\ final' = final /\ LibraryNext
    BY DEF CommitUpload, GuardArchiveFreeze, clientVars, diskVars
  <1>2. Open => /\ session.index = 0 /\ session.at = StartOfStream
    <2>1. SUFFICES ASSUME Open
                   PROVE  session.index = 0 /\ session.at = StartOfStream
      OBVIOUS
    <2>2. session.ticket # 0
      BY <2>1, SessionFacts, Parts
    <2>3. session.phase = "preview"
      BY <2>1, <2>2, <1>1 DEF IInv, SessionInv
    <2>4. QED
      BY <2>1, <2>3 DEF IInv, SessionInv, StreamInv
  <1>3. DeletionTypeOK'
    BY <1>1, LibraryKeeps, Parts DEF TypeOK, DeletionTypeOK
  <1>4. SessionInv'
    BY <1>1 DEF IInv, SessionInv, Open, Filed, Complete, RowsOf
  <1>5. StreamInv'
    BY <1>1, <1>2, FreshStream DEF StreamInv, Open
  <1>6. EraseInv' /\ ErasedIsArchived'
    BY <1>1 DEF IInv, EraseInv, ErasedIsArchived, Complete, RowsOf
  <1>7. SameStream
    BY <1>1 DEF SameStream, Open
  <1>8. ClientInv'
    BY <1>1, <1>7, Parts, ServerFrame DEF clientVars
  <1>9. QED
    BY <1>3, <1>4, <1>5, <1>6, <1>8 DEF IInv, TypeOK, ClientInv

\* A new ticket is above all that any client holds. A row that is still there
\* has not streamed anything, or the community would be frozen.
LEMMA PrepareKeeps ==
    ASSUME IInv, Prepare, UNCHANGED clientVars
    PROVE  IInv'
  <1> DEFINE t == tickets + 1
  <1>1. /\ tickets' = t /\ frozen' = 0 /\ session' = Prepared(t) /\ alive /\ alive' = alive
        /\ docs' = docs /\ sequence' = sequence /\ reset' = reset
        /\ erased' = erased /\ checked' = checked /\ pc' = pc /\ path' = path
        /\ ticket' = ticket /\ body' = body /\ checkpoint' = checkpoint
        /\ partial' = partial /\ final' = final /\ inflight' = inflight
    BY DEF Prepare, libraryVars, clientVars, callVars, diskVars
  <1>2. tickets \in Nat /\ MaxTickets \in Nat /\ t \in 1..MaxTickets /\ t \in Paths /\ t # 0
    BY DeletionAssumption DEF IInv, TypeOK, DeletionTypeOK, Prepare, Paths
  <1>3. /\ session' \in Sessions /\ session'.ticket = t /\ session'.phase = "preview"
        /\ session'.index = 0 /\ session'.at = StartOfStream
    <2>1. CASE Open /\ ~session.lapsed
      <3>1. session' = [session EXCEPT !.ticket = t, !.phase = "preview"]
        BY <1>1, <2>1 DEF Prepared
      <3>2. session \in Sessions /\ session.ticket # 0
        BY <2>1, SessionFacts, Parts
      <3>3. session.phase = "preview"
        BY <2>1, <3>2 DEF Prepare, IInv, SessionInv
      <3>4. session.index = 0 /\ session.at = StartOfStream
        BY <2>1, <3>3 DEF IInv, SessionInv, StreamInv
      <3> HIDE DEF t
      <3>5. QED
        BY <1>2, <3>1, <3>2, <3>4 DEF Sessions, Phases
    <2>2. CASE ~(Open /\ ~session.lapsed)
      <3>1. session' = Preview(t)
        BY <1>1, <2>2 DEF Prepared
      <3>2. StartOfStream \in Positions
        <4>1. Cardinality(Docs) \in Nat
          BY LibraryAssumption, FS_CardinalityType
        <4>2. QED
          BY <4>1 DEF StartOfStream, Positions
      <3> HIDE DEF t
      <3>3. QED
        BY <1>2, <3>1, <3>2 DEF Preview, Sessions, Phases
    <2>3. QED
      BY <2>1, <2>2
  <1>4. Open'
    BY <1>2, <1>3 DEF Open, NoSession
  <1>5. DeletionTypeOK'
    BY <1>1, <1>2, <1>3 DEF IInv, TypeOK, DeletionTypeOK, LibraryTypeOK
  <1>6. SessionInv'
    BY <1>1, <1>3, <1>4 DEF SessionInv, StartOfStream
  <1>7. StreamInv'
    BY <1>3, FreshStream DEF StreamInv
  <1>8. EraseInv' /\ ErasedIsArchived'
    BY <1>1 DEF IInv, EraseInv, ErasedIsArchived, Complete, RowsOf
  <1>9. DiskTypeOK' /\ CallTypeOK' /\ (inflight \subseteq Requests)'
    <2>1. 1..tickets \subseteq 1..t /\ 0..tickets \subseteq 0..t
      BY <1>2
    <2>2. Checkpoints \subseteq Checkpoints' /\ Requests \subseteq Requests'
      BY <2>1, <1>1 DEF Checkpoints, Requests
    <2> HIDE DEF t
    <2>3. DiskTypeOK'
      BY <2>2, <1>1 DEF IInv, TypeOK, DiskTypeOK
    <2>4. CallTypeOK'
      BY <2>1, <1>1 DEF IInv, TypeOK, CallTypeOK
    <2>5. QED
      BY <2>2, <2>3, <2>4, <1>1 DEF IInv, TypeOK
  <1>10. DiskInv'
    <2>1. \A p \in Paths : p <= tickets => p <= t
      BY <1>2 DEF Paths
    <2>2. QED
      BY <2>1, <1>1 DEF IInv, DiskInv
  <1>11. CallInv'
    <2>1. ticket # t
      BY <1>2 DEF IInv, TypeOK, CallTypeOK
    <2>2. Received'
      BY <2>1, <1>1, <1>3 DEF Received
    <2>3. QED
      BY <2>2, <1>1 DEF IInv, CallInv, Mark, Part
  <1>12. RequestInv'
    <2>1. ASSUME NEW r \in inflight
          PROVE  r.ticket # t
      BY <1>2 DEF IInv, TypeOK, Requests
    <2>2. QED
      BY <2>1, <1>1 DEF IInv, RequestInv, Filed, Complete, RowsOf
  <1>13. ReachInv'
    <2>1. checkpoint[t] = NoCheckpoint
      BY <1>2 DEF IInv, DiskInv
    <2>2. QED
      BY <2>1, <1>1, <1>3 DEF ReachInv
  <1>14. QED
    BY <1>5, <1>6, <1>7, <1>8, <1>9, <1>10, <1>11, <1>12, <1>13 DEF IInv, TypeOK

\* An erasure with an archive finds the session verified: its chain, in which
\* all the rows are, is that of a complete archive on the operator's disk.
LEMMA EraseKeeps ==
    ASSUME IInv, NEW t, Erase(t), UNCHANGED clientVars
    PROVE  IInv'
  <1>1. /\ alive /\ alive' = FALSE /\ frozen' = 0 /\ session' = NoSession /\ ~Open'
        /\ docs' = [d \in Docs |-> 0] /\ sequence' = sequence /\ reset' = reset
        /\ tickets' = tickets /\ checked' = checked /\ final' = final
        /\ erased' = [ticket |-> t, archive |-> session.archive, rows |-> Rows]
        /\ Open /\ session.ticket = t /\ MayErase(t)
    BY DEF Erase, MayErase, Valid, Unlocked, Open, clientVars, diskVars
  <1>2. t \in 1..MaxTickets /\ session.archive \in BOOLEAN
    BY <1>1, SessionFacts, Parts
  <1>3. erased'.ticket = t /\ erased'.archive = session.archive /\ erased'.rows = Rows
    BY <1>1
  <1>4. DeletionTypeOK'
    <2>1. Rows \in SUBSET (Docs \X Nat) /\ LibraryTypeOK /\ tickets \in Nat
      BY RowsFacts, DeletionAssumption DEF IInv, TypeOK, DeletionTypeOK
    <2>2. LibraryTypeOK'
      BY <1>1, <2>1 DEF LibraryTypeOK
    <2>3. erased' \in [ticket : 1..MaxTickets, archive : BOOLEAN, rows : SUBSET (Docs \X Nat)]
      BY <1>1, <1>2, <2>1
    <2>4. frozen' \in 0..tickets'
      BY <1>1, <2>1
    <2>5. tickets' \in 0..MaxTickets /\ checked' \subseteq Uploads
      BY <1>1 DEF IInv, TypeOK, DeletionTypeOK
    <2>6. QED
      BY <1>1, <2>2, <2>3, <2>4, <2>5 DEF DeletionTypeOK
  <1>5. SessionInv' /\ StreamInv' /\ EraseInv'
    BY <1>1 DEF SessionInv, StreamInv, EraseInv
  <1>6. ErasedIsArchived'
    <2>1. SUFFICES ASSUME session.archive
                   PROVE  Complete(final[t], Cardinality(Rows)) /\ RowsOf(final[t]) = Rows
      BY <1>1, <1>3 DEF ErasedIsArchived, Complete, RowsOf
    <2>2. session.phase = "verified"
      BY <1>1, <2>1 DEF MayErase
    <2>3. Filed(t, session.at.chain, session.at.records)
      BY <1>1, <2>2 DEF IInv, SessionInv
    <2>4. session.at.section = 2
      BY <1>1, <2>2 DEF IInv, SessionInv
    <2>5. Sent(session.at.chain) = Rows
      BY <1>1, <2>4 DEF IInv, StreamInv, Streamed, Reached
    <2>6. RowsOf(final[t]) = Rows
      BY <2>3, <2>5 DEF Filed, RowsOf, Sent
    <2>7. QED
      BY <2>3, <2>6 DEF Filed, Complete
  <1>7. SameStream
    BY <1>1 DEF SameStream
  <1>8. ClientInv'
    BY <1>1, <1>7, Parts, ServerFrame DEF clientVars
  <1>9. QED
    BY <1>4, <1>5, <1>6, <1>8 DEF IInv, TypeOK, ClientInv

-----------------------------------------------------------------------------
(* The requests. *)

LEMMA RequestFacts ==
    ASSUME IInv, NEW r \in inflight
    PROVE  /\ r.ticket \in Paths /\ r.ticket \in 1..tickets
           /\ r.kind = "chunk" => r.index \in Nat
           /\ r.kind = "chunk" \/ r.kind = "verify"
  <1>1. r \in Requests /\ tickets \in 0..MaxTickets
    BY DEF IInv, TypeOK, DeletionTypeOK
  <1>2. r.ticket \in 1..tickets /\ (r.kind = "chunk" => r.index \in Nat)
    BY <1>1 DEF Requests
  <1>3. QED
    BY <1>1, <1>2, DeletionAssumption DEF Requests, Paths

\* A verification names the chain of a finished archive, and the session's own.
LEMMA VerifyKeeps ==
    ASSUME IInv, NEW r \in inflight, ServeVerify(r)
    PROVE  IInv'
  <1>1. /\ Open /\ session.ticket = r.ticket /\ session.archive
        /\ session.phase \in {"downloaded", "verified"}
        /\ session.at.chain = r.chain /\ session.at.records = r.records
        /\ session' = [session EXCEPT !.phase = "verified"]
        /\ r.kind = "verify" /\ Bystander /\ frozen' = frozen /\ checked' = checked
        /\ tickets' = tickets /\ alive' = alive /\ final' = final
    BY DEF ServeVerify, Verify, CanVerify, Valid, Bystander, diskVars
  <1>2. session \in Sessions /\ session.ticket \in 1..MaxTickets
    BY <1>1, SessionFacts, Parts
  <1>3. session' \in Sessions
    BY <1>1, <1>2 DEF Sessions, Phases
  <1>4. /\ session'.ticket = session.ticket /\ session'.phase = "verified"
        /\ session'.archive = session.archive /\ session'.index = session.index
        /\ session'.at = session.at /\ session'.previous = session.previous
    BY <1>1, <1>2 DEF Sessions
  <1>5. SameStream
    BY <1>1, <1>4 DEF SameStream
  <1>6. Filed(session.ticket, session.at.chain, session.at.records)
    BY <1>1 DEF IInv, RequestInv
  <1>7. Open' /\ session.ticket = tickets /\ alive /\ session.at.section = 2
        /\ frozen = session.ticket
    BY <1>1, <1>3 DEF Open, Sessions, NoSession, IInv, SessionInv
  <1>8. SessionInv'
    <2>1. Filed(session.ticket, session.at.chain, session.at.records)'
      <3>1. final' = final
        BY <1>1
      <3>2. QED
        BY <3>1, <1>4, <1>6 DEF Filed, Complete, RowsOf
    <2>2. QED
      BY <1>1, <1>4, <1>7, <2>1 DEF SessionInv
  <1>9. frozen' \in 0..tickets /\ checked' \subseteq Uploads
    BY <1>1 DEF IInv, TypeOK, DeletionTypeOK
  <1>10. QED
    BY <1>1, <1>3, <1>5, <1>8, <1>9, BystanderKeeps

\* A new chunk moves the stream on by that chunk.
LEMMA NewChunkStep ==
    ASSUME IInv, NEW r \in inflight, r.kind = "chunk", NewChunk(r.ticket, r.index),
           UNCHANGED diskVars
    PROVE  /\ ServerInv' /\ Open' /\ tickets' = tickets
           /\ session.index = r.index /\ session'.index = r.index + 1
           /\ session'.ticket = session.ticket /\ session'.previous = session.at
           /\ Response(r.index) \in Answers
           /\ Response(r.index).chain = session'.at.chain
           /\ Response(r.index).records = session'.at.records
  <1> DEFINE q == PositionAfter(session.at)
             c == ChunkFrom(session.at)
             phase == IF c.end THEN "downloaded" ELSE "locked"
  <1>1. /\ alive /\ Open /\ session.ticket = r.ticket /\ session.archive
        /\ frozen = session.ticket /\ session.phase = "locked" /\ r.index = session.index
        /\ session' = [session EXCEPT !.index = r.index + 1, !.previous = session.at,
                                      !.at = q, !.phase = phase]
        /\ docs' = docs /\ sequence' = sequence /\ reset' = reset
        /\ alive' = alive /\ frozen' = frozen /\ tickets' = tickets
        /\ checked' = checked /\ erased' = erased /\ final' = final
    BY DEF NewChunk, MayStream, Valid, libraryVars, diskVars
  <1>2. /\ session \in Sessions /\ session.at \in Positions /\ session.index \in Nat
        /\ session.ticket \in 1..MaxTickets
    BY <1>1, SessionFacts, Parts
  <1>3. session.at.section # 2 /\ Streamed(session.at)
    BY <1>1 DEF IInv, SessionInv, StreamInv
  <1>4. LibraryTypeOK
    BY DEF IInv, TypeOK, DeletionTypeOK
  <1>5. /\ c \in Chunks /\ q \in Positions /\ Streamed(q)
        /\ q.section = 2 <=> c.end
    BY <1>2, <1>3, <1>4, PositionFacts
  <1> HIDE DEF q, c
  <1>6. session' \in Sessions
    <2>1. phase \in Phases /\ r.index + 1 \in Nat
      BY <1>1, <1>2 DEF Phases
    <2> HIDE DEF phase
    <2>2. QED
      BY <2>1, <1>1, <1>2, <1>5 DEF Sessions
  <1>7. /\ session'.ticket = session.ticket /\ session'.phase = phase
        /\ session'.archive = session.archive /\ session'.index = session.index + 1
        /\ session'.at = q /\ session'.previous = session.at
    BY <1>1, <1>2 DEF Sessions
  <1>8. Open'
    BY <1>6 DEF Open, Sessions, NoSession
  <1>9. DeletionTypeOK'
    BY <1>1, <1>6 DEF IInv, TypeOK, DeletionTypeOK, LibraryTypeOK
  <1>10. SessionInv'
    <2>1. session.ticket = tickets
      BY <1>1 DEF IInv, SessionInv
    <2>2. alive' /\ frozen' = session'.ticket /\ session'.ticket = tickets' /\ session'.archive
      BY <1>1, <1>7, <2>1
    <2>3. session'.phase \in {"downloaded", "locked"}
      BY <1>7
    <2>4. session'.phase = "locked" <=> session'.at.section # 2
      BY <1>5, <1>7
    <2>5. QED
      BY <1>8, <2>2, <2>3, <2>4 DEF SessionInv
  <1>11. StreamInv'
    <2>1. Rows' = Rows
      BY <1>1 DEF Rows, Present
    <2>2. Streamed(session.at)'
      BY <2>1, <1>5, <1>7 DEF Streamed, Reached, Sent
    <2>3. Streamed(session.previous)'
      BY <2>1, <1>3, <1>7 DEF Streamed, Reached, Sent
    <2>4. PositionAfter(session.previous)' = q
      BY <2>1, <1>7 DEF q, PositionAfter, ChunkFrom, ChunkRows
    <2>5. session'.index # 0
      BY <1>2, <1>7
    <2>6. QED
      BY <2>2, <2>3, <2>4, <2>5, <1>3, <1>7 DEF StreamInv
  <1>12. EraseInv' /\ ErasedIsArchived'
    BY <1>1 DEF IInv, EraseInv, ErasedIsArchived, Complete, RowsOf
  <1>13. Response(r.index) = [chunk |-> c, chain |-> q.chain, records |-> q.records]
    <2>1. ~IsReplay(r.index)
      BY <1>1, <1>2 DEF IsReplay
    <2>2. QED
      BY <2>1 DEF Response, q, c
  <1>14. Response(r.index) \in Answers
    <2>1. q.chain \in Seq(Chunks) /\ q.records \in Nat
      BY <1>5, LibraryAssumption, FS_CardinalityType DEF Positions
    <2>2. QED
      BY <2>1, <1>5, <1>13 DEF Answers
  <1>15. QED
    BY <1>1, <1>7, <1>8, <1>9, <1>10, <1>11, <1>12, <1>13, <1>14 DEF ServerInv

\* A replay answers with the chunk that led to where the stream is.
LEMMA ReplayStep ==
    ASSUME IInv, NEW r \in inflight, r.kind = "chunk", ReplayChunk(r.ticket, r.index),
           UNCHANGED diskVars
    PROVE  /\ ServerInv' /\ Open /\ session.ticket = r.ticket
           /\ UNCHANGED serverVars /\ session.index = r.index + 1
           /\ Response(r.index) \in Answers
           /\ Response(r.index).chain = session.at.chain
           /\ Response(r.index).records = session.at.records
  <1>1. /\ Open /\ session.ticket = r.ticket /\ session.index > 0
        /\ r.index = session.index - 1 /\ UNCHANGED serverVars /\ IsReplay(r.index)
    BY DEF ReplayChunk, MayStream, Valid, IsReplay
  <1>2. /\ session.previous \in Positions /\ session.index \in Nat
    BY <1>1, SessionFacts, Parts
  <1>3. /\ Streamed(session.previous) /\ session.previous.section # 2
        /\ session.at = PositionAfter(session.previous)
    BY <1>1 DEF IInv, StreamInv
  <1>4. /\ ChunkFrom(session.previous) \in Chunks
        /\ session.at \in Positions
    BY <1>2, <1>3, PositionFacts DEF IInv, TypeOK, DeletionTypeOK
  <1>5. Response(r.index) = [chunk |-> ChunkFrom(session.previous),
                             chain |-> session.at.chain, records |-> session.at.records]
    BY <1>1, <1>3 DEF Response, Replayed
  <1>6. Response(r.index) \in Answers
    <2>1. session.at.chain \in Seq(Chunks) /\ session.at.records \in Nat
      BY <1>4, LibraryAssumption, FS_CardinalityType DEF Positions
    <2>2. QED
      BY <2>1, <1>4, <1>5 DEF Answers
  <1>7. FilesStay
    BY DEF FilesStay, diskVars
  <1>8. QED
    BY <1>1, <1>2, <1>5, <1>6, <1>7, Parts, ClientFrame

\* What both have in common, and what the checkpoint they are for looks like.
LEMMA HandleStep ==
    ASSUME IInv, NEW r \in inflight, Handle(r)
    PROVE  /\ ServerInv' /\ Open /\ Open' /\ tickets' = tickets
           /\ session.ticket = tickets /\ session'.ticket = tickets
           /\ r.kind = "chunk" /\ r.ticket = tickets /\ r.index \in Nat
           /\ session'.index = r.index + 1
           /\ Response(r.index) \in Answers
           /\ Response(r.index).chain = session'.at.chain
           /\ Response(r.index).records = session'.at.records
           /\ Asked(r)
           /\ \/ session.index = r.index /\ session'.previous = session.at
              \/ /\ session.index = r.index + 1 /\ session'.at = session.at
                 /\ session'.previous = session.previous
  <1>1. r.kind = "chunk" /\ UNCHANGED diskVars
    BY DEF Handle
  <1>2. r.index \in Nat
    BY <1>1, RequestFacts
  <1>3. Open => session.ticket = tickets
    BY DEF IInv, SessionInv
  <1>4. r.ticket = tickets => Asked(r)
    BY <1>1 DEF IInv, RequestInv
  <1>5. CASE NewChunk(r.ticket, r.index)
    <2>1. Open /\ session.ticket = r.ticket
      BY <1>5 DEF NewChunk, MayStream, Valid
    <2>2. QED
      BY <2>1, <1>1, <1>2, <1>3, <1>4, <1>5, NewChunkStep
  <1>6. CASE ReplayChunk(r.ticket, r.index)
    <2>1. /\ ServerInv' /\ Open /\ session.ticket = r.ticket
          /\ UNCHANGED serverVars /\ session.index = r.index + 1
          /\ Response(r.index) \in Answers
          /\ Response(r.index).chain = session.at.chain
          /\ Response(r.index).records = session.at.records
      BY <1>1, <1>6, ReplayStep
    <2>2. session' = session /\ tickets' = tickets /\ Open'
      BY <2>1 DEF serverVars, deletionVars, Open
    <2>3. QED
      BY <2>1, <2>2, <1>1, <1>2, <1>3, <1>4
  <1>7. QED
    BY <1>5, <1>6 DEF Handle

\* A chunk is served at the checkpoint or one ahead of it, and the answer finds
\* its download waiting or is lost.
LEMMA HandleKeeps ==
    ASSUME IInv, NEW r \in inflight, Handle(r),
           \/ UNCHANGED <<pc, body>>
           \/ Waits(r) /\ body' = Response(r.index) /\ pc' = "write"
    PROVE  IInv'
  <1> DEFINE c == checkpoint[tickets]
  <1>1. /\ ServerInv' /\ Open /\ Open' /\ tickets' = tickets
        /\ session.ticket = tickets /\ session'.ticket = tickets
        /\ r.kind = "chunk" /\ r.ticket = tickets /\ r.index \in Nat
        /\ session'.index = r.index + 1
        /\ Response(r.index) \in Answers
        /\ Response(r.index).chain = session'.at.chain
        /\ Response(r.index).records = session'.at.records
        /\ Asked(r)
    BY HandleStep
  <1>2. \/ session.index = r.index /\ session'.previous = session.at
        \/ /\ session.index = r.index + 1 /\ session'.at = session.at
           /\ session'.previous = session.previous
    BY HandleStep
  <1>3. /\ inflight' \subseteq inflight /\ path' = path /\ ticket' = ticket
        /\ checkpoint' = checkpoint /\ partial' = partial /\ final' = final
    BY DEF Handle, diskVars
  <1>4. c # NoCheckpoint /\ c.ticket = tickets /\ r.index <= c.index
    BY <1>1 DEF Asked
  <1>5. c.index \in Nat /\ tickets \in Paths /\ tickets \in Nat
    <2>1. tickets \in Paths /\ tickets \in Nat
      BY <1>1, SessionFacts, Parts DEF IInv, TypeOK, DeletionTypeOK
    <2>2. c \in {NoCheckpoint} \cup Checkpoints
      BY <2>1 DEF IInv, TypeOK, DiskTypeOK
    <2>3. QED
      BY <2>1, <2>2, <1>4 DEF Checkpoints
  <1>6. \/ /\ session.index = c.index
           /\ session.at.chain = c.chain /\ session.at.records = c.records
        \/ /\ session.index = c.index + 1
           /\ session.previous.chain = c.chain /\ session.previous.records = c.records
    BY <1>1, <1>4 DEF IInv, ReachInv
  <1>7. ReachInv'
    <2>1. \/ /\ session'.index = c.index
             /\ session'.at.chain = c.chain /\ session'.at.records = c.records
          \/ /\ session'.index = c.index + 1
             /\ session'.previous.chain = c.chain
             /\ session'.previous.records = c.records
      BY <1>1, <1>2, <1>4, <1>5, <1>6
    <2>2. QED
      BY <2>1, <1>1, <1>3, <1>4 DEF ReachInv
  <1>8. DiskInv' /\ DiskTypeOK' /\ (inflight \subseteq Requests)'
    BY <1>1, <1>3 DEF IInv, TypeOK, DiskTypeOK, Checkpoints, Requests, DiskInv
  <1>9. RequestInv'
    BY <1>1, <1>3 DEF IInv, RequestInv, Asked, Filed, Complete, RowsOf
  <1>10. CallInv' /\ CallTypeOK'
    <2>1. CASE UNCHANGED <<pc, body>>
      <3>1. ASSUME pc \in {"write", "save"}
            PROVE  Received'
        <4>1. ASSUME ticket = tickets
              PROVE  /\ session'.index = Mark.index + 1
                     /\ body.chain = session'.at.chain /\ body.records = session'.at.records
          <5>1. path = tickets /\ Received
            BY <3>1, <4>1 DEF IInv, CallInv
          <5>2. Mark = c
            BY <5>1 DEF Mark
          <5>3. /\ session.index = c.index + 1
                /\ body.chain = session.at.chain /\ body.records = session.at.records
            BY <5>1, <5>2, <4>1, <1>1 DEF Received
          <5>4. session.index # r.index
            BY <5>3, <1>1, <1>4, <1>5
          <5>5. session'.at = session.at /\ session'.index = session.index
            BY <5>4, <1>1, <1>2
          <5>6. QED
            BY <5>2, <5>3, <5>5
        <4>2. QED
          BY <4>1, <2>1, <1>1, <1>3 DEF Received, Mark
      <3>2. CallInv'
        BY <3>1, <2>1, <1>3 DEF IInv, CallInv, Mark, Part
      <3>3. QED
        BY <3>2, <2>1, <1>1, <1>3 DEF IInv, TypeOK, CallTypeOK
    <2>2. CASE Waits(r) /\ body' = Response(r.index) /\ pc' = "write"
      <3>1. pc = "wait" /\ ticket = tickets /\ Mark.index = r.index
        BY <2>2, <1>1 DEF Waits
      <3>2. ticket <= path /\ path <= tickets /\ path \in Nat
        BY <3>1, <1>5 DEF IInv, CallInv, TypeOK, CallTypeOK
      <3>3. path = tickets
        BY <3>1, <3>2, <1>5
      <3>4. /\ Mark # NoCheckpoint /\ Mark.ticket = ticket /\ Part.chunks = Mark.chain
            /\ final[path] = NoFile
            /\ 1 <= ticket
        BY <3>1 DEF IInv, CallInv
      <3>5. Mark' = Mark /\ Part' = Part
        BY <1>3 DEF Mark, Part
      <3>6. Received'
        BY <3>1, <3>5, <2>2, <1>1 DEF Received
      <3>7. CallInv'
        BY <3>1, <3>2, <3>3, <3>4, <3>5, <3>6, <2>2, <1>1, <1>3 DEF CallInv
      <3>8. CallTypeOK'
        BY <2>2, <1>1, <1>3 DEF IInv, TypeOK, CallTypeOK, ClientSteps
      <3>9. QED
        BY <3>7, <3>8
    <2>3. QED
      BY <2>1, <2>2
  <1>11. QED
    BY <1>1, <1>7, <1>8, <1>9, <1>10 DEF IInv, TypeOK, ServerInv

-----------------------------------------------------------------------------
(* The steps of the client. *)

\* The server, and the requests under way, beside a step of the client.
LEMMA ClientStep ==
    ASSUME IInv, UNCHANGED serverVars, FilesStay
    PROVE  /\ ServerInv'
           /\ tickets' = tickets /\ session' = session
           /\ \A r \in inflight : r.kind = "verify" => Filed(r.ticket, r.chain, r.records)'
  <1>1. ServerInv' /\ tickets' = tickets /\ session' = session
    BY Parts, ClientFrame DEF serverVars, deletionVars
  <1>2. ASSUME NEW r \in inflight, r.kind = "verify"
        PROVE  Filed(r.ticket, r.chain, r.records)'
    <2>1. Filed(r.ticket, r.chain, r.records) /\ r.ticket \in Paths
      BY <1>2, RequestFacts DEF IInv, RequestInv
    <2>2. final'[r.ticket].chunks = r.chain /\ Complete(final'[r.ticket], r.records)
      BY <2>1, Parts, FiledFrame
    <2>3. QED
      BY <2>2 DEF Filed, Complete, RowsOf
  <1>3. QED
    BY <1>1, <1>2

\* A step that writes nothing to disk.
LEMMA CallKeeps ==
    ASSUME IInv, UNCHANGED <<serverVars, diskVars>>, CallTypeOK', CallInv',
           \A r \in inflight' : \/ r \in inflight
                                \/ /\ r \in Requests
                                   /\ r.kind = "chunk" /\ r.ticket = tickets => Asked(r)
                                   /\ r.kind = "verify" => Filed(r.ticket, r.chain, r.records)
    PROVE  IInv'
  <1>1. checkpoint' = checkpoint /\ partial' = partial /\ final' = final /\ FilesStay
    BY DEF diskVars, FilesStay
  <1>2. ServerInv' /\ tickets' = tickets /\ session' = session
    BY <1>1, ClientStep
  <1>3. DiskInv' /\ DiskTypeOK' /\ ReachInv'
    BY <1>1, <1>2 DEF IInv, TypeOK, DiskTypeOK, Checkpoints, DiskInv, ReachInv, Open
  <1>4. (inflight \subseteq Requests)'
    BY <1>2 DEF IInv, TypeOK, Requests
  <1>5. RequestInv'
    BY <1>1, <1>2 DEF IInv, RequestInv, Asked, Filed, Complete, RowsOf
  <1>6. QED
    BY <1>2, <1>3, <1>4, <1>5 DEF IInv, TypeOK, ServerInv

\* DownloadArchive returns: at its end, with an error, or because its process ends.
LEMMA ReturnKeeps ==
    ASSUME IInv, Return, UNCHANGED <<serverVars, diskVars>>, inflight' \subseteq inflight
    PROVE  IInv'
  <1>1. pc' = "idle" /\ path' = 0 /\ ticket' = 0 /\ body' = NoBody
    BY DEF Return
  <1>2. tickets' = tickets /\ tickets \in Nat
    BY DeletionAssumption DEF serverVars, deletionVars, IInv, TypeOK, DeletionTypeOK
  <1>3. CallInv' /\ CallTypeOK'
    BY <1>1, <1>2 DEF CallInv, CallTypeOK, ClientSteps
  <1>4. QED
    BY <1>3, CallKeeps

LEMMA LoseKeeps ==
    ASSUME IInv, UNCHANGED <<serverVars, callVars, diskVars>>, inflight' \subseteq inflight
    PROVE  IInv'
  <1>1. /\ pc' = pc /\ path' = path /\ ticket' = ticket /\ body' = body
        /\ checkpoint' = checkpoint /\ partial' = partial /\ final' = final
        /\ tickets' = tickets /\ session' = session
    BY DEF callVars, diskVars, serverVars, deletionVars
  <1>2. CallTypeOK'
    BY <1>1 DEF IInv, TypeOK, CallTypeOK
  <1>3. Received => Received'
    BY <1>1 DEF Received, Mark, Open
  <1>4. CallInv'
    BY <1>1, <1>3 DEF IInv, CallInv, Mark, Part
  <1>5. QED
    BY <1>2, <1>4, CallKeeps

\* Where the call is, by the step it is at.
LEMMA CallFacts ==
    ASSUME IInv, pc # "idle"
    PROVE  /\ path \in Paths /\ path \in Nat /\ ticket \in 1..tickets /\ path <= tickets
           /\ ticket <= path /\ ticket \in Nat /\ tickets \in Nat
           /\ Mark \in {NoCheckpoint} \cup Checkpoints /\ Part \in Files /\ final[path] \in Files
           /\ Mark # NoCheckpoint => /\ Mark.index \in Nat /\ Mark.chain \in Seq(Chunks)
                                     /\ Mark.records \in Nat /\ Mark.ticket \in 1..tickets
                                     /\ Len(Mark.chain) = Mark.index
                                     /\ Mark \in Checkpoints
           /\ Part.chunks \in Seq(Chunks)
  <1>1. /\ path \in 0..tickets /\ ticket \in 0..tickets /\ tickets \in 0..MaxTickets
        /\ 1 <= ticket /\ ticket <= path /\ MaxTickets \in Nat
    BY DeletionAssumption DEF IInv, TypeOK, DeletionTypeOK, CallTypeOK, CallInv
  <1>2. path \in Paths
    BY <1>1 DEF Paths
  <1>3. Mark \in {NoCheckpoint} \cup Checkpoints /\ Part \in Files /\ final[path] \in Files
    BY <1>2 DEF IInv, TypeOK, DiskTypeOK, Mark, Part
  <1>4. Mark # NoCheckpoint => Len(Mark.chain) = Mark.index
    BY <1>2 DEF IInv, DiskInv, Mark
  <1>5. Mark \in Checkpoints => /\ Mark.index \in Nat /\ Mark.chain \in Seq(Chunks)
                                /\ Mark.records \in Nat /\ Mark.ticket \in 1..tickets
    BY DEF Checkpoints
  <1>6. Part.chunks \in Seq(Chunks)
    BY <1>3 DEF Files
  <1>7. QED
    BY <1>1, <1>2, <1>3, <1>4, <1>5, <1>6

\* The request for the chunk after the checkpoint.
LEMMA RequestKeeps ==
    ASSUME IInv, Request
    PROVE  IInv'
  <1> DEFINE r == [kind |-> "chunk", ticket |-> ticket, index |-> Mark.index]
  <1>1. /\ pc = "loop" /\ pc' = "wait" /\ path' = path /\ ticket' = ticket /\ body' = body
        /\ inflight' = inflight \cup {r} /\ UNCHANGED <<serverVars, diskVars>>
        /\ checkpoint' = checkpoint /\ partial' = partial /\ final' = final
        /\ tickets' = tickets
    BY DEF Request, Go, diskVars, serverVars, deletionVars
  <1>2. Mark # NoCheckpoint /\ Mark.ticket = ticket
    BY <1>1 DEF IInv, CallInv
  <1>3. r \in Requests
    BY <1>1, <1>2, CallFacts DEF Requests
  <1>4. ASSUME ticket = tickets
        PROVE  Asked(r)
    <2>1. path = ticket
      BY <1>1, <1>4, CallFacts
    <2>2. Mark.index \in Nat
      BY <1>1, <1>2, CallFacts
    <2>3. QED
      BY <2>1, <2>2, <1>2 DEF Asked, Mark
  <1>5. CallInv' /\ CallTypeOK'
    BY <1>1 DEF IInv, TypeOK, CallInv, CallTypeOK, ClientSteps, Mark, Part
  <1>6. r.kind = "chunk" /\ r.ticket = ticket
    OBVIOUS
  <1> HIDE DEF r
  <1>7. QED
    BY <1>1, <1>3, <1>4, <1>5, <1>6, CallKeeps

\* The verification of a finished and complete archive.
LEMMA SendVerifyKeeps ==
    ASSUME IInv, SendVerify
    PROVE  IInv'
  <1> DEFINE r == [kind |-> "verify", ticket |-> ticket, chain |-> Mark.chain,
                   records |-> Mark.records]
  <1>1. /\ pc = "verify" /\ pc' = "acknowledged" /\ path' = path /\ ticket' = ticket
        /\ body' = body /\ Complete(final[path], Mark.records)
        /\ inflight' = inflight \cup {r} /\ UNCHANGED <<serverVars, diskVars>>
        /\ checkpoint' = checkpoint /\ partial' = partial /\ final' = final
        /\ tickets' = tickets
    BY DEF SendVerify, Go, diskVars, serverVars, deletionVars
  <1>2. Mark # NoCheckpoint /\ Mark.ticket = ticket
    BY <1>1 DEF IInv, CallInv
  <1>3. r \in Requests
    BY <1>1, <1>2, CallFacts DEF Requests
  <1>4. final[path].chunks = Mark.chain /\ Mark.chain # <<>>
    <2>1. final[path].chunks # <<>> /\ path \in Paths
      BY <1>1, CallFacts DEF Complete
    <2>2. final[path] # NoFile
      BY <2>1 DEF NoFile
    <2>3. QED
      BY <2>1, <2>2 DEF IInv, DiskInv, Mark
  <1>5. ticket = path
    <2>1. Mark.index # 0
      BY <1>1, <1>2, <1>4, CallFacts, EmptySeq
    <2>2. path \in Paths
      BY <1>1, CallFacts
    <2>3. QED
      BY <2>1, <2>2, <1>2 DEF IInv, DiskInv, Mark
  <1>6. Filed(r.ticket, r.chain, r.records)
    BY <1>1, <1>4, <1>5 DEF Filed
  <1>7. CallInv' /\ CallTypeOK'
    BY <1>1 DEF IInv, TypeOK, CallInv, CallTypeOK, ClientSteps, Mark, Part
  <1>8. r.kind = "verify"
    OBVIOUS
  <1> HIDE DEF r
  <1>9. QED
    BY <1>1, <1>3, <1>6, <1>7, <1>8, CallKeeps

\* A step that writes the partial file of its path, and to it no less than the
\* checkpoint counts.
LEMMA PartKeeps ==
    ASSUME IInv, NEW p \in Paths, NEW file \in Files, UNCHANGED serverVars,
           checkpoint' = checkpoint, final' = final, inflight' = inflight,
           partial' = [partial EXCEPT ![p] = file],
           checkpoint[p] # NoCheckpoint /\ checkpoint[p].index <= Len(file.chunks) =>
             SubSeq(file.chunks, 1, checkpoint[p].index) = checkpoint[p].chain,
           CallTypeOK', CallInv'
    PROVE  IInv'
  <1>1. FilesStay
    BY DEF FilesStay
  <1>2. ServerInv' /\ tickets' = tickets /\ session' = session
    BY <1>1, ClientStep
  <1>3. partial' \in [Paths -> Files] /\ partial'[p] = file
        /\ \A q \in Paths \ {p} : partial'[q] = partial[q]
    BY DEF IInv, TypeOK, DiskTypeOK
  <1>4. DiskTypeOK'
    BY <1>2, <1>3 DEF IInv, TypeOK, DiskTypeOK, Checkpoints
  <1>5. DiskInv'
    BY <1>2, <1>3 DEF IInv, DiskInv
  <1>6. ReachInv' /\ RequestInv' /\ (inflight \subseteq Requests)'
    BY <1>2 DEF IInv, TypeOK, ReachInv, Open, RequestInv, Asked, Filed, Complete, RowsOf,
                Requests
  <1>7. QED
    BY <1>2, <1>4, <1>5, <1>6 DEF IInv, TypeOK, ServerInv

\* What the checkpoint does not cover is cut off.
LEMMA BeginKeeps ==
    ASSUME IInv, NEW t \in 1..tickets, Begin(t)
    PROVE  IInv'
  <1> DEFINE p == session.ticket
             mark == checkpoint[p]
  <1>1. /\ pc = "idle" /\ Open /\ path' = p /\ ticket' = t /\ body' = body
        /\ mark # NoCheckpoint => mark.ticket = t
        /\ UNCHANGED serverVars /\ tickets' = tickets
        /\ checkpoint' = checkpoint /\ final' = final /\ inflight' = inflight
    BY DEF Begin, Locked, serverVars, deletionVars
  <1>2. p = tickets /\ p \in Paths /\ tickets \in Nat /\ t \in 1..p
    BY <1>1, SessionFacts, Parts DEF IInv, SessionInv, TypeOK, DeletionTypeOK
  <1>3. /\ mark \in {NoCheckpoint} \cup Checkpoints /\ partial[p] \in Files
        /\ body = NoBody \/ body \in Answers
    BY <1>2 DEF IInv, TypeOK, DiskTypeOK, CallTypeOK
  <1>4. /\ mark # NoCheckpoint =>
             /\ Len(mark.chain) = mark.index /\ mark.index \in Nat
             /\ mark.index <= Len(partial[p].chunks) =>
                  SubSeq(partial[p].chunks, 1, mark.index) = mark.chain
    BY <1>2, <1>3 DEF IInv, DiskInv, Checkpoints
  <1>5. Mark' = mark
    BY <1>1 DEF Mark
  <1>6. CASE pc' = "verify" /\ mark # NoCheckpoint /\ UNCHANGED partial
    <2>1. CallInv' /\ CallTypeOK'
      BY <1>1, <1>2, <1>3, <1>5, <1>6 DEF CallInv, CallTypeOK, ClientSteps
    <2>2. QED
      BY <2>1, <1>1, <1>6, CallKeeps DEF diskVars
  <1>7. CASE /\ pc' = "first" /\ mark = NoCheckpoint /\ final[p] = NoFile
             /\ partial' = [partial EXCEPT ![p] = File(<<>>)]
    <2>1. File(<<>>) \in Files
      BY DEF File, Files
    <2>2. Part' = File(<<>>) /\ Part.chunks' = <<>>
      BY <1>1, <1>2, <1>7 DEF Part, File, IInv, TypeOK, DiskTypeOK
    <2>3. CallInv'
      BY <1>1, <1>2, <1>5, <1>7, <2>2 DEF CallInv
    <2>4. CallTypeOK'
      BY <1>1, <1>2, <1>3, <1>7 DEF CallTypeOK, ClientSteps
    <2>5. QED
      BY <2>1, <2>3, <2>4, <1>1, <1>2, <1>7, PartKeeps
  <1>8. CASE /\ pc' = "loop" /\ mark # NoCheckpoint /\ final[p] = NoFile
             /\ Len(partial[p].chunks) >= mark.index
             /\ partial' = [partial EXCEPT ![p] = File(SubSeq(partial[p].chunks, 1, mark.index))]
    <2>1. partial[p].chunks \in Seq(Chunks)
      BY <1>3 DEF Files
    <2>2. SubSeq(partial[p].chunks, 1, mark.index) = mark.chain
      BY <1>4, <1>8, <2>1, LenProperties
    <2>3. mark.chain \in Seq(Chunks)
      BY <1>3, <1>8 DEF Checkpoints
    <2>4. File(mark.chain) \in Files /\ File(mark.chain).chunks = mark.chain
      BY <2>3 DEF File, Files
    <2>5. partial' = [partial EXCEPT ![p] = File(mark.chain)]
      BY <1>8, <2>2
    <2>6. Part.chunks' = mark.chain
      BY <1>1, <1>2, <2>4, <2>5 DEF Part, IInv, TypeOK, DiskTypeOK
    <2>7. CallInv'
      BY <1>1, <1>2, <1>5, <1>8, <2>6 DEF CallInv
    <2>8. CallTypeOK'
      BY <1>1, <1>2, <1>3, <1>8 DEF CallTypeOK, ClientSteps
    <2>9. SubSeq(mark.chain, 1, mark.index) = mark.chain
      BY <2>3, <1>4, <1>8, LenProperties, SubSeqProperties
    <2>10. QED
      BY <2>4, <2>5, <2>7, <2>8, <2>9, <1>1, <1>2, PartKeeps
  <1>9. QED
    BY <1>6, <1>7, <1>8 DEF Begin

LEMMA WriteKeeps ==
    ASSUME IInv, Write
    PROVE  IInv'
  <1> DEFINE file == File(Append(Part.chunks, body.chunk))
  <1>1. /\ pc = "write" /\ pc' = "save" /\ path' = path /\ ticket' = ticket /\ body' = body
        /\ partial' = [partial EXCEPT ![path] = file]
        /\ UNCHANGED serverVars /\ tickets' = tickets /\ session' = session
        /\ checkpoint' = checkpoint /\ final' = final /\ inflight' = inflight
        /\ body.chain = Append(Mark.chain, body.chunk)
    BY DEF Write, Go, SetPart, Continues, serverVars, deletionVars
  <1>2. /\ Mark # NoCheckpoint /\ Mark.ticket = ticket /\ Part.chunks = Mark.chain
        /\ final[path] = NoFile /\ ticket = path /\ body \in Answers /\ Received
        /\ 1 <= ticket
    BY <1>1 DEF IInv, CallInv
  <1>3. /\ path \in Paths /\ Mark.chain \in Seq(Chunks) /\ Len(Mark.chain) = Mark.index
        /\ Mark.index \in Nat
    BY <1>1, <1>2, CallFacts
  <1>4. body.chunk \in Chunks
    BY <1>2 DEF Answers
  <1>5. /\ file \in Files /\ file.chunks = Append(Mark.chain, body.chunk)
        /\ file.chunks \in Seq(Chunks)
    BY <1>2, <1>3, <1>4, AppendProperties DEF File, Files
  <1>6. SubSeq(file.chunks, 1, Mark.index) = Mark.chain
    <2> HIDE DEF file
    <2>1. Len(file.chunks) = Mark.index + 1
          /\ \A i \in 1..Mark.index : file.chunks[i] = Mark.chain[i]
      BY <1>3, <1>4, <1>5, AppendProperties
    <2>2. /\ SubSeq(file.chunks, 1, Mark.index) \in Seq(Chunks)
          /\ Len(SubSeq(file.chunks, 1, Mark.index)) = Mark.index
          /\ \A i \in 1..Mark.index : SubSeq(file.chunks, 1, Mark.index)[i] = file.chunks[i]
      BY <2>1, <1>3, <1>5, SubSeqProperties
    <2>3. QED
      BY <2>1, <2>2, <1>3, SeqEqual
  <1>7. Mark' = Mark /\ Part.chunks' = file.chunks
    BY <1>1, <1>3 DEF Mark, Part, IInv, TypeOK, DiskTypeOK
  <1>8. Received'
    BY <1>1, <1>2, <1>7 DEF Received, Open
  <1>9. CallInv' /\ CallTypeOK'
    <2> HIDE DEF file
    <2>1. CallInv'
      BY <1>1, <1>2, <1>5, <1>7, <1>8 DEF CallInv, IInv
    <2>2. CallTypeOK'
      BY <1>1 DEF IInv, TypeOK, CallTypeOK, ClientSteps
    <2>3. QED
      BY <2>1, <2>2
  <1> HIDE DEF file
  <1>10. QED
    BY <1>1, <1>3, <1>5, <1>6, <1>9, PartKeeps DEF Mark

LEMMA UnlinkKeeps ==
    ASSUME IInv, Unlink
    PROVE  IInv'
  <1>1. /\ pc = "unlink" /\ pc' = "verify" /\ path' = path /\ ticket' = ticket
        /\ body' = body /\ partial' = [partial EXCEPT ![path] = NoFile]
        /\ UNCHANGED serverVars /\ tickets' = tickets
        /\ checkpoint' = checkpoint /\ final' = final /\ inflight' = inflight
    BY DEF Unlink, Go, SetPart, serverVars, deletionVars
  <1>2. NoFile \in Files /\ NoFile.chunks = <<>> /\ path \in Paths
    BY <1>1, CallFacts DEF NoFile, Files
  <1>3. ASSUME checkpoint[path] # NoCheckpoint, checkpoint[path].index <= Len(NoFile.chunks)
        PROVE  SubSeq(NoFile.chunks, 1, checkpoint[path].index) = checkpoint[path].chain
    <2>1. /\ Mark.index \in Nat /\ Mark.chain \in Seq(Chunks) /\ Len(Mark.chain) = Mark.index
      BY <1>1, <1>3, CallFacts DEF Mark
    <2>2. Mark.index = 0 /\ Mark.chain = <<>>
      BY <2>1, <1>2, <1>3, EmptySeq DEF Mark
    <2>3. SubSeq(<<>>, 1, 0) = <<>>
      OBVIOUS
    <2>4. QED
      BY <2>2, <2>3, <1>2 DEF Mark
  <1>4. CallInv' /\ CallTypeOK'
    BY <1>1 DEF IInv, TypeOK, CallInv, CallTypeOK, ClientSteps, Mark
  <1>5. QED
    BY <1>1, <1>2, <1>3, <1>4, PartKeeps

\* A checkpoint for a session that no chunk has been served for.
LEMMA FirstKeeps ==
    ASSUME IInv, FirstCheckpoint
    PROVE  IInv'
  <1> DEFINE c == Fresh(ticket)
  <1>1. /\ pc = "first" /\ pc' = "loop" /\ path' = path /\ ticket' = ticket /\ body' = body
        /\ checkpoint' = [checkpoint EXCEPT ![path] = c]
        /\ UNCHANGED serverVars /\ tickets' = tickets /\ session' = session
        /\ partial' = partial /\ final' = final /\ inflight' = inflight
    BY DEF FirstCheckpoint, Go, SetMark, serverVars, deletionVars
  <1>2. /\ Mark = NoCheckpoint /\ Part.chunks = <<>> /\ final[path] = NoFile
        /\ 1 <= ticket /\ ticket <= path
    BY <1>1 DEF IInv, CallInv
  <1>3. path \in Paths /\ path <= tickets /\ ticket \in 1..tickets /\ path \in Nat
    BY <1>1, CallFacts
  <1>4. /\ c.ticket = ticket /\ c.index = 0 /\ c.chain = <<>> /\ c.records = 0
        /\ c \in Checkpoints /\ c # NoCheckpoint
    BY <1>3 DEF Fresh, Checkpoints, NoCheckpoint
  <1> HIDE DEF c
  <1>5. checkpoint'[path] = c /\ \A q \in Paths \ {path} : checkpoint'[q] = checkpoint[q]
    BY <1>1, <1>3 DEF IInv, TypeOK, DiskTypeOK
  <1>6. FilesStay
    BY <1>1 DEF FilesStay
  <1>7. ServerInv'
    BY <1>1, <1>6, ClientStep
  <1>8. DiskTypeOK'
    BY <1>1, <1>4 DEF IInv, TypeOK, DiskTypeOK, Checkpoints
  <1>9. DiskInv'
    <2>1. partial[path].chunks = <<>> /\ Len(<<>>) = 0
          /\ SubSeq(<<>>, 1, 0) = <<>>
      BY <1>2 DEF Part
    <2>2. ASSUME NEW q \in Paths, q # path
          PROVE  checkpoint'[q] = checkpoint[q]
      BY <2>2, <1>5
    <2>3. QED
      BY <2>1, <2>2, <1>1, <1>2, <1>3, <1>4, <1>5 DEF IInv, DiskInv
  <1>10. CallInv' /\ CallTypeOK'
    <2>1. Mark' = c /\ Part' = Part
      BY <1>1, <1>5 DEF Mark, Part
    <2>2. CallInv'
      BY <2>1, <1>1, <1>2, <1>4 DEF CallInv
    <2>3. CallTypeOK'
      BY <1>1 DEF IInv, TypeOK, CallTypeOK, ClientSteps
    <2>4. QED
      BY <2>2, <2>3
  <1>11. RequestInv' /\ (inflight \subseteq Requests)'
    <2>1. ASSUME NEW r \in inflight, Asked(r)
          PROVE  Asked(r)'
      <3>1. r.ticket # path
        BY <2>1, <1>2 DEF Asked, Mark
      <3>2. r.ticket \in Paths
        BY RequestFacts
      <3>3. QED
        BY <3>1, <3>2, <2>1, <1>5 DEF Asked
    <2>2. QED
      BY <2>1, <1>1 DEF IInv, TypeOK, RequestInv, Filed, Complete, RowsOf, Requests
  <1>12. ReachInv'
    <2>1. SUFFICES ASSUME Open
                   PROVE  ReachInv'
      BY <1>1 DEF ReachInv, Open
    <2>2. session.ticket \in Paths /\ session.index \in Nat
      BY <2>1, SessionFacts, Parts
    <2>3. CASE session.ticket = path
      <3>1. session.index = 0
        BY <2>1, <2>2, <2>3, <1>2 DEF IInv, ReachInv, Mark
      <3>2. session.at.chain = <<>> /\ session.at.records = 0
        BY <2>1, <3>1 DEF IInv, StreamInv, StartOfStream
      <3>3. QED
        BY <2>3, <3>1, <3>2, <1>1, <1>4, <1>5 DEF ReachInv
    <2>4. CASE session.ticket # path
      BY <2>1, <2>2, <2>4, <1>1, <1>5 DEF IInv, ReachInv
    <2>5. QED
      BY <2>3, <2>4
  <1>13. QED
    BY <1>7, <1>8, <1>9, <1>10, <1>11, <1>12 DEF IInv, TypeOK, ServerInv

\* The checkpoint catches up with the file and, while the session lives, with
\* the server.
LEMMA SaveKeeps ==
    ASSUME IInv, SaveCheckpoint
    PROVE  IInv'
  <1> DEFINE c == Saved
  <1>1. /\ pc = "save" /\ checkpoint' = [checkpoint EXCEPT ![path] = c]
        /\ UNCHANGED serverVars /\ tickets' = tickets /\ session' = session
        /\ partial' = partial /\ final' = final /\ inflight' = inflight
        /\ \/ pc' = "loop" /\ body' = NoBody /\ path' = path /\ ticket' = ticket
           \/ pc' = "idle" /\ path' = 0 /\ ticket' = 0 /\ body' = NoBody
    BY DEF SaveCheckpoint, SetMark, Return, serverVars, deletionVars
  <1>2. /\ Mark # NoCheckpoint /\ Mark.ticket = ticket /\ final[path] = NoFile
        /\ ticket = path /\ body \in Answers /\ Received
        /\ body.chain = Append(Mark.chain, body.chunk) /\ Part.chunks = body.chain
        /\ 1 <= ticket
    BY <1>1 DEF IInv, CallInv
  <1>3. /\ path \in Paths /\ path <= tickets /\ path \in Nat /\ tickets \in Nat
        /\ Mark \in Checkpoints /\ Mark.index \in Nat
        /\ Mark.chain \in Seq(Chunks) /\ Len(Mark.chain) = Mark.index
        /\ ticket \in 1..tickets
    BY <1>1, <1>2, CallFacts
  <1>4. /\ body.chunk \in Chunks /\ body.chain \in Seq(Chunks) /\ body.records \in Nat
        /\ body.chunk.end \in BOOLEAN
    BY <1>2 DEF Answers, Chunks
  <1>5. /\ c \in Checkpoints /\ c.ticket = ticket /\ c.index = Mark.index + 1
        /\ c.chain = body.chain /\ c.records = body.records
    <2>1. Mark.index + 1 \in Nat
      BY <1>3
    <2>2. c \in Checkpoints
      BY <2>1, <1>3, <1>4 DEF Saved, Checkpoints
    <2>3. /\ c.ticket = Mark.ticket /\ c.index = Mark.index + 1
          /\ c.chain = body.chain /\ c.records = body.records
      BY <1>3 DEF Saved, Checkpoints
    <2>4. QED
      BY <2>2, <2>3, <1>2
  <1>6. c # NoCheckpoint
    BY <1>3, <1>5 DEF NoCheckpoint
  <1> HIDE DEF c
  <1>7. checkpoint'[path] = c /\ \A q \in Paths \ {path} : checkpoint'[q] = checkpoint[q]
    BY <1>1, <1>3 DEF IInv, TypeOK, DiskTypeOK
  <1>8. Len(body.chain) = Mark.index + 1 /\ SubSeq(body.chain, 1, Len(body.chain)) = body.chain
    BY <1>2, <1>3, <1>4, AppendProperties, SubSeqFull
  <1>9. FilesStay
    BY <1>1 DEF FilesStay
  <1>10. ServerInv'
    BY <1>1, <1>9, ClientStep
  <1>11. DiskTypeOK'
    BY <1>1, <1>5 DEF IInv, TypeOK, DiskTypeOK, Checkpoints
  <1>12. DiskInv'
    <2>1. partial[path].chunks = body.chain
      BY <1>2 DEF Part
    <2>2. /\ path <= tickets /\ c.ticket <= path /\ c.ticket = path
          /\ Len(c.chain) = c.index
          /\ SubSeq(partial[path].chunks, 1, c.index) = c.chain
      BY <2>1, <1>2, <1>3, <1>5, <1>8
    <2>3. QED
      BY <2>2, <1>1, <1>2, <1>3, <1>6, <1>7 DEF IInv, DiskInv
  <1>13. CallInv' /\ CallTypeOK'
    <2>1. CASE pc' = "loop" /\ body' = NoBody /\ path' = path /\ ticket' = ticket
      <3>1. Mark' = c /\ Part' = Part
        BY <2>1, <1>1, <1>7 DEF Mark, Part
      <3>2. CallInv'
        BY <2>1, <3>1, <1>1, <1>2, <1>3, <1>5, <1>6 DEF CallInv
      <3>3. CallTypeOK'
        BY <2>1, <1>1 DEF IInv, TypeOK, CallTypeOK, ClientSteps
      <3>4. QED
        BY <3>2, <3>3
    <2>2. CASE pc' = "idle" /\ path' = 0 /\ ticket' = 0 /\ body' = NoBody
      BY <2>2, <1>1, <1>3 DEF CallInv, CallTypeOK, ClientSteps
    <2>3. QED
      BY <2>1, <2>2, <1>1
  <1>14. RequestInv' /\ (inflight \subseteq Requests)'
    <2>1. ASSUME NEW r \in inflight, Asked(r), r.kind = "chunk"
          PROVE  Asked(r)'
      <3>1. r.ticket \in Paths /\ r.index \in Nat
        BY <2>1, RequestFacts
      <3>2. CASE r.ticket = path
        BY <3>1, <3>2, <2>1, <1>2, <1>3, <1>5, <1>6, <1>7 DEF Asked, Mark
      <3>3. CASE r.ticket # path
        BY <3>1, <3>3, <2>1, <1>7 DEF Asked
      <3>4. QED
        BY <3>2, <3>3
    <2>2. QED
      BY <2>1, <1>1 DEF IInv, TypeOK, RequestInv, Filed, Complete, RowsOf, Requests
  <1>15. ReachInv'
    <2>1. SUFFICES ASSUME Open
                   PROVE  ReachInv'
      BY <1>1 DEF ReachInv, Open
    <2>2. session.ticket \in Paths /\ session.index \in Nat
      BY <2>1, SessionFacts, Parts
    <2>3. CASE session.ticket = path
      <3>1. /\ session.index = Mark.index + 1
            /\ body.chain = session.at.chain /\ body.records = session.at.records
        BY <2>1, <2>3, <1>2 DEF Received
      <3>2. QED
        BY <2>3, <3>1, <1>1, <1>5, <1>6, <1>7 DEF ReachInv
    <2>4. CASE session.ticket # path
      BY <2>1, <2>2, <2>4, <1>1, <1>7 DEF IInv, ReachInv
    <2>5. QED
      BY <2>3, <2>4
  <1>16. QED
    BY <1>10, <1>11, <1>12, <1>13, <1>14, <1>15 DEF IInv, TypeOK, ServerInv

\* A file becomes the archive of its path only where there is none.
LEMMA LinkKeeps ==
    ASSUME IInv, Link
    PROVE  IInv'
  <1>1. /\ pc = "loop" /\ pc' = "unlink" /\ path' = path /\ ticket' = ticket /\ body' = body
        /\ final[path] = NoFile /\ final' = [final EXCEPT ![path] = Part]
        /\ UNCHANGED serverVars /\ tickets' = tickets /\ session' = session
        /\ checkpoint' = checkpoint /\ partial' = partial /\ inflight' = inflight
    BY DEF Link, Go, SetFinal, serverVars, deletionVars
  <1>2. /\ Mark # NoCheckpoint /\ Mark.ticket = ticket /\ Part.chunks = Mark.chain
    BY <1>1 DEF IInv, CallInv
  <1>3. path \in Paths /\ Part \in Files
    BY <1>1, CallFacts
  <1>4. final'[path] = Part /\ \A q \in Paths \ {path} : final'[q] = final[q]
    BY <1>1, <1>3 DEF IInv, TypeOK, DiskTypeOK
  <1>5. FilesStay
    BY <1>1, <1>4 DEF FilesStay
  <1>6. /\ ServerInv'
        /\ \A r \in inflight : r.kind = "verify" => Filed(r.ticket, r.chain, r.records)'
    BY <1>1, <1>5, ClientStep
  <1>7. DiskTypeOK'
    BY <1>1, <1>3 DEF IInv, TypeOK, DiskTypeOK, Checkpoints
  <1>8. DiskInv'
    BY <1>1, <1>2, <1>4 DEF IInv, DiskInv, Mark
  <1>9. CallInv' /\ CallTypeOK'
    BY <1>1 DEF IInv, TypeOK, CallInv, CallTypeOK, ClientSteps, Mark
  <1>10. ReachInv' /\ (inflight \subseteq Requests)'
    BY <1>1 DEF IInv, TypeOK, ReachInv, Open, Requests
  <1>11. RequestInv'
    <2>1. \A r \in inflight : Asked(r) => Asked(r)'
      BY <1>1 DEF Asked
    <2>2. QED
      BY <2>1, <1>1, <1>6 DEF IInv, RequestInv
  <1>12. QED
    BY <1>6, <1>7, <1>8, <1>9, <1>10, <1>11 DEF IInv, TypeOK, ServerInv

-----------------------------------------------------------------------------
(* The specification. *)

LEMMA InitKeeps == Init => IInv
  <1> SUFFICES ASSUME Init
               PROVE  IInv
    OBVIOUS
  <1>1. /\ docs = [d \in Docs |-> 0] /\ sequence = 0 /\ reset = 0
        /\ alive = TRUE /\ frozen = 0 /\ session = NoSession /\ tickets = 0
        /\ checked = {} /\ erased = NoSession
        /\ pc = "idle" /\ path = 0 /\ ticket = 0 /\ body = NoBody
        /\ checkpoint = [p \in Paths |-> NoCheckpoint]
        /\ partial = [p \in Paths |-> NoFile] /\ final = [p \in Paths |-> NoFile]
        /\ inflight = {} /\ ~Open
    BY DEF Init, DeletionInit, LibraryInit, Open
  <1>2. NoFile \in Files
    BY DEF NoFile, Files
  <1>3. DeletionTypeOK
    BY <1>1, DeletionAssumption DEF DeletionTypeOK, LibraryTypeOK
  <1>4. DiskTypeOK /\ CallTypeOK
    BY <1>1, <1>2 DEF DiskTypeOK, CallTypeOK, ClientSteps
  <1>5. SessionInv /\ StreamInv /\ ReachInv /\ EraseInv /\ ErasedIsArchived
    BY <1>1 DEF SessionInv, StreamInv, ReachInv, EraseInv, ErasedIsArchived
  <1>6. DiskInv /\ CallInv /\ RequestInv
    BY <1>1 DEF DiskInv, CallInv, RequestInv
  <1>7. QED
    BY <1>1, <1>3, <1>4, <1>5, <1>6 DEF IInv, TypeOK

LEMMA NextKeeps == IInv /\ [Next]_vars => IInv'
  <1> SUFFICES ASSUME IInv, [Next]_vars
               PROVE  IInv'
    OBVIOUS
  <1>1. CASE UNCHANGED vars
    BY <1>1, LoseKeeps DEF vars, clientVars
  <1>2. CASE Operator /\ UNCHANGED clientVars
    <2>1. CASE Prepare
      BY <1>2, <2>1, PrepareKeeps
    <2>2. CASE Status
      BY <1>2, <2>2, EndKeeps DEF Status
    <2>3. CASE Cancel
      BY <1>2, <2>3, EndKeeps DEF Cancel
    <2>4. CASE \E t \in 1..tickets : \/ \E choice \in BOOLEAN : LockCommunity(t, choice)
                                     \/ Erase(t)
      BY <1>2, <2>4, LockKeeps, EraseKeeps
    <2>5. QED
      BY <1>2, <2>1, <2>2, <2>3, <2>4 DEF Operator
  <1>3. CASE Surroundings
    <2>1. CASE Lapse /\ UNCHANGED clientVars
      BY <2>1, LapseKeeps
    <2>2. CASE ExpireSession /\ UNCHANGED clientVars
      BY <2>2, EndKeeps DEF ExpireSession
    <2>3. CASE Upload /\ UNCHANGED clientVars
      BY <2>3, UploadKeeps, CommitKeeps DEF Upload
    <2>4. QED
      BY <1>3, <2>1, <2>2, <2>3 DEF Surroundings
  <1>4. CASE Client
    <2>1. CASE \E t \in 1..tickets : Begin(t)
      BY <2>1, BeginKeeps
    <2>2. CASE FirstCheckpoint
      BY <2>2, FirstKeeps
    <2>3. CASE Request
      BY <2>3, RequestKeeps
    <2>4. CASE TimeOut \/ Finish
      BY <2>4, ReturnKeeps DEF TimeOut, Finish
    <2>5. CASE Write
      BY <2>5, WriteKeeps
    <2>6. CASE SaveCheckpoint
      BY <2>6, SaveKeeps
    <2>7. CASE Link
      BY <2>7, LinkKeeps
    <2>8. CASE Unlink
      BY <2>8, UnlinkKeeps
    <2>9. CASE SendVerify
      BY <2>9, SendVerifyKeeps
    <2>10. QED
      BY <1>4, <2>1, <2>2, <2>3, <2>4, <2>5, <2>6, <2>7, <2>8, <2>9 DEF Client
  <1>5. CASE Network
    <2>1. PICK r \in inflight : Serve(r) \/ ServeVerify(r) \/ Refuse(r)
      BY <1>5 DEF Network
    <2>2. CASE Serve(r)
      <3>1. /\ Handle(r)
            /\ \/ UNCHANGED <<pc, body>>
               \/ Waits(r) /\ body' = Response(r.index) /\ pc' = "write"
        BY <2>2 DEF Serve
      <3>2. QED
        BY <3>1, HandleKeeps
    <2>3. CASE ServeVerify(r)
      BY <2>3, VerifyKeeps
    <2>4. CASE Refuse(r)
      <3>1. inflight' \subseteq inflight
        BY <2>4 DEF Refuse
      <3>2. QED
        BY <3>1, <2>4, ReturnKeeps, LoseKeeps DEF Refuse
    <2>5. QED
      BY <2>1, <2>2, <2>3, <2>4
  <1>6. CASE Fault
    <2>1. CASE Stop
      BY <2>1, ReturnKeeps DEF Stop
    <2>2. CASE \E r \in inflight : Lose(r)
      BY <2>2, LoseKeeps DEF Lose
    <2>3. CASE \E r \in inflight : LoseAnswer(r)
      <3>1. PICK r \in inflight : LoseAnswer(r)
        BY <2>3
      <3>2. Handle(r) /\ UNCHANGED <<pc, body>>
        BY <3>1 DEF LoseAnswer
      <3>3. QED
        BY <3>2, HandleKeeps
    <2>4. QED
      BY <1>6, <2>1, <2>2, <2>3 DEF Fault
  <1>7. QED
    BY <1>1, <1>2, <1>3, <1>4, <1>5, <1>6 DEF Next

LEMMA Inductive == Spec => []IInv
  BY InitKeeps, NextKeeps, PTL DEF Spec

\* Every variable of the deletion and of the download keeps to its type, the
\* records a stream has counted to the number of the documents among them.
THEOREM Typed == Spec => []TypeOK
  <1>1. IInv => TypeOK
    BY DEF IInv
  <1>2. QED
    BY <1>1, Inductive, PTL

\* Whatever erase_community removed after an archive was asked for is in the
\* operator's file, all of it and nothing older.
THEOREM ErasedArchived == Spec => []ErasedIsArchived
  <1>1. IInv => ErasedIsArchived
    BY DEF IInv
  <1>2. QED
    BY <1>1, Inductive, PTL

\* buildArchiveChunk is never further ahead of a checkpoint than the one chunk
\* it can send again.
THEOREM Reach == Spec => []WithinReach
  <1>1. ASSUME IInv
        PROVE  WithinReach
    <2>1. SUFFICES ASSUME NEW p \in Paths, Current(checkpoint[p])
                   PROVE  p = session.ticket
      BY <1>1 DEF WithinReach, IInv, ReachInv, Current
    <2>2. /\ checkpoint[p] # NoCheckpoint /\ Open /\ checkpoint[p].ticket = session.ticket
      BY <2>1 DEF Current
    <2>3. session.ticket = tickets /\ p <= tickets /\ session.ticket <= p
      BY <1>1, <2>2 DEF IInv, SessionInv, DiskInv
    <2>4. tickets \in Nat /\ p \in Nat
      BY <1>1 DEF IInv, TypeOK, DeletionTypeOK, Paths
    <2>5. QED
      BY <2>3, <2>4
  <1>2. IInv => WithinReach
    BY <1>1
  <1>3. QED
    BY <1>2, Inductive, PTL

\* The chunk that buildArchiveChunk builds again has the chain of the first time:
\* while a session streams, the freeze keeps its rows.
THEOREM Replays == Spec => []ReplayExact
  <1>1. IInv => ReplayExact
    BY DEF IInv, StreamInv, ReplayExact, ReplaySame, Replayed
  <1>2. QED
    BY <1>1, Inductive, PTL

\* A community is frozen by its session, and opened with the end of it.
THEOREM Frozen == Spec => []FrozenBySession
  <1>1. ASSUME IInv
        PROVE  FrozenBySession
    <2>1. Open => session.ticket # 0
      BY <1>1, SessionFacts DEF IInv
    <2>2. QED
      BY <1>1, <2>1 DEF IInv, SessionInv, FrozenBySession
  <1>2. IInv => FrozenBySession
    BY <1>1
  <1>3. QED
    BY <1>2, Inductive, PTL
=============================================================================
