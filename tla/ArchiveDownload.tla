-------------------------- MODULE ArchiveDownload --------------------------
(***************************************************************************)
(* The operator's download of the archive (DownloadArchive of              *)
(* retrieval/community/archive.go) beside the deletion workflow of the     *)
(* server. The client keeps a checkpoint, a partial file and the finished  *)
(* archive of each session on disk, under a lock, and may stop between any *)
(* two writes. Its requests may be lost, and may be handled after it has   *)
(* stopped waiting for them; so may the answers.                           *)
(***************************************************************************)
EXTENDS Deletion

VARIABLES
  pc,           \* where DownloadArchive is
  path,         \* the file it writes, named after the current session
  ticket,       \* the ticket it was called with
  body,         \* the answer it is about to save
  checkpoint,   \* <path>.state.json, or NoCheckpoint
  partial,      \* <path>.partial: its chunks, or NoFile
  final,        \* <path>: its chunks, or NoFile
  inflight      \* requests the server has not handled

diskVars == <<checkpoint, partial, final>>
callVars == <<pc, path, ticket, body>>
clientVars == <<callVars, diskVars, inflight>>
vars == <<serverVars, clientVars>>

Paths == 1..MaxTickets         \* the default path holds the session's id
NoFile == [exists |-> FALSE, chunks |-> <<>>]
File(chunks) == [exists |-> TRUE, chunks |-> chunks]
NoCheckpoint == [ticket |-> 0]
Fresh(t) == [ticket |-> t, index |-> 0, chain |-> <<>>, records |-> 0, done |-> FALSE]
NoBody == [records |-> -1]
Answers == [chunk : Chunks, chain : Seq(Chunks), records : Nat]
Files == [exists : BOOLEAN, chunks : Seq(Chunks)]
ClientSteps == {"idle", "first", "loop", "wait", "write", "save", "link",
                "unlink", "verify", "acknowledged"}

\* What the client has on disk, what it does, and what it has asked for.
Checkpoints == [ticket : 1..tickets, index : Nat, chain : Seq(Chunks),
                records : Nat, done : BOOLEAN]
Requests == [kind : {"chunk"}, ticket : 1..tickets, index : Nat]
       \cup [kind : {"verify"}, ticket : 1..tickets, chain : Seq(Chunks), records : Nat]

DiskTypeOK == /\ checkpoint \in [Paths -> {NoCheckpoint} \cup Checkpoints]
              /\ partial \in [Paths -> Files]
              /\ final \in [Paths -> Files]
CallTypeOK == /\ pc \in ClientSteps
              /\ path \in 0..tickets /\ ticket \in 0..tickets
              /\ body = NoBody \/ body \in Answers

TypeOK == /\ DeletionTypeOK /\ DiskTypeOK /\ CallTypeOK
          /\ inflight \subseteq Requests

Init ==
    /\ DeletionInit
    /\ pc = "idle" /\ path = 0 /\ ticket = 0 /\ body = NoBody
    /\ checkpoint = [p \in Paths |-> NoCheckpoint]
    /\ partial = [p \in Paths |-> NoFile]
    /\ final = [p \in Paths |-> NoFile]
    /\ inflight = {}

Return == pc' = "idle" /\ path' = 0 /\ ticket' = 0 /\ body' = NoBody
Go(step) == pc' = step /\ UNCHANGED <<path, ticket, body>>

\* The checkpoint and the files of the running download.
Mark == checkpoint[path]
Part == partial[path]
SetMark(c) == checkpoint' = [checkpoint EXCEPT ![path] = c]
SetPart(f) == partial' = [partial EXCEPT ![path] = f]
SetFinal(f) == final' = [final EXCEPT ![path] = f]

\* ka.Verify: one manifest, first; one end, last, with the number of records.
RowsOf(file) == UNION {c.rows : c \in Range(file.chunks)}
Complete(file, records) ==
    /\ file.chunks # <<>>
    /\ \A i \in DOMAIN file.chunks :
         /\ file.chunks[i].manifest <=> (i = 1)
         /\ file.chunks[i].end <=> (i = Len(file.chunks))
    /\ Cardinality(RowsOf(file)) = records

\* The status it asks for first. It does not say which ticket is current.
Locked == Open /\ session.archive /\ session.phase # "preview"

\* An earlier download to this path goes on where its checkpoint says; what the
\* checkpoint does not cover is cut off.
Begin(t) ==
    LET mark == checkpoint[session.ticket]
        part == partial[session.ticket]
        Keep(file) == partial' = [partial EXCEPT ![session.ticket] = file]
    IN /\ pc = "idle" /\ alive /\ Locked /\ ~session.lapsed
       /\ mark # NoCheckpoint => mark.ticket = t
       /\ path' = session.ticket /\ ticket' = t
       /\ \/ /\ final[session.ticket] # NoFile
             /\ mark # NoCheckpoint /\ mark.done
             /\ pc' = "verify" /\ UNCHANGED partial
          \/ /\ final[session.ticket] = NoFile
             /\ mark = NoCheckpoint /\ part = NoFile
             /\ pc' = "first" /\ Keep(File(<<>>))
          \/ /\ final[session.ticket] = NoFile
             /\ mark # NoCheckpoint
             /\ Len(part.chunks) >= mark.index
             /\ pc' = "loop" /\ Keep(File(SubSeq(part.chunks, 1, mark.index)))
       /\ UNCHANGED <<serverVars, body, checkpoint, final, inflight>>

FirstCheckpoint ==
    /\ pc = "first"
    /\ SetMark(Fresh(ticket))
    /\ Go("loop")
    /\ UNCHANGED <<serverVars, partial, final, inflight>>

Request ==
    /\ pc = "loop" /\ ~Mark.done
    /\ inflight' = inflight \cup {[kind |-> "chunk", ticket |-> ticket,
                                   index |-> Mark.index]}
    /\ Go("wait")
    /\ UNCHANGED <<serverVars, diskVars>>

\* The server handles a request, now or long after it was sent. Its answer
\* reaches the client if that still waits for it.
Waits(r) == pc = "wait" /\ ticket = r.ticket /\ Mark.index = r.index

Handle(r) ==
    /\ r.kind = "chunk"
    /\ NewChunk(r.ticket, r.index) \/ ReplayChunk(r.ticket, r.index)
    /\ inflight' = inflight \ {r}
    /\ UNCHANGED <<path, ticket, diskVars>>

Serve(r) ==
    /\ Handle(r)
    /\ IF Waits(r) THEN body' = Response(r.index) /\ pc' = "write"
       ELSE UNCHANGED <<pc, body>>

LoseAnswer(r) == Handle(r) /\ UNCHANGED <<pc, body>>

\* Any other request is answered with an error, and the download returns.
Servable(r) == IF r.kind = "chunk"
               THEN /\ alive /\ MayStream(r.ticket)
                    /\ \/ r.index = session.index /\ session.phase = "locked"
                       \/ IsReplay(r.index) /\ ReplaySame(r.index)
               ELSE CanVerify(r.ticket, r.chain, r.records)

Refuse(r) ==
    /\ ~Servable(r)
    /\ inflight' = inflight \ {r}
    /\ IF r.kind = "chunk" /\ Waits(r) THEN Return ELSE UNCHANGED callVars
    /\ UNCHANGED <<serverVars, diskVars>>

\* Nothing is going to answer any more.
TimeOut ==
    /\ pc = "wait" /\ \A r \in inflight : ~(r.kind = "chunk" /\ Waits(r))
    /\ Return
    /\ UNCHANGED <<serverVars, diskVars, inflight>>

\* Received: the chunk continues the chain of the checkpoint, else it is refused.
Continues == /\ body.chain = Append(Mark.chain, body.chunk)
             /\ body.records >= Mark.records

Write ==
    /\ pc = "write" /\ Continues
    /\ SetPart(File(Append(Part.chunks, body.chunk)))
    /\ Go("save")
    /\ UNCHANGED <<serverVars, checkpoint, final, inflight>>

\* Mutant: trusts the file where the chain should count.
SavedAhead == [Mark EXCEPT !.index = Len(Part.chunks) + 1, !.chain = body.chain,
                                 !.records = body.records, !.done = body.chunk.end]

Saved == [Mark EXCEPT !.index = @ + 1, !.chain = body.chain,
                            !.records = body.records, !.done = body.chunk.end]

SaveCheckpoint ==
    /\ pc = "save"
    /\ SetMark(Saved)
    /\ \/ pc' = "loop" /\ body' = NoBody /\ UNCHANGED <<path, ticket>>
       \/ ~Saved.done /\ Return             \* the time slice is over
    /\ UNCHANGED <<serverVars, partial, final, inflight>>

Link ==
    /\ pc = "loop" /\ Mark.done
    /\ Complete(Part, Mark.records) /\ final[path] = NoFile
    /\ SetFinal(Part)
    /\ Go("unlink")
    /\ UNCHANGED <<serverVars, checkpoint, partial, inflight>>

Unlink ==
    /\ pc = "unlink"
    /\ SetPart(NoFile)
    /\ Go("verify")
    /\ UNCHANGED <<serverVars, checkpoint, final, inflight>>

\* finishArchive
SendVerify ==
    /\ pc = "verify" /\ Complete(final[path], Mark.records)
    /\ inflight' = inflight \cup {[kind |-> "verify", ticket |-> ticket,
                                   chain |-> Mark.chain,
                                   records |-> Mark.records]}
    /\ Go("acknowledged")
    /\ UNCHANGED <<serverVars, diskVars>>

ServeVerify(r) ==
    /\ r.kind = "verify"
    /\ Verify(r.ticket, r.chain, r.records)
    /\ inflight' = inflight \ {r}
    /\ UNCHANGED <<callVars, diskVars>>

Finish ==
    /\ pc = "acknowledged"
    /\ Return
    /\ UNCHANGED <<serverVars, diskVars, inflight>>

\* DownloadArchive returns with an error or its process ends.
Stop ==
    /\ pc # "idle"
    /\ Return
    /\ UNCHANGED <<serverVars, diskVars, inflight>>

Lose(r) ==
    /\ inflight' = inflight \ {r}
    /\ UNCHANGED <<serverVars, callVars, diskVars>>

Client == \/ \E t \in 1..tickets : Begin(t)
          \/ FirstCheckpoint \/ Request \/ TimeOut \/ Write \/ SaveCheckpoint
          \/ Link \/ Unlink \/ SendVerify \/ Finish

Network == \E r \in inflight : Serve(r) \/ ServeVerify(r) \/ Refuse(r)

Fault == Stop \/ \E r \in inflight : Lose(r) \/ LoseAnswer(r)

Surroundings == (Upload \/ Lapse \/ ExpireSession) /\ UNCHANGED clientVars

Next == \/ Operator /\ UNCHANGED clientVars
        \/ Surroundings \/ Client \/ Network \/ Fault

Spec == Init /\ [][Next]_vars

\* The cleanup worker runs every five seconds, and what has arrived is handled.
FairSpec == /\ Spec
            /\ WF_vars(ExpireSession /\ UNCHANGED clientVars)
            /\ WF_vars(Network)

-----------------------------------------------------------------------------
(* Correctness. *)

\* Whatever was erased after an archive was asked for is in the operator's file,
\* all of it and nothing older: uploads, replays, lost answers, a client that
\* stops anywhere and requests that arrive late do not come between.
ErasedIsArchived ==
    erased # NoSession /\ erased.archive =>
        LET archive == final[erased.ticket]
        IN /\ Complete(archive, Cardinality(erased.rows))
           /\ RowsOf(archive) = erased.rows

\* The server is at most one chunk ahead of the checkpoint of its session, and
\* then what it keeps of the previous position is where the checkpoint stands:
\* a lost answer can always be had again (community_archive.go l.93).
Current(c) == c # NoCheckpoint /\ Open /\ c.ticket = session.ticket

WithinReach ==
    \A p \in Paths : Current(checkpoint[p]) =>
      LET c == checkpoint[p]
      IN \/ /\ session.index = c.index
            /\ session.at.chain = c.chain
            /\ session.at.records = c.records
         \/ /\ session.index = c.index + 1
            /\ session.previous.chain = c.chain
            /\ session.previous.records = c.records

\* A replayed chunk is the chunk that was sent, as long as the session lives:
\* the answer "archive snapshot changed" has no occasion.
ReplayExact == Open /\ session.index > 0 => ReplaySame(session.index - 1)

\* A community is frozen by its session, so that whatever ends the session
\* opens the community.
FrozenBySession ==
    frozen # 0 <=> Open /\ session.phase # "preview"

\* No freeze is for ever once the operator has gone away (server/README.md l.73):
\* the last requests renew the session a last time, and then its hour passes.
HourPasses == WF_vars(Lapse /\ UNCHANGED clientVars)
OperatorGone == <>[][Surroundings \/ Network \/ Fault]_vars
FreezeEnds == HourPasses /\ OperatorGone => []<>(frozen = 0)

\* A client that calls again and again with its ticket and its path, while
\* nothing fails any more and the session does not lapse between two calls, gets
\* the archive and its verification.
CallsAgain == WF_vars(Client)
Calm == <>[][Client \/ Network \/ (Upload /\ UNCHANGED clientVars)]_vars
ArchiveCompletes ==
    CallsAgain /\ Calm =>
        <>[](Locked /\ Current(checkpoint[session.ticket]) => session.phase = "verified")

\* What skills/community/references/operations.md l.29 says of the download: it
\* is resumable, so no file of an earlier call is in the way of a later one.
Resumable ==
    \A p \in Paths : pc = "idle" /\ partial[p] # NoFile => checkpoint[p] # NoCheckpoint
=============================================================================
