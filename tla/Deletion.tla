------------------------------ MODULE Deletion ------------------------------
(***************************************************************************)
(* The deletion workflow of one community as its rows in PostgreSQL see    *)
(* it: deletionOperation and expireDeletionSessions of                     *)
(* server/deletion_workflow.go, buildArchiveChunk of                       *)
(* server/community_archive.go, and the checks of erase_community and      *)
(* guard_archive_freeze in server/database/021_archive_deletion.sql.       *)
(*                                                                         *)
(* Each operation is one transaction that takes the community's row first, *)
(* so each is one action. A request may arrive late or twice: every action *)
(* takes any ticket that was ever issued.                                  *)
(***************************************************************************)
EXTENDS Library, Sequences, FiniteSetsExt, Functions

CONSTANTS MaxTickets,   \* bound: previews
          ChunkSize,    \* records in an archive chunk, 64 in the code
          Uploads       \* knowledge.put and knowledge.delete operations at once

ASSUME DeletionAssumption ==
    /\ MaxTickets \in Nat
    /\ ChunkSize \in Nat \ {0}

VARIABLES
  alive,     \* the community's row exists
  frozen,    \* libraries.deletion_id, 0 for NULL
  session,   \* the row of deletion_sessions, or NoSession
  tickets,   \* how many tickets prepare has issued; the last is `tickets'
  checked,   \* uploads that read the community as not frozen, before they commit
  erased     \* history: what erase_community removed, and under which ticket

deletionVars == <<alive, frozen, session, tickets, checked, erased>>
serverVars == <<libraryVars, deletionVars>>

Phases == {"preview", "locked", "downloaded", "verified"}

\* A position of the stream: after the documents up to `key', with the chunks
\* of `chain' sent. ka.Chain is a hash; here it is what it is a hash of.
StartOfStream == [section |-> 0, key |-> 0, chain |-> <<>>, records |-> 0]
NoSession == [ticket |-> 0]
Preview(t) == [ticket |-> t, phase |-> "preview", archive |-> FALSE,
               lapsed |-> FALSE, index |-> 0,
               at |-> StartOfStream, previous |-> StartOfStream]

Open == session # NoSession            \* a row exists
Valid(t) == Open /\ ~session.lapsed /\ session.ticket = t

Rows == {<<d, docs[d]>> : d \in Present}
Chunks == [manifest : BOOLEAN, rows : SUBSET (Docs \X Nat), end : BOOLEAN]
Positions == [section : 0..2, key : Docs \cup {0}, chain : Seq(Chunks),
              records : 0..Cardinality(Docs)]
Sessions == [ticket : 1..MaxTickets, phase : Phases, archive : BOOLEAN,
             lapsed : BOOLEAN, index : Nat, at : Positions, previous : Positions]

DeletionTypeOK ==
    /\ LibraryTypeOK
    /\ alive \in BOOLEAN
    /\ tickets \in 0..MaxTickets
    /\ frozen \in 0..tickets
    /\ session \in Sessions \cup {NoSession}
    /\ checked \subseteq Uploads
    /\ erased \in {NoSession} \cup
         [ticket : 1..MaxTickets, archive : BOOLEAN, rows : SUBSET (Docs \X Nat)]

DeletionInit ==
    /\ LibraryInit
    /\ alive = TRUE /\ frozen = 0 /\ session = NoSession /\ tickets = 0
    /\ checked = {} /\ erased = NoSession

-----------------------------------------------------------------------------
(* The operator's steps. *)

\* Mutant: the session goes, the community stays frozen.
ForgottenFreeze == session' = NoSession /\ UNCHANGED frozen

\* Mutant: the row stays, with the position of its stream, and the next preview
\* goes on from there.
UnlockedInPlace ==
    /\ frozen' = 0
    /\ session' = IF Open THEN [session EXCEPT !.phase = "preview"] ELSE session

\* unlockDeletion
Unlocked == frozen' = 0 /\ session' = NoSession

\* A row that is still there keeps its archive choice and its position.
Prepared(t) ==
    IF Open /\ ~session.lapsed
    THEN [session EXCEPT !.ticket = t, !.phase = "preview"]
    ELSE Preview(t)

Prepare ==
    /\ alive /\ tickets < MaxTickets
    /\ (frozen = 0 \/ (Open /\ session.lapsed))
    /\ tickets' = tickets + 1
    /\ frozen' = 0
    /\ session' = Prepared(tickets + 1)
    /\ UNCHANGED <<libraryVars, alive, checked, erased>>

\* A lapsed session is unlocked by the transaction that only wanted to look.
Status ==
    /\ alive /\ Open /\ session.lapsed
    /\ Unlocked
    /\ UNCHANGED <<libraryVars, alive, tickets, checked, erased>>

Cancel ==
    /\ alive
    /\ Unlocked
    /\ UNCHANGED <<libraryVars, alive, tickets, checked, erased>>

\* A repeated lock changes nothing, and neither does another archive choice.
LockCommunity(t, choice) ==
    /\ alive /\ Valid(t) /\ session.phase = "preview"
    /\ session' = [session EXCEPT !.phase = "locked", !.archive = choice]
    /\ frozen' = t
    /\ UNCHANGED <<libraryVars, alive, tickets, checked, erased>>

CanVerify(t, chain, records) ==
    /\ alive /\ Valid(t) /\ session.archive
    /\ session.phase \in {"downloaded", "verified"}
    /\ session.at.chain = chain /\ session.at.records = records

Verify(t, chain, records) ==
    /\ CanVerify(t, chain, records)
    /\ session' = [session EXCEPT !.phase = "verified"]
    /\ UNCHANGED <<libraryVars, alive, frozen, tickets, checked, erased>>

MayErase(t) == /\ Valid(t)
               /\ \/ session.phase = "verified"
                  \/ session.phase = "locked" /\ ~session.archive

\* confirm: erase_community, with everything that hangs on the community's row.
Erase(t) ==
    /\ alive /\ MayErase(t)
    /\ erased' = [ticket |-> t, archive |-> session.archive, rows |-> Rows]
    /\ alive' = FALSE
    /\ docs' = [d \in Docs |-> 0]
    /\ Unlocked
    /\ UNCHANGED <<sequence, reset, tickets, checked>>

-----------------------------------------------------------------------------
(* The archive stream. *)

\* Mutant: ">=" instead of ">" in archiveQuery.
ChunkRowsAgain(p) ==
    {r \in Rows : /\ r[1] >= p.key
                  /\ Cardinality({s \in Rows : p.key <= s[1] /\ s[1] < r[1]}) < ChunkSize}

\* The documents of the next chunk from position p, in the order of their IDs.
ChunkRows(p) ==
    {r \in Rows : /\ r[1] > p.key
                  /\ Cardinality({s \in Rows : p.key < s[1] /\ s[1] < r[1]}) < ChunkSize}

\* The stream is over once a query finds no further row, so a full chunk is
\* followed by another one even if nothing is left.
ChunkFrom(p) ==
    LET rows == ChunkRows(p)
    IN [manifest |-> p.section = 0, rows |-> rows,
        end |-> Cardinality(rows) < ChunkSize]

PositionAfter(p) ==
    LET c == ChunkFrom(p)
    IN [section |-> IF c.end THEN 2 ELSE 1,
        key |-> IF c.end THEN 0 ELSE Max({r[1] : r \in c.rows}),
        chain |-> Append(p.chain, c),
        records |-> p.records + Cardinality(c.rows)]

Replayed == session.previous

MayStream(t) == /\ Valid(t) /\ frozen = session.ticket /\ session.archive
                /\ session.phase # "preview"

\* Mutant: every chunk is to be had once.
NeverReplay(i) == i < 0

IsReplay(i) == session.index > 0 /\ i = session.index - 1

\* What buildArchiveChunk answers to a request for chunk i.
Response(i) ==
    LET start == IF IsReplay(i) THEN Replayed ELSE session.at
        next == PositionAfter(start)
    IN [chunk |-> ChunkFrom(start), chain |-> next.chain, records |-> next.records]

\* The next chunk: committed before it is sent.
NewChunk(t, i) ==
    /\ alive /\ MayStream(t) /\ i = session.index /\ session.phase = "locked"
    /\ session' = [session EXCEPT
         !.index = i + 1, !.previous = session.at,
         !.at = PositionAfter(session.at),
         !.phase = IF ChunkFrom(session.at).end THEN "downloaded" ELSE "locked"]
    /\ UNCHANGED <<libraryVars, alive, frozen, tickets, checked, erased>>

\* The last chunk once more, checked against the chain it had.
ReplaySame(i) == PositionAfter(Replayed).chain = session.at.chain
ReplayChunk(t, i) ==
    /\ alive /\ MayStream(t) /\ IsReplay(i) /\ ReplaySame(i)
    /\ UNCHANGED serverVars

-----------------------------------------------------------------------------
(* Time, the cleanup worker and the uploads that race with the freeze. *)

Lapse ==
    /\ Open /\ ~session.lapsed
    /\ session' = [session EXCEPT !.lapsed = TRUE]
    /\ UNCHANGED <<libraryVars, alive, frozen, tickets, checked, erased>>

\* expireDeletionSessions
ExpireSession ==
    /\ alive /\ Open /\ session.lapsed
    /\ Unlocked
    /\ UNCHANGED <<libraryVars, alive, tickets, checked, erased>>

\* library() refuses a frozen community ...
BeginUpload(u) ==
    /\ alive /\ frozen = 0 /\ u \notin checked
    /\ checked' = checked \cup {u}
    /\ UNCHANGED <<libraryVars, alive, frozen, session, tickets, erased>>

\* Mutant: no trigger.
UnguardedFreeze == TRUE

\* ... and by the time the upload writes, guard_archive_freeze looks again.
GuardArchiveFreeze == frozen = 0

CommitUpload(u) ==
    /\ u \in checked /\ alive /\ GuardArchiveFreeze
    /\ LibraryNext
    /\ checked' = checked \ {u}
    /\ UNCHANGED <<alive, frozen, session, tickets, erased>>

RollBackUpload(u) ==
    /\ u \in checked
    /\ checked' = checked \ {u}
    /\ UNCHANGED <<libraryVars, alive, frozen, session, tickets, erased>>

Operator == \/ Prepare \/ Status \/ Cancel
            \/ \E t \in 1..tickets : \/ \E choice \in BOOLEAN : LockCommunity(t, choice)
                                     \/ Erase(t)

Upload == \E u \in Uploads : BeginUpload(u) \/ CommitUpload(u) \/ RollBackUpload(u)
=============================================================================
