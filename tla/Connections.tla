---------------------------- MODULE Connections ----------------------------
(***************************************************************************)
(* The reader connections of one community in PostgreSQL                   *)
(* (server/connections.go, database/019_key_connections.sql). A row of     *)
(* reader_connections gives a project's public key the right to read; an   *)
(* invitation is the single-use permission to make such a row. A revoked   *)
(* row stays as a tombstone until it expires, and rows and invitations     *)
(* together are bounded. connectReader, manageAccess and community.update  *)
(* hold the lock of the community's row, so each is one step here; leaving,*)
(* expiry and pruning take no lock.                                        *)
(***************************************************************************)
EXTENDS Integers, FiniteSets

CONSTANTS Keys,            \* public keys
          Invitations,     \* invitations the operator may issue
          NoInvitation,
          MaxRecords,      \* MAX_COMMUNITY_CONNECTIONS
          MaxConnections   \* bound: connection IDs allocated

ASSUME ConnectionsAssumption ==
    /\ IsFiniteSet(Keys) /\ IsFiniteSet(Invitations)
    /\ NoInvitation \notin Invitations
    /\ MaxRecords \in Nat
    /\ MaxConnections \in Nat

VARIABLES visibility,    \* libraries.visibility
          rows,          \* [Keys -> Row]: reader_connections by its unique key
          invitations,   \* [Invitations -> where it is in its life]
          issued         \* connection IDs allocated so far, 1..issued

connectionVars == <<visibility, rows, invitations, issued>>

Row == [id : 0..MaxConnections, public : BOOLEAN, revoked : BOOLEAN, expired : BOOLEAN]
NoRow == [id |-> 0, public |-> FALSE, revoked |-> FALSE, expired |-> FALSE]

\* A new community is private; it has no connections yet.
ConnectionsInit ==
    /\ visibility = "private"
    /\ rows = [k \in Keys |-> NoRow]
    /\ invitations = [i \in Invitations |-> "unissued"]
    /\ issued = 0

Recorded == {k \in Keys : rows[k].id # 0}
Held == {i \in Invitations : invitations[i] \in {"open", "lapsed"}}

\* Connections, tombstones and invitations share one capacity.
ConnectionsTypeOK ==
    /\ visibility \in {"public", "private"}
    /\ rows \in [Keys -> Row]
    /\ invitations \in [Invitations -> {"unissued", "open", "lapsed", "gone"}]
    /\ issued \in 0..MaxConnections
    /\ Cardinality(Recorded) + Cardinality(Held) <= MaxRecords

\* Mutant: an invitation reserves no place.
RoomForRows(R, I) == Cardinality(R) < MaxRecords

\* connectionCapacity, when R and I are what the two tables hold.
HasRoom(R, I) == Cardinality(R) + Cardinality(I) < MaxRecords

\* What can_read and readerIdentity ask of a row.
Visible(row) == ~row.public \/ visibility = "public"
Live(row) == row.id # 0 /\ ~row.revoked /\ ~row.expired /\ Visible(row)
CanRead(id) == \E k \in Keys : rows[k].id = id /\ Live(rows[k])

-----------------------------------------------------------------------------
(* What connectReader answers to a key k that brings the invitation i. *)

\* The key is connected already and the invitation, if any, is not needed.
Existing(k, i) == Live(rows[k]) /\ (~rows[k].public \/ i = NoInvitation)

Spent(k, i) == /\ ~Existing(k, i)
               /\ i # NoInvitation /\ invitations[i] # "open"

Banned(k, i) == /\ ~Existing(k, i)
                /\ i = NoInvitation /\ rows[k].revoked

Closed(k, i) == /\ ~Existing(k, i) /\ ~Banned(k, i)
                /\ i = NoInvitation /\ visibility # "public"

Admissible(k, i) == ~Existing(k, i) /\ ~Spent(k, i) /\ ~Banned(k, i) /\ ~Closed(k, i)

\* The transaction has deleted the key's row and the invitation when it counts.
Fits(k, i) == HasRoom(Recorded \ {k}, Held \ {i})

Refusal(k, i) == CASE Spent(k, i) \/ Banned(k, i) -> "forbidden"
                   [] Closed(k, i) -> "unavailable"
                   [] Admissible(k, i) /\ ~Fits(k, i) -> "full"
                   [] OTHER -> "ok"

\* Mutant: reauthorization updates the row it finds.
KeepsId(k) == IF rows[k].id # 0 THEN rows[k].id ELSE issued + 1

NewId(k) == issued + 1

\* A row without an owner is impossible: the invitation goes and the row comes
\* in one transaction. A key without an invitation joins as a public project.
Join(k, i) ==
    /\ Admissible(k, i) /\ Fits(k, i) /\ issued < MaxConnections
    /\ rows' = [rows EXCEPT ![k] = [id |-> NewId(k), public |-> i = NoInvitation,
                                    revoked |-> FALSE, expired |-> FALSE]]
    /\ invitations' = [j \in Invitations |-> IF j = i THEN "gone" ELSE invitations[j]]
    /\ issued' = issued + 1
    /\ UNCHANGED visibility

\* community.connect: the answer is Refusal(k, i) in the state before it.
ConnectReader(k, i) ==
    \/ Join(k, i)
    \/ (Existing(k, i) \/ Refusal(k, i) # "ok") /\ UNCHANGED connectionVars

\* Mutant: leaving erases the tombstone too.
AnyRow(k) == rows[k].id # 0

Removable(k) == rows[k].id # 0 /\ ~rows[k].revoked

\* community.leave
LeaveReader(k) ==
    /\ rows' = IF Removable(k) THEN [rows EXCEPT ![k] = NoRow] ELSE rows
    /\ UNCHANGED <<visibility, invitations, issued>>

-----------------------------------------------------------------------------
(* The operator, the clock and the cleanup. *)

\* access.create
CreateInvitation(i) ==
    /\ invitations[i] = "unissued" /\ HasRoom(Recorded, Held)
    /\ invitations' = [invitations EXCEPT ![i] = "open"]
    /\ UNCHANGED <<visibility, rows, issued>>

Tombstone(row) == [row EXCEPT !.revoked = TRUE, !.expired = FALSE]

\* revoke_public_connections, when a public community becomes private.
Withdrawn(row) == IF row.public /\ ~row.revoked THEN Tombstone(row) ELSE row

\* access.revoke with the ID of a connection
RevokeConnection(k) ==
    /\ Removable(k)
    /\ rows' = [rows EXCEPT ![k] = Tombstone(@)]
    /\ UNCHANGED <<visibility, invitations, issued>>

\* access.revoke with the ID of an invitation
RevokeInvitation(i) ==
    /\ i \in Held
    /\ invitations' = [invitations EXCEPT ![i] = "gone"]
    /\ UNCHANGED <<visibility, rows, issued>>

\* community.update with another visibility
UpdateVisibility ==
    /\ \/ /\ visibility = "private" /\ visibility' = "public"
          /\ UNCHANGED rows
       \/ /\ visibility = "public" /\ visibility' = "private"
          /\ rows' = [k \in Keys |-> Withdrawn(rows[k])]
    /\ UNCHANGED <<invitations, issued>>

LapseConnection(k) ==
    /\ k \in Recorded /\ ~rows[k].expired
    /\ rows' = [rows EXCEPT ![k].expired = TRUE]
    /\ UNCHANGED <<visibility, invitations, issued>>

LapseInvitation(i) ==
    /\ invitations[i] = "open"
    /\ invitations' = [invitations EXCEPT ![i] = "lapsed"]
    /\ UNCHANGED <<visibility, rows, issued>>

\* pruneConnections: one DELETE per table, which skips locked rows.
PruneInvitations ==
    \E I \in SUBSET {i \in Invitations : invitations[i] = "lapsed"} :
        /\ I # {}
        /\ invitations' = [i \in Invitations |-> IF i \in I THEN "gone" ELSE invitations[i]]
        /\ UNCHANGED <<visibility, rows, issued>>

PruneConnections ==
    \E K \in SUBSET {k \in Recorded : rows[k].expired} :
        /\ K # {}
        /\ rows' = [k \in Keys |-> IF k \in K THEN NoRow ELSE rows[k]]
        /\ UNCHANGED <<visibility, invitations, issued>>

Manage ==
    \/ \E i \in Invitations : CreateInvitation(i) \/ RevokeInvitation(i) \/ LapseInvitation(i)
    \/ \E k \in Keys : RevokeConnection(k) \/ LapseConnection(k)
    \/ UpdateVisibility
    \/ PruneInvitations
    \/ PruneConnections
=============================================================================
