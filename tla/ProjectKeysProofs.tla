------------------------- MODULE ProjectKeysProofs -------------------------
(***************************************************************************)
(* Proofs about ProjectKeys, for any projects, keys, invitations and       *)
(* capacity: the capacity holds, an invitation is worth its place, a       *)
(* revoked key stays out, a right that ended stays ended, and no key that  *)
(* the service knows is lost.                                              *)
(***************************************************************************)
EXTENDS ProjectKeys, FiniteSetTheorems, TLAPS

-----------------------------------------------------------------------------
(* The service. *)

ServiceStep ==
    \/ \E k \in Keys, i \in Invitations \cup {NoInvitation} : ConnectReader(k, i)
    \/ \E k \in Keys : LeaveReader(k)
    \/ Manage
    \/ UNCHANGED connectionVars

\* An ID is given once, and a private community has no public reader.
Ids == \A k, l \in Keys : /\ rows[k].id <= issued
                          /\ rows[k].id # 0 /\ rows[k].id = rows[l].id => k = l
Withheld == visibility = "private" =>
                \A k \in Keys : rows[k].public = TRUE => rows[k].revoked = TRUE

ServiceInv == ConnectionsTypeOK /\ Ids /\ Withheld

\* What ConnectionsTypeOK says of sizes, and of the rest.
Capacity == Cardinality(Recorded) + Cardinality(Held) <= MaxRecords
Shape == /\ visibility \in {"public", "private"}
         /\ rows \in [Keys -> Row]
         /\ invitations \in [Invitations -> {"unissued", "open", "lapsed", "gone"}]
         /\ issued \in 0..MaxConnections

LEMMA Parts == ConnectionsTypeOK <=> Shape /\ Capacity
  BY DEF ConnectionsTypeOK, Shape, Capacity

LEMMA Sizes ==
    ASSUME NEW R \in SUBSET Keys, NEW I \in SUBSET Invitations
    PROVE  /\ IsFiniteSet(R) /\ Cardinality(R) \in Nat
           /\ IsFiniteSet(I) /\ Cardinality(I) \in Nat
  BY FS_Subset, FS_CardinalityType, ConnectionsAssumption

\* Removing rows and invitations makes room.
LEMMA Fewer ==
    ASSUME NEW R \in SUBSET Keys, NEW I \in SUBSET Invitations,
           NEW Q \in SUBSET R, NEW J \in SUBSET I
    PROVE  Cardinality(Q) + Cardinality(J) <= Cardinality(R) + Cardinality(I)
  <1>1. Cardinality(Q) <= Cardinality(R) /\ Cardinality(J) <= Cardinality(I)
    BY Sizes, FS_Subset
  <1>2. Q \in SUBSET Keys /\ J \in SUBSET Invitations
    OBVIOUS
  <1>3. QED
    BY <1>1, <1>2, Sizes

LEMMA SetsTyped == Recorded \in SUBSET Keys /\ Held \in SUBSET Invitations
  BY DEF Recorded, Held

\* An invitation that is honoured gives its place to the connection.
LEMMA OpenFits ==
    ASSUME ConnectionsTypeOK, NEW k \in Keys, NEW i \in Invitations, invitations[i] = "open"
    PROVE  Fits(k, i)
  <1>1. i \in Held
    BY DEF Held
  <1>2. Cardinality(Held \ {i}) = Cardinality(Held) - 1
    BY <1>1, SetsTyped, Sizes, FS_RemoveElement
  <1>3. Cardinality(Recorded \ {k}) <= Cardinality(Recorded)
    BY SetsTyped, Sizes, FS_Subset
  <1>4. /\ Cardinality(Recorded \ {k}) \in Nat /\ Cardinality(Held \ {i}) \in Nat
        /\ Cardinality(Recorded) \in Nat /\ Cardinality(Held) \in Nat
    <2>1. Recorded \ {k} \in SUBSET Keys /\ Held \ {i} \in SUBSET Invitations
      BY SetsTyped
    <2>2. QED
      BY <2>1, SetsTyped, Sizes
  <1>5. Cardinality(Recorded) + Cardinality(Held) <= MaxRecords
    BY DEF ConnectionsTypeOK
  <1>6. QED
    BY <1>2, <1>3, <1>4, <1>5, ConnectionsAssumption DEF Fits, HasRoom

LEMMA RefusalTyped ==
    ASSUME NEW k, NEW i
    PROVE  Refusal(k, i) \in {"ok", "forbidden", "unavailable", "full"}
  BY DEF Refusal

\* A community that is full turns away those without an invitation only.
LEMMA FullWithoutInvitation ==
    ASSUME ConnectionsTypeOK, NEW k \in Keys, NEW i \in Invitations \cup {NoInvitation},
           Refusal(k, i) = "full"
    PROVE  i = NoInvitation
  <1>1. Admissible(k, i) /\ ~Fits(k, i)
    BY DEF Refusal
  <1>2. i # NoInvitation => invitations[i] = "open"
    BY <1>1 DEF Admissible, Spent
  <1>3. QED
    BY <1>1, <1>2, OpenFits

-----------------------------------------------------------------------------
(* One step of the service. *)

\* Connecting
LEMMA JoinKeeps ==
    ASSUME ServiceInv, NEW k \in Keys, NEW i \in Invitations \cup {NoInvitation}, Join(k, i)
    PROVE  ServiceInv'
  <1>1. Shape
    BY DEF ServiceInv, ConnectionsTypeOK, Shape
  <1>2. issued \in Nat /\ MaxConnections \in Nat /\ issued + 1 \in 0..MaxConnections /\ issued' = issued + 1
    BY <1>1, ConnectionsAssumption DEF Shape, Join
  <1>3. Shape'
    BY <1>1, <1>2 DEF Shape, Join, NewId, Row
  <1>4. /\ rows'[k] = [id |-> issued + 1, public |-> i = NoInvitation, revoked |-> FALSE, expired |-> FALSE]
        /\ \A l \in Keys \ {k} : rows'[l] = rows[l]
    BY <1>1 DEF Shape, Join, NewId
  <1>5. Recorded' = Recorded \cup {k}
    BY <1>2, <1>4 DEF Recorded
  <1>6. Held' = Held \ {i}
    BY <1>1 DEF Shape, Held, Join
  <1>7. Capacity'
    <2>1. Cardinality(Recorded \ {k}) + Cardinality(Held \ {i}) < MaxRecords
      BY DEF Join, Fits, HasRoom
    <2>2. Recorded \ {k} \in SUBSET Keys /\ Held \ {i} \in SUBSET Invitations
      BY SetsTyped
    <2>3. /\ IsFiniteSet(Recorded \ {k}) /\ Cardinality(Recorded \ {k}) \in Nat
          /\ Cardinality(Held \ {i}) \in Nat
      BY <2>2, Sizes
    <2>4. Recorded' = (Recorded \ {k}) \cup {k}
      BY <1>5
    <2>5. Cardinality(Recorded') = Cardinality(Recorded \ {k}) + 1
      BY <2>3, <2>4, FS_AddElement
    <2>6. QED
      BY <1>6, <2>1, <2>3, <2>5, ConnectionsAssumption DEF Capacity
  <1>8. Ids'
    <2>1. \A l \in Keys : rows[l].id \in Nat
      BY <1>1 DEF Shape, Row
    <2>2. \A l \in Keys \ {k} : rows'[l].id <= issued
      BY <1>4 DEF ServiceInv, Ids
    <2>3. QED
      BY <1>2, <1>4, <2>1, <2>2 DEF ServiceInv, Ids
  <1>9. Withheld'
    <2>1. i = NoInvitation => visibility = "public"
      BY DEF Join, Admissible, Closed
    <2>2. visibility' = visibility
      BY DEF Join
    <2>3. rows'[k].public = (i = NoInvitation)
      BY <1>4
    <2>4. visibility' = "private" => rows'[k].public = FALSE
      BY <2>1, <2>2, <2>3
    <2>5. QED
      BY <1>4, <2>2, <2>4 DEF ServiceInv, Withheld
  <1>10. QED
    BY <1>3, <1>7, <1>8, <1>9, Parts DEF ServiceInv, ConnectionsTypeOK, Shape, Capacity

\* Everything else takes rows and invitations away or marks them.
Declines ==
    /\ Shape'
    /\ Recorded' \subseteq Recorded
    /\ issued' = issued
    /\ \A k \in Keys : rows'[k].id \in {0, rows[k].id}

LEMMA DeclineKeeps ==
    ASSUME ServiceInv, Declines, Held' \subseteq Held, Withheld'
    PROVE  ServiceInv'
  <1>1. Capacity'
    <2>1. Cardinality(Recorded') + Cardinality(Held') <= Cardinality(Recorded) + Cardinality(Held)
      BY SetsTyped, Fewer DEF Declines
    <2>2. Capacity
      BY DEF ServiceInv, ConnectionsTypeOK, Capacity
    <2>3. Recorded' \in SUBSET Keys /\ Held' \in SUBSET Invitations
      BY SetsTyped DEF Declines
    <2>4. /\ Cardinality(Recorded) \in Nat /\ Cardinality(Held) \in Nat
          /\ Cardinality(Recorded') \in Nat /\ Cardinality(Held') \in Nat
      BY SetsTyped, Sizes, <2>3
    <2>5. QED
      BY <2>1, <2>2, <2>4, ConnectionsAssumption DEF Capacity
  <1>2. Ids'
    <2>1. issued \in Nat /\ \A l \in Keys : rows[l].id \in Nat
      BY ConnectionsAssumption DEF ServiceInv, ConnectionsTypeOK, Row
    <2>2. QED
      BY <2>1 DEF Declines, ServiceInv, Ids
  <1>3. QED
    BY <1>1, <1>2 DEF Declines, ServiceInv, ConnectionsTypeOK, Shape, Capacity

LEMMA LeaveKeeps ==
    ASSUME ServiceInv, NEW k \in Keys, LeaveReader(k)
    PROVE  ServiceInv'
  <1>1. Shape
    BY DEF ServiceInv, ConnectionsTypeOK, Shape
  <1>2. \A l \in Keys : rows'[l] \in {rows[l], NoRow}
    BY <1>1 DEF Shape, LeaveReader
  <1>3. rows' \in [Keys -> Row]
    BY <1>1, <1>2, ConnectionsAssumption DEF Shape, LeaveReader, NoRow, Row
  <1>4. Declines
    <2>1. Shape'
      BY <1>1, <1>3 DEF Shape, LeaveReader
    <2>2. \A l \in Keys : rows'[l].id \in {0, rows[l].id}
      BY <1>2 DEF NoRow
    <2>3. QED
      BY <2>1, <2>2 DEF Declines, Recorded, LeaveReader
  <1>5. Held' = Held
    BY DEF Held, LeaveReader
  <1>6. Withheld'
    BY <1>2 DEF ServiceInv, Withheld, LeaveReader, NoRow
  <1>7. QED
    BY <1>4, <1>5, <1>6, DeclineKeeps

LEMMA CreateKeeps ==
    ASSUME ServiceInv, NEW i \in Invitations, CreateInvitation(i)
    PROVE  ServiceInv'
  <1>1. Shape
    BY DEF ServiceInv, ConnectionsTypeOK, Shape
  <1>2. Shape'
    BY <1>1 DEF Shape, CreateInvitation
  <1>3. Held' = Held \cup {i}
    BY <1>1 DEF Shape, Held, CreateInvitation
  <1>4. Recorded' = Recorded
    BY DEF Recorded, CreateInvitation
  <1>5. Capacity'
    <2>1. Cardinality(Recorded) + Cardinality(Held) < MaxRecords
      BY DEF CreateInvitation, HasRoom
    <2>2. Cardinality(Held') <= Cardinality(Held) + 1
      BY <1>3, SetsTyped, Sizes, FS_AddElement
    <2>3. Held' \in SUBSET Invitations
      BY <1>3, SetsTyped
    <2>4. Cardinality(Recorded) \in Nat /\ Cardinality(Held) \in Nat /\ Cardinality(Held') \in Nat
      BY <2>3, SetsTyped, Sizes
    <2>5. QED
      BY <1>4, <2>1, <2>2, <2>4, ConnectionsAssumption DEF Capacity
  <1>6. Ids' /\ Withheld'
    BY DEF CreateInvitation, ServiceInv, Ids, Withheld
  <1>7. QED
    BY <1>2, <1>5, <1>6 DEF ServiceInv, ConnectionsTypeOK, Shape, Capacity

LEMMA RowTyped ==
    ASSUME NEW r \in Row
    PROVE  /\ Tombstone(r) \in Row /\ Tombstone(r).id = r.id /\ Tombstone(r).revoked = TRUE
           /\ Tombstone(r).public = r.public
           /\ [r EXCEPT !.expired = TRUE] \in Row /\ [r EXCEPT !.expired = TRUE].id = r.id
           /\ [r EXCEPT !.expired = TRUE].revoked = r.revoked
           /\ [r EXCEPT !.expired = TRUE].public = r.public
           /\ NoRow \in Row /\ NoRow.id = 0 /\ NoRow.public = FALSE
  <1>1. [r EXCEPT !.expired = TRUE] \in Row
    BY DEF Row
  <1>2. /\ [r EXCEPT !.expired = TRUE].id = r.id
        /\ [r EXCEPT !.expired = TRUE].revoked = r.revoked
        /\ [r EXCEPT !.expired = TRUE].public = r.public
    BY DEF Row
  <1>3. Tombstone(r) \in Row
    BY DEF Row, Tombstone
  <1>4. Tombstone(r).id = r.id
    BY DEF Row, Tombstone
  <1>5. Tombstone(r).public = r.public
    BY DEF Row, Tombstone
  <1>6. Tombstone(r).revoked = TRUE
    BY DEF Row, Tombstone
  <1>7. NoRow \in Row /\ NoRow.id = 0 /\ NoRow.public = FALSE
    BY ConnectionsAssumption DEF Row, NoRow
  <1>8. QED
    BY <1>1, <1>2, <1>3, <1>4, <1>5, <1>6, <1>7

\* What the operator, the clock and the cleanup may do to a row.
Marks == \A k \in Keys : \/ rows'[k] \in {rows[k], Tombstone(rows[k]), NoRow}
                         \/ rows'[k] = [rows[k] EXCEPT !.expired = TRUE]

LEMMA ManageMarks ==
    ASSUME ServiceInv, Manage
    PROVE  Marks
  <1>1. rows \in [Keys -> Row]
    BY DEF ServiceInv, ConnectionsTypeOK
  <1>2. ASSUME NEW i \in Invitations, CreateInvitation(i) \/ RevokeInvitation(i) \/ LapseInvitation(i)
        PROVE  Marks
    BY <1>2 DEF Marks, CreateInvitation, RevokeInvitation, LapseInvitation
  <1>3. ASSUME NEW k \in Keys, RevokeConnection(k) \/ LapseConnection(k)
        PROVE  Marks
    BY <1>1, <1>3 DEF Marks, RevokeConnection, LapseConnection
  <1>4. ASSUME UpdateVisibility PROVE Marks
    BY <1>1, <1>4 DEF Marks, UpdateVisibility, Withdrawn
  <1>5. ASSUME PruneInvitations \/ PruneConnections PROVE Marks
    BY <1>5 DEF Marks, PruneInvitations, PruneConnections
  <1>6. QED
    BY <1>2, <1>3, <1>4, <1>5 DEF Manage

LEMMA ManageKeeps ==
    ASSUME ServiceInv, Manage
    PROVE  ServiceInv'
  <1>1. Shape
    BY DEF ServiceInv, ConnectionsTypeOK, Shape
  <1>2. CASE \E i \in Invitations : CreateInvitation(i)
    BY <1>2, CreateKeeps
  <1>3. CASE ~\E i \in Invitations : CreateInvitation(i)
    <2>1. /\ visibility' \in {"public", "private"}
          /\ invitations' \in [Invitations -> {"unissued", "open", "lapsed", "gone"}]
          /\ issued' = issued
          /\ DOMAIN rows' = Keys /\ rows' = [k \in Keys |-> rows'[k]]
      BY <1>1, <1>3 DEF Shape, Manage, RevokeInvitation, LapseInvitation, RevokeConnection,
           LapseConnection, UpdateVisibility, PruneInvitations, PruneConnections
    <2>2. Marks
      BY ManageMarks
    <2>3. \A k \in Keys : rows'[k] \in Row /\ rows'[k].id \in {0, rows[k].id}
      BY <1>1, <2>2, RowTyped DEF Shape, Marks
    <2>4. Declines
      <3>1. rows' \in [Keys -> Row]
        BY <2>1, <2>3
      <3>2. QED
        BY <1>1, <2>1, <2>3, <3>1 DEF Shape, Declines, Recorded
    <2>5. Held' \subseteq Held
      BY <1>1, <1>3 DEF Shape, Held, Manage, RevokeInvitation, LapseInvitation, RevokeConnection,
           LapseConnection, UpdateVisibility, PruneInvitations, PruneConnections
    <2>6. Withheld'
      <3>1. CASE visibility' = visibility
        <4>1. \A k \in Keys : rows'[k].public = TRUE =>
                  rows[k].public = TRUE /\ rows'[k].revoked \in {TRUE, rows[k].revoked}
          BY <1>1, <2>2, RowTyped DEF Shape, Marks
        <4>2. QED
          BY <3>1, <4>1 DEF ServiceInv, Withheld
      <3>2. CASE visibility' # visibility
        <4>1. UpdateVisibility
          BY <1>3, <3>2 DEF Manage, RevokeInvitation, LapseInvitation, RevokeConnection,
               LapseConnection, PruneInvitations, PruneConnections
        <4>2. visibility' = "private" => rows' = [k \in Keys |-> Withdrawn(rows[k])]
          BY <3>2, <4>1 DEF UpdateVisibility
        <4>3. \A k \in Keys : Withdrawn(rows[k]).public = TRUE => Withdrawn(rows[k]).revoked = TRUE
          BY <1>1 DEF Shape, Withdrawn, Tombstone, Row
        <4>4. QED
          BY <4>2, <4>3 DEF Withheld
      <3>3. QED
        BY <3>1, <3>2
    <2>7. QED
      BY <2>4, <2>5, <2>6, DeclineKeeps
  <1>4. QED
    BY <1>2, <1>3

LEMMA ServiceKeeps ==
    ASSUME ServiceInv, ServiceStep
    PROVE  ServiceInv'
  <1>1. ASSUME UNCHANGED connectionVars PROVE ServiceInv'
    BY <1>1 DEF connectionVars, ServiceInv, ConnectionsTypeOK, Recorded, Held, Ids, Withheld
  <1>2. QED
    BY <1>1, JoinKeeps, LeaveKeeps, ManageKeeps DEF ServiceStep, ConnectReader

LEMMA SameVisibility ==
    ASSUME Manage, visibility' # visibility
    PROVE  UpdateVisibility
  BY DEF Manage, CreateInvitation, RevokeInvitation, LapseInvitation, RevokeConnection,
     LapseConnection, PruneInvitations, PruneConnections

\* Nobody who could not read under an ID that was given can read under it later.
LEMMA RightsEnd ==
    ASSUME ServiceInv, ServiceStep, NEW id \in 1..issued, CanRead(id)'
    PROVE  CanRead(id)
  <1>1. PICK k \in Keys : rows'[k].id = id /\ Live(rows[k])'
    BY DEF CanRead
  <1>2. /\ rows'[k].id # 0 /\ ~rows'[k].revoked /\ ~rows'[k].expired
        /\ ~rows'[k].public \/ visibility' = "public"
    BY <1>1 DEF Live, Visible
  <1>3. rows \in [Keys -> Row] /\ issued \in Nat /\ id \in Nat /\ id # 0
    BY ConnectionsAssumption DEF ServiceInv, ConnectionsTypeOK
  <1>4. SUFFICES rows'[k] = rows[k] /\ (~rows[k].public \/ visibility = "public")
    BY <1>1, <1>2 DEF CanRead, Live, Visible
  <1>5. ASSUME NEW l \in Keys, NEW i \in Invitations \cup {NoInvitation}, Join(l, i)
        PROVE  rows'[k] = rows[k] /\ visibility' = visibility
    <2>1. CASE k = l
      <3>1. rows'[l].id = issued + 1
        BY <1>3, <1>5 DEF Join, NewId
      <3>2. QED
        BY <1>1, <1>3, <2>1, <3>1
    <2>2. CASE k # l
      BY <1>3, <1>5, <2>2 DEF Join
    <2>3. QED
      BY <2>1, <2>2
  <1>6. ASSUME NEW l \in Keys, LeaveReader(l)
        PROVE  rows'[k] = rows[k] /\ visibility' = visibility
    <2>1. rows'[k] \in {rows[k], NoRow} /\ visibility' = visibility
      BY <1>3, <1>6 DEF LeaveReader
    <2>2. QED
      BY <1>2, <2>1 DEF NoRow
  <1>7. ASSUME Manage
        PROVE  rows'[k] = rows[k] /\ (~rows[k].public \/ visibility = "public")
    <2>1. rows'[k] = rows[k]
      <3>1. \/ rows'[k] \in {rows[k], Tombstone(rows[k]), NoRow}
            \/ rows'[k] = [rows[k] EXCEPT !.expired = TRUE]
        BY <1>7, ManageMarks DEF Marks
      <3>2. rows'[k] # NoRow
        BY <1>2 DEF NoRow
      <3>3. rows'[k] # Tombstone(rows[k])
        <4>1. rows[k] \in Row
          BY <1>3
        <4>2. Tombstone(rows[k]).revoked = TRUE
          BY <4>1, RowTyped
        <4>3. QED
          BY <1>2, <4>2
      <3>4. [rows[k] EXCEPT !.expired = TRUE].expired = TRUE
        BY <1>3 DEF Row
      <3>5. QED
        BY <1>2, <3>1, <3>2, <3>3, <3>4
    <2>2. CASE visibility' = visibility
      BY <1>2, <2>1, <2>2
    <2>3. CASE visibility' # visibility
      <3>1. UpdateVisibility
        BY <1>7, <2>3, SameVisibility
      <3>2. visibility = "private" \/ visibility' = "private"
        BY <3>1 DEF UpdateVisibility
      <3>3. visibility = "private" => ~rows[k].public
        BY <1>2, <1>3, <2>1 DEF ServiceInv, Withheld, Row
      <3>4. QED
        BY <1>2, <2>1, <3>1, <3>3 DEF UpdateVisibility
    <2>4. QED
      BY <2>1, <2>2, <2>3
  <1>8. QED
    BY <1>2, <1>5, <1>6, <1>7 DEF ServiceStep, ConnectReader, connectionVars

\* A tombstone gives way to an invitation that counts, or expires.
StaysOut(k) ==
    rows[k].revoked /\ ~rows[k].expired /\ rows'[k] # rows[k]
        => \/ rows'[k] = [rows[k] EXCEPT !.expired = TRUE]
           \/ \E i \in Invitations : invitations[i] = "open" /\ invitations'[i] = "gone"

LEMMA TombstonesStay ==
    ASSUME ServiceInv, ServiceStep, NEW k \in Keys
    PROVE  StaysOut(k)
  <1>1. SUFFICES ASSUME rows[k].revoked, ~rows[k].expired, rows'[k] # rows[k]
                 PROVE  \/ rows'[k] = [rows[k] EXCEPT !.expired = TRUE]
                        \/ \E i \in Invitations : invitations[i] = "open" /\ invitations'[i] = "gone"
    BY DEF StaysOut
  <1>2. rows \in [Keys -> Row] /\ DOMAIN invitations = Invitations
    BY DEF ServiceInv, ConnectionsTypeOK
  <1>3. ASSUME NEW l \in Keys, NEW i \in Invitations \cup {NoInvitation}, Join(l, i)
        PROVE  \E j \in Invitations : invitations[j] = "open" /\ invitations'[j] = "gone"
    <2>1. k = l
      BY <1>1, <1>2, <1>3 DEF Join
    <2>2. ~Existing(k, i)
      BY <1>1 DEF Existing, Live
    <2>3. i # NoInvitation
      BY <1>1, <1>3, <2>1, <2>2 DEF Join, Admissible, Banned
    <2>4. invitations[i] = "open" /\ i \in Invitations
      BY <1>3, <2>1, <2>2, <2>3 DEF Join, Admissible, Spent
    <2>5. invitations'[i] = "gone"
      BY <1>2, <1>3, <2>4 DEF Join
    <2>6. QED
      BY <2>4, <2>5
  <1>4. ASSUME NEW l \in Keys, LeaveReader(l) PROVE FALSE
    BY <1>1, <1>2, <1>4 DEF LeaveReader, Removable
  <1>5. ASSUME Manage PROVE rows'[k] = [rows[k] EXCEPT !.expired = TRUE]
    <2>1. ASSUME UpdateVisibility PROVE FALSE
      BY <1>1, <1>2, <2>1 DEF UpdateVisibility, Withdrawn
    <2>2. ASSUME NEW l \in Keys, RevokeConnection(l) PROVE FALSE
      BY <1>1, <1>2, <2>2 DEF RevokeConnection, Removable
    <2>3. ASSUME PruneConnections PROVE FALSE
      BY <1>1, <1>2, <2>3 DEF PruneConnections
    <2>4. ASSUME NEW l \in Keys, LapseConnection(l)
          PROVE  rows'[k] = [rows[k] EXCEPT !.expired = TRUE]
      BY <1>1, <1>2, <2>4 DEF LapseConnection
    <2>5. QED
      BY <1>1, <1>5, <2>1, <2>2, <2>3, <2>4
         DEF Manage, CreateInvitation, RevokeInvitation, LapseInvitation, PruneInvitations
  <1>6. QED
    BY <1>1, <1>3, <1>4, <1>5 DEF ServiceStep, ConnectReader, connectionVars

-----------------------------------------------------------------------------
(* The projects. *)

Managers ==
    [pc : {"idle", "connecting", "connected", "keyed", "leaving", "left", "unlinking"},
     key : Keys \cup {NoKey}, invitation : Invitations \cup {NoInvitation},
     answer : {"none", "ok", "forbidden", "unavailable", "full"}]
Agents ==
    [pc : {"idle", "asking", "queued", "denied", "served"},
     key : Keys \cup {NoKey}, id : 0..MaxConnections, renewed : BOOLEAN]

ClientType ==
    /\ keyring \in [Projects -> [key : Keys \cup {NoKey}, bound : BOOLEAN]]
    /\ linked \in [Projects -> BOOLEAN]
    /\ manager \in [Projects -> Managers]
    /\ agent \in [Projects -> Agents]
    /\ late \in SUBSET Request
    /\ forgotten \in SUBSET Keys

\* The keys that are in a keyring or were deleted on purpose.
Known == {k \in Keys : k \in forgotten \/ \E p \in Projects : keyring[p].key = k}

\* A manager that talks to the service keeps its key in the keyring, and no
\* request, waiting or late, carries a key that nobody has.
KeyInv ==
    /\ \A p \in Projects :
         /\ manager[p].pc \in {"connecting", "connected", "keyed", "leaving"} =>
                manager[p].key # NoKey /\ manager[p].key = keyring[p].key
         /\ keyring[p].bound = TRUE => keyring[p].key # NoKey
         /\ agent[p].pc \in {"asking", "denied"} => agent[p].key \in Known
    /\ \A r \in late : r.key \in Known

ClientInv == ClientType /\ KeyInv /\ InvitationHonoured

IInv == ServiceInv /\ ClientInv /\ Recorded \subseteq Known

LEMMA TypeParts == TypeOK <=> ConnectionsTypeOK /\ ClientType
  BY DEF TypeOK, ClientType, Managers, Agents

\* What a step of a project may do to its keyring.
KeepsKeys == \A p \in Projects : \/ keyring'[p].key = keyring[p].key
                                 \/ keyring[p].key = NoKey
                                 \/ keyring[p].key \in forgotten'

LEMMA KnownGrows ==
    ASSUME KeepsKeys, forgotten \subseteq forgotten'
    PROVE  Known \subseteq Known'
  BY ProjectKeysAssumption DEF KeepsKeys, Known

\* Connect
LEMMA StartConnectClient ==
    ASSUME IInv, NEW p \in Projects, NEW i \in Invitations \cup {NoInvitation}, StartConnect(p, i)
    PROVE  ClientInv' /\ Known \subseteq Known'
  <1>1. PICK k \in IF keyring[p].key = NoKey THEN Fresh ELSE {keyring[p].key} :
            /\ PersistFirst(p, k)
            /\ manager' = [manager EXCEPT ![p] =
                  [pc |-> "connecting", key |-> k, invitation |-> i, answer |-> "none"]]
    BY DEF StartConnect
  <1>2. ClientType /\ KeyInv /\ InvitationHonoured
    BY DEF IInv, ClientInv
  <1>3. k \in Keys
    BY <1>1, <1>2 DEF ClientType, Fresh
  <1>4. ClientType'
    BY <1>1, <1>2, <1>3 DEF ClientType, Managers, StartConnect, PersistFirst
  <1>5. keyring'[p].key = k /\ \A q \in Projects \ {p} : keyring'[q] = keyring[q]
    BY <1>1, <1>2 DEF ClientType, PersistFirst
  <1>6. KeepsKeys
    BY <1>1, <1>5 DEF KeepsKeys
  <1>7. Known \subseteq Known'
    BY <1>6, KnownGrows DEF StartConnect
  <1>8. keyring'[p].bound = TRUE => keyring'[p].key # NoKey
    BY <1>3, <1>5, ProjectKeysAssumption
  <1>9. KeyInv'
    BY <1>1, <1>2, <1>3, <1>5, <1>7, <1>8, ProjectKeysAssumption DEF ClientType, KeyInv, StartConnect
  <1>10. InvitationHonoured'
    BY <1>1, <1>2 DEF ClientType, InvitationHonoured
  <1>11. QED
    BY <1>4, <1>7, <1>9, <1>10 DEF ClientInv

\* What leaves keyrings, agents and late requests alone.
OnlyManager(p) ==
    /\ UNCHANGED <<keyring, agent, late, forgotten>>
    /\ linked' \in [Projects -> BOOLEAN]
    /\ \E m \in Managers :
         /\ manager' = [manager EXCEPT ![p] = m]
         /\ m.pc \in {"connecting", "connected", "keyed", "leaving"} =>
                m.key # NoKey /\ m.key = keyring[p].key
         /\ m.pc = "connected" /\ m.answer = "full" => m.invitation = NoInvitation

LEMMA OnlyManagerKeeps ==
    ASSUME IInv, NEW p \in Projects, OnlyManager(p)
    PROVE  ClientInv' /\ Known \subseteq Known'
  <1>1. ClientType /\ KeyInv /\ InvitationHonoured
    BY DEF IInv, ClientInv
  <1>2. Known' = Known
    BY DEF OnlyManager, Known
  <1>3. ClientType'
    BY <1>1 DEF ClientType, OnlyManager
  <1>4. KeyInv'
    BY <1>1, <1>2 DEF ClientType, KeyInv, OnlyManager
  <1>5. InvitationHonoured'
    BY <1>1 DEF ClientType, InvitationHonoured, OnlyManager
  <1>6. QED
    BY <1>2, <1>3, <1>4, <1>5 DEF ClientInv

LEMMA OnlyManagerBy ==
    ASSUME UNCHANGED <<keyring, agent, late, forgotten>>, linked' \in [Projects -> BOOLEAN],
           NEW p \in Projects, NEW m \in Managers, manager' = [manager EXCEPT ![p] = m],
           m.pc \in {"connecting", "connected", "keyed", "leaving"} =>
                m.key # NoKey /\ m.key = keyring[p].key,
           m.pc = "connected" /\ m.answer = "full" => m.invitation = NoInvitation
    PROVE  OnlyManager(p)
  BY DEF OnlyManager

LEMMA NoManagerTyped == NoManager \in Managers /\ NoManager.pc = "idle"
  BY DEF NoManager, Managers

\* The process inside Connect or Disconnect.
LEMMA ManagerSteps ==
    ASSUME IInv, NEW p \in Projects,
           \/ ServeConnect(p) \/ (\E i \in Invitations : Grant(p, i)) \/ SaveLink(p)
           \/ StartDisconnect(p) \/ ServeLeave(p) \/ Unlink(p) \/ StopManager(p)
    PROVE  OnlyManager(p)
  <1>1. ClientType /\ KeyInv /\ InvitationHonoured /\ ConnectionsTypeOK
    BY DEF IInv, ClientInv, ServiceInv
  <1>2. manager[p] \in Managers /\ linked \in [Projects -> BOOLEAN] /\ keyring[p].key \in Keys \cup {NoKey}
    BY <1>1 DEF ClientType
  <1>3. ASSUME ServeConnect(p) PROVE OnlyManager(p)
    <2> DEFINE a == Refusal(manager[p].key, manager[p].invitation)
               m == [manager[p] EXCEPT !.pc = "connected", !.answer = a]
    <2>1. manager' = [manager EXCEPT ![p] = m] /\ manager[p].pc = "connecting"
      BY <1>1, <1>3 DEF ServeConnect, ClientType
    <2>2. manager[p].key # NoKey /\ manager[p].key = keyring[p].key
      BY <1>1, <2>1 DEF KeyInv
    <2>3. manager[p].key \in Keys /\ manager[p].invitation \in Invitations \cup {NoInvitation}
      BY <1>2, <2>2 DEF Managers
    <2>4. a = "full" => manager[p].invitation = NoInvitation
      BY <1>1, <2>3, FullWithoutInvitation
    <2>5. a \in {"ok", "forbidden", "unavailable", "full"}
      BY RefusalTyped
    <2> HIDE DEF a
    <2>6. m \in Managers
      BY <1>2, <2>5 DEF Managers
    <2>7. m.key = manager[p].key /\ m.invitation = manager[p].invitation /\ m.answer = a
      BY <1>2 DEF Managers
    <2> HIDE DEF m
    <2>8. QED
      BY <1>2, <1>3, <2>1, <2>2, <2>4, <2>6, <2>7, OnlyManagerBy DEF ServeConnect
  <1>4. ASSUME NEW i \in Invitations, Grant(p, i) PROVE OnlyManager(p)
    <2> DEFINE m == [manager[p] EXCEPT !.pc = "connecting", !.invitation = i, !.answer = "none"]
    <2>1. manager' = [manager EXCEPT ![p] = m] /\ manager[p].pc = "connected"
      BY <1>1, <1>4 DEF Grant, ClientType
    <2>2. manager[p].key # NoKey /\ manager[p].key = keyring[p].key
      BY <1>1, <2>1 DEF KeyInv
    <2>3. m \in Managers
      BY <1>2 DEF Managers
    <2>4. m.key = manager[p].key /\ m.pc = "connecting"
      BY <1>2 DEF Managers
    <2> HIDE DEF m
    <2>5. QED
      BY <1>2, <1>4, <2>1, <2>2, <2>3, <2>4, OnlyManagerBy DEF Grant
  <1>5. ASSUME SaveLink(p) \/ Unlink(p) \/ StopManager(p) PROVE OnlyManager(p)
    <2>1. manager' = [manager EXCEPT ![p] = NoManager] /\ linked' \in [Projects -> BOOLEAN]
      BY <1>2, <1>5 DEF SaveLink, Unlink, StopManager
    <2>2. QED
      BY <1>5, <2>1, NoManagerTyped, OnlyManagerBy DEF SaveLink, Unlink, StopManager
  <1>6. ASSUME StartDisconnect(p) PROVE OnlyManager(p)
    <2> DEFINE m == [NoManager EXCEPT !.pc = IF keyring[p].key = NoKey THEN "left" ELSE "leaving",
                                      !.key = keyring[p].key]
    <2>1. manager' = [manager EXCEPT ![p] = m]
      BY <1>6 DEF StartDisconnect
    <2>2. m \in Managers
      BY <1>2 DEF Managers, NoManager
    <2>3. m.key = keyring[p].key /\ m.pc = (IF keyring[p].key = NoKey THEN "left" ELSE "leaving")
      BY DEF NoManager
    <2> HIDE DEF m
    <2>4. QED
      BY <1>2, <1>6, <2>1, <2>2, <2>3, OnlyManagerBy DEF StartDisconnect
  <1>7. ASSUME ServeLeave(p) PROVE OnlyManager(p)
    <2> DEFINE m == [manager[p] EXCEPT !.pc = "left"]
    <2>1. manager' = [manager EXCEPT ![p] = m]
      BY <1>1, <1>7 DEF ServeLeave, ClientType
    <2>2. m \in Managers /\ m.pc = "left"
      BY <1>2 DEF Managers
    <2> HIDE DEF m
    <2>3. QED
      BY <1>2, <1>7, <2>1, <2>2, OnlyManagerBy DEF ServeLeave
  <1>8. QED
    BY <1>3, <1>4, <1>5, <1>6, <1>7

LEMMA SaveKeyClient ==
    ASSUME IInv, NEW p \in Projects, SaveKey(p)
    PROVE  ClientInv' /\ Known \subseteq Known'
  <1>1. ClientType /\ KeyInv /\ InvitationHonoured
    BY DEF IInv, ClientInv
  <1>2. /\ manager[p] \in Managers /\ manager[p].pc = "connected"
        /\ manager[p].key # NoKey /\ manager[p].key = keyring[p].key
    BY <1>1 DEF ClientType, KeyInv, SaveKey
  <1>3. manager[p].key \in Keys
    BY <1>2 DEF Managers
  <1> DEFINE m == [NoManager EXCEPT !.pc = "keyed", !.key = manager[p].key]
  <1>4. m \in Managers
    BY <1>3 DEF Managers, NoManager
  <1>5. m.pc = "keyed" /\ m.key = manager[p].key
    BY DEF NoManager
  <1>6. manager' = [manager EXCEPT ![p] = m]
    BY DEF SaveKey
  <1> HIDE DEF m
  <1>7. ClientType'
    BY <1>1, <1>3, <1>4, <1>6 DEF ClientType, SaveKey
  <1>8. /\ keyring'[p].key = keyring[p].key
        /\ \A q \in Projects \ {p} : keyring'[q] = keyring[q]
    BY <1>1, <1>2 DEF ClientType, SaveKey
  <1>9. KeepsKeys
    BY <1>8 DEF KeepsKeys
  <1>10. Known \subseteq Known'
    BY <1>9, KnownGrows DEF SaveKey
  <1>11. KeyInv'
    BY <1>1, <1>2, <1>5, <1>6, <1>8, <1>10 DEF ClientType, KeyInv, SaveKey
  <1>12. InvitationHonoured'
    BY <1>1, <1>5, <1>6 DEF ClientType, InvitationHonoured
  <1>13. QED
    BY <1>7, <1>10, <1>11, <1>12 DEF ClientInv

\* Deleting a key, by Disconnect or by the user, makes it forgotten.
LEMMA DeleteClient ==
    ASSUME IInv, NEW p \in Projects, DeleteKey(p) \/ LoseKey(p)
    PROVE  ClientInv' /\ Known \subseteq Known'
  <1>1. ClientType /\ KeyInv /\ InvitationHonoured
    BY DEF IInv, ClientInv
  <1> DEFINE u == [NoManager EXCEPT !.pc = "unlinking"]
  <1>2. u \in Managers /\ u.pc = "unlinking"
    BY DEF Managers, NoManager
  <1>3. (manager' = manager /\ manager[p].pc = "idle") \/ manager' = [manager EXCEPT ![p] = u]
    BY DEF DeleteKey, LoseKey
  <1> HIDE DEF u
  <1>4. /\ keyring' = [keyring EXCEPT ![p] = NoRing]
        /\ forgotten' = forgotten \cup ({keyring[p].key} \ {NoKey})
        /\ UNCHANGED <<linked, agent, late>>
    BY <1>1 DEF DeleteKey, LoseKey
  <1>5. NoRing \in [key : Keys \cup {NoKey}, bound : BOOLEAN] /\ NoRing.key = NoKey /\ NoRing.bound = FALSE
    BY DEF NoRing
  <1>6. ClientType'
    BY <1>1, <1>2, <1>3, <1>4, <1>5 DEF ClientType
  <1>7. /\ keyring'[p] = NoRing /\ \A q \in Projects \ {p} : keyring'[q] = keyring[q]
    BY <1>1, <1>4 DEF ClientType
  <1>8. KeepsKeys
    BY <1>4, <1>7 DEF KeepsKeys
  <1>9. Known \subseteq Known'
    BY <1>4, <1>8, KnownGrows
  <1>10. /\ manager'[p].pc \in {"idle", "unlinking"}
         /\ \A q \in Projects \ {p} : manager'[q] = manager[q]
    BY <1>1, <1>2, <1>3 DEF ClientType
  <1>11. KeyInv'
    BY <1>1, <1>4, <1>5, <1>7, <1>9, <1>10 DEF KeyInv
  <1>12. InvitationHonoured'
    BY <1>1, <1>10 DEF InvitationHonoured
  <1>13. QED
    BY <1>6, <1>9, <1>11, <1>12 DEF ClientInv

LEMMA TimeOutClient ==
    ASSUME IInv, NEW p \in Projects, TimeOut(p)
    PROVE  ClientInv' /\ Known \subseteq Known'
  <1>1. ClientType /\ KeyInv /\ InvitationHonoured
    BY DEF IInv, ClientInv
  <1>2. manager[p] \in Managers /\ keyring[p].key \in Keys \cup {NoKey}
    BY <1>1 DEF ClientType
  <1>3. manager[p].key # NoKey /\ manager[p].key = keyring[p].key
    BY <1>1 DEF KeyInv, TimeOut
  <1>4. manager[p].key \in Known
    BY <1>2, <1>3 DEF Known
  <1>5. Pending(p) \in Request /\ Pending(p).key = manager[p].key
    <2>1. /\ (IF manager[p].pc = "leaving" THEN "leave" ELSE "connect") \in {"connect", "leave"}
          /\ manager[p].key \in Keys
          /\ manager[p].invitation \in Invitations \cup {NoInvitation}
      BY <1>2, <1>3 DEF Managers
    <2>2. QED
      BY <2>1 DEF Pending, Request
  <1> DEFINE left == [manager[p] EXCEPT !.pc = "left"]
             m == IF manager[p].pc = "leaving" THEN left ELSE NoManager
  <1>6. left \in Managers /\ left.pc = "left"
    BY <1>2 DEF Managers
  <1> HIDE DEF left
  <1>7. m \in Managers /\ m.pc \in {"left", "idle"}
    BY <1>6, NoManagerTyped
  <1>8. manager' = [manager EXCEPT ![p] = m]
    BY DEF TimeOut, left
  <1> HIDE DEF m
  <1>9. ClientType'
    BY <1>1, <1>5, <1>7, <1>8 DEF ClientType, TimeOut
  <1>10. Known' = Known
    BY DEF Known, TimeOut
  <1>11. KeyInv'
    BY <1>1, <1>4, <1>5, <1>7, <1>8, <1>10 DEF ClientType, KeyInv, TimeOut
  <1>12. InvitationHonoured'
    BY <1>1, <1>7, <1>8 DEF ClientType, InvitationHonoured
  <1>13. QED
    BY <1>9, <1>10, <1>11, <1>12 DEF ClientInv

LEMMA ServeLateClient ==
    ASSUME IInv, NEW r \in late, ServeLate(r)
    PROVE  ClientInv' /\ Known \subseteq Known'
  <1>1. ClientType /\ KeyInv /\ InvitationHonoured
    BY DEF IInv, ClientInv
  <1>2. UNCHANGED <<keyring, linked, manager, agent, forgotten>> /\ late' \subseteq late
    BY DEF ServeLate
  <1>3. ClientType'
    BY <1>1, <1>2 DEF ClientType
  <1>4. Known' = Known
    BY <1>2 DEF Known
  <1>5. KeyInv' /\ InvitationHonoured'
    BY <1>1, <1>2, <1>4 DEF KeyInv, InvitationHonoured
  <1>6. QED
    BY <1>3, <1>4, <1>5 DEF ClientInv

\* The agent: whoever asks or renews does so with a key that was in the keyring.
OnlyAgent(p) ==
    /\ UNCHANGED <<keyring, linked, manager, late, forgotten>>
    /\ \E a \in Agents : /\ agent' = [agent EXCEPT ![p] = a]
                         /\ a.pc \in {"asking", "denied"} => a.key \in Known

LEMMA OnlyAgentKeeps ==
    ASSUME IInv, NEW p \in Projects, OnlyAgent(p)
    PROVE  ClientInv' /\ Known \subseteq Known'
  <1>1. ClientType /\ KeyInv /\ InvitationHonoured
    BY DEF IInv, ClientInv
  <1>2. PICK a \in Agents : /\ agent' = [agent EXCEPT ![p] = a]
                            /\ a.pc \in {"asking", "denied"} => a.key \in Known
    BY DEF OnlyAgent
  <1>3. ClientType'
    <2>1. agent' \in [Projects -> Agents]
      BY <1>1, <1>2 DEF ClientType
    <2>2. QED
      BY <1>1, <2>1 DEF ClientType, OnlyAgent
  <1>4. Known' = Known
    BY DEF Known, OnlyAgent
  <1>5. \A q \in Projects : agent'[q].pc \in {"asking", "denied"} => agent'[q].key \in Known
    BY <1>1, <1>2 DEF ClientType, KeyInv
  <1>6. KeyInv'
    BY <1>1, <1>4, <1>5 DEF KeyInv, OnlyAgent
  <1>7. InvitationHonoured'
    BY <1>1 DEF InvitationHonoured, OnlyAgent
  <1>8. QED
    BY <1>3, <1>4, <1>6, <1>7 DEF ClientInv

LEMMA AgentSteps ==
    ASSUME IInv, NEW p \in Projects,
           StartRead(p) \/ Identify(p) \/ Renew(p) \/ Execute(p) \/ StopRead(p)
    PROVE  OnlyAgent(p)
  <1>1. ClientType /\ KeyInv /\ ConnectionsTypeOK
    BY DEF IInv, ClientInv, ServiceInv
  <1>2. agent[p] \in Agents /\ keyring[p].key \in Keys \cup {NoKey} /\ keyring[p].bound \in BOOLEAN
    BY <1>1 DEF ClientType
  <1>3. NoAgent \in Agents /\ NoAgent.pc = "idle"
    BY ConnectionsAssumption DEF Agents, NoAgent
  <1>4. ASSUME StartRead(p) PROVE OnlyAgent(p)
    <2> DEFINE a == [NoAgent EXCEPT !.pc = "asking", !.key = keyring[p].key]
    <2>1. a \in Agents
      BY <1>2, <1>3 DEF Agents
    <2>2. a.key = keyring[p].key
      BY DEF NoAgent
    <2>3. keyring[p].key \in Known
      BY <1>1, <1>2, <1>4 DEF KeyInv, StartRead, Known
    <2>4. agent' = [agent EXCEPT ![p] = a]
      BY <1>4 DEF StartRead
    <2> HIDE DEF a
    <2>5. QED
      BY <1>4, <2>1, <2>2, <2>3, <2>4 DEF OnlyAgent, StartRead
  <1>5. ASSUME StopRead(p) PROVE OnlyAgent(p)
    BY <1>3, <1>5 DEF OnlyAgent, StopRead
  <1>6. ASSUME Execute(p) PROVE OnlyAgent(p)
    <2> DEFINE s == [agent[p] EXCEPT !.pc = "served"]
               a == IF Authorized(agent[p].id) THEN s ELSE NoAgent
    <2>1. s \in Agents /\ s.pc = "served"
      BY <1>2 DEF Agents
    <2> HIDE DEF s
    <2>2. a \in Agents /\ a.pc \in {"served", "idle"}
      BY <1>3, <2>1
    <2>3. agent' = [agent EXCEPT ![p] = a]
      BY <1>6 DEF Execute, s
    <2> HIDE DEF a
    <2>4. QED
      BY <1>6, <2>2, <2>3 DEF OnlyAgent, Execute
  <1>7. ASSUME Renew(p) PROVE OnlyAgent(p)
    <2> DEFINE s == [agent[p] EXCEPT !.pc = "asking", !.renewed = TRUE]
               a == IF Refusal(agent[p].key, NoInvitation) = "ok" THEN s ELSE NoAgent
    <2>1. s \in Agents
      BY <1>2 DEF Agents
    <2>2. s.key = agent[p].key
      BY <1>2 DEF Agents
    <2>3. agent[p].key \in Known
      BY <1>1, <1>7 DEF KeyInv, Renew
    <2>4. agent' = [agent EXCEPT ![p] = a]
      BY <1>7 DEF Renew
    <2> HIDE DEF s
    <2>5. a \in Agents /\ (a.pc \in {"asking", "denied"} => a.key \in Known)
      BY <1>3, <2>1, <2>2, <2>3
    <2> HIDE DEF a
    <2>6. QED
      BY <1>7, <2>4, <2>5 DEF OnlyAgent, Renew
  <1>8. ASSUME Identify(p) PROVE OnlyAgent(p)
    <2> DEFINE row == rows[agent[p].key]
               d == [agent[p] EXCEPT !.pc = "denied"]
               q == [NoAgent EXCEPT !.pc = "queued", !.id = row.id]
    <2>1. agent[p].key \in Known /\ agent[p].key \in Keys
      BY <1>1, <1>8 DEF KeyInv, Identify, Known
    <2>2. row.id \in 0..MaxConnections /\ row.revoked \in BOOLEAN /\ row.expired \in BOOLEAN
      BY <1>1, <2>1 DEF ConnectionsTypeOK, Row
    <2>3. d \in Agents
      BY <1>2 DEF Agents
    <2>4. d.key = agent[p].key
      BY <1>2 DEF Agents
    <2>5. q \in Agents
      BY <2>2 DEF Agents, NoAgent
    <2>6. q.pc = "queued"
      BY DEF NoAgent
    <2>7. \E a \in {d, NoAgent, q} : agent' = [agent EXCEPT ![p] = a]
      <3>1. CASE row.id = 0
        BY <1>8, <3>1 DEF Identify, Live
      <3>2. CASE row.id # 0 /\ (row.revoked \/ ~Visible(row))
        BY <1>8, <3>2 DEF Identify, Live
      <3>3. CASE row.id # 0 /\ ~row.revoked /\ Visible(row) /\ row.expired
        BY <1>8, <3>3 DEF Identify, Live
      <3>4. CASE row.id # 0 /\ ~row.revoked /\ Visible(row) /\ ~row.expired
        <4>1. Live(row)
          BY <3>4 DEF Live
        <4>2. QED
          BY <1>8, <3>4, <4>1 DEF Identify
      <3>5. QED
        BY <3>1, <3>2, <3>3, <3>4
    <2> HIDE DEF d, q
    <2>8. QED
      BY <1>3, <1>8, <2>1, <2>3, <2>4, <2>5, <2>6, <2>7 DEF OnlyAgent, Identify
  <1>9. QED
    BY <1>4, <1>5, <1>6, <1>7, <1>8

-----------------------------------------------------------------------------
(* The two together. *)

LEMMA ConnectRecords ==
    ASSUME ServiceInv, NEW k \in Keys, NEW i \in Invitations \cup {NoInvitation}, ConnectReader(k, i)
    PROVE  Recorded' \subseteq Recorded \cup {k}
  <1>1. rows \in [Keys -> Row]
    BY DEF ServiceInv, ConnectionsTypeOK
  <1>2. \A l \in Keys \ {k} : rows'[l] = rows[l]
    BY <1>1 DEF ConnectReader, Join, connectionVars
  <1>3. QED
    BY <1>2 DEF Recorded

LEMMA OthersRecordNothing ==
    ASSUME ServiceInv, (\E k \in Keys : LeaveReader(k)) \/ Manage \/ UNCHANGED connectionVars
    PROVE  Recorded' \subseteq Recorded
  <1>1. rows \in [Keys -> Row]
    BY DEF ServiceInv, ConnectionsTypeOK
  <1>2. ASSUME NEW k \in Keys, LeaveReader(k) PROVE Recorded' \subseteq Recorded
    BY <1>1, <1>2 DEF LeaveReader, Recorded, NoRow
  <1>3. ASSUME Manage PROVE Recorded' \subseteq Recorded
    <2>1. Marks
      BY <1>3, ManageMarks
    <2>2. \A k \in Keys : rows[k] \in Row
      BY <1>1
    <2>3. \A k \in Keys : rows'[k].id \in {0, rows[k].id}
      BY <2>1, <2>2, RowTyped DEF Marks
    <2>4. QED
      BY <2>3 DEF Recorded
  <1>4. ASSUME UNCHANGED connectionVars PROVE Recorded' \subseteq Recorded
    BY <1>4 DEF connectionVars, Recorded
  <1>5. QED
    BY <1>2, <1>3, <1>4

\* Every step of the system is one of the service, with a key somebody has.
Served == ServiceStep /\ Recorded' \subseteq Known

LEMMA ConnectServed ==
    ASSUME IInv, NEW k \in Known, NEW i \in Invitations \cup {NoInvitation}, ConnectReader(k, i)
    PROVE  Served
  BY ConnectRecords DEF IInv, Served, ServiceStep, Known

LEMMA OthersServed ==
    ASSUME IInv, (\E k \in Keys : LeaveReader(k)) \/ Manage \/ UNCHANGED connectionVars
    PROVE  Served
  BY OthersRecordNothing DEF IInv, Served, ServiceStep

LEMMA ProjectServed ==
    ASSUME IInv, NEW p \in Projects, Project(p)
    PROVE  Served
  <1>1. ClientType /\ KeyInv
    BY DEF IInv, ClientInv
  <1>2. /\ manager[p] \in Managers /\ agent[p] \in Agents
        /\ keyring[p].key \in Keys \cup {NoKey}
    BY <1>1 DEF ClientType
  <1>3. manager[p].pc \in {"connecting", "leaving"} => manager[p].key \in Known
    BY <1>1, <1>2 DEF KeyInv, Known
  <1>4. ASSUME ServeConnect(p) PROVE Served
    <2>1. /\ manager[p].key \in Known
          /\ manager[p].invitation \in Invitations \cup {NoInvitation}
          /\ ConnectReader(manager[p].key, manager[p].invitation)
      BY <1>2, <1>3, <1>4 DEF ServeConnect, Managers
    <2>2. QED
      BY <2>1, ConnectServed
  <1>5. ASSUME ServeLeave(p) PROVE Served
    <2>1. manager[p].key \in Keys /\ LeaveReader(manager[p].key)
      BY <1>3, <1>5 DEF ServeLeave, Known
    <2>2. QED
      BY <2>1, OthersServed
  <1>6. ASSUME Renew(p) PROVE Served
    <2>1. agent[p].key \in Known /\ ConnectReader(agent[p].key, NoInvitation)
      BY <1>1, <1>6 DEF Renew, KeyInv
    <2>2. QED
      BY <2>1, ConnectServed
  <1>7. ASSUME NEW i \in Invitations, Grant(p, i) PROVE Served
    <2>1. Manage
      BY <1>7 DEF Grant, Manage
    <2>2. QED
      BY <2>1, OthersServed
  <1>8. CASE UNCHANGED connectionVars
    BY <1>8, OthersServed
  <1>9. QED
    BY <1>4, <1>5, <1>6, <1>7, <1>8 DEF Project, StartConnect, SaveKey, SaveLink, StartDisconnect,
       DeleteKey, Unlink, TimeOut, StopManager, LoseKey, StartRead, Identify, Execute, StopRead

LEMMA NextServed ==
    ASSUME IInv, [Next]_vars
    PROVE  Served
  <1>1. ASSUME NEW r \in late, ServeLate(r) PROVE Served
    <2>1. /\ r.key \in Known /\ r.key \in Keys
          /\ r.invitation \in Invitations \cup {NoInvitation}
      BY DEF IInv, ClientInv, ClientType, KeyInv, Known, Request
    <2>2. \/ ConnectReader(r.key, r.invitation) \/ LeaveReader(r.key) \/ UNCHANGED connectionVars
      BY <1>1 DEF ServeLate
    <2>3. QED
      BY <2>1, <2>2, ConnectServed, OthersServed
  <1>2. QED
    BY <1>1, ProjectServed, OthersServed DEF Next, vars

LEMMA NextClient ==
    ASSUME IInv, [Next]_vars
    PROVE  ClientInv' /\ Known \subseteq Known'
  <1>1. ASSUME UNCHANGED clientVars
        PROVE  ClientInv' /\ Known \subseteq Known'
    BY <1>1 DEF clientVars, IInv, ClientInv, ClientType, KeyInv, Known, InvitationHonoured
  <1>2. ASSUME NEW p \in Projects, Project(p)
        PROVE  ClientInv' /\ Known \subseteq Known'
    <2>1. ASSUME NEW i \in Invitations \cup {NoInvitation}, StartConnect(p, i)
          PROVE  ClientInv' /\ Known \subseteq Known'
      BY <2>1, StartConnectClient
    <2>2. CASE \/ ServeConnect(p) \/ (\E i \in Invitations : Grant(p, i)) \/ SaveLink(p)
               \/ StartDisconnect(p) \/ ServeLeave(p) \/ Unlink(p) \/ StopManager(p)
      BY <2>2, ManagerSteps, OnlyManagerKeeps
    <2>3. CASE StartRead(p) \/ Identify(p) \/ Renew(p) \/ Execute(p) \/ StopRead(p)
      BY <2>3, AgentSteps, OnlyAgentKeeps
    <2>4. CASE SaveKey(p) \/ DeleteKey(p) \/ LoseKey(p) \/ TimeOut(p)
      BY <2>4, SaveKeyClient, DeleteClient, TimeOutClient
    <2>5. QED
      BY <1>2, <2>1, <2>2, <2>3, <2>4 DEF Project
  <1>3. ASSUME NEW r \in late, ServeLate(r)
        PROVE  ClientInv' /\ Known \subseteq Known'
    BY <1>3, ServeLateClient
  <1>4. QED
    BY <1>1, <1>2, <1>3 DEF Next, vars, clientVars

LEMMA InitHolds == Init => IInv
  <1>1. SUFFICES ASSUME Init PROVE IInv
    OBVIOUS
  <1>2. Shape /\ Ids /\ Withheld
    BY <1>1, ConnectionsAssumption
       DEF Init, ConnectionsInit, Shape, Ids, Withheld, NoRow, Row
  <1>3. Recorded = {} /\ Held = {}
    BY <1>1 DEF Init, ConnectionsInit, Recorded, Held, NoRow
  <1>4. Capacity
    BY <1>3, FS_EmptySet, ConnectionsAssumption DEF Capacity
  <1>5. NoAgent \in Agents /\ NoAgent.pc = "idle"
    BY ConnectionsAssumption DEF Agents, NoAgent
  <1>6. NoRing \in [key : Keys \cup {NoKey}, bound : BOOLEAN] /\ NoRing.bound = FALSE
    BY DEF NoRing
  <1>7. ClientType
    BY <1>1, <1>5, <1>6, NoManagerTyped DEF Init, ClientType
  <1>8. KeyInv /\ InvitationHonoured
    BY <1>1, <1>5, <1>6, NoManagerTyped DEF Init, KeyInv, InvitationHonoured
  <1>9. QED
    BY <1>2, <1>3, <1>4, <1>7, <1>8, Parts DEF IInv, ServiceInv, ClientInv

LEMMA NextKeeps ==
    ASSUME IInv, [Next]_vars
    PROVE  IInv'
  <1>1. ServiceInv'
    BY NextServed, ServiceKeeps DEF IInv, Served
  <1>2. ClientInv' /\ Known \subseteq Known'
    BY NextClient
  <1>3. Recorded' \subseteq Known'
    BY <1>2, NextServed DEF Served
  <1>4. QED
    BY <1>1, <1>2, <1>3 DEF IInv

\* The invariant behind the theorems: IDs are given once, a private community
\* has no public reader, and every key of the service, of a request and of an
\* agent is in a keyring or was deleted on purpose.
LEMMA InvariantHolds == Spec => []IInv
  <1>1. IInv /\ [Next]_vars => IInv'
    BY NextKeeps
  <1>2. QED
    BY InitHolds, <1>1, PTL DEF Spec

-----------------------------------------------------------------------------
(* The theorems. *)

\* The state is well formed: connections, tombstones and invitations never
\* exceed the capacity they share (connectionCapacity).
THEOREM Bounded == Spec => []TypeOK
  <1>1. IInv => TypeOK
    BY TypeParts DEF IInv, ServiceInv, ClientInv
  <1>2. QED
    BY InvariantHolds, <1>1, PTL

\* Whoever brings an invitation that counts finds a place (connectReader).
THEOREM Honoured == Spec => []InvitationHonoured
  <1>1. IInv => InvitationHonoured
    BY DEF IInv, ClientInv
  <1>2. QED
    BY InvariantHolds, <1>1, PTL

\* Wherever Connect stops, the service knows no key that nobody has.
THEOREM KeysKept == Spec => []RedeemedKeyKept
  <1>1. IInv => RedeemedKeyKept
    BY DEF IInv, Known, RedeemedKeyKept
  <1>2. QED
    BY InvariantHolds, <1>1, PTL

\* A tombstone stays until it expires or an invitation is spent on its key.
THEOREM StayOut == Spec => RevokedStaysOut
  <1>1. IInv /\ [Next]_vars => \A k \in Keys : StaysOut(k)
    BY NextServed, TombstonesStay DEF IInv, Served
  <1>2. QED
    BY InvariantHolds, <1>1, PTL DEF Spec, RevokedStaysOut, StaysOut

\* A queued read is answered only when its connection may still read.
LEMMA ServedIsAuthorized ==
    ASSUME IInv, [Next]_vars, NEW p \in Projects, agent[p].pc = "queued", agent'[p].pc = "served"
    PROVE  CanRead(agent[p].id)
  <1>1. ClientType
    BY DEF IInv, ClientInv
  <1>2. agent' # agent
    OBVIOUS
  <1>3. PICK q \in Projects : StartRead(q) \/ Identify(q) \/ Renew(q) \/ Execute(q) \/ StopRead(q)
    BY <1>2 DEF Next, vars, clientVars, Project, StartConnect, ServeConnect, Grant, SaveKey, SaveLink,
       StartDisconnect, ServeLeave, DeleteKey, Unlink, TimeOut, StopManager, LoseKey, ServeLate
  <1>4. p = q
    BY <1>1, <1>3 DEF ClientType, StartRead, Identify, Renew, Execute, StopRead
  <1>5. ~StopRead(p)
    BY <1>1 DEF ClientType, StopRead, NoAgent
  <1>6. Execute(p)
    BY <1>3, <1>4, <1>5 DEF StartRead, Identify, Renew
  <1>7. Authorized(agent[p].id)
    BY <1>1, <1>6 DEF ClientType, Execute, NoAgent
  <1>8. QED
    BY <1>7 DEF Authorized

\* A right that has ended stays ended, also for a read that is in the queue.
THEOREM EndForGood == Spec => GrantsEndForGood
  <1>1. ASSUME IInv, [Next]_vars, NEW id \in 1..issued, ~CanRead(id)
        PROVE  /\ ~CanRead(id)'
               /\ \A p \in Projects : agent[p].pc = "queued" /\ agent[p].id = id
                                      => agent'[p].pc # "served"
    <2>1. ~CanRead(id)'
      BY <1>1, NextServed, RightsEnd DEF IInv, Served
    <2>2. QED
      BY <1>1, <2>1, ServedIsAuthorized
  <1>2. IInv /\ [Next]_vars =>
            \A id \in 1..issued : ~CanRead(id) =>
               /\ ~CanRead(id)'
               /\ \A p \in Projects : agent[p].pc = "queued" /\ agent[p].id = id
                                      => agent'[p].pc # "served"
    BY <1>1
  <1>3. QED
    BY InvariantHolds, <1>2, PTL DEF Spec, GrantsEndForGood
=============================================================================
