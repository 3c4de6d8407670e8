---------------------------- MODULE ProjectKeys ----------------------------
(***************************************************************************)
(* The projects that connect to one community, and the service of module   *)
(* Connections. A project keeps its private key in the keyring of the      *)
(* system and its link in community.json (connection_keys.go). Connect and *)
(* Disconnect hold the project's lock file for the whole call, and the     *)
(* lock goes with the process that dies. Agents that read with the key do  *)
(* not take it. A read is identified when it arrives, waits in the queue   *)
(* of the gateway and is checked again in its transaction; an agent that   *)
(* is told 401 joins publicly once and reads again (client.go Operation).  *)
(***************************************************************************)
EXTENDS Connections

CONSTANTS Projects,
          NoKey,
          Operators   \* projects whose user holds the operator's token

ASSUME ProjectKeysAssumption ==
    /\ NoKey \notin Keys
    /\ Operators \subseteq Projects

VARIABLES keyring,   \* [Projects -> [key, bound]]: bound once connected
          linked,    \* [Projects -> whether community.json has the link]
          manager,   \* the process inside Connect or Disconnect, if any
          agent,     \* one reading agent of each project
          late,      \* requests whose client has given up
          forgotten  \* history: keys deleted by Disconnect or by their user

vars == <<connectionVars, keyring, linked, manager, agent, late, forgotten>>
clientVars == <<keyring, linked, manager, agent, late, forgotten>>

Request == [action : {"connect", "leave"}, key : Keys, invitation : Invitations \cup {NoInvitation}]
NoRing == [key |-> NoKey, bound |-> FALSE]
NoManager == [pc |-> "idle", key |-> NoKey, invitation |-> NoInvitation, answer |-> "none"]
NoAgent == [pc |-> "idle", key |-> NoKey, id |-> 0, renewed |-> FALSE]

TypeOK ==
    /\ ConnectionsTypeOK
    /\ keyring \in [Projects -> [key : Keys \cup {NoKey}, bound : BOOLEAN]]
    /\ linked \in [Projects -> BOOLEAN]
    /\ manager \in [Projects ->
         [pc : {"idle", "connecting", "connected", "keyed", "leaving", "left", "unlinking"},
          key : Keys \cup {NoKey}, invitation : Invitations \cup {NoInvitation},
          answer : {"none", "ok", "forbidden", "unavailable", "full"}]]
    /\ agent \in [Projects ->
         [pc : {"idle", "asking", "queued", "denied", "served"},
          key : Keys \cup {NoKey}, id : 0..MaxConnections, renewed : BOOLEAN]]
    /\ late \in SUBSET Request
    /\ forgotten \in SUBSET Keys

Init ==
    /\ ConnectionsInit
    /\ keyring = [p \in Projects |-> NoRing]
    /\ linked = [p \in Projects |-> FALSE]
    /\ manager = [p \in Projects |-> NoManager]
    /\ agent = [p \in Projects |-> NoAgent]
    /\ late = {}
    /\ forgotten = {}

Fresh == Keys \ ({keyring[p].key : p \in Projects} \cup {manager[p].key : p \in Projects}
                 \cup forgotten \cup Recorded)

-----------------------------------------------------------------------------
(* Connect *)

\* Mutant: the key is written when the answer is there.
OnlyInMemory(p, k) == UNCHANGED keyring

\* saveProjectKey before the first request, when the keyring has no key.
PersistFirst(p, k) ==
    keyring' = IF keyring[p].key = NoKey
               THEN [keyring EXCEPT ![p] = [key |-> k, bound |-> FALSE]] ELSE keyring

\* The lock is taken, and the key read or made and saved.
StartConnect(p, i) ==
    /\ manager[p].pc = "idle"
    /\ \E k \in IF keyring[p].key = NoKey THEN Fresh ELSE {keyring[p].key} :
         /\ PersistFirst(p, k)
         /\ manager' = [manager EXCEPT ![p] =
                [pc |-> "connecting", key |-> k, invitation |-> i, answer |-> "none"]]
    /\ UNCHANGED <<connectionVars, linked, agent, late, forgotten>>

ServeConnect(p) ==
    /\ manager[p].pc = "connecting"
    /\ ConnectReader(manager[p].key, manager[p].invitation)
    /\ manager' = [manager EXCEPT ![p].pc = "connected",
                                  ![p].answer = Refusal(manager[p].key, manager[p].invitation)]
    /\ UNCHANGED <<keyring, linked, agent, late, forgotten>>

\* An operator's own project asks for an invitation when joining was refused,
\* and connects with it.
Grant(p, i) ==
    /\ p \in Operators
    /\ manager[p].pc = "connected" /\ manager[p].invitation = NoInvitation
    /\ manager[p].answer \in {"forbidden", "unavailable"}
    /\ CreateInvitation(i)
    /\ manager' = [manager EXCEPT ![p].pc = "connecting", ![p].invitation = i, ![p].answer = "none"]
    /\ UNCHANGED <<keyring, linked, agent, late, forgotten>>

SaveKey(p) ==
    /\ manager[p].pc = "connected" /\ manager[p].answer = "ok"
    /\ keyring' = [keyring EXCEPT ![p] = [key |-> manager[p].key, bound |-> TRUE]]
    /\ manager' = [manager EXCEPT ![p] = [NoManager EXCEPT !.pc = "keyed", !.key = manager[p].key]]
    /\ UNCHANGED <<connectionVars, linked, agent, late, forgotten>>

\* SaveSettings, the end of Connect.
SaveLink(p) ==
    /\ manager[p].pc = "keyed"
    /\ linked' = [linked EXCEPT ![p] = TRUE]
    /\ manager' = [manager EXCEPT ![p] = NoManager]
    /\ UNCHANGED <<connectionVars, keyring, agent, late, forgotten>>

-----------------------------------------------------------------------------
(* Disconnect *)

\* A key that was never bound to the community is retained, and so is the link.
Disconnectable(p) == linked[p] /\ (keyring[p].key = NoKey \/ keyring[p].bound)

StartDisconnect(p) ==
    /\ manager[p].pc = "idle" /\ Disconnectable(p)
    /\ manager' = [manager EXCEPT ![p] = [NoManager EXCEPT
           !.pc = IF keyring[p].key = NoKey THEN "left" ELSE "leaving",
           !.key = keyring[p].key]]
    /\ UNCHANGED <<connectionVars, keyring, linked, agent, late, forgotten>>

ServeLeave(p) ==
    /\ manager[p].pc = "leaving"
    /\ LeaveReader(manager[p].key)
    /\ manager' = [manager EXCEPT ![p].pc = "left"]
    /\ UNCHANGED <<keyring, linked, agent, late, forgotten>>

\* keyring.Delete, whether or not the server has answered.
DeleteKey(p) ==
    /\ manager[p].pc = "left"
    /\ keyring' = [keyring EXCEPT ![p] = NoRing]
    /\ forgotten' = forgotten \cup ({keyring[p].key} \ {NoKey})
    /\ manager' = [manager EXCEPT ![p] = [NoManager EXCEPT !.pc = "unlinking"]]
    /\ UNCHANGED <<connectionVars, linked, agent, late>>

Unlink(p) ==
    /\ manager[p].pc = "unlinking"
    /\ linked' = [linked EXCEPT ![p] = FALSE]
    /\ manager' = [manager EXCEPT ![p] = NoManager]
    /\ UNCHANGED <<connectionVars, keyring, agent, late, forgotten>>

-----------------------------------------------------------------------------
(* What can go wrong between the project and the service *)

Pending(p) == [action |-> IF manager[p].pc = "leaving" THEN "leave" ELSE "connect",
               key |-> manager[p].key, invitation |-> manager[p].invitation]

\* The client stops waiting while its request is on the way. After 5 s without
\* an answer Disconnect goes on, and says that the removal is not confirmed.
TimeOut(p) ==
    /\ manager[p].pc \in {"connecting", "leaving"} /\ late = {}
    /\ late' = {Pending(p)}
    /\ manager' = [manager EXCEPT ![p] =
           IF manager[p].pc = "leaving"
           THEN [manager[p] EXCEPT !.pc = "left"] ELSE NoManager]
    /\ UNCHANGED <<connectionVars, keyring, linked, agent, forgotten>>

\* It arrives after all, or too late for its signature.
ServeLate(r) ==
    /\ r \in late
    /\ late' = late \ {r}
    /\ \/ r.action = "connect" /\ ConnectReader(r.key, r.invitation)
       \/ r.action = "leave" /\ LeaveReader(r.key)
       \/ UNCHANGED connectionVars
    /\ UNCHANGED <<keyring, linked, manager, agent, forgotten>>

\* The process ends: an error is returned, an answer never came, or a crash.
StopManager(p) ==
    /\ manager[p].pc # "idle"
    /\ manager' = [manager EXCEPT ![p] = NoManager]
    /\ UNCHANGED <<connectionVars, keyring, linked, agent, late, forgotten>>

\* The user deletes the key from the keyring.
LoseKey(p) ==
    /\ manager[p].pc = "idle" /\ keyring[p].key # NoKey
    /\ keyring' = [keyring EXCEPT ![p] = NoRing]
    /\ forgotten' = forgotten \cup {keyring[p].key}
    /\ UNCHANGED <<connectionVars, linked, manager, agent, late>>

-----------------------------------------------------------------------------
(* An agent that reads *)

\* NewConnectionClient loads the key.
StartRead(p) ==
    /\ agent[p].pc = "idle" /\ linked[p] /\ keyring[p].bound
    /\ agent' = [agent EXCEPT ![p] = [NoAgent EXCEPT !.pc = "asking", !.key = keyring[p].key]]
    /\ UNCHANGED <<connectionVars, keyring, linked, manager, late, forgotten>>

\* readerIdentity: 403 for a revoked or hidden row, 401 without a usable one.
Identify(p) ==
    LET row == rows[agent[p].key]
    IN /\ agent[p].pc = "asking"
       /\ agent' = [agent EXCEPT ![p] =
            CASE row.id = 0 -> [@ EXCEPT !.pc = "denied"]
              [] row.id # 0 /\ (row.revoked \/ ~Visible(row)) -> NoAgent
              [] row.id # 0 /\ ~row.revoked /\ Visible(row) /\ row.expired -> [@ EXCEPT !.pc = "denied"]
              [] Live(row) -> [NoAgent EXCEPT !.pc = "queued", !.id = row.id]]
       /\ UNCHANGED <<connectionVars, keyring, linked, manager, late, forgotten>>

\* The public renewal, once in an Operation and outside the project's lock.
Renew(p) ==
    /\ agent[p].pc = "denied" /\ ~agent[p].renewed
    /\ ConnectReader(agent[p].key, NoInvitation)
    /\ agent' = [agent EXCEPT ![p] =
           IF Refusal(agent[p].key, NoInvitation) = "ok"
           THEN [agent[p] EXCEPT !.pc = "asking", !.renewed = TRUE] ELSE NoAgent]
    /\ UNCHANGED <<keyring, linked, manager, late, forgotten>>

Authorized(id) == CanRead(id)

\* The queue lets the read through: can_read in its own transaction.
Execute(p) ==
    /\ agent[p].pc = "queued"
    /\ agent' = [agent EXCEPT ![p] =
           IF Authorized(agent[p].id) THEN [agent[p] EXCEPT !.pc = "served"] ELSE NoAgent]
    /\ UNCHANGED <<connectionVars, keyring, linked, manager, late, forgotten>>

\* Answered, refused for good, given up or killed.
StopRead(p) ==
    /\ agent[p].pc # "idle"
    /\ agent' = [agent EXCEPT ![p] = NoAgent]
    /\ UNCHANGED <<connectionVars, keyring, linked, manager, late, forgotten>>

-----------------------------------------------------------------------------
Project(p) ==
    \/ \E i \in Invitations \cup {NoInvitation} : StartConnect(p, i)
    \/ ServeConnect(p) \/ (\E i \in Invitations : Grant(p, i)) \/ SaveKey(p) \/ SaveLink(p)
    \/ StartDisconnect(p) \/ ServeLeave(p) \/ DeleteKey(p) \/ Unlink(p)
    \/ TimeOut(p) \/ StopManager(p) \/ LoseKey(p)
    \/ StartRead(p) \/ Identify(p) \/ Renew(p) \/ Execute(p) \/ StopRead(p)

Next ==
    \/ \E p \in Projects : Project(p)
    \/ \E r \in late : ServeLate(r)
    \/ Manage /\ UNCHANGED clientVars

Spec == Init /\ [][Next]_vars

-----------------------------------------------------------------------------
\* Who holds an invitation that still counts is never told that the community
\* is full: what an invitation occupies it leaves to the connection, and
\* tombstones and connections of others cannot take its place.
InvitationHonoured ==
    \A p \in Projects :
        manager[p].pc = "connected" /\ manager[p].answer = "full"
            => manager[p].invitation = NoInvitation

\* A connection that ended, by revocation, expiry, leaving or a community
\* that became private, stays ended: whoever is let in again has a new ID,
\* and a read that still waits in the queue under the old one is not answered.
GrantsEndForGood ==
    [][\A id \in 1..issued : ~CanRead(id) =>
          /\ ~CanRead(id)'
          /\ \A p \in Projects : agent[p].pc = "queued" /\ agent[p].id = id
                                 => agent'[p].pc # "served"]_vars

\* A tombstone that has not expired gives way to an invitation that counts,
\* never to leaving, to a public join or to another revocation.
RevokedStaysOut ==
    [][\A k \in Keys :
          rows[k].revoked /\ ~rows[k].expired /\ rows'[k] # rows[k]
              => \/ rows'[k] = [rows[k] EXCEPT !.expired = TRUE]
                 \/ \E i \in Invitations : invitations[i] = "open" /\ invitations'[i] = "gone"]_vars

\* A key the service knows is in a keyring unless it was deleted on purpose:
\* wherever Connect stops, the next call goes on with the same connection and
\* no invitation is spent on a key that nobody has.
RedeemedKeyKept ==
    Recorded \subseteq forgotten \cup {keyring[p].key : p \in Projects}

\* Disconnect removes a link whether or not the server can be reached
\* (docs/connections.md l.70). It refuses every key that is not bound to the
\* community, also the one that a failed Connect has just put into the keyring
\* of a project whose link is older (connection_keys.go l.199, l.324).
LinkRemovable ==
    \A p \in Projects : manager[p].pc = "idle" /\ linked[p] => Disconnectable(p)
=============================================================================
