-------------------------- MODULE TelegramPairing --------------------------
(***************************************************************************)
(* The Telegram connections of one company and the codes that pair them    *)
(* with a chat, under concurrent requests.                                 *)
(*                                                                         *)
(* connect reads the open connection without a lock and then writes it,    *)
(* or turns a disabled one back, or inserts one; it revokes the old code   *)
(* and makes a new one.  disconnect reads without a lock, too.  Both write *)
(* the connection before they lock its codes.  A chat that sends a code    *)
(* locks the code first and the connection second, so that PostgreSQL may  *)
(* have to break a deadlock.                                               *)
(*                                                                         *)
(* connection and pairing hold committed rows.  A transaction that has     *)
(* taken its last lock commits in that step.                               *)
(***************************************************************************)
EXTENDS Naturals, FiniteSets

CONSTANTS
  Connections,  \* bound: ids of the rows of telegram_connections
  Pairings,     \* bound: ids of the rows of telegram_pairings
  Chats,
  NoChat,
  Requests      \* concurrent requests

ASSUME ConstantsAssumption ==
  /\ NoChat \notin Chats
  /\ IsFiniteSet(Connections) /\ IsFiniteSet(Requests)

VARIABLES
  connection,  \* rows of telegram_connections
  pairing,     \* rows of telegram_pairings
  request      \* the progress of each request

vars == <<connection, pairing, request>>

---------------------------------------------------------------------------
(* Types *)

\* A disabled connection may have kept its chat.
TelegramConnection ==
  [status : {"absent", "pending_chat_id", "disabled"}, chat : {NoChat}]
    \cup [status : {"active", "disabled"}, chat : Chats]

\* late: whether expires_at has passed.
TelegramPairing == [status : {"absent", "pending", "revoked", "expired", "consumed"},
                    connection : Connections, late : BOOLEAN]

Idle == [step |-> "idle"]

\* stale: the disabled rows whose chat the request clears, locked since.
\* copy: the status and chat that the request has read of its connection.
Search     == [step : {"search", "insert"}, stale : SUBSET Connections]
Connect    == [step : {"reuse", "revive", "renew"}, connection : Connections,
               copy : TelegramConnection, stale : SUBSET Connections]
Disconnect == [step : {"disconnect", "revoke"}, connection : Connections,
               copy : TelegramConnection, stale : SUBSET Connections]
Consume    == [step : {"consume"}, pairing : Pairings, chat : Chats]

TypeOK ==
  /\ connection \in [Connections -> TelegramConnection]
  /\ pairing \in [Pairings -> TelegramPairing]
  /\ request \in [Requests -> {Idle} \cup Search \cup Connect \cup Disconnect \cup Consume]

---------------------------------------------------------------------------
(* Rows and locks *)

Open     == {c \in Connections : connection[c].status \in {"active", "pending_chat_id"}}
Disabled == {c \in Connections : connection[c].status = "disabled"}
Stale    == {c \in Disabled : connection[c].chat # NoChat}

PendingOf(c) == {g \in Pairings : pairing[g].status = "pending" /\ pairing[g].connection = c}

HoldsConnection(q, c) ==
  \/ request[q].step \in {"search", "insert", "reuse", "revive", "renew"} /\ c \in request[q].stale
  \/ request[q].step \in {"renew", "revoke"} /\ c = request[q].connection

HoldsPairing(q, g) == request[q].step = "consume" /\ request[q].pairing = g

LockableConnection(p, c) == \A q \in Requests \ {p} : ~HoldsConnection(q, c)

\* Mutant: the pairing is read without FOR UPDATE.
PairingNeverHeld(p, g) == p \in Requests /\ g \in Pairings

LockablePairing(p, g) == \A q \in Requests \ {p} : ~HoldsPairing(q, g)

\* The rows with the chats of the stale ones cleared.
Cleared(p) == [c \in Connections |-> IF c \in request[p].stale
                                     THEN [connection[c] EXCEPT !.chat = NoChat]
                                     ELSE connection[c]]

Moves(p, r) ==
  /\ request' = [request EXCEPT ![p] = r]
  /\ UNCHANGED <<connection, pairing>>

---------------------------------------------------------------------------
(* POST /integrations/telegram/connect *)

\* Two open connections make scalar_one_or_none raise: no action then.
ConnectToPending(p, c) ==
  /\ request[p] = Idle
  /\ Open = {c} /\ connection[c].status = "pending_chat_id"
  /\ \A d \in Stale : LockableConnection(p, d)
  /\ Moves(p, [step |-> "reuse", connection |-> c, copy |-> connection[c], stale |-> Stale])

\* The connection that is active already stays as it is.
ConnectToActive(p, c) ==
  /\ request[p] = Idle
  /\ Open = {c} /\ connection[c].status = "active"
  /\ \A d \in Stale : LockableConnection(p, d)
  /\ connection' = [d \in Connections |-> IF d \in Stale
                                          THEN [connection[d] EXCEPT !.chat = NoChat]
                                          ELSE connection[d]]
  /\ UNCHANGED <<pairing, request>>

\* Mutant: the connection that is open already is ignored.
SearchAlways(p) ==
  /\ request[p] = Idle
  /\ \A d \in Stale : LockableConnection(p, d)
  /\ Moves(p, [step |-> "search", stale |-> Stale])

ConnectToNone(p) ==
  /\ request[p] = Idle
  /\ Open = {}
  /\ \A d \in Stale : LockableConnection(p, d)
  /\ Moves(p, [step |-> "search", stale |-> Stale])

\* The row that the locking SELECT waited for is not disabled any more.
Missed(p) ==
  /\ request[p].step = "revive"
  /\ connection[request[p].connection].status # "disabled"
  /\ LockableConnection(p, request[p].connection)

\* The latest of the disabled ones, which may be any, and the next one if that
\* was missed.  The lock on a missed row is kept until the commit; here it is not,
\* which only lets more happen.
FindDisabled(p, c) ==
  /\ request[p].step = "search" \/ Missed(p)
  /\ c \in Disabled
  /\ Moves(p, [step |-> "revive", connection |-> c, copy |-> connection[c],
               stale |-> request[p].stale])

FindNone(p) ==
  /\ request[p].step = "search"
  /\ Disabled = {}
  /\ Moves(p, [request[p] EXCEPT !.step = "insert"])

\* The UPDATE of the pending row, or the locking SELECT of the disabled one,
\* has the row: from here on the transaction holds it.
LockConnection(p) ==
  LET c == request[p].connection IN
  /\ \/ request[p].step = "reuse"
     \/ request[p].step = "revive" /\ connection[c].status = "disabled"
  /\ LockableConnection(p, c)
  /\ Moves(p, [request[p] EXCEPT !.step = "renew",
                                 !.copy = IF request[p].step = "revive" THEN connection[c] ELSE @])

\* No other was disabled when the SELECT began, although one may be now.
InsertInstead(p) ==
  /\ Missed(p)
  /\ Moves(p, [step |-> "insert", stale |-> request[p].stale])

\* Mutant: the UPDATE sets all the columns.
RenewedOutright(row, copy) == [status |-> "pending_chat_id", chat |-> row.chat]

\* The UPDATE sets the columns in which the copy differs.
Renewed(row, copy) ==
  [status |-> IF copy.status = "pending_chat_id" THEN row.status ELSE "pending_chat_id",
   chat   |-> IF copy.chat = NoChat THEN row.chat ELSE NoChat]

Codes(c, g) == [h \in Pairings |->
  IF h = g THEN [status |-> "pending", connection |-> c, late |-> FALSE]
  ELSE IF h \in PendingOf(c) THEN [pairing[h] EXCEPT !.status = "revoked"]
  ELSE pairing[h]]

\* Mutant: create_pairing leaves the earlier codes alone.
CreateAnother(p, g) ==
  LET c == request[p].connection IN
  /\ request[p].step = "renew"
  /\ \A h \in PendingOf(c) : LockablePairing(p, h)
  /\ pairing[g].status = "absent"
  /\ connection' = [Cleared(p) EXCEPT ![c] = Renewed(@, request[p].copy)]
  /\ pairing' = [pairing EXCEPT ![g] = [status |-> "pending", connection |-> c, late |-> FALSE]]
  /\ request' = [request EXCEPT ![p] = Idle]

\* create_pairing and the commit.
CreatePairing(p, g) ==
  LET c == request[p].connection IN
  /\ request[p].step = "renew"
  /\ \A h \in PendingOf(c) : LockablePairing(p, h)
  /\ pairing[g].status = "absent"
  /\ connection' = [Cleared(p) EXCEPT ![c] = Renewed(@, request[p].copy)]
  /\ pairing' = Codes(c, g)
  /\ request' = [request EXCEPT ![p] = Idle]

\* The same for a row that is inserted, with the next free id.
InsertConnection(p, c, g) ==
  /\ request[p].step = "insert"
  /\ connection[c].status = "absent"
  /\ pairing[g].status = "absent"
  /\ connection' = [Cleared(p) EXCEPT ![c] = [status |-> "pending_chat_id", chat |-> NoChat]]
  /\ pairing' = Codes(c, g)
  /\ request' = [request EXCEPT ![p] = Idle]

---------------------------------------------------------------------------
(* DELETE /integrations/telegram/disconnect *)

ReadOpen(p, c) ==
  /\ request[p] = Idle
  /\ Open = {c}
  /\ Moves(p, [step |-> "disconnect", connection |-> c, copy |-> connection[c], stale |-> {}])

\* The query for the codes flushes the UPDATE, which takes the lock.
FlushDisabled(p) ==
  /\ request[p].step = "disconnect"
  /\ LockableConnection(p, request[p].connection)
  /\ Moves(p, [request[p] EXCEPT !.step = "revoke"])

\* The chat is cleared only if the copy had one.
CommitDisconnect(p) ==
  LET c == request[p].connection  copy == request[p].copy IN
  /\ request[p].step = "revoke"
  /\ \A h \in PendingOf(c) : LockablePairing(p, h)
  /\ connection' = [connection EXCEPT
                      ![c] = [status |-> "disabled",
                              chat |-> IF copy.chat = NoChat THEN @.chat ELSE NoChat]]
  /\ pairing' = [h \in Pairings |-> IF h \in PendingOf(c)
                                    THEN [pairing[h] EXCEPT !.status = "revoked"]
                                    ELSE pairing[h]]
  /\ request' = [request EXCEPT ![p] = Idle]

---------------------------------------------------------------------------
(* consume_pairing, for "/start <code>" from a chat *)

\* A code that is not pending, or not known, changes nothing that matters here.
LockPairing(p, g, x) ==
  /\ request[p] = Idle
  /\ LockablePairing(p, g)
  /\ pairing[g].status = "pending" /\ ~pairing[g].late
  /\ Moves(p, [step |-> "consume", pairing |-> g, chat |-> x])

Expire(p, g) ==
  /\ request[p] = Idle
  /\ LockablePairing(p, g)
  /\ pairing[g].status = "pending" /\ pairing[g].late
  /\ pairing' = [pairing EXCEPT ![g].status = "expired"]
  /\ UNCHANGED <<connection, request>>

ChatTaken(x) == \E c \in Connections : connection[c].chat = x

\* The connection is read under its lock.  A chat that an active connection has
\* is refused, and the unique constraint refuses the chat of any other.
Pair(p) ==
  LET g == request[p].pairing  c == pairing[g].connection IN
  /\ request[p].step = "consume"
  /\ LockableConnection(p, c)
  /\ connection[c].status = "pending_chat_id"
  /\ ~ChatTaken(request[p].chat)
  /\ connection' = [connection EXCEPT ![c] = [status |-> "active", chat |-> request[p].chat]]
  /\ pairing' = [pairing EXCEPT ![g].status = "consumed"]
  /\ request' = [request EXCEPT ![p] = Idle]

---------------------------------------------------------------------------
(* The specification *)

\* TELEGRAM_PAIRING_TTL_MINUTES pass.
Deadline(g) ==
  /\ pairing[g].status = "pending" /\ ~pairing[g].late
  /\ pairing' = [pairing EXCEPT ![g].late = TRUE]
  /\ UNCHANGED <<connection, request>>

\* A request is refused, fails, or is the victim of a deadlock: nothing is
\* written but a count of failed attempts, and the locks are released.
Fail(p) == request[p] # Idle /\ Moves(p, Idle)

Init ==
  /\ connection = [c \in Connections |-> [status |-> "absent", chat |-> NoChat]]
  /\ pairing \in [Pairings -> [status : {"absent"}, connection : Connections, late : {FALSE}]]
  /\ request = [p \in Requests |-> Idle]

ConnectNext(p) ==
  \/ \E c \in Connections :
       \/ ConnectToPending(p, c) \/ ConnectToActive(p, c) \/ FindDisabled(p, c)
       \/ \E g \in Pairings : InsertConnection(p, c, g)
  \/ ConnectToNone(p) \/ FindNone(p) \/ LockConnection(p) \/ InsertInstead(p)
  \/ \E g \in Pairings : CreatePairing(p, g)

DisconnectNext(p) ==
  \/ \E c \in Connections : ReadOpen(p, c)
  \/ FlushDisabled(p) \/ CommitDisconnect(p)

ConsumeNext(p) ==
  \/ \E g \in Pairings : Expire(p, g) \/ \E x \in Chats : LockPairing(p, g, x)
  \/ Pair(p)

Next ==
  \/ \E p \in Requests : ConnectNext(p) \/ DisconnectNext(p) \/ ConsumeNext(p) \/ Fail(p)
  \/ \E g \in Pairings : Deadline(g)

Spec == Init /\ [][Next]_vars

---------------------------------------------------------------------------
(* Properties *)

\* create_pairing revokes the earlier code under the lock of the connection, so
\* that a connection has one code that works at most, however requests interleave.
OneCodePerConnection == \A c \in Connections : Cardinality(PendingOf(c)) <= 1

\* A chat is connected by the code that is current at that moment: one that was
\* revoked or consumed while the message waited for a lock connects nothing.
PairedByCurrentCode == [][\A c \in Connections :
  connection[c].status # "active" /\ connection'[c].status = "active" =>
    \E g \in PendingOf(c) : pairing'[g].status = "consumed"]_vars

\* A connect that read the connection before the chat was paired does not undo
\* the pairing: an active connection stays as it is or becomes disabled.
ActiveUntilDisconnected == [][\A c \in Connections :
  connection[c].status = "active" =>
    connection'[c] = connection[c] \/ connection'[c].status = "disabled"]_vars

Inserting == {p \in Requests : request[p].step \in {"search", "revive", "insert"}}

\* Nothing but the search keeps a company from having two connections, with
\* which connect and disconnect fail from then on.  Requests that search at the
\* same time may each make one; there is never one more than they.
OpenConnectionsBounded ==
  Cardinality(Open) + Cardinality(Inserting) <= Cardinality(Requests)
=============================================================================
