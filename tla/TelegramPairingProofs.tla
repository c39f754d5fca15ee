------------------------ MODULE TelegramPairingProofs ------------------------
(***************************************************************************)
(* Theorems about TelegramPairing for any connections, pairings, chats and *)
(* requests.                                                               *)
(***************************************************************************)
EXTENDS TelegramPairing, FiniteSetTheorems, TLAPS

(***************************************************************************)
(* The inductive invariant.                                                *)
(***************************************************************************)

\* A row has one holder.
OneHolder == \A p, q \in Requests, c \in Connections :
  HoldsConnection(p, c) /\ HoldsConnection(q, c) => p = q

OneConsumer == \A p, q \in Requests, g \in Pairings :
  HoldsPairing(p, g) /\ HoldsPairing(q, g) => p = q

\* The rows that a connect has locked to clear their chats stay disabled.
StaleDisabled == \A p \in Requests, c \in Connections :
  request[p].step \in {"search", "insert", "reuse", "revive", "renew"} /\ c \in request[p].stale
    => connection[c].status = "disabled"

\* A connect renews what it read as pending without a lock, or the disabled row
\* that it has read under the lock.
CopyKnown == \A p \in Requests :
  /\ request[p].step = "reuse" => request[p].copy.status = "pending_chat_id"
  /\ request[p].step = "renew" => \/ request[p].copy.status = "pending_chat_id"
                                  \/ /\ request[p].copy.status = "disabled"
                                     /\ connection[request[p].connection] = request[p].copy

\* The code that a chat is consuming is pending, for its lock is held.
ConsumedIsPending == \A p \in Requests :
  request[p].step = "consume" => pairing[request[p].pairing].status = "pending"

\* A request is at work on a row that is there, and so is the row of a code.
AtPresent == \A p \in Requests :
  request[p].step \in {"reuse", "revive", "renew", "disconnect", "revoke"}
    => connection[request[p].connection].status # "absent"

CodesPresent == \A g \in Pairings :
  pairing[g].status = "pending" => connection[pairing[g].connection].status # "absent"

Rows == OneHolder /\ StaleDisabled /\ CopyKnown /\ AtPresent

\* OneCodePerConnection without counting.
CodesAlike == \A c \in Connections : \A g, h \in PendingOf(c) : g = h

\* The requests that may each make one connection more.
Making == {p \in Requests : \/ request[p].step \in {"search", "revive", "insert"}
                            \/ request[p].step = "renew" /\ request[p].copy.status = "disabled"}

OpenAndMaking == Cardinality(Open) + Cardinality(Making) <= Cardinality(Requests)

Inv == TypeOK /\ Rows /\ OneConsumer /\ ConsumedIsPending /\ CodesPresent
IInv == Inv /\ CodesAlike /\ OpenAndMaking

---------------------------------------------------------------------------
(* Records *)

\* The record of a request at each kind of step.
LEMMA RequestTypes ==
  ASSUME TypeOK, NEW p \in Requests
  PROVE  /\ request[p].step \in {"search", "insert"} => request[p] \in Search
         /\ request[p].step \in {"reuse", "revive", "renew"} => request[p] \in Connect
         /\ request[p].step \in {"disconnect", "revoke"} => request[p] \in Disconnect
         /\ request[p].step = "consume" => request[p] \in Consume
         /\ request[p].step = "idle" => request[p] = Idle
         /\ request[p].step \in {"idle", "search", "insert", "reuse", "revive", "renew",
                                 "disconnect", "revoke", "consume"}
  <1>1. request[p] \in {Idle} \cup Search \cup Connect \cup Disconnect \cup Consume
    BY DEF TypeOK
  <1>2. CASE request[p] = Idle
    BY <1>2 DEF Idle
  <1>3. CASE request[p] \in Search
    BY <1>3 DEF Search
  <1>4. CASE request[p] \in Connect
    BY <1>4 DEF Connect
  <1>5. CASE request[p] \in Disconnect
    BY <1>5 DEF Disconnect
  <1>6. CASE request[p] \in Consume
    BY <1>6 DEF Consume
  <1>7. QED
    BY <1>1, <1>2, <1>3, <1>4, <1>5, <1>6

\* A request that moves leaves the rows and the other requests alone.
LEMMA MovesOne ==
  ASSUME TypeOK, NEW p \in Requests, NEW r, Moves(p, r)
  PROVE  /\ request'[p] = r
         /\ \A q \in Requests \ {p} : request'[q] = request[q]
         /\ connection' = connection
         /\ pairing' = pairing
         /\ r \in {Idle} \cup Search \cup Connect \cup Disconnect \cup Consume => TypeOK'
  BY DEF TypeOK, Moves

\* What an EXCEPT on one request gives, used for the steps that commit.
LEMMA EndsOne ==
  ASSUME TypeOK, NEW p \in Requests, request' = [request EXCEPT ![p] = Idle]
  PROVE  /\ request'[p] = Idle
         /\ \A q \in Requests \ {p} : request'[q] = request[q]
         /\ request' \in [Requests -> {Idle} \cup Search \cup Connect \cup Disconnect \cup Consume]
  BY DEF TypeOK

\* A connection has a status and, when active, a chat.
LEMMA RowTypes ==
  ASSUME NEW r \in TelegramConnection
  PROVE  /\ r = [status |-> r.status, chat |-> r.chat]
         /\ r.status \in {"absent", "pending_chat_id", "disabled", "active"}
         /\ r.chat \in {NoChat} \cup Chats
         /\ r.status \in {"absent", "pending_chat_id"} => r.chat = NoChat
         /\ r.status = "active" => r.chat \in Chats
  BY DEF TelegramConnection

\* The records that the steps write are rows.
LEMMA MakesRow ==
  /\ \A s \in {"absent", "pending_chat_id", "disabled"} :
       [status |-> s, chat |-> NoChat] \in TelegramConnection
  /\ \A s \in {"active", "disabled"}, x \in Chats : [status |-> s, chat |-> x] \in TelegramConnection
  BY DEF TelegramConnection

---------------------------------------------------------------------------
(* What a step does to the row of a connection *)

\* The chat of a disabled row is cleared.
ClearedRow(c) == /\ connection[c].status = "disabled"
                 /\ connection'[c] = [status |-> "disabled", chat |-> NoChat]

\* A disabled or absent row becomes pending.
RenewedRow(c) == /\ connection[c].status \in {"absent", "disabled"}
                 /\ connection'[c] = [status |-> "pending_chat_id", chat |-> NoChat]

DisabledRow(c) == /\ connection[c].status # "absent"
                  /\ \/ connection'[c] = [status |-> "disabled", chat |-> NoChat]
                     \/ connection'[c] = [status |-> "disabled", chat |-> connection[c].chat]

PairedRow(c) == /\ connection[c].status = "pending_chat_id"
                /\ connection'[c].status = "active"
                /\ connection'[c] \in TelegramConnection
                /\ \E g \in PendingOf(c) : pairing'[g].status = "consumed"

RowEffect(c) == \/ connection'[c] = connection[c]
                \/ ClearedRow(c) \/ RenewedRow(c) \/ DisabledRow(c) \/ PairedRow(c)

\* The renewal of a row that was read as pending changes nothing; of a disabled
\* row, it makes it pending and clears the chat.
LEMMA RenewalEffect ==
  ASSUME Inv, NEW p \in Requests, NEW g \in Pairings, CreatePairing(p, g),
         NEW c \in Connections
  PROVE  /\ c # request[p].connection /\ c \notin request[p].stale => connection'[c] = connection[c]
         /\ c # request[p].connection /\ c \in request[p].stale => ClearedRow(c)
         /\ c = request[p].connection /\ request[p].copy.status = "pending_chat_id"
              => connection'[c] = connection[c] \/ ClearedRow(c)
         /\ c = request[p].connection /\ request[p].copy.status = "disabled" => RenewedRow(c)
  <1>1. request[p] \in Connect /\ request[p].step = "renew"
    BY RequestTypes DEF CreatePairing, Inv
  <1>2. request[p].connection \in Connections /\ request[p].copy \in TelegramConnection
    BY <1>1 DEF Connect
  <1>3. connection \in [Connections -> TelegramConnection]
    BY DEF Inv, TypeOK
  <1>4. connection' = [Cleared(p) EXCEPT ![request[p].connection] = Renewed(@, request[p].copy)]
    BY DEF CreatePairing
  <1>5. c \in request[p].stale => connection[c].status = "disabled"
    BY <1>1 DEF Inv, Rows, StaleDisabled
  <1>6. /\ c \in request[p].stale => Cleared(p)[c] = [status |-> "disabled", chat |-> NoChat]
        /\ c \notin request[p].stale => Cleared(p)[c] = connection[c]
    <2>1. connection[c] = [status |-> connection[c].status, chat |-> connection[c].chat]
      BY <1>3, RowTypes
    <2>2. QED
      BY <2>1, <1>5 DEF Cleared
  <1>7. c # request[p].connection => connection'[c] = Cleared(p)[c]
    BY <1>2, <1>4 DEF Cleared
  <1>8. ASSUME c = request[p].connection
        PROVE  connection'[c] = Renewed(Cleared(p)[c], request[p].copy)
    BY <1>8, <1>4 DEF Cleared
  <1>9. ASSUME c = request[p].connection, request[p].copy.status = "pending_chat_id"
        PROVE  connection'[c] = connection[c] \/ ClearedRow(c)
    <2>1. request[p].copy.chat = NoChat
      BY <1>2, <1>9, RowTypes
    <2>2. connection'[c] = [status |-> Cleared(p)[c].status, chat |-> Cleared(p)[c].chat]
      BY <2>1, <1>8, <1>9 DEF Renewed
    <2>3. connection[c] = [status |-> connection[c].status, chat |-> connection[c].chat]
      BY <1>3, RowTypes
    <2>4. QED
      BY <2>2, <2>3, <1>5, <1>6 DEF ClearedRow
  <1>10. ASSUME c = request[p].connection, request[p].copy.status = "disabled"
         PROVE  RenewedRow(c)
    <2>1. connection[c] = request[p].copy
      BY <1>1, <1>10 DEF Inv, Rows, CopyKnown
    <2>2. connection'[c].status = "pending_chat_id"
           /\ connection'[c] = [status |-> connection'[c].status, chat |-> connection'[c].chat]
      BY <1>8, <1>10 DEF Renewed
    <2>3. connection'[c].chat = NoChat
      BY <2>1, <1>6, <1>8, <1>10 DEF Renewed
    <2>4. QED
      BY <2>1, <2>2, <2>3, <1>10 DEF RenewedRow
  <1>11. QED
    BY <1>5, <1>6, <1>7, <1>9, <1>10 DEF ClearedRow

\* The same for a row that is inserted.
LEMMA InsertionEffect ==
  ASSUME Inv, NEW p \in Requests, NEW c \in Connections, NEW g \in Pairings,
         InsertConnection(p, c, g), NEW d \in Connections
  PROVE  /\ d # c /\ d \notin request[p].stale => connection'[d] = connection[d]
         /\ d # c /\ d \in request[p].stale => ClearedRow(d)
         /\ d = c => RenewedRow(d)
  <1>1. connection \in [Connections -> TelegramConnection]
    BY DEF Inv, TypeOK
  <1>2. d \in request[p].stale => connection[d].status = "disabled"
    BY DEF Inv, Rows, StaleDisabled, InsertConnection
  <1>3. connection[d] = [status |-> connection[d].status, chat |-> connection[d].chat]
    BY <1>1, RowTypes
  <1>4. /\ d \in request[p].stale => Cleared(p)[d] = [status |-> "disabled", chat |-> NoChat]
        /\ d \notin request[p].stale => Cleared(p)[d] = connection[d]
    BY <1>2, <1>3 DEF Cleared
  <1>5. /\ d # c => connection'[d] = Cleared(p)[d]
        /\ d = c => connection'[d] = [status |-> "pending_chat_id", chat |-> NoChat]
    BY DEF InsertConnection, Cleared
  <1>6. QED
    BY <1>2, <1>4, <1>5 DEF ClearedRow, RenewedRow, InsertConnection

\* The same for a disconnection, which writes the row it holds.
LEMMA DisconnectionEffect ==
  ASSUME Inv, NEW p \in Requests, CommitDisconnect(p), NEW c \in Connections
  PROVE  /\ c # request[p].connection => connection'[c] = connection[c]
         /\ c = request[p].connection => DisabledRow(c)
  BY DEF Inv, TypeOK, Rows, AtPresent, CommitDisconnect, DisabledRow

\* The same for a pairing: the code is the current one of the connection.
LEMMA PairEffect ==
  ASSUME Inv, NEW p \in Requests, Pair(p), NEW c \in Connections
  PROVE  /\ request[p] \in Consume /\ pairing[request[p].pairing].connection \in Connections
         /\ c # pairing[request[p].pairing].connection => connection'[c] = connection[c]
         /\ c = pairing[request[p].pairing].connection => PairedRow(c)
  <1>1. request[p] \in Consume
    BY RequestTypes DEF Pair, Inv
  <1>2. request[p].pairing \in Pairings /\ request[p].chat \in Chats
    BY <1>1 DEF Consume
  <1>3. pairing[request[p].pairing] \in TelegramPairing /\ connection \in [Connections -> TelegramConnection]
    BY <1>2 DEF Inv, TypeOK
  <1>4. pairing[request[p].pairing].connection \in Connections
    BY <1>3 DEF TelegramPairing
  <1>5. connection' = [connection EXCEPT ![pairing[request[p].pairing].connection] =
                         [status |-> "active", chat |-> request[p].chat]]
    BY DEF Pair
  <1>6. c # pairing[request[p].pairing].connection => connection'[c] = connection[c]
    BY <1>3, <1>4, <1>5
  <1>7. ASSUME c = pairing[request[p].pairing].connection
        PROVE  PairedRow(c)
    <2>1. connection'[c] = [status |-> "active", chat |-> request[p].chat]
      BY <1>3, <1>5, <1>7
    <2>2. connection'[c] \in TelegramConnection
      BY <2>1, <1>2, MakesRow
    <2>3. connection[c].status = "pending_chat_id"
      BY <1>7 DEF Pair
    <2>4. request[p].pairing \in PendingOf(c)
      BY <1>2, <1>7 DEF PendingOf, Inv, ConsumedIsPending, Pair
    <2>5. pairing'[request[p].pairing].status = "consumed"
      BY <1>2, <1>3 DEF Pair, Inv, TypeOK, TelegramPairing
    <2>6. QED
      BY <2>1, <2>2, <2>3, <2>4, <2>5 DEF PairedRow
  <1>8. QED
    BY <1>1, <1>4, <1>6, <1>7

\* Every step.
LEMMA RowStep ==
  ASSUME Inv, [Next]_vars, NEW c \in Connections
  PROVE  RowEffect(c)
  <1>1. CASE UNCHANGED vars
    BY <1>1 DEF vars, RowEffect
  <1>2. ASSUME NEW p \in Requests, NEW d \in Connections,
               ConnectToPending(p, d) \/ FindDisabled(p, d) \/ ReadOpen(p, d)
        PROVE  RowEffect(c)
    BY <1>2 DEF ConnectToPending, FindDisabled, ReadOpen, Moves, RowEffect
  <1>3. ASSUME NEW p \in Requests,
               ConnectToNone(p) \/ FindNone(p) \/ LockConnection(p) \/ InsertInstead(p)
                 \/ FlushDisabled(p) \/ Fail(p)
        PROVE  RowEffect(c)
    BY <1>3 DEF ConnectToNone, FindNone, LockConnection, InsertInstead, FlushDisabled, Fail,
      Moves, RowEffect
  <1>4. ASSUME NEW p \in Requests, NEW d \in Connections, ConnectToActive(p, d)
        PROVE  RowEffect(c)
    <2>1. connection[c] = [status |-> connection[c].status, chat |-> connection[c].chat]
      BY RowTypes DEF Inv, TypeOK
    <2>2. QED
      BY <1>4, <2>1 DEF ConnectToActive, RowEffect, ClearedRow, Stale, Disabled
  <1>5. ASSUME NEW p \in Requests, NEW g \in Pairings, CreatePairing(p, g)
        PROVE  RowEffect(c)
    <2>1. request[p].copy.status \in {"pending_chat_id", "disabled"}
      BY <1>5 DEF Inv, Rows, CopyKnown, CreatePairing
    <2>2. QED
      BY <2>1, <1>5, RenewalEffect DEF RowEffect
  <1>6. ASSUME NEW p \in Requests, NEW d \in Connections, NEW g \in Pairings,
               InsertConnection(p, d, g)
        PROVE  RowEffect(c)
    BY <1>6, InsertionEffect DEF RowEffect
  <1>7. ASSUME NEW p \in Requests, CommitDisconnect(p)
        PROVE  RowEffect(c)
    BY <1>7, DisconnectionEffect DEF RowEffect
  <1>8. ASSUME NEW p \in Requests, Pair(p)
        PROVE  RowEffect(c)
    BY <1>8, PairEffect DEF RowEffect
  <1>9. ASSUME NEW p \in Requests, NEW g \in Pairings,
               Expire(p, g) \/ \E x \in Chats : LockPairing(p, g, x)
        PROVE  RowEffect(c)
    BY <1>9 DEF Expire, LockPairing, Moves, RowEffect
  <1>10. ASSUME NEW g \in Pairings, Deadline(g)
         PROVE  RowEffect(c)
    BY <1>10 DEF Deadline, RowEffect
  <1>11. QED
    BY <1>1, <1>2, <1>3, <1>4, <1>5, <1>6, <1>7, <1>8, <1>9, <1>10
      DEF Next, ConnectNext, DisconnectNext, ConsumeNext

---------------------------------------------------------------------------
(* What a step does to the request that takes it *)

\* The steps that move a request and write nothing.
Reads(p) ==
  \/ \E c \in Connections : ConnectToPending(p, c) \/ FindDisabled(p, c) \/ ReadOpen(p, c)
  \/ ConnectToNone(p) \/ FindNone(p) \/ LockConnection(p) \/ InsertInstead(p) \/ FlushDisabled(p)
  \/ \E g \in Pairings, x \in Chats : LockPairing(p, g, x)

\* One request moves, or ends, or none does.
RequestEffect(p) == /\ \A q \in Requests \ {p} : request'[q] = request[q]
                    /\ \/ request'[p] = Idle
                       \/ Reads(p) /\ connection' = connection /\ pairing' = pairing

\* Every step moves or ends one request at most.
LEMMA RequestStep ==
  ASSUME Inv, [Next]_vars
  PROVE  request' = request \/ \E p \in Requests : RequestEffect(p)
  <1>1. CASE UNCHANGED vars
    BY <1>1 DEF vars
  <1>2. ASSUME NEW p \in Requests, Reads(p)
        PROVE  RequestEffect(p)
    BY <1>2 DEF Reads, RequestEffect, ConnectToPending, FindDisabled, ReadOpen, ConnectToNone,
      FindNone, LockConnection, InsertInstead, FlushDisabled, LockPairing, Moves, Inv, TypeOK
  <1>3. ASSUME NEW p \in Requests,
               request' = [request EXCEPT ![p] = Idle]
        PROVE  RequestEffect(p)
    BY <1>3, EndsOne DEF RequestEffect, Inv
  <1>4. ASSUME NEW p \in Requests, ConnectNext(p)
        PROVE  request' = request \/ \E q \in Requests : RequestEffect(q)
    BY <1>2, <1>3, <1>4 DEF ConnectNext, Reads, ConnectToActive, InsertConnection, CreatePairing
  <1>5. ASSUME NEW p \in Requests, DisconnectNext(p)
        PROVE  request' = request \/ \E q \in Requests : RequestEffect(q)
    BY <1>2, <1>3, <1>5 DEF DisconnectNext, Reads, CommitDisconnect
  <1>6. ASSUME NEW p \in Requests, ConsumeNext(p)
        PROVE  request' = request \/ \E q \in Requests : RequestEffect(q)
    BY <1>2, <1>3, <1>6 DEF ConsumeNext, Reads, Expire, Pair
  <1>7. ASSUME NEW p \in Requests, Fail(p)
        PROVE  \E q \in Requests : RequestEffect(q)
    BY <1>3, <1>7 DEF Fail, Moves
  <1>8. ASSUME NEW g \in Pairings, Deadline(g)
        PROVE  request' = request
    BY <1>8 DEF Deadline
  <1>9. QED
    BY <1>1, <1>4, <1>5, <1>6, <1>7, <1>8 DEF Next

\* A connect that gets its row has the copy it had, or reads it again.
LEMMA LockMoves ==
  ASSUME Inv, NEW p \in Requests, LockConnection(p)
  PROVE  /\ request[p] \in Connect /\ request'[p] \in Connect
         /\ request'[p].step = "renew" /\ request'[p].stale = request[p].stale
         /\ request'[p].connection = request[p].connection
         /\ \/ request[p].step = "reuse" /\ request'[p].copy = request[p].copy
            \/ /\ request[p].step = "revive"
               /\ request'[p].copy = connection[request[p].connection]
               /\ connection[request[p].connection].status = "disabled"
  <1>1. request[p] \in Connect
    BY RequestTypes DEF LockConnection, Inv
  <1>2. connection[request[p].connection] \in TelegramConnection /\ request[p].copy \in TelegramConnection
    BY <1>1 DEF Connect, Inv, TypeOK
  <1>3. \E d \in TelegramConnection :
          /\ request'[p] = [request[p] EXCEPT !.step = "renew", !.copy = d]
          /\ \/ request[p].step = "reuse" /\ d = request[p].copy
             \/ /\ request[p].step = "revive"
                /\ d = connection[request[p].connection]
                /\ connection[request[p].connection].status = "disabled"
    <2>1. CASE request[p].step = "reuse"
      <3>1. request'[p] = [request[p] EXCEPT !.step = "renew", !.copy = request[p].copy]
        BY <2>1, MovesOne DEF LockConnection, Inv
      <3>2. QED
        BY <1>2, <2>1, <3>1
    <2>2. CASE request[p].step = "revive"
      <3>1. request'[p] = [request[p] EXCEPT !.step = "renew",
                                             !.copy = connection[request[p].connection]]
        BY <2>2, MovesOne DEF LockConnection, Inv
      <3>2. connection[request[p].connection].status = "disabled"
        BY <2>2 DEF LockConnection
      <3>3. QED
        BY <1>2, <2>2, <3>1, <3>2
    <2>3. QED
      BY <2>1, <2>2 DEF LockConnection
  <1>4. QED
    BY <1>1, <1>3 DEF Connect

\* The record of a request that has moved.
LEMMA ReadsTypes ==
  ASSUME Inv, NEW p \in Requests, Reads(p)
  PROVE  request'[p] \in Search \cup Connect \cup Disconnect \cup Consume
  <1>1. /\ \A d \in Connections : connection[d] \in TelegramConnection
        /\ Stale \in SUBSET Connections
    BY DEF Inv, TypeOK, Stale, Disabled
  <1>2. ASSUME NEW c \in Connections, ConnectToPending(p, c)
        PROVE  request'[p] \in Connect
    BY <1>1, <1>2, MovesOne DEF ConnectToPending, Connect, Inv
  <1>3. ASSUME NEW c \in Connections, FindDisabled(p, c)
        PROVE  request'[p] \in Connect
    <2>1. request[p] \in Search \cup Connect
      BY <1>3, RequestTypes DEF FindDisabled, Missed, Inv
    <2>2. request[p].stale \in SUBSET Connections
      BY <2>1 DEF Search, Connect
    <2>3. QED
      BY <2>2, <1>1, <1>3, MovesOne DEF FindDisabled, Connect, Inv
  <1>4. ASSUME NEW c \in Connections, ReadOpen(p, c)
        PROVE  request'[p] \in Disconnect
    BY <1>1, <1>4, MovesOne DEF ReadOpen, Disconnect, Inv
  <1>5. ASSUME ConnectToNone(p)
        PROVE  request'[p] \in Search
    BY <1>1, <1>5, MovesOne DEF ConnectToNone, Search, Inv
  <1>6. ASSUME FindNone(p)
        PROVE  request'[p] \in Search
    <2>1. request[p] \in Search
      BY <1>6, RequestTypes DEF FindNone, Inv
    <2>2. QED
      BY <2>1, <1>6, MovesOne DEF FindNone, Search, Inv
  <1>7. ASSUME LockConnection(p)
        PROVE  request'[p] \in Connect
    BY <1>7, LockMoves
  <1>8. ASSUME InsertInstead(p)
        PROVE  request'[p] \in Search
    <2>1. request[p] \in Connect
      BY <1>8, RequestTypes DEF InsertInstead, Missed, Inv
    <2>2. request[p].stale \in SUBSET Connections
      BY <2>1 DEF Connect
    <2>3. QED
      BY <2>2, <1>8, MovesOne DEF InsertInstead, Missed, Search, Inv
  <1>9. ASSUME FlushDisabled(p)
        PROVE  request'[p] \in Disconnect
    <2>1. request[p] \in Disconnect
      BY <1>9, RequestTypes DEF FlushDisabled, Inv
    <2>2. QED
      BY <2>1, <1>9, MovesOne DEF FlushDisabled, Disconnect, Inv
  <1>10. ASSUME NEW g \in Pairings, NEW x \in Chats, LockPairing(p, g, x)
         PROVE  request'[p] \in Consume
    BY <1>10, MovesOne DEF LockPairing, Consume, Inv
  <1>11. QED
    BY <1>2, <1>3, <1>4, <1>5, <1>6, <1>7, <1>8, <1>9, <1>10 DEF Reads

---------------------------------------------------------------------------
(* What a step does to a code *)

MadeCode(g) == /\ pairing[g].status = "absent"
               /\ \E c \in Connections :
                    /\ pairing'[g] = [status |-> "pending", connection |-> c, late |-> FALSE]
                    /\ connection'[c].status # "absent"

SpentCode(g) == /\ pairing[g].status = "pending"
                /\ \E s \in {"revoked", "expired", "consumed"} :
                     pairing'[g] = [status |-> s, connection |-> pairing[g].connection,
                                    late |-> pairing[g].late]

LateCode(g) == /\ pairing'[g] \in TelegramPairing
               /\ pairing'[g].status = pairing[g].status
               /\ pairing'[g].connection = pairing[g].connection

CodeEffect(g) == pairing'[g] = pairing[g] \/ MadeCode(g) \/ SpentCode(g) \/ LateCode(g)

\* The codes that create_pairing leaves.
LEMMA CodesEffect ==
  ASSUME TypeOK, NEW c \in Connections, NEW g \in Pairings, pairing[g].status = "absent",
         pairing' = Codes(c, g), NEW h \in Pairings
  PROVE  /\ h = g => pairing'[h] = [status |-> "pending", connection |-> c, late |-> FALSE]
         /\ h # g /\ h \notin PendingOf(c) => pairing'[h] = pairing[h]
         /\ h \in PendingOf(c) => /\ h # g
                                  /\ SpentCode(h)
                                  /\ pairing'[h] = [status |-> "revoked", connection |-> c,
                                                    late |-> pairing[h].late]
  <1>1. pairing[h] = [status |-> pairing[h].status, connection |-> pairing[h].connection,
                      late |-> pairing[h].late]
    BY DEF TypeOK, TelegramPairing
  <1>2. h \in PendingOf(c) => h # g
    BY DEF PendingOf
  <1>3. pairing'[h] = IF h = g THEN [status |-> "pending", connection |-> c, late |-> FALSE]
                      ELSE IF h \in PendingOf(c) THEN [pairing[h] EXCEPT !.status = "revoked"]
                      ELSE pairing[h]
    BY DEF Codes
  <1>4. QED
    BY <1>1, <1>2, <1>3 DEF PendingOf, SpentCode

\* Every step.
LEMMA CodeStep ==
  ASSUME Inv, [Next]_vars, NEW g \in Pairings
  PROVE  CodeEffect(g)
  <1> USE DEF CodeEffect
  <1>1. /\ pairing[g] = [status |-> pairing[g].status, connection |-> pairing[g].connection,
                         late |-> pairing[g].late]
        /\ pairing \in [Pairings -> TelegramPairing]
    BY DEF Inv, TypeOK, TelegramPairing
  <1>2. CASE pairing' = pairing
    BY <1>1, <1>2
  <1>3. ASSUME NEW p \in Requests, NEW h \in Pairings, CreatePairing(p, h)
        PROVE  CodeEffect(g)
    <2>1. request[p] \in Connect
      BY <1>3, RequestTypes DEF CreatePairing, Inv
    <2>2. request[p].connection \in Connections
      BY <2>1 DEF Connect
    <2>3. connection'[request[p].connection].status # "absent"
      <3>1. connection[request[p].connection].status # "absent"
        BY <1>3 DEF Inv, Rows, AtPresent, CreatePairing
      <3>2. [Next]_vars => RowEffect(request[p].connection)
        BY <2>2, RowStep
      <3>3. QED
        BY <3>1, <3>2 DEF RowEffect, ClearedRow, RenewedRow, DisabledRow, PairedRow
    <2>4. pairing[h].status = "absent" /\ pairing' = Codes(request[p].connection, h)
      BY <1>3 DEF CreatePairing
    <2>5. g = h => MadeCode(g)
      BY <2>2, <2>3, <2>4, CodesEffect DEF MadeCode, Inv
    <2>6. QED
      BY <2>2, <2>4, <2>5, CodesEffect DEF Inv
  <1>4. ASSUME NEW p \in Requests, NEW c \in Connections, NEW h \in Pairings,
               InsertConnection(p, c, h)
        PROVE  CodeEffect(g)
    <2>1. connection'[c].status # "absent"
      BY <1>4, InsertionEffect DEF RenewedRow
    <2>2. pairing[h].status = "absent" /\ pairing' = Codes(c, h)
      BY <1>4 DEF InsertConnection
    <2>3. g = h => MadeCode(g)
      BY <2>1, <2>2, CodesEffect DEF MadeCode, Inv
    <2>4. QED
      BY <2>2, <2>3, CodesEffect DEF Inv
  <1>5. ASSUME NEW p \in Requests, CommitDisconnect(p)
        PROVE  CodeEffect(g)
    BY <1>1, <1>5 DEF CommitDisconnect, PendingOf, SpentCode
  <1>6. ASSUME NEW p \in Requests, Pair(p)
        PROVE  CodeEffect(g)
    <2>1. pairing' = [pairing EXCEPT ![request[p].pairing].status = "consumed"]
          /\ pairing[request[p].pairing].status = "pending"
      BY <1>6 DEF Pair, Inv, ConsumedIsPending
    <2>2. QED
      BY <1>1, <2>1 DEF SpentCode
  <1>7. ASSUME NEW p \in Requests, NEW h \in Pairings, Expire(p, h)
        PROVE  CodeEffect(g)
    BY <1>1, <1>7 DEF Expire, SpentCode
  <1>8. ASSUME NEW h \in Pairings, Deadline(h)
        PROVE  CodeEffect(g)
    <2>1. pairing' = [pairing EXCEPT ![h] = [pairing[h] EXCEPT !.late = TRUE]]
      BY <1>8 DEF Deadline
    <2>2. g # h => pairing'[g] = pairing[g]
      BY <1>1, <2>1
    <2>3. g = h => pairing'[g] = [pairing[g] EXCEPT !.late = TRUE]
      BY <1>1, <2>1
    <2>4. g = h => LateCode(g)
      BY <1>1, <2>3 DEF LateCode, TelegramPairing
    <2>5. QED
      BY <2>2, <2>4
  <1>9. ASSUME NEW p \in Requests, ConnectNext(p)
        PROVE  CodeEffect(g)
    BY <1>2, <1>3, <1>4, <1>9 DEF ConnectNext, ConnectToPending, ConnectToActive, FindDisabled,
      ConnectToNone, FindNone, LockConnection, InsertInstead, Moves
  <1>10. ASSUME NEW p \in Requests, DisconnectNext(p)
         PROVE  CodeEffect(g)
    BY <1>2, <1>5, <1>10 DEF DisconnectNext, ReadOpen, FlushDisabled, Moves
  <1>11. ASSUME NEW p \in Requests, ConsumeNext(p) \/ Fail(p)
         PROVE  CodeEffect(g)
    BY <1>2, <1>6, <1>7, <1>11 DEF ConsumeNext, LockPairing, Fail, Moves
  <1>12. CASE UNCHANGED vars
    BY <1>2, <1>12 DEF vars
  <1>13. QED
    BY <1>8, <1>9, <1>10, <1>11, <1>12 DEF Next

---------------------------------------------------------------------------
(* Type correctness *)

\* Every step keeps the types of the variables.
LEMMA TypeStep == Inv /\ [Next]_vars => TypeOK'
  <1> SUFFICES ASSUME Inv, [Next]_vars PROVE TypeOK'
    OBVIOUS
  <1>1. connection' \in [Connections -> TelegramConnection]
    <2>1. \A c \in Connections : connection'[c] \in TelegramConnection
      <3> SUFFICES ASSUME NEW c \in Connections PROVE connection'[c] \in TelegramConnection
        OBVIOUS
      <3>1. connection[c] \in TelegramConnection
        BY DEF Inv, TypeOK
      <3>2. connection[c].chat \in {NoChat} \cup Chats
        BY <3>1, RowTypes
      <3>3. QED
        BY <3>1, <3>2, RowStep, MakesRow DEF RowEffect, ClearedRow, RenewedRow, DisabledRow, PairedRow
    <2>2. connection' = [c \in Connections |-> connection'[c]]
      BY DEF Inv, TypeOK, Next, vars, ConnectNext, DisconnectNext, ConsumeNext, ConnectToPending,
        ConnectToActive, FindDisabled, ConnectToNone, FindNone, LockConnection, InsertInstead,
        CreatePairing, InsertConnection, Cleared, ReadOpen, FlushDisabled, CommitDisconnect,
        LockPairing, Expire, Pair, Deadline, Fail, Moves
    <2>3. QED
      BY <2>1, <2>2
  <1>2. pairing' \in [Pairings -> TelegramPairing]
    <2>1. \A g \in Pairings : pairing'[g] \in TelegramPairing
      <3> SUFFICES ASSUME NEW g \in Pairings PROVE pairing'[g] \in TelegramPairing
        OBVIOUS
      <3>1. pairing[g] \in TelegramPairing
        BY DEF Inv, TypeOK
      <3>2. /\ pairing[g].status \in {"absent", "pending", "revoked", "expired", "consumed"}
            /\ pairing[g].connection \in Connections /\ pairing[g].late \in BOOLEAN
        BY <3>1 DEF TelegramPairing
      <3>3. CASE pairing'[g] = pairing[g]
        BY <3>1, <3>3
      <3>4. CASE MadeCode(g)
        BY <3>4 DEF MadeCode, TelegramPairing
      <3>5. CASE SpentCode(g)
        BY <3>2, <3>5 DEF SpentCode, TelegramPairing
      <3>6. CASE LateCode(g)
        BY <3>6 DEF LateCode
      <3>7. QED
        BY <3>3, <3>4, <3>5, <3>6, CodeStep DEF CodeEffect
    <2>2. pairing' = [g \in Pairings |-> pairing'[g]]
      BY DEF Inv, TypeOK, Next, vars, ConnectNext, DisconnectNext, ConsumeNext, ConnectToPending,
        ConnectToActive, FindDisabled, ConnectToNone, FindNone, LockConnection, InsertInstead,
        CreatePairing, InsertConnection, Codes, ReadOpen, FlushDisabled, CommitDisconnect,
        LockPairing, Expire, Pair, Deadline, Fail, Moves
    <2>3. QED
      BY <2>1, <2>2
  <1>3. request' \in [Requests -> {Idle} \cup Search \cup Connect \cup Disconnect \cup Consume]
    <2>1. CASE request' = request
      BY <2>1 DEF Inv, TypeOK
    <2>2. ASSUME NEW p \in Requests, RequestEffect(p)
          PROVE  request' \in [Requests -> {Idle} \cup Search \cup Connect \cup Disconnect \cup Consume]
      <3>1. \A q \in Requests : request'[q] \in {Idle} \cup Search \cup Connect \cup Disconnect \cup Consume
        BY <2>2, ReadsTypes DEF RequestEffect, Inv, TypeOK
      <3>2. request' = [q \in Requests |-> request'[q]]
        BY DEF Inv, TypeOK, Next, vars, ConnectNext, DisconnectNext, ConsumeNext, ConnectToPending,
          ConnectToActive, FindDisabled, ConnectToNone, FindNone, LockConnection, InsertInstead,
          CreatePairing, InsertConnection, ReadOpen, FlushDisabled, CommitDisconnect,
          LockPairing, Expire, Pair, Deadline, Fail, Moves
      <3>3. QED
        BY <3>1, <3>2
    <2>3. QED
      BY <2>1, <2>2, RequestStep
  <1>4. QED
    BY <1>1, <1>2, <1>3 DEF TypeOK

---------------------------------------------------------------------------
(* Locks *)

\* No row disappears.
LEMMA PresentStep ==
  ASSUME Inv, [Next]_vars, NEW c \in Connections, connection[c].status # "absent"
  PROVE  connection'[c].status # "absent"
  <1>1. RowEffect(c)
    BY RowStep
  <1>2. QED
    BY <1>1 DEF RowEffect, ClearedRow, RenewedRow, DisabledRow, PairedRow

\* Who holds a row knows that it is there.
LEMMA HeldIsPresent ==
  ASSUME Inv, NEW q \in Requests, NEW c \in Connections, HoldsConnection(q, c)
  PROVE  connection[c].status # "absent"
  BY DEF Inv, Rows, StaleDisabled, AtPresent, HoldsConnection

\* A row that a request goes on holding is not written.
LEMMA HeldRow ==
  ASSUME Inv, [Next]_vars, NEW q \in Requests, NEW c \in Connections,
         HoldsConnection(q, c), request'[q] = request[q]
  PROVE  connection'[c] = connection[c]
  <1>1. request[q] # Idle
    BY DEF HoldsConnection, Idle
  <1>2. ASSUME NEW p \in Requests, NEW d \in Connections, ConnectToActive(p, d)
        PROVE  connection'[c] = connection[c]
    <2>1. c \notin Stale
      BY <1>1, <1>2 DEF ConnectToActive, LockableConnection
    <2>2. QED
      BY <2>1, <1>2 DEF ConnectToActive, Inv, TypeOK
  <1>3. ASSUME NEW p \in Requests, NEW g \in Pairings, CreatePairing(p, g)
        PROVE  connection'[c] = connection[c]
    <2>1. request'[p] = Idle
      BY <1>3 DEF CreatePairing, Inv, TypeOK
    <2>2. ~HoldsConnection(p, c)
      BY <1>1, <2>1 DEF Inv, Rows, OneHolder
    <2>3. c # request[p].connection /\ c \notin request[p].stale
      BY <1>3, <2>2 DEF HoldsConnection, CreatePairing
    <2>4. QED
      BY <2>3, <1>3, RenewalEffect
  <1>4. ASSUME NEW p \in Requests, NEW d \in Connections, NEW g \in Pairings,
               InsertConnection(p, d, g)
        PROVE  connection'[c] = connection[c]
    <2>1. request'[p] = Idle
      BY <1>4 DEF InsertConnection, Inv, TypeOK
    <2>2. ~HoldsConnection(p, c)
      BY <1>1, <2>1 DEF Inv, Rows, OneHolder
    <2>3. c # d /\ c \notin request[p].stale
      BY <1>4, <2>2, HeldIsPresent DEF HoldsConnection, InsertConnection
    <2>4. QED
      BY <2>3, <1>4, InsertionEffect
  <1>5. ASSUME NEW p \in Requests, CommitDisconnect(p)
        PROVE  connection'[c] = connection[c]
    <2>1. request'[p] = Idle
      BY <1>5 DEF CommitDisconnect, Inv, TypeOK
    <2>2. ~HoldsConnection(p, c)
      BY <1>1, <2>1 DEF Inv, Rows, OneHolder
    <2>3. c # request[p].connection
      BY <1>5, <2>2 DEF HoldsConnection, CommitDisconnect
    <2>4. QED
      BY <2>3, <1>5, DisconnectionEffect
  <1>6. ASSUME NEW p \in Requests, Pair(p)
        PROVE  connection'[c] = connection[c]
    <2>1. request'[p] = Idle
      BY <1>6 DEF Pair, Inv, TypeOK
    <2>2. c # pairing[request[p].pairing].connection
      BY <1>1, <1>6, <2>1 DEF Pair, LockableConnection
    <2>3. QED
      BY <2>2, <1>6, PairEffect
  <1>7. ASSUME NEW p \in Requests, ConnectNext(p)
        PROVE  connection'[c] = connection[c]
    BY <1>2, <1>3, <1>4, <1>7 DEF ConnectNext, ConnectToPending, FindDisabled, ConnectToNone,
      FindNone, LockConnection, InsertInstead, Moves
  <1>8. ASSUME NEW p \in Requests, DisconnectNext(p)
        PROVE  connection'[c] = connection[c]
    BY <1>5, <1>8 DEF DisconnectNext, ReadOpen, FlushDisabled, Moves
  <1>9. ASSUME NEW p \in Requests, ConsumeNext(p) \/ Fail(p)
        PROVE  connection'[c] = connection[c]
    BY <1>6, <1>9 DEF ConsumeNext, Expire, LockPairing, Fail, Moves
  <1>10. QED
    BY <1>7, <1>8, <1>9 DEF Next, Deadline, vars

\* Nor is a code that is being consumed.
LEMMA HeldCode ==
  ASSUME Inv, [Next]_vars, NEW q \in Requests, NEW g \in Pairings,
         HoldsPairing(q, g), request'[q] = request[q]
  PROVE  pairing'[g].status = "pending"
  <1>1. request[q] # Idle /\ pairing[g].status = "pending" /\ pairing[g] \in TelegramPairing
    BY DEF HoldsPairing, Idle, Inv, ConsumedIsPending, TypeOK
  <1>2. CASE pairing' = pairing
    BY <1>1, <1>2
  <1>3. ASSUME NEW p \in Requests, NEW h \in Pairings, CreatePairing(p, h)
        PROVE  pairing'[g].status = "pending"
    <2>1. request'[p] = Idle
      BY <1>3 DEF CreatePairing, Inv, TypeOK
    <2>2. g \notin PendingOf(request[p].connection)
      BY <1>1, <1>3, <2>1 DEF CreatePairing, LockablePairing
    <2>3. pairing'[g] = pairing[g]
      BY <1>1, <1>3, <2>2 DEF CreatePairing, Codes
    <2>4. QED
      BY <1>1, <2>3
  <1>4. ASSUME NEW p \in Requests, NEW d \in Connections, NEW h \in Pairings,
               InsertConnection(p, d, h)
        PROVE  pairing'[g].status = "pending"
    <2>1. g \notin PendingOf(d)
      BY <1>1, <1>4 DEF PendingOf, InsertConnection, Inv, CodesPresent
    <2>2. pairing'[g] = pairing[g]
      BY <1>1, <1>4, <2>1 DEF InsertConnection, Codes
    <2>3. QED
      BY <1>1, <2>2
  <1>5. ASSUME NEW p \in Requests, CommitDisconnect(p)
        PROVE  pairing'[g].status = "pending"
    <2>1. request'[p] = Idle
      BY <1>5 DEF CommitDisconnect, Inv, TypeOK
    <2>2. g \notin PendingOf(request[p].connection)
      BY <1>1, <1>5, <2>1 DEF CommitDisconnect, LockablePairing
    <2>3. QED
      BY <1>1, <1>5, <2>2 DEF CommitDisconnect
  <1>6. ASSUME NEW p \in Requests, Pair(p)
        PROVE  pairing'[g].status = "pending"
    <2>1. request'[p] = Idle
      BY <1>6 DEF Pair, Inv, TypeOK
    <2>2. g # request[p].pairing
      BY <1>1, <1>6, <2>1 DEF Pair, Inv, OneConsumer, HoldsPairing
    <2>3. QED
      BY <1>1, <1>6, <2>2 DEF Pair, Inv, TypeOK
  <1>7. ASSUME NEW p \in Requests, NEW h \in Pairings, Expire(p, h)
        PROVE  pairing'[g].status = "pending"
    <2>1. request[p] = Idle
      BY <1>7 DEF Expire
    <2>2. g # h
      BY <1>1, <1>7, <2>1 DEF Expire, LockablePairing
    <2>3. QED
      BY <1>1, <1>7, <2>2 DEF Expire, Inv, TypeOK
  <1>8. ASSUME NEW h \in Pairings, Deadline(h)
        PROVE  pairing'[g].status = "pending"
    BY <1>1, <1>8 DEF Deadline, Inv, TypeOK, TelegramPairing
  <1>9. ASSUME NEW p \in Requests, ConnectNext(p)
        PROVE  pairing'[g].status = "pending"
    BY <1>2, <1>3, <1>4, <1>9 DEF ConnectNext, ConnectToPending, ConnectToActive, FindDisabled,
      ConnectToNone, FindNone, LockConnection, InsertInstead, Moves
  <1>10. ASSUME NEW p \in Requests, DisconnectNext(p)
         PROVE  pairing'[g].status = "pending"
    BY <1>2, <1>5, <1>10 DEF DisconnectNext, ReadOpen, FlushDisabled, Moves
  <1>11. ASSUME NEW p \in Requests, ConsumeNext(p) \/ Fail(p)
         PROVE  pairing'[g].status = "pending"
    BY <1>2, <1>6, <1>7, <1>11 DEF ConsumeNext, LockPairing, Fail, Moves
  <1>12. QED
    BY <1>2, <1>8, <1>9, <1>10, <1>11 DEF Next, vars

\* A request comes to hold only what nobody else holds.
LEMMA NewHolds ==
  ASSUME Inv, NEW p \in Requests, Reads(p), NEW c \in Connections, HoldsConnection(p, c)'
  PROVE  HoldsConnection(p, c) \/ LockableConnection(p, c)
  <1>1. ASSUME NEW d \in Connections, ConnectToPending(p, d)
        PROVE  HoldsConnection(p, c) \/ LockableConnection(p, c)
    BY <1>1, MovesOne DEF ConnectToPending, HoldsConnection, Inv
  <1>2. ASSUME NEW d \in Connections, FindDisabled(p, d)
        PROVE  HoldsConnection(p, c)
    BY <1>2, MovesOne DEF FindDisabled, Missed, HoldsConnection, Inv
  <1>3. ASSUME NEW d \in Connections, ReadOpen(p, d)
        PROVE  FALSE
    BY <1>3, MovesOne DEF ReadOpen, HoldsConnection, Inv
  <1>4. ASSUME ConnectToNone(p)
        PROVE  LockableConnection(p, c)
    BY <1>4, MovesOne DEF ConnectToNone, HoldsConnection, Inv
  <1>5. ASSUME FindNone(p)
        PROVE  HoldsConnection(p, c)
    <2>1. request[p] \in Search
      BY <1>5, RequestTypes DEF FindNone, Inv
    <2>2. QED
      BY <2>1, <1>5, MovesOne DEF FindNone, HoldsConnection, Search, Inv
  <1>6. ASSUME LockConnection(p)
        PROVE  HoldsConnection(p, c) \/ LockableConnection(p, c)
    BY <1>6, LockMoves DEF LockConnection, HoldsConnection
  <1>7. ASSUME InsertInstead(p)
        PROVE  HoldsConnection(p, c)
    BY <1>7, MovesOne DEF InsertInstead, Missed, HoldsConnection, Inv
  <1>8. ASSUME FlushDisabled(p)
        PROVE  LockableConnection(p, c)
    <2>1. request[p] \in Disconnect
      BY <1>8, RequestTypes DEF FlushDisabled, Inv
    <2>2. request'[p].step = "revoke" /\ request'[p].connection = request[p].connection
      BY <2>1, <1>8, MovesOne DEF FlushDisabled, Disconnect, Inv
    <2>3. QED
      BY <2>2, <1>8 DEF FlushDisabled, HoldsConnection
  <1>9. ASSUME NEW g \in Pairings, NEW x \in Chats, LockPairing(p, g, x)
        PROVE  FALSE
    BY <1>9, MovesOne DEF LockPairing, HoldsConnection, Inv
  <1>10. QED
    BY <1>1, <1>2, <1>3, <1>4, <1>5, <1>6, <1>7, <1>8, <1>9 DEF Reads

\* Only the lock on a code starts its consumption.
LEMMA NewConsumes ==
  ASSUME Inv, NEW p \in Requests, Reads(p), request'[p].step = "consume"
  PROVE  \E g \in Pairings, x \in Chats : LockPairing(p, g, x)
  <1>1. ASSUME NEW d \in Connections,
               ConnectToPending(p, d) \/ FindDisabled(p, d) \/ ReadOpen(p, d)
        PROVE  FALSE
    BY <1>1, MovesOne DEF ConnectToPending, FindDisabled, ReadOpen, Inv
  <1>2. ASSUME ConnectToNone(p) \/ InsertInstead(p)
        PROVE  FALSE
    BY <1>2, MovesOne DEF ConnectToNone, InsertInstead, Inv
  <1>3. ASSUME FindNone(p)
        PROVE  FALSE
    <2>1. request[p] \in Search
      BY <1>3, RequestTypes DEF FindNone, Inv
    <2>2. QED
      BY <2>1, <1>3, MovesOne DEF FindNone, Search, Inv
  <1>4. ASSUME LockConnection(p)
        PROVE  FALSE
    BY <1>4, LockMoves
  <1>5. ASSUME FlushDisabled(p)
        PROVE  FALSE
    <2>1. request[p] \in Disconnect
      BY <1>5, RequestTypes DEF FlushDisabled, Inv
    <2>2. QED
      BY <2>1, <1>5, MovesOne DEF FlushDisabled, Disconnect, Inv
  <1>6. QED
    BY <1>1, <1>2, <1>3, <1>4, <1>5 DEF Reads

---------------------------------------------------------------------------
(* The steps of the invariant *)

\* A row keeps one holder.
LEMMA OneHolderStep == Inv /\ [Next]_vars => OneHolder'
  <1> SUFFICES ASSUME Inv, [Next]_vars, NEW p \in Requests, NEW q \in Requests,
                      NEW c \in Connections, HoldsConnection(p, c)', HoldsConnection(q, c)', p # q
               PROVE  FALSE
    BY DEF OneHolder
  <1>1. ASSUME NEW t \in Requests, request'[t] = request[t], HoldsConnection(t, c)'
        PROVE  HoldsConnection(t, c)
    BY <1>1 DEF HoldsConnection
  <1>2. CASE request' = request
    BY <1>1, <1>2 DEF Inv, Rows, OneHolder
  <1>3. ASSUME NEW t \in Requests, RequestEffect(t)
        PROVE  FALSE
    <2>1. ASSUME NEW u \in Requests \ {t}, HoldsConnection(t, c)', HoldsConnection(u, c)'
          PROVE  FALSE
      <3>1. HoldsConnection(u, c)
        BY <2>1, <1>1, <1>3 DEF RequestEffect
      <3>2. Reads(t)
        BY <2>1, <1>3 DEF RequestEffect, HoldsConnection, Idle
      <3>3. HoldsConnection(t, c) \/ LockableConnection(t, c)
        BY <2>1, <3>2, NewHolds
      <3>4. QED
        BY <2>1, <3>1, <3>3 DEF LockableConnection, Inv, Rows, OneHolder
    <2>2. CASE p # t /\ q # t
      BY <2>2, <1>1, <1>3 DEF RequestEffect, Inv, Rows, OneHolder
    <2>3. QED
      BY <2>1, <2>2
  <1>4. QED
    BY <1>2, <1>3, RequestStep

\* The rows a connect has locked stay disabled until it ends.
LEMMA StaleStep == Inv /\ [Next]_vars => StaleDisabled'
  <1> SUFFICES ASSUME Inv, [Next]_vars, NEW p \in Requests, NEW c \in Connections,
                      request'[p].step \in {"search", "insert", "reuse", "revive", "renew"},
                      c \in request'[p].stale
               PROVE  connection'[c].status = "disabled"
    BY DEF StaleDisabled
  <1>1. CASE request'[p] = request[p]
    BY <1>1, HeldRow DEF HoldsConnection, Inv, Rows, StaleDisabled
  <1>2. ASSUME Reads(p), connection' = connection
        PROVE  connection'[c].status = "disabled"
    <2>1. ASSUME NEW d \in Connections, ConnectToPending(p, d)
          PROVE  connection[c].status = "disabled"
      BY <2>1, MovesOne DEF ConnectToPending, Stale, Disabled, Inv
    <2>2. ASSUME NEW d \in Connections, FindDisabled(p, d)
          PROVE  connection[c].status = "disabled"
      BY <2>2, MovesOne DEF FindDisabled, Missed, Inv, Rows, StaleDisabled
    <2>3. ASSUME NEW d \in Connections, ReadOpen(p, d)
          PROVE  FALSE
      BY <2>3, MovesOne DEF ReadOpen, Inv
    <2>4. ASSUME ConnectToNone(p)
          PROVE  connection[c].status = "disabled"
      BY <2>4, MovesOne DEF ConnectToNone, Stale, Disabled, Inv
    <2>5. ASSUME FindNone(p)
          PROVE  connection[c].status = "disabled"
      <3>1. request[p] \in Search
        BY <2>5, RequestTypes DEF FindNone, Inv
      <3>2. request'[p].stale = request[p].stale
        BY <3>1, <2>5, MovesOne DEF FindNone, Search, Inv
      <3>3. QED
        BY <3>2, <2>5 DEF FindNone, Inv, Rows, StaleDisabled
    <2>6. ASSUME LockConnection(p)
          PROVE  connection[c].status = "disabled"
      BY <2>6, LockMoves DEF LockConnection, Inv, Rows, StaleDisabled
    <2>7. ASSUME InsertInstead(p)
          PROVE  connection[c].status = "disabled"
      BY <2>7, MovesOne DEF InsertInstead, Missed, Inv, Rows, StaleDisabled
    <2>8. ASSUME FlushDisabled(p)
          PROVE  FALSE
      <3>1. request[p] \in Disconnect
        BY <2>8, RequestTypes DEF FlushDisabled, Inv
      <3>2. QED
        BY <3>1, <2>8, MovesOne DEF FlushDisabled, Disconnect, Inv
    <2>9. ASSUME NEW g \in Pairings, NEW x \in Chats, LockPairing(p, g, x)
          PROVE  FALSE
      BY <2>9, MovesOne DEF LockPairing, Inv
    <2>10. QED
      BY <1>2, <2>1, <2>2, <2>3, <2>4, <2>5, <2>6, <2>7, <2>8, <2>9 DEF Reads
  <1>3. CASE request'[p] = Idle
    BY <1>3 DEF Idle
  <1>4. QED
    BY <1>1, <1>2, <1>3, RequestStep DEF RequestEffect

\* A copy stays what CopyKnown says of it.
LEMMA CopyStep == Inv /\ [Next]_vars => CopyKnown'
  <1> SUFFICES ASSUME Inv, [Next]_vars, NEW p \in Requests
               PROVE  /\ request'[p].step = "reuse" => request'[p].copy.status = "pending_chat_id"
                      /\ request'[p].step = "renew" =>
                           \/ request'[p].copy.status = "pending_chat_id"
                           \/ /\ request'[p].copy.status = "disabled"
                              /\ connection'[request'[p].connection] = request'[p].copy
    BY DEF CopyKnown
  <1>1. CASE request'[p] = request[p]
    <2>1. CASE request[p].step = "renew"
      <3>1. request[p].connection \in Connections
        BY <2>1, RequestTypes DEF Connect, Inv
      <3>2. connection'[request[p].connection] = connection[request[p].connection]
        BY <1>1, <2>1, <3>1, HeldRow DEF HoldsConnection
      <3>3. QED
        BY <1>1, <2>1, <3>2 DEF Inv, Rows, CopyKnown
    <2>2. QED
      BY <1>1, <2>1 DEF Inv, Rows, CopyKnown
  <1>2. ASSUME Reads(p), connection' = connection
        PROVE  /\ request'[p].step = "reuse" => request'[p].copy.status = "pending_chat_id"
               /\ request'[p].step = "renew" =>
                    \/ request'[p].copy.status = "pending_chat_id"
                    \/ /\ request'[p].copy.status = "disabled"
                       /\ connection'[request'[p].connection] = request'[p].copy
    <2>1. ASSUME NEW d \in Connections, ConnectToPending(p, d)
          PROVE  request'[p].step = "reuse" /\ request'[p].copy.status = "pending_chat_id"
      BY <2>1, MovesOne DEF ConnectToPending, Inv
    <2>2. ASSUME NEW d \in Connections, FindDisabled(p, d) \/ ReadOpen(p, d)
          PROVE  request'[p].step \notin {"reuse", "renew"}
      BY <2>2, MovesOne DEF FindDisabled, ReadOpen, Inv
    <2>3. ASSUME ConnectToNone(p) \/ InsertInstead(p)
          PROVE  request'[p].step \notin {"reuse", "renew"}
      BY <2>3, MovesOne DEF ConnectToNone, InsertInstead, Inv
    <2>4. ASSUME FindNone(p)
          PROVE  request'[p].step \notin {"reuse", "renew"}
      <3>1. request[p] \in Search
        BY <2>4, RequestTypes DEF FindNone, Inv
      <3>2. QED
        BY <3>1, <2>4, MovesOne DEF FindNone, Search, Inv
    <2>5. ASSUME LockConnection(p)
          PROVE  /\ request'[p].step = "renew"
                 /\ \/ request'[p].copy.status = "pending_chat_id"
                    \/ /\ request'[p].copy.status = "disabled"
                       /\ connection'[request'[p].connection] = request'[p].copy
      BY <1>2, <2>5, LockMoves DEF Inv, Rows, CopyKnown
    <2>6. ASSUME FlushDisabled(p)
          PROVE  request'[p].step \notin {"reuse", "renew"}
      <3>1. request[p] \in Disconnect
        BY <2>6, RequestTypes DEF FlushDisabled, Inv
      <3>2. QED
        BY <3>1, <2>6, MovesOne DEF FlushDisabled, Disconnect, Inv
    <2>7. ASSUME NEW g \in Pairings, NEW x \in Chats, LockPairing(p, g, x)
          PROVE  request'[p].step \notin {"reuse", "renew"}
      BY <2>7, MovesOne DEF LockPairing, Inv
    <2>8. QED
      BY <1>2, <2>1, <2>2, <2>3, <2>4, <2>5, <2>6, <2>7 DEF Reads
  <1>3. CASE request'[p] = Idle
    BY <1>3 DEF Idle
  <1>4. QED
    BY <1>1, <1>2, <1>3, RequestStep DEF RequestEffect

\* The row a request works on stays.
LEMMA PresentRequestStep == Inv /\ [Next]_vars => AtPresent'
  <1> SUFFICES ASSUME Inv, [Next]_vars, NEW p \in Requests,
                      request'[p].step \in {"reuse", "revive", "renew", "disconnect", "revoke"}
               PROVE  connection'[request'[p].connection].status # "absent"
    BY DEF AtPresent
  <1>1. CASE request'[p] = request[p]
    <2>1. request[p].connection \in Connections
      BY <1>1, RequestTypes DEF Connect, Disconnect, Inv
    <2>2. QED
      BY <1>1, <2>1, PresentStep DEF Inv, Rows, AtPresent
  <1>2. ASSUME Reads(p), connection' = connection
        PROVE  connection'[request'[p].connection].status # "absent"
    <2>1. ASSUME NEW d \in Connections, ConnectToPending(p, d)
          PROVE  connection[request'[p].connection].status # "absent"
      BY <2>1, MovesOne DEF ConnectToPending, Inv
    <2>2. ASSUME NEW d \in Connections, FindDisabled(p, d)
          PROVE  connection[request'[p].connection].status # "absent"
      BY <2>2, MovesOne DEF FindDisabled, Disabled, Inv
    <2>3. ASSUME NEW d \in Connections, ReadOpen(p, d)
          PROVE  connection[request'[p].connection].status # "absent"
      BY <2>3, MovesOne DEF ReadOpen, Open, Inv
    <2>4. ASSUME ConnectToNone(p) \/ InsertInstead(p)
          PROVE  FALSE
      BY <2>4, MovesOne DEF ConnectToNone, InsertInstead, Inv
    <2>5. ASSUME FindNone(p)
          PROVE  FALSE
      <3>1. request[p] \in Search
        BY <2>5, RequestTypes DEF FindNone, Inv
      <3>2. QED
        BY <3>1, <2>5, MovesOne DEF FindNone, Search, Inv
    <2>6. ASSUME LockConnection(p)
          PROVE  connection[request'[p].connection].status # "absent"
      BY <2>6, LockMoves DEF Inv, Rows, AtPresent
    <2>7. ASSUME FlushDisabled(p)
          PROVE  connection[request'[p].connection].status # "absent"
      <3>1. request[p] \in Disconnect
        BY <2>7, RequestTypes DEF FlushDisabled, Inv
      <3>2. request'[p].connection = request[p].connection
        BY <3>1, <2>7, MovesOne DEF FlushDisabled, Disconnect, Inv
      <3>3. QED
        BY <3>2, <2>7 DEF FlushDisabled, Inv, Rows, AtPresent
    <2>8. ASSUME NEW g \in Pairings, NEW x \in Chats, LockPairing(p, g, x)
          PROVE  FALSE
      BY <2>8, MovesOne DEF LockPairing, Inv
    <2>9. QED
      BY <1>2, <2>1, <2>2, <2>3, <2>4, <2>5, <2>6, <2>7, <2>8 DEF Reads
  <1>3. CASE request'[p] = Idle
    BY <1>3 DEF Idle
  <1>4. QED
    BY <1>1, <1>2, <1>3, RequestStep DEF RequestEffect

\* A code has one consumer, and is pending until that one ends.
LEMMA ConsumerStep == Inv /\ [Next]_vars => OneConsumer' /\ ConsumedIsPending'
  <1> SUFFICES ASSUME Inv, [Next]_vars PROVE OneConsumer' /\ ConsumedIsPending'
    OBVIOUS
  <1>1. ASSUME NEW p \in Requests, Reads(p), pairing' = pairing, request'[p].step = "consume"
        PROVE  /\ pairing'[request'[p].pairing].status = "pending"
               /\ LockablePairing(p, request'[p].pairing)
    <2>1. PICK g \in Pairings, x \in Chats : LockPairing(p, g, x)
      BY <1>1, NewConsumes
    <2>2. request'[p] = [step |-> "consume", pairing |-> g, chat |-> x]
      BY <2>1, MovesOne DEF LockPairing, Inv
    <2>3. QED
      BY <1>1, <2>1, <2>2 DEF LockPairing
  <1>2. ASSUME NEW p \in Requests, request'[p] = request[p], request[p].step = "consume"
        PROVE  pairing'[request'[p].pairing].status = "pending"
    <2>1. request[p].pairing \in Pairings
      BY <1>2, RequestTypes DEF Consume, Inv
    <2>2. QED
      BY <2>1, <1>2, HeldCode DEF HoldsPairing
  <1>3. ConsumedIsPending'
    <2> SUFFICES ASSUME NEW p \in Requests, request'[p].step = "consume"
                 PROVE  pairing'[request'[p].pairing].status = "pending"
      BY DEF ConsumedIsPending
    <2>1. request'[p] # Idle
      BY DEF Idle
    <2>2. request'[p] = request[p] \/ (Reads(p) /\ pairing' = pairing)
      BY <2>1, RequestStep DEF RequestEffect
    <2>3. QED
      BY <1>1, <1>2, <2>2
  <1>4. OneConsumer'
    <2> SUFFICES ASSUME NEW p \in Requests, NEW q \in Requests, NEW g \in Pairings,
                        HoldsPairing(p, g)', HoldsPairing(q, g)', p # q
                 PROVE  FALSE
      BY DEF OneConsumer
    <2>1. ASSUME NEW t \in Requests, request'[t] = request[t], HoldsPairing(t, g)'
          PROVE  HoldsPairing(t, g)
      BY <2>1 DEF HoldsPairing
    <2>2. CASE request' = request
      BY <2>1, <2>2 DEF Inv, OneConsumer
    <2>3. ASSUME NEW t \in Requests, RequestEffect(t)
          PROVE  FALSE
      <3>1. ASSUME NEW u \in Requests \ {t}, HoldsPairing(t, g)', HoldsPairing(u, g)'
            PROVE  FALSE
        <4>1. HoldsPairing(u, g)
          BY <3>1, <2>1, <2>3 DEF RequestEffect
        <4>2. Reads(t) /\ pairing' = pairing
          BY <3>1, <2>3 DEF RequestEffect, HoldsPairing, Idle
        <4>3. LockablePairing(t, g)
          BY <1>1, <3>1, <4>2 DEF HoldsPairing
        <4>4. QED
          BY <3>1, <4>1, <4>3 DEF LockablePairing
      <3>2. CASE p # t /\ q # t
        BY <3>2, <2>1, <2>3 DEF RequestEffect, Inv, OneConsumer
      <3>3. QED
        BY <3>1, <3>2
    <2>4. QED
      BY <2>2, <2>3, RequestStep
  <1>5. QED
    BY <1>3, <1>4

\* The connection of a code is there.
LEMMA CodesPresentStep == Inv /\ [Next]_vars => CodesPresent'
  <1> SUFFICES ASSUME Inv, [Next]_vars, NEW g \in Pairings, pairing'[g].status = "pending"
               PROVE  connection'[pairing'[g].connection].status # "absent"
    BY DEF CodesPresent
  <1>1. pairing[g].connection \in Connections
    BY DEF Inv, TypeOK, TelegramPairing
  <1>2. CASE MadeCode(g)
    BY <1>2 DEF MadeCode
  <1>3. CASE SpentCode(g)
    BY <1>3 DEF SpentCode
  <1>4. CASE pairing'[g] = pairing[g] \/ LateCode(g)
    BY <1>1, <1>4, PresentStep DEF LateCode, Inv, CodesPresent
  <1>5. CodeEffect(g)
    BY CodeStep
  <1>6. QED
    BY <1>2, <1>3, <1>4, <1>5 DEF CodeEffect

\* Every step keeps what rows, codes and requests know.
LEMMA InvStep == Inv /\ [Next]_vars => Inv'
  BY TypeStep, OneHolderStep, StaleStep, CopyStep, PresentRequestStep, ConsumerStep, CodesPresentStep
    DEF Inv, Rows

---------------------------------------------------------------------------
(* One code *)

\* create_pairing leaves its connection one code.
LEMMA CodesAlikeAfter ==
  ASSUME TypeOK, CodesAlike, NEW c \in Connections, NEW g \in Pairings,
         pairing[g].status = "absent", pairing' = Codes(c, g)
  PROVE  CodesAlike'
  <1> SUFFICES ASSUME NEW d \in Connections, NEW h \in Pairings, NEW k \in Pairings,
                      pairing'[h].status = "pending", pairing'[h].connection = d,
                      pairing'[k].status = "pending", pairing'[k].connection = d
               PROVE  h = k
    BY DEF CodesAlike, PendingOf
  <1>1. ASSUME NEW j \in Pairings, pairing'[j].status = "pending", pairing'[j].connection = d
        PROVE  (j = g /\ d = c) \/ (j \in PendingOf(d) /\ d # c)
    <2>1. CASE j = g
      <3>1. pairing'[j] = [status |-> "pending", connection |-> c, late |-> FALSE]
        BY <2>1, CodesEffect
      <3>2. QED
        BY <1>1, <2>1, <3>1
    <2>2. CASE j # g /\ j \in PendingOf(c)
      <3>1. pairing'[j] = [status |-> "revoked", connection |-> c, late |-> pairing[j].late]
        BY <2>2, CodesEffect
      <3>2. QED
        BY <1>1, <3>1
    <2>3. CASE j # g /\ j \notin PendingOf(c)
      <3>1. pairing'[j] = pairing[j]
        BY <2>3, CodesEffect
      <3>2. QED
        BY <1>1, <2>3, <3>1 DEF PendingOf
    <2>4. QED
      BY <2>1, <2>2, <2>3
  <1>2. QED
    BY <1>1 DEF CodesAlike

\* A step that makes no code leaves no connection more of them.
LEMMA CodesAlikeKept ==
  ASSUME Inv, CodesAlike,
         \A g \in Pairings : pairing'[g] = pairing[g] \/ SpentCode(g) \/ LateCode(g)
  PROVE  CodesAlike'
  <1>1. ASSUME NEW c \in Connections, NEW g \in Pairings,
               pairing'[g].status = "pending", pairing'[g].connection = c
        PROVE  g \in PendingOf(c)
    <2>1. ~SpentCode(g)
      BY <1>1 DEF SpentCode
    <2>2. pairing'[g] = pairing[g] \/ LateCode(g)
      BY <2>1
    <2>3. QED
      BY <1>1, <2>2 DEF LateCode, PendingOf
  <1>2. QED
    BY <1>1 DEF CodesAlike, PendingOf

\* Every step leaves a connection one code.
LEMMA CodesAlikeStep == Inv /\ CodesAlike /\ [Next]_vars => CodesAlike'
  <1> SUFFICES ASSUME Inv, CodesAlike, [Next]_vars PROVE CodesAlike'
    OBVIOUS
  <1>1. ASSUME NEW p \in Requests, NEW g \in Pairings, CreatePairing(p, g)
        PROVE  CodesAlike'
    <2>1. request[p].connection \in Connections
      BY <1>1, RequestTypes DEF CreatePairing, Connect, Inv
    <2>2. QED
      BY <1>1, <2>1, CodesAlikeAfter DEF CreatePairing, Inv
  <1>2. ASSUME NEW p \in Requests, NEW c \in Connections, NEW g \in Pairings,
               InsertConnection(p, c, g)
        PROVE  CodesAlike'
    BY <1>2, CodesAlikeAfter DEF InsertConnection, Inv
  <1>3. ASSUME ~\E g \in Pairings : MadeCode(g)
        PROVE  CodesAlike'
    BY <1>3, CodeStep, CodesAlikeKept DEF CodeEffect
  <1>4. ASSUME NEW g \in Pairings, MadeCode(g),
               ~\E p \in Requests, h \in Pairings :
                   \/ CreatePairing(p, h)
                   \/ \E c \in Connections : InsertConnection(p, c, h)
        PROVE  FALSE
    <2>1. pairing[g].status = "absent" /\ pairing'[g].status = "pending"
          /\ pairing[g] \in TelegramPairing
      BY <1>4 DEF MadeCode, Inv, TypeOK
    <2>2. pairing' # pairing
      BY <2>1
    <2>3. ASSUME NEW p \in Requests, CommitDisconnect(p) PROVE FALSE
      BY <2>1, <2>3 DEF CommitDisconnect, PendingOf
    <2>4. ASSUME NEW p \in Requests, Pair(p) PROVE FALSE
      BY <2>1, <2>4 DEF Pair, Inv, TypeOK
    <2>5. ASSUME NEW p \in Requests, NEW h \in Pairings, Expire(p, h) PROVE FALSE
      BY <2>1, <2>5 DEF Expire, Inv, TypeOK
    <2>6. ASSUME NEW h \in Pairings, Deadline(h) PROVE FALSE
      BY <2>1, <2>6 DEF Deadline, Inv, TypeOK, TelegramPairing
    <2>7. ASSUME NEW p \in Requests, ConnectNext(p) PROVE FALSE
      BY <1>4, <2>2, <2>7 DEF ConnectNext, ConnectToPending, ConnectToActive, FindDisabled,
        ConnectToNone, FindNone, LockConnection, InsertInstead, Moves
    <2>8. ASSUME NEW p \in Requests, DisconnectNext(p) PROVE FALSE
      BY <2>2, <2>3, <2>8 DEF DisconnectNext, ReadOpen, FlushDisabled, Moves
    <2>9. ASSUME NEW p \in Requests, ConsumeNext(p) \/ Fail(p) PROVE FALSE
      BY <2>2, <2>4, <2>5, <2>9 DEF ConsumeNext, LockPairing, Fail, Moves
    <2>10. QED
      BY <2>2, <2>6, <2>7, <2>8, <2>9 DEF Next, vars
  <1>5. QED
    BY <1>1, <1>2, <1>3, <1>4

\* Codes that are all the same are at most one.
LEMMA AlikeCounted == CodesAlike => OneCodePerConnection
  <1> SUFFICES ASSUME CodesAlike, NEW c \in Connections PROVE Cardinality(PendingOf(c)) <= 1
    BY DEF OneCodePerConnection
  <1>1. CASE PendingOf(c) = {}
    BY <1>1, FS_EmptySet
  <1>2. ASSUME NEW g \in PendingOf(c)
        PROVE  Cardinality(PendingOf(c)) <= 1
    <2>1. PendingOf(c) = {g}
      BY <1>2 DEF CodesAlike
    <2>2. Cardinality({g}) = 1
      BY FS_Singleton
    <2>3. QED
      BY <2>1, <2>2
  <1>3. QED
    BY <1>1, <1>2

---------------------------------------------------------------------------
(* The bound on open connections *)

\* What is counted is finite.
LEMMA OpenIsFinite ==
  /\ IsFiniteSet(Open) /\ Cardinality(Open) \in Nat
  /\ IsFiniteSet(Making) /\ Cardinality(Making) \in Nat
  /\ Cardinality(Making) <= Cardinality(Requests) /\ Cardinality(Requests) \in Nat
  <1>1. Open \in SUBSET Connections /\ Making \in SUBSET Requests
    BY DEF Open, Making
  <1>2. IsFiniteSet(Connections) /\ IsFiniteSet(Requests)
    BY ConstantsAssumption
  <1>3. IsFiniteSet(Open) /\ IsFiniteSet(Making) /\ Cardinality(Making) <= Cardinality(Requests)
    BY <1>1, <1>2, FS_Subset
  <1>4. QED
    BY <1>2, <1>3, FS_CardinalityType

\* Neither set gains a member.
LEMMA NoMore ==
  ASSUME OpenAndMaking, Open' \subseteq Open, Making' \subseteq Making
  PROVE  OpenAndMaking'
  <1> DEFINE O == Open'
             M == Making'
  <1>1. O \in SUBSET Open /\ M \in SUBSET Making
    OBVIOUS
  <1> HIDE DEF O, M
  <1>2. /\ IsFiniteSet(O) /\ Cardinality(O) <= Cardinality(Open)
        /\ IsFiniteSet(M) /\ Cardinality(M) <= Cardinality(Making)
    BY <1>1, OpenIsFinite, FS_Subset
  <1>3. Cardinality(O) \in Nat /\ Cardinality(M) \in Nat
    BY <1>2, FS_CardinalityType
  <1>4. Cardinality(O) + Cardinality(M) <= Cardinality(Requests)
    BY <1>2, <1>3, OpenIsFinite DEF OpenAndMaking
  <1>5. QED
    BY <1>4 DEF O, M, OpenAndMaking

\* A request that may make one makes it.
LEMMA OneMore ==
  ASSUME OpenAndMaking, NEW c \in Connections, NEW p \in Making,
         Open' = Open \cup {c}, Making' = Making \ {p}
  PROVE  OpenAndMaking'
  <1> DEFINE O == Open'
             M == Making'
  <1>1. O = Open \cup {c} /\ M = Making \ {p}
    OBVIOUS
  <1> HIDE DEF O, M
  <1>2. Cardinality(O) \in {Cardinality(Open), Cardinality(Open) + 1}
    BY <1>1, OpenIsFinite, FS_AddElement
  <1>3. Cardinality(M) = Cardinality(Making) - 1
    BY <1>1, OpenIsFinite, FS_RemoveElement
  <1>4. Cardinality(O) + Cardinality(M) <= Cardinality(Requests)
    BY <1>2, <1>3, OpenIsFinite DEF OpenAndMaking
  <1>5. QED
    BY <1>4 DEF O, M, OpenAndMaking

\* A step after which a request is idle, seen from the requests that make one.
LEMMA MakingEnds ==
  ASSUME Inv, NEW p \in Requests, request' = [request EXCEPT ![p] = Idle]
  PROVE  Making' = Making \ {p}
  BY EndsOne DEF Making, Idle, Inv

\* Every step keeps the bound.
LEMMA OpenStep == Inv /\ OpenAndMaking /\ [Next]_vars => OpenAndMaking'
  <1> SUFFICES ASSUME Inv, OpenAndMaking, [Next]_vars PROVE OpenAndMaking'
    OBVIOUS
  <1>1. ASSUME NEW p \in Requests, NEW c \in Connections,
               ConnectToPending(p, c) \/ FindDisabled(p, c) \/ ReadOpen(p, c)
        PROVE  OpenAndMaking'
    <2>1. Open' = Open
      BY <1>1 DEF ConnectToPending, FindDisabled, ReadOpen, Moves, Open
    <2>2. Making' \subseteq Making
      BY <1>1, MovesOne DEF ConnectToPending, FindDisabled, Missed, ReadOpen, Making, Inv
    <2>3. QED
      BY <2>1, <2>2, NoMore
  <1>2. ASSUME NEW p \in Requests, NEW c \in Connections, ConnectToActive(p, c)
        PROVE  OpenAndMaking'
    <2>1. Open' \subseteq Open
      BY <1>2 DEF ConnectToActive, Open, Inv, TypeOK
    <2>2. Making' = Making
      BY <1>2 DEF ConnectToActive, Making
    <2>3. QED
      BY <2>1, <2>2, NoMore
  <1>3. ASSUME NEW p \in Requests, ConnectToNone(p)
        PROVE  OpenAndMaking'
    <2>1. Open' = {}
      BY <1>3 DEF ConnectToNone, Moves, Open
    <2>2. Making' \in SUBSET Requests
      BY DEF Making
    <2> DEFINE M == Making'
    <2> HIDE DEF M
    <2>3. IsFiniteSet(M) /\ Cardinality(M) <= Cardinality(Requests)
      BY <2>2, FS_Subset, ConstantsAssumption DEF M
    <2>4. Cardinality(Open') = 0
      BY <2>1, FS_EmptySet
    <2>5. Cardinality(M) \in Nat
      BY <2>3, FS_CardinalityType
    <2>6. Cardinality(Open') + Cardinality(M) <= Cardinality(Requests)
      BY <2>3, <2>4, <2>5, OpenIsFinite
    <2>7. QED
      BY <2>6 DEF M, OpenAndMaking
  <1>4. ASSUME NEW p \in Requests, FindNone(p) \/ InsertInstead(p)
        PROVE  OpenAndMaking'
    <2>1. Open' = Open
      BY <1>4 DEF FindNone, InsertInstead, Missed, Moves, Open
    <2>2. p \in Making
      BY <1>4 DEF FindNone, InsertInstead, Missed, Making
    <2>3. Making' \subseteq Making
      BY <1>4, <2>2, MovesOne DEF FindNone, InsertInstead, Missed, Making, Inv
    <2>4. QED
      BY <2>1, <2>3, NoMore
  <1>5. ASSUME NEW p \in Requests, LockConnection(p)
        PROVE  OpenAndMaking'
    <2>1. Open' = Open
      BY <1>5 DEF LockConnection, Moves, Open
    <2>2. p \in Making' => p \in Making
      BY <1>5, LockMoves DEF Making, Inv, Rows, CopyKnown
    <2>3. Making' \subseteq Making
      BY <1>5, <2>2 DEF Making, LockConnection, Moves, Inv, TypeOK
    <2>4. QED
      BY <2>1, <2>3, NoMore
  <1>6. ASSUME NEW p \in Requests, NEW g \in Pairings, CreatePairing(p, g)
        PROVE  OpenAndMaking'
    <2>1. Making' = Making \ {p}
      BY <1>6, MakingEnds DEF CreatePairing
    <2>2. request[p].connection \in Connections
      BY <1>6, RequestTypes DEF CreatePairing, Connect, Inv
    <2>3. \A d \in Connections : d # request[p].connection =>
            connection'[d] = connection[d] \/ ClearedRow(d)
      BY <1>6, RenewalEffect
    <2>4. CASE request[p].copy.status = "pending_chat_id"
      <3>1. \A d \in Connections : connection'[d] = connection[d] \/ ClearedRow(d)
        BY <1>6, <2>3, <2>4, RenewalEffect
      <3>2. Open' \subseteq Open
        BY <3>1 DEF Open, ClearedRow
      <3>3. QED
        BY <2>1, <3>2, NoMore
    <2>5. CASE request[p].copy.status = "disabled"
      <3>1. RenewedRow(request[p].connection)
        BY <1>6, <2>2, <2>5, RenewalEffect
      <3>2. Open' = Open \cup {request[p].connection}
        BY <2>2, <2>3, <3>1 DEF Open, ClearedRow, RenewedRow
      <3>3. p \in Making
        BY <1>6, <2>5 DEF CreatePairing, Making
      <3>4. QED
        BY <2>1, <2>2, <3>2, <3>3, OneMore
    <2>6. QED
      BY <1>6, <2>4, <2>5 DEF CreatePairing, Inv, Rows, CopyKnown
  <1>7. ASSUME NEW p \in Requests, NEW c \in Connections, NEW g \in Pairings,
               InsertConnection(p, c, g)
        PROVE  OpenAndMaking'
    <2>1. Making' = Making \ {p} /\ p \in Making
      BY <1>7, MakingEnds DEF InsertConnection, Making
    <2>2. /\ \A d \in Connections : d # c => connection'[d] = connection[d] \/ ClearedRow(d)
          /\ RenewedRow(c)
      BY <1>7, InsertionEffect
    <2>3. Open' = Open \cup {c}
      BY <2>2 DEF Open, ClearedRow, RenewedRow
    <2>4. QED
      BY <2>1, <2>3, OneMore
  <1>8. ASSUME NEW p \in Requests, FlushDisabled(p)
        PROVE  OpenAndMaking'
    <2>1. Open' = Open
      BY <1>8 DEF FlushDisabled, Moves, Open
    <2>2. request[p] \in Disconnect
      BY <1>8, RequestTypes DEF FlushDisabled, Inv
    <2>3. request'[p].step = "revoke" /\ \A q \in Requests \ {p} : request'[q] = request[q]
      BY <1>8, <2>2, MovesOne DEF FlushDisabled, Disconnect, Inv
    <2>4. Making' \subseteq Making
      BY <2>3 DEF Making
    <2>5. QED
      BY <2>1, <2>4, NoMore
  <1>9. ASSUME NEW p \in Requests, CommitDisconnect(p)
        PROVE  OpenAndMaking'
    <2>1. Making' \subseteq Making
      BY <1>9, MakingEnds DEF CommitDisconnect
    <2>2. ASSUME NEW d \in Connections
          PROVE  connection'[d] = connection[d] \/ connection'[d].status = "disabled"
      <3>1. connection'[d] = connection[d] \/ DisabledRow(d)
        BY <1>9, DisconnectionEffect
      <3>2. QED
        BY <3>1 DEF DisabledRow
    <2>3. Open' \subseteq Open
      BY <2>2 DEF Open
    <2>4. QED
      BY <2>1, <2>3, NoMore
  <1>10. ASSUME NEW p \in Requests, Pair(p)
         PROVE  OpenAndMaking'
    <2>1. Making' \subseteq Making
      BY <1>10, MakingEnds DEF Pair
    <2>2. \A d \in Connections : connection'[d] = connection[d] \/ PairedRow(d)
      BY <1>10, PairEffect
    <2>3. Open' \subseteq Open
      BY <2>2 DEF Open, PairedRow
    <2>4. QED
      BY <2>1, <2>3, NoMore
  <1>11. ASSUME NEW p \in Requests, NEW g \in Pairings, NEW x \in Chats, LockPairing(p, g, x)
         PROVE  OpenAndMaking'
    <2>1. Open' = Open
      BY <1>11 DEF LockPairing, Moves, Open
    <2>2. Making' \subseteq Making
      BY <1>11, MovesOne DEF LockPairing, Making, Inv
    <2>3. QED
      BY <2>1, <2>2, NoMore
  <1>12. ASSUME NEW p \in Requests, Fail(p)
         PROVE  OpenAndMaking'
    <2>1. Open' = Open
      BY <1>12 DEF Fail, Moves, Open
    <2>2. Making' \subseteq Making
      BY <1>12, MakingEnds DEF Fail, Moves
    <2>3. QED
      BY <2>1, <2>2, NoMore
  <1>13. CASE UNCHANGED <<connection, request>>
    BY <1>13 DEF OpenAndMaking, Open, Making
  <1>14. QED
    BY <1>1, <1>2, <1>3, <1>4, <1>5, <1>6, <1>7, <1>8, <1>9, <1>10, <1>11, <1>12, <1>13
      DEF Next, vars, ConnectNext, DisconnectNext, ConsumeNext, Expire, Deadline

\* The requests that search are among those that may make a connection.
LEMMA BoundFromMaking == OpenAndMaking => OpenConnectionsBounded
  <1> SUFFICES ASSUME OpenAndMaking PROVE OpenConnectionsBounded
    OBVIOUS
  <1>1. Inserting \in SUBSET Making
    BY DEF Inserting, Making
  <1>2. IsFiniteSet(Inserting) /\ Cardinality(Inserting) <= Cardinality(Making)
    BY <1>1, OpenIsFinite, FS_Subset
  <1>3. Cardinality(Inserting) \in Nat
    BY <1>2, FS_CardinalityType
  <1>4. QED
    BY <1>2, <1>3, OpenIsFinite DEF OpenAndMaking, OpenConnectionsBounded

---------------------------------------------------------------------------
(* Theorems *)

\* The initial states satisfy the invariant.
LEMMA InitIInv == Init => IInv
  <1> SUFFICES ASSUME Init PROVE IInv
    OBVIOUS
  <1>1. TypeOK
    BY MakesRow DEF Init, TypeOK, TelegramPairing
  <1>2. \A p \in Requests : request[p].step = "idle"
    BY DEF Init, Idle
  <1>3. \A g \in Pairings : pairing[g].status = "absent"
    BY DEF Init
  <1>4. Inv
    BY <1>1, <1>2, <1>3 DEF Inv, Rows, OneHolder, OneConsumer, StaleDisabled, CopyKnown, AtPresent,
      ConsumedIsPending, CodesPresent, HoldsConnection, HoldsPairing
  <1>5. CodesAlike
    BY <1>3 DEF CodesAlike, PendingOf
  <1>6. Open = {} /\ Making = {}
    BY <1>2 DEF Init, Open, Making
  <1>7. OpenAndMaking
    BY <1>6, FS_EmptySet, OpenIsFinite DEF OpenAndMaking
  <1>8. QED
    BY <1>4, <1>5, <1>7 DEF IInv

\* The inductive invariant holds in every reachable state.
THEOREM InductiveInvariant == Spec => []IInv
  <1>1. IInv /\ [Next]_vars => IInv'
    BY InvStep, CodesAlikeStep, OpenStep DEF IInv
  <1>2. QED
    BY <1>1, InitIInv, PTL DEF Spec

\* Rows and requests keep their types.
THEOREM TypeCorrect == Spec => []TypeOK
  <1>1. IInv => TypeOK
    BY DEF IInv, Inv
  <1>2. QED
    BY <1>1, InductiveInvariant, PTL

\* However connects interleave, create_pairing leaves a connection one code.
THEOREM OneCode == Spec => []OneCodePerConnection
  <1>1. IInv => OneCodePerConnection
    BY AlikeCounted DEF IInv
  <1>2. QED
    BY <1>1, InductiveInvariant, PTL

\* However many requests connect, there is never one open connection more than they.
THEOREM OpenIsBounded == Spec => []OpenConnectionsBounded
  <1>1. IInv => OpenConnectionsBounded
    BY BoundFromMaking DEF IInv
  <1>2. QED
    BY <1>1, InductiveInvariant, PTL

\* consume_pairing connects a chat by a code that is current when it commits.
THEOREM PairedByCurrent == Spec => PairedByCurrentCode
  <1> DEFINE A == \A c \in Connections :
               connection[c].status # "active" /\ connection'[c].status = "active" =>
                 \E g \in PendingOf(c) : pairing'[g].status = "consumed"
  <1>1. IInv /\ [Next]_vars => [A]_vars
    <2> SUFFICES ASSUME IInv, [Next]_vars, NEW c \in Connections,
                        connection[c].status # "active", connection'[c].status = "active"
                 PROVE  \E g \in PendingOf(c) : pairing'[g].status = "consumed"
      OBVIOUS
    <2>1. RowEffect(c)
      BY RowStep DEF IInv
    <2>2. QED
      BY <2>1 DEF RowEffect, ClearedRow, RenewedRow, DisabledRow, PairedRow
  <1>2. QED
    BY <1>1, InductiveInvariant, PTL DEF Spec, PairedByCurrentCode

\* No stale request undoes a pairing.
THEOREM StaysActive == Spec => ActiveUntilDisconnected
  <1> DEFINE A == \A c \in Connections :
               connection[c].status = "active" =>
                 connection'[c] = connection[c] \/ connection'[c].status = "disabled"
  <1>1. IInv /\ [Next]_vars => [A]_vars
    <2> SUFFICES ASSUME IInv, [Next]_vars, NEW c \in Connections, connection[c].status = "active"
                 PROVE  connection'[c] = connection[c] \/ connection'[c].status = "disabled"
      OBVIOUS
    <2>1. RowEffect(c)
      BY RowStep DEF IInv
    <2>2. QED
      BY <2>1 DEF RowEffect, ClearedRow, RenewedRow, DisabledRow, PairedRow
  <1>2. QED
    BY <1>1, InductiveInvariant, PTL DEF Spec, ActiveUntilDisconnected
=============================================================================
