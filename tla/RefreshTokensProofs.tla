------------------------ MODULE RefreshTokensProofs ------------------------
(***************************************************************************)
(* Theorems about RefreshTokens for any requests, tokens and bound.        *)
(***************************************************************************)
EXTENDS RefreshTokens, TLAPS

(***************************************************************************)
(* The inductive invariants.                                               *)
(***************************************************************************)

\* A request works on a token that was issued.
PresentedIssued == \A p \in Requests :
  request[p].step \in {"rotate", "rotated"} => token[request[p].token].state # "absent"

\* The row lock: one rotation holds a token, and nobody revokes it meanwhile.
RotatedIsLive == \A p \in Requests :
  request[p].step = "rotated" => token[request[p].token].state = "live"

OneRotator == \A p, q \in Requests :
  /\ request[p].step = "rotated"
  /\ request[q].step = "rotated"
  /\ request[p].token = request[q].token
  => p = q

\* The first token of a sign-in was issued before all others.
LoginIssued == \A t \in Tokens :
  token[t].state # "absent" => token[token[t].login].state # "absent"

\* A revocation concerns tokens that were issued.
SeenIssued == \A p \in Requests :
  request[p].step = "revoking" => \A t \in request[p].seen : token[t].state # "absent"

Chains == PresentedIssued /\ RotatedIsLive /\ OneRotator /\ LoginIssued
          /\ SeenIssued /\ OneLiveTokenPerLogin

\* As long as no change overwrote another, a version stands for one password:
\* in the user's row, in every token, and in what requests have read.
VersionsArePasswords ==
  /\ user.version = user.password
  /\ \A t \in Tokens : token[t].ver = token[t].password
  /\ \A a \in access : a.ver = a.password
  /\ \A p \in Requests : request[p].step = "issue" => request[p].ver = request[p].password
  /\ \A p \in Requests : request[p].step \in {"rotate", "rotated"} =>
       request[p].ver = token[request[p].token].ver

IInv == TypeOK /\ Chains /\ (~overlap => VersionsArePasswords)

---------------------------------------------------------------------------
(* Type correctness *)

Requested == {Idle} \cup Login \cup Rotation \cup Replay \cup Revocation

\* The requests by step.
LEMMA RequestTypes ==
  ASSUME TypeOK, NEW p \in Requests
  PROVE  /\ request[p].step = "issue" => request[p] \in Login
         /\ request[p].step \in {"rotate", "rotated"} => request[p] \in Rotation
         /\ request[p].step = "replayed" => request[p] \in Replay
         /\ request[p].step \in {"revoke", "revoking"} => request[p] \in Revocation
  BY DEF TypeOK, Idle, Login, Rotation, Replay, Revocation

\* Tokens keep their type when they are revoked.
LEMMA RevokedType ==
  ASSUME TypeOK, NEW seen
  PROVE  Revoked(seen) \in [Tokens -> Row]
  BY DEF TypeOK, Revoked, Row

\* Every step keeps the types of the variables.
LEMMA TypeStep == TypeOK /\ [Next]_vars => TypeOK'
  <1> SUFFICES ASSUME TypeOK, [Next]_vars
               PROVE  TypeOK'
    OBVIOUS
  <1> USE ChangesAssumption
  <1>1. CASE UNCHANGED vars
    BY <1>1 DEF TypeOK, vars
  <1>2. ASSUME NEW p \in Requests, SignIn(p)
        PROVE  TypeOK'
    <2>1. [step |-> "issue", ver |-> user.version, password |-> user.password] \in Login
      BY DEF TypeOK, Login
    <2>2. QED
      BY <1>2, <2>1 DEF TypeOK, SignIn
  <1>3. ASSUME NEW p \in Requests, NEW t \in Tokens, Issue(p, t)
        PROVE  TypeOK'
    <2>1. request[p] \in Login
      BY <1>3, RequestTypes DEF Issue
    <2>2. [state |-> "live", ver |-> request[p].ver, login |-> t,
           password |-> request[p].password] \in Row
      BY <2>1 DEF Login, Row
    <2>3. [ver |-> request[p].ver, password |-> request[p].password] \in Access
      BY <2>1 DEF Login, Access
    <2>4. QED
      BY <1>3, <2>2, <2>3 DEF TypeOK, Issue
  <1>4. ASSUME NEW p \in Requests, NEW t \in Tokens, Present(p, t)
        PROVE  TypeOK'
    <2>1. [step |-> "rotate", token |-> t, ver |-> user.version] \in Rotation
      BY DEF TypeOK, Rotation
    <2>2. QED
      BY <1>4, <2>1 DEF TypeOK, Present
  <1>5. ASSUME NEW p \in Requests, Rotate(p)
        PROVE  TypeOK'
    <2>1. request[p] \in Rotation
      BY <1>5, RequestTypes DEF Rotate
    <2>2. [request[p] EXCEPT !.step = "rotated"] \in Rotation
      BY <2>1 DEF Rotation
    <2>3. [step |-> "replayed", seen |-> Live] \in Replay
      BY DEF Replay, Live
    <2>4. QED
      BY <1>5, <2>2, <2>3 DEF TypeOK, Rotate
  <1>6. ASSUME NEW p \in Requests, NEW s \in Tokens, CommitRotation(p, s)
        PROVE  TypeOK'
    <2>1. request[p] \in Rotation
      BY <1>6, RequestTypes DEF CommitRotation
    <2>2. token[request[p].token] \in Row /\ request[p].ver \in Nat
      BY <2>1 DEF TypeOK, Rotation
    <2>3. /\ [token[request[p].token] EXCEPT !.state = "live", !.ver = request[p].ver] \in Row
          /\ [token[request[p].token] EXCEPT !.state = "revoked"] \in Row
          /\ [ver |-> request[p].ver, password |-> token[request[p].token].password] \in Access
      BY <2>2 DEF Row, Access
    <2>4. QED
      BY <1>6, <2>3 DEF TypeOK, CommitRotation
  <1>7. ASSUME NEW p \in Requests, NEW a \in access, NEW op \in {"logout", "change"},
               Authenticate(p, a, op)
        PROVE  TypeOK'
    <2>1. [step |-> "revoke", op |-> op, ver |-> user.version, seen |-> {}] \in Revocation
      BY DEF TypeOK, Revocation
    <2>2. QED
      BY <1>7, <2>1 DEF TypeOK, Authenticate
  <1>8. ASSUME NEW p \in Requests, StartRevocation(p)
        PROVE  TypeOK'
    <2>1. request[p] \in Revocation
      BY <1>8, RequestTypes DEF StartRevocation
    <2>2. [request[p] EXCEPT !.step = "revoking", !.seen = Live] \in Revocation
      BY <2>1 DEF Revocation, Live
    <2>3. QED
      BY <1>8, <2>2 DEF TypeOK, StartRevocation
  <1>9. ASSUME NEW p \in Requests, CommitLogout(p)
        PROVE  TypeOK'
    BY <1>9, RevokedType DEF TypeOK, CommitLogout
  <1>10. ASSUME NEW p \in Requests, CommitChange(p)
         PROVE  TypeOK'
    <2>1. request[p] \in Revocation
      BY <1>10, RequestTypes DEF CommitChange
    <2>2. request[p].ver + 1 \in Nat /\ user.password + 1 \in Nat
      BY <2>1 DEF TypeOK, Revocation
    <2>3. [password |-> user.password + 1, version |-> request[p].ver + 1]
            \in [password : Nat, version : Nat]
      BY <2>2
    <2>4. (overlap \/ request[p].ver # user.version) \in BOOLEAN
      OBVIOUS
    <2>5. QED
      BY <1>10, <2>3, <2>4, RevokedType DEF TypeOK, CommitChange
  <1>11. ASSUME NEW p \in Requests, RefuseReplay(p) \/ Rollback(p)
         PROVE  TypeOK'
    BY <1>11 DEF TypeOK, RefuseReplay, Rollback
  <1>12. QED
    BY <1>1, <1>2, <1>3, <1>4, <1>5, <1>6, <1>7, <1>8, <1>9, <1>10, <1>11 DEF Next

---------------------------------------------------------------------------
(* One live token per sign-in *)

\* A step that leaves the tokens alone and moves one request to a state in
\* which it holds no token and has seen none.
LEMMA RequestMoves ==
  ASSUME TypeOK, Chains, NEW p \in Requests, NEW r \in Requested,
         request' = [request EXCEPT ![p] = r], token' = token,
         r.step \notin {"rotated", "revoking"},
         r.step = "rotate" => token[r.token].state # "absent"
  PROVE  Chains'
  BY DEF TypeOK, Requested, Chains, PresentedIssued, RotatedIsLive, OneRotator, LoginIssued,
         SeenIssued, OneLiveTokenPerLogin, Live

\* A revocation that waited for the rotations of the tokens it found.
LEMMA TokensRevoked ==
  ASSUME TypeOK, Chains, NEW p \in Requests, request[p].step = "revoking",
         \A t \in request[p].seen : TokenFree(t),
         token' = Revoked(request[p].seen), request' = [request EXCEPT ![p] = Idle]
  PROVE  Chains'
  <1>1. request[p] \in Revocation
    BY RequestTypes
  <1>2. \A t \in Tokens : /\ token'[t].login = token[t].login
                          /\ token'[t].state = IF t \in request[p].seen THEN "revoked"
                                                                       ELSE token[t].state
    BY DEF TypeOK, Revoked, Row
  <1>3. \A t \in Tokens : token'[t].state = "absent" <=> token[t].state = "absent"
    BY <1>1, <1>2 DEF Chains, SeenIssued, Revocation
  <1>4. \A q \in Requests : request'[q].step # "idle" => request'[q] = request[q]
    BY DEF TypeOK, Idle
  <1>5. \A q \in Requests : request[q].step \in {"rotate", "rotated"} =>
          request[q].token \in Tokens
    BY RequestTypes DEF Rotation
  <1>6. \A q \in Requests : request[q].step = "revoking" => request[q].seen \subseteq Tokens
    BY RequestTypes DEF Revocation
  <1>7. PresentedIssued'
    BY <1>3, <1>4, <1>5 DEF Chains, PresentedIssued
  <1>8. RotatedIsLive'
    BY <1>2, <1>4, <1>5 DEF Chains, RotatedIsLive, TokenFree
  <1>9. OneRotator'
    BY <1>4 DEF Chains, OneRotator
  <1>10. LoginIssued'
    <2>1. \A t \in Tokens : token[t].login \in Tokens
      BY DEF TypeOK, Row
    <2>2. QED
      BY <1>2, <1>3, <2>1 DEF Chains, LoginIssued
  <1>11. SeenIssued'
    BY <1>3, <1>4, <1>6 DEF Chains, SeenIssued
  <1>12. OneLiveTokenPerLogin'
    BY <1>2 DEF Chains, OneLiveTokenPerLogin, Live
  <1>13. QED
    BY <1>7, <1>8, <1>9, <1>10, <1>11, <1>12 DEF Chains

\* A sign-in puts the first token of a new chain into an unused row.
LEMMA LoginChains ==
  ASSUME TypeOK, Chains, NEW p \in Requests, NEW t \in Tokens, Issue(p, t)
  PROVE  Chains'
  <1>1. /\ token'[t].state = "live" /\ token'[t].login = t /\ token[t].state = "absent"
        /\ \A s \in Tokens \ {t} : token'[s] = token[s]
    BY DEF TypeOK, Issue
  <1>2. \A q \in Requests : request'[q].step # "idle" => request'[q] = request[q]
    BY DEF TypeOK, Idle, Issue
  <1>3. \A q \in Requests : request[q].step \in {"rotate", "rotated"} =>
          request[q].token \in Tokens
    BY RequestTypes DEF Rotation
  <1>4. \A q \in Requests : request[q].step = "revoking" => request[q].seen \subseteq Tokens
    BY RequestTypes DEF Revocation
  <1>5. \A s \in Tokens : token[s].login \in Tokens
    BY DEF TypeOK, Row
  <1>6. PresentedIssued'
    BY <1>1, <1>2, <1>3 DEF Chains, PresentedIssued
  <1>7. RotatedIsLive' /\ OneRotator'
    BY <1>1, <1>2, <1>3 DEF Chains, RotatedIsLive, OneRotator
  <1>8. LoginIssued'
    BY <1>1, <1>5 DEF Chains, LoginIssued
  <1>9. SeenIssued'
    BY <1>1, <1>2, <1>4 DEF Chains, SeenIssued
  <1>10. OneLiveTokenPerLogin'
    BY <1>1, <1>5 DEF Chains, OneLiveTokenPerLogin, LoginIssued, Live
  <1>11. QED
    BY <1>6, <1>7, <1>8, <1>9, <1>10 DEF Chains

\* A rotation replaces the token it holds by its successor.
LEMMA RotationChains ==
  ASSUME TypeOK, Chains, NEW p \in Requests, NEW s \in Tokens, CommitRotation(p, s)
  PROVE  Chains'
  <1> DEFINE t == request[p].token
  <1>1. t \in Tokens
    BY RequestTypes DEF Rotation, CommitRotation
  <1>2. token[t] \in Row /\ token[t].state = "live" /\ token[s].state = "absent" /\ t # s
    BY <1>1 DEF TypeOK, Chains, RotatedIsLive, CommitRotation
  <1>3. /\ token'[t].state = "revoked" /\ token'[t].login = token[t].login
        /\ token'[s].state = "live" /\ token'[s].login = token[t].login
        /\ \A u \in Tokens \ {s, t} : token'[u] = token[u]
    BY <1>1, <1>2 DEF TypeOK, CommitRotation, Row
  <1> HIDE DEF t
  <1>4. \A q \in Requests : request'[q].step # "idle" => request'[q] = request[q] /\ q # p
    BY DEF TypeOK, Idle, CommitRotation
  <1>5. \A q \in Requests : request[q].step \in {"rotate", "rotated"} =>
          request[q].token \in Tokens
    BY RequestTypes DEF Rotation
  <1>6. \A q \in Requests : request[q].step = "revoking" => request[q].seen \subseteq Tokens
    BY RequestTypes DEF Revocation
  <1>7. \A u \in Tokens : token[u].login \in Tokens
    BY DEF TypeOK, Row
  <1>8. PresentedIssued'
    BY <1>1, <1>3, <1>4, <1>5 DEF Chains, PresentedIssued
  <1>9. \A q \in Requests \ {p} : request[q].step = "rotated" => request[q].token # t
    BY DEF Chains, OneRotator, CommitRotation, t
  <1>10. RotatedIsLive'
    BY <1>3, <1>4, <1>5, <1>9 DEF Chains, RotatedIsLive
  <1>11. OneRotator'
    BY <1>4 DEF Chains, OneRotator
  <1>12. LoginIssued'
    BY <1>1, <1>2, <1>3, <1>7 DEF Chains, LoginIssued
  <1>13. SeenIssued'
    BY <1>1, <1>3, <1>4, <1>6 DEF Chains, SeenIssued
  <1>14. OneLiveTokenPerLogin'
    BY <1>1, <1>2, <1>3 DEF Chains, OneLiveTokenPerLogin, Live
  <1>15. QED
    BY <1>8, <1>10, <1>11, <1>12, <1>13, <1>14 DEF Chains

\* Every step keeps the chains.
LEMMA ChainsStep == TypeOK /\ Chains /\ [Next]_vars => Chains'
  <1> SUFFICES ASSUME TypeOK, Chains, [Next]_vars
               PROVE  Chains'
    OBVIOUS
  <1>1. CASE UNCHANGED vars
    BY <1>1 DEF vars, Chains, PresentedIssued, RotatedIsLive, OneRotator, LoginIssued,
                SeenIssued, OneLiveTokenPerLogin, Live
  <1>2. ASSUME NEW p \in Requests, SignIn(p)
        PROVE  Chains'
    <2> DEFINE r == [step |-> "issue", ver |-> user.version, password |-> user.password]
    <2>1. r \in Requested /\ r.step = "issue" /\ request' = [request EXCEPT ![p] = r]
      BY <1>2 DEF TypeOK, Requested, Login, SignIn
    <2> HIDE DEF r
    <2>2. QED
      BY <1>2, <2>1, RequestMoves DEF SignIn
  <1>3. ASSUME NEW p \in Requests, NEW t \in Tokens, Present(p, t)
        PROVE  Chains'
    <2> DEFINE r == [step |-> "rotate", token |-> t, ver |-> user.version]
    <2>1. /\ r \in Requested /\ r.step = "rotate" /\ r.token = t
          /\ request' = [request EXCEPT ![p] = r]
      BY <1>3 DEF TypeOK, Requested, Rotation, Present
    <2> HIDE DEF r
    <2>2. QED
      BY <1>3, <2>1, RequestMoves DEF Present
  <1>4. ASSUME NEW p \in Requests, Rotate(p), token[request[p].token].state = "live"
        PROVE  Chains'
    <2>1. request[p] \in Rotation
      BY <1>4, RequestTypes DEF Rotate
    <2> DEFINE r == [request[p] EXCEPT !.step = "rotated"]
    <2>2. r \in Rotation /\ r.step = "rotated" /\ r.token = request[p].token
      BY <2>1 DEF Rotation
    <2> HIDE DEF r
    <2>3. request' = [request EXCEPT ![p] = r]
      BY <1>4 DEF Rotate, r
    <2>4. PresentedIssued' /\ RotatedIsLive'
      BY <1>4, <2>2, <2>3 DEF TypeOK, Rotate, Chains, PresentedIssued, RotatedIsLive
    <2>5. OneRotator'
      BY <1>4, <2>2, <2>3 DEF TypeOK, Rotate, TokenFree, Chains, OneRotator
    <2>6. LoginIssued' /\ SeenIssued' /\ OneLiveTokenPerLogin'
      BY <1>4, <2>2, <2>3
      DEF TypeOK, Rotate, Chains, LoginIssued, SeenIssued, OneLiveTokenPerLogin, Live
    <2>7. QED
      BY <2>4, <2>5, <2>6 DEF Chains
  <1>5. ASSUME NEW p \in Requests, Rotate(p), token[request[p].token].state # "live"
        PROVE  Chains'
    <2> DEFINE r == [step |-> "replayed", seen |-> Live]
    <2>1. r \in Requested /\ r.step = "replayed" /\ request' = [request EXCEPT ![p] = r]
      BY <1>5 DEF Requested, Replay, Live, Rotate
    <2> HIDE DEF r
    <2>2. QED
      BY <1>5, <2>1, RequestMoves DEF Rotate
  <1>6. ASSUME NEW p \in Requests, NEW a \in access, NEW op \in {"logout", "change"},
               Authenticate(p, a, op)
        PROVE  Chains'
    <2> DEFINE r == [step |-> "revoke", op |-> op, ver |-> user.version, seen |-> {}]
    <2>1. r \in Requested /\ r.step = "revoke" /\ request' = [request EXCEPT ![p] = r]
      BY <1>6 DEF TypeOK, Requested, Revocation, Authenticate
    <2> HIDE DEF r
    <2>2. QED
      BY <1>6, <2>1, RequestMoves DEF Authenticate
  <1>7. ASSUME NEW p \in Requests, StartRevocation(p)
        PROVE  Chains'
    <2>1. request[p] \in Revocation
      BY <1>7, RequestTypes DEF StartRevocation
    <2> DEFINE r == [request[p] EXCEPT !.step = "revoking", !.seen = Live]
    <2>2. r \in Revocation /\ r.step = "revoking" /\ r.seen = Live
      BY <2>1 DEF Revocation, Live
    <2> HIDE DEF r
    <2>3. request' = [request EXCEPT ![p] = r] /\ token' = token
      BY <1>7 DEF StartRevocation, r
    <2>4. PresentedIssued' /\ RotatedIsLive' /\ OneRotator'
      BY <2>2, <2>3 DEF TypeOK, Chains, PresentedIssued, RotatedIsLive, OneRotator
    <2>5. LoginIssued' /\ SeenIssued' /\ OneLiveTokenPerLogin'
      BY <2>2, <2>3 DEF TypeOK, Chains, LoginIssued, SeenIssued, OneLiveTokenPerLogin, Live
    <2>6. QED
      BY <2>4, <2>5 DEF Chains
  <1>8. ASSUME NEW p \in Requests, CommitLogout(p) \/ CommitChange(p)
        PROVE  Chains'
    BY <1>8, TokensRevoked DEF CommitLogout, CommitChange
  <1>9. ASSUME NEW p \in Requests, RefuseReplay(p) \/ Rollback(p)
        PROVE  Chains'
    <2>1. Idle \in Requested /\ Idle.step = "idle"
      BY DEF Requested, Idle
    <2>2. request' = [request EXCEPT ![p] = Idle] /\ token' = token
      BY <1>9 DEF RefuseReplay, Rollback
    <2>3. QED
      BY <2>1, <2>2, RequestMoves
  <1>10. QED
    BY <1>1, <1>2, <1>3, <1>4, <1>5, <1>6, <1>7, <1>8, <1>9, LoginChains, RotationChains DEF Next

---------------------------------------------------------------------------
(* Versions and passwords *)

\* A step that leaves the rows alone and moves one request to a state that
\* agrees with them keeps versions and passwords together.
LEMMA RequestAgrees ==
  ASSUME TypeOK, VersionsArePasswords, NEW p \in Requests, NEW r \in Requested,
         request' = [request EXCEPT ![p] = r], UNCHANGED <<user, token, access>>,
         r.step = "issue" => r.ver = r.password,
         r.step \in {"rotate", "rotated"} => r.ver = token[r.token].ver
  PROVE  VersionsArePasswords'
  BY DEF TypeOK, Requested, VersionsArePasswords

\* The rows change, the requests that go on agree with them as before.
LEMMA RowsAgree ==
  ASSUME TypeOK, VersionsArePasswords, NEW p \in Requests,
         request' = [request EXCEPT ![p] = Idle],
         user'.version = user'.password,
         \A t \in Tokens : token'[t].ver = token'[t].password,
         \A t \in Tokens : token[t].state # "absent" => token'[t].ver = token[t].ver,
         \A a \in access' : a.ver = a.password,
         PresentedIssued
  PROVE  VersionsArePasswords'
  <1>1. \A q \in Requests : request'[q].step # "idle" => request'[q] = request[q]
    BY DEF TypeOK, Idle
  <1>2. \A q \in Requests : request[q].step \in {"rotate", "rotated"} =>
          request[q].token \in Tokens /\ token[request[q].token].state # "absent"
    BY RequestTypes DEF Rotation, PresentedIssued
  <1>3. \A q \in Requests : request'[q].step \in {"rotate", "rotated"} =>
          request'[q].ver = token'[request'[q].token].ver
    BY <1>1, <1>2 DEF VersionsArePasswords
  <1>4. \A q \in Requests : request'[q].step = "issue" => request'[q].ver = request'[q].password
    BY <1>1 DEF VersionsArePasswords
  <1>5. QED
    BY <1>3, <1>4 DEF VersionsArePasswords

\* A step after which no change has overwritten another keeps versions and
\* passwords together.
LEMMA VersionsStep ==
  ASSUME TypeOK, Chains, VersionsArePasswords, ~overlap', [Next]_vars
  PROVE  VersionsArePasswords'
  <1>1. CASE UNCHANGED vars
    BY <1>1 DEF vars, VersionsArePasswords
  <1>2. ASSUME NEW p \in Requests, SignIn(p)
        PROVE  VersionsArePasswords'
    <2> DEFINE r == [step |-> "issue", ver |-> user.version, password |-> user.password]
    <2>1. /\ r \in Requested /\ r.step = "issue" /\ r.ver = r.password
          /\ request' = [request EXCEPT ![p] = r]
      BY <1>2 DEF TypeOK, Requested, Login, SignIn, VersionsArePasswords
    <2> HIDE DEF r
    <2>2. QED
      BY <1>2, <2>1, RequestAgrees DEF SignIn
  <1>3. ASSUME NEW p \in Requests, NEW t \in Tokens, Issue(p, t)
        PROVE  VersionsArePasswords'
    <2>1. request[p].ver = request[p].password /\ request[p] \in Login
      BY <1>3, RequestTypes DEF VersionsArePasswords, Issue
    <2>2. \A u \in Tokens : token'[u].ver = token'[u].password
      BY <1>3, <2>1 DEF TypeOK, VersionsArePasswords, Issue
    <2>3. \A u \in Tokens : token[u].state # "absent" => token'[u].ver = token[u].ver
      BY <1>3 DEF TypeOK, Issue
    <2>4. \A a \in access' : a.ver = a.password
      BY <1>3, <2>1 DEF VersionsArePasswords, Issue
    <2>5. user'.version = user'.password
      BY <1>3 DEF VersionsArePasswords, Issue
    <2>6. QED
      BY <1>3, <2>2, <2>3, <2>4, <2>5, RowsAgree DEF Issue, Chains
  <1>4. ASSUME NEW p \in Requests, NEW t \in Tokens, Present(p, t)
        PROVE  VersionsArePasswords'
    <2> DEFINE r == [step |-> "rotate", token |-> t, ver |-> user.version]
    <2>1. /\ r \in Requested /\ r.step = "rotate" /\ r.token = t /\ r.ver = token[t].ver
          /\ request' = [request EXCEPT ![p] = r]
      BY <1>4 DEF TypeOK, Requested, Rotation, Present
    <2> HIDE DEF r
    <2>2. QED
      BY <1>4, <2>1, RequestAgrees DEF Present
  <1>5. ASSUME NEW p \in Requests, Rotate(p)
        PROVE  VersionsArePasswords'
    <2>1. request[p] \in Rotation /\ request[p].ver = token[request[p].token].ver
      BY <1>5, RequestTypes DEF Rotate, VersionsArePasswords
    <2> DEFINE r == IF token[request[p].token].state = "live"
                      THEN [request[p] EXCEPT !.step = "rotated"]
                      ELSE [step |-> "replayed", seen |-> Live]
    <2>2. /\ r \in Requested /\ r.step \in {"rotated", "replayed"}
          /\ r.step = "rotated" => r.token = request[p].token /\ r.ver = request[p].ver
      BY <2>1 DEF Requested, Rotation, Replay, Live
    <2>3. request' = [request EXCEPT ![p] = r] /\ UNCHANGED <<user, token, access>>
      BY <1>5 DEF Rotate
    <2> HIDE DEF r
    <2>4. r.step # "issue" /\ (r.step \in {"rotate", "rotated"} => r.ver = token[r.token].ver)
      BY <2>1, <2>2
    <2>5. QED
      BY <2>2, <2>3, <2>4, RequestAgrees
  <1>6. ASSUME NEW p \in Requests, NEW s \in Tokens, CommitRotation(p, s)
        PROVE  VersionsArePasswords'
    <2> DEFINE t == request[p].token
    <2>1. t \in Tokens /\ request[p].ver = token[t].ver /\ token[t] \in Row
      BY <1>6, RequestTypes DEF TypeOK, Rotation, CommitRotation, VersionsArePasswords
    <2>2. /\ token'[s].ver = request[p].ver /\ token'[s].password = token[t].password
          /\ \A u \in Tokens \ {s} : /\ token'[u].ver = token[u].ver
                                     /\ token'[u].password = token[u].password
      BY <1>6, <2>1 DEF TypeOK, CommitRotation, Row
    <2>3. access' = access \cup {[ver |-> request[p].ver, password |-> token[t].password]}
      BY <1>6 DEF CommitRotation
    <2> HIDE DEF t
    <2>4. \A a \in access' : a.ver = a.password
      BY <2>1, <2>3 DEF VersionsArePasswords
    <2>5. \A u \in Tokens : token'[u].ver = token'[u].password
      BY <2>1, <2>2 DEF VersionsArePasswords
    <2>6. token[s].state = "absent" /\ user' = user /\ request' = [request EXCEPT ![p] = Idle]
      BY <1>6 DEF CommitRotation
    <2>7. QED
      BY <2>2, <2>4, <2>5, <2>6, RowsAgree DEF Chains, VersionsArePasswords
  <1>7. ASSUME NEW p \in Requests, NEW a \in access, NEW op \in {"logout", "change"},
               Authenticate(p, a, op)
        PROVE  VersionsArePasswords'
    <2> DEFINE r == [step |-> "revoke", op |-> op, ver |-> user.version, seen |-> {}]
    <2>1. r \in Requested /\ r.step = "revoke" /\ request' = [request EXCEPT ![p] = r]
      BY <1>7 DEF TypeOK, Requested, Revocation, Authenticate
    <2> HIDE DEF r
    <2>2. QED
      BY <1>7, <2>1, RequestAgrees DEF Authenticate
  <1>8. ASSUME NEW p \in Requests, StartRevocation(p)
        PROVE  VersionsArePasswords'
    <2>1. request[p] \in Revocation
      BY <1>8, RequestTypes DEF StartRevocation
    <2> DEFINE r == [request[p] EXCEPT !.step = "revoking", !.seen = Live]
    <2>2. r \in Requested /\ r.step = "revoking"
      BY <2>1 DEF Requested, Revocation, Live
    <2>3. request' = [request EXCEPT ![p] = r]
      BY <1>8 DEF StartRevocation
    <2> HIDE DEF r
    <2>4. QED
      BY <1>8, <2>2, <2>3, RequestAgrees DEF StartRevocation
  <1>9. ASSUME NEW p \in Requests, CommitLogout(p) \/ CommitChange(p)
        PROVE  VersionsArePasswords'
    <2>1. \A t \in Tokens : /\ token'[t].ver = token[t].ver
                            /\ token'[t].password = token[t].password
      BY <1>9 DEF TypeOK, Revoked, Row, CommitLogout, CommitChange
    <2>2. user'.version = user'.password
      <3>1. CASE CommitLogout(p)
        BY <3>1 DEF CommitLogout, VersionsArePasswords
      <3>2. CASE CommitChange(p)
        <4>1. request[p].ver = user.version
          BY <3>2 DEF CommitChange
        <4>2. QED
          BY <3>2, <4>1 DEF CommitChange, VersionsArePasswords
      <3>3. QED
        BY <1>9, <3>1, <3>2
    <2>3. access' = access /\ request' = [request EXCEPT ![p] = Idle]
      BY <1>9 DEF CommitLogout, CommitChange
    <2>4. QED
      BY <2>1, <2>2, <2>3, RowsAgree DEF Chains, VersionsArePasswords
  <1>10. ASSUME NEW p \in Requests, RefuseReplay(p) \/ Rollback(p)
         PROVE  VersionsArePasswords'
    <2>1. Idle \in Requested /\ Idle.step = "idle"
      BY DEF Requested, Idle
    <2>2. request' = [request EXCEPT ![p] = Idle] /\ UNCHANGED <<user, token, access>>
      BY <1>10 DEF RefuseReplay, Rollback
    <2>3. QED
      BY <2>1, <2>2, RequestAgrees
  <1>11. QED
    BY <1>1, <1>2, <1>3, <1>4, <1>5, <1>6, <1>7, <1>8, <1>9, <1>10 DEF Next

\* What a change has overwritten stays overwritten.
LEMMA OverlapStays == TypeOK /\ [Next]_vars => (overlap => overlap')
  BY DEF TypeOK, Next, vars, SignIn, Issue, Present, Rotate, CommitRotation, RefuseReplay,
         Authenticate, StartRevocation, CommitLogout, CommitChange, Rollback

---------------------------------------------------------------------------
(* Theorems *)

\* The initial states satisfy the invariant.
LEMMA InitIInv == Init => IInv
  <1> SUFFICES ASSUME Init
               PROVE  IInv
    OBVIOUS
  <1>1. TypeOK
    BY DEF Init, TypeOK, Row, Idle
  <1>2. Chains
    BY DEF Init, Chains, PresentedIssued, RotatedIsLive, OneRotator, LoginIssued, SeenIssued,
           OneLiveTokenPerLogin, Live, Idle
  <1>3. VersionsArePasswords
    BY DEF Init, VersionsArePasswords, Idle
  <1>4. QED
    BY <1>1, <1>2, <1>3 DEF IInv

\* Every step keeps the invariant.
LEMMA IInvStep == IInv /\ [Next]_vars => IInv'
  BY TypeStep, ChainsStep, VersionsStep, OverlapStays DEF IInv, TypeOK

\* The inductive invariant holds in every reachable state.
THEOREM InductiveInvariant == Spec => []IInv
  BY InitIInv, IInvStep, PTL DEF Spec

\* Rows, access tokens and requests keep their types.
THEOREM TypeCorrect == Spec => []TypeOK
  <1>1. IInv => TypeOK
    BY DEF IInv
  <1>2. QED
    BY <1>1, InductiveInvariant, PTL

\* However many requests present, replay and revoke tokens: one live token per sign-in.
THEOREM OneLiveToken == Spec => []OneLiveTokenPerLogin
  <1>1. IInv => OneLiveTokenPerLogin
    BY DEF IInv, Chains
  <1>2. QED
    BY <1>1, InductiveInvariant, PTL

\* Unless a change of password overwrote another, no session outlives the password.
THEOREM SessionsEnd == Spec => []SessionsEndWithThePassword
  <1>1. IInv => SessionsEndWithThePassword
    BY DEF IInv, VersionsArePasswords, SessionsEndWithThePassword, SessionsKnowThePassword,
           Usable, Live
  <1>2. QED
    BY <1>1, InductiveInvariant, PTL
=============================================================================
