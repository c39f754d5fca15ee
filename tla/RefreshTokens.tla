--------------------------- MODULE RefreshTokens ---------------------------
(***************************************************************************)
(* The sessions of one user: sign-in, rotation of refresh tokens, sign-out *)
(* and change of password.                                                 *)
(*                                                                         *)
(* A refresh token is a signed claim whose id is a row of refresh_tokens;  *)
(* an access token is a signed claim and nothing else.  Both carry the     *)
(* token_version of the user at the time they were made.  A request reads  *)
(* the user once and works on that copy to its end.                        *)
(*                                                                         *)
(* user and token are committed rows.  A request holds the lock of a row   *)
(* it has updated until it commits: a rotation (step "rotated") that of    *)
(* its token, a change of password (step "revoking") that of the user.     *)
(* Tokens expire on their own; an expired one is refused, which nobody     *)
(* distinguishes from its never being presented.                           *)
(***************************************************************************)
EXTENDS Naturals

CONSTANTS
  Requests,    \* concurrent requests
  Tokens,      \* bound: ids of refresh tokens
  MaxChanges   \* bound: changes of password

ASSUME ChangesAssumption == MaxChanges \in Nat

VARIABLES
  user,     \* the row of users: its password and its token_version
  token,    \* the rows of refresh_tokens
  access,   \* access tokens handed out so far
  request,  \* the progress of each request
  overlap   \* history: whether a change of password overwrote another

vars == <<user, token, access, request, overlap>>

---------------------------------------------------------------------------
(* Types.  Passwords are numbered: the n-th change sets password n.        *)

\* login and password are not columns: the token issued at the sign-in this
\* one descends from, and the password presented there.
Row == [state : {"absent", "live", "revoked"}, ver : Nat, login : Tokens, password : Nat]

Access == [ver : Nat, password : Nat]

Idle == [step |-> "idle"]

Login      == [step : {"issue"}, ver : Nat, password : Nat]
Rotation   == [step : {"rotate", "rotated"}, token : Tokens, ver : Nat]
Replay     == [step : {"replayed"}, seen : SUBSET Tokens]
Revocation == [step : {"revoke", "revoking"}, op : {"logout", "change"}, ver : Nat,
               seen : SUBSET Tokens]

TypeOK ==
  /\ user \in [password : Nat, version : Nat]
  /\ token \in [Tokens -> Row]
  /\ access \subseteq Access
  /\ request \in [Requests -> {Idle} \cup Login \cup Rotation \cup Replay \cup Revocation]
  /\ overlap \in BOOLEAN

---------------------------------------------------------------------------
(* Locks *)

Live == {t \in Tokens : token[t].state = "live"}

TokenFree(t) == \A p \in Requests : ~(request[p].step = "rotated" /\ request[p].token = t)

UserFree == \A p \in Requests : ~(request[p].step = "revoking" /\ request[p].op = "change")

---------------------------------------------------------------------------
(* POST /auth/login *)

\* The password is verified against the row that is read.
SignIn(p) ==
  /\ request[p] = Idle
  /\ request' = [request EXCEPT ![p] =
                   [step |-> "issue", ver |-> user.version, password |-> user.password]]
  /\ UNCHANGED <<user, token, access, overlap>>

\* issue_refresh_token and create_access_token, up to the commit.
Issue(p, t) ==
  LET q == request[p] IN
  /\ q.step = "issue"
  /\ token[t].state = "absent"
  /\ token' = [token EXCEPT ![t] = [state |-> "live", ver |-> q.ver,
                                    login |-> t, password |-> q.password]]
  /\ access' = access \cup {[ver |-> q.ver, password |-> q.password]}
  /\ request' = [request EXCEPT ![p] = Idle]
  /\ UNCHANGED <<user, overlap>>

---------------------------------------------------------------------------
(* POST /auth/refresh.  A client may present any token it was ever given.  *)

Present(p, t) ==
  /\ request[p] = Idle
  /\ token[t].state # "absent"
  /\ token[t].ver = user.version
  /\ request' = [request EXCEPT ![p] =
                   [step |-> "rotate", token |-> t, ver |-> user.version]]
  /\ UNCHANGED <<user, token, access, overlap>>

\* Mutant: the row was found un-revoked when it was read, the UPDATE does not ask again.
RotateUnasked(p) ==
  LET t == request[p].token IN
  /\ request[p].step = "rotate"
  /\ TokenFree(t)
  /\ request' = [request EXCEPT ![p].step = "rotated"]
  /\ UNCHANGED <<user, token, access, overlap>>

\* UPDATE ... WHERE revoked_at IS NULL RETURNING waits for the row and then
\* finds it un-revoked, or finds nothing: a token that was used before.
Rotate(p) ==
  LET t == request[p].token IN
  /\ request[p].step = "rotate"
  /\ TokenFree(t)
  /\ request' = [request EXCEPT ![p] =
                   IF token[t].state = "live" THEN [@ EXCEPT !.step = "rotated"]
                                              ELSE [step |-> "replayed", seen |-> Live]]
  /\ UNCHANGED <<user, token, access, overlap>>

\* The successor and the revocation of the token commit together.
CommitRotation(p, s) ==
  LET t == request[p].token IN
  /\ request[p].step = "rotated"
  /\ token[s].state = "absent"
  /\ token' = [token EXCEPT ![t].state = "revoked",
                            ![s] = [token[t] EXCEPT !.state = "live", !.ver = request[p].ver]]
  /\ access' = access \cup {[ver |-> request[p].ver, password |-> token[t].password]}
  /\ request' = [request EXCEPT ![p] = Idle]
  /\ UNCHANGED <<user, overlap>>

\* A replay revokes all tokens of the user; then the handler raises the 401
\* that makes get_db roll the transaction back.
RefuseReplay(p) ==
  /\ request[p].step = "replayed"
  /\ \A t \in request[p].seen : TokenFree(t)
  /\ request' = [request EXCEPT ![p] = Idle]
  /\ UNCHANGED <<user, token, access, overlap>>

---------------------------------------------------------------------------
(* POST /auth/logout and /auth/change-password, with an access token *)

\* get_current_user; for a change also verify_password on the row that was read.
Authenticate(p, a, op) ==
  /\ request[p] = Idle
  /\ a.ver = user.version
  /\ op = "change" => user.password < MaxChanges
  /\ request' = [request EXCEPT ![p] =
                   [step |-> "revoke", op |-> op, ver |-> user.version, seen |-> {}]]
  /\ UNCHANGED <<user, token, access, overlap>>

\* A change flushes the row of the user first.  revoke_all_user_tokens then
\* looks for un-revoked rows: it does not see those committed later.
StartRevocation(p) ==
  /\ request[p].step = "revoke"
  /\ request[p].op = "change" => UserFree /\ user.password < MaxChanges
  /\ request' = [request EXCEPT ![p].step = "revoking", ![p].seen = Live]
  /\ UNCHANGED <<user, token, access, overlap>>

\* Mutant: the rows are deleted instead.
Deleted(seen) == [t \in Tokens \ seen |-> token[t]]

Revoked(seen) ==
  [t \in Tokens |-> IF t \in seen THEN [token[t] EXCEPT !.state = "revoked"] ELSE token[t]]

\* ... waits for the rotations of the rows it found, and commits.
CommitLogout(p) ==
  /\ request[p].step = "revoking"
  /\ request[p].op = "logout"
  /\ \A t \in request[p].seen : TokenFree(t)
  /\ token' = Revoked(request[p].seen)
  /\ request' = [request EXCEPT ![p] = Idle]
  /\ UNCHANGED <<user, access, overlap>>

\* Mutant: token_version stays what it was.
CommitChangeUnversioned(p) ==
  /\ request[p].step = "revoking"
  /\ request[p].op = "change"
  /\ \A t \in request[p].seen : TokenFree(t)
  /\ token' = Revoked(request[p].seen)
  /\ user' = [password |-> user.password + 1, version |-> user.version]
  /\ request' = [request EXCEPT ![p] = Idle]
  /\ overlap' = (overlap \/ request[p].ver # user.version)
  /\ UNCHANGED access

\* The new version is computed from the copy that was read when the request began.
CommitChange(p) ==
  /\ request[p].step = "revoking"
  /\ request[p].op = "change"
  /\ \A t \in request[p].seen : TokenFree(t)
  /\ token' = Revoked(request[p].seen)
  /\ user' = [password |-> user.password + 1, version |-> request[p].ver + 1]
  /\ request' = [request EXCEPT ![p] = Idle]
  /\ overlap' = (overlap \/ request[p].ver # user.version)
  /\ UNCHANGED access

---------------------------------------------------------------------------
(* The specification *)

\* Any request may fail before its commit.
Rollback(p) ==
  /\ request[p] # Idle
  /\ request' = [request EXCEPT ![p] = Idle]
  /\ UNCHANGED <<user, token, access, overlap>>

Init ==
  /\ user = [password |-> 0, version |-> 0]
  /\ token = [t \in Tokens |-> [state |-> "absent", ver |-> 0, login |-> t, password |-> 0]]
  /\ access = {}
  /\ request = [p \in Requests |-> Idle]
  /\ overlap = FALSE

Next == \E p \in Requests :
  \/ SignIn(p)
  \/ \E t \in Tokens : Issue(p, t) \/ Present(p, t) \/ CommitRotation(p, t)
  \/ Rotate(p)
  \/ RefuseReplay(p)
  \/ \E a \in access : Authenticate(p, a, "logout") \/ Authenticate(p, a, "change")
  \/ StartRevocation(p)
  \/ CommitLogout(p)
  \/ CommitChange(p)
  \/ Rollback(p)

Spec == Init /\ [][Next]_vars

---------------------------------------------------------------------------
(* Properties *)

\* However its tokens are rotated, replayed, revoked and refreshed at the same
\* time, one sign-in has at most one refresh token that still works: a token is
\* exchanged once, by whichever UPDATE finds it un-revoked.
OneLiveTokenPerLogin == \A s, t \in Live : token[s].login = token[t].login => s = t

Usable(ver) == ver = user.version

\* A token that still works, of either kind, stems from a sign-in with the
\* password that is valid now, also when the sign-in or a rotation was under way
\* while the password changed.
SessionsKnowThePassword ==
  /\ \A t \in Live : Usable(token[t].ver) => token[t].password = user.password
  /\ \A a \in access : Usable(a.ver) => a.password = user.password

\* The same, provided no change of password was computed from a copy of the user
\* that another change had made stale: each change then has its own version.
SessionsEndWithThePassword == ~overlap => SessionsKnowThePassword

\* What the comment of rotate_refresh_token promises: the replay of a token
\* revokes the whole family, so that when the request has ended no token of
\* the user is left that the revocation had found.
ReplayRevokesFamily == [][ \A p \in Requests :
  RefuseReplay(p) => \A t \in request[p].seen : token'[t].state # "live" ]_vars
=============================================================================
