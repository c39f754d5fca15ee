---------------------- MODULE CompanyMembershipProofs ----------------------
(***************************************************************************)
(* Theorems about CompanyMembership for any members, patches, invitations  *)
(* and requests that satisfy ConstantsAssumption.                          *)
(***************************************************************************)
EXTENDS CompanyMembership, FiniteSetTheorems, TLAPS

(***************************************************************************)
(* The inductive invariant.                                                *)
(***************************************************************************)

\* A row lock has one holder.
OneHolder == \A p, q \in Requests, m \in Members : Holds(p, m) /\ Holds(q, m) => p = q

\* The owners a request counts are locked, and therefore still active owners.
OwnersStand == \A p \in Requests : request[p].step \in ChangeSteps =>
  \A m \in request[p].owners : m \in request[p].held /\ IsActiveOwner(member[m])

\* No lock is taken before the owners are looked for.
LocksCome == \A p \in Requests :
  request[p].step \in {"actor", "target"} => request[p].held = {}

\* A request that found owners and holds a lock holds the first of them.
FirstHeld == \A p \in Requests :
  /\ request[p].step \in {"owners", "actor locked"}
  /\ request[p].found # {}
  /\ request[p].held # {}
  => \E m \in request[p].found : Holds(p, m) /\ \A n \in request[p].found : m <= n

IInv == TypeOK /\ OneHolder /\ OwnersStand /\ LocksCome /\ FirstHeld /\ InvitationsBounded

---------------------------------------------------------------------------
(* Type correctness *)

\* The requests by step.
LEMMA RequestTypes ==
  ASSUME TypeOK, NEW p \in Requests
  PROVE  /\ request[p].step \in ChangeSteps => request[p] \in Change
         /\ request[p].step = "invite" => request[p] \in Inviting
         /\ request[p].step = "revoke" => request[p] \in Revoking
  <1>1. request[p] \in {Idle} \cup Change \cup Inviting \cup Revoking
    BY DEF TypeOK
  <1>2. \A r \in Change : r.step \in ChangeSteps
    BY DEF Change, ChangeSteps
  <1>3. /\ \A r \in Inviting : r.step = "invite"
        /\ \A r \in Revoking : r.step = "revoke"
        /\ Idle.step = "idle"
    BY DEF Inviting, Revoking, Idle
  <1>4. QED
    BY <1>1, <1>2, <1>3 DEF ChangeSteps

\* Every row that is not absent has a role and a status.
LEMMA RowType ==
  ASSUME TypeOK, NEW m \in Members, member[m] # Absent
  PROVE  member[m] \in Row
  BY DEF TypeOK

\* An administrator's row is not absent.
LEMMA AdministratorType ==
  ASSUME TypeOK, NEW m \in Members, IsAdministrator(member[m])
  PROVE  member[m] \in Row
  BY DEF TypeOK, IsAdministrator, Absent

\* A patch leaves a row of the table.
LEMMA PatchedType ==
  ASSUME NEW row \in Row, NEW copy \in Row, NEW patch \in Patches
  PROVE  Patched(row, copy, patch) \in Row
  BY ConstantsAssumption DEF Patched, Set, Row

\* Every step keeps the types of the variables.
LEMMA TypeStep == TypeOK /\ [Next]_vars => TypeOK'
  <1> SUFFICES ASSUME TypeOK, [Next]_vars
               PROVE  TypeOK'
    OBVIOUS
  <1>1. CASE UNCHANGED vars
    BY <1>1 DEF TypeOK, vars
  <1>2. ASSUME NEW p \in Requests, NEW a \in Members, ReadActor(p, a)
        PROVE  TypeOK'
    <2>1. [step |-> "actor", actor |-> a, actorRow |-> member[a], target |-> a,
           targetRow |-> member[a], found |-> {}, owners |-> {}, held |-> {}] \in Change
      BY <1>2, AdministratorType DEF ReadActor, Change
    <2>2. QED
      BY <1>2, <2>1 DEF TypeOK, ReadActor
  <1>3. ASSUME NEW p \in Requests, NEW t \in Members, ReadTarget(p, t)
        PROVE  TypeOK'
    <2> DEFINE copy == IF t = request[p].actor THEN request[p].actorRow ELSE member[t]
    <2>1. request[p] \in Change
      BY <1>3, RequestTypes DEF ReadTarget, ChangeSteps
    <2>2. copy \in Row
      BY <1>3, <2>1, RowType DEF ReadTarget, Change
    <2> HIDE DEF copy
    <2>3. [request[p] EXCEPT !.step = "target", !.target = t, !.targetRow = copy] \in Change
      BY <2>1, <2>2 DEF Change
    <2>4. /\ request' = [request EXCEPT ![p] =
                [request[p] EXCEPT !.step = "target", !.target = t, !.targetRow = copy]]
          /\ UNCHANGED <<member, invitation>>
      BY <1>3 DEF ReadTarget, copy
    <2>5. QED
      BY <2>3, <2>4 DEF TypeOK
  <1>4. ASSUME NEW p \in Requests, FindOwners(p)
        PROVE  TypeOK'
    <2>1. request[p] \in Change
      BY <1>4, RequestTypes DEF FindOwners, ChangeSteps
    <2>2. [request[p] EXCEPT !.step = "owners", !.found = ActiveOwners] \in Change
      BY <2>1 DEF Change, ActiveOwners
    <2>3. QED
      BY <1>4, <2>2 DEF TypeOK, FindOwners
  <1>5. ASSUME NEW p \in Requests, NEW m \in Members, LockOwner(p, m)
        PROVE  TypeOK'
    <2>1. request[p] \in Change
      BY <1>5, RequestTypes DEF LockOwner, ChangeSteps
    <2> DEFINE owners == IF IsActiveOwner(member[m]) THEN request[p].owners \cup {m}
                                                     ELSE request[p].owners
    <2>2. owners \in SUBSET Members /\ request[p].held \cup {m} \in SUBSET Members
      BY <2>1 DEF Change
    <2> HIDE DEF owners
    <2>3. [request[p] EXCEPT !.held = request[p].held \cup {m}, !.owners = owners] \in Change
      BY <2>1, <2>2 DEF Change
    <2>4. request' = [request EXCEPT ![p] =
             [request[p] EXCEPT !.held = request[p].held \cup {m}, !.owners = owners]]
      BY <1>5 DEF LockOwner, owners
    <2>5. QED
      BY <1>5, <2>3, <2>4 DEF TypeOK, LockOwner
  <1>6. ASSUME NEW p \in Requests, LockActor(p)
        PROVE  TypeOK'
    <2>1. request[p] \in Change
      BY <1>6, RequestTypes DEF LockActor, ChangeSteps
    <2>2. [request[p] EXCEPT !.step = "actor locked",
                             !.held = request[p].held \cup {request[p].actor}] \in Change
      BY <2>1 DEF Change
    <2>3. QED
      BY <1>6, <2>2 DEF TypeOK, LockActor
  <1>7. ASSUME NEW p \in Requests, NEW patch \in Patches, UpdateMember(p, patch)
        PROVE  TypeOK'
    <2>1. request[p] \in Change
      BY <1>7, RequestTypes DEF UpdateMember, Ready, ChangeSteps
    <2>2. request[p].target \in Members /\ request[p].targetRow \in Row
      BY <2>1 DEF Change
    <2>3. member[request[p].target] \in Row
      BY <1>7, <2>2, RowType DEF UpdateMember, Ready
    <2>4. Patched(member[request[p].target], request[p].targetRow, patch) \in Row
      BY <2>2, <2>3, PatchedType
    <2>5. QED
      BY <1>7, <2>4 DEF TypeOK, UpdateMember
  <1>8. ASSUME NEW p \in Requests, RemoveMember(p)
        PROVE  TypeOK'
    BY <1>8 DEF TypeOK, RemoveMember
  <1>9. ASSUME NEW p \in Requests, NEW a \in Members, NEW e \in Emails, FindInvitation(p, a, e)
        PROVE  TypeOK'
    BY <1>9 DEF TypeOK, FindInvitation, Inviting
  <1>10. ASSUME NEW p \in Requests, NEW i \in Invitations, CommitInvitation(p, i)
         PROVE  TypeOK'
    <2>1. request[p] \in Inviting
      BY <1>10, RequestTypes DEF CommitInvitation
    <2>2. [status |-> "pending", email |-> request[p].email] \in Invitation
      BY <2>1 DEF Inviting, Invitation
    <2>3. QED
      BY <1>10, <2>2 DEF TypeOK, CommitInvitation
  <1>11. ASSUME NEW p \in Requests, NEW a \in Members, NEW i \in Invitations,
                ReadInvitation(p, a, i)
         PROVE  TypeOK'
    BY <1>11 DEF TypeOK, ReadInvitation, Revoking
  <1>12. ASSUME NEW p \in Requests, CommitRevocation(p)
         PROVE  TypeOK'
    <2>1. request[p].invitation \in Invitations
      BY <1>12, RequestTypes DEF CommitRevocation, Revoking
    <2>2. [invitation[request[p].invitation] EXCEPT !.status = "revoked"] \in Invitation
      BY <2>1 DEF TypeOK, Invitation
    <2>3. QED
      BY <1>12, <2>2 DEF TypeOK, CommitRevocation
  <1>13. ASSUME NEW p \in Requests, Fail(p)
         PROVE  TypeOK'
    BY <1>13 DEF TypeOK, Fail
  <1>14. QED
    BY <1>1, <1>2, <1>3, <1>4, <1>5, <1>6, <1>7, <1>8, <1>9, <1>10, <1>11, <1>12, <1>13
    DEF Next, ChangeMember, Invite

---------------------------------------------------------------------------
(* Locks *)

Locking == OneHolder /\ OwnersStand /\ LocksCome /\ FirstHeld

\* A step that writes no member and gives one request a state without locks.
LEMMA LocksReleased ==
  ASSUME TypeOK, Locking, NEW p \in Requests, NEW r,
         request' = [request EXCEPT ![p] = r], UNCHANGED member,
         r.step \in ChangeSteps => r.held = {} /\ r.owners = {}
  PROVE  Locking'
  <1>1. \A q \in Requests : q # p => request'[q] = request[q]
    BY DEF TypeOK
  <1>2. request'[p] = r
    BY DEF TypeOK
  <1>3. \A m : ~Holds(p, m)'
    BY <1>2 DEF Holds
  <1>4. \A q \in Requests, m \in Members : Holds(q, m)' => q # p /\ Holds(q, m)
    BY <1>1, <1>3 DEF Holds
  <1>5. OneHolder'
    BY <1>4 DEF Locking, OneHolder
  <1>6. OwnersStand'
    BY <1>1, <1>2 DEF Locking, OwnersStand
  <1>7. LocksCome'
    BY <1>1, <1>2 DEF Locking, LocksCome, ChangeSteps
  <1>8. FirstHeld'
    BY <1>1, <1>2 DEF Locking, FirstHeld, Holds, ChangeSteps
  <1>9. QED
    BY <1>5, <1>6, <1>7, <1>8 DEF Locking

\* The end of a change, which may write the one row that it has locked last.
LEMMA ChangeEnds ==
  ASSUME TypeOK, Locking, NEW p \in Requests, NEW t \in Members,
         request' = [request EXCEPT ![p] = Idle], Lockable(p, t),
         \A m \in Members : m # t => member'[m] = member[m]
  PROVE  Locking'
  <1>1. \A q \in Requests : q # p => request'[q] = request[q]
    BY DEF TypeOK
  <1>2. request'[p] = Idle /\ Idle.step = "idle"
    BY DEF TypeOK, Idle
  <1>3. \A q \in Requests, m \in Members : Holds(q, m)' => q # p /\ Holds(q, m) /\ m # t
    BY <1>1, <1>2 DEF Holds, ChangeSteps, Lockable
  <1>4. OneHolder'
    BY <1>3 DEF Locking, OneHolder
  <1>5. OwnersStand'
    <2> SUFFICES ASSUME NEW q \in Requests, request'[q].step \in ChangeSteps,
                        NEW m \in request'[q].owners
                 PROVE  m \in request'[q].held /\ IsActiveOwner(member'[m])
      BY DEF OwnersStand, IsActiveOwner
    <2>1. q # p /\ request'[q] = request[q]
      BY <1>1, <1>2 DEF ChangeSteps
    <2>2. m \in request[q].held /\ IsActiveOwner(member[m]) /\ m \in Members
      BY <2>1, RequestTypes DEF Locking, OwnersStand, Change
    <2>3. m # t
      BY <2>1, <2>2 DEF Lockable, Holds
    <2>4. QED
      BY <2>1, <2>2, <2>3
  <1>6. LocksCome'
    BY <1>1, <1>2 DEF Locking, LocksCome
  <1>7. FirstHeld'
    BY <1>1, <1>2 DEF Locking, FirstHeld, Holds
  <1>8. QED
    BY <1>4, <1>5, <1>6, <1>7 DEF Locking

\* A request locks one more row.
LEMMA LockTaken ==
  ASSUME TypeOK, Locking, NEW p \in Requests, NEW m \in Members, NEW r \in Change,
         Lockable(p, m), request[p] \in Change,
         request' = [request EXCEPT ![p] = r], UNCHANGED member,
         r.held = request[p].held \cup {m}, r.found = request[p].found,
         r.step \in {"owners", "actor locked"}, request[p].step = "owners",
         \/ r.owners = request[p].owners
         \/ r.owners = request[p].owners \cup {m} /\ IsActiveOwner(member[m]),
         request[p].held = {} => r.found = {} \/ (m \in r.found /\ \A n \in r.found : m <= n)
  PROVE  Locking'
  <1>1. /\ \A q \in Requests : q # p => request'[q] = request[q]
        /\ request'[p] = r
    BY DEF TypeOK
  <1>2. \A q \in Requests, n \in Members : Holds(q, n)' =>
          Holds(q, n) \/ (q = p /\ n = m)
    BY <1>1 DEF Holds, ChangeSteps
  <1>3. OneHolder'
    <2> SUFFICES ASSUME NEW q \in Requests, NEW o \in Requests, NEW n \in Members,
                        Holds(q, n)', Holds(o, n)'
                 PROVE  q = o
      BY DEF OneHolder
    <2>1. CASE n = m
      BY <1>2, <2>1 DEF Lockable
    <2>2. CASE n # m
      BY <1>2, <2>2 DEF Locking, OneHolder
    <2>3. QED
      BY <2>1, <2>2
  <1>4. OwnersStand'
    <2> SUFFICES ASSUME NEW q \in Requests, request'[q].step \in ChangeSteps,
                        NEW n \in request'[q].owners
                 PROVE  n \in request'[q].held /\ IsActiveOwner(member[n])
      BY DEF OwnersStand, IsActiveOwner
    <2>1. CASE q # p
      BY <1>1, <2>1 DEF Locking, OwnersStand
    <2>2. CASE q = p
      <3>0. n \in r.owners
        BY <1>1, <2>2
      <3>1. n \in request[p].owners \/ (n = m /\ IsActiveOwner(member[m]))
        <4>1. CASE r.owners = request[p].owners
          BY <3>0, <4>1
        <4>2. CASE r.owners = request[p].owners \cup {m} /\ IsActiveOwner(member[m])
          BY <3>0, <4>2
        <4>3. QED
          BY <4>1, <4>2
      <3>2. n \in request[p].owners => n \in request[p].held /\ IsActiveOwner(member[n])
        BY DEF Locking, OwnersStand, ChangeSteps
      <3>3. request'[q].held = request[p].held \cup {m}
        BY <1>1, <2>2
      <3>4. QED
        BY <3>1, <3>2, <3>3
    <2>3. QED
      BY <2>1, <2>2
  <1>5. LocksCome'
    BY <1>1 DEF Locking, LocksCome
  <1>6. FirstHeld'
    <2> SUFFICES ASSUME NEW q \in Requests, request'[q].step \in {"owners", "actor locked"},
                        request'[q].found # {}, request'[q].held # {}
                 PROVE  \E x \in request'[q].found :
                          Holds(q, x)' /\ \A n \in request'[q].found : x <= n
      BY DEF FirstHeld
    <2>1. CASE q # p
      BY <1>1, <2>1 DEF Locking, FirstHeld, Holds
    <2>2. CASE q = p /\ request[p].held # {}
      BY <1>1, <2>2 DEF Locking, FirstHeld, Holds, ChangeSteps
    <2>3. CASE q = p /\ request[p].held = {}
      BY <1>1, <2>3 DEF Holds, ChangeSteps
    <2>4. QED
      BY <2>1, <2>2, <2>3
  <1>7. QED
    BY <1>3, <1>4, <1>5, <1>6 DEF Locking

\* Every step keeps the locks in order.
LEMMA LockingStep == TypeOK /\ Locking /\ [Next]_vars => Locking'
  <1> SUFFICES ASSUME TypeOK, Locking, [Next]_vars
               PROVE  Locking'
    OBVIOUS
  <1>1. CASE UNCHANGED vars
    BY <1>1 DEF vars, Locking, OneHolder, OwnersStand, LocksCome, FirstHeld, Holds, IsActiveOwner
  <1>2. ASSUME NEW p \in Requests, NEW a \in Members, ReadActor(p, a)
        PROVE  Locking'
    <2> DEFINE r == [step |-> "actor", actor |-> a, actorRow |-> member[a], target |-> a,
                     targetRow |-> member[a], found |-> {}, owners |-> {}, held |-> {}]
    <2>1. r.held = {} /\ r.owners = {}
      OBVIOUS
    <2>2. request' = [request EXCEPT ![p] = r] /\ UNCHANGED member
      BY <1>2 DEF ReadActor
    <2> HIDE DEF r
    <2>3. QED
      BY <2>1, <2>2, LocksReleased
  <1>3. ASSUME NEW p \in Requests, NEW t \in Members, ReadTarget(p, t)
        PROVE  Locking'
    <2>1. request[p] \in Change /\ request[p].held = {}
      BY <1>3, RequestTypes DEF ReadTarget, ChangeSteps, Locking, LocksCome
    <2>2. request[p].owners = {}
      BY <1>3, <2>1 DEF ReadTarget, Locking, OwnersStand, ChangeSteps
    <2> DEFINE r == request'[p]
    <2>3. r.held = {} /\ r.owners = {}
      BY <1>3, <2>1, <2>2 DEF ReadTarget, TypeOK, Change
    <2>4. request' = [request EXCEPT ![p] = r] /\ UNCHANGED member
      BY <1>3 DEF ReadTarget, TypeOK
    <2> HIDE DEF r
    <2>5. QED
      BY <2>3, <2>4, LocksReleased
  <1>4. ASSUME NEW p \in Requests, FindOwners(p)
        PROVE  Locking'
    <2>1. request[p] \in Change /\ request[p].held = {}
      BY <1>4, RequestTypes DEF FindOwners, ChangeSteps, Locking, LocksCome
    <2>2. request[p].owners = {}
      BY <1>4, <2>1 DEF FindOwners, Locking, OwnersStand, ChangeSteps
    <2> DEFINE r == [request[p] EXCEPT !.step = "owners", !.found = ActiveOwners]
    <2>3. r.held = {} /\ r.owners = {}
      BY <2>1, <2>2 DEF Change
    <2>4. request' = [request EXCEPT ![p] = r] /\ UNCHANGED member
      BY <1>4 DEF FindOwners
    <2> HIDE DEF r
    <2>5. QED
      BY <2>3, <2>4, LocksReleased
  <1>5. ASSUME NEW p \in Requests, NEW m \in Members, LockOwner(p, m)
        PROVE  Locking'
    <2>1. request[p] \in Change /\ request[p].step = "owners" /\ Lockable(p, m)
      BY <1>5, RequestTypes DEF LockOwner, ChangeSteps
    <2> DEFINE owners == IF IsActiveOwner(member[m]) THEN request[p].owners \cup {m}
                                                     ELSE request[p].owners
               r == [request[p] EXCEPT !.held = request[p].held \cup {m}, !.owners = owners]
    <2>2. \/ owners = request[p].owners
          \/ owners = request[p].owners \cup {m} /\ IsActiveOwner(member[m])
      OBVIOUS
    <2>3. owners \in SUBSET Members
      BY <2>1 DEF Change
    <2> HIDE DEF owners
    <2>4. /\ r \in Change /\ r.held = request[p].held \cup {m} /\ r.found = request[p].found
          /\ r.step = "owners" /\ r.owners = owners
      BY <2>1, <2>3 DEF Change
    <2>5. request' = [request EXCEPT ![p] = r] /\ UNCHANGED member
      BY <1>5 DEF LockOwner, owners
    <2>6. request[p].held = {} => m \in r.found /\ \A n \in r.found : m <= n
      BY <1>5, <2>4 DEF LockOwner, Unlocked
    <2> HIDE DEF r
    <2>7. QED
      BY <2>1, <2>2, <2>4, <2>5, <2>6, LockTaken
  <1>6. ASSUME NEW p \in Requests, LockActor(p)
        PROVE  Locking'
    <2> DEFINE a == request[p].actor
               r == [request[p] EXCEPT !.step = "actor locked", !.held = request[p].held \cup {a}]
    <2>1. request[p] \in Change /\ request[p].step = "owners" /\ Lockable(p, a) /\ a \in Members
      BY <1>6, RequestTypes DEF LockActor, ChangeSteps, Change
    <2>2. /\ r \in Change /\ r.held = request[p].held \cup {a} /\ r.found = request[p].found
          /\ r.step = "actor locked" /\ r.owners = request[p].owners
      BY <2>1 DEF Change
    <2>3. request' = [request EXCEPT ![p] = r] /\ UNCHANGED member
      BY <1>6 DEF LockActor
    <2>4. request[p].held = {} => r.found = {}
      BY <1>6, <2>2 DEF LockActor, Unlocked
    <2> HIDE DEF r, a
    <2>5. QED
      BY <2>1, <2>2, <2>3, <2>4, LockTaken
  <1>7. ASSUME NEW p \in Requests,
               (\E patch \in Patches : UpdateMember(p, patch)) \/ RemoveMember(p)
        PROVE  Locking'
    <2> DEFINE t == request[p].target
    <2>1. Ready(p) /\ request' = [request EXCEPT ![p] = Idle]
      BY <1>7 DEF UpdateMember, RemoveMember
    <2>2. t \in Members /\ Lockable(p, t)
      BY <2>1, RequestTypes DEF Ready, ChangeSteps, Change
    <2>3. \A m \in Members : m # t => member'[m] = member[m]
      BY <1>7 DEF UpdateMember, RemoveMember, TypeOK
    <2> HIDE DEF t
    <2>4. QED
      BY <2>1, <2>2, <2>3, ChangeEnds
  <1>8. ASSUME NEW p \in Requests, NEW a \in Members, NEW e \in Emails, FindInvitation(p, a, e)
        PROVE  Locking'
    <2> DEFINE r == [step |-> "invite", email |-> e]
    <2>1. r.step \notin ChangeSteps
      BY DEF ChangeSteps
    <2>2. request' = [request EXCEPT ![p] = r] /\ UNCHANGED member
      BY <1>8 DEF FindInvitation
    <2> HIDE DEF r
    <2>3. QED
      BY <2>1, <2>2, LocksReleased
  <1>9. ASSUME NEW p \in Requests, NEW a \in Members, NEW i \in Invitations,
               ReadInvitation(p, a, i)
        PROVE  Locking'
    <2> DEFINE r == [step |-> "revoke", invitation |-> i]
    <2>1. r.step \notin ChangeSteps
      BY DEF ChangeSteps
    <2>2. request' = [request EXCEPT ![p] = r] /\ UNCHANGED member
      BY <1>9 DEF ReadInvitation
    <2> HIDE DEF r
    <2>3. QED
      BY <2>1, <2>2, LocksReleased
  <1>10. ASSUME NEW p \in Requests,
                \/ \E i \in Invitations : CommitInvitation(p, i)
                \/ CommitRevocation(p) \/ Fail(p)
         PROVE  Locking'
    <2>1. Idle.step \notin ChangeSteps
      BY DEF Idle, ChangeSteps
    <2>2. request' = [request EXCEPT ![p] = Idle] /\ UNCHANGED member
      BY <1>10 DEF CommitInvitation, CommitRevocation, Fail
    <2>3. QED
      BY <2>1, <2>2, LocksReleased
  <1>11. QED
    BY <1>1, <1>2, <1>3, <1>4, <1>5, <1>6, <1>7, <1>8, <1>9, <1>10 DEF Next, ChangeMember, Invite

---------------------------------------------------------------------------
(* Invitations *)

\* The sets that InvitationsBounded counts.
LEMMA CountedFinite ==
  ASSUME NEW e \in Emails
  PROVE  /\ IsFiniteSet(Pending(e)) /\ IsFiniteSet(InvitersOf(e))
         /\ Cardinality(Pending(e)) \in Nat /\ Cardinality(InvitersOf(e)) \in Nat
         /\ Cardinality(InvitersOf(e)) <= Cardinality(Requests) /\ Cardinality(Requests) \in Nat
  <1>1. IsFiniteSet(Requests) /\ IsFiniteSet(Invitations)
    BY ConstantsAssumption
  <1>2. Pending(e) \in SUBSET Invitations /\ InvitersOf(e) \in SUBSET Requests
    BY DEF Pending, InvitersOf
  <1>3. IsFiniteSet(Pending(e)) /\ IsFiniteSet(InvitersOf(e))
        /\ Cardinality(InvitersOf(e)) <= Cardinality(Requests)
    BY <1>1, <1>2, FS_Subset
  <1>4. QED
    BY <1>1, <1>3, FS_CardinalityType

\* If neither set grows, the bound stays.
LEMMA NoMoreInvited ==
  ASSUME InvitationsBounded, NEW e \in Emails,
         Pending(e)' \subseteq Pending(e), InvitersOf(e)' \subseteq InvitersOf(e)
  PROVE  (Cardinality(Pending(e)) + Cardinality(InvitersOf(e)) <= Cardinality(Requests))'
  <1> DEFINE P == Pending(e)  PP == Pending(e)'  I == InvitersOf(e)  II == InvitersOf(e)'
  <1>1. IsFiniteSet(P) /\ IsFiniteSet(I) /\ Cardinality(P) \in Nat /\ Cardinality(I) \in Nat
        /\ Cardinality(Requests) \in Nat
    BY CountedFinite
  <1>2. Cardinality(P) + Cardinality(I) <= Cardinality(Requests)
    BY DEF InvitationsBounded
  <1>3. PP \in SUBSET P /\ II \in SUBSET I
    OBVIOUS
  <1> HIDE DEF P, PP, I, II
  <1>4. /\ IsFiniteSet(PP) /\ Cardinality(PP) <= Cardinality(P)
        /\ IsFiniteSet(II) /\ Cardinality(II) <= Cardinality(I)
    BY <1>1, <1>3, FS_Subset
  <1>5. Cardinality(PP) \in Nat /\ Cardinality(II) \in Nat
    BY <1>4, FS_CardinalityType
  <1>6. Cardinality(PP) + Cardinality(II) <= Cardinality(Requests)
    BY <1>1, <1>2, <1>4, <1>5
  <1>7. QED
    BY <1>6 DEF PP, II

\* Every step keeps the bound: an address that has an invitation gains no
\* searcher, and an insertion turns a searcher into an invitation.
LEMMA InvitationsStep == TypeOK /\ InvitationsBounded /\ [Next]_vars => InvitationsBounded'
  <1> SUFFICES ASSUME TypeOK, InvitationsBounded, [Next]_vars, NEW e \in Emails
               PROVE  (Cardinality(Pending(e)) + Cardinality(InvitersOf(e))
                         <= Cardinality(Requests))'
    BY DEF InvitationsBounded
  <1>1. CASE UNCHANGED vars
    BY <1>1, NoMoreInvited DEF vars, Pending, InvitersOf
  <1>2. ASSUME NEW p \in Requests, NEW r, request' = [request EXCEPT ![p] = r],
               r.step # "invite", \A i \in Invitations : \/ invitation'[i] = invitation[i]
                                                         \/ invitation'[i].status = "revoked"
        PROVE  (Cardinality(Pending(e)) + Cardinality(InvitersOf(e)) <= Cardinality(Requests))'
    <2>1. Pending(e)' \subseteq Pending(e)
      BY <1>2 DEF Pending
    <2>2. \A q \in Requests : request'[q] = IF q = p THEN r ELSE request[q]
      BY <1>2 DEF TypeOK
    <2>3. InvitersOf(e)' \subseteq InvitersOf(e)
      BY <1>2, <2>2 DEF InvitersOf
    <2>4. QED
      BY <2>1, <2>3, NoMoreInvited
  <1>3. ASSUME NEW p \in Requests, ChangeMember(p)
        PROVE  (Cardinality(Pending(e)) + Cardinality(InvitersOf(e)) <= Cardinality(Requests))'
    <2>1. request' = [request EXCEPT ![p] = request'[p]] /\ UNCHANGED invitation
      BY <1>3 DEF TypeOK, ChangeMember, ReadActor, ReadTarget, FindOwners, LockOwner, LockActor,
                  UpdateMember, RemoveMember
    <2>2. request'[p].step # "invite"
      <3>1. CASE request'[p] = Idle
        BY <3>1 DEF Idle
      <3>2. CASE request'[p] # Idle
        <4>1. ASSUME NEW m \in Members, ReadActor(p, m)
              PROVE  request'[p].step = "actor"
          BY <4>1 DEF ReadActor, TypeOK
        <4>2. ASSUME NEW m \in Members, LockOwner(p, m)
              PROVE  request'[p].step = "owners"
          <5>1. request[p] \in Change /\ request[p].step = "owners"
            BY <4>2, RequestTypes DEF LockOwner, ChangeSteps
          <5>2. QED
            BY <4>2, <5>1 DEF LockOwner, TypeOK, Change
        <4>3. ASSUME NEW m \in Members, ReadTarget(p, m)
              PROVE  request'[p].step = "target"
          <5>1. request[p] \in Change
            BY <4>3, RequestTypes DEF ReadTarget, ChangeSteps
          <5>2. QED
            BY <4>3, <5>1 DEF ReadTarget, TypeOK, Change
        <4>4. FindOwners(p) => request'[p].step = "owners"
          <5>1. FindOwners(p) => request[p] \in Change
            BY RequestTypes DEF FindOwners, ChangeSteps
          <5>2. QED
            BY <5>1 DEF FindOwners, TypeOK, Change
        <4>5. LockActor(p) => request'[p].step = "actor locked"
          <5>1. LockActor(p) => request[p] \in Change
            BY RequestTypes DEF LockActor, ChangeSteps
          <5>2. QED
            BY <5>1 DEF LockActor, TypeOK, Change
        <4>6. (\E patch \in Patches : UpdateMember(p, patch)) \/ RemoveMember(p) =>
                request'[p] = Idle
          BY DEF UpdateMember, RemoveMember, TypeOK
        <4>7. QED
          BY <1>3, <3>2, <4>1, <4>2, <4>3, <4>4, <4>5, <4>6 DEF ChangeMember
      <3>3. QED
        BY <3>1, <3>2
    <2>3. QED
      BY <1>2, <2>1, <2>2
  <1>4. ASSUME NEW p \in Requests, NEW a \in Members, NEW f \in Emails, FindInvitation(p, a, f)
        PROVE  (Cardinality(Pending(e)) + Cardinality(InvitersOf(e)) <= Cardinality(Requests))'
    <2>1. /\ Pending(f) = {} /\ request[p] = Idle /\ UNCHANGED invitation
          /\ request' = [request EXCEPT ![p] = [step |-> "invite", email |-> f]]
      BY <1>4 DEF FindInvitation
    <2>2. Pending(e)' = Pending(e)
      BY <2>1 DEF Pending
    <2>3. CASE e = f
      <3>1. InvitersOf(e)' \in SUBSET Requests
        BY DEF InvitersOf
      <3>2. Cardinality(InvitersOf(e)') <= Cardinality(Requests) /\ IsFiniteSet(InvitersOf(e)')
        BY <3>1, FS_Subset, ConstantsAssumption
      <3>3. Cardinality(Pending(e)') = 0
        BY <2>1, <2>2, <2>3, FS_EmptySet
      <3>4. Cardinality(InvitersOf(e)') \in Nat /\ Cardinality(Requests) \in Nat
        BY <3>2, FS_CardinalityType, ConstantsAssumption
      <3>5. Cardinality(Pending(e)') + Cardinality(InvitersOf(e)') <= Cardinality(Requests)
        BY <3>2, <3>3, <3>4
      <3>6. QED
        BY <3>5
    <2>4. CASE e # f
      <3>1. InvitersOf(e)' \subseteq InvitersOf(e)
        BY <2>1, <2>4 DEF InvitersOf, TypeOK
      <3>2. QED
        BY <2>2, <3>1, NoMoreInvited
    <2>5. QED
      BY <2>3, <2>4
  <1>5. ASSUME NEW p \in Requests, NEW i \in Invitations, CommitInvitation(p, i)
        PROVE  (Cardinality(Pending(e)) + Cardinality(InvitersOf(e)) <= Cardinality(Requests))'
    <2>1. /\ request[p].step = "invite" /\ invitation[i].status = "absent"
          /\ request' = [request EXCEPT ![p] = Idle]
          /\ invitation' = [invitation EXCEPT ![i] = [status |-> "pending",
                                                      email |-> request[p].email]]
      BY <1>5 DEF CommitInvitation
    <2>2. CASE request[p].email # e
      <3>1. Pending(e)' \subseteq Pending(e)
        BY <2>1, <2>2 DEF Pending, TypeOK
      <3>2. InvitersOf(e)' \subseteq InvitersOf(e)
        BY <2>1 DEF InvitersOf, TypeOK, Idle
      <3>3. QED
        BY <3>1, <3>2, NoMoreInvited
    <2>3. CASE request[p].email = e
      <3> DEFINE P == Pending(e)  I == InvitersOf(e)
      <3>1. Pending(e)' = P \cup {i} /\ i \notin P
        BY <2>1, <2>3 DEF Pending, TypeOK
      <3>2. InvitersOf(e)' = I \ {p} /\ p \in I
        BY <2>1, <2>3 DEF InvitersOf, TypeOK, Idle
      <3>3. IsFiniteSet(P) /\ IsFiniteSet(I) /\ Cardinality(P) \in Nat /\ Cardinality(I) \in Nat
            /\ Cardinality(Requests) \in Nat
        BY CountedFinite
      <3>4. Cardinality(P) + Cardinality(I) <= Cardinality(Requests)
        BY DEF InvitationsBounded
      <3> HIDE DEF P, I
      <3>5. Cardinality(P \cup {i}) = Cardinality(P) + 1
        BY <3>1, <3>3, FS_AddElement
      <3>6. Cardinality(I \ {p}) = Cardinality(I) - 1
        BY <3>2, <3>3, FS_RemoveElement
      <3>7. Cardinality(P \cup {i}) + Cardinality(I \ {p}) <= Cardinality(Requests)
        BY <3>3, <3>4, <3>5, <3>6
      <3>8. QED
        BY <3>1, <3>2, <3>7
    <2>4. QED
      BY <2>2, <2>3
  <1>6. ASSUME NEW p \in Requests, NEW a \in Members, NEW i \in Invitations,
               ReadInvitation(p, a, i)
        PROVE  (Cardinality(Pending(e)) + Cardinality(InvitersOf(e)) <= Cardinality(Requests))'
    <2> DEFINE r == [step |-> "revoke", invitation |-> i]
    <2>1. r.step # "invite" /\ request' = [request EXCEPT ![p] = r] /\ UNCHANGED invitation
      BY <1>6 DEF ReadInvitation
    <2> HIDE DEF r
    <2>2. QED
      BY <1>2, <2>1
  <1>7. ASSUME NEW p \in Requests, CommitRevocation(p) \/ Fail(p)
        PROVE  (Cardinality(Pending(e)) + Cardinality(InvitersOf(e)) <= Cardinality(Requests))'
    <2>1. request' = [request EXCEPT ![p] = Idle] /\ Idle.step # "invite"
      BY <1>7 DEF CommitRevocation, Fail, Idle
    <2>2. \A i \in Invitations : \/ invitation'[i] = invitation[i]
                                 \/ invitation'[i].status = "revoked"
      BY <1>7 DEF CommitRevocation, Fail, TypeOK, Invitation
    <2>3. QED
      BY <1>2, <2>1, <2>2
  <1>8. QED
    BY <1>1, <1>3, <1>4, <1>5, <1>6, <1>7 DEF Next, Invite

---------------------------------------------------------------------------
(* Theorems *)

\* The initial states satisfy the invariant.
LEMMA InitIInv == Init => IInv
  <1> SUFFICES ASSUME Init
               PROVE  IInv
    OBVIOUS
  <1>1. TypeOK
    BY DEF Init, TypeOK, Invitation
  <1>2. \A p \in Requests : request[p] = Idle /\ Idle.step = "idle"
    BY DEF Init, Idle
  <1>3. OneHolder /\ OwnersStand /\ LocksCome /\ FirstHeld
    BY <1>2 DEF OneHolder, OwnersStand, LocksCome, FirstHeld, Holds, ChangeSteps
  <1>4. InvitationsBounded
    <2> SUFFICES ASSUME NEW e \in Emails
                 PROVE  Cardinality(Pending(e)) + Cardinality(InvitersOf(e))
                          <= Cardinality(Requests)
      BY DEF InvitationsBounded
    <2>1. Pending(e) = {} /\ InvitersOf(e) = {}
      BY <1>2 DEF Init, Pending, InvitersOf
    <2>2. Cardinality(Pending(e)) = 0 /\ Cardinality(InvitersOf(e)) = 0
      BY <2>1, FS_EmptySet
    <2>3. QED
      BY <2>2, CountedFinite
  <1>5. QED
    BY <1>1, <1>3, <1>4 DEF IInv

\* Every step keeps the invariant.
LEMMA IInvStep == IInv /\ [Next]_vars => IInv'
  BY TypeStep, LockingStep, InvitationsStep DEF IInv, Locking

\* The inductive invariant holds in every reachable state.
THEOREM InductiveInvariant == Spec => []IInv
  BY InitIInv, IInvStep, PTL DEF Spec

\* Members, invitations and requests keep their types.
THEOREM TypeCorrect == Spec => []TypeOK
  <1>1. IInv => TypeOK
    BY DEF IInv
  <1>2. QED
    BY <1>1, InductiveInvariant, PTL

\* An address never has more invitations and searchers than there are requests.
THEOREM InvitationsAreBounded == Spec => []InvitationsBounded
  <1>1. IInv => InvitationsBounded
    BY DEF IInv
  <1>2. QED
    BY <1>1, InductiveInvariant, PTL

\* Two waiting requests that found the same owners would both hold the first of them.
LEMMA NoCycleOnOneView == IInv => DeadlockNeedsOwnerChange
  <1> SUFFICES ASSUME IInv, NEW S \in SUBSET Requests, Deadlocked(S),
                      \A p, q \in S : request[p].found = request[q].found
                                       /\ request[p].found # {}
               PROVE  FALSE
    BY DEF DeadlockNeedsOwnerChange
  <1>1. PICK p \in S : TRUE
    BY DEF Deadlocked
  <1>2. PICK q \in S : WaitsFor(p, q)
    BY <1>1 DEF Deadlocked
  <1>3. PICK r \in S : WaitsFor(q, r)
    BY <1>2 DEF Deadlocked
  <1>4. PICK s \in S : WaitsFor(r, s)
    BY <1>3 DEF Deadlocked
  <1>5. ASSUME NEW x \in S, NEW y \in S, NEW z \in S, WaitsFor(x, y), WaitsFor(y, z)
        PROVE  \E m \in request[y].found : Holds(y, m) /\ \A n \in request[y].found : m <= n
    <2>1. \E m \in Members : Holds(y, m)
      BY <1>5 DEF WaitsFor
    <2>2. request[y].held # {}
      BY <2>1 DEF Holds
    <2>3. request[y].step \in {"owners", "actor locked"}
      BY <1>5 DEF WaitsFor
    <2>4. QED
      BY <2>2, <2>3 DEF IInv, FirstHeld
  <1>6. PICK m \in request[q].found : Holds(q, m) /\ \A n \in request[q].found : m <= n
    BY <1>2, <1>3, <1>5
  <1>7. PICK k \in request[r].found : Holds(r, k) /\ \A n \in request[r].found : k <= n
    BY <1>3, <1>4, <1>5
  <1>8. request[q].found = request[r].found
    OBVIOUS
  <1>9. m \in Members /\ k \in Members
    BY <1>6, <1>7, RequestTypes DEF IInv, Holds, Change
  <1>10. m = k
    BY <1>6, <1>7, <1>8, <1>9, ConstantsAssumption
  <1>11. q = r
    BY <1>6, <1>7, <1>9, <1>10 DEF IInv, OneHolder
  <1>12. QED
    BY <1>3, <1>11 DEF WaitsFor

\* Requests that found the same active owners never wait for each other in a circle.
THEOREM DeadlocksExplained == Spec => []DeadlockNeedsOwnerChange
  BY NoCycleOnOneView, InductiveInvariant, PTL

\* Among several owners that are all counted, one is not the target.
LEMMA AnotherOwner ==
  ASSUME NEW T, NEW t, Cardinality(T) > 1
  PROVE  \E m \in T : m # t
  <1> SUFFICES ASSUME T \subseteq {t}
               PROVE  FALSE
    OBVIOUS
  <1>1. T = {} \/ T = {t}
    OBVIOUS
  <1>2. Cardinality({}) = 0 /\ Cardinality({t}) = 1
    BY FS_EmptySet, FS_Singleton
  <1>3. QED
    BY <1>1, <1>2

\* A change that is authorized on a copy of the target that is still true
\* leaves an active owner, or sets one to "invited".
LEMMA ChangeKeepsOwner ==
  ASSUME IInv, OwnerRemains, NEW p \in Requests,
         (\E patch \in Patches : UpdateMember(p, patch)) \/ RemoveMember(p)
  PROVE  OwnerRemains' \/ LossExplained
  <1> DEFINE t == request[p].target
             copy == request[p].targetRow
  <1>1. Ready(p) /\ request' = [request EXCEPT ![p] = Idle] /\ request[p].step = "actor locked"
    BY DEF UpdateMember, RemoveMember, Ready
  <1>2. request[p] \in Change /\ t \in Members /\ copy \in Row
    BY <1>1, RequestTypes DEF IInv, ChangeSteps, Change
  <1>3. request'[p] = Idle
    BY <1>1 DEF IInv, TypeOK
  <1> SUFFICES ASSUME ~Outdated(p), member'[t].status # "invited"
               PROVE  OwnerRemains'
    BY <1>1, <1>3 DEF LossExplained
  <1>4. member[t] = copy
    BY DEF Outdated
  <1>5. \A m \in Members : m # t => member'[m] = member[m]
    BY DEF UpdateMember, RemoveMember, IInv, TypeOK
  <1>6. ASSUME NEW m \in Members, IsActiveOwner(member[m]), m # t
        PROVE  OwnerRemains'
    BY <1>5, <1>6 DEF OwnerRemains, ActiveOwners, IsActiveOwner
  <1>7. CASE ~IsActiveOwner(copy)
    BY <1>4, <1>6, <1>7 DEF OwnerRemains, ActiveOwners
  <1>8. ASSUME Cardinality(request[p].owners) > 1
        PROVE  OwnerRemains'
    <2>1. PICK m \in request[p].owners : m # t
      BY <1>8, AnotherOwner
    <2>2. m \in Members /\ IsActiveOwner(member[m])
      BY <1>1, <1>2 DEF IInv, OwnersStand, ChangeSteps, Change
    <2>3. QED
      BY <1>6, <2>1, <2>2
  <1>9. CASE IsActiveOwner(copy) /\ RemoveMember(p)
    BY <1>8, <1>9 DEF RemoveMember, Authorized
  <1>10. ASSUME IsActiveOwner(copy), NEW patch \in Patches, UpdateMember(p, patch)
         PROVE  OwnerRemains'
    <2>1. CASE patch.role \notin {Keep, "OWNER"} \/ patch.status = "disabled"
      BY <1>8, <1>10, <2>1 DEF UpdateMember, Authorized
    <2>2. CASE patch.role \in {Keep, "OWNER"} /\ patch.status # "disabled"
      <3>1. member'[t] = Patched(member[t], copy, patch)
        BY <1>2, <1>10 DEF UpdateMember, IInv, TypeOK
      <3>2. patch.status \in {Keep, "active", "invited"}
        BY <2>2, ConstantsAssumption DEF Statuses
      <3>3. copy.role = "OWNER" /\ copy.status = "active"
        BY <1>10 DEF IsActiveOwner
      <3>4. member'[t].role = "OWNER"
        BY <1>4, <2>2, <3>1, <3>3 DEF Patched, Set
      <3>5. member'[t].status \in {"active", "invited"}
        BY <1>4, <3>1, <3>2, <3>3 DEF Patched, Set
      <3>6. QED
        BY <1>2, <3>4, <3>5 DEF OwnerRemains, ActiveOwners, IsActiveOwner
    <2>3. QED
      BY <2>1, <2>2
  <1>11. QED
    BY <1>7, <1>9, <1>10

\* The last active owner is lost only on an outdated copy, or to "invited".
THEOREM OwnerLossIsExplained == Spec => OwnerLossExplained
  <1>1. IInv /\ [Next]_vars => [OwnerRemains => OwnerRemains' \/ LossExplained]_vars
    <2> SUFFICES ASSUME IInv, Next, OwnerRemains, member' # member
                 PROVE  OwnerRemains' \/ LossExplained
      BY DEF OwnerRemains, ActiveOwners, IsActiveOwner, vars
    <2>1. PICK p \in Requests : (\E patch \in Patches : UpdateMember(p, patch)) \/ RemoveMember(p)
      BY DEF Next, ChangeMember, Invite, Fail, ReadActor, ReadTarget, FindOwners, LockOwner,
             LockActor, FindInvitation, CommitInvitation, ReadInvitation, CommitRevocation
    <2>2. QED
      BY <2>1, ChangeKeepsOwner
  <1>2. QED
    BY <1>1, InductiveInvariant, PTL DEF Spec, OwnerLossExplained
=============================================================================
