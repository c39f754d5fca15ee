------------------------- MODULE CompanyMembership -------------------------
(***************************************************************************)
(* The members of one company and its invitations, changed by concurrent   *)
(* requests of its administrators.                                         *)
(*                                                                         *)
(* A request that changes or removes a member reads the acting and the     *)
(* target member without a lock.  It then locks the active owners in the   *)
(* order of their ids, the actor and the target, and decides.  The rows it *)
(* locks are already in its session, whose copies a locking SELECT does    *)
(* not refresh: it decides on what it read before it had any lock.         *)
(*                                                                         *)
(* member and invitation are committed rows.  A lock is held to the end of *)
(* the request, so the decision, the write and the commit are one step.    *)
(***************************************************************************)
EXTENDS Naturals, FiniteSets

CONSTANTS
  Members,      \* ids of the rows of company_members
  Founder,      \* the member that create_company inserts
  Roles,
  Patches,      \* bodies of PATCH requests
  Keep,         \* a field that a body leaves out
  Invitations,  \* bound: ids of the rows of invitations
  Emails,
  Requests      \* concurrent requests

Statuses == {"active", "invited", "disabled"}

ASSUME ConstantsAssumption ==
  /\ Members \subseteq Nat
  /\ Founder \in Members
  /\ {"OWNER", "ADMIN"} \subseteq Roles
  /\ Keep \notin Roles \cup Statuses
  /\ Patches \subseteq [role : Roles \cup {Keep}, status : Statuses \cup {Keep}]
  /\ IsFiniteSet(Requests) /\ IsFiniteSet(Invitations)

VARIABLES
  member,      \* rows of company_members
  invitation,  \* rows of invitations
  request      \* the progress of each request

vars == <<member, invitation, request>>

---------------------------------------------------------------------------
(* Types *)

Absent == [role |-> "none", status |-> "none"]
Row    == [role : Roles, status : Statuses]

Invitation == [status : {"absent", "pending", "revoked"}, email : Emails]

Idle == [step |-> "idle"]

\* actorRow and targetRow are the session's copies; found is what the query
\* for active owners saw, owners what it returned, held the locked rows.
Change == [step : {"actor", "target", "owners", "actor locked"},
           actor : Members, actorRow : Row, target : Members, targetRow : Row,
           found : SUBSET Members, owners : SUBSET Members, held : SUBSET Members]

Inviting == [step : {"invite"}, email : Emails]
Revoking == [step : {"revoke"}, invitation : Invitations]

TypeOK ==
  /\ member \in [Members -> Row \cup {Absent}]
  /\ invitation \in [Invitations -> Invitation]
  /\ request \in [Requests -> {Idle} \cup Change \cup Inviting \cup Revoking]

---------------------------------------------------------------------------
(* Members and locks *)

IsAdministrator(row) == row.status = "active" /\ row.role \in {"OWNER", "ADMIN"}
IsActiveOwner(row)   == row.status = "active" /\ row.role = "OWNER"

ActiveOwners == {m \in Members : IsActiveOwner(member[m])}

ChangeSteps == {"actor", "target", "owners", "actor locked"}

Holds(q, m) == request[q].step \in ChangeSteps /\ m \in request[q].held

\* Mutant: the members are read without FOR UPDATE.
NeverHeld(p, m) == p \in Requests /\ m \in Members

Lockable(p, m) == \A q \in Requests \ {p} : ~Holds(q, m)

Unlocked(p) == request[p].found \ request[p].held

---------------------------------------------------------------------------
(* PATCH and DELETE /companies/{company_id}/members/{member_id} *)

\* get_current_company_membership and require_company_administrator
ReadActor(p, a) ==
  /\ request[p] = Idle
  /\ IsAdministrator(member[a])
  /\ request' = [request EXCEPT ![p] =
                   [step |-> "actor", actor |-> a, actorRow |-> member[a],
                    target |-> a, targetRow |-> member[a],
                    found |-> {}, owners |-> {}, held |-> {}]]
  /\ UNCHANGED <<member, invitation>>

\* A request about its own actor finds the copy it has.
ReadTarget(p, t) ==
  /\ request[p].step = "actor"
  /\ member[t] # Absent
  /\ request' = [request EXCEPT
                   ![p].step = "target", ![p].target = t,
                   ![p].targetRow = IF t = request[p].actor THEN request[p].actorRow ELSE member[t]]
  /\ UNCHANGED <<member, invitation>>

\* lock_active_owners: the rows its snapshot shows ...
FindOwners(p) ==
  /\ request[p].step = "target"
  /\ request' = [request EXCEPT ![p].step = "owners", ![p].found = ActiveOwners]
  /\ UNCHANGED <<member, invitation>>

\* Mutant: the query has no ORDER BY.
LockAnyOwner(p, m) ==
  /\ request[p].step = "owners"
  /\ m \in Unlocked(p)
  /\ Lockable(p, m)
  /\ request' = [request EXCEPT
                   ![p].held = @ \cup {m},
                   ![p].owners = IF IsActiveOwner(member[m]) THEN @ \cup {m} ELSE @]
  /\ UNCHANGED <<member, invitation>>

\* ... are locked one by one; one that is no active owner any more is not returned.
LockOwner(p, m) ==
  /\ request[p].step = "owners"
  /\ m \in Unlocked(p)
  /\ \A n \in Unlocked(p) : m <= n
  /\ Lockable(p, m)
  /\ request' = [request EXCEPT
                   ![p].held = @ \cup {m},
                   ![p].owners = IF IsActiveOwner(member[m]) THEN @ \cup {m} ELSE @]
  /\ UNCHANGED <<member, invitation>>

\* scalar_one raises when the actor was removed: see Fail.
LockActor(p) ==
  LET a == request[p].actor IN
  /\ request[p].step = "owners"
  /\ Unlocked(p) = {}
  /\ Lockable(p, a)
  /\ member[a] # Absent
  /\ request' = [request EXCEPT ![p].step = "actor locked", ![p].held = @ \cup {a}]
  /\ UNCHANGED <<member, invitation>>

\* authorize_member_update and authorize_member_removal with all rows locked.
Authorized(p, touchesOwner, removesOwner) ==
  /\ IsAdministrator(request[p].actorRow)
  /\ touchesOwner => request[p].actorRow.role = "OWNER"
  /\ removesOwner => Cardinality(request[p].owners) > 1

Set(old, new) == IF new = Keep THEN old ELSE new

\* Mutant: fields that the body leaves out are written as they are.
PatchedBlindly(row, copy, patch) ==
  [role |-> patch.role, status |-> patch.status]

\* The UPDATE contains the columns whose new value differs from the copy's.
Patched(row, copy, patch) ==
  [role   |-> IF Set(copy.role, patch.role) = copy.role THEN row.role ELSE patch.role,
   status |-> IF Set(copy.status, patch.status) = copy.status THEN row.status ELSE patch.status]

Ready(p) ==
  /\ request[p].step = "actor locked"
  /\ Lockable(p, request[p].target)
  /\ member[request[p].target] # Absent

\* What the request asks for matters only now.
UpdateMember(p, patch) ==
  LET t == request[p].target  copy == request[p].targetRow IN
  /\ Ready(p)
  /\ Authorized(p, copy.role = "OWNER" \/ patch.role = "OWNER",
                   IsActiveOwner(copy) /\ ( \/ patch.role \notin {Keep, "OWNER"}
                                            \/ patch.status = "disabled" ))
  /\ member' = [member EXCEPT ![t] = Patched(@, copy, patch)]
  /\ request' = [request EXCEPT ![p] = Idle]
  /\ UNCHANGED invitation

RemoveMember(p) ==
  LET t == request[p].target  copy == request[p].targetRow IN
  /\ Ready(p)
  /\ Authorized(p, copy.role = "OWNER", IsActiveOwner(copy))
  /\ member' = [member EXCEPT ![t] = Absent]
  /\ request' = [request EXCEPT ![p] = Idle]
  /\ UNCHANGED invitation

---------------------------------------------------------------------------
(* Invitations *)

Pending(e) == {i \in Invitations : invitation[i].status = "pending" /\ invitation[i].email = e}

\* Mutant: nobody looks for a pending invitation.
FindAny(p, a, e) ==
  /\ request[p] = Idle
  /\ IsAdministrator(member[a])
  /\ request' = [request EXCEPT ![p] = [step |-> "invite", email |-> e]]
  /\ UNCHANGED <<member, invitation>>

\* invite_member looks for a pending invitation of the address.  One is a
\* conflict, two make scalar_one_or_none raise; expired ones are still pending.
FindInvitation(p, a, e) ==
  /\ request[p] = Idle
  /\ IsAdministrator(member[a])
  /\ Pending(e) = {}
  /\ request' = [request EXCEPT ![p] = [step |-> "invite", email |-> e]]
  /\ UNCHANGED <<member, invitation>>

\* No constraint of the table is concerned: the INSERT succeeds.
CommitInvitation(p, i) ==
  /\ request[p].step = "invite"
  /\ invitation[i].status = "absent"
  /\ invitation' = [invitation EXCEPT ![i] = [status |-> "pending", email |-> request[p].email]]
  /\ request' = [request EXCEPT ![p] = Idle]
  /\ UNCHANGED member

\* revoke_invitation
ReadInvitation(p, a, i) ==
  /\ request[p] = Idle
  /\ IsAdministrator(member[a])
  /\ invitation[i].status = "pending"
  /\ request' = [request EXCEPT ![p] = [step |-> "revoke", invitation |-> i]]
  /\ UNCHANGED <<member, invitation>>

CommitRevocation(p) ==
  /\ request[p].step = "revoke"
  /\ invitation' = [invitation EXCEPT ![request[p].invitation].status = "revoked"]
  /\ request' = [request EXCEPT ![p] = Idle]
  /\ UNCHANGED member

---------------------------------------------------------------------------
(* The specification *)

\* A request fails, as every refused one does, and one that PostgreSQL chooses
\* to break a deadlock: nothing is written and the locks are released.
Fail(p) ==
  /\ request[p] # Idle
  /\ request' = [request EXCEPT ![p] = Idle]
  /\ UNCHANGED <<member, invitation>>

\* create_company inserts the founder as owner.  No operation inserts another
\* member: the rows of the others come with the installation.
Init ==
  /\ member \in [Members -> Row \cup {Absent}]
  /\ member[Founder] = [role |-> "OWNER", status |-> "active"]
  /\ \A m \in Members \ {Founder} :
       member[m] \in {Absent} \cup [role : Roles \ {"OWNER"}, status : {"active"}]
  /\ invitation \in [Invitations -> [status : {"absent"}, email : Emails]]
  /\ request = [p \in Requests |-> Idle]

ChangeMember(p) ==
  \/ \E m \in Members : ReadActor(p, m) \/ ReadTarget(p, m) \/ LockOwner(p, m)
  \/ FindOwners(p) \/ LockActor(p)
  \/ \E patch \in Patches : UpdateMember(p, patch)
  \/ RemoveMember(p)

Invite(p) ==
  \/ \E a \in Members, e \in Emails : FindInvitation(p, a, e)
  \/ \E i \in Invitations : CommitInvitation(p, i)
  \/ \E a \in Members, i \in Invitations : ReadInvitation(p, a, i)
  \/ CommitRevocation(p)

Next == \E p \in Requests : ChangeMember(p) \/ Invite(p) \/ Fail(p)

Spec == Init /\ [][Next]_vars

---------------------------------------------------------------------------
(* Properties *)

\* "The last active owner can never be removed": a company always has one.
OwnerRemains == ActiveOwners # {}

\* The request decides on a copy of the target that is not the row any more.
Outdated(p) == request[p].targetRow # member[request[p].target]

LossExplained == \E p \in Requests :
  /\ request[p].step = "actor locked"
  /\ request'[p] = Idle
  /\ Outdated(p) \/ member'[request[p].target].status = "invited"

\* However requests interleave, the last active owner is lost only by a request
\* whose copy of the target was outdated, or by the one change that the rule
\* forgets: status "invited".  The owners that were locked are still owners when
\* they are counted, and one of them stays.
OwnerLossExplained == [][OwnerRemains => OwnerRemains' \/ LossExplained]_vars

WaitsFor(p, q) == \E m \in Members :
  /\ Holds(q, m)
  /\ \/ request[p].step = "owners" /\ m \in Unlocked(p) /\ \A n \in Unlocked(p) : m <= n
     \/ request[p].step = "owners" /\ Unlocked(p) = {} /\ m = request[p].actor
     \/ request[p].step = "actor locked" /\ m = request[p].target
  /\ p # q

Deadlocked(S) == S # {} /\ \A p \in S : \E q \in S : WaitsFor(p, q)

\* The owners, locked first and in one order, make the requests of a company
\* queue up: a deadlock takes requests that found different owners, or none.
DeadlockNeedsOwnerChange == \A S \in SUBSET Requests : Deadlocked(S) =>
  \E p, q \in S : request[p].found # request[q].found \/ request[p].found = {}

InvitersOf(e) == {p \in Requests : request[p].step = "invite" /\ request[p].email = e}

\* Nothing but the search keeps an address from being invited twice.  Requests
\* that search at the same time may all insert, and no more than they.
InvitationsBounded == \A e \in Emails :
  Cardinality(Pending(e)) + Cardinality(InvitersOf(e)) <= Cardinality(Requests)
=============================================================================
