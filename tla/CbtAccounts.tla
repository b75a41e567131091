----------------------------- MODULE CbtAccounts -----------------------------
(***************************************************************************)
(* CBT centers, their staff and whom a job earns: registration, approval   *)
(* and categories of a center (auth.service.ts, users.service.ts), its     *)
(* staff accounts (cbt.service.ts), the tenant's hand on accounts          *)
(* (tenant.service.ts), the categories (services.service.ts), and the job  *)
(* handlers as far as they look at all of these (orders.service.ts,        *)
(* orders-release-queue.service.ts).  Every handler reads, checks, and     *)
(* writes later by id; what else happens to a deleted row's referrers is   *)
(* in the foreign keys.                                                    *)
(***************************************************************************)
CONSTANTS
    Centers, Staff, \* accounts, by the kind they are created as
    Orders,         \* each for a service of its own
    Categories,
    Nobody,
    Calls           \* handlers in flight at a time

ASSUME AccountAssumption == Centers \cap Staff = {} /\ Nobody \notin Centers \cup Staff

VARIABLES
    account,  \* User rows: the role, or that there is none (yet, any more)
    employer, \* CbtStaffMembership rows: the center of a member of staff
    profile,  \* CbtProfile rows: approvalStatus and supported categories
    catalogue,\* service categories
    category, \* of the service an order is for
    order,    \* Order rows: status, assignedCbtId, who was paid
    call,     \* handlers in flight
    parted,   \* history: jobs that a dismissal, a deletion or a change of
              \* role took from whom they earn for, see Parts and Joins
    stripped  \* history: centers whose last category was deleted since
              \* they were assigned categories

people == <<account, employer, profile>>
shop == <<catalogue, category>>
history == <<parted, stripped>>
vars == <<people, shop, order, call, history>>

-----------------------------------------------------------------------------
People == Centers \cup Staff
Roles == {"INDIVIDUAL", "CBT_CENTER", "CBT_STAFF"}
Profiles ==
    [status : {"NONE", "PENDING", "APPROVED", "REJECTED"}, categories : SUBSET Categories]
NoProfile == [status |-> "NONE", categories |-> {}]
NewProfile == [status |-> "PENDING", categories |-> {}]

(* earner is whose wallet the release credited, for (history) the center   *)
(* whose approval the delivery was accepted under.                         *)
OrderRows ==
    [status : {"PENDING", "ASSIGNED", "IN_PROGRESS", "COMPLETED"},
     cbt : People \cup {Nobody}, earner : People \cup {Nobody}, for : People \cup {Nobody}]
NewOrder == [status |-> "PENDING", cbt |-> Nobody, earner |-> Nobody, for |-> Nobody]

Idle == [kind |-> "none"]
CallRecords ==
    {Idle}
    \cup [kind : {"approve", "reject"}, cbt : Centers]
    \cup [kind : {"categories"}, cbt : Centers, chosen : SUBSET Categories]
    \cup [kind : {"hire"}, cbt : Centers, staff : Staff]
    \cup [kind : {"dismiss", "remove"}, user : People]
    \cup [kind : {"role"}, user : People, next : Roles]
    \cup [kind : {"drop"}, category : Categories]
    \cup [kind : {"claim", "start", "complete", "reassign"},
          user : People, order : Orders, center : People]

Init ==
    /\ account = [u \in People |-> "NONE"]
    /\ employer = [u \in People |-> Nobody]
    /\ profile = [u \in People |-> NoProfile]
    /\ catalogue = Categories
    /\ category \in [Orders -> Categories]
    /\ order = [o \in Orders |-> NewOrder]
    /\ call = [c \in Calls |-> Idle]
    /\ parted = {} /\ stripped = {}

-----------------------------------------------------------------------------
(* A handler has read and checked; it writes, or throws.                   *)

Begins(c, record) ==
    /\ call[c] = Idle
    /\ call' = [call EXCEPT ![c] = record]
    /\ UNCHANGED <<people, shop, order, history>>

Does(c, kind) == call[c].kind = kind
Ends(c) == call' = [call EXCEPT ![c] = Idle]

Throws(c) == call[c] # Idle /\ Ends(c) /\ UNCHANGED <<people, shop, order, history>>

-----------------------------------------------------------------------------
(* What the handlers look at                                               *)

Exists(u) == account[u] \in Roles

(* ensureApprovedCbtUser: staff work under the profile of their center.    *)
CenterOf(u) == IF account[u] = "CBT_STAFF" THEN employer[u] ELSE u
EnsureApproved(u) == CenterOf(u) # Nobody /\ profile[CenterOf(u)].status = "APPROVED"

(* A center without categories may take every job.                         *)
Supports(u, o) ==
    LET own == profile[CenterOf(u)].categories IN own = {} \/ category[o] \in own

ActiveStatuses_Started == {"IN_PROGRESS"}
ActiveStatuses == {"ASSIGNED", "IN_PROGRESS"}

Unpaid(o) == order[o].status = "COMPLETED" /\ order[o].earner = Nobody

(* Ledger rows keep their user (ON DELETE RESTRICT).                       *)
Booked(u) == \E o \in Orders : order[o].earner = u

-----------------------------------------------------------------------------
(* Centers.  registerCbt writes user and profile one after the other.      *)

RegisterCbt(u) ==
    /\ u \in Centers /\ account[u] = "NONE"
    /\ account' = [account EXCEPT ![u] = "CBT_CENTER"]
    /\ \E saved \in {NewProfile, NoProfile} : profile' = [profile EXCEPT ![u] = saved]
    /\ UNCHANGED <<employer, shop, order, call, history>>

IsCenter(u) == u \in Centers /\ account[u] = "CBT_CENTER" /\ profile[u].status # "NONE"

BeginApprove(c, u) ==
    /\ IsCenter(u)
    /\ profile[u].categories # {} /\ profile[u].status # "APPROVED"
    /\ Begins(c, [kind |-> "approve", cbt |-> u])

CommitApprove(c) ==
    /\ Does(c, "approve")
    /\ LET u == call[c].cbt IN
         /\ profile[u].status # "NONE"
         /\ profile' = [profile EXCEPT ![u].status = "APPROVED"]
    /\ Ends(c)
    /\ UNCHANGED <<account, employer, shop, order, history>>

BeginReject(c, u) ==
    /\ IsCenter(u)
    /\ profile[u].status # "REJECTED"
    /\ Begins(c, [kind |-> "reject", cbt |-> u])

CommitReject(c) ==
    /\ Does(c, "reject")
    /\ LET u == call[c].cbt IN
         /\ profile[u].status # "NONE"
         /\ profile' = [profile EXCEPT ![u].status = "REJECTED"]
    /\ Ends(c)
    /\ UNCHANGED <<account, employer, shop, order, history>>

(* Those with a service in them can be assigned.                           *)
Assignable == {category[o] : o \in Orders} \cap catalogue
Assigned_Any(chosen) == chosen \subseteq Assignable
Assigned(chosen) == chosen # {} /\ chosen \subseteq Assignable

BeginCategories(c, u, chosen) ==
    /\ IsCenter(u)
    /\ Assigned(chosen)
    /\ Begins(c, [kind |-> "categories", cbt |-> u, chosen |-> chosen])

CommitCategories(c) ==
    /\ Does(c, "categories")
    /\ LET u == call[c].cbt IN
         /\ profile[u].status # "NONE" /\ call[c].chosen \subseteq catalogue
         /\ profile' = [profile EXCEPT ![u].categories = call[c].chosen]
         /\ stripped' = stripped \ {u}
    /\ Ends(c)
    /\ UNCHANGED <<account, employer, shop, order, parted>>

-----------------------------------------------------------------------------
(* Staff, and the end of accounts                                          *)

BeginCreateStaff(c, u, s) ==
    /\ IsCenter(u) /\ profile[u].status = "APPROVED"
    /\ s \in Staff /\ account[s] = "NONE"
    /\ Begins(c, [kind |-> "hire", cbt |-> u, staff |-> s])

CommitCreateStaff(c) ==
    /\ Does(c, "hire")
    /\ LET s == call[c].staff IN
         /\ account[s] = "NONE" /\ Exists(call[c].cbt)
         /\ account' = [account EXCEPT ![s] = "CBT_STAFF"]
         /\ employer' = [employer EXCEPT ![s] = call[c].cbt]
    /\ Ends(c)
    /\ UNCHANGED <<profile, shop, order, history>>

(* user.delete with what the foreign keys do: memberships and profile go,  *)
(* orders lose their assignedCbtId.                                        *)
Remaining_Staff(u) == [p \in People |-> IF p = u THEN Nobody ELSE employer[p]]
Remaining(u) == [p \in People |-> IF u \in {p, employer[p]} THEN Nobody ELSE employer[p]]

(* Who leaves leaves delivered jobs unpaid, their own or their staff's,    *)
(* and completions in flight.                                              *)
Leaving == {"dismiss", "remove", "role"}
Left(u) ==
    {o \in Orders :
        \/ Unpaid(o) /\ order[o].cbt # Nobody /\ u \in {order[o].cbt, CenterOf(order[o].cbt)}
        \/ \E c \in Calls :
              /\ Does(c, "complete") /\ call[c].order = o
              /\ u \in {call[c].user, call[c].center}}
Parts(u) == parted' = parted \cup Left(u) /\ UNCHANGED stripped

DeletesUser(u) ==
    /\ Exists(u) /\ ~Booked(u)
    /\ account' = [account EXCEPT ![u] = "GONE"]
    /\ employer' = Remaining(u)
    /\ profile' = [profile EXCEPT ![u] = NoProfile]
    /\ order' = [o \in Orders |->
                   IF order[o].cbt = u THEN [order[o] EXCEPT !.cbt = Nobody] ELSE order[o]]

BeginDeleteStaff(c, s) ==
    /\ employer[s] # Nobody
    /\ \A o \in Orders : order[o].cbt = s => order[o].status \notin ActiveStatuses
    /\ Begins(c, [kind |-> "dismiss", user |-> s])

CommitDeleteStaff(c) ==
    /\ Does(c, "dismiss")
    /\ employer[call[c].user] # Nobody
    /\ DeletesUser(call[c].user)
    /\ Parts(call[c].user)
    /\ Ends(c)
    /\ UNCHANGED shop

(* deleteTenantUserForAdmin, deleteTenantUserForPlatformAdmin              *)
BeginDeleteUser(c, u) ==
    /\ Exists(u)
    /\ ~Booked(u) /\ \A o \in Orders : order[o].cbt # u
    /\ Begins(c, [kind |-> "remove", user |-> u])

CommitDeleteUser(c) ==
    /\ Does(c, "remove")
    /\ DeletesUser(call[c].user)
    /\ Parts(call[c].user)
    /\ Ends(c)
    /\ UNCHANGED shop

(* The membership of a member of staff stays whatever the role becomes.    *)
BeginUpdateRole(c, u, next) ==
    /\ Exists(u) /\ account[u] # next
    /\ next = "CBT_CENTER" => profile[u].status # "NONE"
    /\ Begins(c, [kind |-> "role", user |-> u, next |-> next])

CommitUpdateRole(c) ==
    /\ Does(c, "role")
    /\ Exists(call[c].user)
    /\ account' = [account EXCEPT ![call[c].user] = call[c].next]
    /\ Parts(call[c].user)
    /\ Ends(c)
    /\ UNCHANGED <<employer, profile, shop, order>>

-----------------------------------------------------------------------------
(* Categories.  A category with services in it cannot be deleted; one      *)
(* without is, and its assignments to centers with it.                     *)

UpdateService(o, k) ==
    /\ k \in catalogue
    /\ category' = [category EXCEPT ![o] = k]
    /\ UNCHANGED <<people, catalogue, order, call, history>>

BeginDeleteCategory(c, k) ==
    /\ k \in catalogue /\ \A o \in Orders : category[o] # k
    /\ Begins(c, [kind |-> "drop", category |-> k])

CommitDeleteCategory(c) ==
    /\ Does(c, "drop")
    /\ LET k == call[c].category IN
         /\ k \in catalogue /\ \A o \in Orders : category[o] # k
         /\ catalogue' = catalogue \ {k}
         /\ profile' = [u \in People |-> [profile[u] EXCEPT !.categories = @ \ {k}]]
         /\ stripped' = stripped \cup {u \in People : profile[u].categories = {k}}
    /\ Ends(c)
    /\ UNCHANGED <<account, employer, category, order, parted>>

-----------------------------------------------------------------------------
(* Jobs                                                                    *)

Takes(c, kind, u, o) ==
    /\ EnsureApproved(u)
    /\ Begins(c, [kind |-> kind, user |-> u, order |-> o, center |-> CenterOf(u)])

BeginClaim(c, u, o) == Takes(c, "claim", u, o) /\ Supports(u, o)
BeginStart(c, u, o) == Takes(c, "start", u, o)

BeginComplete(c, u, o) ==
    /\ order[o].cbt = u /\ order[o].status \in ActiveStatuses
    /\ Takes(c, "complete", u, o)

BeginReassign(c, u, o) ==
    /\ order[o].status # "COMPLETED" /\ order[o].cbt # u
    /\ Takes(c, "reassign", u, o) /\ Supports(u, o)

Writes(c, change) ==
    /\ order' = [order EXCEPT ![call[c].order] = change]
    /\ Ends(c)
    /\ UNCHANGED <<people, shop, stripped>>

(* A job taken while its taker is being dismissed, deleted or given        *)
(* another role: the checks of that were made before.                      *)
Joins(c) ==
    parted' = parted \cup
        {o \in {call[c].order} :
            \E d \in Calls : call[d].kind \in Leaving /\ call[d].user = call[c].user}

CommitClaim(c) ==
    /\ Does(c, "claim")
    /\ LET u == call[c].user row == order[call[c].order] IN
         /\ row.status = "PENDING" /\ row.cbt = Nobody /\ Exists(u)
         /\ Writes(c, [row EXCEPT !.status = "ASSIGNED", !.cbt = u])
    /\ Joins(c)

CommitStart(c) ==
    /\ Does(c, "start")
    /\ LET row == order[call[c].order] IN
         /\ row.cbt = call[c].user /\ row.status = "ASSIGNED"
         /\ Writes(c, [row EXCEPT !.status = "IN_PROGRESS"])
    /\ UNCHANGED parted

CommitComplete(c) ==
    /\ Does(c, "complete")
    /\ LET row == order[call[c].order] IN
         /\ row.cbt = call[c].user /\ row.status \in ActiveStatuses
         /\ Writes(c, [row EXCEPT !.status = "COMPLETED", !.for = call[c].center])
    /\ UNCHANGED parted

(* By id, whatever the order has become; the trigger refuses another's.    *)
CommitReassign(c) ==
    /\ Does(c, "reassign")
    /\ LET u == call[c].user row == order[call[c].order] IN
         /\ row.cbt \in {Nobody, u} /\ Exists(u)
         /\ Writes(c, [row EXCEPT !.status = "ASSIGNED", !.cbt = u])
    /\ Joins(c)

(* By its deadline or an admin.                                            *)
ReturnToPool(o) ==
    /\ order[o].status \in ActiveStatuses
    /\ order' = [order EXCEPT ![o].status = "PENDING", ![o].cbt = Nobody]
    /\ UNCHANGED <<people, shop, call, history>>

(* processReleaseEscrow: staff earn for the center they belong to then.    *)
Earner(u) == IF account[u] = "CBT_STAFF" /\ employer[u] # Nobody THEN employer[u] ELSE u

ReleaseEscrow(o) ==
    /\ Unpaid(o) /\ order[o].cbt # Nobody
    /\ order' = [order EXCEPT ![o].earner = Earner(order[o].cbt)]
    /\ UNCHANGED <<people, shop, call, history>>

-----------------------------------------------------------------------------
Commit(c) ==
    \/ CommitApprove(c) \/ CommitReject(c) \/ CommitCategories(c)
    \/ CommitCreateStaff(c) \/ CommitDeleteStaff(c)
    \/ CommitDeleteUser(c) \/ CommitUpdateRole(c) \/ CommitDeleteCategory(c)
    \/ CommitClaim(c) \/ CommitStart(c) \/ CommitComplete(c) \/ CommitReassign(c)

Next ==
    \/ \E u \in Centers : RegisterCbt(u)
    \/ \E c \in Calls :
         \/ Commit(c) \/ Throws(c)
         \/ \E u \in Centers :
              \/ BeginApprove(c, u) \/ BeginReject(c, u)
              \/ \E chosen \in SUBSET Categories : BeginCategories(c, u, chosen)
              \/ \E s \in Staff : BeginCreateStaff(c, u, s)
         \/ \E u \in People :
              \/ BeginDeleteStaff(c, u) \/ BeginDeleteUser(c, u)
              \/ \E next \in Roles : BeginUpdateRole(c, u, next)
              \/ \E o \in Orders :
                   \/ BeginClaim(c, u, o) \/ BeginStart(c, u, o)
                   \/ BeginComplete(c, u, o) \/ BeginReassign(c, u, o)
         \/ \E k \in Categories : BeginDeleteCategory(c, k)
    \/ \E o \in Orders :
         \/ ReturnToPool(o) \/ ReleaseEscrow(o)
         \/ \E k \in Categories : UpdateService(o, k)

Spec == Init /\ [][Next]_vars

-----------------------------------------------------------------------------
(* Rows, calls and history are well formed, and what the foreign keys hold: *)
(* every employer and assignee is an account that is there, every service  *)
(* has a category of the catalogue.                                        *)
RowsOK ==
    /\ account \in [People -> Roles \cup {"NONE", "GONE"}]
    /\ employer \in [People -> Centers \cup {Nobody}]
    /\ profile \in [People -> Profiles]
    /\ catalogue \subseteq Categories
    /\ category \in [Orders -> catalogue]
    /\ order \in [Orders -> OrderRows]
    /\ call \in [Calls -> CallRecords]
    /\ \A u \in People : employer[u] # Nobody => Exists(u) /\ Exists(employer[u])
    /\ \A o \in Orders : order[o].cbt # Nobody => Exists(order[o].cbt)

TypeOK == RowsOK /\ parted \subseteq Orders /\ stripped \subseteq People

(* A job in work has somebody who does it, a delivered one that waits for  *)
(* its release somebody through whom the release pays the center it was    *)
(* accepted from: staff come and go, centers are rejected and deleted,     *)
(* roles change and jobs are handed on, and the checks of those handlers   *)
(* keep every job but these: one that was delivered and unpaid, or whose   *)
(* completion was in flight, when whom it earns for left, and one that was *)
(* taken while its taker was leaving.                                      *)
EarnsForCenter ==
    \A o \in Orders \ parted :
        /\ order[o].status \in {"ASSIGNED", "IN_PROGRESS"} => order[o].cbt # Nobody
        /\ Unpaid(o) => order[o].cbt # Nobody /\ Earner(order[o].cbt) = order[o].for

(* An approved center has categories, so that none sees the whole pool for *)
(* want of them: through overlapping approvals, rejections, assignments    *)
(* and changes of account.  The one way to lose them is that the last one  *)
(* it has is deleted.                                                      *)
ApprovedHasCategories ==
    \A u \in People \ stripped :
        profile[u].status = "APPROVED" => profile[u].categories # {}

=============================================================================
