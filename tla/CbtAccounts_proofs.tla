------------------------ MODULE CbtAccounts_proofs -------------------------
(***************************************************************************)
(* Theorems about CbtAccounts, for any centers, staff, orders, categories  *)
(* and any number of handlers in flight.                                   *)
(***************************************************************************)
EXTENDS CbtAccounts, TLAPS

-----------------------------------------------------------------------------
(* Types.                                                                  *)

JobKinds == {"claim", "start", "complete", "reassign"}

LEMMA CallShape ==
  ASSUME NEW k \in CallRecords
  PROVE  /\ k.kind \in {"approve", "reject", "categories", "hire"} => k.cbt \in Centers
         /\ k.kind = "categories" => k.chosen \in SUBSET Categories
         /\ k.kind = "hire" => k.staff \in Staff
         /\ k.kind \in Leaving => k.user \in People
         /\ k.kind = "role" => k.next \in Roles
         /\ k.kind = "drop" => k.category \in Categories
         /\ k.kind \in JobKinds => k.user \in People /\ k.order \in Orders /\ k.center \in People
  BY DEF CallRecords, Idle, Leaving, JobKinds

LEMMA PeopleFacts ==
  /\ Centers \subseteq People /\ Staff \subseteq People /\ Nobody \notin People
  /\ \A u \in People : u \in Centers \/ u \in Staff
  /\ Centers \cap Staff = {}
  BY AccountAssumption DEF People

LEMMA RolesFacts ==
  /\ {"INDIVIDUAL", "CBT_CENTER", "CBT_STAFF"} = Roles
  /\ "NONE" \notin Roles /\ "GONE" \notin Roles
  BY DEF Roles

(* A handler begins with a record.                                         *)
LEMMA BeginsType ==
  ASSUME RowsOK, NEW c \in Calls, NEW k \in CallRecords, Begins(c, k)
  PROVE  RowsOK'
  <1>1. call' \in [Calls -> CallRecords]
    BY DEF RowsOK, Begins
  <1> QED
    BY <1>1 DEF RowsOK, Begins, people, shop, Exists

LEMMA EndsType ==
  ASSUME RowsOK, NEW c \in Calls, Ends(c)
  PROVE  call' \in [Calls -> CallRecords]
  <1>1. Idle \in CallRecords
    BY DEF CallRecords
  <1> QED
    BY <1>1 DEF RowsOK, Ends

(* What the handlers keep of what they read.                               *)
LEMMA CenterType ==
  ASSUME RowsOK, NEW u \in People, EnsureApproved(u)
  PROVE  CenterOf(u) \in People
  BY PeopleFacts DEF RowsOK, EnsureApproved, CenterOf

LEMMA RecordTypes ==
  /\ \A u \in Centers : \A kind \in {"approve", "reject"} :
        [kind |-> kind, cbt |-> u] \in CallRecords
  /\ \A u \in Centers : \A chosen \in SUBSET Categories :
        [kind |-> "categories", cbt |-> u, chosen |-> chosen] \in CallRecords
  /\ \A u \in Centers : \A s \in Staff :
        [kind |-> "hire", cbt |-> u, staff |-> s] \in CallRecords
  /\ \A u \in People : \A kind \in {"dismiss", "remove"} :
        [kind |-> kind, user |-> u] \in CallRecords
  /\ \A u \in People : \A next \in Roles :
        [kind |-> "role", user |-> u, next |-> next] \in CallRecords
  /\ \A k \in Categories : [kind |-> "drop", category |-> k] \in CallRecords
  /\ \A u, v \in People : \A o \in Orders : \A kind \in JobKinds :
        [kind |-> kind, user |-> u, order |-> o, center |-> v] \in CallRecords
  BY DEF CallRecords, JobKinds

(* The handlers' first halves.                                             *)
Starts(c) ==
  \/ \E u \in Centers :
       \/ BeginApprove(c, u) \/ BeginReject(c, u)
       \/ \E chosen \in SUBSET Categories : BeginCategories(c, u, chosen)
       \/ \E s \in Staff : BeginCreateStaff(c, u, s)
  \/ \E u \in People :
       \/ BeginDeleteStaff(c, u) \/ BeginDeleteUser(c, u)
       \/ \E next \in Roles : BeginUpdateRole(c, u, next)
       \/ \E o \in Orders :
            \/ BeginClaim(c, u, o) \/ BeginStart(c, u, o)
            \/ BeginComplete(c, u, o) \/ BeginReassign(c, u, o)
  \/ \E k \in Categories : BeginDeleteCategory(c, k)

(* ... and what each has checked.                                          *)
Checked(k) ==
  /\ k.kind = "approve" => IsCenter(k.cbt) /\ profile[k.cbt].categories # {}
  /\ k.kind = "categories" => k.chosen # {}
  /\ k.kind \in JobKinds => EnsureApproved(k.user) /\ k.center = CenterOf(k.user)
  /\ k.kind = "dismiss" =>
       \A o \in Orders : order[o].cbt = k.user => order[o].status \notin ActiveStatuses
  /\ k.kind = "remove" => \A o \in Orders : order[o].cbt # k.user

LEMMA StartsWith ==
  ASSUME RowsOK, NEW c \in Calls, Starts(c)
  PROVE  \E k \in CallRecords : Begins(c, k) /\ Checked(k)
  <1>k. /\ \A kind \in {"approve", "reject", "categories", "hire", "drop"} :
              kind \notin JobKinds /\ kind \notin Leaving
        /\ \A kind \in {"dismiss", "remove", "role"} : kind \notin JobKinds
        /\ \A kind \in JobKinds : kind \notin Leaving
              /\ kind \notin {"approve", "reject", "categories", "hire", "drop", "dismiss", "remove"}
    BY DEF JobKinds, Leaving
  <1>1. ASSUME NEW u \in Centers, BeginApprove(c, u)
        PROVE  \E k \in CallRecords : Begins(c, k) /\ Checked(k)
    <2> DEFINE k == [kind |-> "approve", cbt |-> u]
    <2>1. k \in CallRecords
      BY RecordTypes
    <2>2. Begins(c, k) /\ Checked(k)
      BY <1>1, <1>k DEF BeginApprove, Checked
    <2> QED
      BY <2>1, <2>2
  <1>2. ASSUME NEW u \in Centers, BeginReject(c, u)
        PROVE  \E k \in CallRecords : Begins(c, k) /\ Checked(k)
    <2> DEFINE k == [kind |-> "reject", cbt |-> u]
    <2>1. k \in CallRecords
      BY RecordTypes
    <2>2. Begins(c, k) /\ Checked(k)
      BY <1>2, <1>k DEF BeginReject, Checked
    <2> QED
      BY <2>1, <2>2
  <1>3. ASSUME NEW u \in Centers, NEW chosen \in SUBSET Categories, BeginCategories(c, u, chosen)
        PROVE  \E k \in CallRecords : Begins(c, k) /\ Checked(k)
    <2> DEFINE k == [kind |-> "categories", cbt |-> u, chosen |-> chosen]
    <2>1. k \in CallRecords
      BY RecordTypes
    <2>2. Begins(c, k) /\ Checked(k)
      BY <1>3, <1>k DEF BeginCategories, Assigned, Checked
    <2> QED
      BY <2>1, <2>2
  <1>4. ASSUME NEW u \in Centers, NEW s \in Staff, BeginCreateStaff(c, u, s)
        PROVE  \E k \in CallRecords : Begins(c, k) /\ Checked(k)
    <2> DEFINE k == [kind |-> "hire", cbt |-> u, staff |-> s]
    <2>1. k \in CallRecords
      BY RecordTypes
    <2>2. Begins(c, k) /\ Checked(k)
      BY <1>4, <1>k DEF BeginCreateStaff, Checked
    <2> QED
      BY <2>1, <2>2
  <1>5. ASSUME NEW u \in People, BeginDeleteStaff(c, u)
        PROVE  \E k \in CallRecords : Begins(c, k) /\ Checked(k)
    <2> DEFINE k == [kind |-> "dismiss", user |-> u]
    <2>1. k \in CallRecords
      BY RecordTypes
    <2>2. Begins(c, k) /\ Checked(k)
      BY <1>5, <1>k DEF BeginDeleteStaff, Checked
    <2> QED
      BY <2>1, <2>2
  <1>6. ASSUME NEW u \in People, BeginDeleteUser(c, u)
        PROVE  \E k \in CallRecords : Begins(c, k) /\ Checked(k)
    <2> DEFINE k == [kind |-> "remove", user |-> u]
    <2>1. k \in CallRecords
      BY RecordTypes
    <2>2. Begins(c, k) /\ Checked(k)
      BY <1>6, <1>k DEF BeginDeleteUser, Checked
    <2> QED
      BY <2>1, <2>2
  <1>7. ASSUME NEW u \in People, NEW next \in Roles, BeginUpdateRole(c, u, next)
        PROVE  \E k \in CallRecords : Begins(c, k) /\ Checked(k)
    <2> DEFINE k == [kind |-> "role", user |-> u, next |-> next]
    <2>1. k \in CallRecords
      BY RecordTypes
    <2>2. Begins(c, k) /\ Checked(k)
      BY <1>7, <1>k DEF BeginUpdateRole, Checked
    <2> QED
      BY <2>1, <2>2
  <1>8. ASSUME NEW kind \in JobKinds, NEW u \in People, NEW o \in Orders, Takes(c, kind, u, o)
        PROVE  \E k \in CallRecords : Begins(c, k) /\ Checked(k)
    <2> DEFINE k == [kind |-> kind, user |-> u, order |-> o, center |-> CenterOf(u)]
    <2>1. k \in CallRecords
      BY <1>8, RecordTypes, CenterType DEF Takes
    <2>2. Begins(c, k) /\ Checked(k)
      BY <1>8, <1>k DEF Takes, Checked
    <2> QED
      BY <2>1, <2>2
  <1>9. ASSUME NEW d \in Categories, BeginDeleteCategory(c, d)
        PROVE  \E k \in CallRecords : Begins(c, k) /\ Checked(k)
    <2> DEFINE k == [kind |-> "drop", category |-> d]
    <2>1. k \in CallRecords
      BY RecordTypes
    <2>2. Begins(c, k) /\ Checked(k)
      BY <1>9, <1>k DEF BeginDeleteCategory, Checked
    <2> QED
      BY <2>1, <2>2
  <1>10. ASSUME NEW u \in People, NEW o \in Orders,
                BeginClaim(c, u, o) \/ BeginStart(c, u, o)
                  \/ BeginComplete(c, u, o) \/ BeginReassign(c, u, o)
         PROVE  \E kind \in JobKinds : Takes(c, kind, u, o)
    BY <1>10 DEF BeginClaim, BeginStart, BeginComplete, BeginReassign, JobKinds
  <1> QED
    BY <1>1, <1>2, <1>3, <1>4, <1>5, <1>6, <1>7, <1>8, <1>9, <1>10 DEF Starts

(* A step that leaves accounts, orders and categories alone.               *)
LEMMA ProfileType ==
  ASSUME RowsOK, NEW c \in Calls, Ends(c), profile' \in [People -> Profiles],
         UNCHANGED <<account, employer, shop, order>>
  PROVE  RowsOK'
  BY EndsType DEF RowsOK, shop, Exists

(* A step that only writes the order of its handler.                       *)
LEMMA WritesType ==
  ASSUME RowsOK, NEW c \in Calls, NEW o \in Orders, o = call[c].order, NEW row \in OrderRows,
         Writes(c, row), row.cbt # Nobody => Exists(row.cbt)
  PROVE  RowsOK'
  <1>1. /\ call' \in [Calls -> CallRecords]
        /\ UNCHANGED <<people, shop>>
        /\ order' = [order EXCEPT ![o] = row]
    BY EndsType DEF Writes
  <1>2. order' \in [Orders -> OrderRows]
    BY <1>1 DEF RowsOK
  <1>3. ASSUME NEW p \in Orders, order'[p].cbt # Nobody
        PROVE  Exists(order[p].cbt)'
    BY <1>1, <1>3 DEF RowsOK, Exists, people
  <1> QED
    BY <1>1, <1>2, <1>3 DEF RowsOK, people, shop, Exists

LEMMA JobType ==
  ASSUME RowsOK, NEW c \in Calls,
         CommitClaim(c) \/ CommitStart(c) \/ CommitComplete(c) \/ CommitReassign(c)
  PROVE  RowsOK'
  <1> DEFINE o == call[c].order
             u == call[c].user
  <1>1. o \in Orders /\ u \in People /\ call[c].center \in People
    BY CallShape
       DEF RowsOK, JobKinds, Does, CommitClaim, CommitStart, CommitComplete, CommitReassign
  <1>2. order[o] \in OrderRows /\ u # Nobody
        /\ (order[o].cbt # Nobody => Exists(order[o].cbt))
    BY <1>1, PeopleFacts DEF RowsOK
  <1>3. CASE CommitClaim(c)
    <2>1. [order[o] EXCEPT !.status = "ASSIGNED", !.cbt = u] \in OrderRows
      BY <1>1, <1>2 DEF OrderRows
    <2> QED
      BY <1>1, <1>2, <1>3, <2>1, WritesType DEF CommitClaim, OrderRows
  <1>4. CASE CommitStart(c)
    <2>1. [order[o] EXCEPT !.status = "IN_PROGRESS"] \in OrderRows
      BY <1>1, <1>2 DEF OrderRows
    <2> QED
      BY <1>1, <1>2, <1>4, <2>1, WritesType DEF CommitStart, OrderRows
  <1>5. CASE CommitComplete(c)
    <2>1. [order[o] EXCEPT !.status = "COMPLETED", !.for = call[c].center] \in OrderRows
      BY <1>1, <1>2 DEF OrderRows
    <2> QED
      BY <1>1, <1>2, <1>5, <2>1, WritesType DEF CommitComplete, OrderRows
  <1>6. CASE CommitReassign(c)
    <2>1. [order[o] EXCEPT !.status = "ASSIGNED", !.cbt = u] \in OrderRows
      BY <1>1, <1>2 DEF OrderRows
    <2> QED
      BY <1>1, <1>2, <1>6, <2>1, WritesType DEF CommitReassign, OrderRows
  <1> QED
    BY <1>3, <1>4, <1>5, <1>6

LEMMA DeletesType ==
  ASSUME RowsOK, NEW c \in Calls, NEW u \in People, Ends(c), DeletesUser(u), UNCHANGED shop
  PROVE  RowsOK'
  <1>1. /\ account' \in [People -> Roles \cup {"NONE", "GONE"}]
        /\ profile' \in [People -> Profiles]
        /\ employer' \in [People -> Centers \cup {Nobody}]
    BY DEF RowsOK, DeletesUser, Remaining, NoProfile, Profiles
  <1>2. \A o \in Orders :
           order'[o] = IF order[o].cbt = u THEN [order[o] EXCEPT !.cbt = Nobody] ELSE order[o]
    BY DEF DeletesUser
  <1>3. order' \in [Orders -> OrderRows]
    <2>1. \A o \in Orders : [order[o] EXCEPT !.cbt = Nobody] \in OrderRows
      BY DEF RowsOK, OrderRows
    <2> QED
      BY <2>1 DEF RowsOK, DeletesUser
  <1>4. \A v \in People : v # u => account'[v] = account[v]
    BY DEF RowsOK, DeletesUser
  <1>5. ASSUME NEW v \in People, employer'[v] # Nobody
        PROVE  Exists(v)' /\ Exists(employer[v])'
    <2>1. v # u /\ employer[v] # u /\ employer'[v] = employer[v]
      BY <1>5 DEF DeletesUser, Remaining
    <2> QED
      BY <1>4, <1>5, <2>1, PeopleFacts DEF RowsOK, Exists
  <1>6. ASSUME NEW o \in Orders, order'[o].cbt # Nobody
        PROVE  Exists(order[o].cbt)'
    <2>1. order[o].cbt # u /\ order'[o] = order[o]
      BY <1>2, <1>6 DEF RowsOK, OrderRows
    <2>2. order[o].cbt \in People
      BY <1>6, <2>1 DEF RowsOK, OrderRows
    <2> QED
      BY <1>4, <1>6, <2>1, <2>2 DEF RowsOK, Exists
  <1> QED
    BY <1>1, <1>3, <1>5, <1>6, EndsType DEF RowsOK, shop

LEMMA CommitType ==
  ASSUME RowsOK, NEW c \in Calls, Commit(c)
  PROVE  RowsOK'
  <1> USE DEF Does
  <1>s. call[c] \in CallRecords
    BY DEF RowsOK
  <1>1. CASE CommitApprove(c) \/ CommitReject(c) \/ CommitCategories(c)
    <2>1. profile' \in [People -> Profiles]
      BY <1>s, <1>1, CallShape, PeopleFacts
         DEF RowsOK, Profiles, CommitApprove, CommitReject, CommitCategories
    <2> QED
      BY <1>1, <2>1, ProfileType DEF CommitApprove, CommitReject, CommitCategories
  <1>2. CASE CommitCreateStaff(c)
    <2> DEFINE s == call[c].staff
               u == call[c].cbt
    <2>1. s \in People /\ u \in Centers /\ u \in People /\ s # u
      BY <1>s, <1>2, CallShape, PeopleFacts DEF CommitCreateStaff
    <2>2. /\ account' = [account EXCEPT ![s] = "CBT_STAFF"]
          /\ employer' = [employer EXCEPT ![s] = u]
          /\ account[s] = "NONE" /\ Exists(u) /\ Ends(c)
          /\ UNCHANGED <<profile, shop, order>>
      BY <1>2 DEF CommitCreateStaff
    <2>3. "CBT_STAFF" \in Roles
      BY RolesFacts
    <2>4. /\ account' \in [People -> Roles \cup {"NONE", "GONE"}]
          /\ employer' \in [People -> Centers \cup {Nobody}]
      BY <2>1, <2>2, <2>3 DEF RowsOK
    <2>5. \A v \in People : Exists(v) => Exists(v)'
      BY <2>1, <2>2, <2>3 DEF RowsOK, Exists
    <2>6. ASSUME NEW v \in People, employer'[v] # Nobody
          PROVE  Exists(v)' /\ Exists(employer[v])'
      <3>1. CASE v = s
        <4>1. employer'[v] = u /\ Exists(v)'
          BY <2>1, <2>2, <2>3, <3>1 DEF RowsOK, Exists
        <4> QED
          BY <2>1, <2>2, <2>5, <4>1
      <3>2. CASE v # s
        <4>1. employer'[v] = employer[v] /\ Exists(v) /\ Exists(employer[v])
              /\ employer[v] \in People
          BY <2>1, <2>2, <2>6, <3>2, PeopleFacts DEF RowsOK
        <4>2. Exists(v)' /\ (\E w \in People : w = employer[v] /\ Exists(w)')
          BY <2>5, <4>1
        <4> QED
          BY <4>1, <4>2 DEF Exists
      <3> QED
        BY <3>1, <3>2
    <2>7. ASSUME NEW o \in Orders, order'[o].cbt # Nobody
          PROVE  Exists(order[o].cbt)'
      <3>1. order'[o] = order[o] /\ order[o].cbt \in People /\ Exists(order[o].cbt)
        BY <2>2, <2>7 DEF RowsOK, OrderRows
      <3> QED
        BY <2>1, <2>2, <2>3, <3>1 DEF RowsOK, Exists
    <2> QED
      BY <2>2, <2>4, <2>6, <2>7, EndsType DEF RowsOK, shop
  <1>3. CASE CommitDeleteStaff(c) \/ CommitDeleteUser(c)
    <2>1. call[c].user \in People
      BY <1>s, <1>3, CallShape DEF CommitDeleteStaff, CommitDeleteUser, Leaving
    <2> QED
      BY <1>3, <2>1, DeletesType DEF CommitDeleteStaff, CommitDeleteUser
  <1>4. CASE CommitUpdateRole(c)
    <2> DEFINE u == call[c].user
               next == call[c].next
    <2>1. u \in People /\ next \in Roles
      BY <1>s, <1>4, CallShape DEF CommitUpdateRole, Leaving
    <2>2. /\ account' = [account EXCEPT ![u] = next] /\ Exists(u) /\ Ends(c)
          /\ UNCHANGED <<employer, profile, shop, order>>
      BY <1>4 DEF CommitUpdateRole
    <2>3. account' \in [People -> Roles \cup {"NONE", "GONE"}]
      BY <2>1, <2>2 DEF RowsOK
    <2>4. \A v \in People : Exists(v) => Exists(v)'
      BY <2>1, <2>2 DEF RowsOK, Exists
    <2>5. \A v \in People : employer'[v] # Nobody => Exists(v)' /\ Exists(employer[v])'
      <3> SUFFICES ASSUME NEW v \in People, employer'[v] # Nobody
                   PROVE  Exists(v)' /\ Exists(employer[v])'
        OBVIOUS
      <3>1. employer'[v] = employer[v] /\ Exists(v) /\ Exists(employer[v])
            /\ employer[v] \in People
        BY <2>2, PeopleFacts DEF RowsOK
      <3> QED
        BY <2>1, <2>2, <3>1 DEF RowsOK, Exists
    <2>6. \A o \in Orders : order'[o].cbt # Nobody => Exists(order[o].cbt)'
      <3> SUFFICES ASSUME NEW o \in Orders, order'[o].cbt # Nobody
                   PROVE  Exists(order[o].cbt)'
        OBVIOUS
      <3>1. order'[o] = order[o] /\ order[o].cbt \in People /\ Exists(order[o].cbt)
        BY <2>2 DEF RowsOK, OrderRows
      <3> QED
        BY <2>1, <2>2, <3>1 DEF RowsOK, Exists
    <2> QED
      BY <2>2, <2>3, <2>5, <2>6, EndsType DEF RowsOK, shop
  <1>5. CASE CommitDeleteCategory(c)
    <2> DEFINE k == call[c].category
    <2>1. /\ catalogue' = catalogue \ {k}
          /\ \A o \in Orders : category[o] # k
          /\ profile' = [u \in People |-> [profile[u] EXCEPT !.categories = @ \ {k}]]
          /\ Ends(c) /\ UNCHANGED <<account, employer, category, order>>
      BY <1>5 DEF CommitDeleteCategory
    <2>2. category' \in [Orders -> catalogue']
      <3>1. \A o \in Orders : category[o] \in catalogue \ {k}
        BY <2>1 DEF RowsOK
      <3> QED
        BY <2>1, <3>1 DEF RowsOK
    <2>3. \A u \in People : [profile[u] EXCEPT !.categories = @ \ {k}] \in Profiles
      BY DEF RowsOK, Profiles
    <2>4. profile' \in [People -> Profiles] /\ catalogue' \subseteq Categories
      BY <2>1, <2>3 DEF RowsOK
    <2> QED
      BY <2>1, <2>2, <2>4, EndsType DEF RowsOK, Exists
  <1>6. CASE CommitClaim(c) \/ CommitStart(c) \/ CommitComplete(c) \/ CommitReassign(c)
    BY <1>6, JobType
  <1> QED
    BY <1>1, <1>2, <1>3, <1>4, <1>5, <1>6 DEF Commit

(* Steps that are one statement.                                           *)
LEMMA SingleType ==
  ASSUME RowsOK,
         \/ \E u \in Centers : RegisterCbt(u)
         \/ \E o \in Orders :
              \/ ReturnToPool(o) \/ ReleaseEscrow(o)
              \/ \E k \in Categories : UpdateService(o, k)
  PROVE  RowsOK'
  <1>1. ASSUME NEW u \in Centers, RegisterCbt(u)
        PROVE  RowsOK'
    <2>1. "CBT_CENTER" \in Roles /\ u \in People
      BY RolesFacts, PeopleFacts
    <2>2. /\ account' = [account EXCEPT ![u] = "CBT_CENTER"]
          /\ UNCHANGED <<employer, shop, order, call>>
      BY <1>1 DEF RegisterCbt
    <2>3. /\ account' \in [People -> Roles \cup {"NONE", "GONE"}]
          /\ profile' \in [People -> Profiles]
      <3>1. NewProfile \in Profiles /\ NoProfile \in Profiles
        BY DEF NewProfile, NoProfile, Profiles
      <3> QED
        BY <1>1, <2>1, <3>1 DEF RowsOK, RegisterCbt
    <2>4. \A v \in People : employer'[v] # Nobody => Exists(v)' /\ Exists(employer[v])'
      <3> SUFFICES ASSUME NEW v \in People, employer'[v] # Nobody
                   PROVE  Exists(v)' /\ Exists(employer[v])'
        OBVIOUS
      <3>1. employer'[v] = employer[v] /\ Exists(v) /\ Exists(employer[v])
            /\ employer[v] \in People
        BY <2>2, PeopleFacts DEF RowsOK
      <3> QED
        BY <2>1, <2>2, <3>1 DEF RowsOK, Exists
    <2>5. \A o \in Orders : order'[o].cbt # Nobody => Exists(order[o].cbt)'
      <3> SUFFICES ASSUME NEW o \in Orders, order'[o].cbt # Nobody
                   PROVE  Exists(order[o].cbt)'
        OBVIOUS
      <3>1. order'[o] = order[o] /\ order[o].cbt \in People /\ Exists(order[o].cbt)
        BY <2>2 DEF RowsOK, OrderRows
      <3> QED
        BY <2>1, <2>2, <3>1 DEF RowsOK, Exists
    <2> QED
      BY <2>2, <2>3, <2>4, <2>5 DEF RowsOK, shop
  <1>2. ASSUME NEW o \in Orders, NEW row \in OrderRows, order' = [order EXCEPT ![o] = row],
               row.cbt # Nobody => row.cbt = order[o].cbt,
               UNCHANGED <<people, shop, call>>
        PROVE  RowsOK'
    <2>1. order' \in [Orders -> OrderRows]
      BY <1>2 DEF RowsOK
    <2>2. \A p \in Orders : order'[p].cbt # Nobody => Exists(order[p].cbt)'
      BY <1>2 DEF RowsOK, Exists, people
    <2> QED
      BY <1>2, <2>1, <2>2 DEF RowsOK, Exists, people, shop
  <1>3. ASSUME NEW o \in Orders, ReturnToPool(o)
        PROVE  RowsOK'
    <2> DEFINE row == [order[o] EXCEPT !.status = "PENDING", !.cbt = Nobody]
    <2>1. row \in OrderRows /\ row.cbt = Nobody
      BY DEF RowsOK, OrderRows
    <2>2. order' = [order EXCEPT ![o] = row] /\ UNCHANGED <<people, shop, call>>
      BY <1>3 DEF ReturnToPool, RowsOK
    <2> HIDE DEF row
    <2> QED
      BY <1>2, <2>1, <2>2
  <1>4. ASSUME NEW o \in Orders, ReleaseEscrow(o)
        PROVE  RowsOK'
    <2> DEFINE row == [order[o] EXCEPT !.earner = Earner(order[o].cbt)]
    <2>1. order[o].cbt \in People /\ order[o] \in OrderRows
      BY <1>4 DEF ReleaseEscrow, RowsOK, OrderRows
    <2>2. Earner(order[o].cbt) \in People
      BY <2>1, PeopleFacts DEF Earner, RowsOK
    <2>3. row \in OrderRows /\ row.cbt = order[o].cbt
      BY <2>1, <2>2 DEF OrderRows
    <2>4. order' = [order EXCEPT ![o] = row] /\ UNCHANGED <<people, shop, call>>
      BY <1>4 DEF ReleaseEscrow
    <2> HIDE DEF row
    <2> QED
      BY <1>2, <2>3, <2>4
  <1>5. ASSUME NEW o \in Orders, NEW k \in Categories, UpdateService(o, k)
        PROVE  RowsOK'
    <2>1. category' \in [Orders -> catalogue']
      BY <1>5 DEF UpdateService, RowsOK
    <2> QED
      BY <1>5, <2>1 DEF UpdateService, RowsOK, people, Exists
  <1> QED
    BY <1>1, <1>3, <1>4, <1>5

LEMMA NextCases ==
  ASSUME [Next]_vars
  PROVE  \/ \E c \in Calls : Starts(c)
         \/ \E c \in Calls : Commit(c)
         \/ \E c \in Calls : Throws(c)
         \/ \E u \in Centers : RegisterCbt(u)
         \/ \E o \in Orders : ReturnToPool(o)
         \/ \E o \in Orders : ReleaseEscrow(o)
         \/ \E o \in Orders : \E k \in Categories : UpdateService(o, k)
         \/ UNCHANGED vars
  BY DEF Next, Starts

LEMMA TypeStep ==
  ASSUME RowsOK, [Next]_vars
  PROVE  RowsOK'
  <1>1. ASSUME NEW c \in Calls, Starts(c)
        PROVE  RowsOK'
    BY <1>1, StartsWith, BeginsType
  <1>2. ASSUME NEW c \in Calls, Throws(c)
        PROVE  RowsOK'
    BY <1>2, EndsType DEF Throws, RowsOK, people, shop, Exists
  <1>3. CASE UNCHANGED vars
    BY <1>3 DEF vars, people, shop, RowsOK, Exists
  <1> QED
    BY <1>1, <1>2, <1>3, NextCases, CommitType, SingleType

LEMMA TypeInit ==
  Init => TypeOK
  <1> SUFFICES ASSUME Init
               PROVE  TypeOK
    OBVIOUS
  <1>1. NoProfile \in Profiles /\ NewOrder \in OrderRows /\ Idle \in CallRecords
    BY DEF NoProfile, Profiles, NewOrder, OrderRows, CallRecords
  <1> QED
    BY <1>1 DEF Init, TypeOK, RowsOK, NewOrder

(* What the history may be.                                                *)
LEMMA HistoryStep ==
  ASSUME TypeOK, [Next]_vars
  PROVE  parted' \subseteq Orders /\ stripped' \subseteq People
  <1>1. ASSUME NEW c \in Calls, Starts(c)
        PROVE  UNCHANGED history
    BY <1>1, StartsWith DEF Begins, TypeOK
  <1>2. ASSUME NEW c \in Calls, Commit(c)
        PROVE  parted' \subseteq Orders /\ stripped' \subseteq People
    <2>1. CASE CommitApprove(c) \/ CommitReject(c) \/ CommitCategories(c)
                 \/ CommitCreateStaff(c) \/ CommitDeleteCategory(c)
      BY <2>1 DEF CommitApprove, CommitReject, CommitCategories, CommitCreateStaff,
                  CommitDeleteCategory, TypeOK, history
    <2>2. CASE CommitDeleteStaff(c) \/ CommitDeleteUser(c) \/ CommitUpdateRole(c)
      BY <2>2 DEF CommitDeleteStaff, CommitDeleteUser, CommitUpdateRole, Parts, Left, TypeOK
    <2>3. CASE CommitStart(c) \/ CommitComplete(c)
      BY <2>3 DEF CommitStart, CommitComplete, Writes, TypeOK
    <2>4. CASE CommitClaim(c) \/ CommitReassign(c)
      <3>1. call[c].order \in Orders
        BY <2>4, CallShape DEF CommitClaim, CommitReassign, Does, JobKinds, TypeOK, RowsOK
      <3> QED
        BY <2>4, <3>1 DEF CommitClaim, CommitReassign, Writes, Joins, TypeOK
    <2> QED
      BY <1>2, <2>1, <2>2, <2>3, <2>4 DEF Commit
  <1>3. UNCHANGED history => parted' \subseteq Orders /\ stripped' \subseteq People
    BY DEF history, TypeOK
  <1> QED
    BY <1>1, <1>2, <1>3, NextCases
       DEF Throws, RegisterCbt, ReturnToPool, ReleaseEscrow, UpdateService, vars

(* Every state is well formed.                                             *)
THEOREM AccountTypeCorrect == Spec => []TypeOK
  <1>1. TypeOK /\ [Next]_vars => TypeOK'
    BY TypeStep, HistoryStep DEF TypeOK
  <1> QED
    BY <1>1, TypeInit, PTL DEF Spec

-----------------------------------------------------------------------------
(* Categories.  What a handler is about to write is never worse than what  *)
(* it has checked: an approval is of a center that has categories, or that *)
(* has lost its profile, for good, or its last category since.             *)

Limited(u) == profile[u].status = "NONE" \/ profile[u].categories # {}

Spared(u) == u \in stripped \/ Limited(u)

CategoriesInv ==
  /\ \A u \in People \ stripped : profile[u].status = "APPROVED" => profile[u].categories # {}
  /\ \A c \in Calls : Does(c, "categories") => call[c].chosen # {}
  /\ \A c \in Calls :
       Does(c, "approve") => account[call[c].cbt] # "NONE" /\ Spared(call[c].cbt)

LEMMA EndsCalls ==
  ASSUME RowsOK, NEW c \in Calls, Ends(c)
  PROVE  \A d \in Calls : call'[d] \in {call[d], Idle}
  BY DEF RowsOK, Ends

LEMMA IdleKind ==
  /\ Idle.kind = "none"
  /\ "none" \notin Leaving /\ "none" \notin JobKinds
  BY DEF Idle, Leaving, JobKinds

(* Accounts, once there, and their limits stay.                            *)
LEMMA CategoriesKept ==
  ASSUME RowsOK, CategoriesInv,
         \A d \in Calls : call'[d] \in {call[d], Idle},
         \A u \in People :
            /\ profile'[u].status = "APPROVED" => u \in stripped' \/ profile'[u].categories # {}
            /\ account[u] # "NONE" =>
                 account'[u] # "NONE" /\ (Spared(u) => Spared(u)')
  PROVE  CategoriesInv'
  <1>1. \A d \in Calls : call'[d].kind # "none" => call'[d] = call[d]
    BY IdleKind
  <1>2. \A d \in Calls : Does(d, "approve") => call[d].cbt \in People
    BY CallShape, PeopleFacts DEF RowsOK, Does
  <1>4. ASSUME NEW d \in Calls
        PROVE  /\ Does(d, "categories")' => call'[d].chosen # {}
               /\ Does(d, "approve")' => /\ account'[call'[d].cbt] # "NONE"
                                         /\ Spared(call[d].cbt)'
    <2>1. CASE call'[d].kind = "none"
      BY <2>1 DEF Does
    <2>2. CASE call'[d] = call[d]
      <3>1. Does(d, "categories")' => call'[d].chosen # {}
        BY <2>2 DEF CategoriesInv, Does
      <3>2. ASSUME Does(d, "approve")'
            PROVE  account'[call'[d].cbt] # "NONE" /\ Spared(call[d].cbt)'
        <4>1. /\ call[d].cbt \in People /\ account[call[d].cbt] # "NONE"
              /\ Spared(call[d].cbt)
          BY <1>2, <2>2, <3>2 DEF CategoriesInv, Does
        <4>2. PICK u \in People : u = call[d].cbt
          BY <4>1
        <4>3. account'[u] # "NONE" /\ Spared(u)'
          BY <4>1, <4>2
        <4>4. call'[d].cbt = u
          BY <2>2, <4>2
        <4> QED
          BY <4>3, <4>4 DEF Spared, Limited
      <3> QED
        BY <3>1, <3>2
    <2> QED
      BY <1>1, <2>1, <2>2
  <1> QED
    BY <1>4 DEF CategoriesInv

LEMMA CategoriesStep ==
  ASSUME RowsOK, CategoriesInv, [Next]_vars
  PROVE  CategoriesInv'
  <1> USE DEF Does
  <1>s. \A c \in Calls : call[c] \in CallRecords
    BY DEF RowsOK
  <1>1. ASSUME NEW c \in Calls, Starts(c)
        PROVE  CategoriesInv'
    <2>1. PICK k \in CallRecords : Begins(c, k) /\ Checked(k)
      BY <1>1, StartsWith
    <2>2. /\ \A d \in Calls : call'[d] = IF d = c THEN k ELSE call[d]
          /\ profile' = profile /\ account' = account /\ stripped' = stripped
      BY <2>1 DEF Begins, RowsOK, people, history
    <2>3. k.kind = "approve" => account[k.cbt] # "NONE" /\ Limited(k.cbt)
      BY <2>1 DEF Checked, IsCenter, Limited
    <2>4. k.kind = "categories" => k.chosen # {}
      BY <2>1 DEF Checked
    <2> QED
      BY <2>2, <2>3, <2>4 DEF CategoriesInv, Spared, Limited
  <1>2. ASSUME NEW c \in Calls, Commit(c)
        PROVE  CategoriesInv'
    <2>1. CASE CommitApprove(c)
      <3> DEFINE u == call[c].cbt
      <3>1. /\ profile' = [profile EXCEPT ![u].status = "APPROVED"] /\ profile[u].status # "NONE"
            /\ Ends(c) /\ account' = account /\ stripped' = stripped
        BY <2>1 DEF CommitApprove, history
      <3>2. u \in People
        BY <1>s, <2>1, CallShape, PeopleFacts DEF CommitApprove
      <3>3. u \in stripped \/ profile[u].categories # {}
        BY <2>1, <3>1 DEF CategoriesInv, CommitApprove, Spared, Limited
      <3>4. \A v \in People : /\ profile'[v].categories = profile[v].categories
                              /\ v # u => profile'[v] = profile[v]
        BY <3>1, <3>2 DEF RowsOK, Profiles
      <3>5. \A v \in People :
            /\ profile'[v].status = "APPROVED" => v \in stripped' \/ profile'[v].categories # {}
            /\ account[v] # "NONE" =>
                 account'[v] # "NONE" /\ (Spared(v) => Spared(v)')
        BY <3>1, <3>3, <3>4 DEF CategoriesInv, Spared, Limited
      <3> QED
        BY <3>1, <3>5, EndsCalls, CategoriesKept
    <2>2. CASE CommitReject(c)
      <3> DEFINE u == call[c].cbt
      <3>1. /\ profile' = [profile EXCEPT ![u].status = "REJECTED"] /\ profile[u].status # "NONE"
            /\ Ends(c) /\ account' = account /\ stripped' = stripped
        BY <2>2 DEF CommitReject, history
      <3>2. u \in People
        BY <1>s, <2>2, CallShape, PeopleFacts DEF CommitReject
      <3>3. \A v \in People : /\ profile'[v].categories = profile[v].categories
                              /\ v # u => profile'[v] = profile[v]
                              /\ v = u => profile'[v].status = "REJECTED"
        BY <3>1, <3>2 DEF RowsOK, Profiles
      <3>4. \A v \in People :
            /\ profile'[v].status = "APPROVED" => v \in stripped' \/ profile'[v].categories # {}
            /\ account[v] # "NONE" =>
                 account'[v] # "NONE" /\ (Spared(v) => Spared(v)')
        BY <3>1, <3>3 DEF CategoriesInv, Spared, Limited
      <3> QED
        BY <3>1, <3>4, EndsCalls, CategoriesKept
    <2>3. CASE CommitCategories(c)
      <3> DEFINE u == call[c].cbt
      <3>1. /\ profile' = [profile EXCEPT ![u].categories = call[c].chosen]
            /\ Ends(c) /\ account' = account /\ stripped' = stripped \ {u}
        BY <2>3 DEF CommitCategories
      <3>2. u \in People
        BY <1>s, <2>3, CallShape, PeopleFacts DEF CommitCategories
      <3>3. call[c].chosen # {}
        BY <2>3 DEF CategoriesInv, CommitCategories
      <3>4. \A v \in People : /\ v # u => profile'[v] = profile[v]
                              /\ v = u => profile'[v].categories = call[c].chosen
        BY <3>1, <3>2 DEF RowsOK, Profiles
      <3>5. \A v \in People :
            /\ profile'[v].status = "APPROVED" => v \in stripped' \/ profile'[v].categories # {}
            /\ account[v] # "NONE" =>
                 account'[v] # "NONE" /\ (Spared(v) => Spared(v)')
        BY <3>1, <3>3, <3>4 DEF CategoriesInv, Spared, Limited
      <3> QED
        BY <3>1, <3>5, EndsCalls, CategoriesKept
    <2>4. CASE CommitCreateStaff(c) \/ CommitUpdateRole(c)
      <3>1. Ends(c) /\ profile' = profile /\ stripped' = stripped
        BY <2>4 DEF CommitCreateStaff, CommitUpdateRole, Parts, history
      <3>2. \A v \in People : account[v] # "NONE" => account'[v] # "NONE"
        <4>1. CASE CommitCreateStaff(c)
          BY <4>1 DEF CommitCreateStaff, RowsOK
        <4>2. CASE CommitUpdateRole(c)
          <5>1. call[c].next \in Roles
            BY <1>s, <4>2, CallShape DEF CommitUpdateRole
          <5> QED
            BY <4>2, <5>1, RolesFacts DEF CommitUpdateRole, RowsOK
        <4> QED
          BY <2>4, <4>1, <4>2
      <3>3. \A v \in People :
            /\ profile'[v].status = "APPROVED" => v \in stripped' \/ profile'[v].categories # {}
            /\ account[v] # "NONE" =>
                 account'[v] # "NONE" /\ (Spared(v) => Spared(v)')
        BY <3>1, <3>2 DEF CategoriesInv, Spared, Limited
      <3> QED
        BY <3>1, <3>3, EndsCalls, CategoriesKept
    <2>5. CASE CommitDeleteStaff(c) \/ CommitDeleteUser(c)
      <3> DEFINE u == call[c].user
      <3>1. /\ profile' = [profile EXCEPT ![u] = NoProfile]
            /\ account' = [account EXCEPT ![u] = "GONE"] /\ Ends(c) /\ stripped' = stripped
        BY <2>5 DEF CommitDeleteStaff, CommitDeleteUser, DeletesUser, Parts
      <3>2. \A v \in People : /\ account[v] # "NONE" => account'[v] # "NONE"
                              /\ profile'[v] \in {profile[v], NoProfile}
        BY <3>1 DEF RowsOK
      <3>3. NoProfile.status = "NONE"
        BY DEF NoProfile
      <3>4. \A v \in People :
            /\ profile'[v].status = "APPROVED" => v \in stripped' \/ profile'[v].categories # {}
            /\ account[v] # "NONE" =>
                 account'[v] # "NONE" /\ (Spared(v) => Spared(v)')
        BY <3>1, <3>2, <3>3 DEF CategoriesInv, Spared, Limited
      <3> QED
        BY <3>1, <3>4, EndsCalls, CategoriesKept
    <2>6. CASE CommitDeleteCategory(c)
      <3> DEFINE k == call[c].category
      <3>1. /\ profile' = [v \in People |-> [profile[v] EXCEPT !.categories = @ \ {k}]]
            /\ stripped' = stripped \cup {v \in People : profile[v].categories = {k}}
            /\ Ends(c) /\ account' = account
        BY <2>6 DEF CommitDeleteCategory
      <3>2. \A v \in People : /\ profile'[v].categories = profile[v].categories \ {k}
                              /\ profile'[v].status = profile[v].status
                              /\ profile[v].categories = {k} => v \in stripped'
        BY <3>1 DEF RowsOK, Profiles
      <3>3. \A v \in People :
            /\ profile'[v].status = "APPROVED" => v \in stripped' \/ profile'[v].categories # {}
            /\ account[v] # "NONE" =>
                 account'[v] # "NONE" /\ (Spared(v) => Spared(v)')
        <4> SUFFICES ASSUME NEW v \in People
                     PROVE  /\ profile'[v].status = "APPROVED" =>
                                  v \in stripped' \/ profile'[v].categories # {}
                            /\ Spared(v) => Spared(v)'
          BY <3>1
        <4>1. v \in stripped => v \in stripped'
          BY <3>1
        <4>2. profile[v].categories # {} => v \in stripped' \/ profile'[v].categories # {}
          BY <3>2
        <4> QED
          BY <3>2, <4>1, <4>2 DEF CategoriesInv, Spared, Limited
      <3> QED
        BY <3>1, <3>3, EndsCalls, CategoriesKept
    <2>7. CASE CommitClaim(c) \/ CommitStart(c) \/ CommitComplete(c) \/ CommitReassign(c)
      <3>1. Ends(c) /\ profile' = profile /\ account' = account /\ stripped' = stripped
        BY <2>7 DEF CommitClaim, CommitStart, CommitComplete, CommitReassign, Writes, people
      <3>2. \A v \in People :
            /\ profile'[v].status = "APPROVED" => v \in stripped' \/ profile'[v].categories # {}
            /\ account[v] # "NONE" =>
                 account'[v] # "NONE" /\ (Spared(v) => Spared(v)')
        BY <3>1 DEF CategoriesInv, Spared, Limited
      <3> QED
        BY <3>1, <3>2, EndsCalls, CategoriesKept
    <2> QED
      BY <1>2, <2>1, <2>2, <2>3, <2>4, <2>5, <2>6, <2>7 DEF Commit
  <1>3. ASSUME NEW c \in Calls, Throws(c)
        PROVE  CategoriesInv'
    <2>1. Ends(c) /\ profile' = profile /\ account' = account /\ stripped' = stripped
      BY <1>3 DEF Throws, people, history
    <2>2. \A v \in People :
            /\ profile'[v].status = "APPROVED" => v \in stripped' \/ profile'[v].categories # {}
            /\ account[v] # "NONE" =>
                 account'[v] # "NONE" /\ (Spared(v) => Spared(v)')
      BY <2>1 DEF CategoriesInv, Spared, Limited
    <2> QED
      BY <2>1, <2>2, EndsCalls, CategoriesKept
  <1>4. ASSUME NEW u \in Centers, RegisterCbt(u)
        PROVE  CategoriesInv'
    <2>1. u \in People /\ account[u] = "NONE"
      BY <1>4, PeopleFacts DEF RegisterCbt
    <2>2. \A v \in People : v # u => profile'[v] = profile[v] /\ account'[v] = account[v]
      BY <1>4 DEF RegisterCbt, RowsOK
    <2>3. profile'[u].status # "APPROVED"
      BY <1>4, <2>1 DEF RegisterCbt, RowsOK, NewProfile, NoProfile
    <2>4. call' = call /\ stripped' = stripped
      BY <1>4 DEF RegisterCbt, history
    <2>5. \A v \in People :
            /\ profile'[v].status = "APPROVED" => v \in stripped' \/ profile'[v].categories # {}
            /\ account[v] # "NONE" =>
                 account'[v] # "NONE" /\ (Spared(v) => Spared(v)')
      BY <2>1, <2>2, <2>3, <2>4 DEF CategoriesInv, Spared, Limited
    <2> QED
      BY <2>4, <2>5, CategoriesKept
  <1>5. ASSUME UNCHANGED <<people, call, history>>
        PROVE  CategoriesInv'
    BY <1>5 DEF people, history, CategoriesInv, Spared, Limited
  <1> QED
    BY <1>1, <1>2, <1>3, <1>4, <1>5, NextCases DEF ReturnToPool, ReleaseEscrow, UpdateService, vars

LEMMA CategoriesInit ==
  Init => CategoriesInv
  BY IdleKind DEF Init, CategoriesInv, NoProfile, Does

(* No approved center is without categories, however approvals,            *)
(* rejections, assignments and changes of account overlap, but one whose   *)
(* last category was deleted since they were assigned.                     *)
THEOREM ApprovedIsLimited == Spec => []ApprovedHasCategories
  <1>1. TypeOK /\ CategoriesInv /\ [Next]_vars => CategoriesInv'
    BY CategoriesStep DEF TypeOK
  <1>2. CategoriesInv => ApprovedHasCategories
    BY DEF CategoriesInv, ApprovedHasCategories
  <1> QED
    BY <1>1, <1>2, CategoriesInit, AccountTypeCorrect, PTL DEF Spec

-----------------------------------------------------------------------------
(* Earnings.  For a job that no leave has hit: who completes it is still   *)
(* there and still works for the center it was checked for, and who is     *)
(* being deleted has none in work.                                         *)

(* Only accounts that are there have a profile.                            *)
Rooted == \A u \in People : profile[u].status # "NONE" => Exists(u)

Earns(o) ==
  /\ order[o].status \in {"ASSIGNED", "IN_PROGRESS"} => order[o].cbt # Nobody
  /\ Unpaid(o) => order[o].cbt # Nobody /\ Earner(order[o].cbt) = order[o].for

Earned == \A o \in Orders \ parted : Earns(o)

Employs(u, center) == Exists(u) /\ CenterOf(u) = center /\ center # Nobody

InWork ==
  \A c \in Calls :
    Does(c, "complete") /\ call[c].order \notin parted =>
        Employs(call[c].user, call[c].center)

Unoccupied(u) ==
  \A o \in Orders \ parted :
    order[o].cbt = u => order[o].status \notin {"ASSIGNED", "IN_PROGRESS"}

Departing ==
  \A c \in Calls : call[c].kind \in {"dismiss", "remove"} => Unoccupied(call[c].user)

EarningInv == Rooted /\ Earned /\ InWork /\ Departing

LEMMA KindFacts ==
  /\ JobKinds \cap Leaving = {} /\ "complete" \in JobKinds
  /\ \A kind \in {"dismiss", "remove", "role"} : kind \in Leaving
  BY DEF JobKinds, Leaving

(* The center somebody works for is the one he earns for.                  *)
LEMMA EarnsForEmployer ==
  ASSUME NEW u, NEW center, Employs(u, center)
  PROVE  Earner(u) = center
  BY DEF Employs, CenterOf, Earner

(* Whoever is there keeps account and employer.                            *)
Settled ==
  \A u \in People :
    Exists(u) => account'[u] = account[u] /\ employer'[u] = employer[u]

LEMMA SettledFacts ==
  ASSUME Settled, NEW u \in People, Exists(u)
  PROVE  /\ Exists(u)' /\ Earner(u)' = Earner(u)
         /\ \A center : Employs(u, center) => Employs(u, center)'
  BY DEF Settled, Exists, CenterOf, Earner, Employs

LEMMA OrderCbt ==
  ASSUME RowsOK, NEW o \in Orders, order[o].cbt # Nobody
  PROVE  order[o].cbt \in People /\ Exists(order[o].cbt)
  BY DEF RowsOK, OrderRows

(* Handlers end, and neither orders nor settled accounts change.           *)
LEMMA EarningKept ==
  ASSUME RowsOK, EarningInv, Rooted', Settled, order' = order, parted' = parted,
         \A d \in Calls : call'[d] \in {call[d], Idle}
  PROVE  EarningInv'
  <1>1. \A d \in Calls : call'[d].kind # "none" => call'[d] = call[d]
    BY IdleKind
  <1>2. \A o \in Orders : order[o].cbt # Nobody => Earner(order[o].cbt)' = Earner(order[o].cbt)
    <2> SUFFICES ASSUME NEW o \in Orders, order[o].cbt # Nobody
                 PROVE  Earner(order[o].cbt)' = Earner(order[o].cbt)
      OBVIOUS
    <2>1. PICK u \in People : u = order[o].cbt /\ Exists(u)
      BY OrderCbt
    <2>2. Earner(u)' = Earner(u)
      BY <2>1, SettledFacts
    <2> QED
      BY <2>1, <2>2 DEF Earner
  <1>3. Earned'
    BY <1>2 DEF EarningInv, Earned, Earns, Unpaid
  <1>4. InWork'
    <2> SUFFICES ASSUME NEW c \in Calls, Does(c, "complete")', call'[c].order \notin parted
                 PROVE  Employs(call[c].user, call[c].center)'
      BY DEF InWork
    <2>1. call'[c] = call[c] /\ Employs(call[c].user, call[c].center)
      BY <1>1 DEF EarningInv, InWork, Does
    <2>2. PICK u \in People : u = call[c].user
      BY <2>1, CallShape, KindFacts DEF RowsOK, Does
    <2>3. Employs(u, call[c].center)'
      BY <2>1, <2>2, SettledFacts DEF Employs
    <2> QED
      BY <2>1, <2>2, <2>3 DEF Employs
  <1>5. Departing'
    BY <1>1 DEF EarningInv, Departing, Unoccupied
  <1> QED
    BY <1>3, <1>4, <1>5 DEF EarningInv

(* A handler begins.                                                       *)
LEMMA EarningStarts ==
  ASSUME RowsOK, EarningInv, NEW c \in Calls, Starts(c)
  PROVE  EarningInv'
  <1>1. PICK k \in CallRecords : Begins(c, k) /\ Checked(k)
    BY StartsWith
  <1>2. /\ \A d \in Calls : call'[d] = IF d = c THEN k ELSE call[d]
        /\ UNCHANGED <<account, employer, profile, order, parted>>
    BY <1>1 DEF Begins, RowsOK, people, history
  <1>3. Rooted'
    BY <1>2 DEF EarningInv, Rooted, Exists
  <1>4. Earned'
    BY <1>2 DEF EarningInv, Earned, Earns, Unpaid, Earner
  <1>5. InWork'
    <2>1. ASSUME k.kind = "complete"
          PROVE  Employs(k.user, k.center)
      <3>1. EnsureApproved(k.user) /\ k.center = CenterOf(k.user) /\ k.user \in People
        BY <1>1, <2>1, CallShape, KindFacts DEF Checked
      <3>2. Exists(k.user)
        <4>1. CASE account[k.user] = "CBT_STAFF"
          BY <4>1, RolesFacts DEF Exists
        <4>2. CASE account[k.user] # "CBT_STAFF"
          BY <3>1, <4>2 DEF EnsureApproved, CenterOf, EarningInv, Rooted
        <4> QED
          BY <4>1, <4>2
      <3> QED
        BY <3>1, <3>2 DEF Employs, EnsureApproved
    <2> QED
      BY <1>2, <2>1 DEF EarningInv, InWork, Employs, Exists, CenterOf, Does
  <1>6. Departing'
    <2>1. k.kind \in {"dismiss", "remove"} => Unoccupied(k.user)
      BY <1>1 DEF Checked, Unoccupied, ActiveStatuses
    <2> QED
      BY <1>2, <2>1 DEF EarningInv, Departing, Unoccupied
  <1> QED
    BY <1>3, <1>4, <1>5, <1>6 DEF EarningInv

(* A handler that deals with a job ends with it.                           *)
LEMMA EarningJobs ==
  ASSUME RowsOK, EarningInv, NEW c \in Calls,
         CommitClaim(c) \/ CommitStart(c) \/ CommitComplete(c) \/ CommitReassign(c)
  PROVE  EarningInv'
  <1>1. /\ Ends(c) /\ UNCHANGED <<account, employer, profile>>
        /\ call[c].kind \in JobKinds /\ parted \subseteq parted'
    BY DEF CommitClaim, CommitStart, CommitComplete, CommitReassign, Writes, Ends, people,
           Does, JobKinds, Joins
  <1>o. PICK o \in Orders, u \in People : o = call[c].order /\ u = call[c].user
    BY <1>1, CallShape DEF RowsOK
  <1>2. order[o] \in OrderRows /\ u # Nobody
    BY PeopleFacts DEF RowsOK
  <1>3. Rooted'
    BY <1>1 DEF EarningInv, Rooted, Exists
  <1>4. \A d \in Calls : call'[d] \in {call[d], Idle}
    BY <1>1, EndsCalls
  <1>5. InWork'
    BY <1>1, <1>4, IdleKind DEF EarningInv, InWork, Employs, Exists, CenterOf, Does
  <1>6. \A p \in Orders : p # o => order'[p] = order[p]
    BY <1>o, <1>2 DEF CommitClaim, CommitStart, CommitComplete, CommitReassign, Writes, RowsOK
  <1>7. o \notin parted => Earns(o)'
    <2>1. CASE CommitClaim(c) \/ CommitReassign(c)
      <3>1. order'[o].status = "ASSIGNED" /\ order'[o].cbt = u
        BY <1>o, <1>2, <2>1 DEF CommitClaim, CommitReassign, Writes, RowsOK, OrderRows
      <3> QED
        BY <1>2, <3>1 DEF Earns, Unpaid
    <2>2. CASE CommitStart(c)
      <3>1. order'[o].status = "IN_PROGRESS" /\ order'[o].cbt = u
        BY <1>o, <1>2, <2>2 DEF CommitStart, Writes, RowsOK, OrderRows
      <3> QED
        BY <1>2, <3>1 DEF Earns, Unpaid
    <2>3. CASE CommitComplete(c)
      <3>1. /\ order'[o].status = "COMPLETED" /\ order'[o].cbt = u
            /\ order'[o].for = call[c].center
        BY <1>o, <1>2, <2>3 DEF CommitComplete, Writes, RowsOK, OrderRows
      <3>2. o \notin parted => Earner(u) = call[c].center
        BY <1>o, <2>3, EarnsForEmployer DEF EarningInv, InWork, CommitComplete
      <3>3. Earner(order[o].cbt)' = Earner(u)
        BY <1>1, <3>1 DEF Earner
      <3> QED
        BY <1>2, <3>1, <3>2, <3>3 DEF Earns
    <2> QED
      BY <2>1, <2>2, <2>3
  <1>8. Earned'
    <2> SUFFICES ASSUME NEW p \in Orders, p \notin parted
                 PROVE  Earns(p)'
      BY <1>1 DEF Earned
    <2>1. CASE p = o
      BY <1>7, <2>1
    <2>2. CASE p # o
      BY <1>1, <1>6, <2>2 DEF EarningInv, Earned, Earns, Unpaid, Earner
    <2> QED
      BY <2>1, <2>2
  <1>9. Departing'
    <2> SUFFICES ASSUME NEW d \in Calls, call'[d].kind \in {"dismiss", "remove"},
                        NEW p \in Orders, p \notin parted', order'[p].cbt = call'[d].user,
                        order'[p].status \in {"ASSIGNED", "IN_PROGRESS"}
                 PROVE  FALSE
      BY DEF Departing, Unoccupied
    <2>1. /\ call'[d] = call[d] /\ call[d].kind \in Leaving /\ p \notin parted
          /\ Unoccupied(call[d].user)
      BY <1>1, <1>4, IdleKind, KindFacts DEF EarningInv, Departing
    <2>2. CASE p # o
      BY <1>6, <2>1, <2>2 DEF Unoccupied
    <2>3. CASE p = o /\ (CommitClaim(c) \/ CommitReassign(c))
      <3>1. order'[o].cbt = u
        BY <1>o, <1>2, <2>3 DEF CommitClaim, CommitReassign, Writes, RowsOK, OrderRows
      <3>2. call[d].user = call[c].user
        BY <1>o, <2>1, <2>3, <3>1
      <3>3. o \in parted'
        BY <1>o, <2>1, <2>3, <3>2 DEF CommitClaim, CommitReassign, Joins
      <3> QED
        BY <2>3, <3>3
    <2>4. CASE p = o /\ CommitStart(c)
      <3>1. order[o].status = "ASSIGNED" /\ order'[o].cbt = order[o].cbt
        BY <1>o, <1>2, <2>4 DEF CommitStart, Writes, RowsOK, OrderRows
      <3> QED
        BY <2>1, <2>4, <3>1 DEF Unoccupied
    <2>5. CASE p = o /\ CommitComplete(c)
      <3>1. order'[o].status = "COMPLETED"
        BY <1>o, <1>2, <2>5 DEF CommitComplete, Writes, RowsOK, OrderRows
      <3> QED
        BY <2>5, <3>1
    <2> QED
      BY <2>2, <2>3, <2>4, <2>5
  <1> QED
    BY <1>3, <1>5, <1>8, <1>9 DEF EarningInv

(* Somebody leaves, or is given another role: no other job depends on him  *)
(* than those that this takes from him.                                    *)
LEMMA EarningLeaves ==
  ASSUME RowsOK, EarningInv, NEW c \in Calls,
         CommitDeleteStaff(c) \/ CommitDeleteUser(c) \/ CommitUpdateRole(c)
  PROVE  EarningInv'
  <1>1. Ends(c) /\ call[c].kind \in Leaving
    BY DEF CommitDeleteStaff, CommitDeleteUser, CommitUpdateRole, Ends, Does, Leaving
  <1>u. PICK u \in People : u = call[c].user
    BY <1>1, CallShape DEF RowsOK
  <1>p. parted' = parted \cup Left(u)
    BY <1>u DEF CommitDeleteStaff, CommitDeleteUser, CommitUpdateRole, Parts
  <1>2. Exists(u) /\ call[c] \in CallRecords
    BY <1>u DEF CommitDeleteStaff, CommitDeleteUser, CommitUpdateRole, DeletesUser, RowsOK
  <1>3. \A v \in People : v # u =>
          /\ account'[v] = account[v]
          /\ profile'[v] = profile[v]
          /\ employer'[v] = employer[v] \/ employer[v] = u
    <2>1. CASE CommitDeleteStaff(c) \/ CommitDeleteUser(c)
      BY <1>u, <1>2, <2>1 DEF CommitDeleteStaff, CommitDeleteUser, DeletesUser, Remaining, RowsOK
    <2>2. CASE CommitUpdateRole(c)
      BY <1>u, <1>2, <2>2 DEF CommitUpdateRole, RowsOK
    <2> QED
      BY <2>1, <2>2
  <1>4. profile'[u].status # "NONE" => Exists(u)'
    <2>1. CASE CommitDeleteStaff(c) \/ CommitDeleteUser(c)
      BY <1>u, <1>2, <2>1 DEF CommitDeleteStaff, CommitDeleteUser, DeletesUser, RowsOK, NoProfile
    <2>2. CASE CommitUpdateRole(c)
      <3>1. call[c].next \in Roles
        BY <1>u, <1>2, <2>2, CallShape DEF CommitUpdateRole, Does
      <3> QED
        BY <1>u, <1>2, <2>2, <3>1 DEF CommitUpdateRole, RowsOK, Exists
    <2> QED
      BY <2>1, <2>2
  <1>5. Rooted'
    <2> SUFFICES ASSUME NEW v \in People, profile'[v].status # "NONE"
                 PROVE  Exists(v)'
      BY DEF Rooted
    <2>1. CASE v = u
      BY <1>4, <2>1
    <2>2. CASE v # u
      BY <1>3, <2>2 DEF EarningInv, Rooted, Exists
    <2> QED
      BY <2>1, <2>2
  <1>6. \A d \in Calls : call'[d].kind # "none" => call'[d] = call[d]
    BY <1>1, EndsCalls, IdleKind
  <1>7. \A v \in People : v # u /\ CenterOf(v) # u =>
           /\ Exists(v)' = Exists(v) /\ CenterOf(v)' = CenterOf(v) /\ Earner(v)' = Earner(v)
    BY <1>3 DEF Exists, CenterOf, Earner
  <1>8. \A o \in Orders :
           \/ order'[o] = order[o]
           \/ /\ order[o].cbt = u /\ order'[o].cbt = Nobody
              /\ order'[o].status = order[o].status /\ order'[o].earner = order[o].earner
              /\ Unoccupied(u)
    <2>1. CASE CommitDeleteStaff(c) \/ CommitDeleteUser(c)
      <3>1. Unoccupied(u)
        BY <1>u, <2>1 DEF EarningInv, Departing, CommitDeleteStaff, CommitDeleteUser, Does
      <3> QED
        BY <1>u, <2>1, <3>1 DEF CommitDeleteStaff, CommitDeleteUser, DeletesUser, RowsOK, OrderRows
    <2>2. CASE CommitUpdateRole(c)
      BY <2>2 DEF CommitUpdateRole
    <2> QED
      BY <2>1, <2>2
  <1>9. Earned'
    <2> SUFFICES ASSUME NEW o \in Orders, o \notin parted'
                 PROVE  Earns(o)'
      BY DEF Earned
    <2>1. o \notin parted /\ o \notin Left(u) /\ Earns(o)
      BY <1>p DEF EarningInv, Earned
    <2>2. order'[o].status \in {"ASSIGNED", "IN_PROGRESS"} => order'[o].cbt # Nobody
      BY <1>8, <2>1 DEF Earns, Unoccupied
    <2>3. ASSUME Unpaid(o)'
          PROVE  order'[o].cbt # Nobody /\ Earner(order[o].cbt)' = order'[o].for
      <3>1. Unpaid(o)
        BY <1>8, <2>3 DEF Unpaid
      <3>2. /\ order[o].cbt # Nobody /\ order[o].cbt # u /\ CenterOf(order[o].cbt) # u
            /\ Earner(order[o].cbt) = order[o].for
        BY <2>1, <3>1 DEF Earns, Left
      <3>3. order'[o] = order[o]
        BY <1>8, <3>2
      <3>4. PICK v \in People : v = order[o].cbt
        BY <3>2, OrderCbt
      <3>5. Earner(v)' = Earner(v)
        BY <1>7, <3>2, <3>4
      <3> QED
        BY <3>2, <3>3, <3>4, <3>5 DEF Earner
    <2> QED
      BY <2>2, <2>3 DEF Earns
  <1>10. InWork'
    <2> SUFFICES ASSUME NEW d \in Calls, Does(d, "complete")', call'[d].order \notin parted'
                 PROVE  Employs(call[d].user, call[d].center)'
      BY DEF InWork
    <2>1. call'[d] = call[d] /\ Does(d, "complete")
      BY <1>6 DEF Does
    <2>2. PICK v \in People, x \in People, o \in Orders :
             v = call[d].user /\ x = call[d].center /\ o = call[d].order
      BY <2>1, CallShape, KindFacts DEF RowsOK, Does
    <2>3. o \notin parted /\ o \notin Left(u)
      BY <1>p, <2>1, <2>2
    <2>4. v # u /\ x # u
      BY <2>1, <2>2, <2>3 DEF Left
    <2>5. Employs(v, x)
      BY <2>1, <2>2, <2>3 DEF EarningInv, InWork
    <2>6. Employs(v, x)'
      BY <1>7, <2>4, <2>5 DEF Employs
    <2>7. call'[d].user = v /\ call'[d].center = x
      BY <2>1, <2>2
    <2> QED
      BY <2>6, <2>7 DEF Employs
  <1>11. Departing'
    <2> SUFFICES ASSUME NEW d \in Calls, call'[d].kind \in {"dismiss", "remove"}
                 PROVE  Unoccupied(call[d].user)'
      BY DEF Departing
    <2>1. call'[d] = call[d] /\ Unoccupied(call[d].user) /\ call[d].user \in People
      BY <1>6, CallShape, KindFacts DEF EarningInv, Departing, RowsOK
    <2> QED
      BY <1>8, <1>p, <2>1, PeopleFacts DEF Unoccupied
  <1> QED
    BY <1>5, <1>9, <1>10, <1>11 DEF EarningInv

LEMMA EarningCommits ==
  ASSUME RowsOK, EarningInv, NEW c \in Calls, Commit(c)
  PROVE  EarningInv'
  <1>s. call[c] \in CallRecords
    BY DEF RowsOK
  <1>1. CASE CommitApprove(c) \/ CommitReject(c) \/ CommitCategories(c) \/ CommitDeleteCategory(c)
    <2>1. Ends(c) /\ UNCHANGED <<account, employer, order, parted>>
      BY <1>1 DEF CommitApprove, CommitReject, CommitCategories, CommitDeleteCategory, history
    <2>2. \A u \in People : profile'[u].status # "NONE" => profile[u].status # "NONE"
      <3>1. CASE CommitDeleteCategory(c)
        BY <3>1 DEF CommitDeleteCategory, RowsOK, Profiles
      <3>2. CASE CommitApprove(c) \/ CommitReject(c) \/ CommitCategories(c)
        <4>1. /\ call[c].cbt \in People /\ profile[call[c].cbt].status # "NONE"
              /\ \A u \in People : u # call[c].cbt => profile'[u] = profile[u]
          BY <1>s, <3>2, CallShape, PeopleFacts
             DEF CommitApprove, CommitReject, CommitCategories, Does, RowsOK
        <4> QED
          BY <4>1
      <3> QED
        BY <1>1, <3>1, <3>2
    <2>3. Rooted' /\ Settled
      BY <2>1, <2>2 DEF EarningInv, Rooted, Exists, Settled
    <2> QED
      BY <2>1, <2>3, EndsCalls, EarningKept
  <1>2. CASE CommitCreateStaff(c)
    <2> DEFINE s == call[c].staff
    <2>1. /\ Ends(c) /\ UNCHANGED <<profile, order, parted>>
          /\ account[s] = "NONE"
          /\ account' = [account EXCEPT ![s] = "CBT_STAFF"]
          /\ employer' = [employer EXCEPT ![s] = call[c].cbt]
      BY <1>2 DEF CommitCreateStaff, history
    <2>2. s \in People /\ ~Exists(s)
      BY <1>s, <1>2, <2>1, CallShape, PeopleFacts, RolesFacts DEF CommitCreateStaff, Does, Exists
    <2>3. \A v \in People : v # s => account'[v] = account[v] /\ employer'[v] = employer[v]
      BY <2>1 DEF RowsOK
    <2>4. Rooted' /\ Settled
      BY <2>1, <2>2, <2>3 DEF EarningInv, Rooted, Exists, Settled
    <2> QED
      BY <2>1, <2>4, EndsCalls, EarningKept
  <1>3. CASE CommitDeleteStaff(c) \/ CommitDeleteUser(c) \/ CommitUpdateRole(c)
    BY <1>3, EarningLeaves
  <1>4. CASE CommitClaim(c) \/ CommitStart(c) \/ CommitComplete(c) \/ CommitReassign(c)
    BY <1>4, EarningJobs
  <1> QED
    BY <1>1, <1>2, <1>3, <1>4 DEF Commit

(* A job goes back to the pool, or is paid.                                *)
LEMMA EarningOrder ==
  ASSUME RowsOK, EarningInv, NEW o \in Orders, ReturnToPool(o) \/ ReleaseEscrow(o)
  PROVE  EarningInv'
  <1>1. UNCHANGED <<account, employer, profile, call, parted>>
    BY DEF ReturnToPool, ReleaseEscrow, people, history
  <1>2. \A p \in Orders : p # o => order'[p] = order[p]
    BY DEF ReturnToPool, ReleaseEscrow, RowsOK
  <1>3. ~Unpaid(o)' /\ order'[o].status \notin {"ASSIGNED", "IN_PROGRESS"}
    <2>1. CASE ReturnToPool(o)
      <3>1. order'[o].status = "PENDING"
        BY <2>1 DEF ReturnToPool, RowsOK, OrderRows
      <3> QED
        BY <3>1 DEF Unpaid
    <2>2. CASE ReleaseEscrow(o)
      <3>1. Earner(order[o].cbt) # Nobody
        BY <2>2, OrderCbt, PeopleFacts DEF ReleaseEscrow, Earner
      <3>2. order'[o].status = "COMPLETED" /\ order'[o].earner # Nobody
        BY <2>2, <3>1 DEF ReleaseEscrow, Unpaid, RowsOK, OrderRows
      <3> QED
        BY <3>2 DEF Unpaid
    <2> QED
      BY <2>1, <2>2
  <1>4. Rooted'
    BY <1>1 DEF EarningInv, Rooted, Exists
  <1>5. Earned'
    BY <1>1, <1>2, <1>3 DEF EarningInv, Earned, Earns, Unpaid, Earner
  <1>6. InWork'
    BY <1>1 DEF EarningInv, InWork, Employs, Exists, CenterOf, Does
  <1>7. Departing'
    BY <1>1, <1>2, <1>3 DEF EarningInv, Departing, Unoccupied
  <1> QED
    BY <1>4, <1>5, <1>6, <1>7 DEF EarningInv

LEMMA EarningStep ==
  ASSUME RowsOK, EarningInv, [Next]_vars
  PROVE  EarningInv'
  <1>1. ASSUME NEW c \in Calls, Throws(c)
        PROVE  EarningInv'
    <2>1. Ends(c) /\ UNCHANGED <<account, employer, profile, order, parted>>
      BY <1>1 DEF Throws, people, history
    <2>2. Rooted' /\ Settled
      BY <2>1 DEF EarningInv, Rooted, Exists, Settled
    <2> QED
      BY <2>1, <2>2, EndsCalls, EarningKept
  <1>2. ASSUME NEW u \in Centers, RegisterCbt(u)
        PROVE  EarningInv'
    <2>1. /\ u \in People /\ account[u] = "NONE" /\ account' = [account EXCEPT ![u] = "CBT_CENTER"]
          /\ UNCHANGED <<employer, order, call, parted>>
          /\ "CBT_CENTER" \in Roles
      BY <1>2, PeopleFacts, RolesFacts DEF RegisterCbt, history
    <2>2. \A v \in People : v # u => profile'[v] = profile[v] /\ account'[v] = account[v]
      BY <1>2 DEF RegisterCbt, RowsOK
    <2>3. Exists(u)' /\ ~Exists(u)
      BY <2>1, RolesFacts DEF Exists, RowsOK
    <2>4. Rooted'
      BY <2>2, <2>3 DEF EarningInv, Rooted, Exists
    <2>5. Settled
      BY <2>1, <2>2, <2>3 DEF Settled
    <2> QED
      BY <2>1, <2>4, <2>5, EarningKept
  <1>3. ASSUME UNCHANGED <<people, order, call, history>>
        PROVE  EarningInv'
    <2>1. Rooted' /\ Settled /\ parted' = parted
      BY <1>3 DEF EarningInv, Rooted, Exists, Settled, people, history
    <2> QED
      BY <1>3, <2>1, EarningKept
  <1> QED
    BY <1>1, <1>2, <1>3, NextCases, EarningStarts, EarningCommits, EarningOrder
       DEF UpdateService, vars

LEMMA EarningInit ==
  Init => EarningInv
  BY IdleKind
     DEF Init, EarningInv, Rooted, Earned, Earns, InWork, Departing, NoProfile, NewOrder, Unpaid,
         Does

(* Whoever does a job is there, and its release pays the center that the   *)
(* delivery was accepted from, for any number of centers and staff, and    *)
(* however approvals, hiring, dismissals, deletions, roles and jobs        *)
(* overlap: with no exception but the jobs that were delivered and unpaid, *)
(* or being completed, when whom they earn for left, and those taken by    *)
(* somebody who was leaving.                                               *)
THEOREM JobsEarn == Spec => []EarnsForCenter
  <1>1. TypeOK /\ EarningInv /\ [Next]_vars => EarningInv'
    BY EarningStep DEF TypeOK
  <1>2. EarningInv => EarnsForCenter
    BY DEF EarningInv, EarnsForCenter, Earned, Earns
  <1> QED
    BY <1>1, <1>2, EarningInit, AccountTypeCorrect, PTL DEF Spec

=============================================================================
