------------------------ MODULE EscrowWallets_proofs ------------------------
(***************************************************************************)
(* Theorems about EscrowWallets, for any sets of orders and handlers, any  *)
(* prices, deposits, payouts and bound: however the handlers overlap, no   *)
(* balance is overdrawn but the platform's by its shortfall, and money is  *)
(* conserved but for what releases overpaid and lost writes undid; until a *)
(* write is lost, the escrow is the price of the orders that wait for a    *)
(* decision.                                                               *)
(***************************************************************************)
EXTENDS EscrowWallets, FiniteSetTheorems, WellFoundedInduction, TLAPS

-----------------------------------------------------------------------------
(* Arithmetic of prices.                                                   *)

(* A percentage is a natural number, and stays below what it is taken of.  *)
LEMMA Percent ==
  ASSUME NEW x \in Nat, NEW y \in Nat
  PROVE  /\ x \div 100 \in Nat
         /\ x <= 100 * y => x \div 100 <= y
  OBVIOUS

LEMMA Products ==
  ASSUME NEW a \in Nat, NEW c \in 0..100
  PROVE  a * c \in Nat /\ a * c <= 100 * a
  OBVIOUS

LEMMA PriceTypes ==
  ASSUME NEW p \in Prices
  PROVE  /\ p.total \in Nat /\ p.cbt \in Nat /\ p.provider \in Nat /\ p.flat \in Nat
         /\ p.percent \in 0..100
         /\ FeeAtCreation(p) \in Nat /\ FeeAtCreation(p) <= p.provider
         /\ FeeAtRemediation(p) \in Nat
  <1>1. /\ p.total \in Nat /\ p.cbt \in Nat /\ p.provider \in Nat /\ p.flat \in Nat
        /\ p.percent \in 0..100
    BY WalletAssumption DEF PriceRecords
  <1>2. /\ p.provider * p.percent \in Nat /\ p.provider * p.percent <= 100 * p.provider
        /\ (p.cbt + p.provider) * p.percent \in Nat
    <2>1. p.cbt + p.provider \in Nat
      BY <1>1
    <2> QED
      BY <1>1, <2>1, Products
  <1> QED
    BY <1>1, <1>2, Percent DEF FeeAtCreation, FeeAtRemediation

(* The rows that are written are well formed.                              *)
LEMMA RowTypes ==
  /\ NoSuchOrder \in OrderRecords
  /\ \A p \in Prices : Ordered(p) \in OrderRecords /\ Purchased(p) \in OrderRecords
  /\ \A p \in Prices, row \in OrderRecords : Repriced(row, p) \in OrderRecords
  <1>1. NoSuchOrder \in OrderRecords
    BY DEF NoSuchOrder, OrderRecords, Statuses, Penalties
  <1>2. ASSUME NEW p \in Prices
        PROVE  Ordered(p) \in OrderRecords /\ Purchased(p) \in OrderRecords
    BY PriceTypes DEF Ordered, Purchased, OrderRecords, Statuses, Penalties
  <1>3. ASSUME NEW p \in Prices, NEW row \in OrderRecords
        PROVE  Repriced(row, p) \in OrderRecords
    BY PriceTypes DEF Repriced, OrderRecords
  <1> QED
    BY <1>1, <1>2, <1>3

-----------------------------------------------------------------------------
(* Types.                                                                  *)

LEMMA Constants ==
  /\ ReadsInTx \subseteq Kinds
  /\ "requester" \in Owners /\ "center" \in Owners /\ "tenant" \in Owners
  /\ "platform" \in Owners
  /\ {"NONE", "HELD", "DISPUTED", "REFUNDED", "RESOLVED", "COMPLETED"} = Statuses
  /\ {"none", "PENDING", "SUCCESS", "REVERSED"} = Penalties
  BY DEF ReadsInTx, Kinds, Owners, Statuses, Penalties

LEMMA IdleCallType ==
  IdleCall \in CallRecords /\ IdleCall.kind = "idle" /\ IdleCall.o = NoOrder
  BY RowTypes DEF IdleCall, CallRecords, Kinds

LEMMA ReadTypes ==
  ASSUME TypeOK, NEW kind \in Kinds
  PROVE  ReadBalances(kind) \in [Owners -> Int] /\ ReadEscrow(kind) \in Int
  BY DEF TypeOK, ReadBalances, ReadEscrow

LEMMA EndsType ==
  ASSUME TypeOK, NEW c \in Calls, Ends(c)
  PROVE  call' \in [Calls -> CallRecords]
  BY IdleCallType DEF TypeOK, Ends

LEMMA BeginsType ==
  ASSUME TypeOK, NEW c \in Calls, NEW kind \in Kinds, NEW o \in Orders \cup {NoOrder},
         NEW row \in OrderRecords, NEW as \in OrderRecords, NEW amount \in Nat,
         Begins(c, kind, o, row, as, amount)
  PROVE  TypeOK'
  <1>1. [kind |-> kind, o |-> o, row |-> row, as |-> as, amount |-> amount,
         inTx |-> kind \notin ReadsInTx, seen |-> ReadBalances(kind), held |-> ReadEscrow(kind)]
          \in CallRecords
    BY ReadTypes DEF CallRecords
  <1> QED
    BY <1>1 DEF TypeOK, Begins, history, paid

LEMMA StaleType ==
  ASSUME TypeOK, NEW c \in Calls, NEW D
  PROVE  Stale(c, D) \in Int
  <1>1. \A w \in Owners : call[c].seen[w] \in Int /\ available[w] \in Int
    BY DEF TypeOK, CallRecords
  <1> QED
    BY <1>1 DEF Stale, Owners

LEMMA WritesType ==
  ASSUME TypeOK, NEW c \in Calls, NEW D \in SUBSET Owners, NEW moves \in [D -> Int],
         NEW hold \in Int, Writes(c, moves, hold)
  PROVE  /\ available' \in [Owners -> Int] /\ escrow' \in Int
         /\ call' \in [Calls -> CallRecords] /\ lost' \in BOOLEAN /\ drift' \in Int
  <1>1. call' \in [Calls -> CallRecords]
    BY EndsType DEF Writes
  <1>2. call[c].seen \in [Owners -> Int] /\ call[c].held \in Int
    BY DEF TypeOK, CallRecords
  <1>3. available' \in [Owners -> Int]
    BY <1>2 DEF Writes, TypeOK
  <1>4. escrow' \in Int
    BY <1>2 DEF Writes, TypeOK
  <1>5. lost' \in BOOLEAN
    BY DEF Writes, TypeOK
  <1>6. Stale(c, D) \in Int
    BY <1>2, StaleType
  <1>7. drift' \in Int
    BY <1>2, <1>6 DEF Writes, TypeOK
  <1> QED
    BY <1>1, <1>3, <1>4, <1>5, <1>7

LEMMA MovesType ==
  ASSUME NEW w \in Owners, NEW n \in Int
  PROVE  {w} \in SUBSET Owners /\ Moves(w, n) \in [{w} -> Int] /\ Moves(w, n)[w] = n
  BY DEF Moves

LEMMA PurchaseMovesType ==
  ASSUME NEW m \in Int, NEW n \in Int
  PROVE  [w \in {"requester", "platform"} |-> IF w = "requester" THEN m ELSE n]
           \in [{"requester", "platform"} -> Int]
  OBVIOUS

(* Whom a release pays, and what.                                          *)
Earners(row) == {"center", "platform"} \cup (IF TenantNet(row) > 0 THEN {"tenant"} ELSE {})

LEMMA SplitType ==
  ASSUME NEW row \in OrderRecords
  PROVE  /\ Earners(row) \in SUBSET Owners
         /\ TenantNet(row) \in Int /\ PlatformActual(row) \in Int
         /\ Split(row) \in [Earners(row) -> Int]
         /\ Split(row)["center"] = row.cbt
         /\ Split(row)["platform"] = PlatformActual(row)
         /\ TenantNet(row) > 0 => Split(row)["tenant"] = TenantNet(row)
  <1>1. row.cbt \in Nat /\ row.total \in Nat /\ row.share \in Nat /\ row.fee \in Nat
    BY DEF OrderRecords
  <1>2. TenantNet(row) \in Int
    BY <1>1 DEF TenantNet
  <1>3. PlatformActual(row) \in Int
    BY <1>1, <1>2 DEF PlatformActual
  <1>4. Earners(row) \in SUBSET Owners
    BY DEF Earners, Owners
  <1>5. Split(row) = [w \in Earners(row) |->
                        CASE w = "center" -> row.cbt
                          [] w = "platform" -> PlatformActual(row)
                          [] w = "tenant" -> TenantNet(row)]
    BY DEF Split, Earners
  <1>6. /\ "center" \in Earners(row) /\ "platform" \in Earners(row)
        /\ TenantNet(row) > 0 => "tenant" \in Earners(row)
        /\ \A w \in Earners(row) : w \in {"center", "platform", "tenant"}
    BY DEF Earners
  <1> HIDE DEF Split
  <1> QED
    BY <1>1, <1>2, <1>3, <1>4, <1>5, <1>6

LEMMA StartsType ==
  ASSUME TypeOK, NEW c \in Calls, Starts(c)
  PROVE  TypeOK'
  <1>r. ASSUME NEW o \in Orders
        PROVE  order[o] \in OrderRecords /\ order[o].total \in Nat /\ order[o].cbt \in Nat
    BY DEF TypeOK, OrderRecords
  <1>k. {"create", "purchase", "release", "refund", "repay", "penalty", "remediate",
         "withdraw", "reject"} \subseteq Kinds
    BY DEF Kinds
  <1>1. ASSUME NEW o \in Orders, NEW p \in Prices,
               \/ BeginCreateOrder(c, o, p) \/ PurchaseFromProvider(c, o, p)
               \/ RemediationCandidate(c, o, p)
        PROVE  TypeOK'
    <2>1. CASE BeginCreateOrder(c, o, p)
      <3>1. Begins(c, "create", o, order[o], Ordered(p), p.total)
        BY <2>1 DEF BeginCreateOrder
      <3> QED
        BY <3>1, <1>r, <1>k, RowTypes, PriceTypes, BeginsType
    <2>2. CASE PurchaseFromProvider(c, o, p)
      <3>1. Begins(c, "purchase", o, order[o], Purchased(p), p.provider)
        BY <2>2 DEF PurchaseFromProvider
      <3> QED
        BY <3>1, <1>r, <1>k, RowTypes, PriceTypes, BeginsType
    <2>3. CASE RemediationCandidate(c, o, p)
      <3>1. Begins(c, "remediate", o, order[o], Repriced(order[o], p), 0)
        BY <2>3 DEF RemediationCandidate
      <3> QED
        BY <3>1, <1>r, <1>k, RowTypes, BeginsType
    <2> QED
      BY <1>1, <2>1, <2>2, <2>3
  <1>2. ASSUME NEW o \in Orders, NEW penalty \in {order[o].penalty, "PENDING"},
               ReviewForRequester(c, o, penalty)
        PROVE  TypeOK'
    <2> DEFINE as == [order[o] EXCEPT
                        !.status = IF order[o].released THEN "RESOLVED" ELSE "REFUNDED",
                        !.penalty = penalty]
    <2>1. as \in OrderRecords
      <3>1. penalty \in Penalties
        BY <1>r, Constants DEF OrderRecords
      <3> QED
        BY <1>r, <3>1, Constants DEF OrderRecords
    <2>2. Begins(c, "refund", o, order[o], as, order[o].total)
      BY <1>2 DEF ReviewForRequester
    <2> HIDE DEF as
    <2> QED
      BY <2>1, <2>2, <1>r, <1>k, BeginsType
  <1>3. ASSUME NEW o \in Orders, ReadRelease(c, o)
        PROVE  TypeOK'
    BY <1>3, <1>r, <1>k, BeginsType DEF ReadRelease
  <1>4. ASSUME NEW o \in Orders, FollowUpRefund(c, o)
        PROVE  TypeOK'
    <2>1. [order[o] EXCEPT !.status = "REFUNDED"] \in OrderRecords
      BY <1>r, Constants DEF OrderRecords
    <2> QED
      BY <2>1, <1>4, <1>r, <1>k, BeginsType DEF FollowUpRefund
  <1>5. ASSUME NEW o \in Orders, FollowUpPenalty(c, o)
        PROVE  TypeOK'
    <2>1. [order[o] EXCEPT !.penalty = "SUCCESS"] \in OrderRecords
      BY <1>r, Constants DEF OrderRecords
    <2> QED
      BY <2>1, <1>5, <1>r, <1>k, BeginsType DEF FollowUpPenalty
  <1>6. ASSUME NEW amount \in Payouts, RequestWithdrawal(c, amount) \/ RejectWithdrawal(c, amount)
        PROVE  TypeOK'
    <2>1. amount \in Nat
      BY WalletAssumption
    <2> QED
      BY <1>6, <2>1, <1>k, RowTypes, BeginsType DEF RequestWithdrawal, RejectWithdrawal
  <1> QED
    BY <1>1, <1>2, <1>3, <1>4, <1>5, <1>6 DEF Starts

(* What the remediation writes: the rest of the row is left as it is.      *)
LEMMA RepricingWrites ==
  ASSUME TypeOK, NEW c \in Calls,
         order' = [order EXCEPT ![call[c].o].repriceable = FALSE,
                                ![call[c].o].total = call[c].as.total,
                                ![call[c].o].fee = call[c].as.fee,
                                ![call[c].o].cbt = call[c].as.cbt]
  PROVE  /\ order' \in [Orders -> OrderRecords]
         /\ \A o \in Orders :
              order'[o] = IF o = call[c].o
                          THEN [status |-> order[o].status, released |-> order[o].released,
                                repriceable |-> FALSE, penalty |-> order[o].penalty,
                                total |-> call[c].as.total, fee |-> call[c].as.fee,
                                share |-> order[o].share, cbt |-> call[c].as.cbt]
                          ELSE order[o]
  <1>1. call[c].as.total \in Nat /\ call[c].as.fee \in Nat /\ call[c].as.cbt \in Nat
    BY DEF TypeOK, CallRecords, OrderRecords
  <1>2. DOMAIN order' = Orders /\ order' = [o \in Orders |-> order'[o]]
    BY DEF TypeOK
  <1>3. ASSUME NEW o \in Orders
        PROVE  /\ order'[o] \in OrderRecords
               /\ order'[o] = IF o = call[c].o
                          THEN [status |-> order[o].status, released |-> order[o].released,
                                repriceable |-> FALSE, penalty |-> order[o].penalty,
                                total |-> call[c].as.total, fee |-> call[c].as.fee,
                                share |-> order[o].share, cbt |-> call[c].as.cbt]
                          ELSE order[o]
    <2>1. order[o] \in OrderRecords
      BY DEF TypeOK
    <2>2. CASE o = call[c].o
      <3>1. order'[o] = [order[o] EXCEPT !.repriceable = FALSE, !.total = call[c].as.total,
                                         !.fee = call[c].as.fee, !.cbt = call[c].as.cbt]
        BY <2>2 DEF TypeOK
      <3>2. /\ order'[o] = [status |-> order[o].status, released |-> order[o].released,
                            repriceable |-> FALSE, penalty |-> order[o].penalty,
                            total |-> call[c].as.total, fee |-> call[c].as.fee,
                            share |-> order[o].share, cbt |-> call[c].as.cbt]
            /\ order'[o] \in OrderRecords
        <4>1. PICK row \in OrderRecords : row = order[o]
          BY <2>1
        <4>2. PICK t \in Nat : t = call[c].as.total
          BY <1>1
        <4>3. PICK f \in Nat : f = call[c].as.fee
          BY <1>1
        <4>4. PICK k \in Nat : k = call[c].as.cbt
          BY <1>1
        <4>5. PICK new : new = order'[o]
          OBVIOUS
        <4>6. new = [row EXCEPT !.repriceable = FALSE, !.total = t, !.fee = f, !.cbt = k]
          BY <3>1, <4>1, <4>2, <4>3, <4>4, <4>5, Zenon
        <4>7. new = [status |-> row.status, released |-> row.released, repriceable |-> FALSE,
                     penalty |-> row.penalty, total |-> t, fee |-> f, share |-> row.share,
                     cbt |-> k]
          BY <4>6, Zenon DEF OrderRecords
        <4>8. new \in OrderRecords
          BY <4>6 DEF OrderRecords
        <4> QED
          BY <4>1, <4>2, <4>3, <4>4, <4>5, <4>7, <4>8, Zenon
      <3> QED
        BY <2>2, <3>2, Zenon
    <2>3. CASE o # call[c].o
      BY <2>1, <2>3 DEF TypeOK
    <2> QED
      BY <2>2, <2>3
  <1> QED
    BY <1>2, <1>3

LEMMA CommitsType ==
  ASSUME TypeOK, NEW c \in Calls, Commits(c)
  PROVE  TypeOK'
  <1>k. /\ call[c] \in CallRecords /\ call[c].amount \in Nat
        /\ call[c].row \in OrderRecords /\ call[c].as \in OrderRecords
        /\ call[c].as.total \in Nat /\ call[c].as.fee \in Nat /\ call[c].as.cbt \in Nat
        /\ call[c].as.status \in Statuses /\ call[c].as.penalty \in Penalties
        /\ call[c].row.total \in Nat
    BY DEF TypeOK, CallRecords, OrderRecords
  <1>m. ASSUME NEW w \in Owners, NEW n \in Int, NEW hold \in Int, Writes(c, Moves(w, n), hold)
        PROVE  /\ available' \in [Owners -> Int] /\ escrow' \in Int
               /\ call' \in [Calls -> CallRecords] /\ lost' \in BOOLEAN /\ drift' \in Int
    BY <1>m, MovesType, WritesType
  <1>1. CASE CommitCreateOrder(c)
    <2>1. -call[c].amount \in Int /\ call[c].amount \in Int
      BY <1>k
    <2> QED
      BY <1>1, <2>1, <1>k, <1>m, Constants DEF CommitCreateOrder, TypeOK, history, paid
  <1>2. CASE CommitPurchase(c)
    <2>1. -call[c].as.total \in Int /\ call[c].as.fee \in Int /\ outside - call[c].amount \in Int
      BY <1>k DEF TypeOK
    <2>2. {"requester", "platform"} \in SUBSET Owners
      BY Constants
    <2>3. /\ available' \in [Owners -> Int] /\ escrow' \in Int
          /\ call' \in [Calls -> CallRecords] /\ lost' \in BOOLEAN /\ drift' \in Int
      BY <1>2, <2>1, <2>2, PurchaseMovesType, WritesType DEF CommitPurchase
    <2> QED
      BY <1>2, <2>1, <2>3, <1>k DEF CommitPurchase, TypeOK, history, paid
  <1>3. CASE CommitRelease(c)
    <2>1. -call[c].amount \in Int
      BY <1>k
    <2>2. /\ available' \in [Owners -> Int] /\ escrow' \in Int
          /\ call' \in [Calls -> CallRecords] /\ lost' \in BOOLEAN /\ drift' \in Int
      BY <1>3, <1>k, <2>1, SplitType, WritesType DEF CommitRelease
    <2>3. order' \in [Orders -> OrderRecords]
      BY <1>3 DEF CommitRelease, TypeOK, OrderRecords
    <2>4. overpaid' \in Nat /\ shortfall' \in Nat
      <3>1. TenantNet(call[c].row) \in Int /\ PlatformActual(call[c].row) \in Int
        BY <1>k, SplitType
      <3>2. Above0(-TenantNet(call[c].row)) \in Nat /\ Above0(-PlatformActual(call[c].row)) \in Nat
        BY <3>1 DEF Above0
      <3> QED
        BY <1>3, <3>2 DEF CommitRelease, TypeOK
    <2> QED
      BY <1>3, <2>2, <2>3, <2>4 DEF CommitRelease, TypeOK
  <1>4. CASE CommitRefund(c)
    <2>1. -call[c].amount \in Int /\ call[c].amount \in Int
      BY <1>k
    <2>2. /\ available' \in [Owners -> Int] /\ escrow' \in Int
          /\ call' \in [Calls -> CallRecords] /\ lost' \in BOOLEAN /\ drift' \in Int
      BY <1>4, <2>1, <1>m, EndsType, Constants DEF CommitRefund, TypeOK, history, paid
    <2>3. order' \in [Orders -> OrderRecords]
      BY <1>4, <1>k DEF CommitRefund, TypeOK, OrderRecords
    <2> QED
      BY <1>4, <2>2, <2>3 DEF CommitRefund, TypeOK, history, paid
  <1>5. CASE CommitManualRefund(c)
    <2>1. order' \in [Orders -> OrderRecords]
      <3>1. "REFUNDED" \in Statuses
        BY Constants
      <3> QED
        BY <1>5, <3>1 DEF CommitManualRefund, TypeOK, OrderRecords
    <2>2. call[c].amount \in Int /\ outside + call[c].amount \in Int
      BY <1>k DEF TypeOK
    <2> QED
      BY <1>5, <1>m, <2>1, <2>2, Constants DEF CommitManualRefund, TypeOK, history, paid
  <1>6. CASE CommitPenalty(c)
    <2>1. order' \in [Orders -> OrderRecords]
      <3>1. "SUCCESS" \in Penalties
        BY Constants
      <3> QED
        BY <1>6, <3>1 DEF CommitPenalty, TypeOK, OrderRecords
    <2>2. -call[c].amount \in Int /\ outside - call[c].amount \in Int
      BY <1>k DEF TypeOK
    <2> QED
      BY <1>6, <1>m, <2>1, <2>2, Constants DEF CommitPenalty, TypeOK, history, paid
  <1>7. CASE CommitRemediation(c)
    <2>1. order' \in [Orders -> OrderRecords]
      BY <1>7, RepricingWrites DEF CommitRemediation
    <2>2. PICK delta \in Int : delta = call[c].as.total - call[c].row.total
      BY <1>k
    <2>3. /\ available' \in [Owners -> Int] /\ escrow' \in Int
          /\ call' \in [Calls -> CallRecords] /\ lost' \in BOOLEAN /\ drift' \in Int
      <3>1. CASE delta = 0
        <4>1. Writes(c, [w \in {} |-> 0], 0)
          BY <1>7, <2>2, <3>1 DEF CommitRemediation
        <4>2. {} \in SUBSET Owners /\ [w \in {} |-> 0] \in [{} -> Int] /\ 0 \in Int
          OBVIOUS
        <4> QED
          BY <4>1, <4>2, WritesType
      <3>2. CASE delta # 0
        <4>1. -delta \in Int /\ Writes(c, Moves("requester", -delta), delta)
          BY <1>7, <2>2, <3>2 DEF CommitRemediation
        <4> QED
          BY <4>1, <1>m, Constants
      <3> QED
        BY <3>1, <3>2
    <2> QED
      BY <1>7, <2>1, <2>3 DEF CommitRemediation, TypeOK, history, paid
  <1>8. CASE CommitWithdrawal(c)
    <2>1. -call[c].amount \in Int /\ aside + call[c].amount \in Int
      BY <1>k DEF TypeOK
    <2> QED
      BY <1>8, <1>m, <2>1, Constants DEF CommitWithdrawal, TypeOK, history, paid
  <1>9. CASE CommitRejection(c)
    <2>1. call[c].amount \in Int /\ aside - call[c].amount \in Int
      BY <1>k DEF TypeOK
    <2> QED
      BY <1>9, <1>m, <2>1, Constants DEF CommitRejection, TypeOK, history, paid
  <1> QED
    BY <1>1, <1>2, <1>3, <1>4, <1>5, <1>6, <1>7, <1>8, <1>9 DEF Commits

(* The transaction's read leaves the rest of what the handler keeps.       *)
LEMMA TransactionReadsType ==
  ASSUME TypeOK, NEW c \in Calls, TransactionReads(c)
  PROVE  /\ TypeOK'
         /\ call' = [call EXCEPT ![c] = call'[c]]
         /\ call'[c].kind = call[c].kind /\ call'[c].o = call[c].o
         /\ call'[c].row = call[c].row /\ call'[c].as = call[c].as
         /\ call'[c].amount = call[c].amount /\ call'[c].inTx = TRUE
         /\ call'[c].seen = NowSeen(call[c])
         /\ call'[c].held = ReadEscrow(call[c].kind)
  <1>1. call[c] \in CallRecords
    BY DEF TypeOK
  <1>2. call[c].kind \in Kinds /\ call[c].seen \in [Owners -> Int]
    BY <1>1 DEF CallRecords
  <1>3. PICK seen, held : seen = NowSeen(call[c]) /\ held = ReadEscrow(call[c].kind)
    OBVIOUS
  <1>4. seen \in [Owners -> Int] /\ held \in Int
    BY <1>2, <1>3, ReadTypes DEF TypeOK, NowSeen
  <1>5. call' = [call EXCEPT ![c] = [call[c] EXCEPT !.inTx = TRUE, !.seen = seen, !.held = held]]
    BY <1>3 DEF TransactionReads
  <1>6. PICK k : k = [call[c] EXCEPT !.inTx = TRUE, !.seen = seen, !.held = held]
    OBVIOUS
  <1>7. call' = [call EXCEPT ![c] = k]
    BY <1>5, <1>6
  <1>8. k \in CallRecords
    BY <1>1, <1>4, <1>6 DEF CallRecords
  <1>9. /\ k.kind = call[c].kind /\ k.o = call[c].o /\ k.row = call[c].row /\ k.as = call[c].as
        /\ k.amount = call[c].amount /\ k.inTx = TRUE
        /\ k.seen = seen /\ k.held = held
    BY <1>1, <1>6 DEF CallRecords
  <1>10. call'[c] = k
    BY <1>7 DEF TypeOK
  <1>11. call' \in [Calls -> CallRecords]
    BY <1>7, <1>8 DEF TypeOK
  <1>12. TypeOK'
    BY <1>11 DEF TypeOK, TransactionReads, history, paid
  <1> QED
    BY <1>3, <1>7, <1>9, <1>10, <1>12

LEMMA TypeStep ==
  ASSUME TypeOK, [Next]_vars
  PROVE  TypeOK'
  <1>1. ASSUME NEW amount \in Deposits, CreditFunding(amount)
        PROVE  TypeOK'
    <2>1. amount \in Nat
      BY WalletAssumption
    <2> QED
      BY <1>1, <2>1 DEF CreditFunding, TypeOK, Owners, history, paid
  <1>2. ASSUME NEW amount \in Payouts, PayoutFailed(amount)
        PROVE  TypeOK'
    <2>1. amount \in Nat
      BY WalletAssumption
    <2> QED
      BY <1>2, <2>1 DEF PayoutFailed, TypeOK, Owners, history, paid
  <1>3. ASSUME NEW c \in Calls, Fails(c)
        PROVE  TypeOK'
    BY <1>3, EndsType DEF Fails, TypeOK, history, paid
  <1>4. ASSUME NEW o \in Orders, CreateDispute(o) \/ ReviewForCbt(o) \/ WaivePenalty(o)
        PROVE  TypeOK'
    <2>1. "HELD" \in Statuses /\ "DISPUTED" \in Statuses /\ "REVERSED" \in Penalties
      BY Constants
    <2>2. order' \in [Orders -> OrderRecords]
      BY <1>4, <2>1 DEF CreateDispute, ReviewForCbt, WaivePenalty, TypeOK, OrderRecords
    <2> QED
      BY <1>4, <2>2 DEF CreateDispute, ReviewForCbt, WaivePenalty, TypeOK, history, paid
  <1>5. CASE UNCHANGED vars
    BY <1>5 DEF vars, TypeOK, history, paid
  <1> QED
    BY <1>1, <1>2, <1>3, <1>4, <1>5, StartsType, CommitsType, TransactionReadsType DEF Next

LEMMA TypeInit == Init => TypeOK
  <1> SUFFICES ASSUME Init
               PROVE  TypeOK
    OBVIOUS
  <1>1. available \in [Owners -> Int] /\ escrow \in Int /\ aside \in Int /\ outside \in Int
    BY DEF Init
  <1>2. order \in [Orders -> OrderRecords]
    BY RowTypes, Zenon DEF Init
  <1>3. call \in [Calls -> CallRecords]
    BY IdleCallType, Zenon DEF Init
  <1> QED
    BY <1>1, <1>2, <1>3, Zenon DEF Init, TypeOK, history, paid

(* Balances are whole numbers, and rows and handlers are well formed, at   *)
(* whatever prices and however repricings follow each other.               *)
THEOREM WalletTypeCorrect == Spec => []TypeOK
  BY TypeInit, TypeStep, PTL DEF Spec

-----------------------------------------------------------------------------
(* No balance is overdrawn, and every kobo is accounted for.               *)

(* What a handler keeps is enough for what it is going to write, at the    *)
(* latest since its transaction has read.                                  *)
Solvent(k) ==
    /\ k.held >= 0 /\ \A w \in Owners \ {"platform"} : k.seen[w] >= 0
    /\ k.seen["platform"] >= -shortfall
    /\ k.kind = "create" => k.seen["requester"] >= k.amount
    /\ k.kind = "purchase" => /\ k.seen["requester"] >= k.as.total
                              /\ k.as.total = k.amount + k.as.fee
    /\ k.kind = "release" => k.held >= k.amount /\ k.amount = k.row.total
    /\ k.kind = "refund" /\ k.inTx => k.row.released \/ k.held >= k.amount
    /\ k.kind = "penalty" /\ k.inTx => k.seen["center"] >= k.amount
    /\ k.kind = "remediate" /\ k.inTx => /\ k.seen["requester"] >= k.as.total - k.row.total
                                         /\ k.held >= k.row.total - k.as.total
    /\ k.kind = "withdraw" => k.seen["center"] >= k.amount

SafeInv == NeverOverdrawn /\ Conserved /\ \A c \in Calls : Solvent(call[c])

LEMMA IdleCallSolvent == ASSUME TypeOK PROVE Solvent(IdleCall)
  BY DEF TypeOK, Solvent, IdleCall, Owners

LEMMA ReadsCover ==
  ASSUME TypeOK, NeverOverdrawn, NEW kind \in Kinds
  PROVE  /\ ReadEscrow(kind) >= 0
         /\ \A w \in Owners \ {"platform"} : ReadBalances(kind)[w] >= 0
         /\ ReadBalances(kind)["platform"] >= -shortfall
  BY DEF TypeOK, NeverOverdrawn, ReadEscrow, ReadBalances, Owners

(* A handler begins with something it can pay.                             *)
LEMMA BeginsSafe ==
  ASSUME TypeOK, SafeInv, NEW c \in Calls, NEW kind \in Kinds \ {"idle"},
         NEW o, NEW row, NEW as, NEW amount,
         Begins(c, kind, o, row, as, amount),
         NEW k,
         k = [kind |-> kind, o |-> o, row |-> row, as |-> as, amount |-> amount,
              inTx |-> kind \notin ReadsInTx, seen |-> ReadBalances(kind),
              held |-> ReadEscrow(kind)],
         Solvent(k)
  PROVE  SafeInv'
  <1>1. call' = [call EXCEPT ![c] = k]
        /\ UNCHANGED <<available, escrow, aside, outside, drift, overpaid, shortfall>>
    BY DEF Begins, history, paid
  <1>2. \A d \in Calls : Solvent(call'[d])
    BY <1>1 DEF SafeInv, TypeOK
  <1>3. \A d \in Calls : Solvent(call[d])'
    BY <1>1, <1>2 DEF Solvent
  <1> QED
    BY <1>1, <1>3 DEF SafeInv, NeverOverdrawn, Conserved, InWallets

LEMMA StartsSafe ==
  ASSUME TypeOK, SafeInv, NEW c \in Calls, Starts(c)
  PROVE  SafeInv'
  <1> DEFINE rec(kind, o, row, as, amount) ==
               [kind |-> kind, o |-> o, row |-> row, as |-> as, amount |-> amount,
                inTx |-> kind \notin ReadsInTx, seen |-> ReadBalances(kind),
                held |-> ReadEscrow(kind)]
  <1>k. {"create", "purchase", "release", "refund", "repay", "penalty", "remediate",
         "withdraw", "reject"} \subseteq Kinds \ {"idle"}
    BY DEF Kinds
  <1>c. ASSUME NEW kind \in Kinds
        PROVE  /\ ReadEscrow(kind) >= 0
               /\ \A w \in Owners \ {"platform"} : ReadBalances(kind)[w] >= 0
               /\ ReadBalances(kind)["platform"] >= -shortfall
    BY ReadsCover DEF SafeInv
  <1>1. ASSUME NEW o \in Orders, NEW p \in Prices, BeginCreateOrder(c, o, p)
        PROVE  SafeInv'
    <2>1. Begins(c, "create", o, order[o], Ordered(p), p.total)
      BY <1>1 DEF BeginCreateOrder
    <2>2. ReadBalances("create")["requester"] >= p.total
      BY <1>1 DEF BeginCreateOrder, ReadBalances, Balances, Owners
    <2>3. Solvent(rec("create", o, order[o], Ordered(p), p.total))
      BY <1>c, <1>k, <2>2 DEF Solvent
    <2> QED
      BY <2>1, <2>3, <1>k, BeginsSafe
  <1>2. ASSUME NEW o \in Orders, NEW p \in Prices, PurchaseFromProvider(c, o, p)
        PROVE  SafeInv'
    <2>1. Begins(c, "purchase", o, order[o], Purchased(p), p.provider)
      BY <1>2 DEF PurchaseFromProvider
    <2>2. ReadBalances("purchase")["requester"] >= p.provider + p.flat
      BY <1>2 DEF PurchaseFromProvider, ReadBalances, Balances, Owners
    <2>3. Solvent(rec("purchase", o, order[o], Purchased(p), p.provider))
      <3>1. Purchased(p).total = p.provider + p.flat /\ Purchased(p).fee = p.flat
        BY DEF Purchased
      <3> QED
        BY <1>c, <1>k, <2>2, <3>1 DEF Solvent
    <2> QED
      BY <2>1, <2>3, <1>k, BeginsSafe
  <1>3. ASSUME NEW o \in Orders, NEW p \in Prices, RemediationCandidate(c, o, p)
        PROVE  SafeInv'
    <2>1. Begins(c, "remediate", o, order[o], Repriced(order[o], p), 0)
      BY <1>3 DEF RemediationCandidate
    <2>2. Solvent(rec("remediate", o, order[o], Repriced(order[o], p), 0))
      BY <1>c, <1>k DEF Solvent, ReadsInTx
    <2> QED
      BY <2>1, <2>2, <1>k, BeginsSafe
  <1>4. ASSUME NEW o \in Orders, NEW penalty \in {order[o].penalty, "PENDING"},
               ReviewForRequester(c, o, penalty)
        PROVE  SafeInv'
    <2>1. PICK as : as = [order[o] EXCEPT
                        !.status = IF order[o].released THEN "RESOLVED" ELSE "REFUNDED",
                        !.penalty = penalty]
      OBVIOUS
    <2>2. Begins(c, "refund", o, order[o], as, order[o].total)
      BY <1>4, <2>1 DEF ReviewForRequester
    <2>3. Solvent(rec("refund", o, order[o], as, order[o].total))
      BY <1>c, <1>k DEF Solvent, ReadsInTx
    <2> QED
      BY <2>2, <2>3, <1>k, BeginsSafe
  <1>5. ASSUME NEW o \in Orders, ReadRelease(c, o)
        PROVE  SafeInv'
    <2>1. /\ Begins(c, "release", o, order[o], order[o], order[o].total)
          /\ ReadEscrow("release") >= order[o].total
      BY <1>5 DEF ReadRelease, ReadEscrow
    <2>2. Solvent(rec("release", o, order[o], order[o], order[o].total))
      BY <1>c, <1>k, <2>1 DEF Solvent
    <2> QED
      BY <2>1, <2>2, <1>k, BeginsSafe
  <1>6. ASSUME NEW o \in Orders, FollowUpRefund(c, o)
        PROVE  SafeInv'
    <2>1. PICK as : as = [order[o] EXCEPT !.status = "REFUNDED"]
      OBVIOUS
    <2>2. Begins(c, "repay", o, order[o], as, order[o].total)
      BY <1>6, <2>1 DEF FollowUpRefund
    <2>3. Solvent(rec("repay", o, order[o], as, order[o].total))
      BY <1>c, <1>k DEF Solvent
    <2> QED
      BY <2>2, <2>3, <1>k, BeginsSafe
  <1>7. ASSUME NEW o \in Orders, FollowUpPenalty(c, o)
        PROVE  SafeInv'
    <2>1. PICK as : as = [order[o] EXCEPT !.penalty = "SUCCESS"]
      OBVIOUS
    <2>2. Begins(c, "penalty", o, order[o], as, order[o].cbt)
      BY <1>7, <2>1 DEF FollowUpPenalty
    <2>3. Solvent(rec("penalty", o, order[o], as, order[o].cbt))
      BY <1>c, <1>k DEF Solvent, ReadsInTx
    <2> QED
      BY <2>2, <2>3, <1>k, BeginsSafe
  <1>8. ASSUME NEW amount \in Payouts, RequestWithdrawal(c, amount)
        PROVE  SafeInv'
    <2>1. Begins(c, "withdraw", NoOrder, NoSuchOrder, NoSuchOrder, amount)
      BY <1>8 DEF RequestWithdrawal
    <2>2. ReadBalances("withdraw")["center"] >= amount
      BY <1>8 DEF RequestWithdrawal, ReadBalances, Balances, Owners
    <2>3. Solvent(rec("withdraw", NoOrder, NoSuchOrder, NoSuchOrder, amount))
      BY <1>c, <1>k, <2>2 DEF Solvent
    <2> QED
      BY <2>1, <2>3, <1>k, BeginsSafe
  <1>9. ASSUME NEW amount \in Payouts, RejectWithdrawal(c, amount)
        PROVE  SafeInv'
    <2>1. Begins(c, "reject", NoOrder, NoSuchOrder, NoSuchOrder, amount)
      BY <1>9 DEF RejectWithdrawal
    <2>2. Solvent(rec("reject", NoOrder, NoSuchOrder, NoSuchOrder, amount))
      BY <1>c, <1>k DEF Solvent
    <2> QED
      BY <2>1, <2>2, <1>k, BeginsSafe
  <1> QED
    BY <1>1, <1>2, <1>3, <1>4, <1>5, <1>6, <1>7, <1>8, <1>9 DEF Starts

-----------------------------------------------------------------------------
(* What a handler's writes do to the balances and to the sum of them.      *)

LEMMA WritesSafe ==
  ASSUME TypeOK, NeverOverdrawn, NEW c \in Calls, NEW D \in SUBSET Owners,
         NEW moves \in [D -> Int], NEW hold \in Int, Writes(c, moves, hold),
         shortfall' \in Nat, shortfall' >= shortfall,
         \A w \in D \ {"platform"} : call[c].seen[w] + moves[w] >= 0,
         "platform" \in D => call[c].seen["platform"] + moves["platform"] >= -shortfall',
         hold = 0 \/ call[c].held + hold >= 0
  PROVE  NeverOverdrawn'
  <1>1. \A w \in Owners : available'[w] = IF w \in D THEN call[c].seen[w] + moves[w]
                                                    ELSE available[w]
    BY DEF Writes
  <1>2. escrow' >= 0
    BY DEF NeverOverdrawn, Writes, TypeOK
  <1>3. \A w \in Owners \ {"platform"} : available'[w] >= 0
    BY <1>1 DEF NeverOverdrawn
  <1>4. shortfall \in Nat /\ available["platform"] \in Int
    BY DEF TypeOK, Owners
  <1>5. available'["platform"] >= -shortfall'
    <2>1. CASE "platform" \in D
      BY <1>1, <2>1 DEF Owners
    <2>2. CASE "platform" \notin D
      <3>1. available'["platform"] = available["platform"]
        BY <1>1, <2>2 DEF Owners
      <3>2. available["platform"] >= -shortfall
        BY DEF NeverOverdrawn
      <3> QED
        BY <1>4, <3>1, <3>2
    <2> QED
      BY <2>1, <2>2
  <1> QED
    BY <1>2, <1>3, <1>5 DEF NeverOverdrawn

(* What the moves add up to.                                               *)
Gain(moves, D) ==
    LET of(w) == IF w \in D THEN moves[w] ELSE 0
    IN  of("requester") + of("center") + of("tenant") + of("platform")

LEMMA WritesSum ==
  ASSUME TypeOK, NEW c \in Calls, NEW D \in SUBSET Owners,
         NEW moves \in [D -> Int], NEW hold \in Int, Writes(c, moves, hold)
  PROVE  /\ InWallets \in Int /\ InWallets' \in Int /\ Gain(moves, D) \in Int
         /\ drift \in Int /\ drift' \in Int /\ escrow \in Int /\ escrow' \in Int
         /\ InWallets' + escrow' - drift'
              = InWallets + escrow - drift + Gain(moves, D) + hold
  <1> DEFINE seen == call[c].seen
             new(w) == IF w \in D THEN seen[w] + moves[w] ELSE available[w]
             stale(w) == IF w \in D THEN seen[w] - available[w] ELSE 0
             gain(w) == IF w \in D THEN moves[w] ELSE 0
  <1>1. /\ seen \in [Owners -> Int] /\ call[c].held \in Int /\ escrow \in Int
        /\ drift \in Int /\ \A w \in Owners : available[w] \in Int
    BY DEF TypeOK, CallRecords
  <1>2. ASSUME NEW w \in Owners
        PROVE  /\ new(w) \in Int /\ stale(w) \in Int /\ gain(w) \in Int
               /\ available'[w] = new(w)
               /\ new(w) = available[w] + stale(w) + gain(w)
    <2>1. available'[w] = new(w)
      BY DEF Writes
    <2>2. CASE w \in D
      BY <1>1, <2>1, <2>2
    <2>3. CASE w \notin D
      BY <1>1, <2>1, <2>3
    <2> QED
      BY <2>2, <2>3
  <1>3. DOMAIN moves = D
    OBVIOUS
  <1>4. Stale(c, D) = stale("requester") + stale("center") + stale("tenant") + stale("platform")
    BY DEF Stale
  <1>5. Gain(moves, D) = gain("requester") + gain("center") + gain("tenant") + gain("platform")
    BY DEF Gain
  <1> HIDE DEF seen, new, stale, gain
  <1>6. /\ InWallets' = InWallets + Stale(c, D) + Gain(moves, D)
        /\ InWallets \in Int /\ Stale(c, D) \in Int /\ Gain(moves, D) \in Int
    <2>1. /\ available'["requester"] = available["requester"] + stale("requester") + gain("requester")
          /\ stale("requester") \in Int /\ gain("requester") \in Int /\ available["requester"] \in Int
      BY <1>1, <1>2, Constants
    <2>2. /\ available'["center"] = available["center"] + stale("center") + gain("center")
          /\ stale("center") \in Int /\ gain("center") \in Int /\ available["center"] \in Int
      BY <1>1, <1>2, Constants
    <2>3. /\ available'["tenant"] = available["tenant"] + stale("tenant") + gain("tenant")
          /\ stale("tenant") \in Int /\ gain("tenant") \in Int /\ available["tenant"] \in Int
      BY <1>1, <1>2, Constants
    <2>4. /\ available'["platform"] = available["platform"] + stale("platform") + gain("platform")
          /\ stale("platform") \in Int /\ gain("platform") \in Int /\ available["platform"] \in Int
      BY <1>1, <1>2, Constants
    <2> QED
      BY <1>4, <1>5, <2>1, <2>2, <2>3, <2>4 DEF InWallets
  <1>7. PICK h \in Int : h = IF hold = 0 THEN 0 ELSE call[c].held - escrow
    BY <1>1
  <1>8. drift' = drift + Stale(c, D) + h
    BY <1>3, <1>7 DEF Writes
  <1>9. escrow' = escrow + hold + h
    <2>1. CASE hold = 0
      BY <1>1, <1>7, <2>1 DEF Writes
    <2>2. CASE hold # 0
      BY <1>1, <1>7, <2>2 DEF Writes
    <2> QED
      BY <2>1, <2>2
  <1>10. PICK st, g, i \in Int : st = Stale(c, D) /\ g = Gain(moves, D) /\ i = InWallets
    BY <1>6
  <1>11. InWallets' = i + st + g /\ drift' = drift + st + h
    BY <1>6, <1>8, <1>10
  <1>12. (i + st + g) + (escrow + hold + h) - (drift + st + h) = i + escrow - drift + g + hold
    BY <1>1, <1>7, <1>10
  <1> QED
    BY <1>1, <1>7, <1>9, <1>10, <1>11, <1>12

LEMMA MoveGain ==
  ASSUME NEW w \in Owners, NEW n \in Int
  PROVE  Gain(Moves(w, n), {w}) = n
  BY DEF Gain, Moves, Owners

(* A handler whose moves, escrow and other money balance keeps the sum.    *)
LEMMA KeepsSum ==
  ASSUME TypeOK, TypeOK', Conserved, NEW c \in Calls, NEW D \in SUBSET Owners,
         NEW moves \in [D -> Int], NEW hold \in Int, Writes(c, moves, hold),
         Gain(moves, D) + hold + (aside' - aside) = (outside' - outside) + (overpaid' - overpaid)
  PROVE  Conserved'
  <1>1. /\ InWallets \in Int /\ InWallets' \in Int /\ Gain(moves, D) \in Int
        /\ InWallets' + escrow' - drift'
             = InWallets + escrow - drift + Gain(moves, D) + hold
    BY WritesSum
  <1>2. /\ escrow \in Int /\ escrow' \in Int /\ drift \in Int /\ drift' \in Int
        /\ aside \in Int /\ aside' \in Int /\ outside \in Int /\ outside' \in Int
        /\ overpaid \in Int /\ overpaid' \in Int
    BY DEF TypeOK
  <1>3. InWallets + escrow + aside = outside + overpaid + drift
    BY DEF Conserved
  <1>4. PICK i1, i2, g \in Int : i1 = InWallets /\ i2 = InWallets' /\ g = Gain(moves, D)
    BY <1>1
  <1>5. /\ i2 + escrow' - drift' = i1 + escrow - drift + g + hold
        /\ i1 + escrow + aside = outside + overpaid + drift
        /\ g + hold + (aside' - aside) = (outside' - outside) + (overpaid' - overpaid)
    BY <1>1, <1>3, <1>4
  <1>6. i2 + escrow' + aside' = outside' + overpaid' + drift'
    BY <1>2, <1>4, <1>5
  <1> QED
    BY <1>4, <1>6 DEF Conserved

(* What a release takes from escrow it pays out, and the overpayment.      *)
LEMMA SplitGain ==
  ASSUME NEW row \in OrderRecords
  PROVE  Gain(Split(row), Earners(row)) = row.total + Above0(-TenantNet(row))
  <1>1. /\ row.total \in Nat /\ row.cbt \in Nat /\ TenantNet(row) \in Int
        /\ PlatformActual(row) = row.total - row.cbt - TenantNet(row)
    BY SplitType DEF OrderRecords, PlatformActual
  <1>2. /\ "center" \in Earners(row) /\ "platform" \in Earners(row)
        /\ "requester" \notin Earners(row)
        /\ "tenant" \in Earners(row) <=> TenantNet(row) > 0
    BY DEF Earners
  <1>3. /\ Split(row)["center"] = row.cbt
        /\ Split(row)["platform"] = PlatformActual(row)
        /\ TenantNet(row) > 0 => Split(row)["tenant"] = TenantNet(row)
    BY SplitType
  <1>4. Gain(Split(row), Earners(row))
          = 0 + row.cbt + (IF TenantNet(row) > 0 THEN TenantNet(row) ELSE 0) + PlatformActual(row)
    BY <1>2, <1>3 DEF Gain
  <1>5. CASE TenantNet(row) > 0
    BY <1>1, <1>4, <1>5 DEF Above0
  <1>6. CASE ~(TenantNet(row) > 0)
    BY <1>1, <1>4, <1>6 DEF Above0
  <1> QED
    BY <1>5, <1>6

(* A handler ends, and the others keep what they have.                     *)
LEMMA EndsSafe ==
  ASSUME TypeOK, TypeOK', SafeInv, NEW c \in Calls, Ends(c), shortfall' >= shortfall,
         NeverOverdrawn', Conserved'
  PROVE  SafeInv'
  <1>1. call'[c] = IdleCall /\ \A d \in Calls : d # c => call'[d] = call[d]
    BY DEF Ends, TypeOK
  <1>2. Solvent(IdleCall)'
    <2>1. /\ IdleCall.kind = "idle" /\ IdleCall.held = 0 /\ "platform" \in Owners
          /\ \A w \in Owners : IdleCall.seen[w] = 0
      BY DEF IdleCall, Owners
    <2>2. shortfall' \in Nat
      BY DEF TypeOK
    <2> QED
      BY <2>1, <2>2 DEF Solvent
  <1>3. ASSUME NEW d \in Calls
        PROVE  Solvent(call[d])'
    <2>1. CASE d = c
      BY <1>1, <1>2, <2>1 DEF Solvent
    <2>2. CASE d # c
      <3>1. Solvent(call[d]) /\ call'[d] = call[d]
        BY <1>1, <2>2 DEF SafeInv
      <3>2. call[d].seen["platform"] \in Int /\ shortfall \in Nat /\ shortfall' \in Nat
        BY DEF TypeOK, CallRecords, Owners
      <3>3. call[d].seen["platform"] >= -shortfall'
        BY <3>1, <3>2 DEF Solvent
      <3> QED
        BY <3>1, <3>3 DEF Solvent
    <2> QED
      BY <2>1, <2>2
  <1> QED
    BY <1>3 DEF SafeInv

LEMMA CommitsSafe ==
  ASSUME TypeOK, SafeInv, NEW c \in Calls, Commits(c)
  PROVE  SafeInv'
  <1> DEFINE k == call[c]
  <1>t. TypeOK'
    BY CommitsType
  <1>k. /\ k \in CallRecords /\ k.amount \in Nat /\ k.row \in OrderRecords /\ k.as \in OrderRecords
        /\ k.seen \in [Owners -> Int] /\ k.held \in Int
        /\ k.as.total \in Nat /\ k.as.fee \in Nat /\ k.row.total \in Nat /\ k.row.cbt \in Nat
    BY DEF TypeOK, CallRecords, OrderRecords
  <1>i. /\ escrow \in Int /\ aside \in Int /\ outside \in Int /\ drift \in Int
        /\ overpaid \in Nat /\ shortfall \in Nat
    BY DEF TypeOK
  <1>s. /\ Solvent(k) /\ k.held >= 0 /\ \A w \in Owners \ {"platform"} : k.seen[w] >= 0
        /\ k.seen["platform"] >= -shortfall
        /\ NeverOverdrawn /\ Conserved
    BY DEF SafeInv, Solvent
  <1>w. ASSUME NEW w \in {"requester", "center"}, NEW n \in Int, NEW hold \in Int,
               Writes(c, Moves(w, n), hold),
               k.seen[w] + n >= 0, hold = 0 \/ k.held + hold >= 0, UNCHANGED paid,
               n + hold + (aside' - aside) = outside' - outside
        PROVE  SafeInv'
    <2>1. PICK moves, D : moves = Moves(w, n) /\ D = {w}
      OBVIOUS
    <2>2. D \in SUBSET Owners /\ moves \in [D -> Int] /\ moves[w] = n /\ Gain(moves, D) = n
      BY <2>1, MovesType, MoveGain, Constants
    <2>3. Writes(c, moves, hold) /\ Ends(c)
      BY <1>w, <2>1 DEF Writes
    <2>4. overpaid' = overpaid /\ shortfall' = shortfall
      BY <1>w DEF paid
    <2>5. NeverOverdrawn'
      <3>1. \A v \in D \ {"platform"} : k.seen[v] + moves[v] >= 0
        BY <1>w, <2>1, <2>2
      <3>2. "platform" \notin D /\ shortfall' >= shortfall /\ shortfall' \in Nat
        BY <1>i, <2>1, <2>4
      <3> QED
        BY <1>s, <1>w, <2>2, <2>3, <3>1, <3>2, WritesSafe
    <2>6. Conserved'
      <3>1. Gain(moves, D) + hold + (aside' - aside)
              = (outside' - outside) + (overpaid' - overpaid)
        <4>1. overpaid' - overpaid = 0 /\ outside' - outside \in Int
          BY <1>i, <1>t, <2>4 DEF TypeOK
        <4> QED
          BY <1>w, <2>2, <4>1
      <3> QED
        BY <1>s, <1>t, <2>2, <2>3, <3>1, KeepsSum
    <2> QED
      BY <1>i, <1>t, <2>3, <2>4, <2>5, <2>6, EndsSafe
  <1>1. CASE CommitCreateOrder(c)
    <2>1. k.kind = "create" /\ k.seen["requester"] >= k.amount
      BY <1>1, <1>s DEF CommitCreateOrder, Ready, Solvent
    <2>2. /\ Writes(c, Moves("requester", -k.amount), k.amount)
          /\ -k.amount \in Int /\ k.amount \in Int
          /\ k.seen["requester"] + (-k.amount) >= 0 /\ k.held + k.amount >= 0
          /\ UNCHANGED <<aside, outside, paid>>
      BY <1>1, <1>k, <1>s, <2>1, Constants DEF CommitCreateOrder
    <2> QED
      BY <1>i, <1>k, <1>w, <2>2
  <1>2. CASE CommitPurchase(c)
    <2>1. /\ k.kind = "purchase" /\ k.seen["requester"] >= k.as.total
          /\ k.as.total = k.amount + k.as.fee
      BY <1>2, <1>s DEF CommitPurchase, Ready, Solvent
    <2>2. PICK moves, D : /\ moves = [w \in {"requester", "platform"} |->
                                        IF w = "requester" THEN -k.as.total ELSE k.as.fee]
                          /\ D = {"requester", "platform"}
      OBVIOUS
    <2>3. /\ D \in SUBSET Owners /\ moves \in [D -> Int]
          /\ moves["requester"] = -k.as.total /\ moves["platform"] = k.as.fee
      BY <1>k, <2>2, Constants
    <2>4. /\ Writes(c, moves, 0) /\ Ends(c) /\ outside' = outside - k.amount
          /\ UNCHANGED <<aside, overpaid, shortfall>>
      BY <1>2, <2>2 DEF CommitPurchase, Writes, paid
    <2>5. PICK hold \in Int : hold = 0
      OBVIOUS
    <2>6. Writes(c, moves, hold)
      BY <2>4, <2>5
    <2>7. NeverOverdrawn'
      <3>1. \A w \in D \ {"platform"} : k.seen[w] + moves[w] >= 0
        BY <1>k, <2>1, <2>2, <2>3, Constants
      <3>2. k.seen["platform"] + moves["platform"] >= -shortfall'
        BY <1>k, <1>i, <1>s, <2>3, <2>4, Constants
      <3>3. shortfall' \in Nat /\ shortfall' >= shortfall
        BY <1>i, <2>4
      <3> QED
        BY <1>s, <2>3, <2>5, <2>6, <3>1, <3>2, <3>3, WritesSafe
    <2>8. Conserved'
      <3>1. Gain(moves, D) = (-k.as.total) + 0 + 0 + k.as.fee
        BY <2>2, <2>3 DEF Gain
      <3>2. Gain(moves, D) + hold + (aside' - aside)
              = (outside' - outside) + (overpaid' - overpaid)
        BY <1>i, <1>k, <2>1, <2>4, <2>5, <3>1
      <3> QED
        BY <1>s, <1>t, <2>3, <2>6, <3>2, KeepsSum
    <2> QED
      BY <1>i, <1>t, <2>4, <2>7, <2>8, EndsSafe
  <1>3. CASE CommitRelease(c)
    <2>1. k.kind = "release" /\ k.held >= k.amount /\ k.amount = k.row.total
      BY <1>3, <1>s DEF CommitRelease, Ready, Solvent
    <2>2. PICK moves, D, hold, net, plat :
             /\ moves = Split(k.row) /\ D = Earners(k.row) /\ hold = -k.amount
             /\ net = TenantNet(k.row) /\ plat = PlatformActual(k.row)
      OBVIOUS
    <2>3. /\ D \in SUBSET Owners /\ moves \in [D -> Int] /\ hold \in Int
          /\ net \in Int /\ plat \in Int
          /\ moves["center"] = k.row.cbt /\ moves["platform"] = plat
          /\ net > 0 => moves["tenant"] = net
          /\ Gain(moves, D) = k.row.total + Above0(-net)
      BY <1>k, <2>2, SplitType, SplitGain
    <2>4. /\ Writes(c, moves, hold) /\ Ends(c)
          /\ overpaid' = overpaid + Above0(-net)
          /\ shortfall' = shortfall + Above0(-plat)
          /\ UNCHANGED <<aside, outside>>
      BY <1>3, <2>2 DEF CommitRelease, Writes
    <2>5. /\ Above0(-net) \in Nat /\ Above0(-plat) \in Nat /\ plat >= -Above0(-plat)
      BY <2>3 DEF Above0
    <2>6. shortfall' \in Nat /\ shortfall' >= shortfall
      BY <1>i, <2>4, <2>5
    <2>7. NeverOverdrawn'
      <3>1. \A w \in D \ {"platform"} : k.seen[w] + moves[w] >= 0
        <4>1. D \ {"platform"} \subseteq {"center"} \cup (IF net > 0 THEN {"tenant"} ELSE {})
          BY <2>2 DEF Earners
        <4>2. k.seen["center"] \in Int /\ k.seen["tenant"] \in Int
              /\ k.seen["center"] >= 0 /\ k.seen["tenant"] >= 0
          BY <1>k, <1>s, Constants
        <4> QED
          BY <1>k, <2>3, <4>1, <4>2
      <3>2. k.seen["platform"] + moves["platform"] >= -shortfall'
        <4>1. k.seen["platform"] \in Int
          BY <1>k, Constants
        <4> QED
          BY <1>i, <1>s, <2>3, <2>4, <2>5, <4>1
      <3>3. k.held + hold >= 0
        BY <1>k, <2>1, <2>2
      <3> QED
        BY <1>s, <2>3, <2>4, <2>6, <3>1, <3>2, <3>3, WritesSafe
    <2>8. Conserved'
      <3>1. Gain(moves, D) + hold + (aside' - aside)
              = (outside' - outside) + (overpaid' - overpaid)
        BY <1>i, <1>k, <2>1, <2>2, <2>3, <2>4, <2>5
      <3> QED
        BY <1>s, <1>t, <2>3, <2>4, <3>1, KeepsSum
    <2> QED
      BY <1>t, <2>4, <2>6, <2>7, <2>8, EndsSafe
  <1>4. CASE CommitRefund(c)
    <2>1. k.kind = "refund" /\ (k.row.released \/ k.held >= k.amount)
      BY <1>4, <1>s DEF CommitRefund, Ready, Solvent
    <2>2. CASE k.row.released
      <3>1. /\ Ends(c) /\ UNCHANGED <<available, escrow, drift, aside, outside, overpaid, shortfall>>
        BY <1>4, <2>2 DEF CommitRefund, paid
      <3>2. NeverOverdrawn' /\ Conserved'
        BY <1>s, <3>1 DEF NeverOverdrawn, Conserved, InWallets
      <3> QED
        BY <1>i, <1>t, <3>1, <3>2, EndsSafe
    <2>3. CASE ~k.row.released
      <3>1. /\ Writes(c, Moves("requester", k.amount), -k.amount)
            /\ UNCHANGED <<aside, outside, paid>>
        BY <1>4, <2>3 DEF CommitRefund
      <3>2. /\ -k.amount \in Int /\ k.amount \in Int
            /\ k.seen["requester"] + k.amount >= 0 /\ k.held + (-k.amount) >= 0
        BY <1>k, <1>s, <2>1, <2>3, Constants
      <3> QED
        BY <1>i, <1>k, <1>w, <3>1, <3>2
    <2> QED
      BY <2>2, <2>3
  <1>5. CASE CommitManualRefund(c)
    <2>1. /\ Writes(c, Moves("requester", k.amount), 0)
          /\ k.amount \in Int /\ k.seen["requester"] + k.amount >= 0
          /\ outside' = outside + k.amount /\ UNCHANGED <<aside, paid>>
      BY <1>5, <1>k, <1>s, Constants DEF CommitManualRefund
    <2> QED
      BY <1>i, <1>k, <1>w, <2>1
  <1>6. CASE CommitPenalty(c)
    <2>1. k.kind = "penalty" /\ k.seen["center"] >= k.amount
      BY <1>6, <1>s DEF CommitPenalty, Ready, Solvent
    <2>2. /\ Writes(c, Moves("center", -k.amount), 0)
          /\ -k.amount \in Int /\ k.seen["center"] + (-k.amount) >= 0
          /\ outside' = outside - k.amount /\ UNCHANGED <<aside, paid>>
      BY <1>6, <1>k, <1>s, <2>1, Constants DEF CommitPenalty
    <2> QED
      BY <1>i, <1>k, <1>w, <2>2
  <1>7. CASE CommitRemediation(c)
    <2>1. PICK delta \in Int : delta = k.as.total - k.row.total
      BY <1>k
    <2>2. /\ k.kind = "remediate" /\ k.inTx /\ k.seen["requester"] >= delta
          /\ k.held >= k.row.total - k.as.total
      BY <1>7, <1>s, <2>1 DEF CommitRemediation, Ready, Solvent
    <2>3. UNCHANGED <<aside, outside, paid>>
      BY <1>7 DEF CommitRemediation
    <2>4. CASE delta = 0
      <3>1. PICK moves, D : moves = [w \in {} |-> 0] /\ D = {}
        OBVIOUS
      <3>2. D \in SUBSET Owners /\ moves \in [D -> Int]
        BY <3>1
      <3>3. PICK hold \in Int : hold = 0
        OBVIOUS
      <3>4. Writes(c, moves, hold) /\ Ends(c) /\ shortfall' = shortfall /\ overpaid' = overpaid
        BY <1>7, <2>1, <2>4, <3>1, <3>3 DEF CommitRemediation, Writes, paid
      <3>5. NeverOverdrawn'
        <4>1. shortfall' \in Nat /\ shortfall' >= shortfall
          BY <1>i, <3>4
        <4>2. \A w \in D \ {"platform"} : k.seen[w] + moves[w] >= 0
          BY <3>1
        <4>3. "platform" \in D => k.seen["platform"] + moves["platform"] >= -shortfall'
          BY <3>1
        <4> QED
          BY <1>s, <3>2, <3>3, <3>4, <4>1, <4>2, <4>3, WritesSafe
      <3>6. Gain(moves, D) = 0
        BY <3>1 DEF Gain
      <3>7. Conserved'
        BY <1>i, <1>s, <1>t, <2>3, <3>2, <3>3, <3>4, <3>6, KeepsSum
      <3> QED
        BY <1>i, <1>t, <3>4, <3>5, <3>7, EndsSafe
    <2>5. CASE delta # 0
      <3>1. Writes(c, Moves("requester", -delta), delta)
        BY <1>7, <2>1, <2>5 DEF CommitRemediation
      <3>2. /\ -delta \in Int /\ k.seen["requester"] + (-delta) >= 0 /\ k.held + delta >= 0
        BY <1>k, <2>1, <2>2, Constants
      <3> QED
        BY <1>i, <1>w, <2>1, <2>3, <3>1, <3>2
    <2> QED
      BY <2>4, <2>5
  <1>8. CASE CommitWithdrawal(c)
    <2>1. k.kind = "withdraw" /\ k.seen["center"] >= k.amount
      BY <1>8, <1>s DEF CommitWithdrawal, Ready, Solvent
    <2>2. /\ Writes(c, Moves("center", -k.amount), 0)
          /\ -k.amount \in Int /\ k.seen["center"] + (-k.amount) >= 0
          /\ aside' = aside + k.amount /\ UNCHANGED <<outside, paid>>
      BY <1>8, <1>k, <1>s, <2>1, Constants DEF CommitWithdrawal
    <2> QED
      BY <1>i, <1>k, <1>w, <2>2
  <1>9. CASE CommitRejection(c)
    <2>1. /\ Writes(c, Moves("center", k.amount), 0)
          /\ k.amount \in Int /\ k.seen["center"] + k.amount >= 0
          /\ aside' = aside - k.amount /\ UNCHANGED <<outside, paid>>
      BY <1>9, <1>k, <1>s, Constants DEF CommitRejection
    <2> QED
      BY <1>i, <1>k, <1>w, <2>1
  <1> QED
    BY <1>1, <1>2, <1>3, <1>4, <1>5, <1>6, <1>7, <1>8, <1>9 DEF Commits

LEMMA TransactionReadsSafe ==
  ASSUME TypeOK, SafeInv, NEW c \in Calls, TransactionReads(c)
  PROVE  SafeInv'
  <1>1. /\ call' = [call EXCEPT ![c] = call'[c]]
        /\ call'[c].kind = call[c].kind
        /\ call'[c].row = call[c].row /\ call'[c].as = call[c].as
        /\ call'[c].amount = call[c].amount /\ call'[c].inTx = TRUE
        /\ call'[c].seen = NowSeen(call[c])
        /\ call'[c].held = ReadEscrow(call[c].kind)
    BY TransactionReadsType
  <1>2. /\ call[c].kind \in ReadsInTx /\ Affordable(call[c])
        /\ UNCHANGED <<available, escrow, aside, outside, drift, overpaid, shortfall>>
    BY DEF TransactionReads, history, paid
  <1>3. \A d \in Calls : d # c => call'[d] = call[d]
    BY <1>1 DEF TypeOK
  <1>4. Solvent(call[c]) /\ NeverOverdrawn
    BY DEF SafeInv
  <1>5. /\ ReadEscrow(call[c].kind) >= 0
        /\ \A w \in Owners \ {"platform"} : NowSeen(call[c])[w] >= 0
        /\ NowSeen(call[c])["platform"] >= -shortfall
    <2>1. ReadEscrow(call[c].kind) >= 0
      BY <1>2, <1>4, Constants, ReadsCover
    <2> QED
      BY <1>4, <2>1, Constants DEF NowSeen, NeverOverdrawn, Solvent
  <1>6. Solvent(call'[c])
    <2>1. CASE call[c].kind = "refund"
      BY <1>1, <1>2, <1>4, <1>5, <2>1 DEF Solvent, Affordable, ReadEscrow
    <2>2. CASE call[c].kind = "repay"
      BY <1>1, <1>4, <1>5, <2>2 DEF Solvent
    <2>3. CASE call[c].kind = "penalty"
      <3>1. NowSeen(call[c])["center"] = available["center"]
        BY <2>3 DEF NowSeen, ReadInTx, Balances, Owners
      <3>2. available["center"] >= call[c].amount
        BY <1>2, <2>3 DEF Affordable
      <3> QED
        BY <1>1, <1>4, <1>5, <2>3, <3>1, <3>2 DEF Solvent
    <2>4. CASE call[c].kind = "remediate"
      <3>1. NowSeen(call[c])["requester"] = available["requester"]
        BY <2>4 DEF NowSeen, ReadInTx, Balances, Owners
      <3>2. ReadEscrow("remediate") = escrow
        BY DEF ReadEscrow
      <3>3. /\ available["requester"] >= call[c].as.total - call[c].row.total
            /\ escrow >= call[c].row.total - call[c].as.total
        BY <1>2, <2>4 DEF Affordable
      <3> QED
        BY <1>1, <1>4, <1>5, <2>4, <3>1, <3>2, <3>3 DEF Solvent
    <2>5. CASE call[c].kind = "purchase"
      <3>1. NowSeen(call[c])["requester"] = call[c].seen["requester"]
        BY <2>5 DEF NowSeen, ReadInTx, Owners
      <3> QED
        BY <1>1, <1>4, <1>5, <2>5, <3>1 DEF Solvent
    <2> QED
      BY <1>2, <2>1, <2>2, <2>3, <2>4, <2>5 DEF ReadsInTx
  <1>7. ASSUME NEW d \in Calls
        PROVE  Solvent(call[d])'
    <2>1. Solvent(call'[d])
      BY <1>3, <1>6 DEF SafeInv
    <2> QED
      BY <1>2, <2>1 DEF Solvent
  <1> QED
    BY <1>2, <1>7 DEF SafeInv, NeverOverdrawn, Conserved, InWallets

LEMMA SafeStep ==
  ASSUME TypeOK, SafeInv, [Next]_vars
  PROVE  SafeInv'
  <1>s. NeverOverdrawn /\ Conserved
    BY DEF SafeInv
  <1>1. ASSUME NEW amount \in Nat,
               CreditFunding(amount) \/ PayoutFailed(amount)
        PROVE  SafeInv'
    <2>1. UNCHANGED <<escrow, call, drift, overpaid, shortfall>>
      BY <1>1 DEF CreditFunding, PayoutFailed, history, paid
    <2>2. PICK w \in {"requester", "center"} : available' = [available EXCEPT ![w] = @ + amount]
      BY <1>1 DEF CreditFunding, PayoutFailed
    <2>3. \A v \in Owners : available[v] \in Int
      BY DEF TypeOK
    <2>4. /\ available'[w] = available[w] + amount
          /\ \A v \in Owners : v # w => available'[v] = available[v]
      BY <2>2 DEF TypeOK, Owners
    <2>5. NeverOverdrawn'
      BY <1>s, <2>1, <2>3, <2>4 DEF NeverOverdrawn, Owners
    <2>6. InWallets' = InWallets + amount /\ InWallets \in Int
      BY <2>3, <2>4 DEF InWallets, Owners
    <2>7. /\ aside \in Int /\ outside \in Int /\ escrow \in Int /\ drift \in Int
          /\ overpaid \in Int
      BY DEF TypeOK
    <2>8. aside' + amount - aside = outside' - outside /\ aside' \in Int /\ outside' \in Int
      BY <1>1, <2>7 DEF CreditFunding, PayoutFailed
    <2>9. Conserved'
      <3>1. PICK i \in Int : i = InWallets
        BY <2>6
      <3>2. i + escrow + aside = outside + overpaid + drift
        BY <1>s, <3>1 DEF Conserved
      <3>3. (i + amount) + escrow + aside' = outside' + overpaid + drift
        BY <2>7, <2>8, <3>2
      <3> QED
        BY <2>1, <2>6, <3>1, <3>3 DEF Conserved
    <2>10. \A d \in Calls : Solvent(call[d])'
      BY <2>1 DEF SafeInv, Solvent
    <2> QED
      BY <2>5, <2>9, <2>10 DEF SafeInv
  <1>2. ASSUME NEW c \in Calls, Fails(c)
        PROVE  SafeInv'
    <2>1. Ends(c) /\ UNCHANGED <<available, escrow, aside, outside, drift, overpaid, shortfall>>
      BY <1>2 DEF Fails, history, paid
    <2>2. NeverOverdrawn' /\ Conserved'
      BY <1>s, <2>1 DEF NeverOverdrawn, Conserved, InWallets
    <2>3. TypeOK' /\ shortfall' >= shortfall
      BY <2>1, TypeStep DEF TypeOK
    <2> QED
      BY <2>1, <2>2, <2>3, EndsSafe
  <1>3. ASSUME UNCHANGED <<available, escrow, aside, outside, call, drift, overpaid, shortfall>>
        PROVE  SafeInv'
    BY <1>3 DEF SafeInv, NeverOverdrawn, Conserved, InWallets, Solvent
  <1>4. ASSUME NEW o \in Orders, CreateDispute(o) \/ ReviewForCbt(o) \/ WaivePenalty(o)
        PROVE  SafeInv'
    BY <1>3, <1>4 DEF CreateDispute, ReviewForCbt, WaivePenalty, history, paid
  <1>5. CASE UNCHANGED vars
    BY <1>3, <1>5 DEF vars, history, paid
  <1>6. \A amount \in Deposits \cup Payouts : amount \in Nat
    BY WalletAssumption
  <1> QED
    BY <1>1, <1>2, <1>4, <1>5, <1>6, StartsSafe, CommitsSafe, TransactionReadsSafe DEF Next

LEMMA SafeInit == Init => SafeInv
  <1> SUFFICES ASSUME Init
               PROVE  SafeInv
    OBVIOUS
  <1>1. NeverOverdrawn /\ Conserved
    BY DEF Init, NeverOverdrawn, Conserved, InWallets, Owners
  <1>2. \A c \in Calls : call[c] = IdleCall
    BY DEF Init
  <1>3. TypeOK
    BY TypeInit
  <1> QED
    BY <1>1, <1>2, <1>3, IdleCallSolvent DEF SafeInv

LEMMA SafeAlways == Spec => [](TypeOK /\ SafeInv)
  <1>1. TypeOK /\ SafeInv /\ [Next]_vars => TypeOK' /\ SafeInv'
    BY TypeStep, SafeStep
  <1> QED
    BY <1>1, TypeInit, SafeInit, PTL DEF Spec

(* However the handlers overlap, whatever they write over each other and   *)
(* whatever the prices, no escrow and no balance goes below zero, but the  *)
(* platform's by what its orders' earners were paid beyond the price.      *)
THEOREM NoOverdraft == Spec => []NeverOverdrawn
  <1>1. SafeInv => NeverOverdrawn
    BY DEF SafeInv
  <1> QED
    BY <1>1, SafeAlways, PTL

(* However the handlers overlap and whatever the prices, the money there   *)
(* is differs from the money that came in by what releases paid out beyond *)
(* the price they took from escrow and by what writes over unseen changes  *)
(* undid, and by nothing else.                                             *)
THEOREM MoneyConserved == Spec => []Conserved
  <1>1. SafeInv => Conserved
    BY DEF SafeInv
  <1> QED
    BY <1>1, SafeAlways, PTL

-----------------------------------------------------------------------------
(* Sums over finite sets.  MapThenSumSet adds up a set element by element; *)
(* these lemmas are what its users need: that the order does not matter.   *)
(* Induction on the set is an argument by a smallest counterexample.       *)
Pick(s) == CHOOSE x \in s : TRUE
Add(f, t, g) == IF t = {} THEN 0 ELSE f[Pick(t)] + g[t \ {Pick(t)}]
Sums(f, S, g) == g = [t \in SUBSET S |-> Add(f, t, g)]
Sum(f, S) == (CHOOSE g : Sums(f, S, g))[S]

LEMMA Smallest ==
  ASSUME NEW S, IsFiniteSet(S), NEW T \in SUBSET SUBSET S, T # {}
  PROVE  \E t \in T : \A u \in T : u \subseteq t => u = t
  <1>1. IsWellFoundedOn(StrictSubsetOrdering(S), SUBSET S)
    BY FS_StrictSubsetOrderingWellFounded, FS_FiniteSubsetsOfFinite
  <1>2. PICK t \in T : \A u \in T : <<u, t>> \notin StrictSubsetOrdering(S)
    BY <1>1, WFMin
  <1>3. \A u \in T : u \subseteq t => u = t
    BY <1>2 DEF StrictSubsetOrdering
  <1> QED
    BY <1>3

LEMMA PickType == ASSUME NEW s, s # {} PROVE Pick(s) \in s
  BY DEF Pick

LEMMA SumsAt ==
  ASSUME NEW f, NEW S, NEW g, Sums(f, S, g), NEW t \in SUBSET S
  PROVE  /\ t = {} => g[t] = 0
         /\ t # {} => g[t] = f[Pick(t)] + g[t \ {Pick(t)}]
  <1>1. g[t] = Add(f, t, g)
    BY DEF Sums
  <1> QED
    BY <1>1 DEF Add

(* Two ways of adding up agree on the sets they share.                     *)
LEMMA SumsUnique ==
  ASSUME NEW f, NEW S, IsFiniteSet(S), NEW R \in SUBSET S, NEW g, NEW h,
         Sums(f, S, g), Sums(f, R, h), NEW t \in SUBSET R
  PROVE  g[t] = h[t]
  <1> DEFINE T == {u \in SUBSET R : g[u] # h[u]}
  <1> SUFFICES ASSUME T # {}
               PROVE  FALSE
    OBVIOUS
  <1>1. IsFiniteSet(R)
    BY FS_Subset
  <1>2. PICK u \in T : \A v \in T : v \subseteq u => v = u
    <2>1. T \in SUBSET SUBSET R
      OBVIOUS
    <2> HIDE DEF T
    <2> QED
      BY <1>1, <2>1, Smallest
  <1>3. CASE u = {}
    BY <1>2, <1>3, SumsAt
  <1>4. CASE u # {}
    <2>1. Pick(u) \in u
      BY <1>4, PickType
    <2>2. u \ {Pick(u)} \in SUBSET R /\ u \ {Pick(u)} # u
      BY <1>2, <2>1
    <2>3. g[u \ {Pick(u)}] = h[u \ {Pick(u)}]
      BY <1>2, <2>2
    <2>4. u \in SUBSET R /\ u \in SUBSET S
      BY <1>2
    <2> QED
      BY <1>2, <1>4, <2>3, <2>4, SumsAt
  <1> QED
    BY <1>3, <1>4

(* A sum over a finite set exists.                                         *)
LEMMA SumsExist ==
  ASSUME NEW f, NEW S, IsFiniteSet(S)
  PROVE  \E g : Sums(f, S, g)
  <1> DEFINE Missing == {t \in SUBSET S : ~ \E g : Sums(f, t, g)}
  <1> SUFFICES ASSUME Missing # {}
               PROVE  FALSE
    OBVIOUS
  <1>1. PICK s \in Missing : \A v \in Missing : v \subseteq s => v = s
    <2>1. Missing \in SUBSET SUBSET S
      OBVIOUS
    <2> HIDE DEF Missing
    <2> QED
      BY <2>1, Smallest
  <1> DEFINE one(t) == CHOOSE g : Sums(f, t, g)
             rest(t) == t \ {Pick(t)}
             g == [t \in SUBSET s |->
                     IF t = {} THEN 0 ELSE f[Pick(t)] + one(rest(t))[rest(t)]]
  <1>2. ASSUME NEW t \in SUBSET s, t # s
        PROVE  Sums(f, t, one(t))
    <2>1. t \in SUBSET S /\ t \notin Missing
      BY <1>1, <1>2
    <2> QED
      BY <2>1
  <1>3. ASSUME NEW t \in SUBSET s, t # {}
        PROVE  rest(t) \in SUBSET s /\ rest(t) # s /\ rest(t) \in SUBSET t
    BY <1>3, PickType
  <1>4. ASSUME NEW t \in SUBSET s, t # s
        PROVE  g[t] = one(t)[t]
    <2>0. Sums(f, t, one(t))
      BY <1>2, <1>4
    <2>1. CASE t = {}
      <3>1. one(t)[t] = 0
        BY <2>0, <2>1, SumsAt
      <3> QED
        BY <2>1, <3>1
    <2>2. CASE t # {}
      <3>1. one(t)[t] = f[Pick(t)] + one(t)[rest(t)]
        BY <2>0, <2>2, SumsAt
      <3>2. Sums(f, rest(t), one(rest(t))) /\ rest(t) \in SUBSET t
        BY <1>2, <1>3, <2>2
      <3>3. IsFiniteSet(t)
        BY <1>1, FS_Subset
      <3>4. one(t)[rest(t)] = one(rest(t))[rest(t)]
        <4> HIDE DEF one, rest
        <4> QED
          BY <2>0, <3>2, <3>3, SumsUnique
      <3> QED
        BY <2>2, <3>1, <3>4
    <2> QED
      BY <2>1, <2>2
  <1>5. ASSUME NEW t \in SUBSET s
        PROVE  g[t] = Add(f, t, g)
    <2>1. CASE t = {}
      BY <2>1 DEF Add
    <2>2. CASE t # {}
      <3>1. g[rest(t)] = one(rest(t))[rest(t)]
        BY <1>3, <1>4, <2>2
      <3>2. g[t] = f[Pick(t)] + one(rest(t))[rest(t)]
        BY <2>2
      <3> QED
        BY <2>2, <3>1, <3>2 DEF Add
    <2> QED
      BY <2>1, <2>2
  <1>6. Sums(f, s, g)
    <2>1. g = [t \in SUBSET s |-> g[t]]
      OBVIOUS
    <2> HIDE DEF g
    <2> QED
      BY <1>5, <2>1 DEF Sums
  <1> QED
    BY <1>1, <1>6

(* What adding up amounts to: nothing for the empty set, and any element   *)
(* may be taken out first.                                                 *)
LEMMA SumPicks ==
  ASSUME NEW f, NEW S, IsFiniteSet(S)
  PROVE  /\ S = {} => Sum(f, S) = 0
         /\ S # {} => Sum(f, S) = f[Pick(S)] + Sum(f, S \ {Pick(S)})
  <1>1. PICK g : g = CHOOSE h : Sums(f, S, h)
    OBVIOUS
  <1>2. Sums(f, S, g) /\ Sum(f, S) = g[S]
    BY <1>1, SumsExist DEF Sum
  <1>3. CASE S # {}
    <2> DEFINE R == S \ {Pick(S)}
    <2>1. IsFiniteSet(R) /\ R \in SUBSET S
      BY FS_Subset
    <2>2. PICK h : h = CHOOSE k : Sums(f, R, k)
      OBVIOUS
    <2>3. Sums(f, R, h) /\ Sum(f, R) = h[R]
      BY <2>1, <2>2, SumsExist DEF Sum
    <2>4. g[R] = h[R]
      <3> HIDE DEF R
      <3> QED
        BY <1>2, <2>1, <2>3, SumsUnique
    <2>5. g[S] = f[Pick(S)] + g[R]
      BY <1>2, <1>3, SumsAt
    <2> QED
      BY <1>2, <1>3, <2>3, <2>4, <2>5
  <1> QED
    BY <1>2, <1>3, SumsAt

LEMMA SumInt ==
  ASSUME NEW f, NEW S, IsFiniteSet(S), \A x \in S : f[x] \in Int
  PROVE  Sum(f, S) \in Int
  <1> DEFINE T == {t \in SUBSET S : Sum(f, t) \notin Int}
  <1> SUFFICES ASSUME T # {}
               PROVE  FALSE
    OBVIOUS
  <1>1. PICK t \in T : \A u \in T : u \subseteq t => u = t
    <2>1. T \in SUBSET SUBSET S
      OBVIOUS
    <2> HIDE DEF T
    <2> QED
      BY <2>1, Smallest
  <1>2. IsFiniteSet(t)
    BY <1>1, FS_Subset
  <1>3. CASE t # {}
    <2>1. Pick(t) \in t
      BY <1>3, PickType
    <2>2. Sum(f, t \ {Pick(t)}) \in Int
      BY <1>1, <2>1
    <2> QED
      BY <1>1, <1>2, <1>3, <2>1, <2>2, SumPicks
  <1>4. CASE t = {}
    <2>1. Sum(f, t) = 0
      BY <1>2, <1>4, SumPicks
    <2> QED
      BY <1>1, <2>1
  <1> QED
    BY <1>3, <1>4

LEMMA SumRemove ==
  ASSUME NEW f, NEW S, IsFiniteSet(S), \A y \in S : f[y] \in Int, NEW x \in S
  PROVE  Sum(f, S) = f[x] + Sum(f, S \ {x})
  <1> DEFINE T == {t \in SUBSET S : \E y \in t : Sum(f, t) # f[y] + Sum(f, t \ {y})}
  <1> SUFFICES ASSUME T # {}
               PROVE  FALSE
    OBVIOUS
  <1>1. PICK t \in T : \A u \in T : u \subseteq t => u = t
    <2>1. T \in SUBSET SUBSET S
      OBVIOUS
    <2> HIDE DEF T
    <2> QED
      BY <2>1, Smallest
  <1>2. PICK y \in t : Sum(f, t) # f[y] + Sum(f, t \ {y})
    BY <1>1
  <1>3. PICK z : z = Pick(t)
    OBVIOUS
  <1>4. z \in t /\ Sum(f, t) = f[z] + Sum(f, t \ {z})
    <2>1. IsFiniteSet(t)
      BY <1>1, FS_Subset
    <2> QED
      BY <1>2, <1>3, <2>1, PickType, SumPicks
  <1>5. y # z
    BY <1>2, <1>4
  <1>6. Sum(f, t \ {z}) = f[y] + Sum(f, (t \ {z}) \ {y})
    <2>1. t \ {z} \in SUBSET S /\ t \ {z} \notin T /\ y \in t \ {z}
      BY <1>1, <1>2, <1>4, <1>5
    <2> QED
      BY <2>1
  <1>7. Sum(f, t \ {y}) = f[z] + Sum(f, (t \ {y}) \ {z})
    <2>1. t \ {y} \in SUBSET S /\ t \ {y} \notin T /\ z \in t \ {y}
      BY <1>1, <1>2, <1>4, <1>5
    <2> QED
      BY <2>1
  <1>8. (t \ {z}) \ {y} = (t \ {y}) \ {z}
    OBVIOUS
  <1>9. PICK r : r = Sum(f, (t \ {y}) \ {z})
    OBVIOUS
  <1>10. r \in Int /\ f[y] \in Int /\ f[z] \in Int
    <2>1. IsFiniteSet((t \ {y}) \ {z}) /\ (t \ {y}) \ {z} \in SUBSET S
      BY <1>1, FS_Subset
    <2> QED
      BY <1>1, <1>2, <1>4, <1>9, <2>1, SumInt
  <1>11. Sum(f, t) = f[z] + (f[y] + r) /\ Sum(f, t \ {y}) = f[z] + r
    BY <1>4, <1>6, <1>7, <1>8, <1>9
  <1> QED
    BY <1>2, <1>10, <1>11

LEMMA SumSame ==
  ASSUME NEW f, NEW g, NEW S, IsFiniteSet(S), \A x \in S : f[x] = g[x]
  PROVE  Sum(f, S) = Sum(g, S)
  <1>1. ASSUME NEW t \in SUBSET S, NEW h
        PROVE  Add(f, t, h) = Add(g, t, h)
    BY PickType DEF Add
  <1>2. \A h : Sums(f, S, h) <=> Sums(g, S, h)
    BY <1>1 DEF Sums
  <1>3. PICK h, k : h = (CHOOSE l : Sums(f, S, l)) /\ k = (CHOOSE l : Sums(g, S, l))
    OBVIOUS
  <1>4. Sums(f, S, h) /\ Sums(g, S, k)
    BY <1>3, SumsExist
  <1>5. S \in SUBSET S /\ Sums(f, S, k)
    BY <1>2, <1>4
  <1>6. h[S] = k[S]
    BY <1>4, <1>5, SumsUnique
  <1> QED
    BY <1>3, <1>6 DEF Sum

(* One element is added, removed or given another value.                   *)
LEMMA SumChanges ==
  ASSUME NEW f, NEW g, NEW A, NEW B, IsFiniteSet(A), IsFiniteSet(B), NEW x,
         A \ {x} = B \ {x}, \A y \in A \ {x} : f[y] = g[y],
         \A y \in A : f[y] \in Int, \A y \in B : g[y] \in Int
  PROVE  Sum(g, B) = Sum(f, A) - (IF x \in A THEN f[x] ELSE 0)
                               + (IF x \in B THEN g[x] ELSE 0)
  <1>1. PICK C : C = A \ {x} /\ C = B \ {x}
    OBVIOUS
  <1>2. PICK r \in Int : r = Sum(f, C) /\ r = Sum(g, C)
    <2>1. IsFiniteSet(C) /\ \A y \in C : f[y] = g[y] /\ f[y] \in Int
      BY <1>1, FS_Subset
    <2> QED
      BY <2>1, SumSame, SumInt
  <1>3. PICK a, b \in Int : /\ a = (IF x \in A THEN f[x] ELSE 0)
                          /\ b = (IF x \in B THEN g[x] ELSE 0)
    OBVIOUS
  <1>4. Sum(f, A) = a + r
    <2>1. CASE x \in A
      <3>1. Sum(f, A) = f[x] + Sum(f, A \ {x})
        BY <2>1, SumRemove
      <3> QED
        BY <1>1, <1>2, <1>3, <2>1, <3>1
    <2>2. CASE x \notin A
      <3>1. A = C
        BY <1>1, <2>2
      <3>2. Sum(f, A) = r
        BY <1>2, <3>1, Zenon
      <3> QED
        BY <1>3, <2>2, <3>2
    <2> QED
      BY <2>1, <2>2
  <1>5. Sum(g, B) = b + r
    <2>1. CASE x \in B
      <3>1. Sum(g, B) = g[x] + Sum(g, B \ {x})
        BY <2>1, SumRemove
      <3> QED
        BY <1>1, <1>2, <1>3, <2>1, <3>1
    <2>2. CASE x \notin B
      <3>1. B = C
        BY <1>1, <2>2
      <3>2. Sum(g, B) = r
        BY <1>2, <3>1, Zenon
      <3> QED
        BY <1>3, <2>2, <3>2
    <2> QED
      BY <2>1, <2>2
  <1>6. b + r = (a + r) - a + b
    OBVIOUS
  <1> QED
    BY <1>3, <1>4, <1>5, <1>6

-----------------------------------------------------------------------------
(* The escrow is the price of the orders that wait for a decision.         *)

(* What an order has in escrow, by its row.                                *)
Due(row) ==
    IF row.status \in {"HELD", "DISPUTED"} /\ ~row.released THEN row.total ELSE 0
Backing == MapThenSumSet(LAMBDA o : order[o].total, Unsettled)

(* The sum follows the one order that a step changes.                      *)
LEMMA BackingIsSum ==
  /\ Backing = Sum([o \in Unsettled |-> order[o].total], Unsettled)
  /\ Backing' = Sum([o \in Unsettled' |-> order'[o].total], Unsettled')
  BY DEF Backing, MapThenSumSet, MapThenFoldSet, Sum, Sums, Add, Pick

LEMMA BackingChanges ==
  ASSUME IsFiniteSet(Orders), TypeOK, TypeOK', NEW o \in Orders,
         \A u \in Orders : u # o => order'[u] = order[u]
  PROVE  Backing \in Int /\ Backing' = Backing - Due(order[o]) + Due(order'[o])
  <1> DEFINE f == [u \in Unsettled |-> order[u].total]
             g == [u \in Unsettled' |-> order'[u].total]
  <1>1. ASSUME NEW u \in Orders
        PROVE  /\ order[u].total \in Int /\ order'[u].total \in Int
               /\ u \in Unsettled <=> order[u].status \in {"HELD", "DISPUTED"}
                                        /\ ~order[u].released
               /\ u \in Unsettled' <=> order'[u].status \in {"HELD", "DISPUTED"}
                                         /\ ~order'[u].released
    BY DEF TypeOK, OrderRecords, Unsettled
  <1>2. Unsettled \subseteq Orders /\ Unsettled' \subseteq Orders
    BY DEF Unsettled
  <1>3. IsFiniteSet(Unsettled) /\ IsFiniteSet(Unsettled')
    BY <1>2, FS_Subset
  <1>4. Unsettled \ {o} = Unsettled' \ {o}
    BY <1>1, <1>2
  <1>5. /\ \A u \in Unsettled : f[u] \in Int
        /\ \A u \in Unsettled' : g[u] \in Int
        /\ \A u \in Unsettled \ {o} : f[u] = g[u]
    BY <1>1, <1>2, <1>4
  <1>6. /\ Due(order[o]) = IF o \in Unsettled THEN f[o] ELSE 0
        /\ Due(order'[o]) = IF o \in Unsettled' THEN g[o] ELSE 0
    BY <1>1 DEF Due
  <1>7. Backing = Sum(f, Unsettled) /\ Backing' = Sum(g, Unsettled')
    BY BackingIsSum
  <1> HIDE DEF f, g
  <1>8. PICK A, B : A = Unsettled /\ B = Unsettled'
    OBVIOUS
  <1>9. /\ IsFiniteSet(A) /\ IsFiniteSet(B) /\ A \ {o} = B \ {o}
        /\ \A u \in A \ {o} : f[u] = g[u]
        /\ \A u \in A : f[u] \in Int
        /\ \A u \in B : g[u] \in Int
    BY <1>3, <1>4, <1>5, <1>8
  <1>10. Sum(f, A) \in Int
    BY <1>9, SumInt
  <1>11. Sum(g, B) = Sum(f, A) - (IF o \in A THEN f[o] ELSE 0)
                               + (IF o \in B THEN g[o] ELSE 0)
    BY <1>9, SumChanges
  <1> QED
    BY <1>6, <1>7, <1>8, <1>10, <1>11

LEMMA BackingSame ==
  ASSUME order' = order
  PROVE  Backing' = Backing
  <1>1. Unsettled' = Unsettled
    BY DEF Unsettled
  <1> QED
    BY <1>1, BackingIsSum

-----------------------------------------------------------------------------
OrderKinds == {"create", "purchase", "release", "refund", "repay", "penalty", "remediate"}
Creating == {"create", "purchase"}

(* What a handler has read of its order, and what it makes of it.  Unless  *)
(* its write is lost the row is still the one it has read.                 *)
Exact(k) ==
    /\ k.kind = "create" => /\ k.as.status = "HELD" /\ ~k.as.released
                            /\ k.as.total = k.amount
    /\ k.kind = "purchase" => k.as.status = "COMPLETED"
    /\ k.kind = "release" => /\ k.row.status = "HELD" /\ ~k.row.released
                             /\ k.amount = k.row.total
    /\ k.kind = "refund" => /\ k.row.status = "DISPUTED" /\ k.amount = k.row.total
                            /\ k.as.status \in {"REFUNDED", "RESOLVED"}
    /\ k.kind = "repay" => k.row.status = "RESOLVED"
    /\ k.kind = "remediate" => k.row.status = "HELD" /\ ~k.row.released

(* An order belongs to the handler that creates it until it exists, and is *)
(* never taken back into escrow: a handler that has read it as released    *)
(* still finds it released.                                                *)
Owned(c) ==
    LET k == call[c] IN
    /\ k.kind \in OrderKinds => k.o \in Orders
    /\ k.kind \in Creating => /\ order[k.o].status = "NONE"
                              /\ \A d \in Calls : d # c => call[d].o # k.o
    /\ k.kind \in OrderKinds \ Creating =>
          /\ order[k.o].status # "NONE"
          /\ k.row.released => order[k.o].released

BackInv ==
    /\ ~lost => escrow = Backing
    /\ \A o \in Orders : order[o].status = "NONE" => order[o].penalty # "PENDING"
    /\ \A c \in Calls : Exact(call[c]) /\ Owned(c)

LEMMA IdleCallExact == Exact(IdleCall)
  BY DEF IdleCall, Exact

LEMMA BeginsBacks ==
  ASSUME TypeOK, BackInv, NEW c \in Calls, NEW kind \in Kinds,
         NEW o \in Orders \cup {NoOrder}, NEW row, NEW as, NEW amount,
         Begins(c, kind, o, row, as, amount),
         kind = "create" => as.status = "HELD" /\ ~as.released /\ as.total = amount,
         kind = "purchase" => as.status = "COMPLETED",
         kind = "release" => row.status = "HELD" /\ ~row.released /\ amount = row.total,
         kind = "refund" => /\ row.status = "DISPUTED" /\ amount = row.total
                            /\ as.status \in {"REFUNDED", "RESOLVED"},
         kind = "repay" => row.status = "RESOLVED",
         kind = "remediate" => row.status = "HELD" /\ ~row.released,
         kind \in OrderKinds =>
             /\ o \in Orders
             /\ IF kind \in Creating THEN Unused(o)
                ELSE order[o].status # "NONE" /\ row = order[o],
         kind \notin OrderKinds => o = NoOrder
  PROVE  BackInv'
  <1>0. PICK k : k = [kind |-> kind, o |-> o, row |-> row, as |-> as, amount |-> amount,
                      inTx |-> kind \notin ReadsInTx, seen |-> ReadBalances(kind),
                      held |-> ReadEscrow(kind)]
    OBVIOUS
  <1>1. call' = [call EXCEPT ![c] = k]
        /\ UNCHANGED <<available, escrow, aside, outside, order, lost>>
    BY <1>0 DEF Begins, history
  <1>2. call'[c] = k /\ \A d \in Calls : d # c => call'[d] = call[d]
    BY <1>1 DEF TypeOK
  <1>3. /\ k.kind = kind /\ k.o = o /\ k.row = row /\ k.as = as
        /\ k.amount = amount
    BY <1>0
  <1>4. \A d \in Calls : Exact(call'[d])
    <2>1. Exact(k)
      BY <1>3 DEF Exact
    <2> QED
      BY <1>2, <2>1 DEF BackInv
  <1>5. ASSUME NEW d \in Calls
        PROVE  Owned(d)'
    <2>1. Owned(d)
      BY DEF BackInv
    <2>2. CASE d = c
      <3>1. /\ order' = order /\ call'[d].kind = kind /\ call'[d].o = o
            /\ call'[d].row = row
        BY <1>1, <1>2, <1>3, <2>2
      <3>2. kind \in Creating => kind \in OrderKinds
        BY DEF Creating, OrderKinds
      <3>3. ASSUME kind \in Creating
            PROVE  order[o].status = "NONE" /\ \A e \in Calls : e # d => call'[e].o # o
        BY <1>2, <2>2, <3>2, <3>3 DEF Unused
      <3> QED
        BY <3>1, <3>2, <3>3 DEF Owned
    <2>3. CASE d # c
      <3>1. call'[d] = call[d] /\ order' = order
        BY <1>1, <1>2, <2>3
      <3>2. ASSUME call[d].kind \in Creating
            PROVE  call[d].o # o
        <4>1. call[d].kind \in OrderKinds
          BY <3>2 DEF Creating, OrderKinds
        <4>2. order[call[d].o].status = "NONE" /\ call[d].o \in Orders
          BY <2>1, <3>2, <4>1 DEF Owned
        <4>3. CASE kind \in OrderKinds
          BY <4>2, <4>3 DEF Unused
        <4>4. CASE kind \notin OrderKinds
          BY <4>2, <4>4, WalletAssumption
        <4> QED
          BY <4>3, <4>4
      <3>3. ASSUME call[d].kind \in Creating
            PROVE  \A e \in Calls : e # d => call'[e].o # call[d].o
        BY <1>2, <1>3, <2>1, <3>2, <3>3 DEF Owned
      <3> QED
        BY <2>1, <3>1, <3>3 DEF Owned
    <2> QED
      BY <2>2, <2>3
  <1>6. ~lost' => escrow' = Backing'
    BY <1>1, BackingSame DEF BackInv
  <1>7. \A u \in Orders : order'[u].status = "NONE" => order'[u].penalty # "PENDING"
    BY <1>1 DEF BackInv
  <1> QED
    BY <1>4, <1>5, <1>6, <1>7 DEF BackInv

LEMMA StartsBacks ==
  ASSUME TypeOK, BackInv, NEW c \in Calls, Starts(c)
  PROVE  BackInv'
  <1>k. /\ OrderKinds \subseteq Kinds /\ Creating \subseteq OrderKinds
        /\ {"release", "refund", "repay", "penalty", "remediate"} = OrderKinds \ Creating
        /\ {"withdraw", "reject"} \subseteq Kinds \ OrderKinds
    BY DEF OrderKinds, Creating, Kinds
  <1>1. ASSUME NEW o \in Orders, NEW p \in Prices, BeginCreateOrder(c, o, p)
        PROVE  BackInv'
    <2>1. PICK as : as = Ordered(p)
      OBVIOUS
    <2>2. as.status = "HELD" /\ ~as.released /\ as.total = p.total
      BY <2>1 DEF Ordered
    <2>3. Begins(c, "create", o, order[o], as, p.total) /\ Unused(o)
      BY <1>1, <2>1 DEF BeginCreateOrder
    <2> QED
      BY <2>2, <2>3, <1>k, BeginsBacks DEF Creating
  <1>2. ASSUME NEW o \in Orders, NEW p \in Prices, PurchaseFromProvider(c, o, p)
        PROVE  BackInv'
    <2>1. PICK as : as = Purchased(p)
      OBVIOUS
    <2>2. as.status = "COMPLETED"
      BY <2>1 DEF Purchased
    <2>3. Begins(c, "purchase", o, order[o], as, p.provider) /\ Unused(o)
      BY <1>2, <2>1 DEF PurchaseFromProvider
    <2> QED
      BY <2>2, <2>3, <1>k, BeginsBacks DEF Creating
  <1>3. ASSUME NEW o \in Orders, NEW p \in Prices, RemediationCandidate(c, o, p)
        PROVE  BackInv'
    <2>1. /\ Begins(c, "remediate", o, order[o], Repriced(order[o], p), 0)
          /\ order[o].status = "HELD" /\ ~order[o].released
      BY <1>3 DEF RemediationCandidate
    <2> QED
      BY <2>1, <1>k, BeginsBacks
  <1>4. ASSUME NEW o \in Orders, NEW penalty \in {order[o].penalty, "PENDING"},
               ReviewForRequester(c, o, penalty)
        PROVE  BackInv'
    <2>1. PICK as : as = [order[o] EXCEPT
                            !.status = IF order[o].released THEN "RESOLVED" ELSE "REFUNDED",
                            !.penalty = penalty]
      OBVIOUS
    <2>2. Begins(c, "refund", o, order[o], as, order[o].total) /\ order[o].status = "DISPUTED"
      BY <1>4, <2>1 DEF ReviewForRequester
    <2>3. as.status \in {"REFUNDED", "RESOLVED"}
      BY <2>1 DEF TypeOK, OrderRecords
    <2> QED
      BY <2>2, <2>3, <1>k, BeginsBacks
  <1>5. ASSUME NEW o \in Orders, ReadRelease(c, o)
        PROVE  BackInv'
    BY <1>5, <1>k, BeginsBacks DEF ReadRelease
  <1>6. ASSUME NEW o \in Orders, FollowUpRefund(c, o)
        PROVE  BackInv'
    BY <1>6, <1>k, BeginsBacks DEF FollowUpRefund
  <1>7. ASSUME NEW o \in Orders, FollowUpPenalty(c, o)
        PROVE  BackInv'
    <2>1. order[o].status # "NONE"
      BY <1>7 DEF FollowUpPenalty, BackInv
    <2> QED
      BY <1>7, <2>1, <1>k, BeginsBacks DEF FollowUpPenalty
  <1>8. ASSUME NEW amount \in Payouts,
               RequestWithdrawal(c, amount) \/ RejectWithdrawal(c, amount)
        PROVE  BackInv'
    BY <1>8, <1>k, BeginsBacks DEF RequestWithdrawal, RejectWithdrawal
  <1> QED
    BY <1>1, <1>2, <1>3, <1>4, <1>5, <1>6, <1>7, <1>8 DEF Starts

(* An order is changed, by the handler that ends or by one that only needs *)
(* the row: what is left is that the escrow follows it.                    *)
LEMMA ChangeBacks ==
  ASSUME IsFiniteSet(Orders), TypeOK, TypeOK', BackInv, NEW o \in Orders,
         \A u \in Orders : u # o => order'[u] = order[u],
         \A d \in Calls : call'[d] = call[d] \/ call'[d] = IdleCall,
         order'[o].status # "NONE",
         order[o].status # "NONE" /\ order[o].released => order'[o].released,
         \/ order[o].status # "NONE"
         \/ \A d \in Calls : call'[d].o # o,
         ~lost' => ~lost /\ escrow' = escrow - Due(order[o]) + Due(order'[o])
  PROVE  BackInv'
  <1>1. \A d \in Calls : Exact(call'[d])
    BY IdleCallExact DEF BackInv
  <1>2. IdleCall.o = NoOrder /\ IdleCall.kind \notin OrderKinds \cup Creating
    BY DEF IdleCall, OrderKinds, Creating
  <1>3. Creating \subseteq OrderKinds
    BY DEF OrderKinds, Creating
  <1>4. ASSUME NEW d \in Calls
        PROVE  Owned(d)'
    <2>1. Owned(d)
      BY DEF BackInv
    <2>2. CASE call'[d] = IdleCall
      BY <1>2, <2>2 DEF Owned
    <2>3. CASE call'[d] = call[d] /\ call[d].kind \in Creating
      <3>1. call[d].o \in Orders /\ order[call[d].o].status = "NONE"
        BY <1>3, <2>1, <2>3 DEF Owned
      <3>2. call[d].o # o
        BY <2>3, <3>1
      <3>3. \A e \in Calls : e # d => call'[e].o # call[d].o
        BY <1>2, <2>1, <2>3, <3>1, WalletAssumption DEF Owned
      <3>4. order'[call[d].o].status = "NONE"
        BY <3>1, <3>2
      <3> QED
        BY <2>3, <3>1, <3>3, <3>4 DEF Owned
    <2>4. CASE call'[d] = call[d] /\ call[d].kind \notin Creating
      <3>1. ASSUME call[d].kind \in OrderKinds
            PROVE  /\ call[d].o \in Orders
                   /\ order'[call[d].o].status # "NONE"
                   /\ call[d].row.released => order'[call[d].o].released
        BY <2>1, <2>4, <3>1 DEF Owned
      <3> QED
        BY <2>4, <3>1 DEF Owned
    <2> QED
      BY <2>2, <2>3, <2>4
  <1>5. ~lost' => escrow' = Backing'
    <2>1. Backing \in Int /\ Backing' = Backing - Due(order[o]) + Due(order'[o])
      BY BackingChanges
    <2> QED
      BY <2>1 DEF BackInv
  <1>6. \A u \in Orders : order'[u].status = "NONE" => order'[u].penalty # "PENDING"
    BY DEF BackInv
  <1> QED
    BY <1>1, <1>4, <1>5, <1>6 DEF BackInv

(* A handler ends without touching an order, or the escrow.                *)
LEMMA EndsBacks ==
  ASSUME TypeOK, BackInv, order' = order,
         \A d \in Calls : call'[d] = call[d] \/ call'[d] = IdleCall,
         ~lost' => ~lost /\ escrow' = escrow
  PROVE  BackInv'
  <1>1. \A d \in Calls : Exact(call'[d])
    BY IdleCallExact DEF BackInv
  <1>2. IdleCall.o = NoOrder /\ IdleCall.kind \notin OrderKinds \cup Creating
    BY DEF IdleCall, OrderKinds, Creating
  <1>3. Creating \subseteq OrderKinds
    BY DEF OrderKinds, Creating
  <1>4. ASSUME NEW d \in Calls
        PROVE  Owned(d)'
    <2>1. Owned(d)
      BY DEF BackInv
    <2>2. CASE call'[d] = IdleCall
      BY <1>2, <2>2 DEF Owned
    <2>3. CASE call'[d] = call[d]
      <3>1. ASSUME call[d].kind \in Creating
            PROVE  \A e \in Calls : e # d => call'[e].o # call[d].o
        BY <1>2, <1>3, <2>1, <3>1, WalletAssumption DEF Owned
      <3> QED
        BY <2>1, <2>3, <3>1 DEF Owned
    <2> QED
      BY <2>2, <2>3
  <1>5. ~lost' => escrow' = Backing'
    BY BackingSame DEF BackInv
  <1> QED
    BY <1>1, <1>4, <1>5 DEF BackInv

LEMMA CommitsBacks ==
  ASSUME IsFiniteSet(Orders), TypeOK, BackInv, NEW c \in Calls, Commits(c)
  PROVE  BackInv'
  <1> DEFINE k == call[c]
             o == k.o
  <1>t. TypeOK'
    BY CommitsType
  <1>k. /\ k.amount \in Nat /\ k.row \in OrderRecords /\ k.as \in OrderRecords
        /\ k.as.total \in Nat /\ k.row.total \in Nat
    BY DEF TypeOK, CallRecords, OrderRecords
  <1>e. escrow \in Int
    BY DEF TypeOK
  <1>x. Exact(k) /\ Owned(c)
    BY DEF BackInv
  <1>o. k.kind \in OrderKinds =>
           /\ o \in Orders /\ order[o] \in OrderRecords
           /\ Due(order[o]) \in Int
    BY <1>x DEF Owned, TypeOK, Due, OrderRecords
  <1>d. Ends(c) => \A d \in Calls : call'[d] = call[d] \/ call'[d] = IdleCall
    BY DEF Ends, TypeOK
  <1>n. Ends(c) /\ k.kind \in Creating => \A d \in Calls : call'[d].o # o
    <2> SUFFICES ASSUME Ends(c), k.kind \in Creating
                 PROVE  \A d \in Calls : call'[d].o # o
      OBVIOUS
    <2>1. k.kind \in OrderKinds
      BY DEF Creating, OrderKinds
    <2>2. call'[c].o = NoOrder /\ \A d \in Calls : d # c => call'[d] = call[d]
      BY IdleCallType DEF Ends, TypeOK
    <2> QED
      BY <1>o, <1>x, <2>1, <2>2, WalletAssumption DEF Owned
  <1>w. ASSUME NEW w \in Owners, NEW n \in Int, NEW hold \in Int,
               Writes(c, Moves(w, n), hold)
        PROVE  /\ Ends(c)
               /\ ~lost' => /\ ~lost /\ escrow' = escrow + hold
                            /\ o \in Orders => order[o] = k.row
    <2>1. Ends(c)
      BY <1>w DEF Writes
    <2>2. ASSUME ~lost'
          PROVE  ~lost /\ (o \in Orders => order[o] = k.row)
      BY <1>w, <2>2 DEF Writes
    <2>3. ASSUME ~lost'
          PROVE  escrow' = escrow + hold
      <3>1. CASE hold = 0
        BY <1>e, <1>w, <3>1 DEF Writes
      <3>2. CASE hold # 0
        BY <1>w, <2>3, <3>2 DEF Writes
      <3> QED
        BY <3>1, <3>2
    <2> QED
      BY <2>1, <2>2, <2>3
  <1>c. ASSUME Ends(c), o \in Orders, \A u \in Orders : u # o => order'[u] = order[u],
               order'[o].status # "NONE",
               order[o].status # "NONE" /\ order[o].released => order'[o].released,
               order[o].status # "NONE" \/ \A d \in Calls : call'[d].o # o,
               ~lost' => ~lost /\ escrow' = escrow - Due(order[o]) + Due(order'[o])
        PROVE  BackInv'
    BY <1>c, <1>d, <1>t, ChangeBacks
  <1>1. CASE CommitCreateOrder(c)
    <2>1. k.kind = "create" /\ Writes(c, Moves("requester", -k.amount), k.amount)
          /\ order' = [order EXCEPT ![o] = k.as]
      BY <1>1 DEF CommitCreateOrder, Ready
    <2>2. k.kind \in OrderKinds \cap Creating
      BY <2>1 DEF OrderKinds, Creating
    <2>3. order'[o] = k.as /\ \A u \in Orders : u # o => order'[u] = order[u]
      BY <1>o, <2>1, <2>2 DEF TypeOK
    <2>4. k.as.status = "HELD" /\ ~k.as.released /\ k.as.total = k.amount
          /\ order[o].status = "NONE"
      BY <1>x, <2>1, <2>2 DEF Exact, Owned
    <2>5. Due(order[o]) = 0 /\ Due(order'[o]) = k.amount
      BY <2>3, <2>4 DEF Due
    <2>6. /\ Ends(c)
          /\ ~lost' => ~lost /\ escrow' = escrow + k.amount
      BY <1>k, <1>w, <2>1, Constants
    <2> QED
      <3>1. ~lost' => ~lost /\ escrow' = escrow - Due(order[o]) + Due(order'[o])
        BY <1>e, <1>k, <2>5, <2>6
      <3>2. Ends(c) /\ o \in Orders /\ \A d \in Calls : call'[d].o # o
        BY <1>n, <1>o, <2>2, <2>6
      <3>3. order'[o].status # "NONE"
        BY <2>3, <2>4
      <3> QED
        BY <1>c, <2>3, <2>4, <3>1, <3>2, <3>3
  <1>2. CASE CommitPurchase(c)
    <2>1. PICK moves : moves = [w \in {"requester", "platform"} |->
                                  IF w = "requester" THEN -k.as.total ELSE k.as.fee]
      OBVIOUS
    <2>2. k.kind = "purchase" /\ Writes(c, moves, 0) /\ order' = [order EXCEPT ![o] = k.as]
      BY <1>2, <2>1 DEF CommitPurchase, Ready
    <2>3. k.kind \in OrderKinds \cap Creating
      BY <2>2 DEF OrderKinds, Creating
    <2>4. order'[o] = k.as /\ \A u \in Orders : u # o => order'[u] = order[u]
      BY <1>o, <2>2, <2>3 DEF TypeOK
    <2>5. k.as.status = "COMPLETED" /\ order[o].status = "NONE"
      BY <1>x, <2>2, <2>3 DEF Exact, Owned
    <2>6. Due(order[o]) = 0 /\ Due(order'[o]) = 0
      BY <2>4, <2>5 DEF Due
    <2>7. Ends(c) /\ (~lost' => ~lost /\ escrow' = escrow)
      BY <2>2 DEF Writes
    <2> QED
      <3>1. ~lost' => ~lost /\ escrow' = escrow - Due(order[o]) + Due(order'[o])
        BY <1>e, <2>6, <2>7
      <3>2. Ends(c) /\ o \in Orders /\ \A d \in Calls : call'[d].o # o
        BY <1>n, <1>o, <2>3, <2>7
      <3>3. order'[o].status # "NONE"
        BY <2>4, <2>5
      <3> QED
        BY <1>c, <2>4, <2>5, <3>1, <3>2, <3>3
  <1>3. CASE CommitRelease(c)
    <2>1. PICK moves, hold : moves = Split(k.row) /\ hold = -k.amount
      OBVIOUS
    <2>2. /\ k.kind = "release" /\ Writes(c, moves, hold)
          /\ order' = [order EXCEPT ![o].released = TRUE]
      BY <1>3, <2>1 DEF CommitRelease, Ready
    <2>3. k.kind \in OrderKinds \ Creating
      BY <2>2 DEF OrderKinds, Creating
    <2>4. /\ order'[o].released /\ order'[o].status = order[o].status
          /\ \A u \in Orders : u # o => order'[u] = order[u]
      BY <1>o, <2>2, <2>3 DEF TypeOK, OrderRecords
    <2>5. /\ k.row.status = "HELD" /\ ~k.row.released /\ k.amount = k.row.total
          /\ order[o].status # "NONE"
      BY <1>x, <2>2, <2>3 DEF Exact, Owned
    <2>6. Due(k.row) = k.amount /\ Due(order'[o]) = 0
      BY <2>4, <2>5 DEF Due
    <2>7. hold \in Int /\ (~lost' => escrow' = escrow + hold)
      <3>1. hold \in Int
        BY <1>k, <2>1
      <3>2. CASE hold = 0
        BY <1>e, <2>2, <3>2 DEF Writes
      <3>3. CASE hold # 0 /\ ~lost'
        BY <1>e, <2>2, <3>1, <3>3 DEF Writes
      <3> QED
        BY <3>1, <3>2, <3>3
    <2>8. Ends(c) /\ (~lost' => ~lost /\ order[o] = k.row)
      BY <1>o, <2>2, <2>3 DEF Writes
    <2>9. ~lost' => ~lost /\ escrow' = escrow - Due(order[o]) + Due(order'[o])
      BY <1>e, <1>k, <2>1, <2>6, <2>7, <2>8
    <2> QED
      BY <1>c, <1>o, <2>3, <2>4, <2>5, <2>8, <2>9
  <1>4. CASE CommitRefund(c)
    <2>1. /\ k.kind = "refund"
          /\ order' = [order EXCEPT ![o].status = k.as.status, ![o].penalty = k.as.penalty]
      BY <1>4 DEF CommitRefund, Ready
    <2>2. k.kind \in OrderKinds \ Creating
      BY <2>1 DEF OrderKinds, Creating
    <2>3. /\ order'[o].status = k.as.status /\ order'[o].released = order[o].released
          /\ \A u \in Orders : u # o => order'[u] = order[u]
      BY <1>o, <2>1, <2>2 DEF TypeOK, OrderRecords
    <2>4. /\ k.row.status = "DISPUTED" /\ k.amount = k.row.total
          /\ k.as.status \in {"REFUNDED", "RESOLVED"}
          /\ order[o].status # "NONE" /\ (k.row.released => order[o].released)
      BY <1>x, <2>1, <2>2 DEF Exact, Owned
    <2>5. Due(order'[o]) = 0
      BY <2>3, <2>4 DEF Due
    <2>6. CASE k.row.released
      <3>1. Ends(c) /\ UNCHANGED <<escrow, lost>>
        BY <1>4, <2>6 DEF CommitRefund
      <3>2. Due(order[o]) = 0
        BY <2>4, <2>6 DEF Due
      <3> QED
        BY <1>c, <1>e, <1>o, <2>2, <2>3, <2>4, <2>5, <3>1, <3>2
    <2>7. CASE ~k.row.released
      <3>1. Writes(c, Moves("requester", k.amount), -k.amount)
        BY <1>4, <2>7 DEF CommitRefund
      <3>2. -k.amount \in Int /\ k.amount \in Int /\ "requester" \in Owners
        BY <1>k, Constants
      <3>3. Ends(c) /\ (~lost' => /\ ~lost /\ escrow' = escrow + (-k.amount)
                                  /\ order[o] = k.row)
        BY <1>o, <1>w, <2>2, <3>1, <3>2
      <3>4. Due(k.row) = k.amount
        BY <2>4, <2>7 DEF Due
      <3>5. ~lost' => ~lost /\ escrow' = escrow - Due(order[o]) + Due(order'[o])
        BY <1>e, <1>k, <2>5, <3>3, <3>4
      <3> QED
        BY <1>c, <1>o, <2>2, <2>3, <2>4, <3>3, <3>5
    <2> QED
      BY <2>6, <2>7
  <1>5. CASE CommitManualRefund(c)
    <2>1. /\ k.kind = "repay" /\ Writes(c, Moves("requester", k.amount), 0)
          /\ order' = [order EXCEPT ![o].status = "REFUNDED"]
      BY <1>5 DEF CommitManualRefund, Ready
    <2>2. k.kind \in OrderKinds \ Creating
      BY <2>1 DEF OrderKinds, Creating
    <2>3. /\ order'[o].status = "REFUNDED" /\ order'[o].released = order[o].released
          /\ \A u \in Orders : u # o => order'[u] = order[u]
      BY <1>o, <2>1, <2>2 DEF TypeOK, OrderRecords
    <2>4. k.row.status = "RESOLVED" /\ order[o].status # "NONE"
      BY <1>x, <2>1, <2>2 DEF Exact, Owned
    <2>5. Due(k.row) = 0 /\ Due(order'[o]) = 0
      BY <2>3, <2>4 DEF Due
    <2>6. Ends(c) /\ (~lost' => ~lost /\ escrow' = escrow /\ order[o] = k.row)
      BY <1>o, <2>1, <2>2 DEF Writes
    <2>7. ~lost' => ~lost /\ escrow' = escrow - Due(order[o]) + Due(order'[o])
      BY <1>e, <2>5, <2>6
    <2> QED
      BY <1>c, <1>o, <2>2, <2>3, <2>4, <2>6, <2>7
  <1>6. CASE CommitPenalty(c)
    <2>1. /\ k.kind = "penalty" /\ Writes(c, Moves("center", -k.amount), 0)
          /\ order' = [order EXCEPT ![o].penalty = "SUCCESS"]
      BY <1>6 DEF CommitPenalty, Ready
    <2>2. k.kind \in OrderKinds \ Creating
      BY <2>1 DEF OrderKinds, Creating
    <2>3. /\ order'[o].status = order[o].status /\ order'[o].released = order[o].released
          /\ order'[o].total = order[o].total
          /\ \A u \in Orders : u # o => order'[u] = order[u]
      BY <1>o, <2>1, <2>2 DEF TypeOK, OrderRecords
    <2>4. order[o].status # "NONE"
      BY <1>x, <2>2 DEF Owned
    <2>5. Due(order'[o]) = Due(order[o])
      BY <2>3 DEF Due
    <2>6. Ends(c) /\ (~lost' => ~lost /\ escrow' = escrow)
      BY <2>1 DEF Writes
    <2>7. ~lost' => ~lost /\ escrow' = escrow - Due(order[o]) + Due(order'[o])
      BY <1>e, <1>o, <2>2, <2>5, <2>6
    <2> QED
      BY <1>c, <1>o, <2>2, <2>3, <2>4, <2>6, <2>7
  <1>7. CASE CommitRemediation(c)
    <2>1. PICK delta \in Int : delta = k.as.total - k.row.total
      BY <1>k
    <2>2. k.kind = "remediate"
          /\ Writes(c, IF delta = 0 THEN [w \in {} |-> 0] ELSE Moves("requester", -delta), delta)
      BY <1>7, <2>1 DEF CommitRemediation, Ready
    <2>3. k.kind \in OrderKinds \ Creating
      BY <2>2 DEF OrderKinds, Creating
    <2>4. \A u \in Orders :
            order'[u] = IF u = o
                        THEN [status |-> order[u].status, released |-> order[u].released,
                              repriceable |-> FALSE, penalty |-> order[u].penalty,
                              total |-> k.as.total, fee |-> k.as.fee,
                              share |-> order[u].share, cbt |-> k.as.cbt]
                        ELSE order[u]
      BY <1>7, RepricingWrites DEF CommitRemediation
    <2>5. order'[o] = [status |-> order[o].status, released |-> order[o].released,
                       repriceable |-> FALSE, penalty |-> order[o].penalty,
                       total |-> k.as.total, fee |-> k.as.fee,
                       share |-> order[o].share, cbt |-> k.as.cbt]
      BY <1>o, <2>3, <2>4, Zenon
    <2>6. /\ order'[o].status = order[o].status /\ order'[o].released = order[o].released
          /\ order'[o].total = k.as.total
      BY <2>5
    <2>7. \A u \in Orders : u # o => order'[u] = order[u]
      BY <2>4
    <2>8. /\ k.row.status = "HELD" /\ ~k.row.released /\ order[o].status # "NONE"
      BY <1>x, <2>2, <2>3 DEF Exact, Owned
    <2>9. -delta \in Int /\ "requester" \in Owners
      BY Constants
    <2>10. Ends(c) /\ (~lost' => /\ ~lost /\ escrow' = escrow + delta
                                 /\ order[o] = k.row)
      <3>1. CASE delta = 0
        <4>1. Writes(c, [w \in {} |-> 0], delta)
          BY <2>2, <3>1
        <4> QED
          BY <1>e, <1>o, <2>2, <2>3, <3>1, <4>1 DEF Writes
      <3>2. CASE delta # 0
        <4>1. Writes(c, Moves("requester", -delta), delta)
          BY <2>2, <3>2
        <4> QED
          BY <1>o, <1>w, <2>2, <2>3, <2>9, <4>1
      <3> QED
        BY <3>1, <3>2
    <2>11. ~lost' => ~lost /\ escrow' = escrow - Due(order[o]) + Due(order'[o])
      <3> SUFFICES ASSUME ~lost'
                   PROVE  ~lost /\ escrow' = escrow - Due(order[o]) + Due(order'[o])
        OBVIOUS
      <3>1. order[o] = k.row
        BY <2>10
      <3>2. Due(order[o]) = k.row.total
        BY <2>8, <3>1 DEF Due
      <3>3. Due(order'[o]) = k.as.total
        BY <2>6, <2>8, <3>1 DEF Due
      <3> QED
        BY <1>e, <1>k, <2>1, <2>10, <3>2, <3>3
    <2> QED
      BY <1>c, <1>o, <2>3, <2>6, <2>7, <2>8, <2>10, <2>11
  <1>8. CASE CommitWithdrawal(c) \/ CommitRejection(c)
    <2>1. Ends(c) /\ order' = order /\ (~lost' => ~lost) /\ escrow' = escrow
      BY <1>8 DEF CommitWithdrawal, CommitRejection, Writes
    <2> QED
      BY <1>d, <2>1, EndsBacks
  <1> QED
    BY <1>1, <1>2, <1>3, <1>4, <1>5, <1>6, <1>7, <1>8 DEF Commits

LEMMA BackStep ==
  ASSUME IsFiniteSet(Orders), TypeOK, BackInv, [Next]_vars
  PROVE  BackInv'
  <1>1. ASSUME NEW c \in Calls, Fails(c)
        PROVE  BackInv'
    <2>1. \A d \in Calls : call'[d] = call[d] \/ call'[d] = IdleCall
      BY <1>1 DEF Fails, Ends, TypeOK
    <2> QED
      BY <1>1, <2>1, EndsBacks DEF Fails, history
  <1>2. ASSUME NEW c \in Calls, TransactionReads(c)
        PROVE  BackInv'
    <2>1. /\ call' = [call EXCEPT ![c] = call'[c]]
          /\ call'[c].kind = call[c].kind /\ call'[c].o = call[c].o
          /\ call'[c].row = call[c].row /\ call'[c].as = call[c].as
          /\ call'[c].amount = call[c].amount
      BY <1>2, TransactionReadsType
    <2>2. UNCHANGED <<escrow, order, lost>>
      BY <1>2 DEF TransactionReads, history
    <2>3. \A d \in Calls : /\ call'[d].kind = call[d].kind /\ call'[d].o = call[d].o
                           /\ call'[d].row = call[d].row /\ call'[d].as = call[d].as
                           /\ call'[d].amount = call[d].amount
      BY <2>1 DEF TypeOK
    <2>4. \A d \in Calls : Exact(call[d]) => Exact(call'[d])
      BY <2>3 DEF Exact
    <2>5. \A d \in Calls : Owned(d) => Owned(d)'
      BY <2>2, <2>3 DEF Owned
    <2> QED
      BY <2>2, <2>4, <2>5, BackingSame DEF BackInv
  <1>3. ASSUME NEW o \in Orders, CreateDispute(o) \/ ReviewForCbt(o) \/ WaivePenalty(o)
        PROVE  BackInv'
    <2>1. UNCHANGED <<escrow, call, lost>>
      BY <1>3 DEF CreateDispute, ReviewForCbt, WaivePenalty, history
    <2>2. \A u \in Orders : u # o => order'[u] = order[u]
      BY <1>3 DEF CreateDispute, ReviewForCbt, WaivePenalty, TypeOK
    <2>3. order[o] \in OrderRecords /\ Due(order[o]) \in Int
      BY DEF TypeOK, Due, OrderRecords
    <2>4. /\ order[o].status # "NONE" /\ order'[o].status # "NONE"
          /\ order'[o].released = order[o].released
          /\ Due(order'[o]) = Due(order[o])
      <3>1. CASE CreateDispute(o)
        BY <2>3, <3>1 DEF CreateDispute, TypeOK, OrderRecords, Due
      <3>2. CASE ReviewForCbt(o)
        BY <2>3, <3>2 DEF ReviewForCbt, TypeOK, OrderRecords, Due
      <3>3. CASE WaivePenalty(o)
        <4>1. order[o].status # "NONE"
          BY <3>3 DEF WaivePenalty, BackInv
        <4> QED
          BY <2>3, <3>3, <4>1 DEF WaivePenalty, TypeOK, OrderRecords, Due
      <3> QED
        BY <1>3, <3>1, <3>2, <3>3
    <2>5. escrow \in Int
      BY DEF TypeOK
    <2>6. TypeOK'
      BY TypeStep
    <2> QED
      BY <2>1, <2>2, <2>3, <2>4, <2>5, <2>6, ChangeBacks
  <1>4. ASSUME UNCHANGED <<escrow, order, call, lost>>
        PROVE  BackInv'
    BY <1>4, EndsBacks
  <1>5. ASSUME NEW amount, CreditFunding(amount) \/ PayoutFailed(amount)
        PROVE  UNCHANGED <<escrow, order, call, lost>>
    BY <1>5 DEF CreditFunding, PayoutFailed, history
  <1>6. UNCHANGED vars => UNCHANGED <<escrow, order, call, lost>>
    BY DEF vars, history
  <1> QED
    BY <1>1, <1>2, <1>3, <1>4, <1>5, <1>6, StartsBacks, CommitsBacks DEF Next

LEMMA BackInit == IsFiniteSet(Orders) /\ Init => BackInv
  <1> SUFFICES ASSUME Init
               PROVE  BackInv
    OBVIOUS
  <1>1. Unsettled = {}
    BY DEF Init, Unsettled, NoSuchOrder
  <1>2. escrow = Backing
    <2>1. Sum([o \in Unsettled |-> order[o].total], Unsettled) = 0
      BY <1>1, FS_EmptySet, SumPicks
    <2> QED
      BY <2>1, BackingIsSum DEF Init
  <1>3. \A c \in Calls : call[c] = IdleCall
    BY DEF Init
  <1>4. \A c \in Calls : Owned(c)
    BY <1>3 DEF Owned, IdleCall, OrderKinds, Creating
  <1>5. \A o \in Orders : order[o].penalty # "PENDING"
    BY DEF Init, NoSuchOrder
  <1> QED
    BY <1>2, <1>3, <1>4, <1>5, IdleCallExact DEF BackInv

(* As long as no handler has written over a change it had not seen, the    *)
(* escrow is the price of the orders that wait for a decision: at any      *)
(* prices, and though refunds and remediations read the row before their   *)
(* transaction begins.                                                     *)
THEOREM EscrowIsBacked ==
  ASSUME IsFiniteSet(Orders)
  PROVE  Spec => []EscrowBacksOrders
  <1>1. TypeOK /\ BackInv /\ [Next]_vars => TypeOK' /\ BackInv'
    BY TypeStep, BackStep
  <1>2. BackInv => EscrowBacksOrders
    BY DEF BackInv, EscrowBacksOrders, Backing
  <1> QED
    BY <1>1, <1>2, TypeInit, BackInit, PTL DEF Spec

=============================================================================
