----------------------- MODULE FulfilmentStock_proofs -----------------------
(***************************************************************************)
(* Theorems about module Fulfilment that say of a stock row that it agrees *)
(* with the table that records why it changed: the locked quantity of a    *)
(* part with the lock ledger, product stock with the movement table.  Both *)
(* are sums over all rows, for which see module SumTheorems.               *)
(***************************************************************************)
EXTENDS Fulfilment_proofs, SumTheorems

-----------------------------------------------------------------------------
(* The few things that a request does to part stock and to product stock.  *)

(* Parts are consumed for factory orders that have not been voided.        *)
PartsStep ==
    \/ UNCHANGED parts
    \/ \E f \in FOs, need \in [Materials -> Nat] : Lock(f, need)
    \/ \E S \in SUBSET FOs : Release(S)
    \/ \E S \in SUBSET FOs : Consume(S) /\ \A f \in S : ~fo[f].voided

GoodsStep ==
    \/ UNCHANGED products
    \/ \E o \in Orders : RecordShipment(o)
    \/ \E f \in FOs : RecordRestockReceipt(f)
    \/ \E reason \in {"ship", "restock_receipt"}, e \in Orders \cup FOs : Reverse(reason, e)

LEMMA OrderNeed ==
  ASSUME NEW o \in Orders, ProductOf[o] # None
  PROVE  Requirement(ProductOf[o], QtyOf[o]) \in [Materials -> Nat]
<1>1. ProductOf[o] \in Products /\ QtyOf[o] \in Nat
  BY ConstantsAssumption DEF ConstantsAssumption
<1> QED
  BY <1>1, RequirementNat

LEMMA SideEffectStock ==
  ASSUME NEW o \in Orders, NEW target, NEW flags, SideEffect(o, target, flags)
  PROVE  PartsStep /\ GoodsStep
<1>1. CASE NoEffect(flags)
  BY <1>1 DEF NoEffect, PartsStep, GoodsStep
<1>2. CASE FactoryOrderOnPayment(o, flags)
  <2>1. UNCHANGED parts \/ \E f \in Unused : ProductOf[o] # None /\ Lock(f, Requirement(ProductOf[o], QtyOf[o]))
    BY <1>2 DEF FactoryOrderOnPayment
  <2>2. PartsStep
    BY <2>1, OrderNeed DEF PartsStep, Unused
  <2> QED
    BY <1>2, <2>2 DEF FactoryOrderOnPayment, GoodsStep
<1>3. CASE CancelFactoryOrders(o, flags)
  <2>1. Active(o) \in SUBSET FOs
    BY DEF Active, Linked
  <2> QED
    BY <1>3, <2>1 DEF CancelFactoryOrders, PartsStep, GoodsStep
<1>4. CASE ShipFactoryOrders(o, flags)
  <2>1. Undelivered(o) \in SUBSET FOs /\ \A f \in Undelivered(o) : ~fo[f].voided
    BY DEF Undelivered, Active, Linked
  <2> QED
    BY <1>4, <2>1 DEF ShipFactoryOrders, PartsStep, GoodsStep
<1> QED
  BY <1>1, <1>2, <1>3, <1>4 DEF SideEffect

LEMMA TransitionStock ==
  ASSUME NEW o \in Orders, NEW target, NEW rows, NEW forced, NEW quiet,
         Transition(o, target, rows, forced, quiet)
  PROVE  PartsStep /\ GoodsStep
BY SideEffectStock DEF Transition

LEMMA NoEffectStock == ASSUME NEW flags, NoEffect(flags) PROVE PartsStep /\ GoodsStep
BY DEF NoEffect, PartsStep, GoodsStep

LEMMA NextStock ==
  ASSUME Next
  PROVE  PartsStep /\ GoodsStep
<1>1. ASSUME NEW o \in Orders, StatusRequests(o) PROVE PartsStep /\ GoodsStep
  BY <1>1, TransitionStock, NoEffectStock
     DEF StatusRequests, CreateOrder, ChangeStatus, CancelToFuture, ConfirmTracking, ConfirmManual,
         SignOff
<1>2. ASSUME NEW o \in Orders, DirectWrites(o) PROVE PartsStep /\ GoodsStep
  BY <1>2, NoEffectStock
     DEF DirectWrites, ImportOrder, ImportStatus, ImportHistory, ParcelMoving, ParcelSigned,
         CreateReturn
<1>3. ASSUME NEW o \in Orders, Scheduler(o) PROVE PartsStep /\ GoodsStep
  BY <1>3, TransitionStock, NoEffectStock DEF Scheduler, FallsDue, ActivateFutureOrder
<1>4. ASSUME NEW o \in Orders, GenerateFactoryOrder(o) PROVE PartsStep /\ GoodsStep
  BY <1>4, OrderNeed DEF GenerateFactoryOrder, Unused, PartsStep, GoodsStep
<1>5. ASSUME NEW f \in FOs, VoidFactoryOrder(f) PROVE PartsStep /\ GoodsStep
  <2>1. {f} \in SUBSET FOs
    OBVIOUS
  <2> QED
    BY <1>5, <2>1 DEF VoidFactoryOrder, PartsStep, GoodsStep
<1>6. ASSUME NEW f \in FOs, ReceiveRestock(f) PROVE PartsStep /\ GoodsStep
  BY <1>6 DEF ReceiveRestock, PartsStep, GoodsStep
<1>7. ASSUME UNCHANGED <<parts, products>> PROVE PartsStep /\ GoodsStep
  BY <1>7 DEF PartsStep, GoodsStep
<1>8. ASSUME FactoryRequests PROVE PartsStep /\ GoodsStep
  BY <1>4, <1>5, <1>6, <1>7, <1>8
     DEF FactoryRequests, ImportFactoryOrder, UpdateFactoryOrder, SyncFromOrders
<1> QED
  BY <1>1, <1>2, <1>3, <1>8, NoEffectStock DEF Next, SetBaseline

-----------------------------------------------------------------------------
(* Locked parts.  Release and consume clamp at zero what they take off the *)
(* part row; by LockInv they never reach the clamp.                        *)

(* What the factory orders still hold of a part *)
HeldOf(m) == [f \in FOs |-> Held(f, m)]

(* The locked quantity of a part and the ledger in total *)
Accounted(m) == locked[m] = SumFunctionOnSet(HeldOf(m), FOs)

AllAccounted == \A m \in Materials : Accounted(m)

LEMMA AccountedLocks == AllAccounted => LockedMatchesLedger
<1>1. \A m \in Materials : DOMAIN HeldOf(m) = FOs
  BY DEF HeldOf
<1>2. \A m \in Materials : SumFunction(HeldOf(m)) = SumFunctionOnSet(HeldOf(m), FOs)
  BY <1>1, SumDomain
<1> QED
  BY <1>2 DEF LockedMatchesLedger, AllAccounted, Accounted, HeldOf

LEMMA HeldNat ==
  ASSUME TypeOK, LockInv, NEW f \in FOs, NEW m \in Materials
  PROVE  /\ Held(f, m) \in Nat /\ HeldOf(m)[f] = Held(f, m)
         /\ ~fo[f].voided => Held(f, m) = Unshipped(f, m)
<1>1. /\ ledger[f][m]["lock"] \in Nat /\ ledger[f][m]["release"] \in Nat
      /\ ledger[f][m]["consume"] \in Nat
  BY LedgerNat DEF LedgerKinds
<1>2. Held(f, m) >= 0
  BY LockInvSettles DEF LocksSettleOnce
<1>3. ~fo[f].voided => ledger[f][m]["release"] = 0
  BY DEF LockInv, RowInv
<1> QED
  BY <1>1, <1>2, <1>3 DEF Held, HeldOf, Unshipped

(* The ledger of the part goes down by what S gives up, and so does the    *)
(* locked quantity, which does not reach zero before.                      *)
LEMMA TakenParts ==
  ASSUME TypeOK, TypeOK', LockInv, LockInv', NEW m \in Materials, Accounted(m),
         NEW S \in SUBSET FOs,
         \A f \in S : Held(f, m)' = 0,
         \A f \in FOs \ S : ledger'[f] = ledger[f],
         locked'[m] = Floor(locked[m] - SumFunction([f \in S |-> Floor(Held(f, m))]))
  PROVE  Accounted(m)'
<1> DEFINE d == [f \in S |-> Floor(Held(f, m))]
           before == HeldOf(m)
           after == HeldOf(m)'
           total == SumFunctionOnSet(before, FOs)
           taken == SumFunctionOnSet(d, S)
           left == SumFunctionOnSet(after, FOs)
<1>1. IsFiniteSet(FOs)
  BY ConstantsAssumption DEF ConstantsAssumption
<1>2. \A f \in FOs : before[f] = Held(f, m) /\ before[f] \in Nat
  BY HeldNat
<1>3. \A f \in FOs : after[f] = Held(f, m)' /\ after[f] \in Nat
  <2>1. ASSUME NEW f \in FOs PROVE Held(f, m)' \in Nat
    <3>1. /\ ledger'[f][m]["lock"] \in Nat /\ ledger'[f][m]["release"] \in Nat
          /\ ledger'[f][m]["consume"] \in Nat
      BY DEF TypeOK, LedgerRow, LedgerKinds
    <3>2. /\ fo'[f].voided => Settled(f, m)'
          /\ ledger'[f][m]["release"] # 0 =>
               ledger'[f][m]["release"] = ledger'[f][m]["lock"] /\ ledger'[f][m]["consume"] = 0
          /\ ledger'[f][m]["consume"] # 0 => ledger'[f][m]["consume"] = ledger'[f][m]["lock"]
      BY DEF LockInv, RowInv
    <3> QED
      BY <3>1, <3>2 DEF Held
  <2> QED
    BY <2>1 DEF HeldOf
<1>4. \A f \in S : d[f] = before[f] /\ d[f] \in Int
  BY <1>2, FloorId
<1>5. /\ \A f \in S : after[f] = before[f] - d[f]
      /\ \A f \in FOs \ S : after[f] = before[f]
  BY <1>2, <1>3, <1>4 DEF Held
<1>6. left = total - taken
  <2> HIDE DEF d, before, after
  <2> QED
    BY <1>1, <1>2, <1>4, <1>5, SumTake
<1>7. total \in Nat /\ left \in Nat
  <2> HIDE DEF d, before, after
  <2> QED
    BY <1>1, <1>2, <1>3, SumNat
<1>8. taken \in Int
  <2>1. IsFiniteSet(S)
    BY <1>1, FS_Subset
  <2> HIDE DEF d
  <2> QED
    BY <1>4, <2>1, SumRemove
<1>9. SumFunction(d) = taken
  BY SumDomain
<1>10. locked[m] = total
  BY DEF Accounted
<1>11. locked'[m] = Floor(total - taken)
  BY <1>9, <1>10
<1> HIDE DEF total, taken, left
<1>12. locked'[m] = left
  BY <1>6, <1>7, <1>8, <1>11, FloorId
<1> QED
  BY <1>12 DEF Accounted, left

LEMMA LockedNext ==
  ASSUME TypeOK, TypeOK', LockInv, LockInv', PartsStep, NEW m \in Materials, Accounted(m)
  PROVE  Accounted(m)'
<1>1. StockOK
  BY TypeOKParts DEF TablesOK
<1>2. CASE UNCHANGED parts
  BY <1>2 DEF parts, Accounted, HeldOf, Held
<1>3. ASSUME NEW f \in FOs, NEW need \in [Materials -> Nat], Lock(f, need) PROVE Accounted(m)'
  <2> DEFINE before == HeldOf(m)
             after == HeldOf(m)'
             total == SumFunctionOnSet(before, FOs)
  <2>1. IsFiniteSet(FOs)
    BY ConstantsAssumption DEF ConstantsAssumption
  <2>2. \A g \in FOs : before[g] = Held(g, m) /\ before[g] \in Int
    BY HeldNat
  <2>3. \A g \in FOs \ {f} : after[g] = before[g]
    BY <1>1, <1>3, LockRows DEF HeldOf, Held
  <2>4. after[f] = before[f] + need[m]
    <3>1. /\ ledger'[f][m]["lock"] = ledger[f][m]["lock"] + need[m]
          /\ ledger'[f][m]["release"] = ledger[f][m]["release"]
          /\ ledger'[f][m]["consume"] = ledger[f][m]["consume"]
      BY <1>1, <1>3, LockRows DEF LedgerKinds
    <3>2. /\ ledger[f][m]["lock"] \in Nat /\ ledger[f][m]["release"] \in Nat
          /\ ledger[f][m]["consume"] \in Nat /\ need[m] \in Nat
      BY LedgerNat DEF LedgerKinds
    <3> QED
      BY <3>1, <3>2 DEF HeldOf, Held
  <2>5. \A g \in FOs : after[g] \in Int
    BY <2>2, <2>3, <2>4
  <2>6. SumFunctionOnSet(after, FOs) = total + (after[f] - before[f]) /\ total \in Int
    <3> HIDE DEF before, after
    <3> QED
      BY <2>1, <2>2, <2>3, <2>5, SumPut, SumRemove
  <2>7. locked'[m] = locked[m] + need[m] /\ locked[m] = total
    BY <1>3 DEF Lock, Accounted
  <2>8. before[f] \in Int /\ need[m] \in Int
    BY <2>2
  <2> HIDE DEF before, total
  <2>9. locked'[m] = SumFunctionOnSet(after, FOs)
    BY <2>4, <2>6, <2>7, <2>8
  <2> QED
    BY <2>9 DEF Accounted
<1>4. ASSUME NEW S \in SUBSET FOs, Release(S) PROVE Accounted(m)'
  <2>1. ASSUME NEW f \in S PROVE Held(f, m)' = 0
    <3>1. /\ ledger'[f][m]["lock"] = ledger[f][m]["lock"]
          /\ ledger'[f][m]["release"] = ledger[f][m]["release"] + Floor(Held(f, m))
          /\ ledger'[f][m]["consume"] = ledger[f][m]["consume"]
      BY <1>1, <1>4, ReleaseRows DEF LedgerKinds
    <3>2. /\ ledger[f][m]["lock"] \in Nat /\ ledger[f][m]["release"] \in Nat
          /\ ledger[f][m]["consume"] \in Nat
      BY LedgerNat DEF LedgerKinds
    <3>3. Floor(Held(f, m)) = Held(f, m)
      BY HeldNat, FloorId
    <3> QED
      BY <3>1, <3>2, <3>3 DEF Held
  <2>2. \A f \in FOs \ S : ledger'[f] = ledger[f]
    BY <1>1, <1>4, ReleaseRows
  <2>3. locked'[m] = Floor(locked[m] - SumFunction([f \in S |-> Floor(Held(f, m))]))
    BY <1>4 DEF Release
  <2> QED
    BY <2>1, <2>2, <2>3, TakenParts
<1>5. ASSUME NEW S \in SUBSET FOs, Consume(S), \A f \in S : ~fo[f].voided PROVE Accounted(m)'
  <2>1. \A f \in S : Held(f, m) = Unshipped(f, m)
    BY <1>5, HeldNat
  <2>2. ASSUME NEW f \in S PROVE Held(f, m)' = 0
    <3>1. /\ ledger'[f][m]["lock"] = ledger[f][m]["lock"]
          /\ ledger'[f][m]["release"] = ledger[f][m]["release"]
          /\ ledger'[f][m]["consume"] = ledger[f][m]["consume"] + Floor(Unshipped(f, m))
      BY <1>1, <1>5, ConsumeRows DEF LedgerKinds
    <3>2. /\ ledger[f][m]["lock"] \in Nat /\ ledger[f][m]["release"] \in Nat
          /\ ledger[f][m]["consume"] \in Nat
      BY LedgerNat DEF LedgerKinds
    <3>3. Floor(Unshipped(f, m)) = Held(f, m)
      BY <2>1, HeldNat, FloorId
    <3> QED
      BY <3>1, <3>2, <3>3 DEF Held
  <2>3. \A f \in FOs \ S : ledger'[f] = ledger[f]
    BY <1>1, <1>5, ConsumeRows
  <2>4. [f \in S |-> Floor(Unshipped(f, m))] = [f \in S |-> Floor(Held(f, m))]
    BY <2>1
  <2>5. locked'[m] = Floor(locked[m] - SumFunction([f \in S |-> Floor(Held(f, m))]))
    BY <1>5, <2>4 DEF Consume
  <2> QED
    BY <2>2, <2>3, <2>5, TakenParts
<1> QED
  BY <1>2, <1>3, <1>4, <1>5 DEF PartsStep

(* No sequence of payments, cancellations, voids and shipments of any      *)
(* orders loses a lock or repeats it: the locked quantity of every part is *)
(* what the ledger says is still held, and the clamp at zero never hides a *)
(* difference.                                                             *)
THEOREM LockedMatches == Spec => []LockedMatchesLedger
<1>1. Init => AllAccounted
  <2> SUFFICES ASSUME Init, NEW m \in Materials PROVE Accounted(m)
    BY DEF AllAccounted
  <2>1. IsFiniteSet(FOs)
    BY ConstantsAssumption DEF ConstantsAssumption
  <2>2. \A f \in FOs : HeldOf(m)[f] = 0
    BY DEF Init, HeldOf, Held, NoLedger, LedgerKinds
  <2>3. SumFunctionOnSet(HeldOf(m), FOs) = SumFunctionOnSet(HeldOf(m), {})
    <3>1. {} \in SUBSET FOs
      OBVIOUS
    <3> QED
      BY <2>1, <2>2, <3>1, SumSupport
  <2> QED
    BY <2>3, SumEmpty DEF Init, Accounted
<1>2. TypeOK /\ TypeOK' /\ LockInv /\ LockInv' /\ AllAccounted /\ [Next]_vars => AllAccounted'
  <2> SUFFICES ASSUME TypeOK, TypeOK', LockInv, LockInv', AllAccounted, [Next]_vars
               PROVE  AllAccounted'
    OBVIOUS
  <2>1. PartsStep
    BY NextStock DEF PartsStep, vars, parts
  <2> QED
    BY <2>1, LockedNext DEF AllAccounted
<1>3. Spec => []LockInv
  BY TypeCorrect, LockInvInit, LockInvNext, PTL DEF Spec
<1> QED
  BY <1>1, <1>2, <1>3, TypeCorrect, AccountedLocks, PTL DEF Spec

-----------------------------------------------------------------------------
(* Product stock.  Every movement is booked once; a shipment books what it *)
(* took, a reversal books everything even where the clamp at zero lets the *)
(* stock keep more.                                                        *)

Own(p) == {mv \in moves : mv.product = p}

Quantities == [mv \in Movement |-> mv.qty]

LEMMA MovedSum ==
  ASSUME ProductsOK, IsFiniteSet(moves), NEW p
  PROVE  MovedQty(p) = SumFunctionOnSet(Quantities, Own(p)) /\ MovedQty(p) \in Int
<1> DEFINE f == [mv \in Own(p) |-> mv.qty]
<1>1. IsFiniteSet(Own(p)) /\ Own(p) \subseteq Movement
  BY FS_Subset DEF Own, ProductsOK
<1>2. \A mv \in Own(p) : Quantities[mv] = mv.qty /\ mv.qty \in Int
  BY <1>1 DEF Quantities, Movement
<1>3. MovedQty(p) = SumFunctionOnSet(f, Own(p))
  <2>1. MovedQty(p) = SumFunction(f)
    BY DEF MovedQty, Own
  <2> QED
    BY <2>1, SumDomain
<1>4. \A mv \in Own(p) : f[mv] = Quantities[mv]
  BY <1>2
<1> HIDE DEF f
<1>5. SumFunctionOnSet(f, Own(p)) = SumFunctionOnSet(Quantities, Own(p))
  BY <1>1, <1>4, SumSame
<1>6. SumFunctionOnSet(Quantities, Own(p)) \in Int
  BY <1>1, <1>2, SumRemove
<1> QED
  BY <1>3, <1>5, <1>6

(* A new movement changes what the table accounts for by its quantity.     *)
LEMMA NewMovement ==
  ASSUME ProductsOK, ProductsOK', IsFiniteSet(moves), NEW mv \in Movement,
         ~HasMove(mv.reason, mv.entity), moves' = moves \cup {mv}, NEW p
  PROVE  /\ IsFiniteSet(moves')
         /\ MovedQty(p)' = MovedQty(p) + (IF mv.product = p THEN mv.qty ELSE 0)
<1>1. mv \notin moves
  BY DEF HasMove
<1>2. IsFiniteSet(moves') /\ IsFiniteSet(Own(p))
  BY FS_AddElement, FS_Subset DEF Own
<1>3. MovedQty(p) = SumFunctionOnSet(Quantities, Own(p)) /\ MovedQty(p) \in Int
  BY MovedSum
<1>4. MovedQty(p)' = SumFunctionOnSet(Quantities, Own(p)')
  <2> DEFINE f == [x \in Own(p)' |-> x.qty]
  <2>1. IsFiniteSet(Own(p)') /\ Own(p)' \subseteq Movement
    BY <1>2, FS_Subset DEF Own, ProductsOK
  <2>2. MovedQty(p)' = SumFunctionOnSet(f, Own(p)')
    <3>1. MovedQty(p)' = SumFunction(f)
      BY DEF MovedQty, Own
    <3> QED
      BY <3>1, SumDomain
  <2>3. \A x \in Own(p)' : f[x] = Quantities[x]
    BY <2>1 DEF Quantities
  <2> HIDE DEF f
  <2> QED
    BY <2>1, <2>2, <2>3, SumSame
<1>5. CASE mv.product = p
  <2>1. Own(p)' = Own(p) \cup {mv} /\ mv \notin Own(p)
    BY <1>1, <1>5 DEF Own
  <2>2. \A x \in Own(p) \cup {mv} : Quantities[x] \in Int
    BY DEF Own, ProductsOK, Quantities, Movement
  <2>3. Quantities[mv] = mv.qty /\ mv.qty \in Int
    BY DEF Quantities, Movement
  <2>4. SumFunctionOnSet(Quantities, Own(p) \cup {mv})
          = Quantities[mv] + SumFunctionOnSet(Quantities, Own(p))
    BY <1>2, <2>1, <2>2, SumAdd
  <2> QED
    BY <1>2, <1>3, <1>4, <1>5, <2>1, <2>3, <2>4
<1>6. CASE mv.product # p
  <2>1. Own(p)' = Own(p)
    BY <1>6 DEF Own
  <2> QED
    BY <1>2, <1>3, <1>4, <1>6, <2>1
<1> QED
  BY <1>5, <1>6

Covers == IsFiniteSet(moves) /\ \A p \in Products : stock[p] >= InitStock[p] + MovedQty(p)

(* A movement that books no more than it puts on the stock.                *)
LEMMA BookedMove ==
  ASSUME ProductsOK, ProductsOK', Covers, NEW reason \in Reasons, NEW e \in Orders \cup FOs,
         NEW r \in Products, NEW q \in Int, NEW n \in Nat, Move(reason, e, r, q, n),
         ~HasMove(reason, e), n >= stock[r] + q
  PROVE  Covers'
<1> DEFINE mv == [reason |-> reason, entity |-> e, product |-> r, qty |-> q]
<1>1. mv \in Movement /\ mv.reason = reason /\ mv.entity = e /\ mv.product = r /\ mv.qty = q
  BY DEF Movement
<1>2. moves' = moves \cup {mv} /\ stock' = [stock EXCEPT ![r] = n]
  BY DEF Move
<1>3. ~HasMove(mv.reason, mv.entity)
  BY <1>1
<1> HIDE DEF mv
<1>4. IsFiniteSet(moves')
  BY <1>1, <1>2, <1>3, NewMovement DEF Covers
<1>5. ASSUME NEW p \in Products PROVE stock'[p] >= InitStock[p] + MovedQty(p)'
  <2>1. MovedQty(p)' = MovedQty(p) + (IF mv.product = p THEN mv.qty ELSE 0)
    BY <1>1, <1>2, <1>3, NewMovement DEF Covers
  <2>2. MovedQty(p) \in Int /\ stock[p] >= InitStock[p] + MovedQty(p)
    BY MovedSum DEF Covers
  <2>3. stock[p] \in Nat /\ InitStock[p] \in Nat
    BY ConstantsAssumption DEF ConstantsAssumption, ProductsOK
  <2>4. stock'[p] = IF p = r THEN n ELSE stock[p]
    BY <1>2 DEF ProductsOK
  <2>5. CASE p = r
    BY <1>1, <2>1, <2>2, <2>3, <2>4, <2>5
  <2>6. CASE p # r
    BY <1>1, <2>1, <2>2, <2>3, <2>4, <2>6
  <2> QED
    BY <2>5, <2>6
<1> QED
  BY <1>4, <1>5 DEF Covers

LEMMA CoversNext ==
  ASSUME TypeOK, TypeOK', Covers, GoodsStep
  PROVE  Covers'
<1>1. ProductsOK /\ ProductsOK' /\ FOsOK
  BY DEF TypeOK, ProductsOK, FOsOK
<1>2. CASE UNCHANGED products
  BY <1>2 DEF products, Covers, MovedQty
<1>3. ASSUME NEW o \in Orders, RecordShipment(o), ~UNCHANGED products PROVE Covers'
  <2> DEFINE p == ProductOf[o]
             take == Smaller(QtyOf[o], stock[p])
  <2>1. p # None /\ ~HasMove("ship", o) /\ Move("ship", o, p, -take, stock[p] - take)
    BY <1>3 DEF RecordShipment
  <2>2. p \in Products /\ QtyOf[o] \in Nat
    BY <2>1, ConstantsAssumption DEF ConstantsAssumption
  <2>3. stock[p] \in Nat
    BY <1>1, <2>2 DEF ProductsOK
  <2>4. take \in Nat /\ stock[p] - take \in Nat /\ -take \in Int
        /\ stock[p] - take >= stock[p] + (-take)
    BY <2>2, <2>3 DEF Smaller
  <2> HIDE DEF p, take
  <2> QED
    BY <1>1, <2>1, <2>2, <2>4, BookedMove DEF Reasons
<1>4. ASSUME NEW f \in FOs, RecordRestockReceipt(f), ~UNCHANGED products PROVE Covers'
  <2> DEFINE p == fo[f].product
  <2>1. /\ p # None /\ ~HasMove("restock_receipt", f)
        /\ Move("restock_receipt", f, p, fo[f].qty, stock[p] + fo[f].qty)
    BY <1>4 DEF RecordRestockReceipt
  <2>2. p \in Products /\ fo[f].qty \in Nat
    BY <1>1, <2>1 DEF FOsOK, FORow
  <2>3. fo[f].qty \in Int /\ stock[p] + fo[f].qty \in Nat
        /\ stock[p] + fo[f].qty >= stock[p] + fo[f].qty
    BY <1>1, <2>2 DEF ProductsOK
  <2> HIDE DEF p
  <2> QED
    BY <1>1, <2>1, <2>2, <2>3, BookedMove DEF Reasons
<1>5. ASSUME NEW reason \in {"ship", "restock_receipt"}, NEW e \in Orders \cup FOs,
             Reverse(reason, e), ~UNCHANGED products
      PROVE  Covers'
  <2>1. PICK orig \in moves :
          /\ ~HasMove("reversal", e)
          /\ Move("reversal", e, orig.product, -orig.qty,
                  Floor(stock[orig.product] - orig.qty))
    BY <1>5 DEF Reverse
  <2>2. orig.product \in Products /\ orig.qty \in Int
    BY <1>1 DEF ProductsOK, Movement
  <2>3. stock[orig.product] \in Nat
    BY <1>1, <2>2 DEF ProductsOK
  <2>4. /\ Floor(stock[orig.product] - orig.qty) \in Nat
        /\ Floor(stock[orig.product] - orig.qty) >= stock[orig.product] + (-orig.qty)
        /\ -orig.qty \in Int
    BY <2>2, <2>3 DEF Floor
  <2> QED
    BY <1>1, <2>1, <2>2, <2>4, BookedMove DEF Reasons
<1> QED
  BY <1>2, <1>3, <1>4, <1>5 DEF GoodsStep

(* Shipments, receipts and reversals, clamped or not, in any order: the    *)
(* stock of a product is never less than its movements account for.        *)
THEOREM StockCovers == Spec => []StockCoversMovements
<1>1. Init => Covers
  <2> SUFFICES ASSUME Init PROVE Covers
    OBVIOUS
  <2>1. moves = {} /\ IsFiniteSet(moves) /\ ProductsOK
    BY FS_EmptySet, ConstantsAssumption DEF Init, ProductsOK, ConstantsAssumption
  <2>2. ASSUME NEW p \in Products PROVE MovedQty(p) = 0
    <3>1. Own(p) = {}
      BY <2>1 DEF Own
    <3> QED
      BY <2>1, <3>1, MovedSum, SumEmpty
  <2>3. \A p \in Products : stock[p] = InitStock[p] /\ InitStock[p] \in Nat
    BY ConstantsAssumption DEF Init, ConstantsAssumption
  <2> QED
    BY <2>1, <2>2, <2>3 DEF Covers
<1>2. TypeOK /\ TypeOK' /\ Covers /\ [Next]_vars => Covers'
  <2> SUFFICES ASSUME TypeOK, TypeOK', Covers, [Next]_vars PROVE Covers'
    OBVIOUS
  <2>1. GoodsStep
    BY NextStock DEF GoodsStep, vars, products
  <2> QED
    BY <2>1, CoversNext
<1>3. Covers => StockCoversMovements
  BY DEF Covers, StockCoversMovements
<1> QED
  BY <1>1, <1>2, <1>3, TypeCorrect, PTL DEF Spec

-----------------------------------------------------------------------------
(* The row that a payment creates *)

LockedInFull(f) ==
    /\ fo'[f].product \in Products
    /\ \A m \in Materials :
         ledger'[f][m]["lock"] = Requirement(fo'[f].product, fo'[f].qty)[m]

(* A new row of a request that works on an order *)
Answered(f) ==
    ~fo[f].present /\ fo'[f].present => "status_side_effect_failed" \in raised' \/ LockedInFull(f)

LEMMA SideEffectAnswers ==
  ASSUME TypeOK, LockInv, NEW o \in Orders, NEW target, NEW flags, SideEffect(o, target, flags),
         NEW f \in FOs
  PROVE  Answered(f)
<1>0. FOsOK /\ StockOK
  BY TypeOKParts DEF TablesOK
<1>1. CASE NoEffect(flags)
  BY <1>1 DEF NoEffect, Answered
<1>2. CASE CancelFactoryOrders(o, flags)
  BY <1>0, <1>2, VoidedRow DEF CancelFactoryOrders, FOsOK, Answered
<1>3. CASE ShipFactoryOrders(o, flags)
  BY <1>0, <1>3, DeliveredRow DEF ShipFactoryOrders, FOsOK, Answered
<1>4. CASE FactoryOrderOnPayment(o, flags)
  <2> SUFFICES ASSUME ~fo[f].present, fo'[f].present
               PROVE  "status_side_effect_failed" \in raised' \/ LockedInFull(f)
    BY DEF Answered
  <2>1. PICK g \in Unused :
          /\ fo' = [fo EXCEPT ![g] = FOFor(o)]
          /\ \/ "status_side_effect_failed" \in raised'
             \/ ProductOf[o] # None /\ Lock(g, Requirement(ProductOf[o], QtyOf[o]))
    BY <1>4 DEF FactoryOrderOnPayment
  <2>2. g = f /\ fo'[f] = FOFor(o)
    BY <1>0, <2>1 DEF FOsOK, Unused
  <2>3. CASE ProductOf[o] # None /\ Lock(f, Requirement(ProductOf[o], QtyOf[o]))
    <3> DEFINE need == Requirement(ProductOf[o], QtyOf[o])
    <3>1. ProductOf[o] \in Products /\ need \in [Materials -> Nat]
      BY <2>3, OrderNeed, ConstantsAssumption DEF ConstantsAssumption
    <3>2. fo'[f].product = ProductOf[o] /\ fo'[f].qty = QtyOf[o]
      BY <2>2, NewRow
    <3> HIDE DEF need
    <3>3. ASSUME NEW m \in Materials PROVE ledger'[f][m]["lock"] = need[m]
      <4>1. ledger[f][m]["lock"] = 0
        BY DEF LockInv, RowInv
      <4>2. ledger'[f][m]["lock"] = ledger[f][m]["lock"] + need[m]
        BY <1>0, <2>3, <3>1, LockRows DEF LedgerKinds, need
      <4> QED
        BY <3>1, <4>1, <4>2
    <3> QED
      BY <3>1, <3>2, <3>3 DEF LockedInFull, need
  <2> QED
    BY <2>1, <2>2, <2>3
<1> QED
  BY <1>1, <1>2, <1>3, <1>4 DEF SideEffect

LEMMA NextAnswers ==
  ASSUME TypeOK, LockInv, Next, order' # order, NEW f \in FOs
  PROVE  Answered(f)
<1>1. ASSUME NEW flags, NoEffect(flags) PROVE Answered(f)
  BY <1>1 DEF NoEffect, Answered
<1>2. ASSUME NEW o \in Orders, NEW target, NEW rows, NEW forced, NEW quiet,
             Transition(o, target, rows, forced, quiet)
      PROVE  Answered(f)
  BY <1>2, SideEffectAnswers DEF Transition
<1>3. ASSUME NEW o \in Orders, StatusRequests(o) PROVE Answered(f)
  BY <1>1, <1>2, <1>3
     DEF StatusRequests, CreateOrder, ChangeStatus, CancelToFuture, ConfirmTracking, ConfirmManual,
         SignOff
<1>4. ASSUME NEW o \in Orders, DirectWrites(o) PROVE Answered(f)
  BY <1>1, <1>4
     DEF DirectWrites, ImportOrder, ImportStatus, ImportHistory, ParcelMoving, ParcelSigned,
         CreateReturn
<1>5. ASSUME NEW o \in Orders, Scheduler(o) PROVE Answered(f)
  BY <1>1, <1>2, <1>5 DEF Scheduler, FallsDue, ActivateFutureOrder
<1>6. ~FactoryRequests
  BY DEF FactoryRequests, GenerateFactoryOrder, VoidFactoryOrder, ReceiveRestock,
         ImportFactoryOrder, UpdateFactoryOrder, SyncFromOrders
<1> QED
  BY <1>1, <1>3, <1>4, <1>5, <1>6 DEF Next, SetBaseline

(* Whatever request pays an order, the factory order it creates has the    *)
(* whole requirement locked, or the failure is on record.                  *)
THEOREM PaymentFlagged == Spec => PaymentLockFailureFlagged
<1>1. TypeOK /\ LockInv /\ [Next]_vars =>
        [\A f \in FOs :
            ~fo[f].present /\ fo'[f].present /\ order' # order =>
                \/ "status_side_effect_failed" \in raised'
                \/ /\ fo'[f].product \in Products
                   /\ \A m \in Materials :
                        ledger'[f][m]["lock"] = Requirement(fo'[f].product, fo'[f].qty)[m]]_vars
  <2> SUFFICES ASSUME TypeOK, LockInv, Next, NEW f \in FOs,
                      ~fo[f].present, fo'[f].present, order' # order
               PROVE  "status_side_effect_failed" \in raised' \/ LockedInFull(f)
    BY DEF LockedInFull
  <2> QED
    BY NextAnswers DEF Answered
<1>2. Spec => []LockInv
  BY TypeCorrect, LockInvInit, LockInvNext, PTL DEF Spec
<1> QED
  BY <1>1, <1>2, TypeCorrect, PTL DEF Spec, PaymentLockFailureFlagged

=============================================================================
