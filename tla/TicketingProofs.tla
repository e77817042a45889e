-------------------------- MODULE TicketingProofs --------------------------
(***************************************************************************)
(* Proofs about Ticketing, for any number of ticket types, payments,       *)
(* requests and orders.  Stock is right because a row lock makes the       *)
(* holder of a type's tickets the only one who takes or puts back any:     *)
(* that is LocksInv.  Payments are right because what a request has read   *)
(* of them before an await stays true: that is Informed.  Orders are       *)
(* issued whole because a request holds the items it has passed, and only  *)
(* while a payment is open do more requests start on it: OrdersInv.        *)
(***************************************************************************)
EXTENDS Ticketing, FiniteSetTheorems, WellFoundedInduction, TLAPS

(***************************************************************************)
(* The inductive invariant                                                 *)
(***************************************************************************)

\* Two requests never hold tickets of one type.
LocksExclude ==
    \A p, q \in Reqs, t \in Types : p # q /\ locked_by(p, t) => ~locked_by(q, t)

\* What a request holds is still in the committed column.
HeldIsThere == \A q \in Reqs, t \in Types : req[q].taken[t] <= available[t]

\* Only a request that goes through its order holds anything.
OnlyOrdersHold == \A q \in Reqs : req[q].stage # "items" => req[q].taken = Nothing

LocksInv == LocksExclude /\ HeldIsThere /\ OnlyOrdersHold

Started(r) == txn[r].status # "none"
Collected(r) == collected[r] # "none"

\* A payment was started for an order, and money comes for a started payment.
RowsAreOrders == \A r \in Refs : Started(r) => txn[r].items # <<>>
PaidIsStarted == \A r \in Refs : Collected(r) => Started(r)

\* What a request has read of its payment still holds, and an order it has gone
\* through to the end has given it something.
Informed(q) ==
    LET r == req[q].ref IN
    /\ req[q].stage \in {"verify", "reject"} => Started(r)
    /\ req[q].stage \in {"paid", "manual"} => Collected(r)
    /\ req[q].stage = "items" /\ req[q].kind # "free" =>
          Collected(r) /\ (req[q].left # <<>> \/ req[q].taken # Nothing)

PaymentInv ==
    /\ RowsAreOrders /\ PaidIsStarted /\ OnlyPaidIsDelivered /\ SuccessIsDelivered
    /\ \A q \in Reqs : Informed(q)

Inv == TypeOK /\ LocksInv /\ StockMatchesTickets /\ PaymentInv

-----------------------------------------------------------------------------
(* Quantities, items and the records of requests *)

\* Adding keeps quantities quantities, and so does taking no more than there is.
LEMMA Sums ==
  ASSUME NEW a \in Quantity, NEW b \in Quantity
  PROVE  /\ plus(a, b) \in Quantity
         /\ (\A t \in Types : b[t] <= a[t]) => minus(a, b) \in Quantity
         /\ minus(a, minus(b, b)) = a /\ plus(a, minus(b, b)) = a
BY DEF plus, minus, Quantity

\* No tickets of any type are a quantity of tickets.
LEMMA NothingIsAQuantity == Nothing \in Quantity
BY DEF Nothing, Quantity

\* The tickets of one item are a quantity of tickets.
LEMMA OneItem == ASSUME NEW i \in Item PROVE one_item(i) \in Quantity
BY DEF one_item, Item, Quantity, Nothing

\* Orders are nonempty sequences of items.
LEMMA OrdersAreItems == Items \subseteq Item /\ \A o \in Orders : o \in Seq(Item) /\ o # <<>>
<1>1. \A o \in Orders : o \in Seq(Item) /\ o # <<>>
  BY ConstantsAssumption
<1>2. \A o \in Orders : ToSet(o) \subseteq Item
  BY <1>1 DEF ToSet
<1>3. QED
  BY <1>1, <1>2 DEF Items

\* A slot that is idle holds nothing.
LEMMA IdleIsRequest == Idle \in Request /\ Idle.taken = Nothing /\ Idle.stage = "idle"
BY ConstantsAssumption DEF Idle, Request, SomeRef, Quantity, Nothing, Item

-----------------------------------------------------------------------------
(* Types *)

\* The first state has the types declared.
LEMMA TypeInit == Init => TypeOK
<1> USE ConstantsAssumption
<1>1. Idle \in Request
  BY IdleIsRequest
<1>2. Nothing \in Quantity
  BY DEF Nothing, Quantity
<1>3. [t \in Types |-> Stock] \in Quantity
  BY DEF Quantity
<1>4. <<>> \in Seq(Item)
  OBVIOUS
<1>. QED
  BY <1>1, <1>2, <1>3, <1>4 DEF Init, TypeOK, TicketTransaction, ShelfStates

\* What a request is about to take is an item.
LEMMA NextItem ==
  ASSUME TypeOK, NEW q \in Reqs, req[q].left # <<>>
  PROVE  next_item(q) \in Item /\ Tail(req[q].left) \in Seq(Item)
<1>1. req[q].left \in Seq(Item)
  BY DEF TypeOK, Request
<1>2. QED
  BY <1>1 DEF next_item

Statuses == {"none", "pending", "success", "failed", "needs_refund"}
Stages == {"idle", "verify", "paid", "items", "reject", "lookup", "manual"}

\* A request that is finished leaves its slot idle and touches no other.
LEMMA Finished ==
  ASSUME TypeOK, NEW q \in Reqs, finish(q)
  PROVE  /\ req' \in [Reqs -> Request]
         /\ req'[q] = Idle
         /\ \A p \in Reqs : p # q => req'[p] = req[p]
BY IdleIsRequest DEF TypeOK, finish

\* update_status writes one column of one row.
LEMMA Updated ==
  ASSUME TypeOK, NEW r \in Refs, NEW s \in Statuses, update_status(r, s)
  PROVE  /\ txn' \in [Refs -> TicketTransaction]
         /\ txn'[r].status = s
         /\ \A x \in Refs : txn'[x].items = txn[x].items
         /\ \A x \in Refs : x # r => txn'[x] = txn[x]
<1>1. txn \in [Refs -> TicketTransaction]
  BY DEF TypeOK
<1>2. txn[r] \in TicketTransaction
  BY <1>1
<1>3. [txn[r] EXCEPT !.status = s] \in TicketTransaction
  BY <1>2 DEF TicketTransaction, Statuses
<1>4. txn' = [txn EXCEPT ![r] = [txn[r] EXCEPT !.status = s]]
  BY DEF update_status
<1>5. [txn[r] EXCEPT !.status = s].status = s /\ [txn[r] EXCEPT !.status = s].items = txn[r].items
  BY <1>2 DEF TicketTransaction
<1>6. QED
  BY <1>1, <1>3, <1>4, <1>5

\* Apart from where it stands, a request has not changed.
same_but_stage(p) ==
    /\ req'[p].kind = req[p].kind /\ req'[p].ref = req[p].ref
    /\ req'[p].left = req[p].left /\ req'[p].taken = req[p].taken

\* A request that goes on to another stage keeps everything else.
LEMMA Staged ==
  ASSUME TypeOK, NEW q \in Reqs, NEW s \in Stages, req' = [req EXCEPT ![q].stage = s]
  PROVE  /\ req' \in [Reqs -> Request]
         /\ req'[q].stage = s
         /\ \A p \in Reqs : same_but_stage(p)
         /\ \A p \in Reqs : p # q => req'[p] = req[p]
<1>1. req \in [Reqs -> Request] /\ req[q] \in Request
  BY DEF TypeOK
<1>2. [req[q] EXCEPT !.stage = s] \in Request
  BY <1>1 DEF Request, Stages
<1>3. req' = [req EXCEPT ![q] = [req[q] EXCEPT !.stage = s]]
  OBVIOUS
<1>4. [req[q] EXCEPT !.stage = s].stage = s
  BY <1>1 DEF Request
<1>5. req'[q] = [req[q] EXCEPT !.stage = s] /\ \A p \in Reqs : p # q => req'[p] = req[p]
  BY <1>1, <1>3
<1>6. \A p \in Reqs : same_but_stage(p)
  BY <1>1, <1>5 DEF same_but_stage, Request
<1>7. QED
  BY <1>1, <1>2, <1>3, <1>4, <1>5, <1>6

\* fulfill_paid_purchase of a published event goes through the order of its payment.
LEMMA Opened ==
  ASSUME TypeOK, NEW q \in Reqs, fulfill_paid_purchase(q), published
  PROVE  /\ req' \in [Reqs -> Request]
         /\ req'[q].stage = "items" /\ req'[q].left = txn[req[q].ref].items
         /\ req'[q].kind = req[q].kind /\ req'[q].ref = req[q].ref /\ req'[q].taken = req[q].taken
         /\ \A p \in Reqs : p # q => req'[p] = req[p]
<1> DEFINE opened == [req[q] EXCEPT !.stage = "items", !.seen = on_sale,
                                    !.left = txn[req[q].ref].items]
<1>1. req \in [Reqs -> Request] /\ req[q] \in Request /\ txn[req[q].ref].items \in Seq(Item)
  BY DEF TypeOK, Request, TicketTransaction
<1>2. req' = [req EXCEPT ![q] = opened]
  BY DEF fulfill_paid_purchase
<1>3. /\ opened \in Request /\ opened.stage = "items" /\ opened.left = txn[req[q].ref].items
      /\ opened.kind = req[q].kind /\ opened.ref = req[q].ref /\ opened.taken = req[q].taken
  BY <1>1 DEF Request, on_sale
<1> HIDE DEF opened
<1>4. QED
  BY <1>1, <1>2, <1>3

\* A commit of no more than is there moves it from available to sold.
LEMMA CommitTypes ==
  ASSUME TypeOK, NEW n \in Quantity, commit_stock(n), \A t \in Types : n[t] <= available[t]
  PROVE  /\ available' \in Quantity /\ sold' \in Quantity
         /\ \A t \in Types : /\ available'[t] = available[t] - n[t]
                             /\ sold'[t] = sold[t] + n[t]
BY Sums DEF TypeOK, commit_stock, plus, minus, Quantity

\* A request in any slot names a payment and holds a quantity of tickets.
LEMMA Ref == TypeOK => \A q \in Reqs : req[q].ref \in Refs /\ req[q].taken \in Quantity
BY DEF TypeOK, Request

\* take_item adds the next item to what the request holds.
LEMMA Taken ==
  ASSUME TypeOK, NEW q \in Reqs, take_item(q)
  PROVE  /\ req' \in [Reqs -> Request]
         /\ req'[q].taken = plus(req[q].taken, one_item(next_item(q)))
         /\ req'[q].stage = "items" /\ req'[q].kind = req[q].kind /\ req'[q].ref = req[q].ref
         /\ req'[q].left = Tail(req[q].left)
         /\ \A p \in Reqs : p # q => req'[p] = req[p]
<1>1. next_item(q) \in Item /\ Tail(req[q].left) \in Seq(Item)
  BY NextItem DEF take_item
<1>2. req \in [Reqs -> Request] /\ req[q] \in Request /\ req[q].taken \in Quantity
  BY DEF TypeOK, Request
<1>3. plus(req[q].taken, one_item(next_item(q)))
        = [req[q].taken EXCEPT ![next_item(q).type] = @ + next_item(q).quantity]
  <2> DEFINE i == next_item(q)
  <2> DEFINE a == req[q].taken
  <2>1. a \in [Types -> Nat] /\ i.type \in Types /\ i.quantity \in Nat
    BY <1>1, <1>2 DEF Quantity, Item
  <2> HIDE DEF i, a
  <2>2. \A t \in Types : a[t] + one_item(i)[t] = [a EXCEPT ![i.type] = @ + i.quantity][t]
    BY <2>1 DEF one_item, Nothing
  <2>3. plus(a, one_item(i)) = [a EXCEPT ![i.type] = @ + i.quantity]
    BY <2>1, <2>2 DEF plus
  <2>4. QED
    BY <2>3 DEF i, a
<1>4. plus(req[q].taken, one_item(next_item(q))) \in Quantity
  BY <1>1, <1>2, OneItem, Sums
<1>5. req' = [req EXCEPT ![q] = [req[q] EXCEPT
                 !.taken = [req[q].taken EXCEPT ![next_item(q).type] = @ + next_item(q).quantity],
                 !.left = Tail(@)]]
  BY <1>2 DEF take_item, Request
<1>6. [req[q] EXCEPT !.taken = plus(@, one_item(next_item(q))), !.left = Tail(@)] \in Request
  BY <1>1, <1>2, <1>4 DEF Request
<1>7. req'[q] = [req[q] EXCEPT !.taken = plus(@, one_item(next_item(q))), !.left = Tail(@)]
  BY <1>2, <1>3, <1>5
<1>8. QED
  BY <1>2, <1>5, <1>6, <1>7 DEF take_item, Request

\* decrement_available lets through no more than the committed column has.
LEMMA Fits ==
  ASSUME TypeOK, NEW q \in Reqs, NEW i \in Items, decrement_available(q, i)
  PROVE  \A t \in Types : one_item(i)[t] <= available[t]
<1>1. i \in Item /\ available \in [Types -> Nat] /\ req[q].taken \in [Types -> Nat]
  BY Ref, OrdersAreItems DEF TypeOK, Quantity
<1>2. QED
  BY <1>1 DEF decrement_available, one_item, Nothing, Item

\* Every step keeps the types; no column of the stock becomes negative.
LEMMA TypeNext == TypeOK /\ LocksInv /\ [Next]_vars => TypeOK'
<1> SUFFICES ASSUME TypeOK, LocksInv, [Next]_vars PROVE TypeOK'
  OBVIOUS
<1> USE ConstantsAssumption
<1>1. ASSUME NEW r \in Refs, NEW o \in Orders, initiate_ticket_payment(r, o) PROVE TypeOK'
  BY <1>1, OrdersAreItems DEF TypeOK, initiate_ticket_payment, TicketTransaction, stock,
     event, gateway, tickets
<1>2. ASSUME NEW r \in Refs, NEW how \in {"short", "full"}, CustomerPays(r, how)
      PROVE  TypeOK'
  BY <1>2 DEF TypeOK, CustomerPays, stock, event, gateway, tickets
<1>3. ASSUME NEW r \in Refs, AttemptFails(r) PROVE TypeOK'
  BY <1>3 DEF TypeOK, AttemptFails, stock, event, gateway, tickets
<1>4. ASSUME NEW q \in Reqs, NEW o \in Orders, purchase_tickets(q, o) PROVE TypeOK'
  BY <1>4, OrdersAreItems, NothingIsAQuantity, IdleIsRequest DEF TypeOK, purchase_tickets,
     Request, Idle, on_sale, stock, event, gateway, tickets
<1>5. ASSUME NEW q \in Reqs, NEW r \in Refs, begin_verify(q, r) PROVE TypeOK'
  BY <1>5, IdleIsRequest DEF TypeOK, begin_verify, Request, Idle, stock, event, gateway, tickets
<1>6. ASSUME NEW r \in Refs, webhook_ignored(r) PROVE TypeOK'
  BY <1>6 DEF TypeOK, webhook_ignored, stock, event, gateway, tickets
<1>7. ASSUME NEW q \in Reqs, NEW r \in Refs, begin_charge_success(q, r) PROVE TypeOK'
  BY <1>7, IdleIsRequest DEF TypeOK, begin_charge_success, Request, Idle, stock, event,
     gateway, tickets
<1>8. ASSUME NEW q \in Reqs, NEW r \in Refs, begin_charge_failed(q, r) PROVE TypeOK'
  BY <1>8, IdleIsRequest DEF TypeOK, begin_charge_failed, Request, Idle, stock, event,
     gateway, tickets
<1>9. ASSUME NEW q \in Reqs, verify_transaction(q) PROVE TypeOK'
  BY <1>9, Ref, Finished, Staged, Updated DEF TypeOK, verify_transaction, Statuses, Stages,
     stock, event, gateway, tickets
<1>10. ASSUME NEW q \in Reqs, fulfill_paid_purchase(q) PROVE TypeOK'
  <2>1. CASE published
    BY <1>10, <2>1, Opened DEF TypeOK, fulfill_paid_purchase, stock, event, gateway, tickets
  <2>2. CASE ~published
    BY <1>10, <2>2, Ref, Finished, Updated DEF TypeOK, fulfill_paid_purchase, answer,
       Statuses, stock, event, gateway, tickets
  <2>3. QED
    BY <2>1, <2>2
<1>11. ASSUME NEW q \in Reqs, take_item(q) PROVE TypeOK'
  BY <1>11, Taken DEF TypeOK, take_item, stock, event, gateway, tickets
<1>12. ASSUME NEW q \in Reqs, abandon_purchase(q) PROVE TypeOK'
  BY <1>12, Finished DEF TypeOK, abandon_purchase, stock, event, gateway, tickets
<1>13. ASSUME NEW q \in Reqs, mark_needs_refund(q) PROVE TypeOK'
  <2>1. req[q].taken \in Quantity /\ req[q].ref \in Refs
    BY Ref
  <2>2. available' = available /\ sold' = sold
    BY <1>13, <2>1, Sums DEF mark_needs_refund, commit_stock, decremented_so_far, TypeOK
  <2>3. QED
    BY <1>13, <2>1, <2>2, Finished, Updated DEF TypeOK, mark_needs_refund, answer, Statuses,
       event, gateway, tickets
<1>14. ASSUME NEW q \in Reqs, issue_tickets(q) PROVE TypeOK'
  <2>1. req[q].taken \in Quantity /\ req[q].ref \in Refs
    BY Ref
  <2>2. available' \in Quantity /\ sold' \in Quantity
    BY <1>14, <2>1, CommitTypes DEF issue_tickets, LocksInv, HeldIsThere
  <2>3. owned' \in Quantity
    BY <1>14, <2>1, Sums DEF issue_tickets, TypeOK
  <2>4. plus(delivered[req[q].ref], req[q].taken) \in Quantity
    BY <2>1, Sums DEF TypeOK
  <2>5. delivered' \in [Refs -> Quantity]
    BY <1>14, <2>1, <2>4 DEF issue_tickets, TypeOK
  <2>6. txn' \in [Refs -> TicketTransaction]
    BY <1>14, <2>1, Updated DEF issue_tickets, Statuses, TypeOK
  <2>7. QED
    BY <1>14, <2>1, <2>2, <2>3, <2>6, <2>5, Finished DEF TypeOK, issue_tickets, answer, event,
       gateway
<1>15. ASSUME NEW q \in Reqs, handle_charge_failed(q) PROVE TypeOK'
  BY <1>15, Ref, Finished, Updated DEF TypeOK, handle_charge_failed, Statuses, stock, event,
     gateway, tickets
<1>16. ASSUME NEW q \in Reqs, confirm_payment(q) PROVE TypeOK'
  BY <1>16, Finished, Staged DEF TypeOK, Stages, confirm_payment, stock, event, gateway, tickets
<1>17. ASSUME NEW q \in Reqs, NEW i \in Items, issue_ticket_for_untracked_payment(q, i)
       PROVE  TypeOK'
  <2>1. req[q].ref \in Refs /\ one_item(i) \in Quantity
    BY Ref, OneItem, OrdersAreItems
  <2>2. available' \in Quantity /\ sold' \in Quantity
    BY <1>17, <2>1, CommitTypes, Fits DEF issue_ticket_for_untracked_payment
  <2>3. owned' \in Quantity
    BY <1>17, <2>1, Sums DEF issue_ticket_for_untracked_payment, TypeOK
  <2>4. QED
    BY <1>17, <2>1, <2>2, <2>3, Finished, Updated DEF TypeOK,
       issue_ticket_for_untracked_payment, Statuses, event, gateway
<1>18. ASSUME NEW q \in Reqs, NEW i \in Items, issue_refused(q, i) PROVE TypeOK'
  BY <1>18, Finished DEF TypeOK, issue_refused, stock, event, gateway, tickets
<1>19. ASSUME NEW q \in Reqs, NEW i \in Items, front_desk_sell(q, i) PROVE TypeOK'
  <2>1. one_item(i) \in Quantity
    BY OneItem, OrdersAreItems
  <2>2. available' \in Quantity /\ sold' \in Quantity
    BY <1>19, <2>1, CommitTypes, Fits DEF front_desk_sell
  <2>3. walkin' \in Quantity
    BY <1>19, <2>1, Sums DEF front_desk_sell, TypeOK
  <2>4. QED
    BY <1>19, <2>2, <2>3 DEF TypeOK, front_desk_sell, event, gateway
<1>20. ASSUME NEW q \in Reqs, NEW r \in Refs, begin_manual_issue(q, r) PROVE TypeOK'
  BY <1>20, IdleIsRequest DEF TypeOK, begin_manual_issue, Request, Idle, stock, event,
     gateway, tickets
<1>21. ASSUME NEW t \in Types, NEW n \in Quantities, update_ticket_type(t, n)
       PROVE  TypeOK'
  BY <1>21 DEF TypeOK, update_ticket_type, Quantity, stock, event, gateway, tickets
<1>22. ASSUME NEW t \in Types, NEW s \in Shelves, change_shelf(t, s) PROVE TypeOK'
  BY <1>22 DEF TypeOK, change_shelf, stock, event, gateway, tickets
<1>23. ASSUME NEW p \in BOOLEAN, publish_event(p) PROVE TypeOK'
  BY <1>23 DEF TypeOK, publish_event, stock, event, gateway, tickets
<1>24. ASSUME NEW q \in Reqs, deadlock_detected(q) PROVE TypeOK'
  BY <1>24, Finished DEF TypeOK, deadlock_detected, stock, event, gateway, tickets
<1>25. ASSUME NEW q \in Reqs, RequestDies(q) PROVE TypeOK'
  BY <1>25, Finished DEF TypeOK, RequestDies, stock, event, gateway, tickets
<1>26. CASE UNCHANGED vars
  BY <1>26 DEF TypeOK, vars
<1>27. QED
  BY <1>1, <1>2, <1>3, <1>4, <1>5, <1>6, <1>7, <1>8, <1>9, <1>10, <1>11, <1>12, <1>13, <1>14,
     <1>15, <1>16, <1>17, <1>18, <1>19, <1>20, <1>21, <1>22, <1>23, <1>24, <1>25, <1>26
  DEF Next, Buyer, Webhook, Deliver, Staff, Proceed

-----------------------------------------------------------------------------
(* Locks *)

\* At first nothing is locked.
LEMMA LocksInit == Init => LocksInv
<1> SUFFICES ASSUME Init PROVE LocksInv
  OBVIOUS
<1>1. \A q \in Reqs : req[q].taken = Nothing
  BY IdleIsRequest DEF Init
<1>2. \A t \in Types : Nothing[t] = 0 /\ available[t] = Stock /\ Stock \in Nat
  BY ConstantsAssumption DEF Init, Nothing
<1>3. LocksExclude /\ HeldIsThere
  BY <1>1, <1>2 DEF LocksExclude, HeldIsThere, locked_by
<1>4. QED
  BY <1>1, <1>3 DEF LocksInv, OnlyOrdersHold

\* Where requests keep or drop what they hold, and the column still covers what is
\* kept, the locks are right.
LEMMA LocksKept ==
  ASSUME TypeOK, LocksInv, available' \in Quantity,
         \A p \in Reqs : /\ req'[p].taken = req[p].taken \/ req'[p].taken = Nothing
                         /\ req'[p].stage # "items" => req'[p].taken = Nothing
                         /\ \A t \in Types : req'[p].taken[t] > 0 => available'[t] >= req'[p].taken[t]
  PROVE  LocksInv'
<1>1. \A t \in Types : Nothing[t] = 0 /\ available'[t] >= 0 /\ available'[t] \in Nat
  BY DEF Nothing, Quantity
<1>2. \A p \in Reqs : \A t \in Types : req[p].taken[t] \in Nat
  BY Ref DEF Quantity
<1>3. \A p \in Reqs : \A t \in Types : req'[p].taken[t] \in Nat
  BY <1>1, <1>2
<1>4. LocksExclude'
  BY <1>1 DEF LocksInv, LocksExclude, locked_by
<1>5. HeldIsThere'
  BY <1>1, <1>3 DEF HeldIsThere
<1>6. OnlyOrdersHold'
  BY DEF OnlyOrdersHold
<1>7. QED
  BY <1>4, <1>5, <1>6 DEF LocksInv

\* The same where the column does not change.
LEMMA LocksRest ==
  ASSUME TypeOK, LocksInv, available' = available,
         \A p \in Reqs : /\ req'[p].taken = req[p].taken \/ req'[p].taken = Nothing
                         /\ req'[p].stage # "items" => req'[p].taken = Nothing
  PROVE  LocksInv'
<1>1. available' \in Quantity
  BY DEF TypeOK
<1>2. \A p \in Reqs, t \in Types : /\ req[p].taken[t] \in Nat /\ req[p].taken[t] <= available[t]
                                   /\ Nothing[t] = 0
  BY Ref DEF LocksInv, HeldIsThere, Quantity, Nothing
<1>3. \A p \in Reqs, t \in Types : req'[p].taken[t] > 0 => available'[t] >= req'[p].taken[t]
  BY <1>1, <1>2 DEF Quantity
<1>4. QED
  BY <1>1, <1>3, LocksKept

\* Every step keeps the locks exclusive and covered.
LEMMA LocksNext == TypeOK /\ LocksInv /\ [Next]_vars => LocksInv'
<1> SUFFICES ASSUME TypeOK, LocksInv, [Next]_vars PROVE LocksInv'
  OBVIOUS
<1>1. ASSUME NEW r \in Refs, NEW o \in Orders, initiate_ticket_payment(r, o)
      PROVE  LocksInv'
  BY <1>1, LocksRest DEF initiate_ticket_payment, LocksInv, OnlyOrdersHold, stock, event,
     gateway, tickets
<1>2. ASSUME NEW r \in Refs, NEW how \in {"short", "full"}, CustomerPays(r, how)
      PROVE  LocksInv'
  BY <1>2, LocksRest DEF CustomerPays, LocksInv, OnlyOrdersHold, stock, event, gateway, tickets
<1>3. ASSUME NEW r \in Refs, AttemptFails(r) PROVE LocksInv'
  BY <1>3, LocksRest DEF AttemptFails, LocksInv, OnlyOrdersHold, stock, event, gateway, tickets
<1>4. ASSUME NEW q \in Reqs, NEW o \in Orders, purchase_tickets(q, o) PROVE LocksInv'
  BY <1>4, LocksRest DEF purchase_tickets, TypeOK, Idle, LocksInv, OnlyOrdersHold, stock,
     event, gateway, tickets
<1>5. ASSUME NEW q \in Reqs, NEW r \in Refs, begin_verify(q, r) PROVE LocksInv'
  BY <1>5, LocksRest DEF begin_verify, TypeOK, Idle, LocksInv, OnlyOrdersHold, stock, event,
     gateway, tickets
<1>6. ASSUME NEW r \in Refs, webhook_ignored(r) PROVE LocksInv'
  BY <1>6, LocksRest DEF webhook_ignored, LocksInv, OnlyOrdersHold, stock, event, gateway,
     tickets
<1>7. ASSUME NEW q \in Reqs, NEW r \in Refs, begin_charge_success(q, r) PROVE LocksInv'
  BY <1>7, LocksRest DEF begin_charge_success, TypeOK, Idle, LocksInv, OnlyOrdersHold, stock,
     event, gateway, tickets
<1>8. ASSUME NEW q \in Reqs, NEW r \in Refs, begin_charge_failed(q, r) PROVE LocksInv'
  BY <1>8, LocksRest DEF begin_charge_failed, TypeOK, Idle, LocksInv, OnlyOrdersHold, stock,
     event, gateway, tickets
<1>9. ASSUME NEW q \in Reqs, verify_transaction(q) PROVE LocksInv'
  BY <1>9, Finished, IdleIsRequest, Staged, LocksRest DEF verify_transaction, LocksInv,
     Stages, same_but_stage, OnlyOrdersHold, stock, event, gateway, tickets
<1>10. ASSUME NEW q \in Reqs, fulfill_paid_purchase(q) PROVE LocksInv'
  <2>1. req[q] \in Request /\ req[q].taken = Nothing /\ Idle.taken = Nothing
    BY <1>10, IdleIsRequest DEF TypeOK, fulfill_paid_purchase, LocksInv, OnlyOrdersHold
  <2>2. req'[q].taken = Nothing /\ \A p \in Reqs : p # q => req'[p] = req[p]
    <3>1. CASE published
      BY <1>10, <2>1, <3>1, Opened
    <3>2. CASE ~published
      BY <1>10, <2>1, <3>2, Finished DEF fulfill_paid_purchase
    <3>3. QED
      BY <3>1, <3>2
  <2>3. QED
    BY <1>10, <2>1, <2>2, LocksRest DEF fulfill_paid_purchase, LocksInv, OnlyOrdersHold, stock
<1>11. ASSUME NEW q \in Reqs, take_item(q) PROVE LocksInv'
  <2> DEFINE n == one_item(next_item(q))
  <2>1. next_item(q) \in Item /\ n \in Quantity /\ req[q] \in Request
    BY <1>11, NextItem, OneItem DEF take_item, TypeOK
  <2>2. /\ req'[q].taken = plus(req[q].taken, n) /\ req'[q].stage = "items"
        /\ \A p \in Reqs : p # q => req'[p] = req[p]
    BY <1>11, Taken
  <2>3. \A p \in Reqs,
     t \in Types : /\ req[p].taken[t] \in Nat /\ req[p].taken[t] <= available[t]
                                     /\ available[t] \in Nat
    BY Ref DEF LocksInv, HeldIsThere, Quantity, TypeOK
  <2>4. \A t \in Types : /\ req'[q].taken[t] = req[q].taken[t] + n[t]
                         /\ n[t] = IF t = next_item(q).type THEN next_item(q).quantity ELSE 0
    BY <2>1, <2>2 DEF plus, one_item, Nothing, Item
  <2>5. available' = available /\ req[q].taken[next_item(q).type] + next_item(q).quantity <= available[next_item(q).type]
    BY <1>11, <2>1, <2>3 DEF take_item, obtainable, decrement_available, stock, Item
  <2>6. \A p \in Reqs : p # q => req[p].taken[next_item(q).type] = 0
    BY <1>11, <2>1, <2>3 DEF take_item, locked_by, Item
  <2>7. HeldIsThere'
    BY <2>1, <2>2, <2>3, <2>4, <2>5 DEF HeldIsThere, Item
  <2>8. LocksExclude'
    BY <2>1, <2>2, <2>3, <2>4, <2>6 DEF LocksInv, LocksExclude, locked_by, Item
  <2>9. OnlyOrdersHold'
    BY <2>2 DEF LocksInv, OnlyOrdersHold
  <2>10. QED
    BY <2>7, <2>8, <2>9 DEF LocksInv
<1>12. ASSUME NEW q \in Reqs, abandon_purchase(q) PROVE LocksInv'
  BY <1>12, Finished, IdleIsRequest, LocksRest DEF abandon_purchase, LocksInv, OnlyOrdersHold,
     stock, event, gateway, tickets
<1>13. ASSUME NEW q \in Reqs, mark_needs_refund(q) PROVE LocksInv'
  <2>1. available' = available
    BY <1>13, Ref, Sums DEF mark_needs_refund, commit_stock, decremented_so_far, TypeOK
  <2>2. QED
    BY <1>13, <2>1, Finished, IdleIsRequest, LocksRest DEF mark_needs_refund, LocksInv,
       OnlyOrdersHold
<1>14. ASSUME NEW q \in Reqs, issue_tickets(q) PROVE LocksInv'
  <2>1. /\ available' \in Quantity
        /\ \A t \in Types : available'[t] = available[t] - req[q].taken[t]
    BY <1>14, Ref, CommitTypes DEF issue_tickets, LocksInv, HeldIsThere
  <2>2. \A p \in Reqs,
     t \in Types : /\ req[p].taken[t] \in Nat /\ req[p].taken[t] <= available[t]
                                     /\ available[t] \in Nat /\ Nothing[t] = 0
    BY Ref DEF LocksInv, HeldIsThere, Quantity, Nothing, TypeOK
  <2>3. \A p \in Reqs, t \in Types : p # q /\ req[p].taken[t] > 0 => req[q].taken[t] = 0
    BY <2>2 DEF LocksInv, LocksExclude, locked_by
  <2>4. req'[q] = Idle /\ \A p \in Reqs : p # q => req'[p] = req[p]
    BY <1>14, Finished DEF issue_tickets
  <2>5. \A p \in Reqs, t \in Types : req'[p].taken[t] > 0 => available'[t] >= req'[p].taken[t]
    BY <2>1, <2>2, <2>3, <2>4, IdleIsRequest
  <2>6. QED
    BY <2>1, <2>4, <2>5, IdleIsRequest, LocksKept DEF LocksInv, OnlyOrdersHold
<1>15. ASSUME NEW q \in Reqs, handle_charge_failed(q) PROVE LocksInv'
  BY <1>15, Finished, IdleIsRequest, LocksRest DEF handle_charge_failed, LocksInv,
     OnlyOrdersHold, stock, event, gateway, tickets
<1>16. ASSUME NEW q \in Reqs, confirm_payment(q) PROVE LocksInv'
  BY <1>16, Finished, IdleIsRequest, Staged, LocksRest DEF confirm_payment, LocksInv, Stages,
     same_but_stage, OnlyOrdersHold, stock, event, gateway, tickets
<1>17. ASSUME NEW q \in Reqs, NEW i \in Items, issue_ticket_for_untracked_payment(q, i)
       PROVE  LocksInv'
  <2>1. /\ one_item(i) \in Quantity /\ available' \in Quantity
         /\ \A t \in Types : available'[t] = available[t] - one_item(i)[t]
    BY <1>17, OneItem, OrdersAreItems, Fits, CommitTypes DEF issue_ticket_for_untracked_payment
  <2>2. \A t \in Types : t # i.type => one_item(i)[t] = 0
    BY DEF one_item, Nothing
  <2>3. \A p \in Reqs,
     t \in Types : /\ req[p].taken[t] \in Nat /\ req[p].taken[t] <= available[t]
                                     /\ available[t] \in Nat /\ Nothing[t] = 0
    BY Ref DEF LocksInv, HeldIsThere, Quantity, Nothing, TypeOK
  <2>4. \A p \in Reqs : req[p].taken[i.type] = 0
    BY <1>17, <2>3, OrdersAreItems DEF issue_ticket_for_untracked_payment, unlocked,
       locked_by, Item
  <2>5. \A p \in Reqs, t \in Types : req[p].taken[t] > 0 => available'[t] >= req[p].taken[t]
    BY <2>1, <2>2, <2>3, <2>4
  <2>6. QED
    BY <1>17, <2>1, <2>3, <2>5, LocksKept, Finished,
       IdleIsRequest DEF issue_ticket_for_untracked_payment, LocksInv, OnlyOrdersHold
<1>18. ASSUME NEW q \in Reqs, NEW i \in Items, issue_refused(q, i) PROVE LocksInv'
  BY <1>18, Finished, IdleIsRequest, LocksRest DEF issue_refused, LocksInv, OnlyOrdersHold,
     stock, event, gateway, tickets
<1>19. ASSUME NEW q \in Reqs, NEW i \in Items, front_desk_sell(q, i) PROVE LocksInv'
  <2>1. /\ one_item(i) \in Quantity /\ available' \in Quantity
         /\ \A t \in Types : available'[t] = available[t] - one_item(i)[t]
    BY <1>19, OneItem, OrdersAreItems, Fits, CommitTypes DEF front_desk_sell
  <2>2. \A t \in Types : t # i.type => one_item(i)[t] = 0
    BY DEF one_item, Nothing
  <2>3. \A p \in Reqs,
     t \in Types : /\ req[p].taken[t] \in Nat /\ req[p].taken[t] <= available[t]
                                     /\ available[t] \in Nat /\ Nothing[t] = 0
    BY Ref DEF LocksInv, HeldIsThere, Quantity, Nothing, TypeOK
  <2>4. \A p \in Reqs : req[p].taken[i.type] = 0
    BY <1>19, <2>3, OrdersAreItems DEF front_desk_sell, unlocked, locked_by, Item
  <2>5. \A p \in Reqs, t \in Types : req[p].taken[t] > 0 => available'[t] >= req[p].taken[t]
    BY <2>1, <2>2, <2>3, <2>4
  <2>6. QED
    BY <1>19, <2>1, <2>3, <2>5, LocksKept DEF front_desk_sell, LocksInv, OnlyOrdersHold
<1>20. ASSUME NEW q \in Reqs, NEW r \in Refs, begin_manual_issue(q, r) PROVE LocksInv'
  BY <1>20, LocksRest DEF begin_manual_issue, TypeOK, Idle, LocksInv, OnlyOrdersHold, stock,
     event, gateway, tickets
<1>21. ASSUME NEW t \in Types, NEW n \in Quantities, update_ticket_type(t, n)
       PROVE  LocksInv'
  <2>1. available' \in Quantity /\ \A u \in Types : u # t => available'[u] = available[u]
    BY <1>21, ConstantsAssumption DEF update_ticket_type, TypeOK, Quantity
  <2>2. \A p \in Reqs, u \in Types : req[p].taken[u] \in Nat /\ req[p].taken[u] <= available[u]
    BY Ref DEF LocksInv, HeldIsThere, Quantity
  <2>3. \A p \in Reqs : req[p].taken[t] = 0
    BY <1>21, <2>2 DEF update_ticket_type, unlocked, locked_by
  <2>4. \A p \in Reqs, u \in Types : req[p].taken[u] > 0 => available'[u] >= req[p].taken[u]
    BY <2>1, <2>2, <2>3 DEF TypeOK, Quantity
  <2>5. QED
    BY <1>21, <2>1, <2>4, LocksKept DEF update_ticket_type, LocksInv, OnlyOrdersHold
<1>22. ASSUME NEW t \in Types, NEW s \in Shelves, change_shelf(t, s) PROVE LocksInv'
  BY <1>22, LocksRest DEF change_shelf, LocksInv, OnlyOrdersHold, stock, event, gateway, tickets
<1>23. ASSUME NEW p \in BOOLEAN, publish_event(p) PROVE LocksInv'
  BY <1>23, LocksRest DEF publish_event, LocksInv, OnlyOrdersHold, stock, event, gateway,
     tickets
<1>24. ASSUME NEW q \in Reqs, deadlock_detected(q) PROVE LocksInv'
  BY <1>24, Finished, IdleIsRequest, LocksRest DEF deadlock_detected, LocksInv,
     OnlyOrdersHold, stock, event, gateway, tickets
<1>25. ASSUME NEW q \in Reqs, RequestDies(q) PROVE LocksInv'
  BY <1>25, Finished, IdleIsRequest, LocksRest DEF RequestDies, LocksInv, OnlyOrdersHold,
     stock, event, gateway, tickets
<1>26. CASE UNCHANGED vars
  BY <1>26, LocksRest DEF vars, LocksInv, OnlyOrdersHold
<1>27. QED
  BY <1>1, <1>2, <1>3, <1>4, <1>5, <1>6, <1>7, <1>8, <1>9, <1>10, <1>11, <1>12, <1>13, <1>14,
     <1>15, <1>16, <1>17, <1>18, <1>19, <1>20, <1>21, <1>22, <1>23, <1>24, <1>25, <1>26
  DEF Next, Buyer, Webhook, Deliver, Staff, Proceed

-----------------------------------------------------------------------------
(* Stock *)

\* The steps that sell, or give back what was to be sold.
Sales ==
    \/ \E q \in Reqs : issue_tickets(q) \/ mark_needs_refund(q)
    \/ \E q \in Reqs, i \in Items : front_desk_sell(q,
       i) \/ issue_ticket_for_untracked_payment(q, i)

\* Stock and tickets change by sales and by the organizer's hand alone.
LEMMA SalesMoveStock ==
  [Next]_vars => \/ UNCHANGED <<stock, tickets>>
                 \/ Sales
                 \/ \E t \in Types, n \in Quantities : update_ticket_type(t, n)
<1> SUFFICES ASSUME [Next]_vars PROVE UNCHANGED <<stock, tickets>> \/ Sales
                 \/ \E t \in Types, n \in Quantities : update_ticket_type(t, n)
  OBVIOUS
<1>1. ASSUME NEW r \in Refs, NEW o \in Orders, initiate_ticket_payment(r, o)
      PROVE  UNCHANGED <<stock, tickets>>
  BY <1>1 DEF initiate_ticket_payment, stock, tickets
<1>2. ASSUME NEW r \in Refs, NEW how \in {"short", "full"}, CustomerPays(r, how)
      PROVE  UNCHANGED <<stock, tickets>>
  BY <1>2 DEF CustomerPays, stock, tickets
<1>3. ASSUME NEW r \in Refs, AttemptFails(r) PROVE UNCHANGED <<stock, tickets>>
  BY <1>3 DEF AttemptFails, stock, tickets
<1>4. ASSUME NEW q \in Reqs, NEW o \in Orders, purchase_tickets(q, o)
      PROVE  UNCHANGED <<stock, tickets>>
  BY <1>4 DEF purchase_tickets, stock, tickets
<1>5. ASSUME NEW q \in Reqs, NEW r \in Refs, begin_verify(q, r)
      PROVE  UNCHANGED <<stock, tickets>>
  BY <1>5 DEF begin_verify, stock, tickets
<1>6. ASSUME NEW r \in Refs, webhook_ignored(r) PROVE UNCHANGED <<stock, tickets>>
  BY <1>6 DEF webhook_ignored, stock, tickets
<1>7. ASSUME NEW q \in Reqs, NEW r \in Refs, begin_charge_success(q, r)
      PROVE  UNCHANGED <<stock, tickets>>
  BY <1>7 DEF begin_charge_success, stock, tickets
<1>8. ASSUME NEW q \in Reqs, NEW r \in Refs, begin_charge_failed(q, r)
      PROVE  UNCHANGED <<stock, tickets>>
  BY <1>8 DEF begin_charge_failed, stock, tickets
<1>9. ASSUME NEW q \in Reqs, verify_transaction(q) PROVE UNCHANGED <<stock, tickets>>
  BY <1>9 DEF verify_transaction, stock, tickets
<1>10. ASSUME NEW q \in Reqs, fulfill_paid_purchase(q) PROVE UNCHANGED <<stock, tickets>>
  BY <1>10 DEF fulfill_paid_purchase, stock, tickets
<1>11. ASSUME NEW q \in Reqs, take_item(q) PROVE UNCHANGED <<stock, tickets>>
  BY <1>11 DEF take_item, stock, tickets
<1>12. ASSUME NEW q \in Reqs, abandon_purchase(q) PROVE UNCHANGED <<stock, tickets>>
  BY <1>12 DEF abandon_purchase, stock, tickets
<1>13. ASSUME NEW q \in Reqs, handle_charge_failed(q) PROVE UNCHANGED <<stock, tickets>>
  BY <1>13 DEF handle_charge_failed, stock, tickets
<1>14. ASSUME NEW q \in Reqs, confirm_payment(q) PROVE UNCHANGED <<stock, tickets>>
  BY <1>14 DEF confirm_payment, stock, tickets
<1>15. ASSUME NEW q \in Reqs, NEW i \in Items, issue_refused(q, i)
       PROVE  UNCHANGED <<stock, tickets>>
  BY <1>15 DEF issue_refused, stock, tickets
<1>16. ASSUME NEW q \in Reqs, NEW r \in Refs, begin_manual_issue(q, r)
       PROVE  UNCHANGED <<stock, tickets>>
  BY <1>16 DEF begin_manual_issue, stock, tickets
<1>17. ASSUME NEW t \in Types, NEW s \in Shelves, change_shelf(t, s)
       PROVE  UNCHANGED <<stock, tickets>>
  BY <1>17 DEF change_shelf, stock, tickets
<1>18. ASSUME NEW p \in BOOLEAN, publish_event(p) PROVE UNCHANGED <<stock, tickets>>
  BY <1>18 DEF publish_event, stock, tickets
<1>19. ASSUME NEW q \in Reqs, deadlock_detected(q) PROVE UNCHANGED <<stock, tickets>>
  BY <1>19 DEF deadlock_detected, stock, tickets
<1>20. ASSUME NEW q \in Reqs, RequestDies(q) PROVE UNCHANGED <<stock, tickets>>
  BY <1>20 DEF RequestDies, stock, tickets
<1>21. CASE UNCHANGED vars
  BY <1>21 DEF vars, stock, tickets
<1>22. QED
  BY <1>1, <1>2, <1>3, <1>4, <1>5, <1>6, <1>7, <1>8, <1>9, <1>10, <1>11, <1>12, <1>13, <1>14,
     <1>15, <1>16, <1>17, <1>18, <1>19, <1>20, <1>21
  DEF Sales, Next, Buyer, Webhook, Deliver, Staff, Proceed

\* A sale moves as many tickets to sold as it issues, and no more than there are.
LEMMA SaleBooked ==
  ASSUME TypeOK, LocksInv, Sales
  PROVE  \E n \in Quantity :
            /\ commit_stock(n) /\ \A t \in Types : n[t] <= available[t]
            /\ \A t \in Types : owned'[t] + walkin'[t] = owned[t] + walkin[t] + n[t]
<1>1. ASSUME NEW q \in Reqs, issue_tickets(q) PROVE
         /\ commit_stock(req[q].taken) /\ \A t \in Types : req[q].taken[t] <= available[t]
         /\ \A t \in Types : owned'[t] + walkin'[t] = owned[t] + walkin[t] + req[q].taken[t]
  BY <1>1, Ref DEF issue_tickets, plus, LocksInv, HeldIsThere, TypeOK, Quantity
<1>2. ASSUME NEW q \in Reqs, mark_needs_refund(q) PROVE
         /\ commit_stock(minus(req[q].taken, req[q].taken))
         /\ minus(req[q].taken, req[q].taken) \in Quantity
         /\ \A t \in Types : minus(req[q].taken, req[q].taken)[t] = 0
         /\ owned' = owned /\ walkin' = walkin
  BY <1>2, Ref DEF mark_needs_refund, decremented_so_far, minus, tickets, Quantity
<1>3. ASSUME NEW q \in Reqs, NEW i \in Items, front_desk_sell(q, i) PROVE
         /\ commit_stock(one_item(i)) /\ one_item(i) \in Quantity
         /\ \A t \in Types : one_item(i)[t] <= available[t]
         /\ owned' = owned /\ walkin' = plus(walkin, one_item(i))
  BY <1>3, OneItem, OrdersAreItems, Fits DEF front_desk_sell
<1>4. ASSUME NEW q \in Reqs, NEW i \in Items, issue_ticket_for_untracked_payment(q, i) PROVE
         /\ commit_stock(one_item(i)) /\ one_item(i) \in Quantity
         /\ \A t \in Types : one_item(i)[t] <= available[t]
         /\ walkin' = walkin /\ owned' = plus(owned, one_item(i))
  BY <1>4, OneItem, OrdersAreItems, Fits DEF issue_ticket_for_untracked_payment
<1>5. \A t \in Types : available[t] \in Nat /\ owned[t] \in Nat /\ walkin[t] \in Nat
  BY DEF TypeOK, Quantity
<1>6. CASE \E q \in Reqs : issue_tickets(q)
  BY <1>1, <1>6, Ref
<1>7. CASE \E q \in Reqs : mark_needs_refund(q)
  BY <1>2, <1>5, <1>7
<1>8. CASE \E q \in Reqs, i \in Items : front_desk_sell(q, i)
  <2>1. PICK q \in Reqs, i \in Items : front_desk_sell(q, i)
    BY <1>8
  <2>2. \A t \in Types : plus(walkin,
     one_item(i))[t] = walkin[t] + one_item(i)[t] /\ one_item(i)[t] \in Nat
    BY <1>3, <2>1 DEF plus, Quantity
  <2>3. QED
    BY <1>3, <1>5, <2>1, <2>2
<1>9. CASE \E q \in Reqs, i \in Items : issue_ticket_for_untracked_payment(q, i)
  <2>1. PICK q \in Reqs, i \in Items : issue_ticket_for_untracked_payment(q, i)
    BY <1>9
  <2>2. \A t \in Types : plus(owned,
     one_item(i))[t] = owned[t] + one_item(i)[t] /\ one_item(i)[t] \in Nat
    BY <1>4, <2>1 DEF plus, Quantity
  <2>3. QED
    BY <1>4, <1>5, <2>1, <2>2
<1>10. QED
  BY <1>6, <1>7, <1>8, <1>9 DEF Sales

\* Every step keeps the column sold equal to the tickets issued and sold at the door.
LEMMA StockNext == TypeOK /\ LocksInv /\ StockMatchesTickets /\ [Next]_vars => StockMatchesTickets'
<1> SUFFICES ASSUME TypeOK, LocksInv, StockMatchesTickets,
   [Next]_vars PROVE StockMatchesTickets'
  OBVIOUS
<1>1. CASE UNCHANGED <<stock, tickets>>
  BY <1>1 DEF StockMatchesTickets, stock, tickets
<1>2. CASE Sales
  <2>1. PICK n \in Quantity :
            /\ commit_stock(n) /\ \A t \in Types : n[t] <= available[t]
            /\ \A t \in Types : owned'[t] + walkin'[t] = owned[t] + walkin[t] + n[t]
    BY <1>2, SaleBooked
  <2>2. QED
    BY <2>1, CommitTypes DEF StockMatchesTickets, TypeOK, Quantity
<1>3. CASE \E t \in Types, n \in Quantities : update_ticket_type(t, n)
  BY <1>3 DEF update_ticket_type, StockMatchesTickets, tickets
<1>4. QED
  BY <1>1, <1>2, <1>3, SalesMoveStock

\* No step but the organizer's changes what is on offer and sold together.
LEMMA OfferNext ==
  TypeOK /\ LocksInv /\ [Next]_vars
    => [\/ \E t \in Types, n \in Quantities : update_ticket_type(t, n)
        \/ plus(available, sold)' = plus(available, sold)]_vars
<1> SUFFICES ASSUME TypeOK, LocksInv, [Next]_vars
             PROVE  \/ \E t \in Types, n \in Quantities : update_ticket_type(t, n)
                    \/ plus(available, sold)' = plus(available, sold)
  OBVIOUS
<1>1. CASE UNCHANGED <<stock, tickets>>
  BY <1>1 DEF plus, stock
<1>2. CASE Sales
  <2>1. PICK n \in Quantity : commit_stock(n) /\ \A t \in Types : n[t] <= available[t]
    BY <1>2, SaleBooked
  <2>2. \A t \in Types : /\ available'[t] = available[t] - n[t] /\ sold'[t] = sold[t] + n[t]
                         /\ available[t] \in Nat /\ sold[t] \in Nat /\ n[t] \in Nat
    BY <2>1, CommitTypes DEF TypeOK, Quantity
  <2>3. \A t \in Types : available'[t] + sold'[t] = available[t] + sold[t]
    BY <2>2
  <2>4. QED
    BY <2>3 DEF plus
<1>3. QED
  BY <1>1, <1>2, SalesMoveStock

-----------------------------------------------------------------------------
(* Payments *)

\* At first nothing is paid, and nobody knows otherwise.
LEMMA PaymentInit == Init => PaymentInv
BY IdleIsRequest DEF Init, PaymentInv, RowsAreOrders, PaidIsStarted, OnlyPaidIsDelivered,
   SuccessIsDelivered, Informed, Started, Collected

\* A row once there, and money once collected, stay.
RowsGoOn ==
    \A r \in Refs :
      /\ txn[r].status # "none" => /\ txn'[r].status # "none"
                                  /\ txn'[r].items = txn[r].items
      /\ txn'[r].status \in {"none", "pending"} => txn[r].status \in {"none", "pending"}
      /\ collected[r] # "none" => collected'[r] # "none"

\* No step takes a payment's row or its money back.
LEMMA RowsStay ==
  TypeOK /\ [Next]_vars => RowsGoOn
<1> SUFFICES ASSUME TypeOK, [Next]_vars PROVE RowsGoOn
  OBVIOUS
<1>1. ASSUME NEW r \in Refs, NEW o \in Orders, initiate_ticket_payment(r, o)
      PROVE  RowsGoOn
  BY <1>1 DEF initiate_ticket_payment, TypeOK, RowsGoOn, Statuses, stock, event, gateway,
     tickets
<1>2. ASSUME NEW r \in Refs, NEW how \in {"short", "full"}, CustomerPays(r, how)
      PROVE  RowsGoOn
  BY <1>2 DEF CustomerPays, TypeOK, RowsGoOn, Statuses, stock, event, gateway, tickets
<1>3. ASSUME NEW r \in Refs, AttemptFails(r) PROVE RowsGoOn
  BY <1>3 DEF AttemptFails, RowsGoOn, Statuses, stock, event, gateway, tickets
<1>4. ASSUME NEW q \in Reqs, NEW o \in Orders, purchase_tickets(q, o) PROVE RowsGoOn
  BY <1>4 DEF purchase_tickets, RowsGoOn, Statuses, stock, event, gateway, tickets
<1>5. ASSUME NEW q \in Reqs, NEW r \in Refs, begin_verify(q, r) PROVE RowsGoOn
  BY <1>5 DEF begin_verify, RowsGoOn, Statuses, stock, event, gateway, tickets
<1>6. ASSUME NEW r \in Refs, webhook_ignored(r) PROVE RowsGoOn
  BY <1>6 DEF webhook_ignored, RowsGoOn, Statuses, stock, event, gateway, tickets
<1>7. ASSUME NEW q \in Reqs, NEW r \in Refs, begin_charge_success(q, r) PROVE RowsGoOn
  BY <1>7 DEF begin_charge_success, RowsGoOn, Statuses, stock, event, gateway, tickets
<1>8. ASSUME NEW q \in Reqs, NEW r \in Refs, begin_charge_failed(q, r) PROVE RowsGoOn
  BY <1>8 DEF begin_charge_failed, RowsGoOn, Statuses, stock, event, gateway, tickets
<1>9. ASSUME NEW q \in Reqs, verify_transaction(q) PROVE RowsGoOn
  BY <1>9, Ref, Updated DEF verify_transaction, RowsGoOn, Statuses, stock, event, gateway,
     tickets
<1>10. ASSUME NEW q \in Reqs, fulfill_paid_purchase(q) PROVE RowsGoOn
  BY <1>10, Ref, Updated DEF fulfill_paid_purchase, RowsGoOn, Statuses, stock, event, gateway,
     tickets
<1>11. ASSUME NEW q \in Reqs, take_item(q) PROVE RowsGoOn
  BY <1>11 DEF take_item, RowsGoOn, Statuses, stock, event, gateway, tickets
<1>12. ASSUME NEW q \in Reqs, abandon_purchase(q) PROVE RowsGoOn
  BY <1>12 DEF abandon_purchase, RowsGoOn, Statuses, stock, event, gateway, tickets
<1>13. ASSUME NEW q \in Reqs, mark_needs_refund(q) PROVE RowsGoOn
  BY <1>13, Ref, Updated DEF mark_needs_refund, RowsGoOn, Statuses, stock, event, gateway,
     tickets
<1>14. ASSUME NEW q \in Reqs, issue_tickets(q) PROVE RowsGoOn
  BY <1>14, Ref, Updated DEF issue_tickets, RowsGoOn, Statuses, stock, event, gateway, tickets
<1>15. ASSUME NEW q \in Reqs, handle_charge_failed(q) PROVE RowsGoOn
  BY <1>15, Ref, Updated DEF handle_charge_failed, RowsGoOn, Statuses, stock, event, gateway,
     tickets
<1>16. ASSUME NEW q \in Reqs, confirm_payment(q) PROVE RowsGoOn
  BY <1>16 DEF confirm_payment, RowsGoOn, Statuses, stock, event, gateway, tickets
<1>17. ASSUME NEW q \in Reqs, NEW i \in Items, issue_ticket_for_untracked_payment(q, i)
       PROVE  RowsGoOn
  BY <1>17, Ref, Updated DEF issue_ticket_for_untracked_payment, RowsGoOn, Statuses, stock,
     event, gateway, tickets
<1>18. ASSUME NEW q \in Reqs, NEW i \in Items, issue_refused(q, i) PROVE RowsGoOn
  BY <1>18 DEF issue_refused, RowsGoOn, Statuses, stock, event, gateway, tickets
<1>19. ASSUME NEW q \in Reqs, NEW i \in Items, front_desk_sell(q, i) PROVE RowsGoOn
  BY <1>19 DEF front_desk_sell, RowsGoOn, Statuses, stock, event, gateway, tickets
<1>20. ASSUME NEW q \in Reqs, NEW r \in Refs, begin_manual_issue(q, r) PROVE RowsGoOn
  BY <1>20 DEF begin_manual_issue, RowsGoOn, Statuses, stock, event, gateway, tickets
<1>21. ASSUME NEW t \in Types, NEW n \in Quantities, update_ticket_type(t, n)
       PROVE  RowsGoOn
  BY <1>21 DEF update_ticket_type, RowsGoOn, Statuses, stock, event, gateway, tickets
<1>22. ASSUME NEW t \in Types, NEW s \in Shelves, change_shelf(t, s) PROVE RowsGoOn
  BY <1>22 DEF change_shelf, RowsGoOn, Statuses, stock, event, gateway, tickets
<1>23. ASSUME NEW p \in BOOLEAN, publish_event(p) PROVE RowsGoOn
  BY <1>23 DEF publish_event, RowsGoOn, Statuses, stock, event, gateway, tickets
<1>24. ASSUME NEW q \in Reqs, deadlock_detected(q) PROVE RowsGoOn
  BY <1>24 DEF deadlock_detected, RowsGoOn, Statuses, stock, event, gateway, tickets
<1>25. ASSUME NEW q \in Reqs, RequestDies(q) PROVE RowsGoOn
  BY <1>25 DEF RequestDies, RowsGoOn, Statuses, stock, event, gateway, tickets
<1>26. CASE UNCHANGED vars
  BY <1>26 DEF vars, RowsGoOn
<1>27. QED
  BY <1>1, <1>2, <1>3, <1>4, <1>5, <1>6, <1>7, <1>8, <1>9, <1>10, <1>11, <1>12, <1>13, <1>14,
     <1>15, <1>16, <1>17, <1>18, <1>19, <1>20, <1>21, <1>22, <1>23, <1>24, <1>25, <1>26
  DEF Next, Buyer, Webhook, Deliver, Staff, Proceed

\* What a request knows stays true while others take steps.
LEMMA StillInformed ==
  ASSUME TypeOK, [Next]_vars, NEW p \in Reqs, Informed(p), req'[p] = req[p]
  PROVE  Informed(p)'
BY RowsStay, Ref DEF RowsGoOn, Informed, Started, Collected

\* An idle slot knows nothing that could be wrong.
LEMMA IdleIsInformed == ASSUME NEW p \in Reqs, req'[p] = Idle PROVE Informed(p)'
BY IdleIsRequest DEF Informed

\* A step that settles nothing keeps the payments right.
LEMMA NothingSettled ==
  ASSUME TypeOK, [Next]_vars, PaymentInv, UNCHANGED <<txn, collected, delivered, manual>>,
         \A p \in Reqs : req'[p] = req[p] \/ Informed(p)'
  PROVE  PaymentInv'
<1>1. \A p \in Reqs : Informed(p)'
  BY StillInformed DEF PaymentInv
<1>2. QED
  BY <1>1 DEF PaymentInv, RowsAreOrders, PaidIsStarted, OnlyPaidIsDelivered, SuccessIsDelivered,
              Started, Collected

\* So does one that marks a started payment failed or for refund.
LEMMA Refused ==
  ASSUME TypeOK, [Next]_vars, PaymentInv, UNCHANGED <<collected, delivered, manual>>,
         NEW r \in Refs, NEW s \in {"failed", "needs_refund"}, Started(r), update_status(r, s),
         \A p \in Reqs : req'[p] = req[p] \/ Informed(p)'
  PROVE  PaymentInv'
<1>1. \A p \in Reqs : Informed(p)'
  BY StillInformed DEF PaymentInv
<1>2. /\ txn'[r].status = s /\ txn'[r].items = txn[r].items
      /\ \A x \in Refs : x # r => txn'[x] = txn[x]
  BY Updated DEF Statuses
<1>3. QED
  BY <1>1, <1>2 DEF PaymentInv, RowsAreOrders, PaidIsStarted, OnlyPaidIsDelivered,
     SuccessIsDelivered,
              Started, Collected

\* A sum is nothing only if both parts are.
LEMMA PlusSome ==
  ASSUME NEW a \in Quantity, NEW b \in Quantity
  PROVE  /\ b # Nothing => plus(a, b) # Nothing
         /\ plus(a, b) = Nothing => a = Nothing
<1>1. \A x \in Quantity : x # Nothing => \E t \in Types : x[t] > 0
  <2> SUFFICES ASSUME NEW x \in Quantity, \A t \in Types : ~(x[t] > 0) PROVE x = Nothing
    OBVIOUS
  <2>1. \A t \in Types : x[t] = 0
    BY DEF Quantity
  <2>2. QED
    BY <2>1 DEF Quantity, Nothing
<1>2. \A t \in Types : plus(a,
   b)[t] = a[t] + b[t] /\ a[t] \in Nat /\ b[t] \in Nat /\ Nothing[t] = 0
  BY DEF plus, Quantity, Nothing
<1>3. QED
  BY <1>1, <1>2

\* Every step keeps the payments right.
LEMMA PaymentNext == TypeOK /\ PaymentInv /\ [Next]_vars => PaymentInv'
<1> SUFFICES ASSUME TypeOK, PaymentInv, [Next]_vars PROVE PaymentInv'
  OBVIOUS
<1>1. \A p \in Reqs : Informed(p)
  BY DEF PaymentInv
<1>2. ASSUME NEW r \in Refs, NEW o \in Orders, initiate_ticket_payment(r, o)
      PROVE  PaymentInv'
  <2>1. /\ txn'[r] = [status |-> "pending", items |-> o] /\ o # <<>>
        /\ \A x \in Refs : x # r => txn'[x] = txn[x]
        /\ UNCHANGED <<collected, delivered, manual, req>>
    BY <1>2, OrdersAreItems DEF initiate_ticket_payment, TypeOK, gateway, tickets
  <2>2. \A p \in Reqs : Informed(p)'
    BY <1>1, <2>1, StillInformed
  <2>3. QED
    BY <2>1, <2>2 DEF PaymentInv, RowsAreOrders, PaidIsStarted, OnlyPaidIsDelivered,
       SuccessIsDelivered,
                      Started, Collected
<1>3. ASSUME NEW r \in Refs, NEW how \in {"short", "full"}, CustomerPays(r, how)
      PROVE  PaymentInv'
  <2>1. /\ Started(r) /\ collected'[r] # "none" /\ UNCHANGED <<txn, delivered, manual, req>>
        /\ \A x \in Refs : x # r => collected'[x] = collected[x]
    BY <1>3 DEF CustomerPays, TypeOK, tickets, Started
  <2>2. \A p \in Reqs : Informed(p)'
    BY <1>1, <2>1, StillInformed
  <2>3. QED
    BY <2>1, <2>2 DEF PaymentInv, RowsAreOrders, PaidIsStarted, OnlyPaidIsDelivered,
       SuccessIsDelivered,
                      Started, Collected
<1>4. ASSUME NEW r \in Refs, AttemptFails(r) PROVE PaymentInv'
  BY <1>4, NothingSettled DEF AttemptFails, stock, event, gateway, tickets
<1>5. ASSUME NEW q \in Reqs, NEW o \in Orders, purchase_tickets(q, o) PROVE PaymentInv'
  <2>1. req'[q] = [Idle EXCEPT !.stage = "items", !.kind = "free",
                                !.seen = on_sale,
                                   !.left = o] /\ \A p \in Reqs : p # q => req'[p] = req[p]
    BY <1>5 DEF purchase_tickets, TypeOK
  <2>2. Informed(q)'
    BY <1>5, <2>1 DEF purchase_tickets, Idle, Informed, Started, Collected, stock, event,
       gateway, tickets
  <2>3. QED
    BY <1>5, <2>1, <2>2, NothingSettled DEF purchase_tickets, stock, event, gateway, tickets
<1>6. ASSUME NEW q \in Reqs, NEW r \in Refs, begin_verify(q, r) PROVE PaymentInv'
  <2>1. req'[q] = [Idle EXCEPT !.stage = "verify",
     !.ref = r] /\ \A p \in Reqs : p # q => req'[p] = req[p]
    BY <1>6 DEF begin_verify, TypeOK
  <2>2. Informed(q)'
    BY <1>6, <2>1 DEF begin_verify, Idle, Informed, Started, Collected, stock, event, gateway,
       tickets
  <2>3. QED
    BY <1>6, <2>1, <2>2, NothingSettled DEF begin_verify, stock, event, gateway, tickets
<1>7. ASSUME NEW r \in Refs, webhook_ignored(r) PROVE PaymentInv'
  BY <1>7, NothingSettled DEF webhook_ignored, stock, event, gateway, tickets
<1>8. ASSUME NEW q \in Reqs, NEW r \in Refs, begin_charge_success(q, r) PROVE PaymentInv'
  <2>1. req'[q] = [Idle EXCEPT !.stage = "paid", !.kind = "webhook",
     !.ref = r] /\ \A p \in Reqs : p # q => req'[p] = req[p]
    BY <1>8 DEF begin_charge_success, TypeOK
  <2>2. Informed(q)'
    BY <1>8, <2>1 DEF begin_charge_success, Idle, Informed, Started, Collected, stock, event,
       gateway, tickets
  <2>3. QED
    BY <1>8, <2>1, <2>2, NothingSettled DEF begin_charge_success, stock, event, gateway, tickets
<1>9. ASSUME NEW q \in Reqs, NEW r \in Refs, begin_charge_failed(q, r) PROVE PaymentInv'
  <2>1. req'[q] = [Idle EXCEPT !.stage = "reject",
     !.ref = r] /\ \A p \in Reqs : p # q => req'[p] = req[p]
    BY <1>9 DEF begin_charge_failed, TypeOK
  <2>2. Informed(q)'
    BY <1>9, <2>1 DEF begin_charge_failed, Idle, Informed, Started, Collected, stock, event,
       gateway, tickets
  <2>3. QED
    BY <1>9, <2>1, <2>2, NothingSettled DEF begin_charge_failed, stock, event, gateway, tickets
<1>10. ASSUME NEW q \in Reqs, verify_transaction(q) PROVE PaymentInv'
  <2>1. req[q].ref \in Refs /\ Started(req[q].ref)
    BY <1>10, <1>1, Ref DEF verify_transaction, Informed
  <2>2. CASE verify_accepts(req[q].ref)
    <3>1. Informed(q)' /\ \A p \in Reqs : p # q => req'[p] = req[p]
      BY <1>10, <2>2, Staged DEF verify_transaction, verify_accepts, Informed, Collected,
         Stages, same_but_stage, gateway
    <3>2. QED
      BY <1>10, <2>2, <3>1, NothingSettled DEF verify_transaction, gateway, tickets
  <2>3. CASE ~verify_accepts(req[q].ref)
    BY <1>10, <2>1, <2>3, Finished, IdleIsInformed, Refused DEF verify_transaction, gateway,
       tickets
  <2>4. QED
    BY <2>2, <2>3
<1>11. ASSUME NEW q \in Reqs, fulfill_paid_purchase(q) PROVE PaymentInv'
  <2>1. /\ req[q].ref \in Refs /\ Collected(req[q].ref)
        /\ Started(req[q].ref) /\ txn[req[q].ref].items # <<>>
    BY <1>11, <1>1, Ref DEF fulfill_paid_purchase, Informed, PaymentInv, PaidIsStarted,
       RowsAreOrders
  <2>2. CASE published
    <3>1. Informed(q)' /\ \A p \in Reqs : p # q => req'[p] = req[p]
      BY <1>11, <2>1, <2>2, Opened, RowsStay DEF RowsGoOn, Informed, Started, Collected
    <3>2. QED
      BY <1>11, <2>2, <3>1, NothingSettled DEF fulfill_paid_purchase, gateway, tickets
  <2>3. CASE ~published
    BY <1>11, <2>1, <2>3, Finished, IdleIsInformed, Refused DEF fulfill_paid_purchase,
       gateway, tickets
  <2>4. QED
    BY <2>2, <2>3
<1>12. ASSUME NEW q \in Reqs, take_item(q) PROVE PaymentInv'
  <2>1. /\ next_item(q) \in Item /\ one_item(next_item(q)) \in Quantity
        /\ one_item(next_item(q)) # Nothing /\ req[q].taken \in Quantity
    <3>1. next_item(q) \in Item
      BY <1>12, NextItem DEF take_item
    <3>2. one_item(next_item(q))[next_item(q).type] # Nothing[next_item(q).type]
      BY <3>1 DEF one_item, Nothing, Item
    <3>3. QED
      BY <3>1, <3>2, OneItem, Ref
  <2>2. plus(req[q].taken, one_item(next_item(q))) # Nothing
    BY <2>1, PlusSome
  <2>3. req'[q].taken # Nothing /\ req'[q].kind = req[q].kind /\ req'[q].ref = req[q].ref
        /\ req'[q].stage = "items" /\ req[q].stage = "items"
    BY <1>12, <2>2, Taken DEF take_item
  <2>4. Informed(q)'
    BY <1>1, <2>3, RowsStay, Ref DEF RowsGoOn, Informed, Started, Collected
  <2>5. QED
    BY <1>12, <2>4, Taken, NothingSettled DEF take_item, gateway, tickets
<1>13. ASSUME NEW q \in Reqs, abandon_purchase(q) PROVE PaymentInv'
  BY <1>13, Finished, IdleIsInformed, NothingSettled DEF abandon_purchase, stock, event,
     gateway, tickets
<1>14. ASSUME NEW q \in Reqs, mark_needs_refund(q) PROVE PaymentInv'
  <2>1. req[q].ref \in Refs /\ Started(req[q].ref)
    BY <1>14, <1>1, Ref DEF mark_needs_refund, Informed, PaymentInv, PaidIsStarted
  <2>2. QED
    BY <1>14, <2>1, Finished, IdleIsInformed, Refused DEF mark_needs_refund, gateway, tickets
<1>15. ASSUME NEW q \in Reqs, issue_tickets(q) PROVE PaymentInv'
  <2>1. CASE req[q].kind = "free"
    BY <1>15, <2>1, Finished, IdleIsInformed, NothingSettled DEF issue_tickets, gateway
  <2>2. CASE req[q].kind # "free"
    <3> DEFINE ref == req[q].ref
    <3>1. ref \in Refs /\ Collected(ref) /\ req[q].taken # Nothing /\ req[q].taken \in Quantity
      BY <1>15, <1>1, <2>2, Ref DEF issue_tickets, Informed
    <3>2. Started(ref) /\ txn[ref].items # <<>>
      BY <3>1 DEF PaymentInv, PaidIsStarted, RowsAreOrders
    <3>3. /\ update_status(ref, "success") /\ UNCHANGED <<collected, manual>>
          /\ delivered' = [delivered EXCEPT ![ref] = plus(@, req[q].taken)]
          /\ req'[q] = Idle /\ \A p \in Reqs : p # q => req'[p] = req[p]
      BY <1>15, <2>2, Finished DEF issue_tickets, gateway
    <3>4. /\ txn'[ref].status = "success" /\ txn'[ref].items = txn[ref].items
          /\ \A x \in Refs : x # ref => txn'[x] = txn[x]
      BY <3>1, <3>3, Updated DEF Statuses
    <3>5. delivered'[ref] # Nothing /\ \A x \in Refs : x # ref => delivered'[x] = delivered[x]
      BY <3>1, <3>3, PlusSome DEF TypeOK
    <3>6. \A p \in Reqs : Informed(p)'
      BY <1>1, <3>3, IdleIsInformed, StillInformed
    <3> HIDE DEF ref
    <3>7. QED
      BY <3>1, <3>2, <3>3, <3>4, <3>5, <3>6 DEF PaymentInv, RowsAreOrders, PaidIsStarted,
         OnlyPaidIsDelivered, SuccessIsDelivered,
                      Started, Collected
  <2>3. QED
    BY <2>1, <2>2
<1>16. ASSUME NEW q \in Reqs, handle_charge_failed(q) PROVE PaymentInv'
  <2>1. req[q].ref \in Refs /\ Started(req[q].ref)
    BY <1>16, <1>1, Ref DEF handle_charge_failed, Informed
  <2>2. QED
    BY <1>16, <2>1, Finished, IdleIsInformed, Refused DEF handle_charge_failed, gateway, tickets
<1>17. ASSUME NEW q \in Reqs, confirm_payment(q) PROVE PaymentInv'
  <2>1. CASE collected[req[q].ref] # "none" /\ txn[req[q].ref].status # "success"
    <3>1. Informed(q)' /\ \A p \in Reqs : p # q => req'[p] = req[p]
      BY <1>17, <2>1, Staged DEF confirm_payment, Informed, Collected, Stages, same_but_stage,
         gateway
    <3>2. QED
      BY <1>17, <2>1, <3>1, NothingSettled DEF confirm_payment, gateway, tickets
  <2>2. CASE ~(collected[req[q].ref] # "none" /\ txn[req[q].ref].status # "success")
    BY <1>17, <2>2, Finished, IdleIsInformed, NothingSettled DEF confirm_payment, gateway,
       tickets
  <2>3. QED
    BY <2>1, <2>2
<1>18. ASSUME NEW q \in Reqs, NEW i \in Items, issue_ticket_for_untracked_payment(q, i)
       PROVE  PaymentInv'
  <2> DEFINE ref == req[q].ref
  <2>1. ref \in Refs /\ Collected(ref)
    BY <1>18, <1>1, Ref DEF issue_ticket_for_untracked_payment, Informed
  <2>2. Started(ref) /\ txn[ref].items # <<>>
    BY <2>1 DEF PaymentInv, PaidIsStarted, RowsAreOrders
  <2>3. /\ update_status(ref, "success") /\ UNCHANGED <<collected, delivered>>
        /\ manual' = [manual EXCEPT ![ref] = @ + 1]
        /\ req'[q] = Idle /\ \A p \in Reqs : p # q => req'[p] = req[p]
    BY <1>18, Finished DEF issue_ticket_for_untracked_payment, gateway
  <2>4. /\ txn'[ref].status = "success" /\ txn'[ref].items = txn[ref].items
        /\ \A x \in Refs : x # ref => txn'[x] = txn[x]
    BY <2>1, <2>3, Updated DEF Statuses
  <2>5. manual'[ref] > 0 /\ \A x \in Refs : x # ref => manual'[x] = manual[x]
    BY <2>1, <2>3 DEF TypeOK
  <2>6. \A p \in Reqs : Informed(p)'
    BY <1>1, <2>3, IdleIsInformed, StillInformed
  <2> HIDE DEF ref
  <2>7. QED
    BY <2>1, <2>2, <2>3, <2>4, <2>5, <2>6 DEF PaymentInv, RowsAreOrders, PaidIsStarted,
       OnlyPaidIsDelivered, SuccessIsDelivered,
                      Started, Collected
<1>19. ASSUME NEW q \in Reqs, NEW i \in Items, issue_refused(q, i) PROVE PaymentInv'
  BY <1>19, Finished, IdleIsInformed, NothingSettled DEF issue_refused, stock, event, gateway,
     tickets
<1>20. ASSUME NEW q \in Reqs, NEW i \in Items, front_desk_sell(q, i) PROVE PaymentInv'
  BY <1>20, NothingSettled DEF front_desk_sell, stock, event, gateway, tickets
<1>21. ASSUME NEW q \in Reqs, NEW r \in Refs, begin_manual_issue(q, r) PROVE PaymentInv'
  <2>1. req'[q] = [Idle EXCEPT !.stage = "lookup",
     !.ref = r] /\ \A p \in Reqs : p # q => req'[p] = req[p]
    BY <1>21 DEF begin_manual_issue, TypeOK
  <2>2. Informed(q)'
    BY <1>21, <2>1 DEF begin_manual_issue, Idle, Informed, Started, Collected, stock, event,
       gateway, tickets
  <2>3. QED
    BY <1>21, <2>1, <2>2, NothingSettled DEF begin_manual_issue, stock, event, gateway, tickets
<1>22. ASSUME NEW t \in Types, NEW n \in Quantities, update_ticket_type(t, n)
       PROVE  PaymentInv'
  BY <1>22, NothingSettled DEF update_ticket_type, stock, event, gateway, tickets
<1>23. ASSUME NEW t \in Types, NEW s \in Shelves, change_shelf(t, s) PROVE PaymentInv'
  BY <1>23, NothingSettled DEF change_shelf, stock, event, gateway, tickets
<1>24. ASSUME NEW p \in BOOLEAN, publish_event(p) PROVE PaymentInv'
  BY <1>24, NothingSettled DEF publish_event, stock, event, gateway, tickets
<1>25. ASSUME NEW q \in Reqs, deadlock_detected(q) PROVE PaymentInv'
  BY <1>25, Finished, IdleIsInformed, NothingSettled DEF deadlock_detected, stock, event,
     gateway, tickets
<1>26. ASSUME NEW q \in Reqs, RequestDies(q) PROVE PaymentInv'
  BY <1>26, Finished, IdleIsInformed, NothingSettled DEF RequestDies, stock, event, gateway,
     tickets
<1>27. CASE UNCHANGED vars
  BY <1>27, NothingSettled DEF vars
<1>28. QED
  BY <1>2, <1>3, <1>4, <1>5, <1>6, <1>7, <1>8, <1>9, <1>10, <1>11, <1>12, <1>13, <1>14, <1>15,
     <1>16, <1>17, <1>18, <1>19, <1>20, <1>21, <1>22, <1>23, <1>24, <1>25, <1>26, <1>27
  DEF Next, Buyer, Webhook, Deliver, Staff, Proceed

-----------------------------------------------------------------------------
(* Theorems *)

\* The invariant holds in every reachable state.
LEMMA Invariance == Spec => []Inv
<1>1. Init => Inv
  <2>1. Init => StockMatchesTickets
    BY DEF Init, StockMatchesTickets, Nothing
  <2>2. QED
    BY <2>1, TypeInit, LocksInit, PaymentInit DEF Inv
<1>2. Inv /\ [Next]_vars => Inv'
  BY TypeNext, LocksNext, StockNext, PaymentNext DEF Inv
<1>3. QED
  BY <1>1, <1>2, PTL DEF Spec

\* The tables have the types the model declares: quantity_available is never
\* written below zero (event_repository.py, decrement_available).
THEOREM TypesHold == Spec => []TypeOK
<1>1. Inv => TypeOK
  BY DEF Inv
<1>2. QED
  BY <1>1, Invariance, PTL

\* quantity_sold is the tickets issued plus those sold at the door, through
\* overlapping sales, rollbacks and refunds (ticketing_service.py).
THEOREM StockIsExact == Spec => []StockMatchesTickets
<1>1. Inv => StockMatchesTickets
  BY DEF Inv
<1>2. QED
  BY <1>1, Invariance, PTL

\* Two requests never hold uncommitted tickets of one type, and what is held is
\* covered by the committed column (the row locks of decrement_available).
THEOREM HeldStockIsCovered == Spec => [](LocksExclude /\ HeldIsThere)
<1>1. Inv => LocksExclude /\ HeldIsThere
  BY DEF Inv, LocksInv
<1>2. QED
  BY <1>1, Invariance, PTL

\* Tickets are issued for a payment only when the gateway has collected something
\* for it, whatever a request read before its await (ticketing_service.py).
THEOREM DeliveredIsPaid == Spec => []OnlyPaidIsDelivered
<1>1. Inv => OnlyPaidIsDelivered
  BY DEF Inv, PaymentInv
<1>2. QED
  BY <1>1, Invariance, PTL

\* A payment shown as success has its tickets (fulfill_paid_purchase and the
\* console's manual issue write the status with the tickets).
THEOREM SuccessDelivers == Spec => []SuccessIsDelivered
<1>1. Inv => SuccessIsDelivered
  BY DEF Inv, PaymentInv
<1>2. QED
  BY <1>1, Invariance, PTL

\* Sales move tickets between available and sold; only update_ticket_type
\* changes their sum.
THEOREM OfferIsTheOrganizers == Spec => StockMovesWithSales
<1>1. Inv /\ [Next]_vars => [\/ \E t \in Types, n \in Quantities : update_ticket_type(t, n)
                            \/ plus(available, sold)' = plus(available, sold)]_vars
  BY OfferNext DEF Inv
<1>2. QED
  BY <1>1, Invariance, PTL DEF Spec, StockMovesWithSales

-----------------------------------------------------------------------------
(* Whole orders *)

\* A set of numbers has a least.
LEMMA Least ==
  ASSUME NEW S \in SUBSET Nat, S # {}
  PROVE  \E n \in S : \A m \in S : n <= m
<1> DEFINE Before == {mn \in Nat \X Nat : mn[1] < mn[2]}
<1>1. IsWellFoundedOn(Before, Nat)
  BY NatLessThanWellFounded DEF OpToRel
<1>2. PICK n \in S : \A m \in S : ~(<<m, n>> \in Before)
  BY <1>1, WFMin
<1>3. ASSUME NEW m \in S PROVE n <= m
  <2>1. m \in Nat /\ n \in Nat /\ ~(m < n)
    BY <1>2
  <2> QED BY <2>1
<1> QED BY <1>3

\* Numbers in a row have running totals.
LEMMA RunningTotals ==
  ASSUME NEW N \in Nat, NEW a \in [1..N -> Nat]
  PROVE  \E u \in [0..N -> Nat] : u[0] = 0 /\ \A n \in 1..N : u[n] = u[n - 1] + a[n]
<1> DEFINE Totals(m, u) == /\ u \in [0..m -> Nat] /\ u[0] = 0
                           /\ \A n \in 1..m : u[n] = u[n - 1] + a[n]
           Without == {m \in 0..N : ~\E u : Totals(m, u)}
<1>0. N \in 0..N /\ Without \subseteq Nat
  OBVIOUS
<1>1. SUFFICES ASSUME Without # {} PROVE FALSE
  <2>1. ASSUME Without = {} PROVE \E u : Totals(N, u)
    BY <1>0, <2>1
  <2>2. ASSUME NEW u, Totals(N, u)
        PROVE  u \in [0..N -> Nat] /\ u[0] = 0 /\ \A n \in 1..N : u[n] = u[n - 1] + a[n]
    BY <2>2
  <2> HIDE DEF Totals, Without
  <2> QED BY <2>1, <2>2
<1>2. PICK m \in Without : \A n \in Without : m <= n
  <2> HIDE DEF Without
  <2> QED BY <1>0, <1>1, Least
<1>3. CASE m = 0
  <2>1. 0..0 = {0} /\ 1..0 = {}
    OBVIOUS
  <2>2. Totals(0, [n \in {0} |-> 0])
    BY <2>1
  <2> QED BY <1>2, <1>3, <2>2
<1>4. CASE m # 0
  <2>0. m \in 0..N
    BY <1>2
  <2>1. m - 1 \in 0..N /\ m \in 1..N /\ m - 1 \notin Without
    <3> HIDE DEF Without
    <3>1. m - 1 \in Nat /\ ~(m <= m - 1)
      BY <1>4, <2>0
    <3> QED BY <1>2, <1>4, <2>0, <3>1
  <2>2. PICK u : Totals(m - 1, u)
    BY <2>1
  <2> DEFINE v == [n \in 0..m |-> IF n = m THEN u[m - 1] + a[m] ELSE u[n]]
  <2>3. \A n \in 0..m : n # m => n \in 0..(m - 1)
    BY <2>1
  <2>4. m - 1 \in 0..(m - 1) /\ a[m] \in Nat
    BY <2>1
  <2>5. v \in [0..m -> Nat] /\ v[0] = 0
    BY <2>1, <2>2, <2>3, <2>4
  <2>6. \A n \in 1..m : v[n] = v[n - 1] + a[n]
    <3> SUFFICES ASSUME NEW n \in 1..m PROVE v[n] = v[n - 1] + a[n]
      OBVIOUS
    <3>1. n \in 0..m /\ n - 1 \in 0..m /\ n - 1 # m
      BY <2>1
    <3>2. CASE n = m
      BY <2>1, <3>1, <3>2
    <3>3. CASE n # m
      BY <2>1, <2>2, <3>1, <3>3
    <3> QED BY <3>2, <3>3
  <2>7. Totals(m, v)
    BY <2>5, <2>6
  <2> QED BY <1>2, <2>7
<1> QED BY <1>3, <1>4

\* The tickets in an order, item by item.
LEMMA TicketsIn ==
  ASSUME NEW order \in Seq(Item), NEW t \in Types
  PROVE  /\ tickets_in(order, t) \in [0..Len(order) -> Nat]
         /\ tickets_in(order, t)[0] = 0
         /\ \A n \in 1..Len(order) :
              tickets_in(order, t)[n] = tickets_in(order, t)[n - 1] + of_type(order[n], t)
<1> DEFINE N == Len(order)
           step(f) == [n \in 0..N |-> IF n = 0 THEN 0 ELSE f[n - 1] + of_type(order[n], t)]
           total == CHOOSE f : f = step(f)
<1>1. N \in Nat /\ \A n \in 1..N : of_type(order[n], t) \in Nat
  <2>1. \A n \in 1..N : order[n] \in Item
    OBVIOUS
  <2> QED BY <2>1 DEF of_type, Item
<1>2. PICK u \in [0..N -> Nat] :
        u[0] = 0 /\ \A n \in 1..N : u[n] = u[n - 1] + of_type(order[n], t)
  <2> DEFINE a == [n \in 1..N |-> of_type(order[n], t)]
  <2>1. a \in [1..N -> Nat]
    BY <1>1
  <2>2. PICK u \in [0..N -> Nat] : u[0] = 0 /\ \A n \in 1..N : u[n] = u[n - 1] + a[n]
    BY <1>1, <2>1, RunningTotals
  <2> QED BY <2>2
<1>3. u = step(u)
  <2>1. \A n \in 0..N : u[n] = IF n = 0 THEN 0 ELSE u[n - 1] + of_type(order[n], t)
    BY <1>1, <1>2
  <2> QED BY <1>2, <2>1
<1>4. total = step(total)
  BY <1>3
<1>5. tickets_in(order, t) = total
  BY DEF tickets_in
<1> HIDE DEF total
<1>6. \A n \in 0..N : total[n] = IF n = 0 THEN 0 ELSE total[n - 1] + of_type(order[n], t)
  BY <1>4
<1> DEFINE Off == {n \in 0..N : total[n] \notin Nat}
<1>7. Off = {}
  <2>1. SUFFICES ASSUME Off # {} PROVE FALSE
    OBVIOUS
  <2>2. PICK n \in Off : \A m \in Off : n <= m
    <3>1. Off \subseteq Nat
      BY <1>1
    <3> HIDE DEF Off
    <3> QED BY <2>1, <3>1, Least
  <2>3. n # 0 /\ n \in 1..N /\ n - 1 \in 0..N
    BY <1>1, <1>6, <2>2
  <2>4. total[n - 1] \in Nat
    BY <1>1, <2>2, <2>3
  <2> QED BY <1>1, <1>6, <2>2, <2>3, <2>4
<1>8. total \in [0..N -> Nat]
  BY <1>4, <1>7
<1>9. \A n \in 1..N : total[n] = total[n - 1] + of_type(order[n], t)
  BY <1>1, <1>6
<1>10. total[0] = 0
  BY <1>1, <1>6
<1> QED BY <1>5, <1>8, <1>9, <1>10

\* An order has a number of tickets of each type.
LEMMA Ordered ==
  ASSUME NEW order \in Seq(Item), NEW t \in Types
  PROVE  ordered(order, t) \in Nat
<1>1. Len(order) \in 0..Len(order)
  OBVIOUS
<1> QED BY <1>1, TicketsIn DEF ordered

\* A request that works on the fulfilment of a payment, and those of one payment.
Works(p) ==
    \/ req[p].stage \in {"verify", "paid"}
    \/ req[p].stage = "items" /\ req[p].kind # "free"
Working(r) == {p \in Reqs : Works(p) /\ req[p].ref = r}

\* Until its status is decided, a payment can get more of them.
Open(r) == txn[r].status \in {"none", "pending"}

\* A payment has been fulfilled as a whole some number of times, none while it is
\* open, and no more often than requests have worked on it.
Fulfilled(r) ==
    \E k \in 0..Cardinality(Reqs) :
      /\ Open(r) => k = 0
      /\ k + Cardinality(Working(r)) <= Cardinality(Reqs)
      /\ \A t \in Types : delivered[r][t] = k * ordered(txn[r].items, t)

\* A request that goes through the order of a payment holds the items it has passed.
Through(p) ==
    LET order == txn[req[p].ref].items IN
    Works(p) /\ req[p].stage = "items" =>
      \E n \in 0..Len(order) :
        /\ Len(req[p].left) = Len(order) - n
        /\ \A i \in 1..Len(req[p].left) : req[p].left[i] = order[n + i]
        /\ \A t \in Types : req[p].taken[t] = tickets_in(order, t)[n]

OrdersInv == (\A r \in Refs : Fulfilled(r)) /\ (\A p \in Reqs : Through(p))

\* There are as many requests on a payment as there are slots, at most.
LEMMA WorkersFit ==
  /\ Cardinality(Reqs) \in Nat
  /\ \A r \in Refs : IsFiniteSet(Working(r)) /\ Cardinality(Working(r)) \in 0..Cardinality(Reqs)
<1>1. IsFiniteSet(Reqs)
  BY ConstantsAssumption
<1>2. Cardinality(Reqs) \in Nat
  BY <1>1, FS_CardinalityType
<1>3. ASSUME NEW r \in Refs
      PROVE  IsFiniteSet(Working(r)) /\ Cardinality(Working(r)) \in 0..Cardinality(Reqs)
  <2>1. Working(r) \in SUBSET Reqs
    BY DEF Working
  <2>2. IsFiniteSet(Working(r)) /\ Cardinality(Working(r)) <= Cardinality(Reqs)
    BY <1>1, <2>1, FS_Subset
  <2> QED BY <1>2, <2>2, FS_CardinalityType
<1> QED BY <1>2, <1>3

\* The same after a step.
LEMMA WorkersFitNext ==
  \A r \in Refs : IsFiniteSet(Working(r)') /\ Cardinality(Working(r)') \in 0..Cardinality(Reqs)
<1>1. IsFiniteSet(Reqs)
  BY ConstantsAssumption
<1>2. Cardinality(Reqs) \in Nat
  BY <1>1, FS_CardinalityType
<1>3. ASSUME NEW r \in Refs
      PROVE  IsFiniteSet(Working(r)') /\ Cardinality(Working(r)') \in 0..Cardinality(Reqs)
  <2>1. Working(r)' \in SUBSET Reqs
    BY DEF Working
  <2>2. IsFiniteSet(Working(r)') /\ Cardinality(Working(r)') <= Cardinality(Reqs)
    BY <1>1, <2>1, FS_Subset
  <2> QED BY <1>2, <2>2, FS_CardinalityType
<1> QED BY <1>3

\* A payment stays fulfilled as often as it was when nothing is delivered for it, and
\* either it is open or nobody starts to work on it.
LEMMA FulfilledKept ==
  ASSUME TypeOK, TypeOK', RowsGoOn, NEW r \in Refs, Fulfilled(r), delivered'[r] = delivered[r],
         Open(r) \/ Working(r)' \subseteq Working(r)
  PROVE  Fulfilled(r)'
<1>1. PICK k \in 0..Cardinality(Reqs) :
        /\ Open(r) => k = 0
        /\ k + Cardinality(Working(r)) <= Cardinality(Reqs)
        /\ \A t \in Types : delivered[r][t] = k * ordered(txn[r].items, t)
  BY DEF Fulfilled
<1>2. Open(r)' => Open(r)
  BY DEF RowsGoOn, Open
<1>3. txn[r].items \in Seq(Item) /\ txn'[r].items \in Seq(Item)
  BY DEF TypeOK, TicketTransaction
<1>4. \A t \in Types : delivered'[r][t] = k * ordered(txn'[r].items, t)
  <2>1. CASE Open(r)
    <3>1. \A t \in Types : ordered(txn[r].items, t) \in Nat /\ ordered(txn'[r].items, t) \in Nat
      BY <1>3, Ordered
    <3> QED BY <1>1, <2>1, <3>1
  <2>2. CASE ~Open(r)
    <3>1. txn'[r].items = txn[r].items
      BY <2>2 DEF Open, RowsGoOn
    <3> QED BY <1>1, <3>1
  <2> QED BY <2>1, <2>2
<1>5. k + Cardinality(Working(r)') <= Cardinality(Reqs)
  <2>1. CASE Open(r)
    BY <1>1, <2>1, WorkersFit, WorkersFitNext
  <2>2. CASE Working(r)' \subseteq Working(r)
    <3>1. Cardinality(Working(r)') <= Cardinality(Working(r))
      <4>1. IsFiniteSet(Working(r)) /\ Working(r)' \in SUBSET Working(r)
        BY <2>2, WorkersFit
      <4> QED BY <4>1, FS_Subset
    <3> QED BY <1>1, <3>1, WorkersFit, WorkersFitNext
  <2> QED BY <2>1, <2>2
<1> QED BY <1>1, <1>2, <1>4, <1>5 DEF Fulfilled, Open

\* A request that is left alone holds what it held, of the same order.
LEMMA ThroughKept ==
  ASSUME TypeOK, PaymentInv, RowsGoOn, NEW p \in Reqs, Through(p), req'[p] = req[p]
  PROVE  Through(p)'
<1> SUFFICES ASSUME Works(p), req[p].stage = "items" PROVE Through(p)'
  BY DEF Through, Works
<1>1. req[p].ref \in Refs /\ Started(req[p].ref)
  BY Ref DEF PaymentInv, PaidIsStarted, Informed, Works
<1>2. txn'[req[p].ref].items = txn[req[p].ref].items
  BY <1>1 DEF RowsGoOn, Started
<1> QED BY <1>2 DEF Through, Works

\* A step of one request that delivers nothing keeps the invariant when that request
\* only starts on an open payment.
LEMMA OrdersKept ==
  ASSUME TypeOK, PaymentInv, TypeOK', RowsGoOn, OrdersInv, delivered' = delivered,
         NEW q \in Reqs, \A p \in Reqs : p # q => req'[p] = req[p],
         Works(q)' => (Works(q) /\ req'[q].ref = req[q].ref) \/ Open(req'[q].ref),
         Through(q)'
  PROVE  OrdersInv'
<1>1. ASSUME NEW r \in Refs PROVE Fulfilled(r)'
  <2>1. Open(r) \/ Working(r)' \subseteq Working(r)
    BY DEF Working, Works
  <2> QED BY <2>1, FulfilledKept DEF OrdersInv
<1>2. ASSUME NEW p \in Reqs PROVE Through(p)'
  BY ThroughKept DEF OrdersInv
<1> QED BY <1>1, <1>2 DEF OrdersInv

\* So does one that leaves its slot idle, or at a stage of no fulfilment.
LEMMA OrdersLeft ==
  ASSUME TypeOK, PaymentInv, TypeOK', RowsGoOn, OrdersInv, delivered' = delivered,
         NEW q \in Reqs, \A p \in Reqs : p # q => req'[p] = req[p], ~Works(q)'
  PROVE  OrdersInv'
<1>1. Through(q)'
  BY DEF Through
<1> QED BY <1>1, OrdersKept

\* And a step that touches no request.
LEMMA OrdersUntouched ==
  ASSUME TypeOK, PaymentInv, TypeOK', RowsGoOn, OrdersInv, delivered' = delivered, req' = req
  PROVE  OrdersInv'
<1>1. ASSUME NEW r \in Refs PROVE Fulfilled(r)'
  <2>1. Working(r)' \subseteq Working(r)
    BY DEF Working, Works
  <2> QED BY <2>1, FulfilledKept DEF OrdersInv
<1>2. ASSUME NEW p \in Reqs PROVE Through(p)'
  BY ThroughKept DEF OrdersInv
<1> QED BY <1>1, <1>2 DEF OrdersInv

\* An idle slot works on nothing.
LEMMA IdleRests == ASSUME NEW q \in Reqs, req'[q] = Idle PROVE ~Works(q)'
BY DEF Works, Idle

\* Who starts going through a published order has passed none of it.
LEMMA OrderOpened ==
  ASSUME TypeOK, OnlyOrdersHold, PaymentInv, RowsGoOn, NEW q \in Reqs,
         fulfill_paid_purchase(q), published
  PROVE  Through(q)'
<1> DEFINE order == txn[req[q].ref].items
<1>1. req[q].ref \in Refs /\ Started(req[q].ref) /\ req[q].taken = Nothing
  BY Ref DEF fulfill_paid_purchase, PaymentInv, PaidIsStarted, Informed, OnlyOrdersHold
<1>2. order \in Seq(Item) /\ txn'[req[q].ref].items = order
  BY <1>1 DEF TypeOK, TicketTransaction, RowsGoOn, Started
<1>3. /\ req'[q].left = order /\ req'[q].ref = req[q].ref /\ req'[q].taken = Nothing
  BY <1>1, Opened
<1> DEFINE left == order
<1>4. \A t \in Types : tickets_in(order, t)[0] = 0
  BY <1>2, TicketsIn
<1>5. /\ 0 \in 0..Len(order) /\ Len(order) = Len(order) - 0
      /\ \A i \in 1..Len(order) : order[i] = order[0 + i]
      /\ \A t \in Types : Nothing[t] = tickets_in(order, t)[0]
  BY <1>2, <1>4 DEF Nothing
<1>6. \E n \in 0..Len(order) :
        /\ Len(order) = Len(order) - n
        /\ \A i \in 1..Len(order) : order[i] = order[n + i]
        /\ \A t \in Types : Nothing[t] = tickets_in(order, t)[n]
  BY <1>5
<1> QED BY <1>2, <1>3, <1>6 DEF Through

\* Who takes the next item of an order has passed one more.
LEMMA OrderPassed ==
  ASSUME TypeOK, PaymentInv, RowsGoOn, NEW q \in Reqs, take_item(q), Through(q)
  PROVE  Through(q)'
<1> SUFFICES ASSUME req[q].kind # "free" PROVE Through(q)'
  BY Taken DEF Through, Works
<1> DEFINE order == txn[req[q].ref].items
           left == req[q].left
<1>1. req[q].stage = "items" /\ left # <<>> /\ left \in Seq(Item)
  BY DEF take_item, TypeOK, Request
<1>2. req[q].ref \in Refs /\ Started(req[q].ref)
  BY <1>1, Ref DEF PaymentInv, PaidIsStarted, Informed
<1>3. order \in Seq(Item) /\ txn'[req[q].ref].items = order
  BY <1>2 DEF TypeOK, TicketTransaction, RowsGoOn, Started
<1>4. PICK n \in 0..Len(order) :
        /\ Len(left) = Len(order) - n
        /\ \A i \in 1..Len(left) : left[i] = order[n + i]
        /\ \A t \in Types : req[q].taken[t] = tickets_in(order, t)[n]
  BY <1>1 DEF Through, Works
<1>5. /\ req'[q].left = Tail(left) /\ req'[q].ref = req[q].ref
      /\ req'[q].taken = plus(req[q].taken, one_item(Head(left)))
  BY Taken DEF next_item
<1> HIDE DEF order, left
<1>6. /\ Len(left) \in Nat \ {0} /\ Len(Tail(left)) = Len(left) - 1 /\ Head(left) = left[1]
      /\ \A i \in 1..(Len(left) - 1) : Tail(left)[i] = left[i + 1]
      /\ Len(order) \in Nat
  BY <1>1, <1>3
<1>7. n + 1 \in 1..Len(order) /\ n + 1 \in 0..Len(order) /\ Head(left) = order[n + 1]
  BY <1>4, <1>6
<1>8. Len(Tail(left)) = Len(order) - (n + 1)
  BY <1>4, <1>6
<1>9. \A i \in 1..Len(Tail(left)) : Tail(left)[i] = order[(n + 1) + i]
  <2> SUFFICES ASSUME NEW i \in 1..Len(Tail(left))
               PROVE  Tail(left)[i] = order[(n + 1) + i]
    OBVIOUS
  <2>1. i + 1 \in 1..Len(left) /\ Tail(left)[i] = left[i + 1] /\ n + (i + 1) = (n + 1) + i
    BY <1>6
  <2> QED BY <1>4, <2>1
<1>10. \A t \in Types :
         plus(req[q].taken, one_item(Head(left)))[t] = tickets_in(order, t)[n + 1]
  <2> SUFFICES ASSUME NEW t \in Types
               PROVE  plus(req[q].taken, one_item(Head(left)))[t] = tickets_in(order, t)[n + 1]
    OBVIOUS
  <2>1. tickets_in(order, t)[n + 1] = tickets_in(order, t)[n] + of_type(order[n + 1], t)
    <3>1. tickets_in(order, t)[n + 1]
            = tickets_in(order, t)[(n + 1) - 1] + of_type(order[n + 1], t)
      BY <1>3, <1>7, TicketsIn
    <3>2. (n + 1) - 1 = n
      OBVIOUS
    <3> QED BY <3>1, <3>2
  <2>2. one_item(Head(left))[t] = of_type(Head(left), t)
    BY <1>1 DEF one_item, of_type, Nothing
  <2> QED BY <1>4, <1>7, <2>1, <2>2 DEF plus
<1>11. \E m \in 0..Len(order) :
         /\ Len(Tail(left)) = Len(order) - m
         /\ \A i \in 1..Len(Tail(left)) : Tail(left)[i] = order[m + i]
         /\ \A t \in Types :
              plus(req[q].taken, one_item(Head(left)))[t] = tickets_in(order, t)[m]
  BY <1>7, <1>8, <1>9, <1>10
<1>12. txn'[req'[q].ref].items = order
  BY <1>3, <1>5
<1>13. \E m \in 0..Len(txn'[req'[q].ref].items) :
         /\ Len(req'[q].left) = Len(txn'[req'[q].ref].items) - m
         /\ \A i \in 1..Len(req'[q].left) : req'[q].left[i] = txn'[req'[q].ref].items[m + i]
         /\ \A t \in Types : req'[q].taken[t] = tickets_in(txn'[req'[q].ref].items, t)[m]
  BY <1>5, <1>11, <1>12
<1> QED BY <1>13 DEF Through

\* Who has passed the whole order holds the whole order.
LEMMA OrderHeld ==
  ASSUME TypeOK, NEW q \in Reqs, Through(q), Works(q), req[q].stage = "items",
         req[q].left = <<>>
  PROVE  \A t \in Types : req[q].taken[t] = ordered(txn[req[q].ref].items, t)
<1> DEFINE order == txn[req[q].ref].items
<1>1. order \in Seq(Item)
  BY Ref DEF TypeOK, TicketTransaction
<1>2. PICK n \in 0..Len(order) : /\ Len(req[q].left) = Len(order) - n
                                /\ \A t \in Types : req[q].taken[t] = tickets_in(order, t)[n]
  BY DEF Through
<1>3. n = Len(order)
  BY <1>1, <1>2
<1> QED BY <1>2, <1>3 DEF ordered

\* One more time is one more order.
LEMMA OnceMore ==
  ASSUME NEW k \in Nat, NEW n \in Nat
  PROVE  (k + 1) * n = k * n + n
OBVIOUS

\* The fulfilment of a payment delivers the order once more, and ends a request on it.
LEMMA OrderIssued ==
  ASSUME TypeOK, TypeOK', PaymentInv, RowsGoOn, OrdersInv, NEW q \in Reqs, issue_tickets(q),
         req[q].kind # "free"
  PROVE  OrdersInv'
<1>0. PICK ref \in Refs : ref = req[q].ref
  BY Ref
<1>1. /\ ref \in Refs /\ Works(q) /\ req[q].stage = "items" /\ req[q].left = <<>>
      /\ Started(ref) /\ q \in Working(ref)
  BY <1>0 DEF issue_tickets, Works, Working, PaymentInv, PaidIsStarted, Informed
<1>2. /\ txn'[ref].status = "success" /\ txn'[ref].items = txn[ref].items
      /\ \A x \in Refs : x # ref => txn'[x] = txn[x]
  BY <1>0, Updated DEF issue_tickets, Statuses
<1>3. req'[q] = Idle /\ \A p \in Reqs : p # q => req'[p] = req[p]
  BY Finished DEF issue_tickets
<1>4. /\ delivered'[ref] = plus(delivered[ref], req[q].taken)
      /\ \A x \in Refs : x # ref => delivered'[x] = delivered[x]
  BY <1>0 DEF issue_tickets, TypeOK
<1>5. ASSUME NEW r \in Refs PROVE Working(r)' \subseteq Working(r)
  BY <1>3, IdleRests DEF Working, Works
<1>6. ASSUME NEW r \in Refs, r # ref PROVE Fulfilled(r)'
  BY <1>4, <1>5, <1>6, FulfilledKept DEF OrdersInv
<1>7. Fulfilled(ref)'
  <2>1. PICK k \in 0..Cardinality(Reqs) :
          /\ k + Cardinality(Working(ref)) <= Cardinality(Reqs)
          /\ \A t \in Types : delivered[ref][t] = k * ordered(txn[ref].items, t)
    BY <1>1 DEF OrdersInv, Fulfilled
  <2>2. Cardinality(Working(ref)') + 1 <= Cardinality(Working(ref))
    <3>1. q \notin Working(ref)'
      BY <1>3, IdleRests DEF Working
    <3>2. Working(ref)' \in SUBSET (Working(ref) \ {q})
      BY <1>1, <1>5, <3>1
    <3>3. /\ IsFiniteSet(Working(ref) \ {q})
          /\ Cardinality(Working(ref) \ {q}) = Cardinality(Working(ref)) - 1
      BY <1>1, WorkersFit, FS_RemoveElement
    <3>4. Cardinality(Working(ref)') <= Cardinality(Working(ref) \ {q})
      BY <3>2, <3>3, FS_Subset
    <3> QED BY <1>1, <3>3, <3>4, WorkersFit, WorkersFitNext
  <2>3. /\ k + 1 \in 0..Cardinality(Reqs)
        /\ (k + 1) + Cardinality(Working(ref)') <= Cardinality(Reqs)
    BY <1>1, <2>1, <2>2, WorkersFit, WorkersFitNext
  <2>4. \A t \in Types : delivered'[ref][t] = (k + 1) * ordered(txn'[ref].items, t)
    <3> SUFFICES ASSUME NEW t \in Types
                 PROVE  delivered'[ref][t] = (k + 1) * ordered(txn'[ref].items, t)
      OBVIOUS
    <3>1. ordered(txn[ref].items, t) \in Nat
      BY <1>1, Ordered DEF TypeOK, TicketTransaction
    <3>2. req[q].taken[t] = ordered(txn[ref].items, t)
      BY <1>0, <1>1, OrderHeld DEF OrdersInv
    <3>3. delivered'[ref][t] = delivered[ref][t] + req[q].taken[t]
      BY <1>4 DEF plus
    <3>4. (k + 1) * ordered(txn[ref].items, t)
            = k * ordered(txn[ref].items, t) + ordered(txn[ref].items, t)
      BY <3>1, OnceMore
    <3> QED BY <1>2, <2>1, <3>2, <3>3, <3>4
  <2>5. ~Open(ref)'
    BY <1>2 DEF Open
  <2> QED BY <2>3, <2>4, <2>5 DEF Fulfilled
<1>8. ASSUME NEW p \in Reqs, p # q PROVE Through(p)'
  BY <1>3, <1>8, ThroughKept DEF OrdersInv
<1>9. Through(q)'
  BY <1>3, IdleRests DEF Through
<1> QED BY <1>6, <1>7, <1>8, <1>9 DEF OrdersInv

\* No payment has been fulfilled at first.
LEMMA OrdersInit == Init => OrdersInv
<1> SUFFICES ASSUME Init PROVE OrdersInv
  OBVIOUS
<1>1. \A p \in Reqs : ~Works(p)
  BY DEF Init, Works, Idle
<1>2. ASSUME NEW r \in Refs PROVE Fulfilled(r)
  <2>1. txn[r].items \in Seq(Item) /\ \A t \in Types : delivered[r][t] = 0
    BY TypeInit DEF Init, TypeOK, TicketTransaction, Nothing
  <2>2. \A t \in Types : ordered(txn[r].items, t) \in Nat
    BY <2>1, Ordered
  <2>3. 0 \in 0..Cardinality(Reqs) /\ 0 + Cardinality(Working(r)) <= Cardinality(Reqs)
    BY WorkersFit
  <2>4. \A t \in Types : delivered[r][t] = 0 * ordered(txn[r].items, t)
    BY <2>1, <2>2
  <2> QED BY <2>3, <2>4 DEF Fulfilled
<1> QED BY <1>1, <1>2 DEF OrdersInv, Through

\* Every step delivers whole orders.
LEMMA OrdersNext ==
  TypeOK /\ LocksInv /\ PaymentInv /\ OrdersInv /\ [Next]_vars => OrdersInv'
<1> SUFFICES ASSUME TypeOK, LocksInv, PaymentInv, OrdersInv, [Next]_vars PROVE OrdersInv'
  OBVIOUS
<1>1. TypeOK' /\ RowsGoOn
  BY TypeNext, RowsStay
<1>2. ASSUME UNCHANGED <<delivered, req>> PROVE OrdersInv'
  BY <1>1, <1>2, OrdersUntouched
<1>3. ASSUME NEW q \in Reqs, finish(q), UNCHANGED delivered PROVE OrdersInv'
  BY <1>1, <1>3, Finished, IdleRests, OrdersLeft
<1>4. ASSUME NEW q \in Reqs, NEW r \in Refs, begin_verify(q, r) \/ begin_charge_success(q, r)
      PROVE  OrdersInv'
  <2>1. /\ req'[q].stage \in {"verify", "paid"} /\ req'[q].ref = r
        /\ \A p \in Reqs : p # q => req'[p] = req[p]
        /\ Open(r) /\ txn' = txn /\ delivered' = delivered
    BY <1>4 DEF begin_verify, begin_charge_success, TypeOK, Idle, Open, tickets
  <2>2. Open(req'[q].ref) /\ Through(q)'
    BY <2>1 DEF Through
  <2> QED BY <1>1, <2>1, <2>2, OrdersKept
<1>5. ASSUME NEW q \in Reqs, NEW o \in Orders, purchase_tickets(q, o) PROVE OrdersInv'
  <2>1. /\ req'[q].stage = "items" /\ req'[q].kind = "free"
        /\ \A p \in Reqs : p # q => req'[p] = req[p]
        /\ delivered' = delivered
    BY <1>5 DEF purchase_tickets, TypeOK, Idle, tickets
  <2>2. ~Works(q)'
    BY <2>1 DEF Works
  <2> QED BY <1>1, <2>1, <2>2, OrdersLeft
<1>6. ASSUME NEW q \in Reqs, NEW r \in Refs,
             begin_charge_failed(q, r) \/ begin_manual_issue(q, r)
      PROVE  OrdersInv'
  <2>1. /\ req'[q].stage \in {"reject", "lookup"}
        /\ \A p \in Reqs : p # q => req'[p] = req[p]
        /\ delivered' = delivered
    BY <1>6 DEF begin_charge_failed, begin_manual_issue, TypeOK, Idle, tickets
  <2>2. ~Works(q)'
    BY <2>1 DEF Works
  <2> QED BY <1>1, <2>1, <2>2, OrdersLeft
<1>7. ASSUME NEW q \in Reqs, verify_transaction(q) PROVE OrdersInv'
  <2>1. CASE verify_accepts(req[q].ref)
    <3>1. /\ req'[q].stage = "paid" /\ req'[q].ref = req[q].ref
          /\ \A p \in Reqs : p # q => req'[p] = req[p]
          /\ Works(q) /\ delivered' = delivered
      BY <1>7, <2>1, Staged DEF verify_transaction, Stages, same_but_stage, Works, tickets
    <3>2. Through(q)'
      BY <3>1 DEF Through
    <3> QED BY <1>1, <3>1, <3>2, OrdersKept
  <2>2. CASE ~verify_accepts(req[q].ref)
    BY <1>3, <1>7, <2>2 DEF verify_transaction, tickets
  <2> QED BY <2>1, <2>2
<1>8. ASSUME NEW q \in Reqs, fulfill_paid_purchase(q) PROVE OrdersInv'
  <2>1. CASE published
    <3>1. /\ req'[q].ref = req[q].ref /\ \A p \in Reqs : p # q => req'[p] = req[p]
          /\ Works(q) /\ delivered' = delivered
      BY <1>8, <2>1, Opened DEF fulfill_paid_purchase, Works, tickets
    <3>2. Through(q)'
      BY <1>1, <1>8, <2>1, OrderOpened DEF LocksInv
    <3> QED BY <1>1, <3>1, <3>2, OrdersKept
  <2>2. CASE ~published
    BY <1>3, <1>8, <2>2 DEF fulfill_paid_purchase, tickets
  <2> QED BY <2>1, <2>2
<1>9. ASSUME NEW q \in Reqs, take_item(q) PROVE OrdersInv'
  <2>1. /\ req'[q].ref = req[q].ref /\ req'[q].kind = req[q].kind /\ req'[q].stage = "items"
        /\ \A p \in Reqs : p # q => req'[p] = req[p]
        /\ req[q].stage = "items" /\ delivered' = delivered
    BY <1>9, Taken DEF take_item, tickets
  <2>2. Works(q)' => Works(q)
    BY <2>1 DEF Works
  <2>3. Through(q)'
    BY <1>1, <1>9, OrderPassed DEF OrdersInv
  <2> QED BY <1>1, <2>1, <2>2, <2>3, OrdersKept
<1>10. ASSUME NEW q \in Reqs, issue_tickets(q) PROVE OrdersInv'
  <2>1. CASE req[q].kind = "free"
    BY <1>3, <1>10, <2>1 DEF issue_tickets
  <2>2. CASE req[q].kind # "free"
    BY <1>1, <1>10, <2>2, OrderIssued
  <2> QED BY <2>1, <2>2
<1>11. ASSUME NEW q \in Reqs, confirm_payment(q) PROVE OrdersInv'
  <2>1. CASE req' = [req EXCEPT ![q].stage = "manual"]
    <3>1. ~Works(q)' /\ (\A p \in Reqs : p # q => req'[p] = req[p]) /\ delivered' = delivered
      BY <1>11, <2>1, Staged DEF confirm_payment, Stages, Works, tickets
    <3> QED BY <1>1, <3>1, OrdersLeft
  <2>2. CASE finish(q)
    BY <1>3, <1>11, <2>2 DEF confirm_payment, tickets
  <2> QED BY <1>11, <2>1, <2>2 DEF confirm_payment
<1>12. ASSUME NEW q \in Reqs,
              \/ abandon_purchase(q) \/ mark_needs_refund(q) \/ handle_charge_failed(q)
              \/ deadlock_detected(q) \/ RequestDies(q)
              \/ \E i \in Items : \/ issue_ticket_for_untracked_payment(q, i)
                                 \/ issue_refused(q, i)
       PROVE  OrdersInv'
  BY <1>3, <1>12 DEF abandon_purchase, mark_needs_refund, handle_charge_failed,
     deadlock_detected, RequestDies, issue_ticket_for_untracked_payment, issue_refused, tickets
<1>13. ASSUME \/ \E r \in Refs, o \in Orders : initiate_ticket_payment(r, o)
              \/ \E r \in Refs : \/ AttemptFails(r) \/ webhook_ignored(r)
                                 \/ \E how \in {"short", "full"} : CustomerPays(r, how)
              \/ \E q \in Reqs, i \in Items : front_desk_sell(q, i)
              \/ \E t \in Types : \/ \E n \in Quantities : update_ticket_type(t, n)
                                  \/ \E s \in Shelves : change_shelf(t, s)
              \/ \E p \in BOOLEAN : publish_event(p)
              \/ UNCHANGED vars
       PROVE  OrdersInv'
  BY <1>2, <1>13 DEF initiate_ticket_payment, AttemptFails, webhook_ignored, CustomerPays,
     front_desk_sell, update_ticket_type, change_shelf, publish_event, vars, tickets
<1> QED
  BY <1>4, <1>5, <1>6, <1>7, <1>8, <1>9, <1>10, <1>11, <1>12, <1>13
  DEF Next, Buyer, Webhook, Deliver, Staff, Proceed

\* Whatever the fulfilment of a payment issues is its order, whole, however often
\* overlapping requests fulfil it and whatever sells out meanwhile
\* (fulfill_paid_purchase takes every item before it issues one).
THEOREM OrdersAreWhole == Spec => []AllOrNothing
<1>1. Init => OrdersInv
  BY OrdersInit
<1>2. Inv /\ OrdersInv /\ [Next]_vars => OrdersInv'
  BY OrdersNext DEF Inv
<1>3. OrdersInv => AllOrNothing
  BY DEF OrdersInv, Fulfilled, AllOrNothing
<1> QED BY <1>1, <1>2, <1>3, Invariance, PTL DEF Spec
=============================================================================
