----------------------------- MODULE Ticketing -----------------------------
(***************************************************************************)
(* Ticket sales of one event: the stock of its ticket types, the rows of   *)
(* `ticket_transactions` that pay for orders, and the tickets issued.      *)
(*                                                                         *)
(* Stock is taken by an atomic UPDATE ... WHERE available >= n, one per    *)
(* item of the order, and stays locked and invisible to others until the   *)
(* request commits.  So available and sold are the committed columns, and  *)
(* a request keeps what it has taken in its own record: a rollback forgets *)
(* it.  What a request read before an await (the status of the payment,    *)
(* the ticket types on sale) it does not read again: SQLAlchemy's identity *)
(* map returns the row it has loaded.                                      *)
(*                                                                         *)
(* All orders are one buyer's.  Another buyer differs only in max_per_user *)
(* counting anew.                                                          *)
(***************************************************************************)
EXTENDS Integers, Sequences, FiniteSets, SequencesExt, FiniteSetsExt

CONSTANTS
    Types,       \* ticket types of the event
    Free,        \* those of price 0
    Refs,        \* payment references
    Reqs,        \* slots for requests the server works on concurrently
    Orders,      \* what a buyer may order: sequences of items
    Stock,       \* quantity_available every type starts with
    Quantities,  \* quantity_available values an organizer may write
    Shelves,     \* the shelf states an organizer may put a type in
    Capacity,    \* Event.capacity
    MaxPerUser,  \* TicketType.max_per_user
    SaleLimit    \* bound of the model: tickets of a type sold without payment

Item == [type : Types, quantity : Nat \ {0}]
Quantity == [Types -> Nat]
ShelfStates == {"on_sale", "outside_window", "inactive"}

ASSUME ConstantsAssumption ==
    /\ Types # {} /\ Free \subseteq Types /\ Refs # {} /\ IsFiniteSet(Reqs)
    /\ Orders \subseteq Seq(Item) \ {<<>>}
    /\ Stock \in Nat /\ Quantities \subseteq Nat /\ Shelves \subseteq ShelfStates
    /\ Capacity \in Nat /\ MaxPerUser \in Nat /\ SaleLimit \in Nat

VARIABLES
    available, sold,   \* ticket_types.quantity_available, quantity_sold
    shelf,             \* ticket_types.status and its sales window
    published,         \* Event.status = "published"
    txn,               \* ticket_transactions, one record per reference
    collected,         \* what the gateway has collected for a reference
    attempts_failed,   \* references the gateway has sent a charge.failed for
    acked,             \* references whose charge.success was answered 2xx
    owned,             \* tickets of a type issued to the buyer
    walkin,            \* tickets of a type sold at the door
    delivered,         \* tickets issued by the fulfilment of a payment
    manual,            \* purchases an admin has issued by hand for a payment
    req                \* the requests in progress

vars == <<available, sold, shelf, published, txn, collected, attempts_failed, acked,
          owned, walkin, delivered, manual, req>>
stock == <<available, sold>>
tickets == <<owned, walkin, delivered, manual>>
gateway == <<collected, attempts_failed>>
event == <<shelf, published>>

Nothing == [t \in Types |-> 0]
SomeRef == CHOOSE r \in Refs : TRUE

(* "verify", "paid", "reject", "lookup", "manual": what comes after the    *)
(* next await of the request.  "items": it is going through its order, of  *)
(* which `left` remains and `taken` is the stock it holds.                 *)
Request == [stage : {"idle", "verify", "paid", "items", "reject", "lookup", "manual"},
            kind : {"verify", "webhook", "free"}, ref : Refs,
            left : Seq(Item), seen : SUBSET Types, taken : Quantity]
Idle == [stage |-> "idle", kind |-> "verify", ref |-> SomeRef,
         left |-> <<>>, seen |-> {}, taken |-> Nothing]

TicketTransaction == [status : {"none", "pending", "success", "failed", "needs_refund"},
                      items : Seq(Item)]

TypeOK ==
    /\ available \in Quantity /\ sold \in Quantity
    /\ shelf \in [Types -> ShelfStates] /\ published \in BOOLEAN
    /\ txn \in [Refs -> TicketTransaction]
    /\ collected \in [Refs -> {"none", "short", "full"}]
    /\ attempts_failed \subseteq Refs /\ acked \subseteq Refs
    /\ owned \in Quantity /\ walkin \in Quantity
    /\ delivered \in [Refs -> Quantity] /\ manual \in [Refs -> Nat]
    /\ req \in [Reqs -> Request]

Init ==
    /\ available = [t \in Types |-> Stock] /\ sold = Nothing
    /\ shelf = [t \in Types |-> "on_sale"] /\ published = TRUE
    /\ txn = [r \in Refs |-> [status |-> "none", items |-> <<>>]]
    /\ collected = [r \in Refs |-> "none"] /\ attempts_failed = {} /\ acked = {}
    /\ owned = Nothing /\ walkin = Nothing
    /\ delivered = [r \in Refs |-> Nothing] /\ manual = [r \in Refs |-> 0]
    /\ req = [q \in Reqs |-> Idle]

-----------------------------------------------------------------------------
(* Stock *)

types_of(order) == {i.type : i \in ToSet(order)}
plus(a, b) == [t \in Types |-> a[t] + b[t]]
minus(a, b) == [t \in Types |-> a[t] - b[t]]
one_item(item) == [Nothing EXCEPT ![item.type] = item.quantity]

\* Mutant: the UPDATE does not compare the quantity.
decrement_unguarded(q, item) == shelf[item.type] # "inactive"

\* The WHERE clause of decrement_available, on the committed row and what the
\* request itself has already taken from it.
decrement_available(q, item) ==
    /\ shelf[item.type] # "inactive"
    /\ available[item.type] - req[q].taken[item.type] >= item.quantity

\* The row lock an uncommitted decrement holds.
locked_by(p, t) == req[p].taken[t] > 0
unlocked(t) == \A p \in Reqs : ~locked_by(p, t)

\* Mutant: quantity_sold is not counted up.
commit_uncounted(n) == available' = minus(available, n) /\ UNCHANGED sold

\* The request commits having taken n.
commit_stock(n) == /\ available' = minus(available, n)
                   /\ sold' = plus(sold, n)

\* What increment_available gives back before a refund is committed: the
\* items of the order decremented so far.  Mutant: nothing.
give_back_nothing(q) == Nothing
decremented_so_far(q) == req[q].taken

update_status(r, s) == txn' = [txn EXCEPT ![r].status = s]
finish(q) == req' = [req EXCEPT ![q] = Idle]
answer(q) == acked' = IF req[q].kind = "webhook" THEN acked \cup {req[q].ref} ELSE acked

-----------------------------------------------------------------------------
(* Ordering and paying *)

\* POST /tickets/initiate-payment and its guest twin.
initiate_ticket_payment(r, order) ==
    /\ txn[r].status = "none"
    /\ published
    /\ \A i \in DOMAIN order :
          /\ shelf[order[i].type] = "on_sale"
          /\ owned[order[i].type] + order[i].quantity <= MaxPerUser
    /\ ~ types_of(order) \subseteq Free
    /\ txn' = [txn EXCEPT ![r] = [status |-> "pending", items |-> order]]
    /\ UNCHANGED <<stock, event, gateway, acked, tickets, req>>

\* The customer pays for the reference, all of it or less.
CustomerPays(r, how) ==
    /\ txn[r].status # "none" /\ collected[r] = "none"
    /\ collected' = [collected EXCEPT ![r] = how]
    /\ UNCHANGED <<stock, event, txn, attempts_failed, acked, tickets, req>>

\* An attempt fails or is abandoned; the same reference can still be paid.
AttemptFails(r) ==
    /\ txn[r].status # "none" /\ collected[r] = "none"
    /\ attempts_failed' = attempts_failed \cup {r}
    /\ UNCHANGED <<stock, event, txn, collected, acked, tickets, req>>

-----------------------------------------------------------------------------
(* POST /tickets/verify-and-purchase *)

begin_verify(q, r) ==
    /\ req[q].stage = "idle"
    /\ txn[r].status = "pending"
    /\ req' = [req EXCEPT ![q] = [Idle EXCEPT !.stage = "verify", !.ref = r]]
    /\ UNCHANGED <<stock, event, txn, gateway, acked, tickets>>

\* Mutant: the answer is not looked at.
verify_anything(r) == TRUE

\* Paystack's answer.  A refusal is committed before the 402 is raised.
verify_accepts(r) == collected[r] = "full"

verify_transaction(q) ==
    /\ req[q].stage = "verify"
    /\ IF verify_accepts(req[q].ref)
       THEN req' = [req EXCEPT ![q].stage = "paid"] /\ UNCHANGED txn
       ELSE update_status(req[q].ref, "failed") /\ finish(q)
    /\ UNCHANGED <<stock, event, gateway, acked, tickets>>

-----------------------------------------------------------------------------
(* The webhook *)

begin_charge_success(q, r) ==
    /\ req[q].stage = "idle"
    /\ collected[r] # "none"
    /\ txn[r].status = "pending"
    /\ req' = [req EXCEPT ![q] = [Idle EXCEPT !.stage = "paid", !.kind = "webhook", !.ref = r]]
    /\ UNCHANGED <<stock, event, txn, gateway, acked, tickets>>

\* already_processed, or the 400 of a failed payment swallowed into a 200.
webhook_ignored(r) ==
    /\ collected[r] # "none"
    /\ txn[r].status \in {"success", "failed", "needs_refund"}
    /\ acked' = acked \cup {r}
    /\ UNCHANGED <<stock, event, txn, gateway, tickets, req>>

begin_charge_failed(q, r) ==
    /\ req[q].stage = "idle"
    /\ r \in attempts_failed /\ txn[r].status = "pending"
    /\ req' = [req EXCEPT ![q] = [Idle EXCEPT !.stage = "reject", !.ref = r]]
    /\ UNCHANGED <<stock, event, txn, gateway, acked, tickets>>

handle_charge_failed(q) ==
    /\ req[q].stage = "reject"
    /\ update_status(req[q].ref, "failed")
    /\ finish(q)
    /\ UNCHANGED <<stock, event, gateway, acked, tickets>>

-----------------------------------------------------------------------------
(* fulfill_paid_purchase, from either side, and the free purchase_tickets *)

on_sale == {t \in Types : shelf[t] = "on_sale"}

\* Mutant: the status is written before the stock is taken.
fulfill_marking_first(q) ==
    /\ req[q].stage = "paid" /\ published
    /\ update_status(req[q].ref, "success")
    /\ req' = [req EXCEPT ![q] = [@ EXCEPT !.stage = "items", !.seen = on_sale,
                                           !.left = txn[req[q].ref].items]]
    /\ UNCHANGED <<stock, event, gateway, acked, tickets>>

\* The event and its ticket types are read; the status of the payment, read
\* before, decides nothing any more.
fulfill_paid_purchase(q) ==
    /\ req[q].stage = "paid"
    /\ IF published
       THEN /\ req' = [req EXCEPT ![q] = [@ EXCEPT !.stage = "items", !.seen = on_sale,
                                                  !.left = txn[req[q].ref].items]]
            /\ UNCHANGED <<txn, acked>>
       ELSE update_status(req[q].ref, "failed") /\ answer(q) /\ finish(q)
    /\ UNCHANGED <<stock, event, gateway, tickets>>

purchase_tickets(q, order) ==
    /\ req[q].stage = "idle"
    /\ published /\ types_of(order) \subseteq Free
    /\ \A t \in types_of(order) : owned[t] < SaleLimit
    /\ req' = [req EXCEPT ![q] = [Idle EXCEPT !.stage = "items", !.kind = "free",
                                              !.seen = on_sale, !.left = order]]
    /\ UNCHANGED <<stock, event, txn, gateway, acked, tickets>>

\* Is the next item still to be had, as far as this request can see?
next_item(q) == Head(req[q].left)
obtainable(q) ==
    LET item == next_item(q) IN
    /\ item.type \in req[q].seen
    /\ req[q].kind = "free" => owned[item.type] + item.quantity <= MaxPerUser
    /\ decrement_available(q, item)

\* Mutant: an item that is not to be had is passed over.
take_or_skip(q) ==
    LET item == next_item(q) IN
    /\ req[q].stage = "items" /\ req[q].left # <<>>
    /\ req' = [req EXCEPT ![q].taken[item.type] = @ + IF obtainable(q) THEN item.quantity ELSE 0,
                          ![q].left = Tail(@)]
    /\ UNCHANGED <<stock, event, txn, gateway, acked, tickets>>

\* The UPDATE waits for a row lock somebody else holds.
take_item(q) ==
    LET item == next_item(q) IN
    /\ req[q].stage = "items" /\ req[q].left # <<>>
    /\ obtainable(q)
    /\ \A p \in Reqs \ {q} : ~locked_by(p, item.type)
    /\ req' = [req EXCEPT ![q].taken[item.type] = @ + item.quantity,
                          ![q].left = Tail(@)]
    /\ UNCHANGED <<stock, event, txn, gateway, acked, tickets>>

\* A free purchase raises and is rolled back.
abandon_purchase(q) ==
    /\ req[q].stage = "items" /\ req[q].left # <<>> /\ req[q].kind = "free"
    /\ ~obtainable(q)
    /\ finish(q)
    /\ UNCHANGED <<stock, event, txn, gateway, acked, tickets>>

\* A paid one gives back what it took and commits a refund.
mark_needs_refund(q) ==
    /\ req[q].stage = "items" /\ req[q].left # <<>> /\ req[q].kind # "free"
    /\ ~obtainable(q)
    /\ commit_stock(minus(req[q].taken, decremented_so_far(q)))
    /\ update_status(req[q].ref, "needs_refund")
    /\ answer(q) /\ finish(q)
    /\ UNCHANGED <<event, gateway, tickets>>

\* Every item is taken: purchase, tickets, status and commit.
issue_tickets(q) ==
    LET r == req[q].ref IN
    /\ req[q].stage = "items" /\ req[q].left = <<>>
    /\ commit_stock(req[q].taken)
    /\ owned' = plus(owned, req[q].taken)
    /\ IF req[q].kind = "free"
       THEN UNCHANGED <<txn, delivered>>
       ELSE /\ update_status(r, "success")
            /\ delivered' = [delivered EXCEPT ![r] = plus(@, req[q].taken)]
    /\ answer(q) /\ finish(q)
    /\ UNCHANGED <<event, gateway, walkin, manual>>

-----------------------------------------------------------------------------
(* Staff and organizer *)

\* A walk-up sale looks at neither the event nor the sales window.
front_desk_sell(q, item) ==
    /\ req[q].stage = "idle" /\ walkin[item.type] < SaleLimit
    /\ decrement_available(q, item) /\ unlocked(item.type)
    /\ commit_stock(one_item(item))
    /\ walkin' = plus(walkin, one_item(item))
    /\ UNCHANGED <<event, txn, gateway, acked, owned, delivered, manual, req>>

\* An admin issues tickets for a payment of which no purchase bears the
\* reference: only the purchases of this path do.
begin_manual_issue(q, r) ==
    /\ req[q].stage = "idle" /\ manual[r] = 0
    /\ req' = [req EXCEPT ![q] = [Idle EXCEPT !.stage = "lookup", !.ref = r]]
    /\ UNCHANGED <<stock, event, txn, gateway, acked, tickets>>

\* Paystack's answer, and the row of the payment.
confirm_payment(q) ==
    LET r == req[q].ref IN
    /\ req[q].stage = "lookup"
    /\ IF collected[r] # "none" /\ txn[r].status # "success"
       THEN req' = [req EXCEPT ![q].stage = "manual"]
       ELSE finish(q)
    /\ UNCHANGED <<stock, event, txn, gateway, acked, tickets>>

issue_ticket_for_untracked_payment(q, item) ==
    LET r == req[q].ref IN
    /\ req[q].stage = "manual"
    /\ decrement_available(q, item) /\ unlocked(item.type)
    /\ commit_stock(one_item(item))
    /\ owned' = plus(owned, one_item(item))
    /\ manual' = [manual EXCEPT ![r] = @ + 1]
    /\ update_status(r, "success")
    /\ finish(q)
    /\ UNCHANGED <<event, gateway, acked, walkin, delivered>>

\* No stock left: 409, nothing is written.
issue_refused(q, item) ==
    /\ req[q].stage = "manual"
    /\ ~decrement_available(q, item)
    /\ finish(q)
    /\ UNCHANGED <<stock, event, txn, gateway, acked, tickets>>

\* The sum is checked against the capacity of the event, the tickets of this
\* type already sold left out.
fits(t, n) == MapThenSumSet(LAMBDA u : available[u] + sold[u], Types \ {t}) + n <= Capacity

\* The organizer writes quantity_available.
update_ticket_type(t, n) ==
    /\ unlocked(t)
    /\ fits(t, n)
    /\ available' = [available EXCEPT ![t] = n]
    /\ UNCHANGED <<sold, event, txn, gateway, acked, tickets, req>>

\* status, sales_start_datetime and sales_end_datetime; or time passes.
change_shelf(t, s) ==
    /\ unlocked(t)
    /\ shelf' = [shelf EXCEPT ![t] = s]
    /\ UNCHANGED <<stock, published, txn, gateway, acked, tickets, req>>

\* publish_event, unpublish_event, cancel_event
publish_event(p) ==
    /\ published' = p
    /\ UNCHANGED <<stock, shelf, txn, gateway, acked, tickets, req>>

-----------------------------------------------------------------------------
(* Failures *)

waits_for(q, p) ==
    /\ req[q].stage = "items" /\ req[q].left # <<>> /\ p # q
    /\ obtainable(q) /\ locked_by(p, next_item(q).type)

deadlocked(q) == \E S \in SUBSET Reqs : q \in S /\ \A s \in S : \E p \in S : waits_for(s, p)

\* Mutant: the webhook is answered before the work is committed.
answer_then_die(q) ==
    /\ req[q].stage # "idle"
    /\ answer(q) /\ finish(q)
    /\ UNCHANGED <<stock, event, txn, gateway, tickets>>

\* Postgres aborts a transaction of a cycle of lock waits; a worker dies.  The
\* request is rolled back and, if it was a webhook, not answered with a 2xx.
deadlock_detected(q) ==
    /\ deadlocked(q)
    /\ finish(q)
    /\ UNCHANGED <<stock, event, txn, gateway, acked, tickets>>

RequestDies(q) ==
    /\ req[q].stage # "idle"
    /\ finish(q)
    /\ UNCHANGED <<stock, event, txn, gateway, acked, tickets>>

-----------------------------------------------------------------------------
Items == UNION {ToSet(o) : o \in Orders}
Longest == Max({Len(o) : o \in Orders})

Buyer ==
    \/ \E r \in Refs, o \in Orders : initiate_ticket_payment(r, o)
    \/ \E r \in Refs : AttemptFails(r) \/ \E how \in {"short", "full"} : CustomerPays(r, how)
    \/ \E q \in Reqs, o \in Orders : purchase_tickets(q, o)
    \/ \E q \in Reqs, r \in Refs : begin_verify(q, r)

Deliver(r) == webhook_ignored(r) \/ \E q \in Reqs : begin_charge_success(q, r)

Webhook ==
    \/ \E r \in Refs : Deliver(r)
    \/ \E q \in Reqs, r \in Refs : begin_charge_failed(q, r)

\* The steps a request takes once it has begun.
Proceed(q) ==
    \/ verify_transaction(q) \/ fulfill_paid_purchase(q)
    \/ take_item(q) \/ abandon_purchase(q) \/ mark_needs_refund(q) \/ issue_tickets(q)
    \/ handle_charge_failed(q) \/ confirm_payment(q)
    \/ \E i \in Items : issue_ticket_for_untracked_payment(q, i) \/ issue_refused(q, i)

Staff ==
    \/ \E q \in Reqs, i \in Items : front_desk_sell(q, i)
    \/ \E q \in Reqs, r \in Refs : begin_manual_issue(q, r)
    \/ \E t \in Types : \/ \E n \in Quantities : update_ticket_type(t, n)
                        \/ \E s \in Shelves : change_shelf(t, s)
    \/ \E p \in BOOLEAN : publish_event(p)

Next ==
    \/ Buyer \/ Webhook \/ Staff
    \/ \E q \in Reqs : Proceed(q) \/ deadlock_detected(q) \/ RequestDies(q)

Spec == Init /\ [][Next]_vars

\* The server works off what it has begun, Postgres breaks a deadlock, the
\* gateway delivers charge.success until it is answered with a 2xx, and a worker
\* that comes to the same point of an order again and again gets past it.
Settling ==
    /\ \A q \in Reqs :
          /\ WF_vars(Proceed(q)) /\ WF_vars(deadlock_detected(q))
          /\ SF_vars(fulfill_paid_purchase(q)) /\ SF_vars(issue_tickets(q))
          /\ SF_vars(mark_needs_refund(q))
          /\ \A n \in 1..Longest : SF_vars(Len(req[q].left) = n /\ take_item(q))
    /\ \A r \in Refs : SF_vars(r \notin acked /\ Deliver(r))
FairSpec == Spec /\ Settling

-----------------------------------------------------------------------------
(* Properties *)

\* The stock column counts the tickets there are: no interleaving of sales,
\* compensations, rollbacks and door sales loses or invents one.
StockMatchesTickets == \A t \in Types : sold[t] = owned[t] + walkin[t]

\* The tickets of a type in the first items of an order, and in all of it.
of_type(item, t) == IF item.type = t THEN item.quantity ELSE 0
tickets_in(order, t) ==
    LET total[n \in 0..Len(order)] == IF n = 0 THEN 0 ELSE total[n - 1] + of_type(order[n], t)
    IN  total
ordered(order, t) == tickets_in(order, t)[Len(order)]

\* Whatever the fulfilment of a payment issues is its order, whole: an order is
\* never cut short by an item that sold out.
AllOrNothing ==
    \A r \in Refs : \E k \in 0..Cardinality(Reqs) :
        \A t \in Types : delivered[r][t] = k * ordered(txn[r].items, t)

\* A payment shown as success has its tickets, by fulfilment or by hand.
SuccessIsDelivered ==
    \A r \in Refs : txn[r].status = "success" => delivered[r] # Nothing \/ manual[r] > 0

\* Nothing is issued for a payment the gateway has collected nothing for.
OnlyPaidIsDelivered ==
    \A r \in Refs : delivered[r] # Nothing \/ manual[r] > 0 => collected[r] # "none"

\* Tickets on offer and tickets sold add up to what the organizer put on offer.
StockMovesWithSales ==
    [][\/ \E t \in Types, n \in Quantities : update_ticket_type(t, n)
       \/ plus(available, sold)' = plus(available, sold)]_vars

\* A payment the gateway has collected does not stay pending for ever.
PaymentsResolve == \A r \in Refs : collected[r] # "none" ~> txn[r].status # "pending"

\* A payment is fulfilled once.
FulfilledOnce ==
    \A r \in Refs : \A t \in Types :
        delivered[r][t] <= IF manual[r] > 0 THEN 0 ELSE ordered(txn[r].items, t)

\* A payment to be refunded has no tickets.
RefundHasNoTickets ==
    \A r \in Refs : txn[r].status = "needs_refund" => delivered[r] = Nothing /\ manual[r] = 0

\* A payment collected in full ends in tickets or in a refund.
PaidIsHonoured ==
    \A r \in Refs : collected[r] = "full" ~> txn[r].status \in {"success", "needs_refund"}

\* No tickets for less than their price.
PaidInFull == \A r \in Refs : delivered[r] # Nothing => collected[r] = "full"

\* The payments of one buyer bring no more tickets of a type than its limit.
LimitPerBuyer ==
    \A t \in Types : MaxPerUser >= MapThenSumSet(
        LAMBDA r : IF delivered[r][t] > 0 THEN ordered(txn[r].items, t) ELSE 0, Refs)

\* The event offers no more tickets than it has room for.
WithinCapacity == MapThenSumSet(LAMBDA t : available[t] + sold[t], Types) <= Capacity
=============================================================================
