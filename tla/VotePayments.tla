--------------------------- MODULE VotePayments ---------------------------
(***************************************************************************)
(* Paid votes: the life of a row of `transactions` (one Paystack or        *)
(* JuniPay charge) and of the row of `votes` it buys.                      *)
(*                                                                         *)
(* Two kinds of HTTP request settle a charge and may overlap freely: the   *)
(* voter's own verify-and-cast call, and the gateway's webhook, which may  *)
(* be delivered late, out of order and more than once.  Every request is   *)
(* one database transaction (app/db/base.py get_db: commit when the        *)
(* handler returns, roll back when it raises) at READ COMMITTED, with no   *)
(* row lock and no version column, so each handler is split here at its    *)
(* awaits: what it read is kept in its request record until it writes.     *)
(* The write of a handler and its commit are one step: the unique          *)
(* constraint and the row locks make a second writer wait for the first    *)
(* to commit, so nobody acts on the state in between.                      *)
(*                                                                         *)
(* One category is modelled.  voter_hash is abstracted to its author: a    *)
(* member of Voters (the deterministic hash of a voter) or, where          *)
(* allow_revoting salts it with a uuid4, the reference of the payment.     *)
(***************************************************************************)
EXTENDS Integers, FiniteSets

CONSTANTS
    Refs,            \* payment references (secrets.token_urlsafe, never reused)
    Voters,          \* deterministic voter hashes of the category
    Reqs,            \* slots for HTTP requests the server works on concurrently
    Prices,          \* vote_price values an organizer may set, in pesewas
    Amounts,         \* amount_pesewas values a buyer may send
    MaxUssdVotes,    \* MAX_USSD_VOTE_QUANTITY
    AllowRevoting,   \* Election.allow_revoting
    BuyerPaysFee,    \* fee_payer = "buyer"
    CommissionBps,   \* commission_rate_bps of the parent's plan
    DiscountPercent  \* discount_value of the percentage promo code on offer

Hashes == Voters \cup Refs
FreeVote == "free vote"   \* stands for the payment of a vote nobody paid for
NULL == 0                 \* vote_count of a row whose initiator left it unset

ASSUME ConstantsAssumption ==
    /\ Refs # {} /\ Voters \cap Refs = {}
    /\ FreeVote \notin Refs
    /\ Prices \subseteq Nat \ {0} /\ Amounts \subseteq Nat
    /\ MaxUssdVotes \in Nat /\ CommissionBps \in Nat
    /\ DiscountPercent \in 0..100
    /\ AllowRevoting \in BOOLEAN /\ BuyerPaysFee \in BOOLEAN

VARIABLES
    txn,        \* table transactions, one record per reference
    votes,      \* table votes: a set of rows
    redeemed,   \* promo_code_redemptions: how many rows each payment wrote
    charge,     \* pesewas the gateway was asked to charge for a reference
    collected,  \* pesewas it has collected
    events,     \* webhook events the gateway has emitted
    acked,      \* those of them answered with a 2xx at least once
    price,      \* the parent's current vote_price
    open,       \* is the parent active and inside its voting window?
    req         \* the requests in progress

vars == <<txn, votes, redeemed, charge, collected, events, acked,
          price, open, req>>
gateway == <<charge, collected, events>>
tables == <<txn, votes, redeemed>>

Statuses == {"none", "uncommitted", "pending", "success", "failed"}
Transaction == [status : Statuses, hash : Hashes, amount : Nat,
                vote_count : Nat, promo : BOOLEAN]
Vote == [hash : Hashes, ref : Refs \cup {FreeVote}, count : Nat]
EventKinds == {"charge.success", "charge.failed"}
Event == [ref : Refs, kind : EventKinds, amount : Nat]

(* Where a request is between two awaits.  "verify": verify-and-cast has   *)
(* seen an unused transaction.  "verified": and Paystack confirms it.      *)
(* "hook": the success webhook has seen an unused transaction.  "cast":    *)
(* and found the parent open.  "reject": it is about to write failed.      *)
Stages == {"idle", "verify", "verified", "hook", "cast", "reject"}
Request == [stage : Stages, ref : Refs, kind : {"verify"} \cup EventKinds,
            amount : Nat, count : Nat]

SomeRef == CHOOSE r \in Refs : TRUE
Idle == [stage |-> "idle", ref |-> SomeRef, kind |-> "verify", amount |-> 0, count |-> 0]
NoTransaction == [status |-> "none", hash |-> SomeRef, amount |-> 0,
                  vote_count |-> NULL, promo |-> FALSE]

TypeOK ==
    /\ txn \in [Refs -> Transaction]
    /\ votes \subseteq Vote
    /\ redeemed \in [Refs -> Nat]
    /\ charge \in [Refs -> Nat]
    /\ collected \in [Refs -> Nat]
    /\ events \subseteq Event
    /\ acked \subseteq events
    /\ price \in Prices
    /\ open \in BOOLEAN
    /\ req \in [Reqs -> Request]

Init ==
    /\ txn = [r \in Refs |-> NoTransaction]
    /\ votes = {}
    /\ redeemed = [r \in Refs |-> 0]
    /\ charge = [r \in Refs |-> 0]
    /\ collected = [r \in Refs |-> 0]
    /\ events = {} /\ acked = {}
    /\ price \in Prices
    /\ open = TRUE
    /\ req = [q \in Reqs |-> Idle]

-----------------------------------------------------------------------------
(* Pricing, in pesewas *)

AtLeastOne(n) == IF n < 1 THEN 1 ELSE n

\* ROUND_DOWN of a percentage discount, never below one pesewa.
discount_price(base, promo) ==
    IF promo THEN AtLeastOne((base * (100 - DiscountPercent)) \div 100) ELSE base

\* The commission, ROUND_HALF_UP, is put on top when the buyer pays it.
buyer_facing_vote_price_pesewas(base) ==
    IF BuyerPaysFee THEN base + (base * CommissionBps + 5000) \div 10000 ELSE base

UnitPrice(promo) == buyer_facing_vote_price_pesewas(discount_price(price, promo))

\* What the webhook takes a payment of amount to have bought.
votes_bought_by(amount) == AtLeastOne(amount \div price)

-----------------------------------------------------------------------------
(* Table access *)

known(r) == txn[r].status \in {"pending", "success", "failed"}
has_voted(h) == \E v \in votes : v.hash = h

\* Mutants: the unique constraint dropped, a missing db.add, the gateway's own
\* word for a lost payment stored as the status.
vote_insertable_twice(h) == TRUE
insert_vote_forgotten(h, r, n) == UNCHANGED votes
update_status_verbatim(r, s) ==
    txn' = [txn EXCEPT ![r].status = IF s = "failed" THEN "reversed" ELSE s]

\* uq_vote_per_category lets the insert of a row with this hash through.
vote_insertable(h) == ~has_voted(h)

insert_vote(h, r, n) == votes' = votes \cup {[hash |-> h, ref |-> r, count |-> n]}
update_status(r, s) == txn' = [txn EXCEPT ![r].status = s]

-----------------------------------------------------------------------------
(* Initiation *)

new_transaction(r, h, amount, count, promo, status) ==
    /\ charge[r] = 0 /\ txn[r].status = "none"
    /\ txn' = [txn EXCEPT ![r] = [status |-> status, hash |-> h, amount |-> amount,
                                  vote_count |-> count, promo |-> promo]]

\* The stored voter_hash: salted per payment when revoting is allowed.
hash_for(h, r) == IF AllowRevoting THEN r ELSE h

(* POST /voting/public/initiate-payment.  The charge is snapped down to a  *)
(* multiple of the buyer's unit price; Paystack refuses one of nothing,    *)
(* and the row is then rolled back.  The buyer can only pay once the       *)
(* response is out, so the row is committed before the charge can move.    *)
initiate_public_vote_payment(r, h, asked, promo) ==
    LET unit == UnitPrice(promo)
        count == IF AllowRevoting THEN asked \div unit ELSE 1
    IN  /\ open
        /\ AllowRevoting \/ ~has_voted(h)
        /\ count > 0
        /\ new_transaction(r, hash_for(h, r), count * unit, count, promo, "pending")
        /\ charge' = [charge EXCEPT ![r] = count * unit]
        /\ UNCHANGED <<votes, redeemed, collected, events, acked, price, open, req>>

(* The payment step of a WhatsApp or USSD conversation.  Whether the voter *)
(* may vote, the price quoted and the hash come from its session, written  *)
(* some steps ago; the row does not say how many votes it sells.  The      *)
(* customer has the payment link, or the prompt on the phone, before the   *)
(* row is committed.                                                       *)
start_conversation_payment(r, h, n, quoted) ==
    /\ new_transaction(r, h, quoted * n, NULL, FALSE, "uncommitted")
    /\ charge' = [charge EXCEPT ![r] = quoted * n]
    /\ UNCHANGED <<votes, redeemed, collected, events, acked, price, open, req>>

\* A confirmation sent twice: both requests find the same session, and both
\* payments carry the hash it holds.
session_hashes(h, r) ==
    {hash_for(h, r)} \cup {txn[s].hash : s \in {s \in Refs : txn[s].status = "uncommitted"}}

\* The gateway turns the charge down at once: the row is kept, as failed.  A
\* server error counts as that too, whatever the gateway has begun.
conversation_payment_rejected(r, h, n, quoted) ==
    /\ new_transaction(r, h, quoted * n, NULL, FALSE, "failed")
    /\ charge' \in {charge, [charge EXCEPT ![r] = quoted * n]}
    /\ UNCHANGED <<votes, redeemed, collected, events, acked, price, open, req>>

\* The conversation's request ends: get_db commits, or the process dies first.
commit_conversation_payment(r) ==
    /\ txn[r].status = "uncommitted"
    /\ update_status(r, "pending")
    /\ UNCHANGED <<votes, redeemed, gateway, acked, price, open, req>>

lose_conversation_payment(r) ==
    /\ txn[r].status = "uncommitted"
    /\ txn' = [txn EXCEPT ![r] = NoTransaction]
    /\ UNCHANGED <<votes, redeemed, gateway, acked, price, open, req>>

-----------------------------------------------------------------------------
(* The gateway, the organizer and the other voters *)

\* The customer pays what was asked or, at Paystack's popup, less.
CustomerPays(r, amount) ==
    /\ charge[r] > 0 /\ collected[r] = 0
    /\ amount > 0
    /\ amount < charge[r] => txn[r].vote_count # NULL
    /\ collected' = [collected EXCEPT ![r] = amount]
    /\ events' = events \cup {[ref |-> r, kind |-> "charge.success", amount |-> amount]}
    /\ UNCHANGED <<tables, charge, acked, price, open, req>>

\* An attempt fails or is abandoned; the same reference can still be paid.
AttemptFails(r) ==
    /\ charge[r] > 0 /\ collected[r] = 0
    /\ events' = events \cup {[ref |-> r, kind |-> "charge.failed", amount |-> 0]}
    /\ UNCHANGED <<tables, charge, collected, acked, price, open, req>>

\* The organizer edits vote_price.
set_vote_price(p) ==
    /\ price' = p
    /\ UNCHANGED <<tables, gateway, acked, open, req>>

\* The beat job (or the organizer) ends the election.
check_election_status ==
    /\ open
    /\ open' = FALSE
    /\ UNCHANGED <<tables, gateway, acked, price, req>>

\* Somebody casts a free vote under a deterministic hash.
cast_public_vote(h) ==
    /\ open
    /\ ~AllowRevoting
    /\ vote_insertable(h)
    /\ insert_vote(h, FreeVote, 1)
    /\ UNCHANGED <<txn, redeemed, gateway, acked, price, open, req>>

-----------------------------------------------------------------------------
(* POST /voting/public/verify-and-cast *)

begin_verify(q, r) ==
    /\ req[q].stage = "idle"
    /\ txn[r].status = "pending"
    /\ req' = [req EXCEPT ![q] = [Idle EXCEPT !.stage = "verify", !.ref = r]]
    /\ UNCHANGED <<tables, gateway, acked, price, open>>

\* The answer of Paystack.  On a refusal the handler writes failed and then
\* raises 402, so that get_db rolls the write back.
paid_at_all(r) == collected[r] > 0      \* mutant: the amount is not compared
paid_in_full(r) == collected[r] > 0 /\ collected[r] >= txn[r].amount

verify_transaction(q) ==
    LET r == req[q].ref
        n == IF txn[r].vote_count # NULL THEN txn[r].vote_count ELSE votes_bought_by(txn[r].amount)
    IN  /\ req[q].stage = "verify"
        /\ req' = [req EXCEPT ![q] = IF paid_in_full(r)
                                     THEN [@ EXCEPT !.stage = "verified", !.count = n]
                                     ELSE Idle]
        /\ UNCHANGED <<tables, gateway, acked, price, open>>

\* Insert, mark success, record the promo redemption; a duplicate raises 409.
verify_and_cast_public_vote(q) ==
    LET r == req[q].ref IN
    /\ req[q].stage = "verified"
    /\ IF vote_insertable(txn[r].hash)
       THEN /\ insert_vote(txn[r].hash, r, req[q].count)
            /\ update_status(r, "success")
            /\ redeemed' = [redeemed EXCEPT ![r] = @ + (IF txn[r].promo THEN 1 ELSE 0)]
       ELSE UNCHANGED tables
    /\ req' = [req EXCEPT ![q] = Idle]
    /\ UNCHANGED <<gateway, acked, price, open>>

-----------------------------------------------------------------------------
(* POST /payments/webhook and /payments/junipay/webhook *)

answer_ok(e) == acked' = acked \cup {e}
event_of(q) == [ref |-> req[q].ref, kind |-> req[q].kind, amount |-> req[q].amount]

\* Unknown reference, or a status the handler has nothing to do for.
webhook_ignored(e) ==
    /\ e \in events
    /\ \/ ~known(e.ref)
       \/ e.kind = "charge.success" /\ txn[e.ref].status = "success"
       \/ e.kind = "charge.failed" /\ txn[e.ref].status # "pending"
    /\ answer_ok(e)
    /\ UNCHANGED <<tables, gateway, price, open, req>>

\* _handle_charge_success up to its read of the parent: a short payment is
\* about to be marked failed, anything else goes on.
begin_charge_success(q, e) ==
    /\ req[q].stage = "idle"
    /\ e \in events /\ e.kind = "charge.success"
    /\ known(e.ref) /\ txn[e.ref].status # "success"
    /\ req' = [req EXCEPT ![q] =
                  [stage |-> IF e.amount < txn[e.ref].amount THEN "reject" ELSE "hook",
                   ref |-> e.ref, kind |-> e.kind, amount |-> e.amount, count |-> 0]]
    /\ UNCHANGED <<tables, gateway, acked, price, open>>

\* The parent is read: closed, or open at the vote_price of this moment.
read_parent(q) ==
    /\ req[q].stage = "hook"
    /\ req' = [req EXCEPT ![q].stage = IF open THEN "cast" ELSE "reject",
                          ![q].count = votes_bought_by(txn[req[q].ref].amount)]
    /\ UNCHANGED <<tables, gateway, acked, price, open>>

\* Insert and mark success.  A duplicate is caught and logged, but the failed
\* flush has deactivated the session: the next statement raises, the request
\* is answered 500 and the gateway will deliver the event again.
handle_charge_success(q) ==
    LET r == req[q].ref IN
    /\ req[q].stage = "cast"
    /\ IF vote_insertable(txn[r].hash)
       THEN /\ insert_vote(txn[r].hash, r, req[q].count)
            /\ update_status(r, "success")
            /\ answer_ok(event_of(q))
       ELSE UNCHANGED <<txn, votes, acked>>
    /\ req' = [req EXCEPT ![q] = Idle]
    /\ UNCHANGED <<redeemed, gateway, price, open>>

begin_charge_failed(q, e) ==
    /\ req[q].stage = "idle"
    /\ e \in events /\ e.kind = "charge.failed"
    /\ txn[e.ref].status = "pending"
    /\ req' = [req EXCEPT ![q] = [stage |-> "reject", ref |-> e.ref, kind |-> e.kind,
                                  amount |-> e.amount, count |-> 0]]
    /\ UNCHANGED <<tables, gateway, acked, price, open>>

\* update_status(reference, "failed"): whatever the row has become meanwhile.
mark_failed(q) ==
    /\ req[q].stage = "reject"
    /\ update_status(req[q].ref, "failed")
    /\ answer_ok(event_of(q))
    /\ req' = [req EXCEPT ![q] = Idle]
    /\ UNCHANGED <<votes, redeemed, gateway, price, open>>

\* Mutant: the webhook is answered before its work is committed.
answer_then_die(q) ==
    /\ req[q].stage # "idle"
    /\ IF req[q].kind = "verify" THEN UNCHANGED acked ELSE answer_ok(event_of(q))
    /\ req' = [req EXCEPT ![q] = Idle]
    /\ UNCHANGED <<tables, gateway, price, open>>

\* A request dies before its commit: nothing is written, nothing answered.
RequestDies(q) ==
    /\ req[q].stage # "idle"
    /\ req' = [req EXCEPT ![q] = Idle]
    /\ UNCHANGED <<tables, gateway, acked, price, open>>

-----------------------------------------------------------------------------
Initiate ==
    \/ \E r \in Refs, h \in Voters, a \in Amounts, promo \in BOOLEAN :
          initiate_public_vote_payment(r, h, a, promo)
    \/ \E r \in Refs, v \in Voters, n \in 1..MaxUssdVotes, p \in Prices :
          \E h \in session_hashes(v, r) : \/ start_conversation_payment(r, h, n, p)
                                         \/ conversation_payment_rejected(r, h, n, p)
    \/ \E r \in Refs : commit_conversation_payment(r) \/ lose_conversation_payment(r)

Environment ==
    \/ \E r \in Refs : \E amount \in {charge[r], charge[r] - 1} : CustomerPays(r, amount)
    \/ \E r \in Refs : AttemptFails(r)
    \/ \E p \in Prices : set_vote_price(p)
    \/ check_election_status
    \/ \E h \in Voters : cast_public_vote(h)

Verify ==
    \/ \E q \in Reqs, r \in Refs : begin_verify(q, r)
    \/ \E q \in Reqs : verify_transaction(q) \/ verify_and_cast_public_vote(q)

Webhook ==
    \/ \E e \in events : webhook_ignored(e)
    \/ \E q \in Reqs, e \in events : begin_charge_success(q, e) \/ begin_charge_failed(q, e)
    \/ \E q \in Reqs : read_parent(q) \/ handle_charge_success(q) \/ mark_failed(q)

Next == Initiate \/ Environment \/ Verify \/ Webhook \/ \E q \in Reqs : RequestDies(q)

Spec == Init /\ [][Next]_vars

\* The server finishes the requests it has begun, and the gateway delivers a
\* webhook again and again until it is answered with a 2xx.
Settling ==
    /\ \A q \in Reqs : /\ WF_vars(verify_transaction(q)) /\ WF_vars(verify_and_cast_public_vote(q))
                      /\ SF_vars(read_parent(q)) /\ SF_vars(handle_charge_success(q))
                      /\ SF_vars(mark_failed(q))
    /\ \A r \in Refs : SF_vars(\E e \in events \ acked : /\ e.ref = r /\ e.kind = "charge.success"
                              /\ \/ webhook_ignored(e)
                                 \/ \E q \in Reqs : begin_charge_success(q, e))
FairSpec == Spec /\ Settling

-----------------------------------------------------------------------------
(* Properties *)

bought(r) == {v \in votes : v.ref = r}

\* However often a payment is verified and its webhook delivered, at once or
\* one after the other, it puts at most one row into votes.
OneVotePerPayment == \A r \in Refs : \A v, w \in bought(r) : v = w

\* Without revoting, the free votes, the paid ones and the double payments of
\* one voter leave at most one row in the category.
OneVotePerVoter ==
    ~AllowRevoting => \A v, w \in votes : v.hash = w.hash => v = w

\* No vote is cast for a payment the gateway has not collected in full.
VotesArePaidFor ==
    \A v \in votes : v.ref \in Refs => collected[v.ref] > 0 /\ collected[v.ref] >= txn[v.ref].amount

\* A transaction the revenue reports count as success has its vote.
SuccessHasItsVote == \A r \in Refs : txn[r].status = "success" => bought(r) # {}

\* The promo ledger has at most one row per payment, and only for a payment
\* with a promo code whose vote was cast.
RedeemedOncePerVote ==
    \A r \in Refs : redeemed[r] > 0 => redeemed[r] = 1 /\ txn[r].promo /\ bought(r) # {}

\* A payment collected once its row is committed is settled in the end: it
\* succeeds, or fails where support can find it, or another vote of the same
\* voter stands where its own would.
Settled(r) ==
    \/ txn[r].status \in {"success", "failed"}
    \/ \E v \in votes : v.hash = txn[r].hash /\ v.ref # r
PaymentsSettle ==
    \A r \in Refs :
        [](txn[r].status = "pending" /\ collected[r] = 0 => [](collected[r] > 0 => <>Settled(r)))

\* Whatever the gateway has collected is settled by its own vote or failure.
CollectedIsSettled ==
    \A r \in Refs : collected[r] > 0 ~> txn[r].status \in {"success", "failed"}

\* A counted payment stays counted: only a pending one is marked failed.
OnlyPendingFails ==
    [][\A r \in Refs : txn[r].status = "success" => txn'[r].status = "success"]_vars

\* The votes cast are those decided at initiation.
CountDecidedAtInitiation ==
    \A v \in votes : v.ref \in Refs /\ txn[v.ref].vote_count # NULL => v.count = txn[v.ref].vote_count

\* Every successful use of a promo code is in the ledger.
EveryUseIsRecorded ==
    \A r \in Refs : txn[r].status = "success" /\ txn[r].promo => redeemed[r] = 1

\* Once the election has ended its tallies are final.
TalliesAreFinal == [][~open => votes' = votes]_vars
=============================================================================
