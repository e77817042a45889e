------------------------ MODULE VotePaymentsProofs ------------------------
(***************************************************************************)
(* Proofs about VotePayments, for any number of payments, voters, requests *)
(* and prices.  The safety properties are not inductive: what a request    *)
(* has read and will act on after its await has to be true of the tables   *)
(* still, which is what RequestsAreInformed says.                          *)
(***************************************************************************)
EXTENDS VotePayments, TLAPS

(***************************************************************************)
(* The inductive invariant                                                 *)
(***************************************************************************)

\* The unique constraint: a voter hash has one row.
HashesAreUnique == \A v, w \in votes : v.hash = w.hash => v = w

\* A row bought by a payment carries the hash of the payment, which has been
\* through success (a late failure may have overwritten it).
RowsMatchPayments ==
    \A v \in votes : v.ref \in Refs => /\ v.hash = txn[v.ref].hash
                                       /\ txn[v.ref].status \in {"success", "failed"}

\* The gateway tells the truth about what it has collected.
EventsAreTrue ==
    \A e \in events : e.kind = "charge.success" => e.amount > 0 /\ collected[e.ref] = e.amount

RedeemedWithItsVote ==
    \A r \in Refs : redeemed[r] > 0 => /\ redeemed[r] = 1 /\ txn[r].promo
                                       /\ \E v \in votes : v.ref = r

\* What a request read before an await and uses after it still holds.
Informed(q) ==
    /\ req[q].stage # "idle" => known(req[q].ref)
    /\ req[q].stage = "verified" => paid_in_full(req[q].ref)
    /\ req[q].stage \in {"hook", "cast"} =>
          /\ req[q].kind = "charge.success" /\ event_of(q) \in events
          /\ req[q].amount >= txn[req[q].ref].amount
    /\ req[q].stage = "reject" => event_of(q) \in events
RequestsAreInformed == \A q \in Reqs : Informed(q)

TablesInv == /\ HashesAreUnique /\ RowsMatchPayments /\ VotesArePaidFor
             /\ SuccessHasItsVote /\ EventsAreTrue /\ RedeemedWithItsVote
Inv == TablesInv /\ RequestsAreInformed

-----------------------------------------------------------------------------
(* Prices are counted in whole pesewas. *)

\* Dividing a sum of pesewas by a price gives a number of votes.
LEMMA Quotient == ASSUME NEW a \in Nat, NEW b \in Nat \ {0} PROVE a \div b \in Nat
  OBVIOUS

\* The product of two counts is a count.
LEMMA Product == ASSUME NEW a \in Nat, NEW b \in Nat PROVE a * b \in Nat
  OBVIOUS

\* A discounted price is a whole number of pesewas and never nothing.
LEMMA DiscountedPrice ==
  ASSUME NEW base \in Nat \ {0}, NEW promo \in BOOLEAN
  PROVE  discount_price(base, promo) \in Nat \ {0}
<1>1. 100 - DiscountPercent \in Nat
  BY ConstantsAssumption
<1>2. base * (100 - DiscountPercent) \in Nat
  BY <1>1, Product
<1>3. (base * (100 - DiscountPercent)) \div 100 \in Nat
  BY <1>2, Quotient
<1>4. QED
  BY <1>3 DEF discount_price, AtLeastOne

\* The buyer's price is positive, so that an amount can be divided by it.
LEMMA PositivePrice ==
  ASSUME price \in Prices, NEW promo \in BOOLEAN
  PROVE  UnitPrice(promo) \in Nat \ {0}
<1> DEFINE base == discount_price(price, promo)
<1>1. base \in Nat \ {0}
  BY ConstantsAssumption, DiscountedPrice
<1>2. base * CommissionBps \in Nat
  BY <1>1, ConstantsAssumption, Product
<1>3. (base * CommissionBps + 5000) \div 10000 \in Nat
  BY <1>2, Quotient
<1> HIDE DEF base
<1>4. buyer_facing_vote_price_pesewas(base) \in Nat \ {0}
  BY <1>1, <1>3 DEF buyer_facing_vote_price_pesewas
<1>5. QED
  BY <1>4 DEF UnitPrice, base

\* The webhook always finds at least one vote to cast.
LEMMA VotesBought ==
  ASSUME price \in Prices, NEW amount \in Nat
  PROVE  votes_bought_by(amount) \in Nat
<1>1. amount \div price \in Nat
  BY ConstantsAssumption, Quotient
<1>2. QED
  BY <1>1 DEF votes_bought_by, AtLeastOne
-----------------------------------------------------------------------------
(* Type correctness *)

LEMMA IdleType == Idle \in Request /\ NoTransaction \in Transaction
  BY ConstantsAssumption DEF Idle, NoTransaction, SomeRef, Request, Transaction, Stages,
     Statuses, Hashes, NULL

LEMMA InitType == Init => TypeOK
<1> SUFFICES ASSUME Init PROVE TypeOK
  OBVIOUS
<1>1. txn \in [Refs -> Transaction] /\ req \in [Reqs -> Request]
  BY IdleType DEF Init
<1>2. QED
  BY <1>1 DEF Init, TypeOK

\* A new row has its columns filled with values of their types.
LEMMA NewTransactionType ==
  ASSUME TypeOK, NEW r \in Refs, NEW h \in Hashes, NEW amount \in Nat, NEW count \in Nat,
         NEW promo \in BOOLEAN, NEW status \in Statuses,
         new_transaction(r, h, amount, count, promo, status)
  PROVE  txn' \in [Refs -> Transaction]
<1>1. [status |-> status, hash |-> h, amount |-> amount, vote_count |-> count,
       promo |-> promo] \in Transaction
  BY DEF Transaction
<1>2. QED
  BY <1>1 DEF new_transaction, TypeOK

LEMMA UpdateStatusType ==
  ASSUME TypeOK, NEW r \in Refs, NEW s \in Statuses, update_status(r, s)
  PROVE  txn' \in [Refs -> Transaction]
  BY DEF update_status, TypeOK, Transaction

LEMMA InsertVoteType ==
  ASSUME TypeOK, NEW h \in Hashes, NEW r \in Refs \cup {FreeVote}, NEW n \in Nat,
         insert_vote(h, r, n)
  PROVE  votes' \subseteq Vote
  BY DEF insert_vote, TypeOK, Vote

LEMMA SessionHashes ==
  ASSUME TypeOK, NEW v \in Voters, NEW r \in Refs
  PROVE  hash_for(v, r) \in Hashes /\ session_hashes(v, r) \subseteq Hashes
  BY DEF hash_for, session_hashes, Hashes, TypeOK, Transaction

LEMMA InitiateType == TypeOK /\ Initiate => TypeOK'
<1> SUFFICES ASSUME TypeOK, Initiate PROVE TypeOK'
  OBVIOUS
<1>1. ASSUME NEW r \in Refs, NEW h \in Voters, NEW a \in Amounts, NEW promo \in BOOLEAN,
             initiate_public_vote_payment(r, h, a, promo)
      PROVE  TypeOK'
  <2> DEFINE unit == UnitPrice(promo)
             count == IF AllowRevoting THEN a \div unit ELSE 1
  <2>1. unit \in Nat \ {0}
    BY PositivePrice DEF TypeOK
  <2>2. count \in Nat
    BY <2>1, Quotient, ConstantsAssumption
  <2>3. count * unit \in Nat
    BY <2>1, <2>2, Product
  <2>4. /\ new_transaction(r, hash_for(h, r), count * unit, count, promo, "pending")
        /\ charge' = [charge EXCEPT ![r] = count * unit]
        /\ UNCHANGED <<votes, redeemed, collected, events, acked, price, open, req>>
    BY <1>1 DEF initiate_public_vote_payment
  <2> HIDE DEF unit, count
  <2>5. txn' \in [Refs -> Transaction]
    BY <2>2, <2>3, <2>4, NewTransactionType, SessionHashes DEF Statuses
  <2>6. QED
    BY <2>3, <2>4, <2>5 DEF TypeOK
<1>2. ASSUME NEW r \in Refs, NEW v \in Voters, NEW n \in 1..MaxUssdVotes, NEW p \in Prices,
             NEW h \in session_hashes(v, r),
             start_conversation_payment(r, h, n, p) \/ conversation_payment_rejected(r, h, n, p)
      PROVE  TypeOK'
  <2>1. p * n \in Nat /\ h \in Hashes /\ NULL \in Nat
    BY ConstantsAssumption, Product, SessionHashes DEF NULL
  <2>2. CASE start_conversation_payment(r, h, n, p)
    <3>1. txn' \in [Refs -> Transaction]
      BY <2>1, <2>2, NewTransactionType DEF start_conversation_payment, Statuses
    <3>2. QED
      BY <2>1, <2>2, <3>1 DEF start_conversation_payment, TypeOK
  <2>3. CASE conversation_payment_rejected(r, h, n, p)
    <3>1. txn' \in [Refs -> Transaction]
      BY <2>1, <2>3, NewTransactionType DEF conversation_payment_rejected, Statuses
    <3>2. QED
      BY <2>1, <2>3, <3>1 DEF conversation_payment_rejected, TypeOK
  <2>4. QED
    BY <1>2, <2>2, <2>3
<1>3. ASSUME NEW r \in Refs, commit_conversation_payment(r) PROVE TypeOK'
  BY <1>3, UpdateStatusType DEF commit_conversation_payment, TypeOK, Statuses, gateway
<1>4. ASSUME NEW r \in Refs, lose_conversation_payment(r) PROVE TypeOK'
  BY <1>4, IdleType DEF lose_conversation_payment, TypeOK, gateway
<1>5. QED
  BY <1>1, <1>2, <1>3, <1>4 DEF Initiate

LEMMA EnvironmentType == TypeOK /\ Environment => TypeOK'
<1> SUFFICES ASSUME TypeOK, Environment PROVE TypeOK'
  OBVIOUS
<1>1. ASSUME NEW r \in Refs, NEW amount \in {charge[r], charge[r] - 1}, CustomerPays(r, amount)
      PROVE  TypeOK'
  <2>1. amount \in Nat
    BY <1>1 DEF CustomerPays, TypeOK
  <2>2. [ref |-> r, kind |-> "charge.success", amount |-> amount] \in Event
    BY <2>1 DEF Event, EventKinds
  <2>3. QED
    BY <1>1, <2>1, <2>2 DEF CustomerPays, TypeOK, tables
<1>2. ASSUME NEW r \in Refs, AttemptFails(r) PROVE TypeOK'
  <2>1. [ref |-> r, kind |-> "charge.failed", amount |-> 0] \in Event
    BY DEF Event, EventKinds
  <2>2. QED
    BY <1>2, <2>1 DEF AttemptFails, TypeOK, tables
<1>3. ASSUME NEW p \in Prices, set_vote_price(p) PROVE TypeOK'
  BY <1>3 DEF set_vote_price, TypeOK, tables, gateway
<1>4. CASE check_election_status
  BY <1>4 DEF check_election_status, TypeOK, tables, gateway
<1>5. ASSUME NEW h \in Voters, cast_public_vote(h) PROVE TypeOK'
  <2>1. votes' \subseteq Vote
    BY <1>5, InsertVoteType DEF cast_public_vote, Hashes
  <2>2. QED
    BY <1>5, <2>1 DEF cast_public_vote, TypeOK, gateway
<1>6. QED
  BY <1>1, <1>2, <1>3, <1>4, <1>5 DEF Environment

LEMMA VerifyType == TypeOK /\ Verify => TypeOK'
<1> SUFFICES ASSUME TypeOK, Verify PROVE TypeOK'
  OBVIOUS
<1>1. ASSUME NEW q \in Reqs, NEW r \in Refs, begin_verify(q, r) PROVE TypeOK'
  <2>1. [Idle EXCEPT !.stage = "verify", !.ref = r] \in Request
    BY IdleType DEF Request, Stages
  <2>2. QED
    BY <1>1, <2>1 DEF begin_verify, TypeOK, tables, gateway
<1>2. ASSUME NEW q \in Reqs, verify_transaction(q) PROVE TypeOK'
  <2> DEFINE r == req[q].ref
             n == IF txn[r].vote_count # NULL THEN txn[r].vote_count
                                              ELSE votes_bought_by(txn[r].amount)
  <2>1. r \in Refs /\ txn[r] \in Transaction
    BY DEF TypeOK, Request
  <2>2. n \in Nat
    BY <2>1, VotesBought DEF Transaction, TypeOK
  <2>3. req' = [req EXCEPT ![q] = IF paid_in_full(r)
                                  THEN [req[q] EXCEPT !.stage = "verified", !.count = n]
                                  ELSE Idle]
    BY <1>2 DEF verify_transaction, TypeOK
  <2> HIDE DEF n, r
  <2>4. [req[q] EXCEPT !.stage = "verified", !.count = n] \in Request
    BY <2>2 DEF TypeOK, Request, Stages
  <2>5. QED
    BY <1>2, <2>3, <2>4, IdleType DEF verify_transaction, TypeOK, tables, gateway
<1>3. ASSUME NEW q \in Reqs, verify_and_cast_public_vote(q) PROVE TypeOK'
  <2> DEFINE r == req[q].ref
  <2>1. r \in Refs /\ txn[r].hash \in Hashes /\ req[q].count \in Nat
    BY DEF TypeOK, Request, Transaction
  <2>2. req' \in [Reqs -> Request]
    BY <1>3, IdleType DEF verify_and_cast_public_vote, TypeOK
  <2>3. txn' \in [Refs -> Transaction] /\ votes' \subseteq Vote
    BY <1>3, <2>1, InsertVoteType, UpdateStatusType
    DEF verify_and_cast_public_vote, TypeOK, tables, Statuses
  <2>4. redeemed' \in [Refs -> Nat]
    BY <1>3, <2>1 DEF verify_and_cast_public_vote, TypeOK, tables
  <2>5. QED
    BY <1>3, <2>2, <2>3, <2>4 DEF verify_and_cast_public_vote, TypeOK, gateway
<1>4. QED
  BY <1>1, <1>2, <1>3 DEF Verify

\* What a request answers was put to it by the gateway.
LEMMA WebhookType == TypeOK /\ RequestsAreInformed /\ Webhook => TypeOK'
<1> SUFFICES ASSUME TypeOK, RequestsAreInformed, Webhook PROVE TypeOK'
  OBVIOUS
<1>1. ASSUME NEW e \in events, webhook_ignored(e) PROVE TypeOK'
  BY <1>1 DEF webhook_ignored, answer_ok, TypeOK, tables, gateway
<1>2. ASSUME NEW q \in Reqs, NEW e \in events, begin_charge_success(q, e) PROVE TypeOK'
  <2> DEFINE s == [stage |-> IF e.amount < txn[e.ref].amount THEN "reject" ELSE "hook",
                   ref |-> e.ref, kind |-> e.kind, amount |-> e.amount, count |-> 0]
  <2>1. s \in Request
    BY DEF TypeOK, Event, Request, Stages
  <2>2. QED
    BY <1>2, <2>1 DEF begin_charge_success, TypeOK, tables, gateway
<1>3. ASSUME NEW q \in Reqs, NEW e \in events, begin_charge_failed(q, e) PROVE TypeOK'
  <2> DEFINE s == [stage |-> "reject", ref |-> e.ref, kind |-> e.kind,
                   amount |-> e.amount, count |-> 0]
  <2>1. s \in Request
    BY DEF TypeOK, Event, Request, Stages
  <2>2. QED
    BY <1>3, <2>1 DEF begin_charge_failed, TypeOK, tables, gateway
<1>4. ASSUME NEW q \in Reqs, read_parent(q) PROVE TypeOK'
  <2> DEFINE n == votes_bought_by(txn[req[q].ref].amount)
  <2>1. n \in Nat
    BY VotesBought DEF TypeOK, Request, Transaction
  <2>2. req' = [req EXCEPT ![q] = [req[q] EXCEPT !.stage = IF open THEN "cast" ELSE "reject",
                                                  !.count = n]]
    BY <1>4 DEF read_parent, TypeOK
  <2> HIDE DEF n
  <2>3. req' \in [Reqs -> Request]
    BY <2>1, <2>2 DEF TypeOK, Request, Stages
  <2>4. QED
    BY <1>4, <2>3 DEF read_parent, TypeOK, tables, gateway
<1>5. ASSUME NEW q \in Reqs, handle_charge_success(q) PROVE TypeOK'
  <2>1. req[q].ref \in Refs /\ txn[req[q].ref].hash \in Hashes /\ req[q].count \in Nat
    BY DEF TypeOK, Request, Transaction
  <2>2. req' \in [Reqs -> Request]
    BY <1>5, IdleType DEF handle_charge_success, TypeOK
  <2>3. txn' \in [Refs -> Transaction] /\ votes' \subseteq Vote
    BY <1>5, <2>1, InsertVoteType, UpdateStatusType
    DEF handle_charge_success, TypeOK, Statuses
  <2>4. acked' \subseteq events'
    BY <1>5 DEF handle_charge_success, RequestsAreInformed, Informed, answer_ok, TypeOK, gateway
  <2>5. QED
    BY <1>5, <2>2, <2>3, <2>4 DEF handle_charge_success, TypeOK, gateway
<1>6. ASSUME NEW q \in Reqs, mark_failed(q) PROVE TypeOK'
  <2>1. req[q].ref \in Refs /\ req' \in [Reqs -> Request]
    BY <1>6, IdleType DEF mark_failed, TypeOK, Request
  <2>2. txn' \in [Refs -> Transaction]
    BY <1>6, <2>1, UpdateStatusType DEF mark_failed, Statuses
  <2>3. acked' \subseteq events'
    BY <1>6 DEF mark_failed, RequestsAreInformed, Informed, answer_ok, TypeOK, gateway
  <2>4. QED
    BY <1>6, <2>1, <2>2, <2>3 DEF mark_failed, TypeOK, gateway
<1>7. QED
  BY <1>1, <1>2, <1>3, <1>4, <1>5, <1>6 DEF Webhook

LEMMA NextType == TypeOK /\ RequestsAreInformed /\ [Next]_vars => TypeOK'
<1> SUFFICES ASSUME TypeOK, RequestsAreInformed, [Next]_vars PROVE TypeOK'
  OBVIOUS
<1>1. ASSUME NEW q \in Reqs, RequestDies(q) PROVE TypeOK'
  BY <1>1, IdleType DEF RequestDies, TypeOK, tables, gateway
<1>2. CASE UNCHANGED vars
  BY <1>2 DEF vars, TypeOK
<1>3. QED
  BY <1>1, <1>2, InitiateType, EnvironmentType, VerifyType, WebhookType DEF Next
-----------------------------------------------------------------------------
(* What no step undoes: knowledge of a request survives the other requests *)

\* A request that a step leaves alone, or ends, stays informed as long as rows
\* stay, amounts do not change and what was collected is not given back.
LEMMA StaysInformed ==
  ASSUME TypeOK, RequestsAreInformed,
         \A q \in Reqs : req'[q] = req[q] \/ req'[q] = Idle,
         events \subseteq events',
         \A r \in Refs : known(r) => known(r)' /\ txn'[r].amount = txn[r].amount,
         \A r \in Refs : collected[r] > 0 => collected'[r] = collected[r]
  PROVE  RequestsAreInformed'
<1> SUFFICES ASSUME NEW q \in Reqs PROVE Informed(q)'
  BY DEF RequestsAreInformed
<1>1. CASE req'[q] = Idle
  BY <1>1 DEF Informed, Idle
<1>2. CASE req'[q] = req[q]
  <2>1. Informed(q) /\ req[q].ref \in Refs
    BY DEF RequestsAreInformed, TypeOK, Request
  <2>2. event_of(q)' = event_of(q)
    BY <1>2 DEF event_of
  <2>3. paid_in_full(req[q].ref) /\ known(req[q].ref) => paid_in_full(req[q].ref)'
    BY <2>1, <1>2 DEF paid_in_full
  <2>4. QED
    BY <1>2, <2>1, <2>2, <2>3 DEF Informed, paid_in_full
<1>3. QED
  BY <1>1, <1>2

\* A step that writes no table and hears nothing new from the gateway.
LEMMA ReadOnly ==
  ASSUME TablesInv, UNCHANGED tables, UNCHANGED <<collected, events>>
  PROVE  TablesInv'
  BY DEF TablesInv, tables, HashesAreUnique, RowsMatchPayments, VotesArePaidFor,
     SuccessHasItsVote, EventsAreTrue, RedeemedWithItsVote, bought

LEMMA InitInv == Init => Inv
  BY DEF Init, Inv, TablesInv, HashesAreUnique, RowsMatchPayments, VotesArePaidFor,
     SuccessHasItsVote, EventsAreTrue, RedeemedWithItsVote, RequestsAreInformed, Informed,
     NoTransaction, Idle, bought

\* A row that is not known to anybody is replaced by one not yet settled.
LEMMA UnsettledRow ==
  ASSUME TypeOK, Inv, NEW r \in Refs, ~known(r),
         NEW row \in Transaction, row.status \in Statuses \ {"success"},
         txn' = [txn EXCEPT ![r] = row],
         UNCHANGED <<votes, redeemed, collected, events, req>>
  PROVE  Inv'
<1>1. \A v \in votes : v.ref # r
  BY DEF Inv, TablesInv, RowsMatchPayments, known
<1>2. \A s \in Refs \ {r} : txn'[s] = txn[s]
  BY DEF TypeOK
<1>3. txn'[r] = row
  BY DEF TypeOK
<1>4. HashesAreUnique' /\ EventsAreTrue'
  BY DEF Inv, TablesInv, HashesAreUnique, EventsAreTrue
<1>5. RowsMatchPayments' /\ VotesArePaidFor'
  BY <1>1, <1>2 DEF Inv, TablesInv, RowsMatchPayments, VotesArePaidFor
<1>6. SuccessHasItsVote'
  BY <1>2, <1>3 DEF Inv, TablesInv, SuccessHasItsVote, bought
<1>7. RedeemedWithItsVote'
  BY <1>1, <1>2 DEF Inv, TablesInv, RedeemedWithItsVote
<1>8. RequestsAreInformed'
  BY <1>2, StaysInformed DEF Inv, known
<1>9. QED
  BY <1>4, <1>5, <1>6, <1>7, <1>8 DEF Inv, TablesInv

LEMMA InitiateInv == TypeOK /\ Inv /\ Initiate => Inv'
<1> SUFFICES ASSUME TypeOK, Inv, Initiate PROVE Inv'
  OBVIOUS
<1>0. TypeOK'
  BY InitiateType
<1>1. ASSUME NEW r \in Refs, NEW h, NEW amount, NEW count, NEW promo,
             NEW status \in {"pending", "uncommitted", "failed"},
             new_transaction(r, h, amount, count, promo, status),
             UNCHANGED <<votes, redeemed, collected, events, req>>
      PROVE  Inv'
  <2> DEFINE row == [status |-> status, hash |-> h, amount |-> amount, vote_count |-> count,
                     promo |-> promo]
  <2>1. ~known(r) /\ txn' = [txn EXCEPT ![r] = row]
    BY <1>1 DEF new_transaction, known
  <2>2. row \in Transaction
    <3>1. txn'[r] = row
      BY <2>1 DEF TypeOK
    <3>2. QED
      BY <3>1, <1>0 DEF TypeOK
  <2>3. row.status \in Statuses \ {"success"}
    BY DEF Statuses
  <2> HIDE DEF row
  <2>4. QED
    BY <1>1, <2>1, <2>2, <2>3, UnsettledRow
<1>2. ASSUME NEW r \in Refs, NEW h \in Voters, NEW a \in Amounts, NEW promo \in BOOLEAN,
             initiate_public_vote_payment(r, h, a, promo)
      PROVE  Inv'
  <2> DEFINE unit == UnitPrice(promo)
             count == IF AllowRevoting THEN a \div unit ELSE 1
  <2>1. /\ new_transaction(r, hash_for(h, r), count * unit, count, promo, "pending")
        /\ UNCHANGED <<votes, redeemed, collected, events, req>>
    BY <1>2 DEF initiate_public_vote_payment
  <2> HIDE DEF unit, count
  <2>2. QED
    BY <2>1, <1>1
<1>3. ASSUME NEW r \in Refs, NEW h, NEW n, NEW p,
             start_conversation_payment(r, h, n, p) \/ conversation_payment_rejected(r, h, n, p)
      PROVE  Inv'
  <2>1. /\ \/ new_transaction(r, h, p * n, NULL, FALSE, "uncommitted")
           \/ new_transaction(r, h, p * n, NULL, FALSE, "failed")
        /\ UNCHANGED <<votes, redeemed, collected, events, req>>
    BY <1>3 DEF start_conversation_payment, conversation_payment_rejected
  <2>2. QED
    BY <2>1, <1>1
<1>4. ASSUME NEW r \in Refs, commit_conversation_payment(r) PROVE Inv'
  <2> DEFINE row == [txn[r] EXCEPT !.status = "pending"]
  <2>1. row \in Transaction /\ row.status \in Statuses \ {"success"} /\ ~known(r)
    BY <1>4 DEF commit_conversation_payment, TypeOK, Transaction, Statuses, known
  <2>2. txn' = [txn EXCEPT ![r] = row]
    BY <1>4 DEF commit_conversation_payment, update_status, TypeOK
  <2> HIDE DEF row
  <2>3. QED
    BY <1>4, <2>1, <2>2, UnsettledRow DEF commit_conversation_payment, gateway
<1>5. ASSUME NEW r \in Refs, lose_conversation_payment(r) PROVE Inv'
  <2>1. NoTransaction.status \in Statuses \ {"success"} /\ ~known(r)
    BY <1>5 DEF lose_conversation_payment, NoTransaction, Statuses, known
  <2>2. QED
    BY <1>5, <2>1, IdleType, UnsettledRow DEF lose_conversation_payment, gateway
<1>6. QED
  BY <1>2, <1>3, <1>4, <1>5 DEF Initiate

LEMMA EnvironmentInv == TypeOK /\ Inv /\ Environment => Inv'
<1> SUFFICES ASSUME TypeOK, Inv, Environment PROVE Inv'
  OBVIOUS
<1>1. ASSUME NEW r \in Refs, NEW amount \in {charge[r], charge[r] - 1}, CustomerPays(r, amount)
      PROVE  Inv'
  <2>1. /\ amount \in Nat /\ amount > 0 /\ collected[r] = 0 /\ UNCHANGED tables /\ UNCHANGED req
        /\ collected' = [collected EXCEPT ![r] = amount]
        /\ events' = events \cup {[ref |-> r, kind |-> "charge.success", amount |-> amount]}
    BY <1>1 DEF CustomerPays, TypeOK
  <2>2. \A s \in Refs : collected[s] > 0 => s # r /\ collected'[s] = collected[s]
    BY <2>1 DEF TypeOK
  <2>3. VotesArePaidFor'
    BY <2>1, <2>2 DEF Inv, TablesInv, VotesArePaidFor, tables
  <2>4. EventsAreTrue'
    <3>1. \A e \in events : e.kind = "charge.success" => collected'[e.ref] = e.amount /\ e.amount > 0
      BY <2>2 DEF Inv, TablesInv, EventsAreTrue, TypeOK, Event
    <3>2. collected'[r] = amount
      BY <2>1 DEF TypeOK
    <3>3. QED
      BY <2>1, <3>1, <3>2 DEF EventsAreTrue
  <2>5. HashesAreUnique' /\ RowsMatchPayments' /\ SuccessHasItsVote' /\ RedeemedWithItsVote'
    BY <2>1 DEF Inv, TablesInv, HashesAreUnique, RowsMatchPayments, SuccessHasItsVote,
       RedeemedWithItsVote, bought, tables
  <2>6. RequestsAreInformed'
    BY <2>1, <2>2, StaysInformed DEF Inv, tables, known
  <2>7. QED
    BY <2>3, <2>4, <2>5, <2>6 DEF Inv, TablesInv
<1>2. ASSUME NEW r \in Refs, AttemptFails(r) PROVE Inv'
  <2>1. /\ UNCHANGED tables /\ UNCHANGED req /\ UNCHANGED collected
        /\ events' = events \cup {[ref |-> r, kind |-> "charge.failed", amount |-> 0]}
    BY <1>2 DEF AttemptFails
  <2>2. TablesInv'
    BY <2>1 DEF Inv, TablesInv, tables, HashesAreUnique, RowsMatchPayments, VotesArePaidFor,
       SuccessHasItsVote, EventsAreTrue, RedeemedWithItsVote, bought
  <2>3. RequestsAreInformed'
    BY <2>1, StaysInformed DEF Inv, tables, known
  <2>4. QED
    BY <2>2, <2>3 DEF Inv
<1>3. CASE (\E p \in Prices : set_vote_price(p)) \/ check_election_status
  <2>1. UNCHANGED tables /\ UNCHANGED <<collected, events>> /\ UNCHANGED req
    BY <1>3 DEF set_vote_price, check_election_status, gateway
  <2>2. RequestsAreInformed'
    BY <2>1, StaysInformed DEF Inv, tables, known
  <2>3. QED
    BY <2>1, <2>2, ReadOnly DEF Inv
<1>4. ASSUME NEW h \in Voters, cast_public_vote(h) PROVE Inv'
  <2>1. /\ \A v \in votes : v.hash # h
        /\ votes' = votes \cup {[hash |-> h, ref |-> FreeVote, count |-> 1]}
        /\ UNCHANGED <<txn, redeemed, collected, events, req>>
    BY <1>4 DEF cast_public_vote, insert_vote, vote_insertable, has_voted, gateway
  <2>2. TablesInv'
    BY <2>1, ConstantsAssumption DEF Inv, TablesInv, HashesAreUnique, RowsMatchPayments,
       VotesArePaidFor, SuccessHasItsVote, EventsAreTrue, RedeemedWithItsVote, bought
  <2>3. RequestsAreInformed'
    BY <2>1, StaysInformed DEF Inv, known
  <2>4. QED
    BY <2>2, <2>3 DEF Inv
<1>5. QED
  BY <1>1, <1>2, <1>3, <1>4 DEF Environment

\* The step both settling requests share: the vote of a payment known and
\* collected in full is inserted and the payment marked success.
LEMMA VoteCast ==
  ASSUME TypeOK, Inv, NEW r \in Refs, NEW n, known(r), paid_in_full(r),
         vote_insertable(txn[r].hash), insert_vote(txn[r].hash, r, n), update_status(r, "success"),
         \/ UNCHANGED redeemed
         \/ redeemed' = [redeemed EXCEPT ![r] = @ + (IF txn[r].promo THEN 1 ELSE 0)],
         UNCHANGED <<collected, events>>
  PROVE  TablesInv'
<1> DEFINE row == [hash |-> txn[r].hash, ref |-> r, count |-> n]
<1>1. votes' = votes \cup {row} /\ \A v \in votes : v.hash # txn[r].hash
  BY DEF insert_vote, vote_insertable, has_voted
<1>2. \A v \in votes : v.ref # r
  BY <1>1 DEF Inv, TablesInv, RowsMatchPayments
<1>3. /\ txn'[r].status = "success" /\ txn'[r].hash = txn[r].hash
      /\ txn'[r].amount = txn[r].amount /\ txn'[r].promo = txn[r].promo
      /\ \A s \in Refs \ {r} : txn'[s] = txn[s]
  BY DEF update_status, TypeOK, Transaction
<1>4. HashesAreUnique'
  BY <1>1 DEF Inv, TablesInv, HashesAreUnique
<1>5. RowsMatchPayments'
  BY <1>1, <1>2, <1>3 DEF Inv, TablesInv, RowsMatchPayments
<1>6. VotesArePaidFor'
  BY <1>1, <1>2, <1>3 DEF Inv, TablesInv, VotesArePaidFor, paid_in_full
<1>7. \E v \in votes' : v.ref = r
  <2>1. row \in votes' /\ row.ref = r
    BY <1>1
  <2>2. QED
    BY <2>1
<1>8. SuccessHasItsVote'
  <2> SUFFICES ASSUME NEW s \in Refs, txn'[s].status = "success"
               PROVE  \E v \in votes' : v.ref = s
    BY DEF SuccessHasItsVote, bought
  <2>1. CASE s = r
    BY <1>7, <2>1
  <2>2. CASE s # r
    BY <1>1, <1>3, <2>2 DEF Inv, TablesInv, SuccessHasItsVote, bought
  <2>3. QED
    BY <2>1, <2>2
<1>9. EventsAreTrue'
  BY DEF Inv, TablesInv, EventsAreTrue
<1>10. RedeemedWithItsVote'
  <2>1. redeemed[r] = 0
    BY <1>2 DEF Inv, TablesInv, RedeemedWithItsVote, TypeOK
  <2>2. redeemed'[r] \in {0, 1} /\ (redeemed'[r] = 1 => txn[r].promo)
    BY <2>1, <1>3 DEF TypeOK
  <2>3. \A s \in Refs \ {r} : redeemed'[s] = redeemed[s]
    BY DEF TypeOK
  <2>4. SUFFICES ASSUME NEW s \in Refs, redeemed'[s] > 0
                 PROVE  /\ redeemed'[s] = 1 /\ txn'[s].promo
                        /\ \E v \in votes' : v.ref = s
    BY DEF RedeemedWithItsVote
  <2>5. CASE s = r
    BY <1>7, <1>3, <2>2, <2>4, <2>5
  <2>6. CASE s # r
    <3>1. redeemed[s] > 0 /\ redeemed'[s] = redeemed[s] /\ txn'[s] = txn[s]
      BY <1>3, <2>3, <2>4, <2>6
    <3>2. QED
      BY <1>1, <3>1 DEF Inv, TablesInv, RedeemedWithItsVote
  <2>7. QED
    BY <2>5, <2>6
<1>11. QED
  BY <1>4, <1>5, <1>6, <1>8, <1>9, <1>10 DEF TablesInv

\* Settling a row takes none of the knowledge of the other requests away.
LEMMA SettlingKeepsRequestsInformed ==
  ASSUME TypeOK, Inv, NEW q \in Reqs, NEW s \in {"success", "failed"},
         update_status(req[q].ref, s) \/ UNCHANGED txn,
         req' = [req EXCEPT ![q] = Idle], UNCHANGED <<collected, events>>
  PROVE  RequestsAreInformed'
<1>1. \A r \in Refs : known(r) => known(r)' /\ txn'[r].amount = txn[r].amount
  BY DEF update_status, TypeOK, Transaction, known
<1>2. \A p \in Reqs : req'[p] = req[p] \/ req'[p] = Idle
  BY DEF TypeOK
<1>3. QED
  BY <1>1, <1>2, StaysInformed DEF Inv

\* A request moves on to a stage it is informed for, and writes nothing.
LEMMA RequestMovesOn ==
  ASSUME TypeOK, Inv, NEW q \in Reqs, NEW s, req' = [req EXCEPT ![q] = s],
         UNCHANGED tables, UNCHANGED <<collected, events>>, Informed(q)'
  PROVE  Inv'
<1>1. TablesInv'
  BY ReadOnly DEF Inv
<1>2. ASSUME NEW p \in Reqs PROVE Informed(p)'
  <2>1. CASE p = q
    BY <2>1
  <2>2. CASE p # q
    <3>1. req'[p] = req[p] /\ Informed(p)
      BY <2>2 DEF TypeOK, Inv, RequestsAreInformed
    <3>2. QED
      BY <3>1 DEF Informed, known, paid_in_full, event_of, tables
  <2>3. QED
    BY <2>1, <2>2
<1>3. QED
  BY <1>1, <1>2 DEF Inv, RequestsAreInformed

LEMMA VerifyInv == TypeOK /\ Inv /\ Verify => Inv'
<1> SUFFICES ASSUME TypeOK, Inv, Verify PROVE Inv'
  OBVIOUS
<1>1. ASSUME NEW q \in Reqs, NEW r \in Refs, begin_verify(q, r) PROVE Inv'
  <2>1. req'[q].stage = "verify" /\ req'[q].ref = r
    BY <1>1 DEF begin_verify, TypeOK, Idle
  <2>2. Informed(q)'
    BY <1>1, <2>1 DEF begin_verify, Informed, known, tables
  <2>3. QED
    BY <1>1, <2>2, RequestMovesOn DEF begin_verify, gateway
<1>2. ASSUME NEW q \in Reqs, verify_transaction(q) PROVE Inv'
  <2>1. \/ req'[q] = Idle
        \/ /\ req'[q].stage = "verified" /\ req'[q].ref = req[q].ref
           /\ paid_in_full(req[q].ref)
    BY <1>2 DEF verify_transaction, TypeOK, Request
  <2>2. known(req[q].ref) /\ UNCHANGED tables /\ UNCHANGED <<collected, events>>
    BY <1>2 DEF verify_transaction, gateway, Inv, RequestsAreInformed, Informed
  <2>3. Informed(q)'
    BY <2>1, <2>2 DEF Informed, known, paid_in_full, tables, Idle
  <2>4. \E s : req' = [req EXCEPT ![q] = s]
    BY <1>2 DEF verify_transaction
  <2>5. QED
    BY <2>2, <2>3, <2>4, RequestMovesOn
<1>3. ASSUME NEW q \in Reqs, verify_and_cast_public_vote(q) PROVE Inv'
  <2> DEFINE r == req[q].ref
  <2>1. r \in Refs /\ known(r) /\ paid_in_full(r)
    BY <1>3 DEF verify_and_cast_public_vote, Inv, RequestsAreInformed, Informed, TypeOK, Request
  <2>2. req' = [req EXCEPT ![q] = Idle] /\ UNCHANGED <<collected, events>>
    BY <1>3 DEF verify_and_cast_public_vote, gateway
  <2>3. CASE vote_insertable(txn[r].hash)
    <3>1. /\ insert_vote(txn[r].hash, r, req[q].count)
          /\ update_status(r, "success")
          /\ redeemed' = [redeemed EXCEPT ![r] = @ + (IF txn[r].promo THEN 1 ELSE 0)]
      BY <1>3, <2>3 DEF verify_and_cast_public_vote
    <3>2. TablesInv'
      BY <2>1, <2>2, <2>3, <3>1, VoteCast
    <3>3. RequestsAreInformed'
      BY <2>2, <3>1, SettlingKeepsRequestsInformed
    <3>4. QED
      BY <3>2, <3>3 DEF Inv
  <2>4. CASE ~vote_insertable(txn[r].hash)
    <3>1. UNCHANGED tables
      BY <1>3, <2>4 DEF verify_and_cast_public_vote
    <3>2. Informed(q)'
      BY <2>2 DEF TypeOK, Informed, Idle
    <3>3. QED
      BY <2>2, <3>1, <3>2, RequestMovesOn
  <2>5. QED
    BY <2>3, <2>4
<1>4. QED
  BY <1>1, <1>2, <1>3 DEF Verify

LEMMA WebhookInv == TypeOK /\ Inv /\ Webhook => Inv'
<1> SUFFICES ASSUME TypeOK, Inv, Webhook PROVE Inv'
  OBVIOUS
<1>1. ASSUME NEW e \in events, webhook_ignored(e) PROVE Inv'
  <2>1. UNCHANGED tables /\ UNCHANGED <<collected, events>> /\ UNCHANGED req
    BY <1>1 DEF webhook_ignored, gateway
  <2>2. RequestsAreInformed'
    BY <2>1, StaysInformed DEF Inv, tables, known
  <2>3. QED
    BY <2>1, <2>2, ReadOnly DEF Inv
<1>2. ASSUME NEW q \in Reqs, NEW e \in events, begin_charge_success(q, e) PROVE Inv'
  <2>1. /\ UNCHANGED tables /\ UNCHANGED <<collected, events>> /\ e.kind = "charge.success"
        /\ known(e.ref) /\ e \in Event /\ e.ref \in Refs
    BY <1>2 DEF begin_charge_success, gateway, TypeOK, Event
  <2>2. /\ req'[q].ref = e.ref /\ req'[q].kind = e.kind /\ req'[q].amount = e.amount
        /\ req'[q].stage = IF e.amount < txn[e.ref].amount THEN "reject" ELSE "hook"
    BY <1>2 DEF begin_charge_success, TypeOK
  <2>3. event_of(q)' = e
    BY <2>1, <2>2 DEF event_of, Event
  <2>4. e.amount < txn[e.ref].amount \/ e.amount >= txn[e.ref].amount
    BY <2>1 DEF TypeOK, Event, Transaction
  <2>5. Informed(q)'
    BY <2>1, <2>2, <2>3, <2>4 DEF Informed, known, tables
  <2>6. \E s : req' = [req EXCEPT ![q] = s]
    BY <1>2 DEF begin_charge_success
  <2>7. QED
    BY <2>1, <2>5, <2>6, RequestMovesOn
<1>3. ASSUME NEW q \in Reqs, NEW e \in events, begin_charge_failed(q, e) PROVE Inv'
  <2>1. /\ UNCHANGED tables /\ UNCHANGED <<collected, events>> /\ known(e.ref) /\ e \in Event
    BY <1>3 DEF begin_charge_failed, gateway, TypeOK, known
  <2>2. /\ req'[q].ref = e.ref /\ req'[q].kind = e.kind /\ req'[q].amount = e.amount
        /\ req'[q].stage = "reject"
    BY <1>3 DEF begin_charge_failed, TypeOK
  <2>3. event_of(q)' = e
    BY <2>1, <2>2 DEF event_of, Event
  <2>4. Informed(q)'
    BY <2>1, <2>2, <2>3 DEF Informed, known, tables
  <2>5. \E s : req' = [req EXCEPT ![q] = s]
    BY <1>3 DEF begin_charge_failed
  <2>6. QED
    BY <2>1, <2>4, <2>5, RequestMovesOn
<1>4. ASSUME NEW q \in Reqs, read_parent(q) PROVE Inv'
  <2>1. /\ UNCHANGED tables /\ UNCHANGED <<collected, events>> /\ req[q].stage = "hook"
        /\ Informed(q)
    BY <1>4 DEF read_parent, gateway, Inv, RequestsAreInformed
  <2>2. /\ req'[q].stage \in {"cast", "reject"} /\ req'[q].ref = req[q].ref
        /\ req'[q].kind = req[q].kind /\ req'[q].amount = req[q].amount
    BY <1>4 DEF read_parent, TypeOK, Request
  <2>3. Informed(q)'
    BY <2>1, <2>2 DEF Informed, event_of, known, tables
  <2>4. \E s : req' = [req EXCEPT ![q] = s]
    BY <1>4 DEF read_parent
  <2>5. QED
    BY <2>1, <2>3, <2>4, RequestMovesOn
<1>5. ASSUME NEW q \in Reqs, handle_charge_success(q) PROVE Inv'
  <2> DEFINE r == req[q].ref
  <2>1. /\ r \in Refs /\ known(r) /\ event_of(q) \in events
        /\ req[q].kind = "charge.success" /\ req[q].amount >= txn[r].amount
    BY <1>5 DEF handle_charge_success, Inv, RequestsAreInformed, Informed, TypeOK, Request
  <2>2. collected[r] = req[q].amount /\ req[q].amount > 0
    BY <2>1 DEF event_of, Inv, TablesInv, EventsAreTrue
  <2>3. paid_in_full(r)
    BY <2>1, <2>2 DEF paid_in_full
  <2>4. req' = [req EXCEPT ![q] = Idle] /\ UNCHANGED <<redeemed, collected, events>>
    BY <1>5 DEF handle_charge_success, gateway
  <2>5. CASE vote_insertable(txn[r].hash)
    <3>1. insert_vote(txn[r].hash, r, req[q].count) /\ update_status(r, "success")
      BY <1>5, <2>5 DEF handle_charge_success
    <3>2. TablesInv'
      BY <2>1, <2>3, <2>4, <2>5, <3>1, VoteCast
    <3>3. RequestsAreInformed'
      BY <2>4, <3>1, SettlingKeepsRequestsInformed
    <3>4. QED
      BY <3>2, <3>3 DEF Inv
  <2>6. CASE ~vote_insertable(txn[r].hash)
    <3>1. UNCHANGED tables
      BY <1>5, <2>4, <2>6 DEF handle_charge_success, tables
    <3>2. Informed(q)'
      BY <2>4 DEF TypeOK, Informed, Idle
    <3>3. QED
      BY <2>4, <3>1, <3>2, RequestMovesOn
  <2>7. QED
    BY <2>5, <2>6
<1>6. ASSUME NEW q \in Reqs, mark_failed(q) PROVE Inv'
  <2> DEFINE r == req[q].ref
  <2>1. /\ r \in Refs /\ update_status(r, "failed") /\ req' = [req EXCEPT ![q] = Idle]
        /\ UNCHANGED <<votes, redeemed, collected, events>>
    BY <1>6 DEF mark_failed, gateway, TypeOK, Request
  <2>2. /\ txn'[r].status = "failed" /\ txn'[r].hash = txn[r].hash
        /\ txn'[r].amount = txn[r].amount /\ txn'[r].promo = txn[r].promo
        /\ \A s \in Refs \ {r} : txn'[s] = txn[s]
    BY <2>1 DEF update_status, TypeOK, Transaction
  <2>3. TablesInv'
    BY <2>1, <2>2 DEF Inv, TablesInv, HashesAreUnique, RowsMatchPayments, VotesArePaidFor,
       SuccessHasItsVote, EventsAreTrue, RedeemedWithItsVote, bought
  <2>4. RequestsAreInformed'
    BY <2>1, SettlingKeepsRequestsInformed
  <2>5. QED
    BY <2>3, <2>4 DEF Inv
<1>7. QED
  BY <1>1, <1>2, <1>3, <1>4, <1>5, <1>6 DEF Webhook

LEMMA NextInv == TypeOK /\ Inv /\ [Next]_vars => Inv'
<1> SUFFICES ASSUME TypeOK, Inv, [Next]_vars PROVE Inv'
  OBVIOUS
<1>1. ASSUME NEW q \in Reqs, RequestDies(q) PROVE Inv'
  <2>1. req' = [req EXCEPT ![q] = Idle] /\ UNCHANGED tables /\ UNCHANGED <<collected, events>>
    BY <1>1 DEF RequestDies, gateway
  <2>2. Informed(q)'
    BY <2>1 DEF TypeOK, Informed, Idle
  <2>3. QED
    BY <2>1, <2>2, RequestMovesOn
<1>2. CASE UNCHANGED vars
  <2>1. UNCHANGED tables /\ UNCHANGED <<collected, events>> /\ UNCHANGED req
    BY <1>2 DEF vars, tables
  <2>2. RequestsAreInformed'
    BY <2>1, StaysInformed DEF Inv, tables, known
  <2>3. QED
    BY <2>1, <2>2, ReadOnly DEF Inv
<1>3. QED
  BY <1>1, <1>2, InitiateInv, EnvironmentInv, VerifyInv, WebhookInv DEF Next

-----------------------------------------------------------------------------
(* Theorems *)

\* Every row, event and request of every execution has its type; in
\* particular no webhook answers an event the gateway has not sent.
THEOREM TypeCorrect == Spec => [](TypeOK /\ Inv)
<1>1. Init => TypeOK /\ Inv
  BY InitType, InitInv
<1>2. (TypeOK /\ Inv) /\ [Next]_vars => (TypeOK /\ Inv)'
  BY NextType, NextInv DEF Inv
<1>3. QED
  BY <1>1, <1>2, PTL DEF Spec

\* However the verify calls and the webhooks of a payment interleave, crash
\* and repeat, the payment buys at most one row of votes.
THEOREM PaymentBuysOneVote == Spec => []OneVotePerPayment
<1>1. Inv => OneVotePerPayment
  BY DEF Inv, TablesInv, HashesAreUnique, RowsMatchPayments, OneVotePerPayment, bought
<1>2. QED
  BY <1>1, TypeCorrect, PTL

\* No vote is cast for money the gateway has not collected.
THEOREM NoVoteUnpaid == Spec => []VotesArePaidFor
<1>1. Inv => VotesArePaidFor
  BY DEF Inv, TablesInv
<1>2. QED
  BY <1>1, TypeCorrect, PTL

\* A transaction reported as success has its vote, and the promo ledger counts
\* a payment at most once and never without its vote.
THEOREM BooksMatchBallots == Spec => [](SuccessHasItsVote /\ RedeemedOncePerVote)
<1>1. Inv => SuccessHasItsVote /\ RedeemedOncePerVote
  BY DEF Inv, TablesInv, RedeemedWithItsVote, RedeemedOncePerVote, bought
<1>2. QED
  BY <1>1, TypeCorrect, PTL

\* Where revoting is off, a voter has at most one row, paid or not.
THEOREM VoterVotesOnce == Spec => []OneVotePerVoter
<1>1. Inv => OneVotePerVoter
  BY DEF Inv, TablesInv, HashesAreUnique, OneVotePerVoter
<1>2. QED
  BY <1>1, TypeCorrect, PTL
=============================================================================
