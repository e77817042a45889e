------------------------------ MODULE Payouts ------------------------------
(***************************************************************************)
(* Payouts: the rows of `payout_requests` of one event or election, the    *)
(* organizer's requests that create them, and the admin's two ways to end  *)
(* them: a Paystack transfer, or a review after paying by hand.            *)
(*                                                                         *)
(* The same code serves events and elections (two mirrored methods), and   *)
(* every query filters on the parent, so one parent is enough.  Money is   *)
(* in pesewas.  A handler is one database transaction at READ COMMITTED    *)
(* and is split at its awaits; only the write of a recipient code takes    *)
(* effect on others before the commit, by locking the row.                 *)
(***************************************************************************)
EXTENDS Integers, FiniteSets, FiniteSetsExt

CONSTANTS
    Rows,        \* payout_request_id values
    Transfers,   \* transfer references (secrets.token_urlsafe, never reused)
    Organizers,  \* slots for payout requests served concurrently
    Admins,      \* slots for "pay" calls of the admin console
    Sale,        \* what one sale or paid vote brings in
    MaxRevenue,  \* bound on the revenue
    Rates,       \* commission rates an admin may set, in basis points
    Amounts,     \* amounts an organizer may ask for
    MinPayout,   \* MIN_PAYOUT_GHS
    MaxPayout,   \* MAX_PAYOUT_GHS
    Answers,     \* transfer statuses Paystack may answer with
    Verdicts     \* what admins decide in a review

NoRow == "no row"
NoTransfer == "no transfer"
Statuses == {"none", "pending", "paid", "rejected"}
TransferStatuses == {"none", "success", "pending", "otp", "failed"}

ASSUME ConstantsAssumption ==
    /\ IsFiniteSet(Rows) /\ NoRow \notin Rows
    /\ NoTransfer \notin Transfers
    /\ Sale \in Nat /\ MaxRevenue \in Nat
    /\ Rates \subseteq Int /\ Rates # {}
    /\ Amounts \subseteq Nat
    /\ MinPayout \in Nat /\ MaxPayout \in Nat
    /\ Answers \subseteq TransferStatuses \ {"none"}
    /\ Verdicts \subseteq {"paid", "rejected"}

VARIABLES
    revenue,   \* completed purchases or successful vote charges, summed
    rate,      \* commission_rate_bps of the parent
    payout,    \* table payout_requests
    transfer,  \* the transfers Paystack has accepted
    req,       \* payout requests being served
    pay        \* "pay" calls being served

vars == <<revenue, rate, payout, transfer, req, pay>>

(* `verdict` stands for admin_notes, reviewed_at and reviewed_by as a      *)
(* review leaves them; `recipient` for paystack_recipient_code being set.  *)
Payout == [status : Statuses, amount : Int, recipient : BOOLEAN,
           ref : Transfers \cup {NoTransfer}, transfer_status : TransferStatuses,
           verdict : {"none", "paid", "rejected"}]
Transfer == [row : Rows \cup {NoRow}, amount : Int, state : TransferStatuses]

(* "checked": has_pending was false.  "create": the amount was accepted.   *)
Request == [stage : {"idle", "checked", "create"}, rate : Rates, amount : Int]
(* "recipient": the request was pending when read, and Paystack has no     *)
(* recipient for it.  "send": Paystack is about to be asked for the money. *)
(* "record": it answered.                                                  *)
Pay == [stage : {"idle", "recipient", "send", "record"},
        row : Rows \cup {NoRow}, holds : BOOLEAN,
        ref : Transfers \cup {NoTransfer}, answer : TransferStatuses]

NoPayout == [status |-> "none", amount |-> 0, recipient |-> FALSE,
             ref |-> NoTransfer, transfer_status |-> "none", verdict |-> "none"]
NotSent == [row |-> NoRow, amount |-> 0, state |-> "none"]
IdleRequest == [stage |-> "idle", rate |-> CHOOSE bps \in Rates : TRUE, amount |-> 0]
IdlePay == [stage |-> "idle", row |-> NoRow, holds |-> FALSE,
            ref |-> NoTransfer, answer |-> "none"]

TypeOK ==
    /\ revenue \in Nat
    /\ rate \in Rates
    /\ payout \in [Rows -> Payout]
    /\ transfer \in [Transfers -> Transfer]
    /\ req \in [Organizers -> Request]
    /\ pay \in [Admins -> Pay]

Init ==
    /\ revenue = 0
    /\ rate \in Rates
    /\ payout = [r \in Rows |-> NoPayout]
    /\ transfer = [t \in Transfers |-> NotSent]
    /\ req = [o \in Organizers |-> IdleRequest]
    /\ pay = [a \in Admins |-> IdlePay]

-----------------------------------------------------------------------------
(* What there is to pay out *)

\* Decimal.quantize rounds half to even.
platform_fee(gross, bps) ==
    LET whole == (gross * bps) \div 10000
        rest == (gross * bps) % 10000
    IN  IF rest > 5000 \/ (rest = 5000 /\ whole % 2 = 1) THEN whole + 1 ELSE whole

amount_of(r) == payout[r].amount
get_total_requested ==
    MapThenSumSet(amount_of, {r \in Rows : payout[r].status \notin {"none", "rejected"}})
has_pending == \E r \in Rows : payout[r].status = "pending"
earned(bps) == revenue - platform_fee(revenue, bps)
\* MUTANT of available: already_requested left out.
available_gross(bps) == earned(bps)

available(bps) == earned(bps) - get_total_requested

-----------------------------------------------------------------------------
(* The organizer asks *)

\* A ticket is bought or a vote is paid for.
sell ==
    /\ revenue + Sale <= MaxRevenue
    /\ revenue' = revenue + Sale
    /\ UNCHANGED <<rate, payout, transfer, req, pay>>

\* MUTANT of begin_request: without the 409 for a pending request.
begin_request_unchecked(o) ==
    /\ req[o].stage = "idle"
    /\ req' = [req EXCEPT ![o].stage = "checked", ![o].rate = rate]
    /\ UNCHANGED <<revenue, rate, payout, transfer, pay>>

\* The parent is loaded, with its rate; a pending request is a 409.
begin_request(o) ==
    /\ req[o].stage = "idle"
    /\ ~has_pending
    /\ req' = [req EXCEPT ![o].stage = "checked", ![o].rate = rate]
    /\ UNCHANGED <<revenue, rate, payout, transfer, pay>>

\* The balance is read and the amount asked for (all of it, if none) checked.
resolve_requested_amount(o) ==
    /\ req[o].stage = "checked"
    /\ LET balance == available(req[o].rate)
       IN  \E amount \in Amounts \cup {balance} :
             IF balance > 0 /\ amount \in MinPayout..MaxPayout /\ amount <= balance
               THEN req' = [req EXCEPT ![o].stage = "create", ![o].amount = amount]
               ELSE req' = [req EXCEPT ![o] = IdleRequest]
    /\ UNCHANGED <<revenue, rate, payout, transfer, pay>>

request_payout(o) ==
    /\ req[o].stage = "create"
    /\ \E r \in Rows :
        /\ payout[r].status = "none"
        /\ payout' = [payout EXCEPT ![r].status = "pending",
                                    ![r].amount = req[o].amount]
    /\ req' = [req EXCEPT ![o] = IdleRequest]
    /\ UNCHANGED <<revenue, rate, transfer, pay>>

-----------------------------------------------------------------------------
(* The admin pays, through Paystack or by hand *)

\* Nobody but a is in the middle of a transaction that wrote row r.
unlocked_for(a, r) == \A b \in Admins \ {a} : ~(pay[b].row = r /\ pay[b].holds)

\* MUTANT of begin_transfer: without the 409 for a request that is not pending.
begin_transfer_unguarded(a, r) ==
    /\ pay[a].stage = "idle"
    /\ payout[r].status # "none"
    /\ pay' = [pay EXCEPT ![a] = [IdlePay EXCEPT
         !.stage = IF payout[r].recipient THEN "send" ELSE "recipient", !.row = r]]
    /\ UNCHANGED <<revenue, rate, payout, transfer, req>>

(* A pending request is read, and Paystack resolves the account.  The      *)
(* recipient code read with the request is the one this call will use.     *)
begin_transfer(a, r) ==
    /\ pay[a].stage = "idle"
    /\ payout[r].status = "pending"
    /\ pay' = [pay EXCEPT ![a] = [IdlePay EXCEPT
         !.stage = IF payout[r].recipient THEN "send" ELSE "recipient", !.row = r]]
    /\ UNCHANGED <<revenue, rate, payout, transfer, req>>

\* The flush locks the row until this transaction ends.
set_recipient_code(a) ==
    /\ pay[a].stage = "recipient"
    /\ unlocked_for(a, pay[a].row)
    /\ pay' = [pay EXCEPT ![a].stage = "send", ![a].holds = TRUE]
    /\ UNCHANGED <<revenue, rate, payout, transfer, req>>

\* Paystack takes the order and answers with the transfer's status.
initiate_transfer(a) ==
    /\ pay[a].stage = "send"
    /\ \E t \in Transfers, answer \in Answers :
        /\ transfer[t].state = "none"
        /\ transfer' = [transfer EXCEPT ![t] =
             [row |-> pay[a].row, amount |-> payout[pay[a].row].amount, state |-> answer]]
        /\ pay' = [pay EXCEPT ![a].stage = "record", ![a].ref = t, ![a].answer = answer]
    /\ UNCHANGED <<revenue, rate, payout, req>>

\* For the MUTANTs of record_transfer_result: statuses s and p are written.
write_result(a, s, p) ==
    /\ pay[a].stage = "record"
    /\ unlocked_for(a, pay[a].row)
    /\ payout' = [payout EXCEPT
         ![pay[a].row].ref = pay[a].ref,
         ![pay[a].row].transfer_status = s,
         ![pay[a].row].recipient = @ \/ pay[a].holds,
         ![pay[a].row].status = p]
    /\ pay' = [pay EXCEPT ![a] = IdlePay]
    /\ UNCHANGED <<revenue, rate, transfer, req>>

\* MUTANT of it: an accepted transfer is taken for a successful one, in one column or the other.
record_accepted_as_success(a) == write_result(a, "success", payout[pay[a].row].status)
record_accepted_as_paid(a) == write_result(a, pay[a].answer, "paid")
\* MUTANT of it: a transfer that did not succeed puts the request back into the queue.
record_failure_as_pending(a) ==
    write_result(a, pay[a].answer, IF pay[a].answer = "success" THEN "paid" ELSE "pending")

\* The recipient code written earlier is committed with the result.
record_transfer_result(a) ==
    LET r == pay[a].row IN
    /\ pay[a].stage = "record"
    /\ unlocked_for(a, r)
    /\ payout' = [payout EXCEPT
         ![r].ref = pay[a].ref,
         ![r].transfer_status = pay[a].answer,
         ![r].recipient = @ \/ pay[a].holds,
         ![r].status = IF pay[a].answer = "success" THEN "paid" ELSE @]
    /\ pay' = [pay EXCEPT ![a] = IdlePay]
    /\ UNCHANGED <<revenue, rate, transfer, req>>

(* The call ends with nothing written: Paystack rejects the account, the   *)
(* recipient or the transfer; its answer does not arrive in time; or the   *)
(* server or the database dies before the commit.                          *)
roll_back(a) ==
    /\ pay[a].stage # "idle"
    /\ pay' = [pay EXCEPT ![a] = IdlePay]
    /\ UNCHANGED <<revenue, rate, payout, transfer, req>>

\* A queued transfer, or one waiting for its OTP, ends; no handler hears of it.
transfer_ends(t) ==
    /\ transfer[t].state \in {"pending", "otp"}
    /\ \E state \in {"success", "failed"} :
        transfer' = [transfer EXCEPT ![t].state = state]
    /\ UNCHANGED <<revenue, rate, payout, req, pay>>

\* MUTANT of review: any new_status is accepted.
review_undone(r, verdict) ==
    /\ payout[r].status # "none"
    /\ \A a \in Admins : ~(pay[a].row = r /\ pay[a].holds)
    /\ payout' = [payout EXCEPT ![r].status = "approved", ![r].verdict = verdict]
    /\ UNCHANGED <<revenue, rate, transfer, req, pay>>

\* Approve or reject, whatever the request's status is.
review(r, verdict) ==
    /\ payout[r].status # "none"
    /\ \A a \in Admins : ~(pay[a].row = r /\ pay[a].holds)
    /\ payout' = [payout EXCEPT ![r].status = verdict, ![r].verdict = verdict]
    /\ UNCHANGED <<revenue, rate, transfer, req, pay>>

\* A System Administrator negotiates another commission.
set_commission_override ==
    /\ \E bps \in Rates \ {rate} : rate' = bps
    /\ UNCHANGED <<revenue, payout, transfer, req, pay>>

Ask(o) == begin_request(o) \/ resolve_requested_amount(o) \/ request_payout(o)
PayStep(a) ==
    \/ \E r \in Rows : begin_transfer(a, r)
    \/ set_recipient_code(a)
    \/ initiate_transfer(a)
    \/ record_transfer_result(a)
    \/ roll_back(a)

Next ==
    \/ sell
    \/ set_commission_override
    \/ \E o \in Organizers : Ask(o)
    \/ \E a \in Admins : PayStep(a)
    \/ \E t \in Transfers : transfer_ends(t)
    \/ \E r \in Rows, verdict \in Verdicts : review(r, verdict)

Spec == Init /\ [][Next]_vars

-----------------------------------------------------------------------------
(* Properties *)

sent(r) == {t \in Transfers : transfer[t].row = r}

(* has_pending holds for organizers that do not overlap: whatever admins   *)
(* do meanwhile, a parent never has two requests waiting.                  *)
OnePendingRequest ==
    \A r, s \in Rows :
        payout[r].status = "pending" /\ payout[s].status = "pending" => r = s

(* What the row says of its transfer is so: the transfer it names is one   *)
(* Paystack made for it, of its amount, and "success" is only written of   *)
(* money that has moved.  Not even overlapping calls, calls that die       *)
(* before their commit, or late ends of a queued transfer mix them up.     *)
TransferRecordsAreTrue ==
    \A r \in Rows :
        /\ payout[r].ref # NoTransfer =>
             /\ transfer[payout[r].ref].row = r
             /\ transfer[payout[r].ref].amount = payout[r].amount
        /\ payout[r].transfer_status = "success" =>
             transfer[payout[r].ref].state = "success"

(* initiate_transfer: 'Only flips status to "paid" if Paystack confirms'.  *)
(* A paid request has a transfer that went through, or an admin's word     *)
(* that it was paid by hand.                                               *)
PaidIsBacked ==
    \A r \in Rows :
        payout[r].status = "paid" =>
            payout[r].verdict = "paid" \/ \E t \in sent(r) : transfer[t].state = "success"

(* A pending request is one no recorded transfer has settled and no review *)
(* has decided: settled requests do not come back to the admin's queue,    *)
(* whichever of two overlapping calls writes last.                         *)
PendingIsUnsettled ==
    \A r \in Rows :
        payout[r].status = "pending" =>
            payout[r].verdict = "none" /\ payout[r].transfer_status # "success"

(* Admins that do not overlap never order a transfer for a request whose   *)
(* recorded transfer already succeeded.                                    *)
SuccessIsNotRepaid ==
    [][\A t \in Transfers :
         transfer'[t].row # transfer[t].row =>
             payout[transfer'[t].row].transfer_status # "success"]_vars

(* What was requested and not rejected is within what was earned at the    *)
(* only rate (get_total_requested: "so an organizer can't request the same *)
(* money twice").                                                          *)
RequestsWithinEarnings ==
    get_total_requested > 0 => get_total_requested <= earned(rate)

(* The row's status is "the source of truth for whether the organizer has  *)
(* actually been paid" (class PayoutRequest): a request whose recorded     *)
(* transfer went through is paid.                                          *)
StatusIsTheTruth ==
    \A r \in Rows :
        payout[r].ref # NoTransfer /\ transfer[payout[r].ref].state = "success" =>
            payout[r].status = "paid"

(* No second transfer is ordered for "money that may already be moving"    *)
(* (initiate_transfer): of the transfers of one request at most one has    *)
(* not failed.                                                             *)
TransferredOnce ==
    \A t, u \in Transfers :
        /\ transfer[t].state \in {"success", "pending", "otp"}
        /\ transfer[u].state \in {"success", "pending", "otp"}
        /\ transfer[t].row = transfer[u].row
        => t = u
=============================================================================
