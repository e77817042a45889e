----------------------------- MODULE PromoCodes -----------------------------
(***************************************************************************)
(* Discount codes: how organizers save and delete them, and how a ticket   *)
(* or vote checkout applies one and redeems it when the payment arrives.   *)
(*                                                                         *)
(* Requests are database transactions at READ COMMITTED.  A save loads the *)
(* row, writes the columns that differ from what it loaded, then deletes   *)
(* the scope rows it can see and inserts its own.  Limits count rows of    *)
(* the redemption ledger.  A payment enters it when the buyer comes back   *)
(* and it is verified, and for tickets when the webhook fulfils it; votes  *)
(* that the webhook casts and tickets issued by hand are paid for at the   *)
(* discount and leave no row.  That a payment is settled once is the       *)
(* subject of VotePayments and Ticketing; here settling is one step.       *)
(* Amounts are in Financials.                                              *)
(***************************************************************************)
EXTENDS Integers, FiniteSets

CONSTANTS
    Codes,
    Orgs,        \* organizations, each with its own elections and events
    Activities,  \* elections and events
    Drafts,      \* what the form may hold: a set of records of the columns
    Savers,      \* slots for requests of organizers in progress
    Buyers,
    Payments,    \* references
    LastDay,     \* days the model looks at (a bound)
    MaxSaves     \* saves (a bound)

NULL == 0        \* no usage limit, no last day, a column left out
Active == 1
Inactive == 2
Columns == {"is_active", "valid_from", "valid_until", "usage_limit", "per_person_limit"}

VARIABLES
    codes,       \* promo_codes
    scopes,      \* promo_code_scopes: rows, told apart by the save they come from
    saving,      \* the organizers' requests in progress
    saves,       \* saves so far
    activities,  \* elections and events: their organization and status
    payments,    \* transactions and ticket_transactions
    redemptions, \* promo_code_redemptions
    unrecorded,  \* payments settled by what makes no row of it
    today,
    highest,     \* the highest limits each code has had
    crowded      \* codes, and buyers of a code, with two open payments at once

promoVars == <<codes, scopes, saving, saves, activities, payments, redemptions,
               unrecorded, today, highest, crowded>>
buying == <<payments, redemptions, unrecorded, crowded>>

Idle == [op |-> "idle"]
NoCode == [state |-> "none"]
NoPayment == [status |-> "none"]
Channels == {"vote", "ticket"}
Spellings == {"small letters", "capitals"}

live(c) == codes[c].state = "live"
of_code(c) == {r \in redemptions : r.code = c}
scopes_of(c) == {r \in scopes : r.code = c}
open_payments(c) == {p \in Payments : payments[p].status = "pending" /\ payments[p].code = c}

TypeOK ==
    /\ \A c \in Codes : codes[c].state \in {"none", "live", "deleted"}
    /\ \A r \in scopes : r.code \in Codes /\ r.activity \in Activities
    /\ saves \in 0..MaxSaves /\ today \in 1..LastDay
    /\ \A p \in Payments : payments[p].status \in {"none", "pending", "failed", "success"}
    /\ unrecorded \subseteq Payments
    /\ \A r \in redemptions : payments[r.payment].status = "success"

Init ==
    /\ codes = [c \in Codes |-> NoCode]
    /\ scopes = {} /\ saves = 0
    /\ saving = [s \in Savers |-> Idle]
    /\ activities \in [Activities -> [org : Orgs, status : {"draft"}]]
    /\ payments = [p \in Payments |-> NoPayment]
    /\ redemptions = {} /\ unrecorded = {} /\ crowded = {}
    /\ today = 1
    /\ highest = [c \in Codes |-> [usage_limit |-> 0, per_person_limit |-> 0]]

-----------------------------------------------------------------------------
(* Organizers *)

\* No limit is as many uses as there are payments.
Unlimited == Cardinality(Payments)
limit_of(n) == IF n = NULL THEN Unlimited ELSE n
larger(m, n) == IF m > n THEN m ELSE n
raise(c, row) == highest' = [highest EXCEPT ![c] =
    [usage_limit |-> larger(@.usage_limit, limit_of(row.usage_limit)),
     per_person_limit |-> larger(@.per_person_limit, row.per_person_limit)]]

\* require_*_ownership of everything the form puts in scope.
_validate_scope_ownership(org, scope) ==
    \A a \in scope : activities[a].status # "deleted" /\ activities[a].org = org

insert_scope(c, scope) == {[code |-> c, activity |-> a, save |-> saves + 1] : a \in scope}

create(c, org, draft, scope) ==
    /\ codes[c].state = "none" /\ saves < MaxSaves
    /\ _validate_scope_ownership(org, scope)
    /\ codes' = [codes EXCEPT ![c] = [state |-> "live", org |-> org, row |-> draft]]
    /\ scopes' = scopes \cup insert_scope(c, scope)
    /\ saves' = saves + 1
    /\ raise(c, draft)
    /\ UNCHANGED <<saving, activities, buying, today>>

\* The row as it is loaded, and the columns the form changes: what the form
\* leaves empty is not written.
update(s, c, draft, scope) ==
    /\ saving[s] = Idle /\ live(c) /\ saves < MaxSaves
    /\ _validate_scope_ownership(codes[c].org, scope)
    /\ saving' = [saving EXCEPT ![s] =
        [op |-> "update", code |-> c, draft |-> draft, scope |-> scope,
         writes |-> {k \in Columns : draft[k] # NULL /\ draft[k] # codes[c].row[k]}]]
    /\ UNCHANGED <<codes, scopes, saves, activities, buying, today, highest>>

\* A save that changed the row holds it until it commits.
row_locked(c) == \E s \in Savers : saving[s].op = "rewrite" /\ saving[s].code = c
                                   /\ saving[s].writes # {}

\* UPDATE, which waits for the row, then SELECT of the scope rows.
flush(s) ==
    LET w == saving[s] IN
    /\ w.op = "update" /\ live(w.code)
    /\ w.writes # {} => ~row_locked(w.code)
    /\ saving' = [saving EXCEPT ![s] =
        [op |-> "rewrite", code |-> w.code, draft |-> w.draft, scope |-> w.scope,
         writes |-> w.writes, rows |-> scopes_of(w.code)]]
    /\ UNCHANGED <<codes, scopes, saves, activities, buying, today, highest>>

replace_scope(s) ==
    LET w == saving[s]
        row == [k \in Columns |-> IF k \in w.writes THEN w.draft[k] ELSE codes[w.code].row[k]]
    IN  /\ w.op = "rewrite" /\ live(w.code) /\ saves < MaxSaves
        /\ \A a \in w.scope : activities[a].status # "deleted"
        /\ codes' = [codes EXCEPT ![w.code].row = row]
        /\ scopes' = (scopes \ w.rows) \cup insert_scope(w.code, w.scope)
        /\ saves' = saves + 1
        /\ saving' = [saving EXCEPT ![s] = Idle]
        /\ raise(w.code, row)
        /\ UNCHANGED <<activities, buying, today>>

\* Only a code nobody has redeemed, as counted.
begin_delete(s, c) ==
    /\ saving[s] = Idle /\ live(c) /\ of_code(c) = {}
    /\ saving' = [saving EXCEPT ![s] = [op |-> "delete", code |-> c]]
    /\ UNCHANGED <<codes, scopes, saves, activities, buying, today, highest>>

\* Scopes and redemptions go with it, payments that name it stay.
delete(s) ==
    LET c == saving[s].code IN
    /\ saving[s].op = "delete" /\ live(c) /\ ~row_locked(c)
    /\ codes' = [codes EXCEPT ![c] = [state |-> "deleted"]]
    /\ scopes' = scopes \ scopes_of(c)
    /\ redemptions' = redemptions \ of_code(c)
    /\ saving' = [saving EXCEPT ![s] = Idle]
    /\ UNCHANGED <<saves, activities, payments, unrecorded, crowded, today, highest>>

\* A constraint or the network fails, and nothing of the request remains.
roll_back(s) ==
    /\ saving[s] # Idle
    /\ saving' = [saving EXCEPT ![s] = Idle]
    /\ UNCHANGED <<codes, scopes, saves, activities, buying, today, highest>>

publish(a) ==
    /\ activities[a].status = "draft"
    /\ activities' = [activities EXCEPT ![a].status = "published"]
    /\ UNCHANGED <<codes, scopes, saving, saves, buying, today, highest>>

\* delete_event, delete_election: scope rows are deleted with the activity.
delete_activity(a) ==
    /\ activities[a].status = "draft"
    /\ activities' = [activities EXCEPT ![a].status = "deleted"]
    /\ scopes' = {r \in scopes : r.activity # a}
    /\ UNCHANGED <<codes, saving, saves, buying, today, highest>>

next_day ==
    /\ today < LastDay
    /\ today' = today + 1
    /\ UNCHANGED <<codes, scopes, saving, saves, activities, buying, highest>>

-----------------------------------------------------------------------------
(* Buyers *)

\* MUTANT of same_person: addresses are compared as they were typed.
same_spelling(e, f) == e = f

\* func.lower(email) == email.lower()
same_person(e, f) == e[1] = f[1]

count_redemptions_by_email(c, email) ==
    Cardinality({r \in of_code(c) : same_person(r.email, email)})

in_scope(c, a) == scopes_of(c) = {} \/ \E r \in scopes_of(c) : r.activity = a

resolve_for_checkout(c, a, email) ==
    LET row == codes[c].row IN
    /\ live(c)
    /\ row.is_active = Active
    /\ row.valid_from <= today /\ (row.valid_until = NULL \/ today <= row.valid_until)
    /\ in_scope(c, a)
    /\ row.usage_limit = NULL \/ Cardinality(of_code(c)) < row.usage_limit
    /\ count_redemptions_by_email(c, email) < row.per_person_limit

\* initiate_public_vote_payment, initiate_ticket_payment, and for guests.
initiate_payment(p, channel, a, email, c) ==
    /\ payments[p] = NoPayment /\ activities[a].status = "published"
    /\ resolve_for_checkout(c, a, email)
    /\ payments' = [payments EXCEPT ![p] =
        [status |-> "pending", channel |-> channel, code |-> c, activity |-> a,
         email |-> email]]
    /\ crowded' = crowded
        \cup {x \in {c} : open_payments(c) # {}}
        \cup {x \in {<<c, email[1]>>} : \E q \in open_payments(c) : payments[q].email[1] = email[1]}
    /\ UNCHANGED <<codes, scopes, saving, saves, activities, redemptions, unrecorded,
                   today, highest>>

\* Declined, short, too late, or, for tickets, to be refunded.
payment_fails(p) ==
    /\ payments[p].status = "pending"
    /\ payments' = [payments EXCEPT ![p].status = "failed"]
    /\ UNCHANGED <<codes, scopes, saving, saves, activities, redemptions, unrecorded,
                   today, highest, crowded>>

\* verify_and_cast_public_vote and fulfill_paid_purchase, whatever has become of
\* the code's limits; the foreign key of the redemption needs the code itself.
record_redemption(p) ==
    LET t == payments[p] IN
    /\ t.status = "pending" /\ live(t.code)
    /\ payments' = [payments EXCEPT ![p].status = "success"]
    /\ redemptions' = redemptions \cup {[code |-> t.code, email |-> t.email, payment |-> p]}
    /\ UNCHANGED <<codes, scopes, saving, saves, activities, unrecorded, today, highest,
                   crowded>>

settle_unrecorded(p) ==
    /\ payments[p].status \in {"pending", "failed"}
    /\ payments' = [payments EXCEPT ![p].status = "success"]
    /\ unrecorded' = unrecorded \cup {p}
    /\ UNCHANGED <<codes, scopes, saving, saves, activities, redemptions, today, highest,
                   crowded>>

\* The webhook casts the votes, and takes up what has failed before.
_handle_charge_success(p) ==
    /\ payments[p] # NoPayment /\ payments[p].channel = "vote"
    /\ settle_unrecorded(p)

\* An organizer issues the tickets of a payment that was collected.
issue_ticket_for_untracked_payment(p) ==
    /\ payments[p] # NoPayment /\ payments[p].channel = "ticket"
    /\ settle_unrecorded(p)

Next ==
    \/ \E c \in Codes, o \in Orgs, d \in Drafts, scope \in SUBSET Activities :
        create(c, o, d, scope)
    \/ \E s \in Savers :
        \/ \E c \in Codes, d \in Drafts, scope \in SUBSET Activities : update(s, c, d, scope)
        \/ flush(s)
        \/ replace_scope(s)
        \/ \E c \in Codes : begin_delete(s, c)
        \/ delete(s)
        \/ roll_back(s)
    \/ \E a \in Activities : publish(a) \/ delete_activity(a)
    \/ next_day
    \/ \E p \in Payments :
        \/ \E channel \in Channels, a \in Activities, e \in Buyers \X Spellings, c \in Codes :
            initiate_payment(p, channel, a, e, c)
        \/ payment_fails(p)
        \/ record_redemption(p)
        \/ _handle_charge_success(p)
        \/ issue_ticket_for_untracked_payment(p)

Spec == Init /\ [][Next]_promoVars

-----------------------------------------------------------------------------
(* Properties *)

\* The paid uses of a code, and those of one person however the address is spelled.
paid(c) == {p \in Payments : payments[p].status = "success" /\ payments[p].code = c}
paid_by(c, b) == {p \in paid(c) : payments[p].email[1] = b}

(* The paid uses of a code none of whose payments were pending together    *)
(* stay within its usage limit, and those of a person within the limit per *)
(* person, but for the uses that were settled without a row of the ledger: *)
(* they come on top, so that a buyer whose votes the webhook casts exceeds *)
(* both limits in turn.  What the verified and fulfilled payments are is   *)
(* counted for good, through saves, failures, and the code's deletion.     *)
LimitsHoldInTurn ==
    \A c \in Codes :
        /\ c \notin crowded =>
            Cardinality(paid(c)) <= highest[c].usage_limit
                                    + Cardinality(paid(c) \cap unrecorded)
        /\ \A b \in Buyers : <<c, b>> \notin crowded =>
            Cardinality(paid_by(c, b)) <= highest[c].per_person_limit
                                          + Cardinality(paid_by(c, b) \cap unrecorded)

(* "A list of elections/events it applies to — an empty list means it      *)
(* applies to everything the owning org runs."                             *)
AppliesToItsOwnOrg ==
    [][\A p \in Payments : payments[p] = NoPayment /\ payments'[p] # NoPayment =>
        activities[payments'[p].activity].org = codes[payments'[p].code].org]_promoVars

(* "This code has already been used and can't be deleted", and a payment   *)
(* under way will use it.                                                  *)
PaymentsKeepTheirCode ==
    \A p \in Payments : payments[p].status # "none" => codes[payments[p].code].state # "deleted"

(* The scope of a code is what one save made it.                           *)
ScopeIsOneSave ==
    \A c \in Codes : Cardinality({r.save : r \in scopes_of(c)}) <= 1
=============================================================================
