---------------------------- MODULE PhoneVoting ----------------------------
(***************************************************************************)
(* Voting by phone: the conversations of a USSD dialer and of a WhatsApp   *)
(* chatter, one election, and the charges they start.                      *)
(*                                                                         *)
(* A conversation is a record in Redis that expires; a message reads it,   *)
(* acts, and writes the next one at once, while the rows it adds to the    *)
(* database wait for the commit that follows the reply.  Messages of one   *)
(* phone may overlap: the USSD gateway gives up before JuniPay does, and   *)
(* the caller dials again.  A code, a number or a menu choice stands for   *)
(* what it selects; a wrong one is asked for again and changes nothing.    *)
(*                                                                         *)
(* JuniPay (USSD) and Paystack (WhatsApp) tell what became of a payment by *)
(* notices that come late, again and in any order; one is sent again until *)
(* it is answered with a 2xx.  An attempt may fail before another one      *)
(* pays.  A webhook reads the row, then the parent, and writes in the end, *)
(* with no lock in between, so webhooks of one payment may overlap.        *)
(***************************************************************************)
EXTENDS Integers, FiniteSets

CONSTANTS
    Dialers,     \* phones that vote over USSD
    Chatters,    \* phones that vote over WhatsApp
    Categories,  \* each with candidates
    Ranked,      \* ... those that want a ranked ballot
    Prices,      \* vote prices an organizer may set, 0 for a free vote
    Counts,      \* numbers of votes a dialer may ask for, of 1..100
    Refs,        \* payment references, never reused
    Messages,    \* slots for messages being handled
    Hooks        \* slots for webhooks being handled

VARIABLES
    ballot,    \* is the election open for voting, and its settings
    session,   \* ussd:session and whatsapp:session of each phone
    quoted,    \* what each phone has been shown a price for
    txn,       \* table transactions
    charge,    \* the references a gateway may collect for
    collected, \* how much of what was asked it has collected
    declined,  \* references an attempt of which has failed
    answers,   \* what the gateway was answered to notices of success
    links,     \* ussd:payment and whatsapp:payment keys
    voted,     \* table votes, and what each was bought with
    message,   \* the messages being handled
    hook       \* the webhooks being handled

gateway == <<charge, collected, declined, answers>>
phoneVars == <<ballot, session, quoted, txn, gateway, links, voted, message, hook>>
Phones == Dialers \cup Chatters
Idle == [state |-> "idle"]
Quote == [phone : Phones, price : Prices, category : Categories, count : Counts \cup {1}]
NoRow == [status |-> "none"]
Rows == [status : {"pending", "failed", "success"}, quote : Quote]
Steps == {"read", "asked", "reply"}
Free == "free"
Votes == [phone : Phones, category : Categories, ref : Refs \cup {Free}]
Answers == {"ok", "already_processed", "ignored", "amount_mismatch", "ended"}
\* What a webhook will do next: look at the parent, cast the vote, or write the
\* payment off because the amount was short, voting has ended or it was declined.
Stages == {"paid", "cast", "amount_mismatch", "ended", "declined"}

TypeOK ==
    /\ ballot \in [open : BOOLEAN, price : Prices, allow_revoting : BOOLEAN]
    /\ quoted \subseteq Quote
    /\ \A r \in Refs : txn[r] \in Rows \cup {NoRow}
    /\ charge \subseteq Refs /\ declined \subseteq charge
    /\ collected \in [Refs -> {"nothing", "short", "full"}]
    /\ answers \subseteq [ref : Refs, answer : Answers]
    /\ links \subseteq Refs
    /\ voted \subseteq Votes
    /\ \A s \in Messages : message[s] = Idle \/ message[s].step \in Steps
    /\ \A h \in Hooks : hook[h] = Idle \/ hook[h] \in [state : Stages, ref : Refs]

Init ==
    /\ ballot \in [open : {TRUE}, price : Prices, allow_revoting : BOOLEAN]
    /\ session = [p \in Phones |-> Idle]
    /\ quoted = {}
    /\ txn = [r \in Refs |-> NoRow]
    /\ charge = {} /\ declined = {}
    /\ collected = [r \in Refs |-> "nothing"]
    /\ answers = {}
    /\ links = {}
    /\ voted = {}
    /\ message = [s \in Messages |-> Idle]
    /\ hook = [h \in Hooks |-> Idle]

-----------------------------------------------------------------------------
(* Receiving a message, and the reply to it *)

\* The session is read once, before anything else.
receive(s, p) ==
    /\ message[s] = Idle
    /\ message' = [message EXCEPT ![s] =
        [step |-> "read", phone |-> p, session |-> session[p], writes |-> {}]]
    /\ UNCHANGED <<ballot, session, quoted, txn, gateway, links, voted, hook>>

said(s, state) ==
    /\ message[s] # Idle /\ message[s].step = "read"
    /\ message[s].session.state = state

over_ussd(s) == message[s] # Idle /\ message[s].phone \in Dialers
over_whatsapp(s) == message[s] # Idle /\ message[s].phone \in Chatters

set_session(s, record) == session' = [session EXCEPT ![message[s].phone] = record]
clear_session(s) == set_session(s, Idle)
finish(s) == message' = [message EXCEPT ![s] = Idle]

\* Ends without a row to commit.
hang_up(s) ==
    /\ clear_session(s)
    /\ finish(s)
    /\ UNCHANGED <<ballot, quoted, txn, gateway, links, voted, hook>>

\* The next screen, quoting what has been chosen so far.
screen(s, record) ==
    /\ set_session(s, record)
    /\ finish(s)
    /\ UNCHANGED <<ballot, txn, gateway, links, voted, hook>>

expire(p) ==
    /\ session[p] # Idle
    /\ session' = [session EXCEPT ![p] = Idle]
    /\ UNCHANGED <<ballot, quoted, txn, gateway, links, voted, message, hook>>

\* Asked again, refused or throttled.
no_effect(s) ==
    /\ message[s] # Idle /\ message[s].step = "read"
    /\ finish(s)
    /\ UNCHANGED <<ballot, session, quoted, txn, gateway, links, voted, hook>>

has_voted(p, c) == ~ballot.allow_revoting /\ \E v \in voted : v.phone = p /\ v.category = c

-----------------------------------------------------------------------------
(* The USSD conversation *)

\* After the election's code, which the resolved parent stands for.
handle_code_lookup(s) ==
    /\ over_ussd(s) /\ said(s, "idle")
    /\ ballot.open
    /\ screen(s, [state |-> "awaiting_vote", price |-> ballot.price])
    /\ UNCHANGED quoted

handle_vote_input(s, c) ==
    LET m == message[s] IN
    /\ over_ussd(s) /\ said(s, "awaiting_vote")
    /\ IF ~ballot.open \/ c \in Ranked \/ has_voted(m.phone, c)
       THEN hang_up(s)
       ELSE /\ m.session.price > 0
            /\ screen(s, [state |-> "awaiting_vote_count", price |-> m.session.price,
                          category |-> c])
            /\ UNCHANGED quoted

\* The confirmation is the only screen that shows all that is charged.
start_checkout_confirm(s, count) ==
    LET m == message[s] IN
    /\ screen(s, [state |-> "awaiting_checkout_confirm", price |-> m.session.price,
                  category |-> m.session.category, count |-> count])
    /\ quoted' = quoted \cup {[phone |-> m.phone, price |-> m.session.price,
                               category |-> m.session.category, count |-> count]}

\* The network is asked for unless the number tells it.
handle_vote_count(s, count) ==
    LET m == message[s] IN
    /\ over_ussd(s) /\ said(s, "awaiting_vote_count")
    /\ \/ start_checkout_confirm(s, count)
       \/ /\ screen(s, [state |-> "awaiting_network", price |-> m.session.price,
                        category |-> m.session.category, count |-> count])
          /\ UNCHANGED quoted

handle_network_selection(s) ==
    /\ over_ussd(s) /\ said(s, "awaiting_network")
    /\ start_checkout_confirm(s, message[s].session.count)

cancel_checkout(s) ==
    /\ over_ussd(s) /\ said(s, "awaiting_checkout_confirm")
    /\ hang_up(s)

\* MUTANT of quote_of: the price of the day, not the one that was quoted.
price_of_the_day(s, c) ==
    [phone |-> message[s].phone, price |-> ballot.price, category |-> c,
     count |-> IF "count" \in DOMAIN message[s].session THEN message[s].session.count ELSE 1]

\* What the conversation has agreed to be charged for.
quote_of(s, c) ==
    [phone |-> message[s].phone, price |-> message[s].session.price, category |-> c,
     count |-> IF "count" \in DOMAIN message[s].session THEN message[s].session.count ELSE 1]

\* The row is added and the gateway asked for the money before any commit.
start_charge(s, r, quote) ==
    /\ quote.price > 0
    /\ r \notin charge /\ txn[r] = NoRow
    /\ \A k \in Messages : message[k] # Idle => \A w \in message[k].writes : w.ref # r
    /\ message' = [message EXCEPT ![s].step = "asked",
        ![s].writes = {[ref |-> r, row |-> [status |-> "pending", quote |-> quote]]}]
    /\ UNCHANGED <<ballot, session, quoted, txn, gateway, links, voted, hook>>

\* Whether voting is still open is not asked again.
charge_and_respond(s, r) ==
    /\ over_ussd(s) /\ said(s, "awaiting_checkout_confirm")
    /\ start_charge(s, r, quote_of(s, message[s].session.category))

pending_ref(s) == CHOOSE r \in Refs : \E w \in message[s].writes : w.ref = r
collects(s) ==
    /\ charge' = charge \cup {pending_ref(s)}
    /\ UNCHANGED <<collected, declined, answers>>
to_reply(s) == message' = [message EXCEPT ![s].step = "reply"]

charge_accepted(s) ==
    /\ over_ussd(s) /\ message[s].step = "asked"
    /\ collects(s)
    /\ links' = links \cup {pending_ref(s)}
    /\ clear_session(s)
    /\ to_reply(s)
    /\ UNCHANGED <<ballot, quoted, txn, voted, hook>>

write_failed(s) ==
    message' = [message EXCEPT ![s].step = "reply",
        ![s].writes = {[w EXCEPT !.row.status = "failed"] : w \in message[s].writes}]

\* A server error counts as a refusal too, whatever JuniPay has begun.
charge_rejected(s) ==
    /\ over_ussd(s) /\ message[s].step = "asked"
    /\ UNCHANGED gateway \/ collects(s)
    /\ write_failed(s)
    /\ clear_session(s)
    /\ UNCHANGED <<ballot, quoted, txn, links, voted, hook>>

\* An exception other than a refusal is caught by the endpoint, which then
\* commits, and the conversation stands where it was.  JuniPay may have begun
\* to charge; a link that is not delivered is not paid.
charge_unanswered(s) ==
    /\ message[s] # Idle /\ message[s].step = "asked"
    /\ UNCHANGED gateway \/ (over_ussd(s) /\ collects(s))
    /\ to_reply(s)
    /\ UNCHANGED <<ballot, session, quoted, txn, links, voted, hook>>

-----------------------------------------------------------------------------
(* The WhatsApp conversation *)

\* CANCEL or HELP, in any state.
restart(s) ==
    /\ over_whatsapp(s) /\ message[s].step = "read"
    /\ hang_up(s)

\* The ballot shows what one vote costs.
present_ballot(s, c) ==
    LET m == message[s] IN
    /\ ~has_voted(m.phone, c)
    /\ screen(s, [state |-> "awaiting_vote", price |-> ballot.price, category |-> c])
    /\ quoted' = quoted \cup {[phone |-> m.phone, price |-> ballot.price,
                               category |-> c, count |-> 1]}

handle_election_lookup(s) ==
    /\ over_whatsapp(s) /\ said(s, "idle")
    /\ ballot.open
    /\ IF Cardinality(Categories) = 1
       THEN \E c \in Categories : present_ballot(s, c)
       ELSE screen(s, [state |-> "awaiting_category"]) /\ UNCHANGED quoted

handle_category_selection(s, c) ==
    /\ over_whatsapp(s) /\ said(s, "awaiting_category")
    /\ present_ballot(s, c)

handle_chat_vote(s, r) ==
    LET m == message[s] IN
    /\ over_whatsapp(s) /\ said(s, "awaiting_vote")
    /\ IF ~ballot.open \/ has_voted(m.phone, m.session.category)
       THEN hang_up(s)
       ELSE start_charge(s, r, quote_of(s, m.session.category))

initiate_payment(s) ==
    /\ over_whatsapp(s) /\ message[s].step = "asked"
    /\ collects(s)
    /\ links' = links \cup {pending_ref(s)}
    /\ set_session(s, [state |-> "awaiting_payment"])
    /\ to_reply(s)
    /\ UNCHANGED <<ballot, quoted, txn, voted, hook>>

-----------------------------------------------------------------------------
(* Free votes, commits and the gateway *)

\* uq_vote_per_category decides if another message came first.
insert_vote(s, c) ==
    LET m == message[s] IN
    /\ said(s, "awaiting_vote") /\ m.session.price = 0 /\ ballot.open
    /\ ~has_voted(m.phone, c)
    /\ voted' = voted \cup {[phone |-> m.phone, category |-> c, ref |-> Free]}
    /\ clear_session(s)
    /\ finish(s)
    /\ UNCHANGED <<ballot, quoted, txn, gateway, links, hook>>

cast_vote_directly(s, c) ==
    /\ over_ussd(s) /\ c \notin Ranked
    /\ insert_vote(s, c)

cast_chat_vote(s) ==
    /\ over_whatsapp(s) /\ said(s, "awaiting_vote")
    /\ insert_vote(s, message[s].session.category)

commit(s) ==
    /\ message[s] # Idle /\ message[s].step = "reply"
    /\ txn' = [r \in Refs |-> IF \E w \in message[s].writes : w.ref = r
                              THEN (CHOOSE w \in message[s].writes : w.ref = r).row
                              ELSE txn[r]]
    /\ finish(s)
    /\ UNCHANGED <<ballot, session, quoted, gateway, links, voted, hook>>

\* The worker dies, or the commit fails, after the reply.
lose(s) ==
    /\ message[s] # Idle
    /\ finish(s)
    /\ UNCHANGED <<ballot, session, quoted, txn, gateway, links, voted, hook>>

-----------------------------------------------------------------------------
(* The gateways and their notices *)

attempt_fails(r) ==
    /\ r \in charge /\ collected[r] = "nothing"
    /\ declined' = declined \cup {r}
    /\ UNCHANGED <<ballot, session, quoted, txn, charge, collected, answers, links,
                   voted, message, hook>>

customer_pays(r, amount) ==
    /\ r \in charge /\ collected[r] = "nothing"
    /\ collected' = [collected EXCEPT ![r] = amount]
    /\ UNCHANGED <<ballot, session, quoted, txn, charge, declined, answers, links,
                   voted, message, hook>>

answer(r, a) == answers' = answers \cup {[ref |-> r, answer |-> a]}
begin(h, r, stage) ==
    /\ hook[h] = Idle
    /\ hook' = [hook EXCEPT ![h] = [state |-> stage, ref |-> r]]
    /\ UNCHANGED <<ballot, session, quoted, txn, gateway, links, voted, message>>

\* The phone is told and its link dropped; a chatter's session goes too,
\* whichever conversation it is now in.
notify(r) ==
    /\ links' = links \ {r}
    /\ session' = [p \in Phones |->
        IF r \in links /\ p \in Chatters /\ txn[r].quote.phone = p
        THEN Idle ELSE session[p]]

\* The row is not there, or not yet.
success_ignored(r) ==
    /\ collected[r] # "nothing" /\ txn[r] = NoRow
    /\ answer(r, "ignored")
    /\ UNCHANGED <<ballot, session, quoted, txn, charge, collected, declined, links,
                   voted, message, hook>>

\* MUTANT of to_settle: a payment that failed once is done with.
still_pending(r) == txn[r].status = "pending"

to_settle(r) == txn[r].status # "success"

already_processed(r) ==
    /\ collected[r] # "nothing" /\ txn[r] # NoRow /\ ~to_settle(r)
    /\ answer(r, "already_processed")
    /\ UNCHANGED <<ballot, session, quoted, txn, charge, collected, declined, links,
                   voted, message, hook>>

\* JuniPay does not tell the amount; the row's own is taken.
short(r) == collected[r] = "short" /\ txn[r].quote.phone \in Chatters

begin_charge_success(h, r) ==
    /\ collected[r] # "nothing" /\ txn[r] # NoRow /\ to_settle(r)
    /\ begin(h, r, IF short(r) THEN "amount_mismatch" ELSE "paid")

read_parent(h) ==
    /\ hook[h].state = "paid"
    /\ hook' = [hook EXCEPT ![h].state = IF ballot.open THEN "cast" ELSE "ended"]
    /\ UNCHANGED <<ballot, session, quoted, txn, gateway, links, voted, message>>

rivals(r) == {v \in voted : v.phone = txn[r].quote.phone /\ v.category = txn[r].quote.category}
bought(r) == \E v \in voted : v.ref = r

\* The vote, the status, then the phone; all is committed at the end.
handle_charge_success(h) ==
    LET r == hook[h].ref IN
    /\ hook[h].state = "cast"
    /\ IF ballot.allow_revoting THEN ~bought(r) ELSE rivals(r) = {}
    /\ voted' = voted \cup {[phone |-> txn[r].quote.phone,
                             category |-> txn[r].quote.category, ref |-> r]}
    /\ txn' = [txn EXCEPT ![r].status = "success"]
    /\ notify(r) /\ answer(r, "ok")
    /\ hook' = [hook EXCEPT ![h] = Idle]
    /\ UNCHANGED <<ballot, quoted, charge, collected, declined, message>>

\* A vote paid for too late is left to be refunded.  Whatever the row has
\* become since it was read, it is written as failed (one read as failed is not
\* written again, which the model does not tell apart).
write_off(h) ==
    LET r == hook[h].ref IN
    /\ hook[h].state \in {"amount_mismatch", "ended", "declined"}
    /\ txn' = [txn EXCEPT ![r].status = "failed"]
    /\ notify(r)
    /\ IF hook[h].state = "declined" THEN UNCHANGED answers ELSE answer(r, hook[h].state)
    /\ hook' = [hook EXCEPT ![h] = Idle]
    /\ UNCHANGED <<ballot, quoted, charge, collected, declined, voted, message>>

begin_charge_failed(h, r) ==
    /\ r \in declined /\ txn[r].status = "pending"
    /\ begin(h, r, "declined")

\* The worker dies, or the commit fails, perhaps after the phone was told.
hook_dies(h) ==
    /\ hook[h] # Idle
    /\ notify(hook[h].ref) \/ UNCHANGED <<session, links>>
    /\ hook' = [hook EXCEPT ![h] = Idle]
    /\ UNCHANGED <<ballot, quoted, txn, gateway, voted, message>>

\* Another vote of this voter is in the way, and the handler fails: of the same
\* phone, or, where revoting is allowed, of the same conversation.
insert_refused(h) ==
    /\ hook[h].state = "cast" /\ rivals(hook[h].ref) # {}
    /\ hook' = [hook EXCEPT ![h] = Idle]
    /\ UNCHANGED <<ballot, session, quoted, txn, gateway, links, voted, message>>

organize(open, price) ==
    /\ ballot' = [ballot EXCEPT !.open = open, !.price = price]
    /\ UNCHANGED <<session, quoted, txn, gateway, links, voted, message, hook>>

Next ==
    \/ \E s \in Messages :
        \/ \E p \in Phones : receive(s, p)
        \/ no_effect(s)
        \/ handle_code_lookup(s)
        \/ \E c \in Categories :
            \/ handle_vote_input(s, c)
            \/ handle_category_selection(s, c)
            \/ cast_vote_directly(s, c)
        \/ \E n \in Counts : handle_vote_count(s, n)
        \/ handle_network_selection(s)
        \/ cancel_checkout(s)
        \/ \E r \in Refs : charge_and_respond(s, r) \/ handle_chat_vote(s, r)
        \/ charge_accepted(s)
        \/ charge_rejected(s)
        \/ charge_unanswered(s)
        \/ restart(s)
        \/ cast_chat_vote(s)
        \/ handle_election_lookup(s)
        \/ initiate_payment(s)
        \/ commit(s)
        \/ lose(s)
    \/ \E p \in Phones : expire(p)
    \/ \E r \in Refs :
        \/ attempt_fails(r)
        \/ \E amount \in {"short", "full"} : customer_pays(r, amount)
        \/ success_ignored(r)
        \/ already_processed(r)
    \/ \E h \in Hooks :
        \/ \E r \in Refs : begin_charge_success(h, r) \/ begin_charge_failed(h, r)
        \/ read_parent(h)
        \/ handle_charge_success(h)
        \/ insert_refused(h)
        \/ write_off(h)
        \/ hook_dies(h)
    \/ \E open \in BOOLEAN, price \in Prices : organize(open, price)

Spec == Init /\ [][Next]_phoneVars

-----------------------------------------------------------------------------
(* Properties *)

(* What is paid for is voted for: of a payment that came in full either    *)
(* the vote is there or its notice is still taken up, whatever has been    *)
(* written meanwhile - a charge that counted as refused, an attempt that   *)
(* failed before another paid, a failure written over a success, a lost    *)
(* answer.  Two answers end it without a vote: voting had ended, and the   *)
(* notice came before the row was committed.                               *)
NoPaymentIsLost ==
    \A r \in Refs : collected[r] = "full" =>
        \/ bought(r)
        \/ /\ txn[r].status # "success"
           /\ \A a \in answers : a.ref = r => a.answer \in {"ignored", "ended"}

(* Nobody is charged for what they have not been shown: the category, the  *)
(* number of votes and the price are those of a screen this phone received,*)
(* through changes of the price, expired sessions and overlapping messages.*)
ChargedAsQuoted ==
    \A s \in Messages : message[s] # Idle =>
        \A w \in message[s].writes : w.row.quote \in quoted
=============================================================================
