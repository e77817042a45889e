----------------------------- MODULE Financials -----------------------------
(***************************************************************************)
(* What a vote or a ticket costs, what Pollord takes of it, and the many   *)
(* places that report it: Financial Stats, payouts, the dashboards and the *)
(* admin console, each with queries of its own over the same sales.        *)
(*                                                                         *)
(* Money is in pesewas; Decimal arithmetic is exact but for its rounding.  *)
(* A sale that has succeeded is a `transactions` row for votes and, for    *)
(* tickets, a `ticket_transactions` row and the completed ticket_purchases *)
(* row of the same amount.  Time is counted in half days, so that a window *)
(* of days does not begin at midnight.                                     *)
(***************************************************************************)
EXTENDS Integers, FiniteSets, FiniteSetsExt

CONSTANTS
    Elections, Events,
    Users, Orgs,
    Refs,         \* payment references
    Prices,       \* of a vote or a ticket
    Overrides,    \* commission_rate_override_bps
    Discounts,    \* promo codes on offer: <<discount_type, discount_value>>
    Quantities,
    LastHalfDay   \* (a bound)

Listings == Elections \cup Events
NULL == -1

VARIABLES
    listing,  \* elections and events: creator, organization, plan, rate, fee_payer, price
    members,  \* organization_members
    sales,    \* transactions and ticket_transactions
    clock     \* half days

financeVars == <<listing, members, sales, clock>>

NoSale == [status |-> "none"]

Init ==
    /\ listing \in [Listings -> [creator : Users, org : Orgs, plan : {"launch", "custom"},
                                 override : {NULL}, fee_payer : {"organizer"}, price : Prices]]
    /\ members = [o \in Orgs |-> {listing[l].creator : l \in {k \in Listings : listing[k].org = o}}]
    /\ sales = [r \in Refs |-> NoSale]
    /\ clock = 1

TypeOK ==
    /\ \A l \in Listings : listing[l].fee_payer \in {"organizer", "buyer"}
                           /\ listing[l].override \in Overrides \cup {NULL}
    /\ members \in [Orgs -> SUBSET Users]
    /\ \A r \in Refs : sales[r].status \in {"none", "pending", "success", "failed"}
    /\ clock \in 1..LastHalfDay

-----------------------------------------------------------------------------
(* Prices and fees *)

half_up(n, d) == (2 * n + d) \div (2 * d)

\* The rate of the plan, or the negotiated one of a custom plan.
commission_rate_bps(kind, l) ==
    CASE listing[l].plan = "launch" -> IF kind = "vote" THEN 1000 ELSE 800
      [] listing[l].override = NULL -> 0
      [] OTHER -> listing[l].override

\* Never below zero; ROUND_DOWN.
discount_price(promo, base) ==
    CASE promo[1] = "percentage" -> (base * (100 - promo[2])) \div 100
      [] promo[1] = "fixed_amount" -> IF promo[2] > base THEN 0 ELSE base - promo[2]
      [] OTHER -> base

buyer_facing_price(base, bps, fee_payer) ==
    IF fee_payer = "buyer" THEN base + half_up(base * bps, 10000) ELSE base

\* MUTANT of fee_from_charged_amount: the surcharge is taxed as well.
fee_of_the_total(amount, bps, fee_payer) == half_up(amount * bps, 10000)

\* What the buyer pays on top is backed out of the total.
fee_from_charged_amount(amount, bps, fee_payer) ==
    IF fee_payer = "buyer" THEN half_up(amount * bps, 10000 + bps)
                           ELSE half_up(amount * bps, 10000)

\* What Paystack reports, or an estimate.
processing_fee(sale) == IF sale.fees = NULL THEN half_up(sale.amount * 195, 10000) ELSE sale.fees

\* MUTANT of payer_of: the toggle as it is now.
payer_today(sale) == listing[sale.listing].fee_payer

\* "Snapshotted from the parent election/event's fee_payer at initiation"
payer_of(sale) == sale.fee_payer

platform_fee(sale) ==
    fee_from_charged_amount(sale.amount, commission_rate_bps(sale.kind, sale.listing), payer_of(sale))

net(sale) == sale.amount - platform_fee(sale) - processing_fee(sale)

-----------------------------------------------------------------------------
(* Organizers, buyers, administrators *)

\* Checkout for n votes, or n tickets of one type.
initiate_payment(r, l, kind, n, promo) ==
    LET discounted == discount_price(promo, listing[l].price)
        unit == IF kind = "vote" /\ discounted = 0 THEN 1 ELSE discounted
        bps == commission_rate_bps(kind, l)
        charged == buyer_facing_price(unit, bps, listing[l].fee_payer)
    IN  /\ sales[r] = NoSale
        /\ l \in Elections => kind = "vote"
        /\ charged * n > 0
        /\ sales' = [sales EXCEPT ![r] =
            [status |-> "pending", listing |-> l, kind |-> kind, count |-> n, at |-> clock,
             amount |-> charged * n, fee_payer |-> listing[l].fee_payer, fees |-> NULL,
             unit |-> unit, bps |-> bps]]
        /\ UNCHANGED <<listing, members, clock>>

\* With the fee Paystack reports, if it does.
settle(r, status, fees) ==
    /\ sales[r].status = "pending"
    /\ sales' = [sales EXCEPT ![r].status = status, ![r].fees = fees]
    /\ UNCHANGED <<listing, members, clock>>

\* update_election, update_event
set_fee_payer(l, payer) ==
    /\ listing[l].fee_payer # payer
    /\ listing' = [listing EXCEPT ![l].fee_payer = payer]
    /\ UNCHANGED <<members, sales, clock>>

set_price(l, price) ==
    /\ listing[l].price # price
    /\ listing' = [listing EXCEPT ![l].price = price]
    /\ UNCHANGED <<members, sales, clock>>

override_event_commission_rate(l, bps) ==
    /\ listing[l].override # bps
    /\ listing' = [listing EXCEPT ![l].override = bps]
    /\ UNCHANGED <<members, sales, clock>>

join(o, u) ==
    /\ u \notin members[o]
    /\ members' = [members EXCEPT ![o] = @ \cup {u}]
    /\ UNCHANGED <<listing, sales, clock>>

leave(o, u) ==
    /\ u \in members[o]
    /\ members' = [members EXCEPT ![o] = @ \ {u}]
    /\ UNCHANGED <<listing, sales, clock>>

tick ==
    /\ clock < LastHalfDay
    /\ clock' = clock + 1
    /\ UNCHANGED <<listing, members, sales>>

Next ==
    \/ \E r \in Refs, l \in Listings, n \in Quantities, promo \in Discounts, k \in {"vote", "ticket"} :
        initiate_payment(r, l, k, n, promo)
    \/ \E r \in Refs, f \in {NULL, 2} : settle(r, "success", f)
    \/ \E r \in Refs : settle(r, "failed", NULL)
    \/ \E l \in Listings, p \in {"organizer", "buyer"} : set_fee_payer(l, p)
    \/ \E l \in Listings, p \in Prices : set_price(l, p)
    \/ \E l \in Events, b \in Overrides \cup {NULL} : override_event_commission_rate(l, b)
    \/ \E o \in Orgs, u \in Users : join(o, u) \/ leave(o, u)
    \/ tick

Spec == Init /\ [][Next]_financeVars

-----------------------------------------------------------------------------
(* Financial Stats *)

success == {r \in Refs : sales[r].status = "success"}
of_kind(kind) == {r \in success : sales[r].kind = kind}
amount_of(r) == sales[r].amount
net_of(r) == net(sales[r])
revenue(refs) == MapThenSumSet(amount_of, refs)

\* Everything the user's teammates have created.
get_teammate_ids(u) == {u} \cup UNION {members[o] : o \in {p \in Orgs : u \in members[p]}}
fetch_rows(u) == {r \in Refs : sales[r] # NoSale /\ listing[sales[r].listing].creator \in get_teammate_ids(u)}

in_window(refs, start, end) == {r \in refs : sales[r].at >= start /\ sales[r].at <= end}

\* The successful rows of the last so many days.
summarize(u, days) ==
    LET rows == in_window(fetch_rows(u), clock - 2 * days, clock) \cap success IN
    [gross |-> revenue(rows), net |-> MapThenSumSet(net_of, rows), count |-> Cardinality(rows)]

\* The chart has a bucket for each of those days that begins at midnight.
time_series(u, days) ==
    LET rows == in_window(fetch_rows(u), clock - 2 * days, clock) \cap success
        today == clock \div 2
    IN  [d \in today - days + 1..today |-> revenue({r \in rows : sales[r].at \div 2 = d})]

-----------------------------------------------------------------------------
(* The dashboards, the console and the payouts *)

get_revenue_by_election(l) == revenue({r \in of_kind("vote") : sales[r].listing = l})
get_revenue_by_event(l) == revenue({r \in of_kind("ticket") : sales[r].listing = l})

get_system_stats == revenue(of_kind("vote")) + revenue(of_kind("ticket"))

created_by_members(o, ls) == {l \in ls : listing[l].creator \in members[o]}
listed(kind, ls) == {r \in of_kind(kind) : sales[r].listing \in ls}

\* MUTANT of revenue_by_organization: votes reach it through elections only.
revenue_of_elections_and_tickets(o) ==
    revenue(listed("vote", created_by_members(o, Elections)))
    + revenue(listed("ticket", created_by_members(o, Events)))

revenue_by_organization(o) ==
    revenue(listed("vote", created_by_members(o, Elections)))
    + revenue(listed("vote", created_by_members(o, Events)))
    + revenue(listed("ticket", created_by_members(o, Events)))

\* The drill-in: elections with their votes, events with their tickets.
get_organization_analytics(o) ==
    MapThenSumSet(get_revenue_by_election, created_by_members(o, Elections))
    + MapThenSumSet(get_revenue_by_event, created_by_members(o, Events))

get_top_organizations(o) == revenue({r \in of_kind("vote") : listing[sales[r].listing].org = o})

\* Votes count on the day they were ordered.
get_platform_timeline(days) == revenue({r \in success : sales[r].at \div 2 > clock \div 2 - days})

\* The console's lists, their exports and the details behind a row: of an
\* event the tickets are counted, and the money of its votes.
count_of(r) == sales[r].count
sold(kind, l) == MapThenSumSet(count_of, listed(kind, {l}))
list_all_elections == [l \in Elections |-> [sold |-> sold("vote", l), revenue |-> revenue(listed("vote", {l}))]]
list_all_events == [l \in Events |-> [sold |-> sold("ticket", l), revenue |-> revenue(listed("vote", {l}))]]
get_election_detail(l) == list_all_elections[l]
get_admin_event_detail(l) == list_all_events[l]
export_elections_excel == list_all_elections
export_events_excel == list_all_events

list_admin_transactions(start) == revenue({r \in success : sales[r].at >= start})

\* Decimal.quantize rounds half to even.
half_even(n, d) ==
    IF (2 * n) % (2 * d) = d /\ (n \div d) % 2 = 0 THEN n \div d ELSE half_up(n, d)

\* PayoutService: the revenue of a listing less its commission.
get_available(l) ==
    LET gross == IF l \in Elections THEN get_revenue_by_election(l) ELSE get_revenue_by_event(l)
        kind == IF l \in Elections THEN "vote" ELSE "ticket"
    IN  gross - half_even(gross * commission_rate_bps(kind, l), 10000)

-----------------------------------------------------------------------------
(* Properties *)

within(x, y, slack) == x - y <= slack /\ y - x <= slack

(* "The commission is added on top so the organizer still nets the full    *)
(* base price": of what a buyer pays with the fee, Financial Stats takes   *)
(* for commission what was put on top of each unit, exactly for one unit   *)
(* and to within half a pesewa a unit, while the rate stays as it was.     *)
SurchargeIsTheFee ==
    \A r \in success :
        LET s == sales[r] IN
        s.fee_payer = "buyer" /\ s.bps = commission_rate_bps(s.kind, s.listing) =>
            within(2 * (s.amount - platform_fee(s)), 2 * s.count * s.unit,
                   IF s.count = 1 THEN 0 ELSE s.count)

(* "An organizer flipping the toggle after some sales already happened     *)
(* shouldn't retroactively change what past transactions are reported as": *)
(* nor do a new price, other sales, or people coming and going.            *)
PastSalesKeepTheirReport ==
    [][\A r \in success :
        (\A l \in Listings : listing'[l].override = listing[l].override) =>
            net_of(r)' = net_of(r)]_financeVars

(* "These rows sum to the platform total" when every creator belongs to    *)
(* exactly one organization.                                               *)
OrganizationsAddUp ==
    (\A l \in Listings : Cardinality({o \in Orgs : listing[l].creator \in members[o]}) = 1) =>
        MapThenSumSet(revenue_by_organization, Orgs) = get_system_stats

(* "... so the figures reconcile with the drill-in an admin has already    *)
(* seen."                                                                  *)
DrillInReconciles ==
    \A o \in Orgs : revenue_by_organization(o) = get_organization_analytics(o)

(* The same of the ranking by revenue.                                     *)
RankingReconciles ==
    \A o \in Orgs : get_top_organizations(o) = get_organization_analytics(o)

(* "Platform-wide event list with org name and revenue aggregation": the   *)
(* rows of the console's lists add up to the platform's revenue.           *)
ListsAddUp ==
    LET of_election(l) == get_election_detail(l).revenue
        of_event(l) == get_admin_event_detail(l).revenue
    IN  MapThenSumSet(of_election, Elections) + MapThenSumSet(of_event, Events) = get_system_stats

(* "So the organizer still nets the full base price", in the payout: half  *)
(* a pesewa a unit is left to rounding.                                    *)
OrganizerNetsTheBase ==
    \A l \in Listings :
        LET paid == listed(IF l \in Elections THEN "vote" ELSE "ticket", {l})
            count(r) == sales[r].count
            base(r) == sales[r].count * sales[r].unit
        IN  (\A r \in paid : sales[r].fee_payer = "buyer"
                             /\ sales[r].bps = commission_rate_bps(sales[r].kind, l))
            => get_available(l) + MapThenSumSet(count, paid) >= MapThenSumSet(base, paid)

(* The chart shows the money the summary counts.                           *)
ChartAddsUp ==
    \A u \in Users, days \in {1, 2} :
        LET chart == time_series(u, days)
            bar(d) == chart[d]
        IN  MapThenSumSet(bar, DOMAIN chart) = summarize(u, days).gross
=============================================================================
