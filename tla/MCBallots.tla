------------------------------ MODULE MCBallots -------------------------------
(* Small instances of the parts of Ballots. A behaviour is one of a single *)
(* part, and the others stay as they began, so that one run checks them    *)
(* all.                                                                    *)
EXTENDS Naturals, FiniteSets, Ballots, TLC

CONSTANTS dialer, chatter, k1, k2, m1, m2, n1, v1, v2, c1, f1

VARIABLES
    part,  \* the part of the behaviour that takes place
    eligible_code, eligible_sent, eligible_lapsed, eligible_votes,
    eligible_cast_with, eligible_voting_open, eligible_account,
    eligible_listed, eligible_invited, eligible_request

draft(a, f, u, l, n) ==
    [is_active |-> a, valid_from |-> f, valid_until |-> u, usage_limit |-> l, per_person_limit |-> n]
\* A code that is on, of two uses and one each; one that is off, of the second day.
FewDrafts == {draft(1, 1, 0, 2, 1), draft(2, 2, 2, 2, 0)}

\* Every message comes from this phone.
OnlyFrom(caller) ==
    \A m \in {m1, m2} : phone_message'[m] # Phone!Idle => phone_message'[m].phone = caller

\* Messages that overlap, before anyone pays; or webhooks that overlap, beside one
\* message and at one price.
NobodyPays ==
    /\ phone_declined' = {}
    /\ \A r \in PhoneRefs : phone_collected'[r] = "nothing"
OneMessage ==
    /\ phone_ballot'.price = 1
    /\ \E m \in {m1, m2} : phone_message'[m] = Phone!Idle

\* Two submissions, reviewed twice, in one category, with the form as it is; or one
\* in either category.
InOneCategory ==
    /\ \A i \in reviews_submissions' : i.group[1] = k1
    /\ reviews_candidates'[<<k2, n1>>] = 0
    /\ reviews_form'[f1].field <= 1
OneSubmission ==
    /\ Cardinality(reviews_submissions') <= 1
    /\ reviews_review'[m2] = Reviews!Idle

Eligible == INSTANCE VerifiedVotes WITH
    Voters <- {v1}, Candidates <- {}, Codes <- {c1},
    Emails <- {dialer, chatter}, Requests <- {m1, m2}, Revoting <- FALSE,
    code <- eligible_code, sent <- eligible_sent, lapsed <- eligible_lapsed,
    votes <- eligible_votes, cast_with <- eligible_cast_with,
    voting_open <- eligible_voting_open, account <- eligible_account,
    listed <- eligible_listed, invited <- eligible_invited,
    request <- eligible_request
eligibleVars == <<
    eligible_code, eligible_sent, eligible_lapsed, eligible_votes,
    eligible_cast_with, eligible_voting_open, eligible_account,
    eligible_listed, eligible_invited, eligible_request>>

partVars == <<part, phoneVars, verifiedVars, reviewsVars, promoVars,
              tallyVars, eligibleVars>>

PhoneParts == {"ussd", "ussd_payments", "whatsapp", "whatsapp_payments"}
Parts == PhoneParts \cup {"codes", "lists", "reviews", "namesakes",
          "promo", "tally"}

MCInit ==
    /\ part \in Parts
    /\ Phone!Init
    /\ Verified!Init
    /\ Reviews!Init
    /\ Promo!Init
    /\ Tally!Init
    /\ Eligible!Init
    /\ part \notin PhoneParts =>
       phone_ballot = [open |-> TRUE, price |-> 0, allow_revoting |-> FALSE]
    /\ part \in {"ussd_payments", "whatsapp_payments"} => phone_ballot.price = 1

MCNext ==
    \/ /\ part \in PhoneParts
       /\ Phone!Next
       /\ OnlyFrom(IF part \in {"ussd", "ussd_payments"} THEN dialer ELSE chatter)
       /\ IF part \in {"ussd", "whatsapp"} THEN NobodyPays ELSE OneMessage
       /\ UNCHANGED <<part, verifiedVars, reviewsVars, promoVars, tallyVars,
                      eligibleVars>>
    \/ /\ part = "codes"
       /\ Verified!Next
       /\ UNCHANGED <<part, phoneVars, reviewsVars, promoVars, tallyVars,
                      eligibleVars>>
    \/ /\ part = "lists"
       /\ Eligible!Next
       /\ UNCHANGED <<part, phoneVars, verifiedVars, reviewsVars, promoVars,
                      tallyVars>>
    \/ /\ part = "reviews"
       /\ Reviews!Next /\ InOneCategory
       /\ UNCHANGED <<part, phoneVars, verifiedVars, promoVars, tallyVars,
                      eligibleVars>>
    \/ /\ part = "namesakes"
       /\ Reviews!Next /\ OneSubmission
       /\ UNCHANGED <<part, phoneVars, verifiedVars, promoVars, tallyVars,
                      eligibleVars>>
    \/ /\ part = "promo"
       /\ Promo!Next
       /\ UNCHANGED <<part, phoneVars, verifiedVars, reviewsVars, tallyVars,
                      eligibleVars>>
    \/ /\ part = "tally"
       /\ Tally!Next /\ \A v \in {v1, v2} :
              tally_vote'[v].state = "inserted" => Cardinality(tally_vote'[v].choice) <= 1
       /\ UNCHANGED <<part, phoneVars, verifiedVars, reviewsVars, promoVars,
                      eligibleVars>>

MCSpec == MCInit /\ [][MCNext]_partVars

Symmetric == Permutations({m1, m2})
===============================================================================
