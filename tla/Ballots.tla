------------------------------- MODULE Ballots --------------------------------
(* Ballots other than the signed-in vote, and what is shown of all of      *)
(* them: votes by phone, votes confirmed by a code, nominations, promo     *)
(* codes and the tally. Each is an instance of its module with parameters  *)
(* and variables of its own, and what it promises is stated here.          *)
EXTENDS Naturals, FiniteSets

CONSTANTS
    PhoneDialers, PhoneChatters, PhoneCategories, PhoneRanked, PhonePrices,
    PhoneCounts, PhoneRefs, PhoneMessages, PhoneHooks,
    VerifiedVoters, VerifiedCandidates, VerifiedCodes, VerifiedEmails,
    VerifiedRequests, VerifiedRevoting,
    NominatedForms, NominatedCategories, NominatedNominees,
    NominatedMaxSubmissions, NominatedReviewers, NominatedMaxSaves,
    DiscountCodes, DiscountOrgs, DiscountActivities, DiscountDrafts,
    DiscountSavers, DiscountBuyers, DiscountPayments, DiscountLastDay,
    DiscountMaxSaves,
    TalliedCategories, TalliedPlaces, TalliedVotes, TalliedWeights,
    TalliedStreams, TalliedPolls

VARIABLES
    phone_ballot, phone_session, phone_quoted, phone_txn, phone_charge,
    phone_collected, phone_declined, phone_answers, phone_links,
    phone_voted, phone_message, phone_hook,
    verified_code, verified_sent, verified_lapsed, verified_votes,
    verified_cast_with, verified_voting_open, verified_account,
    verified_listed, verified_invited, verified_request,
    reviews_stage, reviews_form, reviews_submissions, reviews_candidates,
    reviews_photos, reviews_review, reviews_removed,
    promo_codes, promo_scopes, promo_saving, promo_saves, promo_activities,
    promo_payments, promo_redemptions, promo_unrecorded, promo_today,
    promo_highest, promo_crowded,
    tally_vote, tally_ballot, tally_status, tally_stream, tally_cache,
    tally_poll

Phone == INSTANCE PhoneVoting WITH
    Dialers <- PhoneDialers, Chatters <- PhoneChatters,
    Categories <- PhoneCategories, Ranked <- PhoneRanked,
    Prices <- PhonePrices, Counts <- PhoneCounts, Refs <- PhoneRefs,
    Messages <- PhoneMessages, Hooks <- PhoneHooks, ballot <- phone_ballot,
    session <- phone_session, quoted <- phone_quoted, txn <- phone_txn,
    charge <- phone_charge, collected <- phone_collected,
    declined <- phone_declined, answers <- phone_answers,
    links <- phone_links, voted <- phone_voted, message <- phone_message,
    hook <- phone_hook
phoneVars == <<
    phone_ballot, phone_session, phone_quoted, phone_txn, phone_charge,
    phone_collected, phone_declined, phone_answers, phone_links,
    phone_voted, phone_message, phone_hook>>

Verified == INSTANCE VerifiedVotes WITH
    Voters <- VerifiedVoters, Candidates <- VerifiedCandidates,
    Codes <- VerifiedCodes, Emails <- VerifiedEmails,
    Requests <- VerifiedRequests, Revoting <- VerifiedRevoting,
    code <- verified_code, sent <- verified_sent, lapsed <- verified_lapsed,
    votes <- verified_votes, cast_with <- verified_cast_with,
    voting_open <- verified_voting_open, account <- verified_account,
    listed <- verified_listed, invited <- verified_invited,
    request <- verified_request
verifiedVars == <<
    verified_code, verified_sent, verified_lapsed, verified_votes,
    verified_cast_with, verified_voting_open, verified_account,
    verified_listed, verified_invited, verified_request>>

Reviews == INSTANCE Nominations WITH
    Forms <- NominatedForms, Categories <- NominatedCategories,
    Nominees <- NominatedNominees,
    MaxSubmissions <- NominatedMaxSubmissions,
    Reviewers <- NominatedReviewers, MaxSaves <- NominatedMaxSaves,
    stage <- reviews_stage, form <- reviews_form,
    submissions <- reviews_submissions, candidates <- reviews_candidates,
    photos <- reviews_photos, review <- reviews_review,
    removed <- reviews_removed
reviewsVars == <<
    reviews_stage, reviews_form, reviews_submissions, reviews_candidates,
    reviews_photos, reviews_review, reviews_removed>>

Promo == INSTANCE PromoCodes WITH
    Codes <- DiscountCodes, Orgs <- DiscountOrgs,
    Activities <- DiscountActivities, Drafts <- DiscountDrafts,
    Savers <- DiscountSavers, Buyers <- DiscountBuyers,
    Payments <- DiscountPayments, LastDay <- DiscountLastDay,
    MaxSaves <- DiscountMaxSaves, codes <- promo_codes,
    scopes <- promo_scopes, saving <- promo_saving, saves <- promo_saves,
    activities <- promo_activities, payments <- promo_payments,
    redemptions <- promo_redemptions, unrecorded <- promo_unrecorded,
    today <- promo_today, highest <- promo_highest,
    crowded <- promo_crowded
promoVars == <<
    promo_codes, promo_scopes, promo_saving, promo_saves, promo_activities,
    promo_payments, promo_redemptions, promo_unrecorded, promo_today,
    promo_highest, promo_crowded>>

Tally == INSTANCE LiveResults WITH
    Categories <- TalliedCategories, Places <- TalliedPlaces,
    Votes <- TalliedVotes, Weights <- TalliedWeights,
    Streams <- TalliedStreams, Polls <- TalliedPolls, vote <- tally_vote,
    ballot <- tally_ballot, status <- tally_status, stream <- tally_stream,
    cache <- tally_cache, poll <- tally_poll
tallyVars == <<
    tally_vote, tally_ballot, tally_status, tally_stream, tally_cache,
    tally_poll>>

ASSUME BallotsAssumption ==
    \* A phone votes over one channel.
    /\ PhoneDialers \cap PhoneChatters = {}
    \* The form of a promo code holds numbers.
    /\ DiscountDrafts \subseteq [Promo!Columns -> Nat]
    /\ IsFiniteSet(DiscountPayments)
    \* Rows and candidates can be counted.
    /\ IsFiniteSet(TalliedCategories) /\ IsFiniteSet(TalliedVotes)
    /\ IsFiniteSet(TalliedPlaces) /\ TalliedPlaces \subseteq Nat
    /\ TalliedWeights \subseteq Nat

-----------------------------------------------------------------------------
(* Nobody is charged for what a screen of this phone has not shown:        *)
(* category, number of votes and price, over USSD and over WhatsApp        *)
(* (charge_and_respond of ussd.py, initiate_payment of                     *)
(* whatsapp_vote_service.py).                                              *)
ChargedAsQuoted == Phone!ChargedAsQuoted

(* What is paid for by phone is voted for: a payment that came in full    *)
(* has its vote, or its notice is still taken up, unless voting had ended  *)
(* or the notice came before the row was committed (payments.py,           *)
(* _handle_charge_success; ussd.py, _charge_and_respond).                  *)
NoPaymentIsLost == Phone!NoPaymentIsLost

(* An address has one vote, whatever codes it was sent and however they    *)
(* overlap (verify_and_cast of voting.py).                                 *)
OneVotePerAddress == Verified!OneVotePerAddress

(* What the review queue shows as approved has a candidate of its name in  *)
(* its category, with two reviewers at work, and with a namesake in        *)
(* another category (nomination_service.py, update_group_status).          *)
ApprovedIsOnTheBallot == Reviews!ApprovedIsOnTheBallot

(* The paid uses of a promo code none of whose payments were pending       *)
(* together stay within its limits, but for those that the vote webhook or *)
(* an organizer settled, which leave no row to count                       *)
(* (promo_code_service.py, resolve_for_checkout; payments.py,              *)
(* _handle_charge_success).                                                *)
LimitsHoldInTurn == Promo!LimitsHoldInTurn

(* The candidate's page, the lists of organizers and administrators and    *)
(* the messages give a candidate the same votes and, but for ties, the     *)
(* same rank (live_results.py, voting_service.py).                         *)
StandingsAgree == Tally!StandingsAgree

===============================================================================
