\* One payment against free votes of its voter, two concurrent requests, price edits.
CONSTANTS
    Refs = {r1}
    Voters = {a}
    Reqs = {q1, q2}
    Prices = {100, 200}
    Amounts = {250}
    MaxUssdVotes = 1
    AllowRevoting = FALSE
    BuyerPaysFee = TRUE
    CommissionBps = 1000
    DiscountPercent = 50
SPECIFICATION FairSpec
INVARIANTS OneVotePerPayment VotesArePaidFor RedeemedOncePerVote
PROPERTY PaymentsSettle
