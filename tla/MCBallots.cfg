\* Each part by itself, the other parts at rest.
CONSTANTS
    dialer = dialer
    chatter = chatter
    k1 = k1
    k2 = k2
    m1 = m1
    m2 = m2
    n1 = n1
    v1 = v1
    v2 = v2
    c1 = c1
    f1 = f1
    PhoneDialers = {dialer}
    PhoneChatters = {chatter}
    PhoneCategories = {k1, k2}
    PhoneRanked = {k2}
    PhonePrices = {0, 1}
    PhoneCounts = {2}
    PhoneRefs = {r1}
    PhoneMessages = {m1, m2}
    PhoneHooks = {m1, m2}
    VerifiedVoters = {v1}
    VerifiedCandidates = {n1}
    VerifiedCodes = {c1, c2, c3}
    VerifiedEmails = {}
    VerifiedRequests = {m1, m2}
    VerifiedRevoting = FALSE
    NominatedForms = {f1}
    NominatedCategories = {k1, k2}
    NominatedNominees = {n1}
    NominatedMaxSubmissions = 2
    NominatedReviewers = {m1, m2}
    NominatedMaxSaves = 1
    DiscountCodes = {c1}
    DiscountOrgs = {o1}
    DiscountActivities = {k1}
    DiscountDrafts <- FewDrafts
    DiscountSavers = {m1, m2}
    DiscountBuyers = {v1}
    DiscountPayments = {r1, r2}
    DiscountLastDay = 2
    DiscountMaxSaves = 2
    TalliedCategories = {k1, k2}
    TalliedPlaces = {1, 2}
    TalliedVotes = {v1, v2}
    TalliedWeights = {2}
    TalliedStreams = {}
    TalliedPolls = {}
SPECIFICATION MCSpec
SYMMETRY Symmetric
INVARIANTS ChargedAsQuoted OneVotePerAddress ApprovedIsOnTheBallot LimitsHoldInTurn StandingsAgree NoPaymentIsLost
\* A part may come to its bounds.
CHECK_DEADLOCK FALSE
