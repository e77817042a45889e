\* Each part by itself; one team with an invitation, two without its custom role.
CONSTANTS
    l1 = l1
    l2 = l2
    u1 = u1
    o1 = o1
    c1 = c1
    g1 = g1
    i1 = i1
    a1 = a1
    a2 = a2
    m1 = m1
    m2 = m2
    Users = {f, a}
    Registered = {f}
    Orgs = {o1}
    Invitations = {i1}
    Roles = {"member"}
    Customizing = {o1}
    Managers = {s1}
    Joiners = {s2}
    TeamUsers = {u1, u2}
    TeamRegistered = {u1}
    TeamOrgs = {o1, o2}
    TeamInvitations = {i1}
    TeamRoles = {"member"}
    TeamCustomizing = {}
    TeamManagers = {s1}
    TeamJoiners = {}
    SoldElections = {l1}
    SoldEvents = {l2}
    SoldUsers = {u1}
    SoldOrgs = {o1, o2}
    SoldRefs = {r1}
    SoldPrices = {37, 1015}
    SoldOverrides = {333}
    SoldDiscounts <- FewDiscounts
    SoldQuantities = {1, 3}
    SoldLastHalfDay = 2
    ChatTickets = {c1}
    ChatAgents = {a1, a2}
    ChatRequests = {m1, m2}
    ChatWatchers = {w1}
    ChatRetention = 1
    ChatLastDay = 3
    ChatMaxMessages = 2
    EventTypes = {t1}
    EventCategories = {}
    EventGuests = {g1}
    EventInvitations = {i1}
    EventRequests = {m1, m2}
    EventQuantities = {1}
    EventCapacities = {3}
    EventFreeStock = 9
    EventLowStock = 20
    EventMaxSold = 2
    EventMaxNominees = 1
    MailBroadcasts = {m1, m2}
    MailMaxRecipients = 3
    MailChunkSize = 2
    MailRegistered = {"event_broadcast_tasks"}
    MailWorkersDie = TRUE
    MailEmails = {a1, a2}
    MailAdmins = {m1, m2}
    MailMaxRetries = 1
    MailMaxFailures = 1
    MailMembers = {u1, u2}
    MailSales = {s1, s2, s3}
    MailMaxWindows = 2
SPECIFICATION MCSpec
SYMMETRY Symmetric
INVARIANTS OneOwner WatchersCatchUp TypesAccountForTickets AcceptedHasASeat CountsAreExact
PROPERTIES PastSalesKeepTheirReport SecondTeamStays
\* A part may come to its bounds.
CHECK_DEADLOCK FALSE
