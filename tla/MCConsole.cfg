\* Each part by itself, the other parts at rest.
CONSTANTS
    a1 = a1
    a2 = a2
    m1 = m1
    m2 = m2
    u1 = u1
    u2 = u2
    w1 = w1
    w2 = w2
    k1 = k1
    k2 = k2
    admin = admin
    voter = voter
    MonitoredJobs = {a1, a2, j3}
    MonitoredQueues = {"celery", "emails"}
    MonitoredLong = {j3}
    MonitoredPurgers = {p1}
    MonitoredKept = 2
    MonitoredPage = 1
    MonitoredOverread = 2
    MonitoredLogs = {a1, a2, l3}
    MonitoredFingerprints = {f1, f2}
    MonitoredCaptures = {m1, m2}
    MonitoredTails = {t1}
    MonitoredLimit = 1
    MonitoredMaxTime = 4
    MonitoredProbes = {m1, m2}
    MonitoredKeys = {"celery"}
    MonitoredLatencies = {1, 2, 3}
    MonitoredRing = 2
    MonitoredMaxReadings = 3
    ImageClients = {{}, {"avif", "webp"}}
    ImagePictures <- SomePictures
    ImageWidths = {0, 65}
    ImageQualities = {0}
    ImageTabs = {}
    ImageMaxFiles = 1
    PaperClients = {}
    PaperPictures <- OnePicture
    PaperWidths = {0}
    PaperQualities = {0}
    PaperTabs = {m1, m2}
    PaperMaxFiles = 5
    ListedUsers = {u1, u2, u3, u4}
    ListedFounders = {u1, u2}
    ListedRoles = {admin}
    ListedAdminRole = admin
    ListedDefaults = {}
    ListedPermissions = {}
    ListedKeys = {}
    ListedValues = {1}
    ListedRequests = {s1}
    ListedPage = 1
    ListedMaxBatch = 1
    ListedMaxChanges = 1
SPECIFICATION MCSpec
SYMMETRY Symmetric
INVARIANTS FailuresAreKept ServedAsAsked DocumentsArePaired PagesMissNoOne
PROPERTIES TailSkipsNothing
\* A part may come to its bounds.
CHECK_DEADLOCK FALSE
