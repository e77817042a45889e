------------------------------- MODULE Console --------------------------------
(* The console: queues, logs and health, pictures and documents, and the   *)
(* pages that list users. Each is an instance of its module with           *)
(* parameters and variables of its own, and what it promises is stated     *)
(* here.                                                                   *)
EXTENDS Naturals, FiniteSets

CONSTANTS
    MonitoredJobs, MonitoredQueues, MonitoredLong, MonitoredPurgers,
    MonitoredKept, MonitoredPage, MonitoredOverread, MonitoredLogs, MonitoredFingerprints, MonitoredCaptures, MonitoredTails,
    MonitoredLimit, MonitoredMaxTime, MonitoredProbes, MonitoredKeys,
    MonitoredLatencies, MonitoredRing, MonitoredMaxReadings,
    ImageClients, ImagePictures, ImageWidths, ImageQualities, ImageTabs,
    ImageMaxFiles,
    PaperClients, PaperPictures, PaperWidths, PaperQualities, PaperTabs,
    PaperMaxFiles,
    ListedUsers, ListedFounders, ListedRoles, ListedAdminRole,
    ListedDefaults, ListedPermissions, ListedKeys, ListedValues,
    ListedRequests, ListedPage, ListedMaxBatch, ListedMaxChanges

VARIABLES
    monitor_run, monitor_job, monitor_failed_count, monitor_failed_jobs,
    monitor_score, monitor_paused, monitor_purge, monitor_purged_queues, monitor_log,
    monitor_capture, monitor_clock, monitor_tail, monitor_cache,
    monitor_cleared, monitor_world, monitor_probe, monitor_ring,
    monitor_pushed,
    images_stored, images_image, images_disk, images_edge, images_encoding,
    images_shown, images_papers, images_upload, images_seen, images_review,
    papers_stored, papers_image, papers_disk, papers_edge, papers_encoding,
    papers_shown, papers_papers, papers_upload, papers_seen, papers_review,
    pages_account, pages_roles, pages_joined, pages_permits, pages_setting,
    pages_audit, pages_request, pages_changes, pages_toggles, pages_reader

Monitor == INSTANCE Monitoring WITH
    Jobs <- MonitoredJobs, NAMED_QUEUES <- MonitoredQueues,
    Long <- MonitoredLong, Purgers <- MonitoredPurgers,
    KEPT <- MonitoredKept, PAGE <- MonitoredPage,
    OVERREAD <- MonitoredOverread,
    Logs <- MonitoredLogs, Fingerprints <- MonitoredFingerprints,
    Captures <- MonitoredCaptures, Tails <- MonitoredTails,
    LIMIT <- MonitoredLimit, MaxTime <- MonitoredMaxTime,
    Probes <- MonitoredProbes, Keys <- MonitoredKeys,
    Latencies <- MonitoredLatencies, _RING <- MonitoredRing,
    MaxReadings <- MonitoredMaxReadings, run <- monitor_run,
    job <- monitor_job, failed_count <- monitor_failed_count,
    failed_jobs <- monitor_failed_jobs, score <- monitor_score,
    paused <- monitor_paused,
    purge <- monitor_purge, purged_queues <- monitor_purged_queues,
    log <- monitor_log, capture <- monitor_capture, clock <- monitor_clock,
    tail <- monitor_tail, cache <- monitor_cache,
    cleared <- monitor_cleared, world <- monitor_world,
    probe <- monitor_probe, ring <- monitor_ring, pushed <- monitor_pushed
monitorVars == <<
    monitor_run, monitor_job, monitor_failed_count, monitor_failed_jobs,
    monitor_score, monitor_paused, monitor_purge, monitor_purged_queues, monitor_log,
    monitor_capture, monitor_clock, monitor_tail, monitor_cache,
    monitor_cleared, monitor_world, monitor_probe, monitor_ring,
    monitor_pushed>>

Images == INSTANCE Files WITH
    Clients <- ImageClients, Pictures <- ImagePictures,
    Widths <- ImageWidths, Qualities <- ImageQualities, Tabs <- ImageTabs,
    MaxFiles <- ImageMaxFiles, stored <- images_stored,
    image <- images_image, disk <- images_disk, edge <- images_edge,
    encoding <- images_encoding, shown <- images_shown,
    papers <- images_papers, upload <- images_upload, seen <- images_seen,
    review <- images_review
imagesVars == <<
    images_stored, images_image, images_disk, images_edge, images_encoding,
    images_shown, images_papers, images_upload, images_seen, images_review>>

Papers == INSTANCE Files WITH
    Clients <- PaperClients, Pictures <- PaperPictures,
    Widths <- PaperWidths, Qualities <- PaperQualities, Tabs <- PaperTabs,
    MaxFiles <- PaperMaxFiles, stored <- papers_stored,
    image <- papers_image, disk <- papers_disk, edge <- papers_edge,
    encoding <- papers_encoding, shown <- papers_shown,
    papers <- papers_papers, upload <- papers_upload, seen <- papers_seen,
    review <- papers_review
papersVars == <<
    papers_stored, papers_image, papers_disk, papers_edge, papers_encoding,
    papers_shown, papers_papers, papers_upload, papers_seen, papers_review>>

Pages == INSTANCE AdminConsole WITH
    Users <- ListedUsers, Founders <- ListedFounders, Roles <- ListedRoles,
    ADMIN_ROLE <- ListedAdminRole, Defaults <- ListedDefaults,
    Permissions <- ListedPermissions, Keys <- ListedKeys,
    Values <- ListedValues, Requests <- ListedRequests, Page <- ListedPage,
    MaxBatch <- ListedMaxBatch, MaxChanges <- ListedMaxChanges,
    account <- pages_account, roles <- pages_roles, joined <- pages_joined,
    permits <- pages_permits, setting <- pages_setting,
    audit <- pages_audit, request <- pages_request,
    changes <- pages_changes, toggles <- pages_toggles,
    reader <- pages_reader
pagesVars == <<
    pages_account, pages_roles, pages_joined, pages_permits, pages_setting,
    pages_audit, pages_request, pages_changes, pages_toggles, pages_reader>>

ASSUME ConsoleAssumption ==
    \* A poll of the live tail, and a page of a list, have room for a row.
    /\ IsFiniteSet(MonitoredJobs) /\ MonitoredKept \in Nat
    /\ MonitoredPage \in Nat /\ MonitoredOverread \in Nat
    /\ IsFiniteSet(MonitoredLogs) /\ MonitoredLimit \in Nat \ {0}
    /\ IsFiniteSet(ListedUsers) /\ ListedFounders \subseteq ListedUsers
    /\ ListedPage \in Nat \ {0}

-----------------------------------------------------------------------------
(* Until enough jobs fail after it, in any queue, a failed job that is     *)
(* tracked is shown; and the card of its queue counts it, whatever is      *)
(* purged from other queues meanwhile (queue_service.py).                  *)
FailuresAreKept == Monitor!FailuresAreKept

(* A poll of the live tail passes over no entry that is there              *)
(* (app_logs.py, stream_logs).                                             *)
TailSkipsNothing == Monitor!TailSkipsNothing

(* What is served of a picture is the whole variant asked for, through     *)
(* crashes and shared caches (files.py, _variant).                         *)
ServedAsAsked == Images!ServedAsAsked

(* The documents on record were uploaded together and are encrypted, with  *)
(* two tabs uploading (organizations.py, upload_kyc_documents).            *)
DocumentsArePaired == Papers!DocumentsArePaired

(* Whoever reads the list of users to its end has seen all who were there  *)
(* at its beginning, while accounts come and go (base.py, get_all).        *)
PagesMissNoOne == Pages!PagesMissNoOne

===============================================================================
