----------------------------- MODULE Elections -----------------------------
(***************************************************************************)
(* One election from draft to results: the organizer's requests, the two   *)
(* Celery beat tasks that start and end it on time, and its voters.        *)
(*                                                                         *)
(* Every request reads the election's status in one statement and commits  *)
(* what it decided in a later one, without a lock on the row; a vote is    *)
(* checked against the status, the window and the ballot and inserted      *)
(* later, under a unique constraint.  Requests that are refused change     *)
(* nothing and are left out.  A ballot paper with several choices, or an   *)
(* abstention, takes the same way as one with a single choice.             *)
(***************************************************************************)
EXTENDS Integers, FiniteSets

CONSTANTS
    Categories, \* category ids
    Candidates, \* candidate ids
    Voters,     \* those the election lets vote (a voter is a voter hash)
    Members,    \* the voters who are signed in
    Sessions,   \* slots for votes served concurrently
    Organizers, \* slots for organizer requests served concurrently
    Operations, \* the organizer requests that are made
    Beat,       \* does Celery beat run?
    Salts,      \* {} or, with allow_revoting, the salts of a voter's hashes
    LastTick,   \* bound on the clock
    MaxEdits    \* bound on rewordings of the ballot

Nothing == "nothing"
AllOperations == {"publish", "schedule", "close", "unpublish", "delete_election",
    "reschedule", "extend", "reword", "add_category", "delete_category",
    "add_candidate", "remove_candidate"}

ASSUME ConstantsAssumption ==
    /\ Operations \subseteq AllOperations
    /\ Members \subseteq Voters
    /\ Beat \in BOOLEAN
    /\ Salts \subseteq Nat \ {0}
    /\ LastTick \in Nat \ {0} /\ MaxEdits \in Nat

VARIABLES
    status,         \* elections.status, or "deleted"
    start_datetime,
    end_datetime,
    categories,     \* the categories of the election
    candidates,     \* the candidates of each category
    wording,        \* what else voters see: title, rules, names
    votes,          \* rows of the votes table
    receipts,       \* rows of vote_receipts per voter
    request,        \* the organizer requests being served
    casting,        \* the votes being served
    starting,       \* activate_scheduled_elections has read this election
    ending,         \* check_election_status has read this election
    now

vars == <<status, start_datetime, end_datetime, categories, candidates, wording,
          votes, receipts, request, casting, starting, ending, now>>
window == <<start_datetime, end_datetime>>
ballot == <<categories, candidates, wording>>
box == <<votes, receipts>>
beat == <<starting, ending>>

Times == 0..LastTick
Ballots == [category : Categories, voter : Voters, choice : Candidates]
Rows == [category : Categories, voter : Voters, choice : Candidates, salt : {0} \cup Salts]
NoRequest == [op |-> Nothing, date |-> 0]
NoBallot == [category |-> Nothing, voter |-> Nothing, choice |-> Nothing]

TypeOK ==
    /\ status \in {"draft", "scheduled", "active", "completed", "deleted"}
    /\ start_datetime \in Times /\ end_datetime \in Times
    /\ categories \subseteq Categories
    /\ candidates \in [Categories -> SUBSET Candidates]
    /\ wording \in 0..MaxEdits
    /\ votes \subseteq Rows
    /\ receipts \in [Voters -> Nat]
    /\ request \in [Organizers -> [op : Operations \cup {Nothing}, date : Times]]
    /\ casting \in [Sessions -> Ballots \cup {NoBallot}]
    /\ starting \in BOOLEAN /\ ending \in BOOLEAN
    /\ now \in Times

Init ==
    /\ status = "draft"
    /\ start_datetime \in Times /\ end_datetime \in Times
    /\ start_datetime < end_datetime
    /\ categories = {}
    /\ candidates = [c \in Categories |-> {}]
    /\ wording = 0
    /\ votes = {}
    /\ receipts = [v \in Voters |-> 0]
    /\ request = [o \in Organizers |-> NoRequest]
    /\ casting = [s \in Sessions |-> NoBallot]
    /\ starting = FALSE /\ ending = FALSE
    /\ now = 0

-----------------------------------------------------------------------------
(* What a request reads, and finds good *)

\* MUTANT of VALID_TRANSITIONS: a completed election may be published again.
reopening ==
    [draft |-> {"scheduled", "active"}, scheduled |-> {"active", "draft"},
     active |-> {"completed", "draft"}, completed |-> {"active"}, deleted |-> {}]

VALID_TRANSITIONS ==
    [draft |-> {"scheduled", "active"}, scheduled |-> {"active", "draft"},
     active |-> {"completed", "draft"}, completed |-> {}, deleted |-> {}]

leads_to(to) == to \in VALID_TRANSITIONS[status]

\* MUTANT of has_candidates: the categories are there, nobody looks inside.
has_categories == categories # {}

has_candidates ==
    /\ categories # {}
    /\ \A c \in categories : candidates[c] # {}

\* MUTANT of before_voting: the ballot may be changed in any status.
any_time == status # "deleted"

before_voting == status \in {"draft", "scheduled"}

allowed(op) ==
    \/ op = "publish" /\ leads_to("active") /\ now <= end_datetime /\ has_candidates
    \/ op = "schedule" /\ leads_to("scheduled")
    \/ op = "close" /\ leads_to("completed")
    \/ op = "unpublish" /\ leads_to("draft") /\ (status = "active" => votes = {})
    \/ op = "delete_election" /\ status = "draft"
    \/ op = "extend" /\ (before_voting \/ status = "active")
    \/ op \in {"reschedule", "reword", "add_category", "delete_category", "add_candidate"}
       /\ before_voting
    \/ op = "remove_candidate" /\ status # "deleted"

read_election(o, op) ==
    /\ request[o] = NoRequest
    /\ op \in Operations /\ allowed(op)
    /\ \E d \in IF op = "reschedule" THEN Times \ {start_datetime}
                ELSE IF op = "extend" THEN Times \ {end_datetime} ELSE {0} :
           request' = [request EXCEPT ![o] = [op |-> op, date |-> d]]
    /\ UNCHANGED <<status, window, ballot, box, casting, beat, now>>

\* The request commits; it fails if the election is gone.
commits(o, op) ==
    /\ request[o].op = op
    /\ status # "deleted"
    /\ request' = [request EXCEPT ![o] = NoRequest]

becomes(o, op, to) ==
    /\ commits(o, op)
    /\ status' = to
    /\ UNCHANGED <<window, ballot, box, casting, beat, now>>

-----------------------------------------------------------------------------
(* What it writes *)

publish_election(o) == becomes(o, "publish", "active")
\* MUTANT of schedule_election: a status no reader knows.
schedule_misspelt(o) == becomes(o, "schedule", "planned")
schedule_election(o) == becomes(o, "schedule", "scheduled")
close_election(o) == becomes(o, "close", "completed")
unpublish_election(o) == becomes(o, "unpublish", "draft")

\* The rows that refer to the election stop the delete once there are votes.
delete_election(o) ==
    /\ commits(o, "delete_election")
    /\ votes = {}
    /\ status' = "deleted"
    /\ categories' = {}
    /\ candidates' = [c \in Categories |-> {}]
    /\ UNCHANGED <<window, wording, box, casting, beat, now>>

update_election(o) ==
    /\ \/ /\ commits(o, "reschedule")
          /\ start_datetime' = request[o].date
          /\ UNCHANGED <<end_datetime, wording>>
       \/ /\ commits(o, "extend")
          /\ end_datetime' = request[o].date
          /\ UNCHANGED <<start_datetime, wording>>
       \/ /\ commits(o, "reword")
          /\ wording < MaxEdits
          /\ wording' = wording + 1
          /\ UNCHANGED window
    /\ UNCHANGED <<status, categories, candidates, box, casting, beat, now>>

add_category(o) ==
    /\ commits(o, "add_category")
    /\ \E c \in Categories \ categories : categories' = categories \cup {c}
    /\ UNCHANGED <<status, window, candidates, wording, box, casting, beat, now>>

\* Its candidates go with it; a vote in the category stops the delete.
delete_category(o) ==
    /\ commits(o, "delete_category")
    /\ \E c \in categories :
        /\ \A w \in votes : w.category # c
        /\ categories' = categories \ {c}
        /\ candidates' = [candidates EXCEPT ![c] = {}]
    /\ UNCHANGED <<status, window, wording, box, casting, beat, now>>

\* The new id is one no vote names.
add_candidate(o) ==
    /\ commits(o, "add_candidate")
    /\ \E c \in categories, a \in Candidates :
        /\ \A d \in Categories : a \notin candidates[d]
        /\ \A w \in votes : w.choice # a
        /\ candidates' = [candidates EXCEPT ![c] = @ \cup {a}]
    /\ UNCHANGED <<status, window, categories, wording, box, casting, beat, now>>

remove_candidate(o) ==
    /\ commits(o, "remove_candidate")
    /\ \E c \in categories : \E a \in candidates[c] :
        candidates' = [candidates EXCEPT ![c] = @ \ {a}]
    /\ UNCHANGED <<status, window, categories, wording, box, casting, beat, now>>

-----------------------------------------------------------------------------
(* Voters *)

rows_of(b) == {w \in votes : w.category = b.category /\ w.voter = b.voter}

open_for_voting ==
    /\ status = "active"
    /\ start_datetime <= now /\ now <= end_datetime

\* MUTANT of cast_vote: the status of the election is not looked at.
cast_unchecked(s, b) ==
    /\ casting[s] = NoBallot
    /\ start_datetime <= now /\ now <= end_datetime
    /\ b.category \in categories /\ b.choice \in candidates[b.category]
    /\ Salts = {} => rows_of(b) = {}
    /\ casting' = [casting EXCEPT ![s] = b]
    /\ UNCHANGED <<status, window, ballot, box, request, beat, now>>

cast_vote(s, b) ==
    /\ casting[s] = NoBallot
    /\ open_for_voting
    /\ b.category \in categories /\ b.choice \in candidates[b.category]
    /\ Salts = {} => rows_of(b) = {}
    /\ casting' = [casting EXCEPT ![s] = b]
    /\ UNCHANGED <<status, window, ballot, box, request, beat, now>>

\* A signed-in voter gets a receipt row for every vote.
keep_receipt(v) ==
    receipts' = IF v \in Members THEN [receipts EXCEPT ![v] = @ + 1] ELSE receipts

with_salt(b, n) == [category |-> b.category, voter |-> b.voter, choice |-> b.choice, salt |-> n]

\* MUTANT of insert_vote: the table has no unique constraint.
insert_unconstrained(s) ==
    LET b == casting[s] IN
    /\ b # NoBallot /\ b.category \in categories
    /\ \E n \in IF Salts = {} THEN {0} ELSE Salts : votes' = votes \cup {with_salt(b, n)}
    /\ keep_receipt(b.voter)
    /\ casting' = [casting EXCEPT ![s] = NoBallot]
    /\ UNCHANGED <<status, window, ballot, request, beat, now>>

\* The category must still be there, and uq_vote_per_category must hold.
insert_vote(s) ==
    LET b == casting[s] IN
    /\ b # NoBallot /\ b.category \in categories
    /\ \E n \in IF Salts = {} THEN {0} ELSE Salts :
        /\ \A w \in rows_of(b) : w.salt # n
        /\ votes' = votes \cup {with_salt(b, n)}
    /\ keep_receipt(b.voter)
    /\ casting' = [casting EXCEPT ![s] = NoBallot]
    /\ UNCHANGED <<status, window, ballot, request, beat, now>>

-----------------------------------------------------------------------------
(* Celery beat *)

read_expired ==
    /\ Beat /\ ~ending
    /\ status = "active" /\ end_datetime < now
    /\ ending' = TRUE
    /\ UNCHANGED <<status, window, ballot, box, request, casting, starting, now>>

\* MUTANT of check_election_status: the session is closed without a commit.
end_uncommitted ==
    /\ ending
    /\ ending' = FALSE
    /\ UNCHANGED <<status, window, ballot, box, request, casting, starting, now>>

check_election_status ==
    /\ ending
    /\ ending' = FALSE
    /\ status' = IF status = "deleted" THEN status ELSE "completed"
    /\ UNCHANGED <<window, ballot, box, request, casting, starting, now>>

due == status = "scheduled" /\ start_datetime <= now /\ now <= end_datetime /\ has_candidates

read_scheduled ==
    /\ Beat /\ ~starting /\ due
    /\ starting' = TRUE
    /\ UNCHANGED <<status, window, ballot, box, request, casting, ending, now>>

\* MUTANT of activate_scheduled_elections: the session is closed without a commit.
activate_uncommitted ==
    /\ starting
    /\ starting' = FALSE
    /\ UNCHANGED <<status, window, ballot, box, request, casting, ending, now>>

activate_scheduled_elections ==
    /\ starting
    /\ starting' = FALSE
    /\ status' = IF status = "deleted" THEN status ELSE "active"
    /\ UNCHANGED <<window, ballot, box, request, casting, ending, now>>

\* A request or a task dies, or is refused by the database, before its commit.
roll_back ==
    /\ \/ /\ \E o \in Organizers : request[o] # NoRequest
                                   /\ request' = [request EXCEPT ![o] = NoRequest]
          /\ UNCHANGED <<casting, beat>>
       \/ /\ \E s \in Sessions : casting[s] # NoBallot
                                 /\ casting' = [casting EXCEPT ![s] = NoBallot]
          /\ UNCHANGED <<request, beat>>
       \/ /\ starting /\ starting' = FALSE
          /\ UNCHANGED <<request, casting, ending>>
       \/ /\ ending /\ ending' = FALSE
          /\ UNCHANGED <<request, casting, starting>>
    /\ UNCHANGED <<status, window, ballot, box, now>>

tick ==
    /\ now < LastTick
    /\ now' = now + 1
    /\ UNCHANGED <<status, window, ballot, box, request, casting, beat>>

Next ==
    \/ \E o \in Organizers, op \in Operations : read_election(o, op)
    \/ \E o \in Organizers :
        \/ publish_election(o) \/ schedule_election(o)
        \/ close_election(o) \/ unpublish_election(o)
        \/ delete_election(o) \/ update_election(o)
        \/ add_category(o) \/ delete_category(o)
        \/ add_candidate(o) \/ remove_candidate(o)
    \/ \E s \in Sessions, b \in Ballots : cast_vote(s, b)
    \/ \E s \in Sessions : insert_vote(s)
    \/ read_expired \/ check_election_status
    \/ read_scheduled \/ activate_scheduled_elections
    \/ roll_back
    \/ tick

Spec == Init /\ [][Next]_vars

\* Beat fires every minute, and not every run of a task dies.
Fairness ==
    /\ WF_vars(read_expired) /\ SF_vars(check_election_status)
    /\ WF_vars(read_scheduled) /\ SF_vars(activate_scheduled_elections)
FairSpec == Spec /\ Fairness

-----------------------------------------------------------------------------
(* Properties *)

(* Whatever is served at the same time, a voter has one row per category   *)
(* unless the election allows revoting: has_voted is a check-then-insert   *)
(* and uq_vote_per_category is what has to hold.                           *)
OneVoteEach ==
    Salts = {} => \A v, w \in votes : v.category = w.category /\ v.voter = w.voter => v = w

(* Votes exist only where voting has begun: "Cannot revert to draft after  *)
(* votes have been cast" (unpublish_election).                             *)
VotedMeansStarted == votes # {} => status \in {"active", "completed"}

(* Voting is open only on a ballot where every category has a candidate to *)
(* vote for, the condition publish_election and the beat task put first.   *)
ActiveHasCandidates ==
    status = "active" => categories # {} /\ \A c \in categories : candidates[c] # {}

(* "Once an election is active, its ballot ... is locked so results stay   *)
(* trustworthy" (elections.py): no vote sees the ballot change.            *)
BallotLocked == [][votes # {} => UNCHANGED ballot]_vars

(* VALID_TRANSITIONS leads nowhere from completed: voting does not resume. *)
CompletedIsFinal == [][status = "completed" => status' = "completed"]_vars

(* "Voting has closed and results are ready": no vote arrives afterwards.  *)
ResultsAreFinal == [][status = "completed" => votes' = votes]_vars

(* The receipt of a signed-in voter "for a vote already cast in this       *)
(* election" can be looked up: get_by_user_and_election finds one row.     *)
ReceiptIsFound == \A w \in votes : w.voter \in Members => receipts[w.voter] = 1

(* "Without this, elections never expire on their own": once the end is    *)
(* past for good, voting does not stay open, whatever the requests write.  *)
ExpiredIsClosed == <>[](end_datetime < now) => <>[](status # "active")

(* An election that stays due to start does not stay scheduled.            *)
StartsOnSchedule == <>[](start_datetime <= now /\ now <= end_datetime /\ has_candidates)
                    => []<>(status # "scheduled")

phase ==
    IF status = "active" THEN "voting" ELSE IF status = "completed" THEN "closed" ELSE "preparing"

without_salt(w) == [category |-> w.category, voter |-> w.voter, choice |-> w.choice]

Promise == INSTANCE Ballot WITH
    box <- {without_salt(w) : w \in votes}, Wordings <- 0..MaxEdits

(* The requests of a single organizer, with no task at work and nothing    *)
(* taken back, keep what an election promises its voters (Ballot).         *)
KeepsThePromise == Promise!Spec
=============================================================================
