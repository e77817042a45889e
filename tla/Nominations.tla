---------------------------- MODULE Nominations ----------------------------
(***************************************************************************)
(* Nominations of one election: the forms, what the public submits, and    *)
(* the review that makes candidates of the nominees.                       *)
(*                                                                         *)
(* Submissions of one nominee for one category are reviewed as a group.  A *)
(* review loads the group twice, flushes the rows that get another status, *)
(* which locks them until it commits, then reads the candidates of the     *)
(* category or deletes photos from the file store.  A group whose rows     *)
(* need no writing is not locked, and (category, name) is not unique among *)
(* candidates.  Submissions are numbered in the order they arrive.         *)
(* Reviewing does not ask whether voting has started.  Names, answers and  *)
(* notifications are left out; of a form's questions there is the one that *)
(* asks for a photo.                                                       *)
(***************************************************************************)
EXTENDS Integers, FiniteSets

CONSTANTS
    Forms,
    Categories,
    Nominees,        \* names
    MaxSubmissions,
    Reviewers,       \* slots for reviews and edits in progress
    MaxSaves         \* how often a form may be saved again (a bound)

VARIABLES
    stage,        \* elections.status: a draft, or active and whatever follows
    form,         \* nomination_forms
    submissions,  \* nomination_submissions
    candidates,   \* candidates: how many rows there are of each name and category
    photos,       \* files in the store, by the submission they belong to
    review,       \* the reviews and removals in progress
    removed       \* groups whose candidate an organizer has removed since

nominationVars == <<stage, form, submissions, candidates, photos, review, removed>>

Idle == [op |-> "idle"]
NoForm == "no form"
Statuses == {"pending", "approved", "rejected"}
Groups == Categories \X Nominees
Submissions == [id : 1..MaxSubmissions, form : Forms \cup {NoForm}, group : Groups,
                field : 0..MaxSaves + 1, status : Statuses]

TypeOK ==
    /\ stage \in {"draft", "active"}
    /\ form \in [Forms -> [state : {"none", "open", "deleted"}, field : 0..MaxSaves + 1]]
    /\ submissions \subseteq Submissions
    /\ candidates \in [Groups -> Nat]
    /\ photos \subseteq 1..MaxSubmissions
    /\ removed \subseteq Groups

Init ==
    /\ stage = "draft"
    /\ form = [f \in Forms |-> [state |-> "none", field |-> 0]]
    /\ submissions = {}
    /\ candidates = [g \in Groups |-> 0]
    /\ photos = {}
    /\ review = [s \in Reviewers |-> Idle]
    /\ removed = {}

get_group(g) == {i \in submissions : i.group = g}
get_by_category(c) == {g \in Groups : g[1] = c /\ candidates[g] > 0}

\* The queue goes through a group in the order of its submissions, and shows
\* the status of the last one.
last_submitted(g) == CHOOSE i \in get_group(g) : \A k \in get_group(g) : k.id <= i.id

\* The rows a review has flushed and not committed.
Flushed == {"approved", "approve", "rejected", "reject"}
locked(s) == IF review[s].op \in Flushed THEN review[s].writes ELSE {}

-----------------------------------------------------------------------------
(* Forms and submissions *)

\* With a question that asks for a photo.  A private form has the same link.
create_form(f) ==
    /\ form[f].state = "none"
    /\ form' = [form EXCEPT ![f] = [state |-> "open", field |-> 1]]
    /\ UNCHANGED <<stage, submissions, candidates, photos, review, removed>>

\* Every save replaces the questions by new ones.
update_form(f) ==
    /\ form[f].state = "open" /\ form[f].field <= MaxSaves
    /\ form' = [form EXCEPT ![f].field = @ + 1]
    /\ UNCHANGED <<stage, submissions, candidates, photos, review, removed>>

\* ON DELETE SET NULL for its submissions, which waits for reviews of them.
delete_form(f) ==
    /\ form[f].state = "open"
    /\ \A s \in Reviewers, i \in submissions : i.form = f => i.id \notin locked(s)
    /\ form' = [form EXCEPT ![f].state = "deleted"]
    /\ submissions' = {[i EXCEPT !.form = IF @ = f THEN NoForm ELSE @] : i \in submissions}
    /\ UNCHANGED <<stage, candidates, photos, review, removed>>

next_id == Cardinality(submissions) + 1
arrive(f, g, q) ==
    /\ next_id <= MaxSubmissions
    /\ submissions' = submissions \cup
        {[id |-> next_id, form |-> f, group |-> g, field |-> q, status |-> "pending"]}
    /\ UNCHANGED <<stage, form, candidates, review, removed>>

\* The photo was uploaded before, and the answer holds its address.
submit_public(f, g) ==
    /\ form[f].state = "open"
    /\ arrive(f, g, form[f].field)
    /\ photos' = photos \cup {next_id}

add_manual(g) ==
    /\ arrive(NoForm, g, 0)
    /\ UNCHANGED photos

-----------------------------------------------------------------------------
(* The review *)

\* The group as it is first loaded, with the statuses the request will know.
begin_review(s, g, verdict) ==
    /\ review[s] = Idle
    /\ get_group(g) # {}
    /\ review' = [review EXCEPT ![s] =
        [op |-> "load", verdict |-> verdict, group |-> g,
         loaded |-> {<<i.id, i.status>> : i \in get_group(g)}]]
    /\ UNCHANGED <<stage, form, submissions, candidates, photos, removed>>

\* Loaded again: rows that have arrived since are new to the request, the
\* others keep the status it knows.  Those of another status will be written.
select_group(s) ==
    LET r == review[s]
        arrived == {i \in get_group(r.group) : \A k \in r.loaded : k[1] # i.id}
        known == r.loaded \cup {<<i.id, i.status>> : i \in arrived}
    IN  /\ r.op = "load"
        /\ review' = [review EXCEPT ![s] =
            [op |-> "flush", verdict |-> r.verdict, group |-> r.group,
             rows |-> {k[1] : k \in r.loaded},
             writes |-> {k[1] : k \in {l \in known : l[2] # r.verdict}}]]
        /\ UNCHANGED <<stage, form, submissions, candidates, photos, removed>>

\* The UPDATE waits for whoever holds one of its rows.
flush(s) ==
    LET r == review[s] IN
    /\ r.op = "flush"
    /\ \A u \in Reviewers \ {s} : locked(u) \cap r.writes = {}
    /\ review' = [review EXCEPT ![s] =
        [op |-> r.verdict, group |-> r.group, rows |-> r.rows, writes |-> r.writes]]
    /\ UNCHANGED <<stage, form, submissions, candidates, photos, removed>>

\* MUTANT of match: a candidate of any category of the election will do.
match_in_election(g) == \E k \in Groups : candidates[k] > 0 /\ k[2] = g[2]

match(g) == \E k \in get_by_category(g[1]) : k[2] = g[2]

read_candidates(s) ==
    LET r == review[s] IN
    /\ r.op = "approved"
    /\ review' = [review EXCEPT ![s] =
        [op |-> "approve", group |-> r.group, writes |-> r.writes, match |-> match(r.group)]]
    /\ UNCHANGED <<stage, form, submissions, candidates, photos, removed>>

\* Only answers to questions that the form still has are looked at.
delete_photo_answers(s) ==
    LET r == review[s] IN
    /\ r.op = "rejected"
    /\ photos' = photos \ {i.id : i \in {k \in submissions :
        k.id \in r.rows /\ k.form # NoForm /\ form[k.form].state = "open" /\ form[k.form].field = k.field}}
    /\ review' = [review EXCEPT ![s] = [op |-> "reject", writes |-> r.writes]]
    /\ UNCHANGED <<stage, form, submissions, candidates, removed>>

\* The rows that were flushed have the verdict.
set_group_status(ids, verdict) ==
    submissions' = {IF i.id \in ids THEN [i EXCEPT !.status = verdict] ELSE i :
                    i \in submissions}

create_candidate(g) == candidates' = [candidates EXCEPT ![g] = @ + 1]

approve(s) ==
    LET r == review[s] IN
    /\ r.op = "approve"
    /\ set_group_status(r.writes, "approved")
    /\ IF r.match
       THEN UNCHANGED <<candidates, removed>>
       ELSE create_candidate(r.group) /\ removed' = removed \ {r.group}
    /\ review' = [review EXCEPT ![s] = Idle]
    /\ UNCHANGED <<stage, form, photos>>

reject(s) ==
    LET r == review[s] IN
    /\ r.op = "reject"
    /\ set_group_status(r.writes, "rejected")
    /\ review' = [review EXCEPT ![s] = Idle]
    /\ UNCHANGED <<stage, form, candidates, photos, removed>>

roll_back(s) ==
    /\ review[s] # Idle
    /\ review' = [review EXCEPT ![s] = Idle]
    /\ UNCHANGED <<stage, form, submissions, candidates, photos, removed>>

-----------------------------------------------------------------------------
(* The organizer's own edits, and the election *)

add_candidate(g) ==
    /\ stage = "draft" /\ candidates[g] = 0
    /\ create_candidate(g)
    /\ removed' = removed \ {g}
    /\ UNCHANGED <<stage, form, submissions, photos, review>>

\* At any time.
remove_candidate(g) ==
    /\ candidates[g] > 0
    /\ candidates' = [candidates EXCEPT ![g] = @ - 1]
    /\ removed' = removed \cup {g}
    /\ UNCHANGED <<stage, form, submissions, photos, review>>

publish ==
    /\ stage = "draft" /\ \A c \in Categories : get_by_category(c) # {}
    /\ stage' = "active"
    /\ UNCHANGED <<form, submissions, candidates, photos, review, removed>>

Next ==
    \/ \E f \in Forms :
        \/ create_form(f)
        \/ update_form(f)
        \/ delete_form(f)
        \/ \E g \in Groups : submit_public(f, g)
    \/ \E g \in Groups : add_manual(g) \/ add_candidate(g) \/ remove_candidate(g)
    \/ \E s \in Reviewers :
        \/ \E g \in Groups, v \in {"approved", "rejected"} : begin_review(s, g, v)
        \/ select_group(s)
        \/ flush(s)
        \/ read_candidates(s)
        \/ delete_photo_answers(s)
        \/ approve(s)
        \/ reject(s)
        \/ roll_back(s)
    \/ publish

Spec == Init /\ [][Next]_nominationVars

-----------------------------------------------------------------------------
(* Properties *)

(* "approve turns a group into a real Candidate": a group the queue shows  *)
(* as approved has a candidate of its name in its category, unless an      *)
(* organizer has removed it, with any number of reviewers at work.         *)
ApprovedIsOnTheBallot ==
    \A g \in Groups :
        get_group(g) # {} /\ last_submitted(g).status = "approved" /\ g \notin removed
            => candidates[g] > 0

(* "Once active, ... the ballot is locked so results stay trustworthy": no *)
(* candidate joins it while people vote.                                   *)
BallotKeepsItsNames ==
    [][stage # "draft" => \A g \in Groups : candidates'[g] <= candidates[g]]_nominationVars

(* A nominee becomes one candidate of a category.                          *)
OneCandidateEach == \A g \in Groups : candidates[g] <= 1

(* "Delete stored photo files from all submissions in a rejected group."   *)
RejectedPhotosAreGone ==
    \A i \in submissions : i.status = "rejected" /\ i.id \in photos =>
        \E s \in Reviewers : review[s] # Idle
=============================================================================
