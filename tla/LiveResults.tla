----------------------------- MODULE LiveResults -----------------------------
(***************************************************************************)
(* What people see of one election or event while votes come in: the       *)
(* tallies, the streams that push them, and the cache behind polling.      *)
(*                                                                         *)
(* Every way of casting a vote inserts it, publishes to the topic of the   *)
(* parent, does the rest of its work (receipt, audit, notifications) and   *)
(* commits at the end of the request.  A stream reads in a session of its  *)
(* own, stores what it read in the cache, and sends it; polling answers    *)
(* from the cache, or reads and stores.  Which votes are admitted is the   *)
(* subject of Elections, Ballot and VotePayments.  A stream's inbox is     *)
(* kept as empty or not, and a cached answer is gone when its three        *)
(* seconds are over, which may be at any time.                             *)
(***************************************************************************)
EXTENDS Naturals, FiniteSetsExt

CONSTANTS
    Categories,
    Places,      \* numbers of the candidates of a category, in the ballot's order
    Votes,       \* rows of votes
    Weights,     \* what votes.count may be
    Streams,
    Polls        \* slots for polling requests

VARIABLES
    vote,        \* votes: not there, inserted by an open transaction, or committed
    ballot,      \* candidates, each <<category, place>>
    status,
    stream,
    cache,       \* live_results:<kind>:<id>
    poll         \* polling requests that have read and not yet stored

resultVars == <<vote, ballot, status, stream, cache, poll>>

NoVote == [state |-> "none"]
Closed == [state |-> "closed"]
Missing == [state |-> "missing"]
Read(V) == [state |-> "read", votes |-> V]
Contenders == Categories \X Places

get_votes == {v \in Votes : vote[v].state = "committed"}

\* The votes that were read stand for the answer made of them.
compute == Read(get_votes)

TypeOK ==
    /\ \A v \in Votes : vote[v].state # "none" =>
        /\ vote[v].choice \subseteq {c \in Contenders : c[1] = vote[v].category}
        /\ vote[v].count \in Weights
    /\ ballot \subseteq Contenders
    /\ status \in {"active", "completed"}
    /\ cache = Missing \/ cache.votes \subseteq Votes

Init ==
    /\ vote = [v \in Votes |-> NoVote]
    /\ ballot = Contenders
    /\ status = "active"
    /\ stream = [s \in Streams |-> Closed]
    /\ cache = Missing
    /\ poll = [p \in Polls |-> Closed]

-----------------------------------------------------------------------------
(* The tallies of a set of votes and the candidates there are *)

weight(V) == MapThenSumSet(LAMBDA v : vote[v].count, V)
votes_for(V, c) == weight({v \in V : c \in vote[v].choice})
of_category(V, k) == {v \in V : vote[v].category = k}
candidates_of(k) == {c \in ballot : c[1] = k}

\* Whoever has more votes comes first, and of two with the same the one
\* that the ballot lists first.
beats(V, c, d) == \/ votes_for(V, c) > votes_for(V, d)
                  \/ votes_for(V, c) = votes_for(V, d) /\ c[2] < d[2]
percent(n, total) == IF total = 0 THEN 0 ELSE (n * 10000) \div total

\* Choices are what a category's total counts, those for candidates that
\* have been removed included.
tally_votes_by_category(V) ==
    [k \in Categories |->
        LET total == MapThenSumSet(LAMBDA c : votes_for(V, c), {c \in Contenders : c[1] = k})
        IN  [total_votes |-> total,
             results |-> [c \in candidates_of(k) |->
                [vote_count |-> votes_for(V, c),
                 percentage |-> percent(votes_for(V, c), total),
                 rank |-> 1 + Cardinality({d \in candidates_of(k) : beats(V, d, c)})]]]]

get_live_results(V) ==
    [categories |-> tally_votes_by_category(V), total_votes |-> weight(V)]

\* The console adds up the categories.
get_admin_results(V) ==
    LET t == tally_votes_by_category(V) IN
    [categories |-> t,
     total_votes |-> MapThenSumSet(LAMBDA k : t[k].total_votes, Categories)]

\* One ranked table of all categories.
flat_ranks(V) ==
    [c \in ballot |-> 1 + Cardinality({d \in ballot : votes_for(V, d) > votes_for(V, c)})]

\* MUTANT of _get_candidate_standing: ranked among all of the election.
standing_in_the_election(V, c) ==
    [vote_count |-> votes_for(V, c),
     percentage |-> percent(votes_for(V, c), weight(V)),
     rank |-> flat_ranks(V)[c]]

\* What a candidate is told counts votes, not choices, and gives equal
\* candidates the same rank.
_get_candidate_standing(V, c) ==
    LET total == weight(of_category(V, c[1])) IN
    [vote_count |-> votes_for(V, c),
     percentage |-> percent(votes_for(V, c), total),
     rank |-> 1 + Cardinality({d \in candidates_of(c[1]) : votes_for(V, d) > votes_for(V, c)})]

\* The answer to RESULTS on WhatsApp, categories nobody voted in left out.
_handle_results(V) ==
    [k \in {k \in Categories : \E c \in Contenders : c[1] = k /\ votes_for(V, c) > 0} |->
        [c \in candidates_of(k) |-> votes_for(V, c)]]

-----------------------------------------------------------------------------
(* Casting *)

wake == stream' = [s \in Streams |->
    IF stream[s].state = "listening" THEN [stream[s] EXCEPT !.inbox = TRUE] ELSE stream[s]]

\* An abstention chooses nobody.
insert(v, k, choice, n) ==
    /\ vote[v] = NoVote /\ status = "active"
    /\ choice \subseteq {c \in ballot : c[1] = k}
    /\ vote' = [vote EXCEPT ![v] = [state |-> "inserted", category |-> k, choice |-> choice, count |-> n]]
    /\ UNCHANGED <<ballot, status, stream, cache, poll>>

notify_vote_cast(v) ==
    /\ vote[v].state = "inserted"
    /\ vote' = [vote EXCEPT ![v].state = "announced"]
    /\ wake
    /\ UNCHANGED <<ballot, status, cache, poll>>

commit(v) ==
    /\ vote[v].state = "announced"
    /\ vote' = [vote EXCEPT ![v].state = "committed"]
    /\ UNCHANGED <<ballot, status, stream, cache, poll>>

\* The receipt, the audit entry or the notification fails, or the process.
roll_back(v) ==
    /\ vote[v].state \in {"inserted", "announced"}
    /\ vote' = [vote EXCEPT ![v] = NoVote]
    /\ UNCHANGED <<ballot, status, stream, cache, poll>>

\* At any time; votes for the candidate stay.
remove_candidate(c) ==
    /\ c \in ballot
    /\ ballot' = ballot \ {c}
    /\ UNCHANGED <<vote, status, stream, cache, poll>>

close ==
    /\ status = "active"
    /\ status' = "completed"
    /\ UNCHANGED <<vote, ballot, stream, cache, poll>>

-----------------------------------------------------------------------------
(* Streams *)

subscribe(s) ==
    /\ stream[s] = Closed
    /\ stream' = [stream EXCEPT ![s] =
        [state |-> "listening", inbox |-> TRUE, read |-> Missing, shown |-> Read({})]]
    /\ UNCHANGED <<vote, ballot, status, cache, poll>>

\* MUTANT of fresh: a stream answers as polling does.
cached_or_fresh(r) == IF cache = Missing THEN r ELSE cache

fresh(r) == r

\* Takes a message, or starts, and reads.
recompute(s) ==
    LET t == stream[s] IN
    /\ t.state = "listening" /\ t.inbox /\ t.read = Missing
    /\ stream' = [stream EXCEPT ![s] = [t EXCEPT !.inbox = FALSE, !.read = fresh(compute)]]
    /\ UNCHANGED <<vote, ballot, status, cache, poll>>

\* Stores it and sends it.
push(s) ==
    LET t == stream[s] IN
    /\ t.state = "listening" /\ t.read # Missing
    /\ cache' = t.read
    /\ stream' = [stream EXCEPT ![s] = [t EXCEPT !.read = Missing, !.shown = t.read]]
    /\ UNCHANGED <<vote, ballot, status, poll>>

disconnect(s) ==
    /\ stream[s] # Closed
    /\ stream' = [stream EXCEPT ![s] = Closed]
    /\ UNCHANGED <<vote, ballot, status, cache, poll>>

-----------------------------------------------------------------------------
(* Polling *)

\* A hit is answered at once and changes nothing.
miss(p) ==
    /\ poll[p] = Closed /\ cache = Missing
    /\ poll' = [poll EXCEPT ![p] = compute]
    /\ UNCHANGED <<vote, ballot, status, stream, cache>>

set_cached(p) ==
    /\ poll[p] # Closed
    /\ cache' = poll[p]
    /\ poll' = [poll EXCEPT ![p] = Closed]
    /\ UNCHANGED <<vote, ballot, status, stream>>

\* MUTANT of has_a_lifetime: stored without one.
kept == FALSE

has_a_lifetime == cache # Missing

expire ==
    /\ has_a_lifetime
    /\ cache' = Missing
    /\ UNCHANGED <<vote, ballot, status, stream, poll>>

Next ==
    \/ \E v \in Votes :
        \/ \E k \in Categories, choice \in SUBSET Contenders, n \in Weights : insert(v, k, choice, n)
        \/ notify_vote_cast(v)
        \/ commit(v)
        \/ roll_back(v)
    \/ \E c \in Contenders : remove_candidate(c)
    \/ close
    \/ \E s \in Streams : subscribe(s) \/ recompute(s) \/ push(s) \/ disconnect(s)
    \/ \E p \in Polls : miss(p) \/ set_cached(p)
    \/ expire

Spec == Init /\ [][Next]_resultVars

\* Votes come to an end when the election does.  A transaction ends, a
\* stream that has read sends, a poll that has read answers, Redis expires.
FairSpec ==
    /\ Spec
    /\ WF_resultVars(close)
    /\ \A v \in Votes : WF_resultVars(notify_vote_cast(v) \/ commit(v))
    /\ \A s \in Streams : WF_resultVars(recompute(s) \/ push(s))
    /\ \A p \in Polls : WF_resultVars(set_cached(p))
    /\ WF_resultVars(expire)

-----------------------------------------------------------------------------
(* Properties *)

(* "Pushes the current tally": what a stream shows never loses a vote that *)
(* it has shown, whatever other streams and polls store in the cache they  *)
(* share.                                                                  *)
StreamsOnlyGrow ==
    [][\A s \in Streams :
        stream[s] # Closed /\ stream'[s] # Closed =>
            stream[s].shown.votes \subseteq stream'[s].shown.votes]_resultVars

(* "Still recomputed every LIVE_RESULTS_CACHE_TTL_SECONDS": once voting is *)
(* over, polls are before long answered with the final tally and nothing   *)
(* else, although slow readers store older ones.                           *)
PollingSettles == <>[](cache # Missing => cache.votes = get_votes)

(* "Pushes a fresh tally the instant a vote lands": a stream that is not   *)
(* about to read shows every vote that was committed.                      *)
StreamsCatchUp ==
    \A s \in Streams :
        stream[s].state = "listening" /\ ~stream[s].inbox /\ stream[s].read = Missing
            => stream[s].shown.votes = get_votes

(* "A candidate's rank/vote count/turnout, scoped to their OWN category":   *)
(* the candidate's page, the lists of organizers and administrators and    *)
(* the messages give everyone the same votes, and the rank of the page is  *)
(* that of the lists but for those with equally many.                      *)
StandingsAgree ==
    \A c \in ballot :
        LET own == _get_candidate_standing(get_votes, c)
            row == tally_votes_by_category(get_votes)[c[1]].results[c]
            level == {d \in candidates_of(c[1]) : votes_for(get_votes, d) = own.vote_count}
        IN  /\ own.vote_count = row.vote_count
            /\ row.rank \in own.rank..(own.rank + Cardinality(level) - 1)
            /\ own.rank <= flat_ranks(get_votes)[c]
            /\ c[1] \in DOMAIN _handle_results(get_votes) =>
                    _handle_results(get_votes)[c[1]][c] = own.vote_count

(* A candidate is told the share of the votes that the public sees.        *)
SharesAgree ==
    \A c \in ballot :
        _get_candidate_standing(get_votes, c).percentage =
            get_live_results(get_votes).categories[c[1]].results[c].percentage

(* The console and the public page count the same votes.                   *)
TotalsAgree ==
    get_admin_results(get_votes).total_votes = get_live_results(get_votes).total_votes
=============================================================================
