----------------------------- MODULE MCElections ------------------------------
(* Small instances of Elections and of LiveResults: what a ballot promises *)
(* those who vote, and what those who follow the results come to see. A    *)
(* behaviour is one of a single part, and the other stays as it began.     *)
EXTENDS Elections, TLC

CONSTANTS k1, v1, v2, m1, s1

VARIABLES
    part,  \* the part of the behaviour that takes place
    live_vote, live_ballot, live_status, live_stream, live_cache, live_poll

\* No way back to a draft, and no candidate taken off.
LaidOut == AllOperations \ {"unpublish", "remove_candidate"}

Live == INSTANCE LiveResults WITH
    Categories <- {k1}, Places <- {1}, Votes <- {v1, v2}, Weights <- {2},
    Streams <- {s1}, Polls <- {m1}, vote <- live_vote,
    ballot <- live_ballot, status <- live_status, stream <- live_stream,
    cache <- live_cache, poll <- live_poll
liveVars == <<
    live_vote, live_ballot, live_status, live_stream, live_cache, live_poll>>

partVars == <<part, vars, liveVars>>

Parts == {"election", "results"}

MCInit ==
    /\ part \in Parts
    /\ Init
    /\ part # "election" => start_datetime = 1 /\ end_datetime = 2
    /\ Live!Init

MCNext ==
    \/ /\ part = "election"
       /\ Next
       /\ UNCHANGED <<part, liveVars>>
    \/ /\ part = "results"
       /\ Live!Next
       /\ UNCHANGED <<part, vars>>

MCSpec == MCInit /\ [][MCNext]_partVars

\* Only the part at hand makes progress, under the fairness of its module.
in(p) == part = p
LiveFairness ==
    /\ WF_liveVars(in("results") /\ Live!close)
    /\ \A v \in {v1, v2} : WF_liveVars(in("results") /\ (Live!notify_vote_cast(v) \/ Live!commit(v)))
    /\ WF_liveVars(in("results") /\ (Live!recompute(s1) \/ Live!push(s1)))
    /\ WF_liveVars(in("results") /\ Live!set_cached(m1))
    /\ WF_liveVars(in("results") /\ Live!expire)
MCFairSpec == MCSpec /\ LiveFairness


-----------------------------------------------------------------------------
(* "Still recomputed every LIVE_RESULTS_CACHE_TTL_SECONDS": once voting is *)
(* over, polls are before long answered with the final tally and nothing   *)
(* else (live_results.py).                                                 *)
PollingSettles ==
    Live!PollingSettles

===============================================================================
