------------------------------- MODULE ReadApi -------------------------------
(***************************************************************************)
(* GET /api/commitments: a request passes the rate limiter (rate_limit.rs, *)
(* incr_rate_limit in cache.rs), then reads the list of commitments        *)
(* through an entry of Redis (handle_commitments in main.rs).              *)
(*                                                                         *)
(* The limiter counts the requests of an address in a key that the request *)
(* which finds it absent gives its lifetime, in a call of its own.  The    *)
(* indexer stores a deposit in Postgres and then deletes the entry; it and *)
(* the requests do not wait for each other.  Any call may fail, and the    *)
(* backend may stop anywhere.                                              *)
(*                                                                         *)
(* The requests here are of one address.  The list is the number of        *)
(* deposits in it; a lifetime is in ticks, 0 if the key has none.          *)
(***************************************************************************)
EXTENDS Integers, Functions

CONSTANTS
    Requests,   \* requests in flight at a time
    NoKey,      \* a key of Redis that is not set
    LIMIT,      \* RATE_LIMIT_READ_PER_MIN
    WINDOW,     \* the 60 seconds of a counter
    TTL,        \* the 30 seconds of the entry
    MaxSaved    \* bound on the deposits saved

ASSUME ReadApiAssumption ==
    /\ LIMIT \in Nat \ {0} /\ WINDOW \in Nat \ {0} /\ TTL \in Nat \ {0}
    /\ MaxSaved \in Nat
    /\ NoKey \notin [n : Nat, ttl : Nat]

VARIABLES
    saved,    \* rows of the table `commitments`
    indexer,  \* "wait", or "invalidate" after a deposit was saved
    entry,    \* commitments:{pool}: [rows, ttl]
    counter,  \* ratelimit:read:{ip}: [n, ttl]
    pc,       \* where each request is
    rows,     \* what each request has read from Postgres
    admitted  \* history: requests let through, by how many ticks ago

vars == <<saved, indexer, entry, counter, pc, rows, admitted>>

Init ==
    /\ saved = 0
    /\ indexer = "wait"
    /\ entry = NoKey
    /\ counter = NoKey
    /\ pc = [r \in Requests |-> "idle"]
    /\ rows = [r \in Requests |-> 0]
    /\ admitted = [age \in 0 .. WINDOW - 1 |-> 0]

Goto(r, place) == pc' = [pc EXCEPT ![r] = place]

-----------------------------------------------------------------------------
(***************************************************************************)
(* The rate limiter.                                                       *)
(***************************************************************************)

\* Mutant: the count is compared one too late.
TooMany_late(count) == count > LIMIT + 1

TooMany(count) == count > LIMIT

\* Mutant: every request renews the lifetime.
StartsWindow_every(count) == count >= 1

StartsWindow(count) == count = 1

\* What INCR returns; LIMIT + 2 stands for every larger count.
Count ==
    IF counter = NoKey THEN 1
    ELSE IF counter.n > LIMIT + 1 THEN LIMIT + 2
    ELSE counter.n + 1

\* A request over the limit is answered 429.
Decide(r, count) ==
    IF TooMany(count)
    THEN Goto(r, "idle") /\ UNCHANGED admitted
    ELSE Goto(r, "lookup") /\ admitted' = [admitted EXCEPT ![0] = @ + 1]

INCR(r) ==
    /\ pc[r] = "idle"
    /\ counter' = [n |-> Count, ttl |-> IF counter = NoKey THEN 0 ELSE counter.ttl]
    /\ IF StartsWindow(Count)
       THEN Goto(r, "expire") /\ UNCHANGED admitted
       ELSE Decide(r, Count)
    /\ UNCHANGED <<saved, indexer, entry, rows>>

\* The request decides on the count it got, 1.
EXPIRE(r) ==
    /\ pc[r] = "expire"
    /\ counter' = IF counter = NoKey THEN NoKey ELSE [counter EXCEPT !.ttl = WINDOW]
    /\ Decide(r, 1)
    /\ UNCHANGED <<saved, indexer, entry, rows>>

-----------------------------------------------------------------------------
(***************************************************************************)
(* handle_commitments.                                                     *)
(***************************************************************************)

Hit(r) ==
    /\ pc[r] = "lookup"
    /\ entry # NoKey
    /\ Goto(r, "idle")
    /\ UNCHANGED <<saved, indexer, entry, counter, rows, admitted>>

\* An error of Redis counts as a miss.
Miss(r) ==
    /\ pc[r] = "lookup"
    /\ Goto(r, "query")
    /\ UNCHANGED <<saved, indexer, entry, counter, rows, admitted>>

get_commitments(r) ==
    /\ pc[r] = "query"
    /\ rows' = [rows EXCEPT ![r] = saved]
    /\ Goto(r, "fill")
    /\ UNCHANGED <<saved, indexer, entry, counter, admitted>>

\* Mutant: set is called where set_ex should be; the entry never expires.
Lifetime_forever == 0

Lifetime == TTL

\* The answer is stored and returned.
Fill(r) ==
    /\ pc[r] = "fill"
    /\ entry' = [rows |-> rows[r], ttl |-> Lifetime]
    /\ Goto(r, "idle")
    /\ UNCHANGED <<saved, indexer, counter, rows, admitted>>

\* EXPIRE or the query fails, which is answered 500; or the answer could not be
\* stored, which nobody notices.
CallFails(r) ==
    /\ pc[r] \in {"expire", "query", "fill"}
    /\ Goto(r, "idle")
    /\ UNCHANGED <<saved, indexer, entry, counter, rows, admitted>>

Proceed(r) ==
    EXPIRE(r) \/ Hit(r) \/ Miss(r) \/ get_commitments(r) \/ Fill(r) \/ CallFails(r)

-----------------------------------------------------------------------------
(***************************************************************************)
(* The indexer.                                                            *)
(***************************************************************************)

SaveDeposit ==
    /\ indexer = "wait"
    /\ saved < MaxSaved
    /\ saved' = saved + 1
    /\ indexer' = "invalidate"
    /\ UNCHANGED <<entry, counter, pc, rows, admitted>>

\* `let _ =` drops an error.
invalidate_pool ==
    /\ indexer = "invalidate"
    /\ entry' \in {NoKey, entry}
    /\ indexer' = "wait"
    /\ UNCHANGED <<saved, counter, pc, rows, admitted>>

-----------------------------------------------------------------------------
\* A tick less to live; a key without a lifetime stays.
Older(key) ==
    IF key = NoKey \/ key.ttl = 0 THEN key
    ELSE IF key.ttl = 1 THEN NoKey
    ELSE [key EXCEPT !.ttl = @ - 1]

\* The clock of Redis.
Tick ==
    /\ entry' = Older(entry)
    /\ counter' = Older(counter)
    /\ admitted' = [age \in DOMAIN admitted |->
                        IF age = 0 THEN 0 ELSE admitted[age - 1]]
    /\ UNCHANGED <<saved, indexer, pc, rows>>

\* The backend restarts.  Redis and Postgres go on; a row that was saved is not
\* saved again, so its invalidation is lost.
Crash ==
    /\ indexer' = "wait"
    /\ pc' = [r \in Requests |-> "idle"]
    /\ UNCHANGED <<saved, entry, counter, rows, admitted>>

Next ==
    \/ \E r \in Requests : INCR(r) \/ Proceed(r)
    \/ SaveDeposit \/ invalidate_pool
    \/ Tick
    \/ Crash

\* The clock of Redis runs, and a request that was let in goes on.
Spec ==
    /\ Init /\ [][Next]_vars
    /\ WF_vars(Tick)
    /\ \A r \in Requests : WF_vars(Proceed(r))

-----------------------------------------------------------------------------
(***************************************************************************)
(* Properties.                                                             *)
(***************************************************************************)

\* The windows are fixed, so two of them may meet inside one minute; never
\* three, however long EXPIRE takes and whether or not it fails
\* (cache.rs:183-194): within any WINDOW ticks at most twice the limit is let
\* through.
WindowBound == SumFunction(admitted) <= 2 * LIMIT

\* EXPIRE failed, or the backend stopped before it: no later request sends it.
Stuck ==
    /\ counter # NoKey
    /\ counter.ttl = 0
    /\ \A r \in Requests : pc[r] # "expire"

\* "Counters are kept in Redis with a TTL of 60 seconds" (rate_limit.rs:8-9): a
\* counter always goes away again, even under requests that never stop, with
\* one exception: the request that set it did not get to EXPIRE
\* (cache.rs:189-192).
LimitLifts == []<>(counter = NoKey \/ Stuck)

\* Neither the entry nor a request about to fill it hides the k-th deposit.
Shows(k) ==
    /\ entry # NoKey => entry.rows >= k
    /\ \A r \in Requests : pc[r] = "fill" => rows[r] >= k

\* However requests overlap with the indexer and whatever fails, a deposit that
\* was saved is in every list from some point on: what a late answer or a lost
\* invalidation left in Redis does not outlive its TTL (cache.rs:27-35,
\* main.rs:147-183).
EventuallyFresh == \A k \in 1 .. MaxSaved : saved >= k ~> [](Shows(k))
=============================================================================
