--------------------------------- MODULE UsageQuota --------------------------------
(*****************************************************************************)
(* The daily usage quotas of one user of the gateway: the counters that      *)
(* quota.py keeps in Redis, and the routes that require_scope_with_quotas    *)
(* (auth.py) guards.  A route may name several buckets, which are counted    *)
(* one after the other, each by an atomic script.                            *)
(*****************************************************************************)
EXTENDS Integers, Sequences

CONSTANTS
    Buckets,    \* "llm", "embedding", "audio"
    Limit,      \* the daily limit of each bucket
    Callers,    \* requests to the guarded routes
    Routes      \* for each guarded route, the buckets it names, in order

ASSUME QuotaAssumption == /\ Limit \in [Buckets -> Nat]
                          /\ Routes \subseteq Seq(Buckets)

VARIABLES
    used,       \* the counter of each bucket for the current day
    calls,      \* the requests: their buckets not yet counted, and their state
    granted     \* history: how often each bucket let somebody through today

quotaVars == <<used, calls, granted>>

Call == [status : {"idle", "counting", "served", "refused"}, left : Seq(Buckets)]

QuotaTypeOK == /\ used \in [Buckets -> Nat]
               /\ granted \in [Buckets -> Nat]
               /\ calls \in [Callers -> Call]

QuotaInit == /\ used = [b \in Buckets |-> 0]
             /\ granted = [b \in Buckets |-> 0]
             /\ calls = [c \in Callers |-> [status |-> "idle", left |-> <<>>]]

-----------------------------------------------------------------------------
\* Mutant of Exceeded: the count is compared before the increment.
MutantExceeded(b) == used[b] > Limit[b]

\* QuotaUsage.exceeded, of the count that the script returns.
Exceeded(b) == used[b] + 1 > Limit[b]

\* The script: a refused request stays counted.
Consume(b) == /\ used' = [used EXCEPT ![b] = @ + 1]
              /\ granted' = [granted EXCEPT ![b] = IF Exceeded(b) THEN @ ELSE @ + 1]

Begin(c, route) ==
    /\ calls[c].status = "idle"
    /\ calls' = [calls EXCEPT ![c] = [status |-> "counting", left |-> route]]
    /\ UNCHANGED <<used, granted>>

\* One round of the loop over the buckets of the route.
ConsumeNext(c) ==
    /\ calls[c].status = "counting" /\ calls[c].left # <<>>
    /\ LET b == Head(calls[c].left) IN
        /\ Consume(b)
        /\ calls' = [calls EXCEPT ![c] = IF Exceeded(b)
                                         THEN [status |-> "refused", left |-> <<>>]
                                         ELSE [@ EXCEPT !.left = Tail(calls[c].left)]]

Serve(c) ==
    /\ calls[c].status = "counting" /\ calls[c].left = <<>>
    /\ calls' = [calls EXCEPT ![c].status = "served"]
    /\ UNCHANGED <<used, granted>>

\* A RedisError ends the request with 503; what was counted stays counted.
QuotaUnavailable(c) ==
    /\ calls[c].status = "counting" /\ calls[c].left # <<>>
    /\ calls' = [calls EXCEPT ![c] = [status |-> "refused", left |-> <<>>]]
    /\ UNCHANGED <<used, granted>>

\* The next UTC day has keys of its own.
NewCounters == /\ used' = [b \in Buckets |-> 0]
               /\ granted' = [b \in Buckets |-> 0]
               /\ UNCHANGED calls

QuotaNext == \E c \in Callers : \/ \E route \in Routes : Begin(c, route)
                                \/ ConsumeNext(c)
                                \/ Serve(c)
                                \/ QuotaUnavailable(c)

-----------------------------------------------------------------------------
\* However requests of several routes interleave between the buckets they
\* count, no bucket lets more requests through in a day than its limit, and
\* none is let through uncounted.
WithinQuota == \A b \in Buckets : granted[b] <= Limit[b] /\ granted[b] <= used[b]
=============================================================================
