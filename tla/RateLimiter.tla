---------------------------- MODULE RateLimiter ----------------------------
(***************************************************************************)
(* RateLimiter of src/vsrs/enterprise/ratelimit.py: per identifier a       *)
(* bucket of burst tokens and the requests allowed in the last minute and  *)
(* hour.  The code keeps their times in a list; here a recorded request is *)
(* its number and its time, so that a set does: only how many there are is *)
(* looked at.  check() is cut between looking at the bucket and taking a   *)
(* token, and before recording; ApiGate runs it on threads.                *)
(***************************************************************************)
EXTENDS Integers, FiniteSets

CONSTANTS
    Keys,            \* identifiers: the API keys
    Configs,         \* the RateLimitConfigs a limiter may be built with
    Minute, Hour,    \* the two windows, in ticks of the model's clock
    Horizon          \* bound: the clock stops there

ASSUME LimitsAssumption == Configs \subseteq [perMinute : Nat, perHour : Nat, burst : Nat]
ASSUME WindowAssumption == Minute \in Nat \ {0} /\ Hour \in Nat \ {0} /\ Horizon \in Nat

VARIABLES
    config,          \* the limiter's configuration, never changed
    minuteRequests, hourRequests, \* the recorded requests of each identifier
    tokens,          \* _burst_tokens (an absent entry reads as BurstSize)
    now              \* time.time()

limiterVars == <<config, minuteRequests, hourRequests, tokens, now>>

PerMinute == config.perMinute
PerHour == config.perHour
BurstSize == config.burst

LimiterInit ==
    /\ config \in Configs
    /\ minuteRequests = [k \in Keys |-> {}]
    /\ hourRequests = [k \in Keys |-> {}]
    /\ tokens = [k \in Keys |-> BurstSize]
    /\ now = 0

\* The requests that are inside the window ending at t.
Recent(requests, t, window) == {q \in requests : q.at > t - window}

\* _check_window allows a request that began at t.
WindowAllows(requests, t, window, limit) == Cardinality(Recent(requests, t, window)) < limit

\* Both windows allow it.
Allowed(k, t) == /\ WindowAllows(minuteRequests[k], t, Minute, PerMinute)
                 /\ WindowAllows(hourRequests[k], t, Hour, PerHour)

\* _check_burst stores the number of tokens it read, less one.
SpendToken(k, read) ==
    /\ tokens' = [tokens EXCEPT ![k] = read - 1]
    /\ UNCHANGED <<config, minuteRequests, hourRequests, now>>

\* Recording the request for the hour only.
FaultyRecordRequest(k, q) ==
    /\ minuteRequests' = [minuteRequests EXCEPT ![k] = Recent(@, q.at, Minute)]
    /\ hourRequests' = [hourRequests EXCEPT ![k] = Recent(@ \union {q}, q.at, Hour)]
    /\ UNCHANGED <<config, tokens, now>>

\* _record_request: each list gets the request and loses those out of its window.
RecordRequest(k, q) ==
    /\ minuteRequests' = [minuteRequests EXCEPT ![k] = Recent(@ \union {q}, q.at, Minute)]
    /\ hourRequests' = [hourRequests EXCEPT ![k] = Recent(@ \union {q}, q.at, Hour)]
    /\ UNCHANGED <<config, tokens, now>>

\* reset(identifier) for one identifier, reset(None) for all of them.
ResetLimits(ks) ==
    /\ minuteRequests' = [k \in Keys |-> IF k \in ks THEN {} ELSE minuteRequests[k]]
    /\ hourRequests' = [k \in Keys |-> IF k \in ks THEN {} ELSE hourRequests[k]]
    /\ tokens' = [k \in Keys |-> IF k \in ks THEN BurstSize ELSE tokens[k]]
    /\ UNCHANGED <<config, now>>

\* get_usage: what is used of each limit.
LimitUsage(k) == [minute |-> Cardinality(Recent(minuteRequests[k], now, Minute)),
                  hour |-> Cardinality(Recent(hourRequests[k], now, Hour)),
                  burst |-> tokens[k]]

Tick ==
    /\ now < Horizon
    /\ now' = now + 1
    /\ UNCHANGED <<config, minuteRequests, hourRequests, tokens>>
=============================================================================
