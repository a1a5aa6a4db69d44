------------------------------ MODULE ApiGate ------------------------------
(***************************************************************************)
(* What an API request passes before its handler runs: require_api_key and *)
(* require_scope of src/vsrs/api/auth.py over the APIKeyManager of         *)
(* src/vsrs/enterprise/auth.py, the RateLimiter and the AuditLogger of     *)
(* src/vsrs/enterprise/audit.py, and the handlers of                       *)
(* src/vsrs/api/enterprise_routes.py that change one of the three.         *)
(* Requests run on the threads of a pool.  The two windows are read in one *)
(* step and recorded in one step: only requests of one key that overlap    *)
(* could tell.                                                             *)
(***************************************************************************)
EXTENDS RateLimiter, Sequences

CONSTANTS
    Threads,       \* of the pool
    AdminKeys,     \* keys whose scopes include key:admin and admin:all
    KeysAtStart,   \* keys the embedding program created before serving
    MaxEvents,     \* max_events of the audit log; 0 is unlimited
    Requests,      \* bound: the requests altogether
    Nobody         \* no request

ASSUME GateAssumption == /\ AdminKeys \subseteq Keys /\ KeysAtStart \subseteq Keys
                         /\ MaxEvents \in Nat /\ Requests \in Nat
                         /\ IsFiniteSet(Threads)

\* A request on its way: its stage, its number, its key, when it was let in, the
\* tokens it read, and whether it met no other of its key (history).
ServedRequests ==
    [stage : {"bucket", "windows", "record", "audit", "trim", "handle"}, id : Nat,
     key : Keys, since : Nat, read : Int, alone : BOOLEAN]

ASSUME NobodyAssumption == Nobody \notin ServedRequests

VARIABLES
    keyStatus,     \* "absent", "valid" or "revoked" (expiry reads like revocation)
    request,       \* what each thread is serving, or Nobody
    events,        \* _events of the audit log
    served,        \* how many requests came in; numbers them
    logged,        \* history: every event ever logged, in order
    granted        \* history: the undisturbed requests let through, by key

gateVars == <<limiterVars, keyStatus, request, events, served, logged, granted>>

GateInit ==
    /\ LimiterInit
    /\ keyStatus = [k \in Keys |-> IF k \in KeysAtStart THEN "valid" ELSE "absent"]
    /\ request = [h \in Threads |-> Nobody]
    /\ events = <<>> /\ logged = <<>> /\ served = 0
    /\ granted = [k \in Keys |-> {}]

At(h, stage) == request[h] # Nobody /\ request[h].stage = stage

Go(h, stage) == request' = [request EXCEPT ![h].stage = stage]

Done(h) == request' = [request EXCEPT ![h] = Nobody]

\* The other requests of a key that are being served.
Beside(h, k) == {g \in Threads \ {h} : request[g] # Nobody /\ request[g].key = k}

-----------------------------------------------------------------------------
\* validate() accepts the key, check() reads the clock and the bucket.
Accept(h, k) ==
    /\ request[h] = Nobody
    /\ served < Requests
    /\ keyStatus[k] = "valid"
    /\ served' = served + 1
    /\ request' = [g \in Threads |->
           IF g = h THEN [stage |-> "bucket", id |-> served + 1, key |-> k, since |-> now,
                          read |-> tokens[k], alone |-> Beside(h, k) = {}]
           ELSE IF g \in Beside(h, k) THEN [request[g] EXCEPT !.alone = FALSE]
           ELSE request[g]]
    /\ UNCHANGED <<limiterVars, keyStatus, events, logged, granted>>

\* _check_burst denies an empty bucket, which nothing but a reset refills.
DenyBurst(h) ==
    /\ At(h, "bucket")
    /\ request[h].read < 1
    /\ Done(h)
    /\ UNCHANGED <<limiterVars, keyStatus, events, served, logged, granted>>

TakeToken(h) ==
    /\ At(h, "bucket")
    /\ request[h].read >= 1
    /\ SpendToken(request[h].key, request[h].read)
    /\ Go(h, "windows")
    /\ UNCHANGED <<keyStatus, events, served, logged, granted>>

\* A full window denies the request, whose token is spent.
DenyWindow(h) ==
    /\ At(h, "windows")
    /\ ~Allowed(request[h].key, request[h].since)
    /\ Done(h)
    /\ UNCHANGED <<limiterVars, keyStatus, events, served, logged, granted>>

CheckWindows(h) ==
    /\ At(h, "windows")
    /\ Allowed(request[h].key, request[h].since)
    /\ Go(h, "record")
    /\ UNCHANGED <<limiterVars, keyStatus, events, served, logged, granted>>

Recorded(r) == [id |-> r.id, at |-> r.since]

\* check() records the request and allows it.
Record(h) ==
    /\ At(h, "record")
    /\ LET r == request[h] IN
           /\ RecordRequest(r.key, Recorded(r))
           /\ granted' = IF r.alone THEN [granted EXCEPT ![r.key] = @ \union {Recorded(r)}] ELSE granted
    /\ Go(h, "audit")
    /\ UNCHANGED <<keyStatus, events, served, logged>>

\* log() appends the event ...
LogAppend(h) ==
    /\ At(h, "audit")
    /\ events' = Append(events, request[h].id)
    /\ logged' = Append(logged, request[h].id)
    /\ Go(h, "trim")
    /\ UNCHANGED <<limiterVars, keyStatus, served, granted>>

\* Keeping the oldest events instead of the newest.
FaultyLogTrim(h) ==
    /\ At(h, "trim")
    /\ events' = IF MaxEvents > 0 /\ Len(events) > MaxEvents
                 THEN SubSeq(events, 1, MaxEvents) ELSE events
    /\ Go(h, "handle")
    /\ UNCHANGED <<limiterVars, keyStatus, served, logged, granted>>

\* ... then keeps the newest max_events of whatever is there.
LogTrim(h) ==
    /\ At(h, "trim")
    /\ events' = IF MaxEvents > 0 /\ Len(events) > MaxEvents
                 THEN SubSeq(events, Len(events) - MaxEvents + 1, Len(events)) ELSE events
    /\ Go(h, "handle")
    /\ UNCHANGED <<limiterVars, keyStatus, served, logged, granted>>

-----------------------------------------------------------------------------
\* require_scope refuses the request, or its handler changes none of the three.
HandleOther(h) ==
    /\ At(h, "handle")
    /\ Done(h)
    /\ UNCHANGED <<limiterVars, keyStatus, events, served, logged, granted>>

\* require_scope lets the request to a handler that administers keys or limits.
Admitted(h) == At(h, "handle") /\ request[h].key \in AdminKeys

\* POST /keys, under an identifier never used before.
CreateKey(h, k) ==
    /\ Admitted(h)
    /\ keyStatus[k] = "absent"
    /\ keyStatus' = [keyStatus EXCEPT ![k] = "valid"]
    /\ Done(h)
    /\ UNCHANGED <<limiterVars, events, served, logged, granted>>

\* DELETE /keys/{key_id}; requests already past validate() go on.
RevokeKey(h, k) ==
    /\ Admitted(h)
    /\ keyStatus[k] # "absent"
    /\ keyStatus' = [keyStatus EXCEPT ![k] = "revoked"]
    /\ Done(h)
    /\ UNCHANGED <<limiterVars, events, served, logged, granted>>

\* POST /rate-limit/reset, for one key or for all of them.
ResetRateLimit(h, ks) ==
    /\ Admitted(h)
    /\ ResetLimits(ks)
    /\ granted' = [k \in Keys |-> IF k \in ks THEN {} ELSE granted[k]]
    /\ request' = [g \in Threads |->
           IF g = h THEN Nobody
           ELSE IF request[g] # Nobody /\ request[g].key \in ks
                THEN [request[g] EXCEPT !.alone = FALSE] ELSE request[g]]
    /\ UNCHANGED <<keyStatus, events, served, logged>>

Time == Tick /\ UNCHANGED <<keyStatus, request, events, served, logged, granted>>

Serve(h) ==
    \/ DenyBurst(h) \/ TakeToken(h) \/ DenyWindow(h) \/ CheckWindows(h) \/ Record(h)
    \/ LogAppend(h) \/ LogTrim(h) \/ HandleOther(h)
    \/ \E k \in Keys : Accept(h, k) \/ CreateKey(h, k) \/ RevokeKey(h, k)
    \/ \E ks \in {{k} : k \in Keys} \union {Keys} : ResetRateLimit(h, ks)

GateNext == Time \/ \E h \in Threads : Serve(h)

GateSpec == GateInit /\ [][GateNext]_gateVars

-----------------------------------------------------------------------------
\* However requests interleave, expire or are reset, those that met no other of their
\* key stay within the minute's limit and the hour's limit, and no more of them than
\* the burst size are let through at one time: a request recorded, trimmed or counted
\* wrongly, or a token not taken, lets one too many through.  The usage that is shown
\* counts all of them.
LimitsHold ==
    \A k \in Keys :
        LET Within(t, window) == {q \in granted[k] : q.at > t - window /\ q.at <= t} IN
        /\ \A q \in granted[k] : /\ Cardinality(Within(q.at, Minute)) <= PerMinute
                                 /\ Cardinality(Within(q.at, Hour)) <= PerHour
                                 /\ Cardinality({p \in granted[k] : p.at = q.at}) <= BurstSize
        /\ LimitUsage(k).minute >= Cardinality(Within(now, Minute))
        /\ LimitUsage(k).hour >= Cardinality(Within(now, Hour))

\* The audit log is an unbroken end of everything that was logged, never shorter
\* than the limit allows and longer only by what threads have just appended: no
\* event overtakes another or is lost to a trim that ran beside its append.
AuditKeepsNewest ==
    LET lost == Len(logged) - Len(events)
        trimming == Cardinality({h \in Threads : At(h, "trim")}) IN
    /\ lost >= 0
    /\ events = SubSeq(logged, lost + 1, Len(logged))
    /\ MaxEvents = 0 => lost = 0
    /\ MaxEvents > 0 => /\ lost > 0 => Len(events) >= MaxEvents
                        /\ Len(events) <= MaxEvents + trimming
=============================================================================
