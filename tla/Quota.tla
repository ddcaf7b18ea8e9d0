------------------------------- MODULE Quota -------------------------------
(***************************************************************************)
(* The daily limits of guests and operators (rate_limit/service.py): a     *)
(* Redis counter per actor and date, and the bulk upload of an operator,   *)
(* which takes a unit per row of its file (api/routes/dashboard.py).       *)
(*                                                                         *)
(* The counter is named after the server's local date and expires at       *)
(* midnight UTC, so a clock counts seconds of days of DayLength seconds    *)
(* and local time is Offset ahead.  Requests and the expiry of keys happen *)
(* within a second: no request arrives exactly on one.                     *)
(*                                                                         *)
(* Left out: the counters in memory of a development server, which never   *)
(* expire, and what is done with the units granted.                        *)
(***************************************************************************)
EXTENDS Naturals, FiniteSets

CONSTANTS
    Actors,         \* organisation and guest session, or organisation and member
    Limit,          \* rate_limit_guest_per_day or rate_limit_operator_per_day
    MaxRows,        \* bulk_eligibility_max_rows
    DayLength,      \* seconds of a day
    Offset,         \* seconds the local time is ahead of UTC
    LastSecond,     \* bound: the clock's last value
    Askers          \* requests running at the same time

ASSUME QuotaAssumption ==
    /\ Limit \in Nat \ {0} /\ MaxRows \in Nat \ {0} /\ DayLength \in Nat \ {0, 1, 2}
    /\ Offset \in 0..DayLength - 1 /\ LastSecond \in Nat

VARIABLES
    second,         \* seconds since midnight UTC of day 0
    counts,         \* the Redis counters, 0 when there is no key
    expiries,       \* the second a key expires in
    granted,        \* history: units granted by actor, local date and UTC day, not at midnight
    spent,          \* history: units granted by actor and local date
    askers          \* the requests in progress

quotaVars == <<second, counts, expiries, granted, spent, askers>>

Never == LastSecond + DayLength + 1
UtcDay(t) == t \div DayLength
LocalDate(t) == (t + Offset) \div DayLength
UtcDays == 0..UtcDay(LastSecond)
Dates == 0..LocalDate(LastSecond)
CounterKeys == Actors \X Dates

\* The last second of a day in UTC and the first one of the next.
AtMidnight(t) == (t % DayLength) \in {0, DayLength - 1}

\* sent is the second in which EXPIRE left, left the units still to take.
Asker == [pc: {"idle", "count", "expire", "arrive"}, actor: Actors, key: CounterKeys, left: 0..MaxRows,
          ttl: 0..DayLength, sent: 0..LastSecond, answer: {"none", "granted", "refused"}]

QuotaTypeOK ==
    /\ second \in 0..LastSecond
    /\ counts \in [CounterKeys -> Nat]
    /\ expiries \in [CounterKeys -> 0..Never]
    /\ granted \in [Actors \X Dates \X UtcDays -> Nat]
    /\ spent \in [CounterKeys -> Nat]
    /\ askers \in [Askers -> Asker]

Done(a, answer) == [pc |-> "idle", actor |-> a, key |-> <<a, 0>>, left |-> 0, ttl |-> 0,
                    sent |-> 0, answer |-> answer]

QuotaInit ==
    /\ second = 0
    /\ counts = [k \in CounterKeys |-> 0]
    /\ expiries = [k \in CounterKeys |-> Never]
    /\ granted = [x \in Actors \X Dates \X UtcDays |-> 0]
    /\ spent = [k \in CounterKeys |-> 0]
    /\ askers \in [Askers -> {Done(a, "none") : a \in Actors}]

Drop(keys) ==
    /\ counts' = [k \in CounterKeys |-> IF k \in keys THEN 0 ELSE counts[k]]
    /\ expiries' = [k \in CounterKeys |-> IF k \in keys THEN Never ELSE expiries[k]]

\* Redis removes a key within the second it expires in.  An EXPIRE reaches Redis in the
\* second it is sent in, or in the next one.
SecondPasses ==
    /\ second < LastSecond
    /\ \A r \in Askers : askers[r].pc = "arrive" => askers[r].sent = second
    /\ second' = second + 1
    /\ Drop({k \in CounterKeys : expiries[k] <= second})
    /\ UNCHANGED <<granted, spent, askers>>

KeyExpires(k) ==
    /\ expiries[k] = second
    /\ Drop({k})
    /\ UNCHANGED <<second, granted, spent, askers>>

\* Faulty variant of SecondsLeft: a window that slides.
SecondsWindow(t) == DayLength \div 2

\* seconds_until_next_midnight: whole seconds, 0 in the last one.
SecondsLeft(t) == DayLength - 1 - (t % DayLength)

\* Faulty variant of KeyDate: the day is not part of the key.
NoDate(t) == 0

\* date.today(): the server's local date.
KeyDate(t) == LocalDate(t)

AskStart(r, a, units) ==
    /\ askers[r].pc = "idle"
    /\ askers' = [askers EXCEPT ![r] = [Done(a, "none") EXCEPT !.pc = "count", !.left = units]]
    /\ UNCHANGED <<second, counts, expiries, granted, spent>>

\* check_guest_limit.
Ask(r, a) == AskStart(r, a, 1)

\* An operator's eligibility run.
EligibilityRun(r, a) == AskStart(r, a, 1)

\* parse_beneficiary_csv: more rows are refused before anything is counted.
Parsed == 0..MaxRows

\* post_bulk_eligibility; a file of a header only takes nothing.
BulkUpload(r, a) == \E rows \in Parsed \ {0} : AskStart(r, a, rows)

\* Faulty variant of Taken: the loop runs once too often.
TakenOnceMore(q) == [Done(q.actor, "none") EXCEPT !.pc = "count", !.left = q.left - 1]

\* The units left after one was granted.
Taken(q) == IF q.left = 1 THEN Done(q.actor, "granted")
            ELSE [Done(q.actor, "none") EXCEPT !.pc = "count", !.left = q.left - 1]

\* INCR; the first one goes on to set the time to live.
Count(r) ==
    LET q == askers[r]
        k == <<q.actor, KeyDate(second)>>
        n == counts[k] + 1
        unit == IF n <= Limit THEN 1 ELSE 0
        today == <<q.actor, LocalDate(second)>>
    IN  /\ q.pc = "count"
        /\ counts' = [counts EXCEPT ![k] = n]
        /\ spent' = [spent EXCEPT ![today] = @ + unit]
        /\ granted' = IF AtMidnight(second) THEN granted
                      ELSE [granted EXCEPT ![<<q.actor, LocalDate(second), UtcDay(second)>>] = @ + unit]
        /\ askers' = [askers EXCEPT ![r] =
                        IF n = 1 THEN [q EXCEPT !.pc = "expire", !.key = k]
                        ELSE IF n > Limit THEN Done(q.actor, "refused") ELSE Taken(q)]
        /\ UNCHANGED <<second, expiries>>

SendExpire(r) ==
    /\ askers[r].pc = "expire"
    /\ askers' = [askers EXCEPT ![r].pc = "arrive", ![r].ttl = SecondsLeft(second), ![r].sent = second]
    /\ UNCHANGED <<second, counts, expiries, granted, spent>>

\* EXPIRE with 0 removes the key; with no key it does nothing.
ArriveExpire(r) ==
    LET q == askers[r] IN
    /\ q.pc = "arrive"
    /\ IF q.ttl = 0 THEN Drop({q.key})
       ELSE /\ expiries' = [expiries EXCEPT ![q.key] = IF counts[q.key] = 0 THEN @ ELSE second + q.ttl]
            /\ UNCHANGED counts
    /\ askers' = [askers EXCEPT ![r] = Taken(q)]
    /\ UNCHANGED <<second, granted, spent>>

\* A cancelled request, a lost connection to Redis, or a crash: units taken stay taken.
AskFails(r) ==
    /\ askers[r].pc # "idle"
    /\ askers' = [askers EXCEPT ![r] = Done(askers[r].actor, "none")]
    /\ UNCHANGED <<second, counts, expiries, granted, spent>>

Asks(r) == \E a \in Actors : Ask(r, a) \/ EligibilityRun(r, a) \/ BulkUpload(r, a)
GoesOn(r) == Count(r) \/ SendExpire(r) \/ ArriveExpire(r) \/ AskFails(r)

QuotaNext ==
    \/ SecondPasses
    \/ \E k \in CounterKeys : KeyExpires(k)
    \/ \E r \in Askers : Asks(r) \/ GoesOn(r)

QuotaSpec == QuotaInit /\ [][QuotaNext]_quotaVars

-----------------------------------------------------------------------------
(* Properties. *)

\* Nobody gets more than the limit on one local date and one UTC day, whatever overlaps
\* or crashes between INCR and EXPIRE.  The seconds around midnight UTC do not count: in
\* the last one the counter is gone and cannot be kept, and an EXPIRE sent late lets it
\* live into the first (rate_limit/service.py:12-45).
GrantsWithinLimit ==
    \A x \in Actors \X Dates \X UtcDays : granted[x] <= Limit

\* Whoever is refused had the whole limit on that local date, also when a crash left a
\* counter that never expires (rate_limit/service.py:18-45).
NeverLockedOut ==
    [][\A r \in Askers :
          askers[r].answer = "none" /\ askers'[r].answer = "refused" =>
              spent'[<<askers'[r].actor, LocalDate(second)>>] >= Limit]_quotaVars
=============================================================================
