----------------------------- MODULE QuotaProofs -----------------------------
(***************************************************************************)
(* Proofs about module Quota: for every limit, every length of the day,    *)
(* every offset of the local time and any number of requests, a refusal    *)
(* means that the limit was spent, and away from midnight nobody gets more *)
(* than the limit.                                                         *)
(***************************************************************************)
EXTENDS Quota, Integers, TLAPS

AtMost(n) == IF n <= Limit THEN n ELSE Limit

\* A counter never runs ahead of what was granted under its key.
Backed == \A k \in CounterKeys : spent[k] >= AtMost(counts[k])

\* A request in progress still has a unit to take.
Taking == \A r \in Askers : askers[r].pc # "idle" => askers[r].left # 0

QuotaInv == QuotaTypeOK /\ Backed /\ Taking

\* Later seconds are in later days.
LEMMA DayOrder ==
    ASSUME NEW s \in Nat, NEW t \in Nat, s <= t, NEW d \in Nat \ {0}
    PROVE  s \div d \in Nat /\ s \div d <= t \div d /\ s % d \in 0..d - 1
<1> DEFINE x == s \div d
           y == t \div d
<1>1. x \in Int /\ y \in Int /\ s = d * x + (s % d) /\ t = d * y + (t % d)
  OBVIOUS
<1>2. s % d \in 0..d - 1 /\ t % d \in 0..d - 1
  OBVIOUS
<1>3. ASSUME x >= y + 1 PROVE FALSE
  <2>1. d * x >= d * (y + 1) /\ d * (y + 1) = d * y + d
    BY <1>1, <1>3
  <2>2. QED BY <1>1, <1>2, <2>1
<1>4. x >= 0
  BY <1>1, <1>2
<1>5. QED BY <1>1, <1>2, <1>3, <1>4

\* The days of the clock are the ones the tables have.
LEMMA DayTypes ==
    ASSUME second \in 0..LastSecond
    PROVE  /\ LocalDate(second) \in Dates /\ KeyDate(second) \in Dates /\ UtcDay(second) \in UtcDays
           /\ SecondsLeft(second) \in 0..DayLength /\ 0 \in Dates
<1>1. second \in Nat /\ LastSecond \in Nat /\ second <= LastSecond /\ Offset \in Nat /\ DayLength \in Nat \ {0}
  BY QuotaAssumption
<1>2. /\ second \div DayLength \in Nat /\ second \div DayLength <= LastSecond \div DayLength
      /\ second % DayLength \in 0..DayLength - 1
  BY <1>1, DayOrder
<1>3. second + Offset \in Nat /\ LastSecond + Offset \in Nat /\ second + Offset <= LastSecond + Offset
  BY <1>1
<1>4. /\ (second + Offset) \div DayLength \in Nat
      /\ (second + Offset) \div DayLength <= (LastSecond + Offset) \div DayLength
  BY <1>1, <1>3, DayOrder
<1>5. LastSecond \div DayLength \in Nat /\ (LastSecond + Offset) \div DayLength \in Nat
  BY <1>1, <1>3, DayOrder
<1>6. LocalDate(second) \in Dates /\ KeyDate(second) \in Dates /\ 0 \in Dates
  BY <1>4, <1>5 DEF LocalDate, KeyDate, Dates
<1>7. UtcDay(second) \in UtcDays
  BY <1>2, <1>5 DEF UtcDay, UtcDays
<1>8. SecondsLeft(second) \in 0..DayLength
  BY <1>1, <1>2 DEF SecondsLeft
<1>9. QED BY <1>6, <1>7, <1>8

\* A request that rests.
LEMMA DoneType ==
    ASSUME NEW a \in Actors, NEW answer \in {"none", "granted", "refused"}
    PROVE  Done(a, answer) \in Asker /\ Done(a, answer).pc = "idle" /\ Done(a, answer).answer = answer
<1>1. 0 \in Dates /\ 0 \in 0..MaxRows /\ 0 \in 0..DayLength /\ 0 \in 0..LastSecond
  <2>1. LastSecond + Offset \in Nat /\ DayLength \in Nat \ {0}
    BY QuotaAssumption
  <2>2. (LastSecond + Offset) \div DayLength \in Nat
    BY <2>1, DayOrder
  <2>3. QED BY <2>2, QuotaAssumption DEF Dates, LocalDate
<1>2. QED BY <1>1 DEF Done, Asker, CounterKeys

\* A request starts to count.
LEMMA CountType ==
    ASSUME NEW a \in Actors, NEW n \in 1..MaxRows
    PROVE  /\ [Done(a, "none") EXCEPT !.pc = "count", !.left = n] \in Asker
           /\ [Done(a, "none") EXCEPT !.pc = "count", !.left = n].left # 0
           /\ [Done(a, "none") EXCEPT !.pc = "count", !.left = n].answer # "refused"
<1>1. Done(a, "none") \in Asker /\ n \in 0..MaxRows /\ n # 0
  BY DoneType
<1>2. QED BY <1>1, DoneType DEF Asker

\* What a request that was granted a unit goes on as.
LEMMA TakenType ==
    ASSUME NEW q \in Asker, q.left # 0
    PROVE  /\ Taken(q) \in Asker /\ Taken(q).answer # "refused"
           /\ Taken(q).pc # "idle" => Taken(q).left # 0
<1>1. q.actor \in Actors /\ q.left \in 1..MaxRows
  BY QuotaAssumption DEF Asker
<1>2. CASE q.left = 1
  BY <1>1, <1>2, DoneType DEF Taken
<1>3. CASE q.left # 1
  <2>1. q.left - 1 \in 1..MaxRows
    BY <1>1, <1>3, QuotaAssumption
  <2>2. QED BY <1>1, <1>3, <2>1, CountType DEF Taken
<1>4. QED BY <1>2, <1>3

\* Steps of one request: what the others and the new record must keep.
LEMMA AskerMoves ==
    ASSUME QuotaInv, NEW r \in Askers, NEW q \in Asker, q.pc # "idle" => q.left # 0,
           askers' = [askers EXCEPT ![r] = q]
    PROVE  askers' \in [Askers -> Asker] /\ Taking'
BY DEF QuotaInv, QuotaTypeOK, Taking

\* Keys that disappear leave every counter backed.
LEMMA DropBacked ==
    ASSUME QuotaInv, NEW keys \in SUBSET CounterKeys, Drop(keys), spent' = spent
    PROVE  /\ counts' \in [CounterKeys -> Nat] /\ expiries' \in [CounterKeys -> 0..Never]
           /\ Backed'
<1>1. Never \in 0..Never
  BY QuotaAssumption DEF Never
<1>2. counts' \in [CounterKeys -> Nat] /\ expiries' \in [CounterKeys -> 0..Never]
  BY <1>1 DEF QuotaInv, QuotaTypeOK, Drop
<1>3. ASSUME NEW k \in CounterKeys PROVE spent'[k] >= AtMost(counts'[k])
  <2>1. counts'[k] = 0 \/ counts'[k] = counts[k]
    BY DEF Drop
  <2>2. spent[k] \in Nat /\ spent[k] >= AtMost(counts[k])
    BY DEF QuotaInv, QuotaTypeOK, Backed
  <2>3. AtMost(0) = 0
    BY QuotaAssumption DEF AtMost
  <2>4. QED BY <2>1, <2>2, <2>3
<1>4. QED BY <1>2, <1>3 DEF Backed, AtMost

Refusal == \A r \in Askers :
    askers[r].answer = "none" /\ askers'[r].answer = "refused" =>
        spent'[<<askers'[r].actor, LocalDate(second)>>] >= Limit

\* Only a request's own step changes its answer.
LEMMA NotRefused ==
    ASSUME QuotaInv, NEW r \in Askers, NEW q \in Asker, q.answer # "refused",
           askers' = [askers EXCEPT ![r] = q]
    PROVE  Refusal
BY DEF Refusal, QuotaInv, QuotaTypeOK

\* The clock and the expiry of keys.
LEMMA TimeStep ==
    ASSUME QuotaInv, SecondPasses \/ \E k \in CounterKeys : KeyExpires(k)
    PROVE  QuotaInv' /\ Refusal
<1>1. PICK keys \in SUBSET CounterKeys : Drop(keys)
  BY DEF SecondPasses, KeyExpires
<1>2. UNCHANGED <<granted, spent, askers>>
  BY DEF SecondPasses, KeyExpires
<1>3. second' \in 0..LastSecond
  <2>1. second \in 0..LastSecond /\ LastSecond \in Nat
    BY QuotaAssumption DEF QuotaInv, QuotaTypeOK
  <2>2. second' = second \/ (second < LastSecond /\ second' = second + 1)
    BY DEF SecondPasses, KeyExpires
  <2>3. QED BY <2>1, <2>2
<1>4. QuotaTypeOK' /\ Backed'
  BY <1>1, <1>2, <1>3, DropBacked DEF QuotaInv, QuotaTypeOK
<1>5. Taking' /\ Refusal
  BY <1>2 DEF QuotaInv, Taking, Refusal
<1>6. QED BY <1>4, <1>5 DEF QuotaInv

\* A request arrives.
LEMMA StartStep ==
    ASSUME QuotaInv, NEW r \in Askers, Asks(r)
    PROVE  QuotaInv' /\ Refusal
<1>1. PICK a \in Actors, n \in 1..MaxRows : AskStart(r, a, n)
  <2>1. 1 \in 1..MaxRows /\ Parsed \ {0} = 1..MaxRows
    BY QuotaAssumption DEF Parsed
  <2>2. QED BY <2>1 DEF Asks, Ask, EligibilityRun, BulkUpload
<1> DEFINE q == [Done(a, "none") EXCEPT !.pc = "count", !.left = n]
<1>2. q \in Asker /\ q.left # 0 /\ q.answer # "refused"
  BY CountType
<1>3. askers' = [askers EXCEPT ![r] = q] /\ UNCHANGED <<second, counts, expiries, granted, spent>>
  BY <1>1 DEF AskStart
<1> HIDE DEF q
<1>4. askers' \in [Askers -> Asker] /\ Taking' /\ Refusal
  BY <1>2, <1>3, AskerMoves, NotRefused
<1>5. QED BY <1>3, <1>4 DEF QuotaInv, QuotaTypeOK, Backed

\* INCR: the unit is granted and counted in one step.
LEMMA CountStep ==
    ASSUME QuotaInv, NEW r \in Askers, Count(r)
    PROVE  QuotaInv' /\ Refusal
<1> DEFINE q == askers[r]
           k == <<q.actor, KeyDate(second)>>
           n == counts[k] + 1
           unit == IF n <= Limit THEN 1 ELSE 0
           g == <<q.actor, LocalDate(second), UtcDay(second)>>
           next == IF n = 1 THEN [q EXCEPT !.pc = "expire", !.key = k]
                   ELSE IF n > Limit THEN Done(q.actor, "refused") ELSE Taken(q)
<1>1. q \in Asker /\ q.pc = "count" /\ q.left # 0 /\ q.actor \in Actors
  BY DEF QuotaInv, QuotaTypeOK, Taking, Count, Asker
<1>2. k \in CounterKeys /\ g \in Actors \X Dates \X UtcDays
  BY <1>1, DayTypes DEF QuotaInv, QuotaTypeOK, CounterKeys
<1>3. n \in Nat \ {0} /\ unit \in {0, 1} /\ counts[k] \in Nat /\ spent[k] \in Nat /\ granted[g] \in Nat
  BY <1>2 DEF QuotaInv, QuotaTypeOK
<1>4. /\ counts' = [counts EXCEPT ![k] = n] /\ spent' = [spent EXCEPT ![k] = spent[k] + unit]
      /\ askers' = [askers EXCEPT ![r] = next] /\ UNCHANGED <<second, expiries>>
      /\ granted' = granted \/ granted' = [granted EXCEPT ![g] = granted[g] + unit]
  BY DEF Count, KeyDate
<1>5. spent[k] + unit >= AtMost(n)
  <2>1. spent[k] >= AtMost(counts[k])
    BY <1>2 DEF QuotaInv, Backed
  <2>2. QED BY <1>3, <2>1, QuotaAssumption DEF AtMost
<1>6. next \in Asker /\ (next.pc # "idle" => next.left # 0)
  <2>1. CASE n = 1
    BY <1>1, <1>2, <2>1 DEF Asker
  <2>2. CASE n # 1
    BY <1>1, <2>2, DoneType, TakenType
  <2>3. QED BY <2>1, <2>2
<1>7. next.answer = "refused" /\ q.answer = "none" => n > Limit /\ next.actor = q.actor
  <2>1. CASE n = 1
    BY <1>1, <2>1 DEF Asker
  <2>2. CASE n # 1 /\ n > Limit
    BY <2>2 DEF Done
  <2>3. CASE n # 1 /\ ~(n > Limit)
    BY <1>1, <2>3, TakenType
  <2>4. QED BY <2>1, <2>2, <2>3
<1> HIDE DEF next, unit, n, g
<1>8. QuotaTypeOK'
  <2>1. counts' \in [CounterKeys -> Nat] /\ spent' \in [CounterKeys -> Nat]
    BY <1>2, <1>3, <1>4 DEF QuotaInv, QuotaTypeOK
  <2>2. granted' \in [Actors \X Dates \X UtcDays -> Nat]
    BY <1>2, <1>3, <1>4 DEF QuotaInv, QuotaTypeOK
  <2>3. askers' \in [Askers -> Asker]
    BY <1>4, <1>6, AskerMoves
  <2>4. QED BY <1>4, <2>1, <2>2, <2>3 DEF QuotaInv, QuotaTypeOK
<1>9. Backed'
  <2>1. ASSUME NEW x \in CounterKeys PROVE spent'[x] >= AtMost(counts'[x])
    BY <1>2, <1>4, <1>5 DEF QuotaInv, QuotaTypeOK, Backed
  <2>2. QED BY <2>1 DEF Backed, AtMost
<1>10. Taking'
  BY <1>4, <1>6, AskerMoves
<1>11. Refusal
  <2>1. ASSUME NEW x \in Askers, askers[x].answer = "none", askers'[x].answer = "refused"
        PROVE  spent'[<<askers'[x].actor, LocalDate(second)>>] >= Limit
    <3>1. x = r /\ askers'[x] = next
      BY <1>4, <2>1 DEF QuotaInv, QuotaTypeOK
    <3>2. n > Limit /\ next.actor = q.actor
      BY <1>7, <2>1, <3>1
    <3>3. AtMost(n) = Limit
      BY <1>3, <3>2, QuotaAssumption DEF AtMost
    <3>4. spent'[k] >= Limit
      BY <1>2, <1>4, <1>5, <3>3 DEF QuotaInv, QuotaTypeOK
    <3>5. QED BY <3>1, <3>2, <3>4 DEF KeyDate
  <2>2. QED BY <2>1 DEF Refusal
<1>12. QED BY <1>8, <1>9, <1>10, <1>11 DEF QuotaInv

\* The time to live, and the ways a request ends early.
LEMMA EndStep ==
    ASSUME QuotaInv, NEW r \in Askers, SendExpire(r) \/ ArriveExpire(r) \/ AskFails(r)
    PROVE  QuotaInv' /\ Refusal
<1> DEFINE q == askers[r]
<1>1. q \in Asker /\ q.pc # "idle" /\ q.left # 0 /\ q.actor \in Actors /\ q.key \in CounterKeys /\ q.ttl \in 0..DayLength
  BY DEF QuotaInv, QuotaTypeOK, Taking, SendExpire, ArriveExpire, AskFails, Asker
<1>2. CASE SendExpire(r)
  <2> DEFINE p == [q EXCEPT !.pc = "arrive", !.ttl = SecondsLeft(second), !.sent = second]
  <2>1. SecondsLeft(second) \in 0..DayLength /\ second \in 0..LastSecond
    BY DayTypes DEF QuotaInv, QuotaTypeOK
  <2>2. p \in Asker /\ p.left # 0 /\ p.answer = q.answer
    BY <1>1, <2>1 DEF Asker
  <2>3. askers' = [askers EXCEPT ![r] = p] /\ UNCHANGED <<second, counts, expiries, granted, spent>>
    BY <1>2 DEF SendExpire
  <2> HIDE DEF p
  <2>4. askers' \in [Askers -> Asker] /\ Taking'
    BY <2>2, <2>3, AskerMoves
  <2>5. Refusal
    BY <2>2, <2>3 DEF Refusal, QuotaInv, QuotaTypeOK
  <2>6. QED BY <2>3, <2>4, <2>5 DEF QuotaInv, QuotaTypeOK, Backed
<1>3. CASE ArriveExpire(r)
  <2>1. askers' = [askers EXCEPT ![r] = Taken(q)] /\ UNCHANGED <<second, granted, spent>>
    BY <1>3 DEF ArriveExpire
  <2>2. Taken(q) \in Asker /\ Taken(q).answer # "refused" /\ (Taken(q).pc # "idle" => Taken(q).left # 0)
    BY <1>1, TakenType
  <2>3. askers' \in [Askers -> Asker] /\ Taking' /\ Refusal
    BY <2>1, <2>2, AskerMoves, NotRefused
  <2>4. /\ counts' \in [CounterKeys -> Nat] /\ expiries' \in [CounterKeys -> 0..Never]
        /\ Backed'
    <3>1. CASE q.ttl = 0
      BY <1>1, <1>3, <2>1, <3>1, DropBacked DEF ArriveExpire
    <3>2. CASE q.ttl # 0
      <4>1. /\ expiries' = [expiries EXCEPT ![q.key] = IF counts[q.key] = 0 THEN expiries[q.key] ELSE second + q.ttl]
            /\ counts' = counts
        BY <1>3, <3>2 DEF ArriveExpire
      <4>2. second + q.ttl \in 0..Never
        BY <1>1, QuotaAssumption DEF QuotaInv, QuotaTypeOK, Never
      <4>3. QED BY <1>1, <2>1, <4>1, <4>2 DEF QuotaInv, QuotaTypeOK, Backed
    <3>3. QED BY <3>1, <3>2
  <2>5. QED BY <2>1, <2>3, <2>4 DEF QuotaInv, QuotaTypeOK
<1>4. CASE AskFails(r)
  <2>1. askers' = [askers EXCEPT ![r] = Done(q.actor, "none")] /\ UNCHANGED <<second, counts, expiries, granted, spent>>
    BY <1>4 DEF AskFails
  <2>2. askers' \in [Askers -> Asker] /\ Taking' /\ Refusal
    BY <1>1, <2>1, DoneType, AskerMoves, NotRefused
  <2>3. QED BY <2>1, <2>2 DEF QuotaInv, QuotaTypeOK, Backed
<1>5. QED BY <1>2, <1>3, <1>4

\* Every step keeps the counters backed, and refuses only what is spent.
LEMMA QuotaStep ==
    ASSUME QuotaInv, [QuotaNext]_quotaVars
    PROVE  QuotaInv' /\ Refusal
<1>1. CASE SecondPasses \/ \E k \in CounterKeys : KeyExpires(k)
  BY <1>1, TimeStep
<1>2. CASE \E r \in Askers : Asks(r)
  BY <1>2, StartStep
<1>3. CASE \E r \in Askers : Count(r)
  BY <1>3, CountStep
<1>4. CASE \E r \in Askers : SendExpire(r) \/ ArriveExpire(r) \/ AskFails(r)
  BY <1>4, EndStep
<1>5. CASE UNCHANGED quotaVars
  BY <1>5 DEF quotaVars, QuotaInv, QuotaTypeOK, Backed, Taking, Refusal
<1>6. QED BY <1>1, <1>2, <1>3, <1>4, <1>5 DEF QuotaNext, GoesOn

\* Counters, their expiry and the requests keep their types, and no counter runs ahead of
\* what was granted under its key, also after a crash between INCR and EXPIRE
\* (rate_limit/service.py:18-45).
THEOREM CountersBacked == QuotaSpec => []QuotaInv
<1>1. QuotaInit => QuotaInv
  <2> SUFFICES ASSUME QuotaInit PROVE QuotaInv
    OBVIOUS
  <2>1. \A a \in Actors : Done(a, "none") \in Asker /\ Done(a, "none").pc = "idle"
    BY DoneType
  <2>2. askers \in [Askers -> Asker] /\ Taking
    BY <2>1 DEF QuotaInit, Taking
  <2>3. 0 \in 0..LastSecond /\ Never \in 0..Never /\ AtMost(0) = 0
    BY QuotaAssumption DEF Never, AtMost
  <2>4. QuotaTypeOK
    BY <2>2, <2>3 DEF QuotaInit, QuotaTypeOK
  <2>5. Backed
    BY <2>3 DEF QuotaInit, Backed
  <2>6. QED BY <2>2, <2>4, <2>5 DEF QuotaInv
<1>2. QuotaInv /\ [QuotaNext]_quotaVars => QuotaInv'
  BY QuotaStep
<1>3. QED BY <1>1, <1>2, PTL DEF QuotaSpec

\* Whoever is refused had the whole limit on that local date (rate_limit/service.py:18-45).
THEOREM RefusedOnlyWhenSpent == QuotaSpec => NeverLockedOut
<1>1. QuotaInv /\ [QuotaNext]_quotaVars =>
        [\A r \in Askers :
            askers[r].answer = "none" /\ askers'[r].answer = "refused" =>
                spent'[<<askers'[r].actor, LocalDate(second)>>] >= Limit]_quotaVars
  BY QuotaStep DEF Refusal
<1>2. QED BY <1>1, CountersBacked, PTL DEF QuotaSpec, NeverLockedOut

-----------------------------------------------------------------------------
(* Nobody gets more than the limit between two midnights.                    *)

\* A key expires at a midnight still to come, and an EXPIRE on its way left a second ago at most.
ExpiriesAtMidnight ==
    /\ \A k \in CounterKeys : expiries[k] = Never \/ (expiries[k] >= second /\ AtMidnight(expiries[k]))
    /\ \A r \in Askers : askers[r].pc = "arrive" =>
          /\ askers[r].sent = second \/ askers[r].sent + 1 = second
          /\ askers[r].ttl = SecondsLeft(askers[r].sent)

\* Nothing is granted ahead of the clock, and away from midnight a counter has counted
\* what was granted under its key since the day began.
DayCounted ==
    \A a \in Actors, d \in Dates, u \in UtcDays :
        /\ granted[<<a, d, u>>] <= Limit
        /\ u > UtcDay(second) \/ (u = UtcDay(second) /\ second % DayLength = 0) => granted[<<a, d, u>>] = 0
        /\ u = UtcDay(second) /\ ~AtMidnight(second) => granted[<<a, d, u>>] <= AtMost(counts[<<a, d>>])

DayInv == ExpiriesAtMidnight /\ DayCounted

\* Quotient and remainder are unique.
LEMMA DivUnique ==
    ASSUME NEW t \in Nat, NEW d \in Nat \ {0}, NEW x \in Int, NEW m \in 0..d - 1, t = d * x + m
    PROVE  t \div d = x /\ t % d = m
<1> DEFINE y == t \div d
           n == t % d
<1>1. y \in Int /\ n \in 0..d - 1 /\ t = d * y + n
  OBVIOUS
<1> HIDE DEF y, n
<1>2. ASSUME x >= y + 1 PROVE FALSE
  <2>1. d * x >= d * (y + 1) /\ d * (y + 1) = d * y + d
    BY <1>1, <1>2
  <2>2. QED BY <1>1, <2>1
<1>3. ASSUME y >= x + 1 PROVE FALSE
  <2>1. d * y >= d * (x + 1) /\ d * (x + 1) = d * x + d
    BY <1>1, <1>3
  <2>2. QED BY <1>1, <2>1
<1>4. x = y
  BY <1>1, <1>2, <1>3
<1>5. n = m
  BY <1>1, <1>4
<1>6. QED BY <1>4, <1>5 DEF y, n

\* A number is its quotient and remainder.
LEMMA DivMod ==
    ASSUME NEW t \in Nat, NEW d \in Nat \ {0}
    PROVE  t \div d \in Nat /\ t % d \in 0..d - 1 /\ t = d * (t \div d) + (t % d)
<1>1. t <= t
  OBVIOUS
<1>2. t \div d \in Nat /\ t % d \in 0..d - 1
  BY ONLY <1>1, DayOrder
<1>3. QED BY <1>2

\* The second after another is in the same day, or the first of the next.
LEMMA NextSecond ==
    ASSUME NEW t \in Nat
    PROVE  /\ t % DayLength \in 0..DayLength - 1 /\ UtcDay(t) \in Nat
           /\ t % DayLength # DayLength - 1 =>
                 UtcDay(t + 1) = UtcDay(t) /\ (t + 1) % DayLength = (t % DayLength) + 1
           /\ t % DayLength = DayLength - 1 =>
                 UtcDay(t + 1) = UtcDay(t) + 1 /\ (t + 1) % DayLength = 0
<1> DEFINE d == DayLength
           x == t \div d
           m == t % d
<1>1. d \in Nat \ {0}
  BY QuotaAssumption
<1>2. x \in Nat /\ m \in 0..d - 1 /\ t = d * x + m
  BY <1>1, DivMod
<1> HIDE DEF d, x, m
<1>3. CASE m # d - 1
  <2>1. m + 1 \in 0..d - 1 /\ t + 1 = d * x + (m + 1) /\ t + 1 \in Nat
    BY <1>1, <1>2, <1>3
  <2>2. (t + 1) \div d = x /\ (t + 1) % d = m + 1
    BY <1>1, <1>2, <2>1, DivUnique
  <2>3. QED BY <1>2, <1>3, <2>2 DEF UtcDay, d, x, m
<1>4. CASE m = d - 1
  <2>1. 0 \in 0..d - 1 /\ t + 1 \in Nat /\ x + 1 \in Nat
    BY <1>1, <1>2
  <2>2. t + 1 = d * (x + 1) + 0
    <3>1. d * (x + 1) = d * x + d
      BY <1>1, <1>2
    <3>2. QED BY <1>1, <1>2, <1>4, <3>1
  <2>3. (t + 1) \div d = x + 1 /\ (t + 1) % d = 0
    BY <1>1, <2>1, <2>2, DivUnique
  <2>4. QED BY <1>1, <1>2, <1>4, <2>3 DEF UtcDay, d, x, m
<1>5. QED BY <1>3, <1>4

\* The time to live leads to the last second of the day it was computed in.
LEMMA LeftLeadsToMidnight ==
    ASSUME NEW s \in Nat
    PROVE  /\ SecondsLeft(s) \in Nat
           /\ AtMidnight(s + SecondsLeft(s)) /\ AtMidnight(s + 1 + SecondsLeft(s))
           /\ SecondsLeft(s) = 0 => AtMidnight(s) /\ AtMidnight(s + 1)
<1> DEFINE d == DayLength
           x == s \div d
           m == s % d
<1>1. d \in Nat \ {0}
  BY QuotaAssumption
<1>2. x \in Nat /\ m \in 0..d - 1 /\ s = d * x + m /\ SecondsLeft(s) = d - 1 - m
  BY <1>1, DivMod DEF SecondsLeft
<1> HIDE DEF d, x, m
<1>3. SecondsLeft(s) \in Nat
  BY <1>1, <1>2
<1>4. d - 1 \in 0..d - 1 /\ s + SecondsLeft(s) \in Nat /\ s + SecondsLeft(s) = d * x + (d - 1)
  <2>1. d * x \in Int
    BY <1>1, <1>2
  <2> DEFINE z == d * x
  <2> HIDE DEF z
  <2>2. z \in Int /\ s = z + m
    BY <1>2, <2>1 DEF z
  <2>3. s + SecondsLeft(s) = z + (d - 1)
    BY <1>1, <1>2, <2>2
  <2>4. QED BY <1>1, <1>3, <2>3 DEF z
<1>5. (s + SecondsLeft(s)) % d = d - 1
  <2> DEFINE e == s + SecondsLeft(s)
             l == d - 1
  <2>1. e \in Nat /\ e = d * x + l /\ x \in Int /\ l \in 0..d - 1
    BY <1>2, <1>4
  <2> HIDE DEF e, l
  <2>2. e % d = l
    BY <1>1, <2>1, DivUnique
  <2>3. QED BY <2>2 DEF e, l
<1>6. (s + SecondsLeft(s) + 1) % d = 0
  BY <1>4, <1>5, NextSecond DEF d
<1>7. s + SecondsLeft(s) + 1 = s + 1 + SecondsLeft(s)
  BY <1>3
<1>8. AtMidnight(s + SecondsLeft(s)) /\ AtMidnight(s + 1 + SecondsLeft(s))
  BY <1>5, <1>6, <1>7 DEF AtMidnight, d
<1>9. SecondsLeft(s) = 0 => s + SecondsLeft(s) = s /\ s + 1 + SecondsLeft(s) = s + 1
  BY <1>3
<1>10. QED BY <1>3, <1>8, <1>9

\* Steps that leave clock and grants alone, and counters too unless it is midnight.
LEMMA CountersKept ==
    ASSUME QuotaInv, DayCounted, UNCHANGED <<second, granted>>, counts' \in [CounterKeys -> Nat],
           AtMidnight(second) \/ counts' = counts
    PROVE  DayCounted'
BY DEF DayCounted, AtMost, AtMidnight, UtcDay

\* A request that is not sending its EXPIRE.
LEMMA NotArriving ==
    ASSUME QuotaInv, ExpiriesAtMidnight, UNCHANGED <<second, expiries>>, NEW r \in Askers, NEW q,
           q.pc # "arrive", askers' = [askers EXCEPT ![r] = q]
    PROVE  ExpiriesAtMidnight'
BY DEF ExpiriesAtMidnight, QuotaInv, QuotaTypeOK, AtMidnight, SecondsLeft

LEMMA TakenPc == ASSUME NEW q PROVE Taken(q).pc # "arrive"
BY DEF Taken, Done

\* Keys that disappear.
LEMMA DropMidnight ==
    ASSUME QuotaInv, ExpiriesAtMidnight, NEW keys \in SUBSET CounterKeys, Drop(keys)
    PROVE  \A k \in CounterKeys : expiries'[k] = Never \/ (expiries'[k] = expiries[k] /\ k \notin keys)
BY DEF Drop

\* The clock: keys expire at midnight, and nothing was granted yet on a new day.
LEMMA DaySecond ==
    ASSUME QuotaInv, DayInv, SecondPasses
    PROVE  DayInv'
<1>1. second \in Nat /\ second' = second + 1 /\ granted' = granted /\ askers' = askers /\ second < LastSecond
  BY DEF QuotaInv, QuotaTypeOK, SecondPasses
<1> DEFINE keys == {k \in CounterKeys : expiries[k] <= second}
<1>2. Drop(keys)
  BY DEF SecondPasses
<1>3. ExpiriesAtMidnight'
  <2>1. ASSUME NEW k \in CounterKeys
        PROVE  expiries'[k] = Never \/ (expiries'[k] >= second' /\ AtMidnight(expiries'[k]))
    <3>1. expiries'[k] = Never \/ (expiries'[k] = expiries[k] /\ k \notin keys)
      BY <1>2, DropMidnight DEF DayInv
    <3>2. expiries[k] \in Nat
      BY QuotaAssumption DEF QuotaInv, QuotaTypeOK, Never
    <3>3. QED BY <1>1, <3>1, <3>2 DEF DayInv, ExpiriesAtMidnight
  <2>2. ASSUME NEW r \in Askers, askers[r].pc = "arrive"
        PROVE  askers[r].sent + 1 = second' /\ askers[r].ttl = SecondsLeft(askers[r].sent)
    BY <1>1, <2>2 DEF SecondPasses, DayInv, ExpiriesAtMidnight
  <2>3. QED BY <1>1, <2>1, <2>2 DEF ExpiriesAtMidnight, AtMidnight, SecondsLeft
<1>4. AtMidnight(second) \/ counts' = counts
  <2>1. ASSUME NEW k \in keys PROVE AtMidnight(second)
    <3>1. expiries[k] # Never /\ expiries[k] <= second
      BY <1>1, QuotaAssumption DEF Never
    <3>2. expiries[k] >= second /\ AtMidnight(expiries[k])
      BY <3>1 DEF DayInv, ExpiriesAtMidnight
    <3>3. expiries[k] \in Nat
      BY QuotaAssumption DEF QuotaInv, QuotaTypeOK, Never
    <3>4. expiries[k] = second
      BY <1>1, <3>1, <3>2, <3>3
    <3>5. QED BY <3>2, <3>4
  <2>2. keys = {} => counts' = counts
    BY <1>2 DEF Drop, QuotaInv, QuotaTypeOK
  <2>3. QED BY <2>1, <2>2
<1>5. DayCounted'
  <2>1. DayLength \in Nat \ {0, 1, 2} /\ Limit \in Nat
    BY QuotaAssumption
  <2>2. /\ second % DayLength \in 0..DayLength - 1 /\ UtcDay(second) \in Nat
        /\ second % DayLength # DayLength - 1 =>
              UtcDay(second') = UtcDay(second) /\ second' % DayLength = (second % DayLength) + 1
        /\ second % DayLength = DayLength - 1 =>
              UtcDay(second') = UtcDay(second) + 1 /\ second' % DayLength = 0
    BY <1>1, NextSecond
  <2>3. counts' \in [CounterKeys -> Nat]
    BY <1>2, DropBacked, <1>1 DEF SecondPasses
  <2>4. ASSUME NEW a \in Actors, NEW b \in Dates, NEW u \in UtcDays
        PROVE  /\ granted'[<<a, b, u>>] <= Limit
               /\ u > UtcDay(second') \/ (u = UtcDay(second') /\ second' % DayLength = 0) => granted'[<<a, b, u>>] = 0
               /\ u = UtcDay(second') /\ ~AtMidnight(second') => granted'[<<a, b, u>>] <= AtMost(counts'[<<a, b>>])
    <3> DEFINE g == granted[<<a, b, u>>]
               h == UtcDay(second)
               i == UtcDay(second')
               m == second % DayLength
               n == second' % DayLength
    <3>1. u \in Nat /\ g \in Nat /\ counts'[<<a, b>>] \in Nat
      BY <2>3 DEF QuotaInv, QuotaTypeOK, UtcDays, CounterKeys
    <3>2. /\ g <= Limit /\ (u > h \/ (u = h /\ m = 0) => g = 0)
          /\ u = h /\ ~AtMidnight(second) => g <= AtMost(counts[<<a, b>>])
      BY DEF DayInv, DayCounted
    <3>3. /\ m \in 0..DayLength - 1 /\ h \in Nat
          /\ m # DayLength - 1 => i = h /\ n = m + 1
          /\ m = DayLength - 1 => i = h + 1 /\ n = 0
      BY <2>2
    <3>4. /\ AtMidnight(second) <=> m \in {0, DayLength - 1}
          /\ AtMidnight(second') <=> n \in {0, DayLength - 1}
      BY DEF AtMidnight
    <3>5. 0 <= AtMost(counts'[<<a, b>>])
      BY <2>1, <3>1 DEF AtMost
    <3> HIDE DEF g, h, i, m, n
    <3>6. g <= Limit
      BY <3>2
    <3>7. u > i \/ (u = i /\ n = 0) => g = 0
      BY <2>1, <3>1, <3>2, <3>3
    <3>8. ASSUME u = i, ~AtMidnight(second') PROVE g <= AtMost(counts'[<<a, b>>])
      <4>1. n # 0 /\ m # DayLength - 1 /\ u = h
        BY <3>3, <3>4, <3>8
      <4>2. CASE m = 0
        BY <3>2, <3>5, <4>1, <4>2
      <4>3. CASE m # 0
        BY <1>4, <3>2, <3>4, <4>1, <4>3
      <4>4. QED BY <4>2, <4>3
    <3>9. QED BY <1>1, <3>6, <3>7, <3>8 DEF g, i, n
  <2>5. QED BY <2>4 DEF DayCounted, AtMost, AtMidnight, UtcDay
<1>6. QED BY <1>3, <1>5 DEF DayInv

\* A key expires: it is midnight.
LEMMA DayExpires ==
    ASSUME QuotaInv, DayInv, NEW k \in CounterKeys, KeyExpires(k)
    PROVE  DayInv'
<1>1. Drop({k}) /\ expiries[k] = second /\ UNCHANGED <<second, granted, spent, askers>>
  BY DEF KeyExpires
<1>2. AtMidnight(second)
  BY <1>1, QuotaAssumption DEF DayInv, ExpiriesAtMidnight, QuotaInv, QuotaTypeOK, Never
<1>3. counts' \in [CounterKeys -> Nat]
  BY <1>1, DropBacked
<1>4. DayCounted'
  BY <1>1, <1>2, <1>3, CountersKept DEF DayInv
<1>5. ExpiriesAtMidnight'
  <2>1. \A x \in CounterKeys : expiries'[x] = Never \/ expiries'[x] = expiries[x]
    BY <1>1, DropMidnight DEF DayInv
  <2>2. QED BY <1>1, <2>1 DEF DayInv, ExpiriesAtMidnight, AtMidnight, SecondsLeft
<1>6. QED BY <1>4, <1>5 DEF DayInv

\* INCR: counter and grants grow together.
LEMMA DayCount ==
    ASSUME QuotaInv, DayInv, NEW r \in Askers, Count(r)
    PROVE  DayInv'
<1> DEFINE q == askers[r]
           k == <<q.actor, LocalDate(second)>>
           n == counts[k] + 1
           unit == IF n <= Limit THEN 1 ELSE 0
           g == <<q.actor, LocalDate(second), UtcDay(second)>>
           next == IF n = 1 THEN [q EXCEPT !.pc = "expire", !.key = k]
                   ELSE IF n > Limit THEN Done(q.actor, "refused") ELSE Taken(q)
<1>1. q \in Asker /\ q.actor \in Actors
  BY DEF QuotaInv, QuotaTypeOK, Asker
<1>2. /\ k \in CounterKeys /\ g \in Actors \X Dates \X UtcDays
      /\ LocalDate(second) \in Dates /\ UtcDay(second) \in UtcDays
  BY <1>1, DayTypes DEF QuotaInv, QuotaTypeOK, CounterKeys
<1>3. counts[k] \in Nat /\ n \in Nat \ {0} /\ granted[g] \in Nat
  BY <1>2 DEF QuotaInv, QuotaTypeOK
<1>4. /\ counts' = [counts EXCEPT ![k] = n] /\ UNCHANGED <<second, expiries>>
      /\ askers' = [askers EXCEPT ![r] = next]
      /\ granted' = IF AtMidnight(second) THEN granted ELSE [granted EXCEPT ![g] = granted[g] + unit]
  BY DEF Count, KeyDate
<1>5. next.pc # "arrive"
  BY <1>1, TakenPc DEF Done, Asker
<1>6. unit \in {0, 1} /\ AtMost(n) = AtMost(counts[k]) + unit
  BY <1>3, QuotaAssumption DEF AtMost
<1> HIDE DEF next, unit, n, g
<1>7. ExpiriesAtMidnight'
  BY <1>4, <1>5, NotArriving DEF DayInv
<1>8. ASSUME NEW a \in Actors, NEW b \in Dates, NEW u \in UtcDays
      PROVE  /\ granted'[<<a, b, u>>] <= Limit
             /\ u > UtcDay(second) \/ (u = UtcDay(second) /\ second % DayLength = 0) => granted'[<<a, b, u>>] = 0
             /\ u = UtcDay(second) /\ ~AtMidnight(second) => granted'[<<a, b, u>>] <= AtMost(counts'[<<a, b>>])
  <2>1. /\ granted[<<a, b, u>>] <= Limit
        /\ u > UtcDay(second) \/ (u = UtcDay(second) /\ second % DayLength = 0) => granted[<<a, b, u>>] = 0
        /\ u = UtcDay(second) /\ ~AtMidnight(second) => granted[<<a, b, u>>] <= AtMost(counts[<<a, b>>])
    BY DEF DayInv, DayCounted
  <2>2. <<a, b>> \in CounterKeys /\ counts[<<a, b>>] \in Nat /\ granted[<<a, b, u>>] \in Nat
    BY DEF QuotaInv, QuotaTypeOK, CounterKeys
  <2>3. CASE AtMidnight(second)
    BY <1>4, <2>1, <2>3
  <2>4. CASE ~AtMidnight(second) /\ <<a, b, u>> = g
    <3>1. a = q.actor /\ b = LocalDate(second) /\ u = UtcDay(second)
      BY <2>4 DEF g
    <3>2. granted'[<<a, b, u>>] = granted[g] + unit /\ counts'[<<a, b>>] = n
      BY <1>2, <1>4, <2>4, <3>1 DEF QuotaInv, QuotaTypeOK
    <3>3. granted[g] <= AtMost(counts[k])
      BY <2>1, <2>4, <3>1
    <3>4. granted[g] + unit <= AtMost(n)
      BY <1>2, <1>3, <1>6, <3>3, QuotaAssumption DEF AtMost
    <3>5. AtMost(n) <= Limit
      BY <1>3, QuotaAssumption DEF AtMost
    <3>6. u \in Nat /\ ~(u > UtcDay(second)) /\ second % DayLength # 0
      BY <2>4, <3>1, <1>2 DEF AtMidnight, UtcDays
    <3>7. granted'[<<a, b, u>>] <= Limit
      BY <1>3, <1>6, <3>2, <3>4, <3>5, QuotaAssumption DEF AtMost
    <3>8. QED BY <3>2, <3>4, <3>6, <3>7
  <2>5. CASE ~AtMidnight(second) /\ <<a, b, u>> # g
    <3>1. granted'[<<a, b, u>>] = granted[<<a, b, u>>]
      BY <1>4, <2>5 DEF QuotaInv, QuotaTypeOK
    <3>2. CASE <<a, b>> = k /\ u = UtcDay(second)
      <4>1. a = q.actor /\ b = LocalDate(second)
        BY <3>2
      <4>2. QED BY <2>5, <3>2, <4>1 DEF g
    <3>3. CASE ~(<<a, b>> = k /\ u = UtcDay(second))
      <4>1. u = UtcDay(second) => counts'[<<a, b>>] = counts[<<a, b>>]
        BY <1>4, <2>2, <3>3 DEF QuotaInv, QuotaTypeOK
      <4>2. QED BY <2>1, <3>1, <4>1
    <3>4. QED BY <3>2, <3>3
  <2>6. QED BY <2>3, <2>4, <2>5
<1>9. DayCounted'
  BY <1>4, <1>8 DEF DayCounted, AtMost, AtMidnight, UtcDay
<1>10. QED BY <1>7, <1>9 DEF DayInv

\* EXPIRE leaves and arrives: it leads to midnight, or removes the key at midnight.
LEMMA DayExpire ==
    ASSUME QuotaInv, DayInv, NEW r \in Askers, SendExpire(r) \/ ArriveExpire(r)
    PROVE  DayInv'
<1> DEFINE q == askers[r]
<1>1. q \in Asker /\ q.key \in CounterKeys /\ q.ttl \in 0..DayLength /\ q.sent \in 0..LastSecond
  BY DEF QuotaInv, QuotaTypeOK, Asker
<1>2. CASE SendExpire(r)
  <2>1. /\ askers' = [askers EXCEPT ![r].pc = "arrive", ![r].ttl = SecondsLeft(second), ![r].sent = second]
        /\ UNCHANGED <<second, counts, expiries, granted, spent>>
    BY <1>2 DEF SendExpire
  <2>2. ASSUME NEW x \in Askers, askers'[x].pc = "arrive"
        PROVE  /\ askers'[x].sent = second \/ askers'[x].sent + 1 = second
               /\ askers'[x].ttl = SecondsLeft(askers'[x].sent)
    <3>1. CASE x = r
      <4>1. askers'[x] = [q EXCEPT !.pc = "arrive", !.ttl = SecondsLeft(second), !.sent = second]
        BY <2>1, <3>1 DEF QuotaInv, QuotaTypeOK
      <4>2. askers'[x].sent = second /\ askers'[x].ttl = SecondsLeft(second)
        BY <1>1, <4>1 DEF Asker
      <4>3. QED BY <4>2
    <3>2. CASE x # r
      <4>1. askers'[x] = askers[x]
        BY <2>1, <3>2 DEF QuotaInv, QuotaTypeOK
      <4>2. QED BY <2>2, <4>1 DEF DayInv, ExpiriesAtMidnight
    <3>3. QED BY <3>1, <3>2
  <2>3. ExpiriesAtMidnight'
    BY <2>1, <2>2 DEF DayInv, ExpiriesAtMidnight, AtMidnight, SecondsLeft
  <2>4. DayCounted'
    BY <2>1, CountersKept DEF DayInv, QuotaInv, QuotaTypeOK
  <2>5. QED BY <2>3, <2>4 DEF DayInv
<1>3. CASE ArriveExpire(r)
  <2>1. askers' = [askers EXCEPT ![r] = Taken(q)] /\ UNCHANGED <<second, granted, spent>> /\ q.pc = "arrive"
    BY <1>3 DEF ArriveExpire
  <2>2. /\ q.sent \in Nat /\ second \in Nat /\ q.ttl = SecondsLeft(q.sent)
        /\ second = q.sent \/ second = q.sent + 1
    BY <1>1, <2>1, QuotaAssumption DEF DayInv, ExpiriesAtMidnight, QuotaInv, QuotaTypeOK
  <2>3. /\ AtMidnight(second + q.ttl) /\ second + q.ttl >= second
        /\ q.ttl = 0 => AtMidnight(second)
    BY <2>2, LeftLeadsToMidnight
  <2>4. /\ \A x \in CounterKeys : expiries'[x] \in {Never, second + q.ttl, expiries[x]}
        /\ AtMidnight(second) \/ counts' = counts
        /\ counts' \in [CounterKeys -> Nat]
    <3>1. CASE q.ttl = 0
      <4>1. Drop({q.key})
        BY <1>3, <3>1 DEF ArriveExpire
      <4>2. \A x \in CounterKeys : expiries'[x] = Never \/ expiries'[x] = expiries[x]
        BY <1>1, <4>1, DropMidnight DEF DayInv
      <4>3. counts' \in [CounterKeys -> Nat]
        BY <1>1, <2>1, <4>1, DropBacked
      <4>4. QED BY <2>3, <3>1, <4>2, <4>3
    <3>2. CASE q.ttl # 0
      <4>1. /\ expiries' = [expiries EXCEPT ![q.key] = IF counts[q.key] = 0 THEN expiries[q.key] ELSE second + q.ttl]
            /\ counts' = counts
        BY <1>3, <3>2 DEF ArriveExpire
      <4>2. QED BY <1>1, <4>1 DEF QuotaInv, QuotaTypeOK
    <3>3. QED BY <3>1, <3>2
  <2>5. ASSUME NEW x \in Askers, askers'[x].pc = "arrive" PROVE askers'[x] = askers[x]
    BY <2>1, <2>5, TakenPc DEF QuotaInv, QuotaTypeOK
  <2>6. ExpiriesAtMidnight'
    <3>1. ASSUME NEW x \in CounterKeys
          PROVE  expiries'[x] = Never \/ (expiries'[x] >= second /\ AtMidnight(expiries'[x]))
      BY <2>3, <2>4 DEF DayInv, ExpiriesAtMidnight
    <3>2. QED BY <2>1, <2>5, <3>1 DEF DayInv, ExpiriesAtMidnight, AtMidnight, SecondsLeft
  <2>7. DayCounted'
    BY <2>1, <2>4, CountersKept DEF DayInv
  <2>8. QED BY <2>6, <2>7 DEF DayInv
<1>4. QED BY <1>2, <1>3

\* A request arrives or ends early.
LEMMA DayRest ==
    ASSUME QuotaInv, DayInv, NEW r \in Askers, Asks(r) \/ AskFails(r)
    PROVE  DayInv'
<1>1. UNCHANGED <<second, counts, expiries, granted>>
  BY DEF Asks, Ask, EligibilityRun, BulkUpload, AskStart, AskFails
<1>2. \E q : q.pc # "arrive" /\ askers' = [askers EXCEPT ![r] = q]
  <2>1. CASE AskFails(r)
    BY <2>1 DEF AskFails, Done
  <2>2. CASE Asks(r)
    <3>1. PICK a \in Actors, n \in Nat : AskStart(r, a, n)
      BY <2>2, QuotaAssumption DEF Asks, Ask, EligibilityRun, BulkUpload, Parsed
    <3>2. [Done(a, "none") EXCEPT !.pc = "count", !.left = n].pc = "count"
      BY DEF Done
    <3>3. QED BY <3>1, <3>2 DEF AskStart
  <2>3. QED BY <2>1, <2>2
<1>3. QED BY <1>1, <1>2, NotArriving, CountersKept DEF DayInv, QuotaInv, QuotaTypeOK

\* Every step keeps the day's count.
LEMMA DayStep ==
    ASSUME QuotaInv, DayInv, [QuotaNext]_quotaVars
    PROVE  DayInv'
<1>1. CASE SecondPasses
  BY <1>1, DaySecond
<1>2. CASE \E k \in CounterKeys : KeyExpires(k)
  BY <1>2, DayExpires
<1>3. CASE \E r \in Askers : Count(r)
  BY <1>3, DayCount
<1>4. CASE \E r \in Askers : SendExpire(r) \/ ArriveExpire(r)
  BY <1>4, DayExpire
<1>5. CASE \E r \in Askers : Asks(r) \/ AskFails(r)
  BY <1>5, DayRest
<1>6. CASE UNCHANGED quotaVars
  <2>1. DayCounted'
    BY <1>6, CountersKept DEF quotaVars, DayInv, QuotaInv, QuotaTypeOK
  <2>2. QED BY <1>6, <2>1 DEF quotaVars, DayInv, ExpiriesAtMidnight, AtMidnight, SecondsLeft
<1>7. QED BY <1>1, <1>2, <1>3, <1>4, <1>5, <1>6 DEF QuotaNext, GoesOn

\* Nobody gets more than the limit on one local date and one UTC day, whatever overlaps or
\* crashes between INCR and EXPIRE (rate_limit/service.py:12-45).
THEOREM LimitKept == QuotaSpec => []GrantsWithinLimit
<1>1. QuotaInit => DayInv
  <2> SUFFICES ASSUME QuotaInit PROVE DayInv
    OBVIOUS
  <2>1. \A a \in Actors : Done(a, "none").pc = "idle"
    BY DEF Done
  <2>2. ExpiriesAtMidnight
    BY <2>1 DEF QuotaInit, ExpiriesAtMidnight
  <2>3. \A a \in Actors, d \in Dates : <<a, d>> \in CounterKeys /\ counts[<<a, d>>] = 0
    BY DEF QuotaInit, CounterKeys
  <2>4. AtMost(0) = 0 /\ 0 <= Limit
    BY QuotaAssumption DEF AtMost
  <2>5. \A a \in Actors, d \in Dates, u \in UtcDays : granted[<<a, d, u>>] = 0
    BY DEF QuotaInit
  <2>6. DayCounted
    <3>1. ASSUME NEW a \in Actors, NEW d \in Dates, NEW u \in UtcDays
          PROVE  granted[<<a, d, u>>] = 0 /\ granted[<<a, d, u>>] <= Limit
                 /\ granted[<<a, d, u>>] <= AtMost(counts[<<a, d>>])
      BY <2>3, <2>4, <2>5
    <3>2. QED BY <3>1 DEF DayCounted
  <2>7. QED BY <2>2, <2>6 DEF DayInv
<1>2. QuotaInv /\ DayInv /\ [QuotaNext]_quotaVars => DayInv'
  BY DayStep
<1>3. DayInv => GrantsWithinLimit
  <2> SUFFICES ASSUME DayInv, NEW x \in Actors \X Dates \X UtcDays PROVE granted[x] <= Limit
    BY DEF GrantsWithinLimit
  <2>1. PICK a \in Actors, d \in Dates, u \in UtcDays : x = <<a, d, u>>
    OBVIOUS
  <2>2. QED BY <2>1 DEF DayInv, DayCounted
<1>4. QED BY <1>1, <1>2, <1>3, CountersBacked, PTL DEF QuotaSpec
=============================================================================
