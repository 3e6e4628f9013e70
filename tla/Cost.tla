---------------------------------- MODULE Cost ----------------------------------
(***************************************************************************)
(* What a period cost, divided over the businesses by the person-days they    *)
(* booked in it: ikiku_coop/models/ikiku_cost.py.  Days and money are whole    *)
(* numbers, and money is rounded to the currency's unit when it is stored.     *)
(***************************************************************************)
EXTENDS Integers, FiniteSets, FiniteSetsExt, Functions

CONSTANTS
    None,
    Bookings,           \* booking -> [business, start, end or None]
    Periods,            \* period -> [start, end]
    Costs               \* what staff may enter as total_cost; 0 is nothing

VARIABLES
    counted,            \* the bookings in state confirmed, in_progress or done
    period              \* period -> [cost, state, share, rate, divided]

vars == <<counted, period>>
TypeOK ==
    /\ counted \subseteq DOMAIN Bookings
    /\ \A p \in DOMAIN Periods : /\ period[p].cost \in Costs /\ period[p].divided \in Costs
                                 /\ period[p].state \in {"draft", "allocated", "closed"}
                                 /\ period[p].rate \in Nat

\* Half a unit is rounded up.
Rounded(n, d) == (2 * n + d) \div (2 * d)

DaysShort(b, span) ==   \* mutant: the last day is not counted
    Max({0, Min({IF b.end = None THEN span.end ELSE b.end, span.end}) - Max({b.start, span.start})})
\* _person_days: the days of a booking inside a span, both ends counted.
Days(b, span) ==
    LET start == Max({b.start, span.start})
        end == Min({IF b.end = None THEN span.end ELSE b.end, span.end})
    IN IF end >= start THEN end - start + 1 ELSE 0

Used(p, business) ==
    SumFunction([b \in {b \in counted : Bookings[b].business = business} |-> Days(Bookings[b], Periods[p])])
Users(p) == {x \in {Bookings[b].business : b \in counted} : Used(p, x) > 0}
TotalDays(share) == SumFunction([x \in DOMAIN share |-> share[x].days])

\* _compute_totals, from the shares there are and the cost as it is now.
Rate(cost, share) == IF TotalDays(share) = 0 THEN 0 ELSE Rounded(cost, TotalDays(share))
\* The shares: the cost over the days of all, to each for their days.
Divided(p) ==
    LET total == SumFunction([x \in Users(p) |-> Used(p, x)])
    IN [x \in Users(p) |-> [days |-> Used(p, x), amount |-> Rounded(period[p].cost * Used(p, x), total)]]

-----------------------------------------------------------------------------
Init ==
    /\ counted = DOMAIN Bookings
    /\ period = [p \in DOMAIN Periods |->
                    [cost |-> 0, state |-> "draft", share |-> <<>>, rate |-> 0, divided |-> 0]]

\* action_allocate: the shares there were are thrown away, those paid too.
Allocate(p) ==
    /\ period[p].state # "closed" /\ period[p].cost # 0 /\ Users(p) # {}
    /\ period' = [period EXCEPT ![p].share = Divided(p), ![p].state = "allocated",
                                ![p].rate = Rate(period[p].cost, Divided(p)),
                                ![p].divided = period[p].cost]
    /\ UNCHANGED counted

\* Staff, in the form: the cost of a period, also of one already divided.
SetCost(p, cost) ==
    /\ period' = [period EXCEPT ![p].cost = cost, ![p].rate = Rate(cost, period[p].share)]
    /\ UNCHANGED counted
\* A period is closed by a write of its state, which no button of the code makes.
Close(p) == /\ period[p].state = "allocated" /\ period' = [period EXCEPT ![p].state = "closed"]
            /\ UNCHANGED counted

\* A booking is cancelled or at risk, or counts again.
Changes(b) ==
    /\ counted' = IF b \in counted THEN counted \ {b} ELSE counted \cup {b}
    /\ UNCHANGED period

Next ==
    \/ \E p \in DOMAIN Periods : Allocate(p) \/ Close(p) \/ \E cost \in Costs : SetCost(p, cost)
    \/ \E b \in DOMAIN Bookings : Changes(b)

-----------------------------------------------------------------------------
\* What is divided is the cost as it was entered, whole: the shares miss it by no more than the
\* rounding of each, who booked more pays no less, and nobody pays who used nothing.
Recovered ==
    \A p \in DOMAIN Periods :
        LET share == period[p].share
            paid == SumFunction([x \in DOMAIN share |-> share[x].amount])
            off == paid - period[p].divided
        IN /\ 2 * (IF off < 0 THEN -off ELSE off) <= Cardinality(DOMAIN share)
           /\ \A x, y \in DOMAIN share : share[x].days < share[y].days => share[x].amount <= share[y].amount
           /\ \A x \in DOMAIN share : share[x].days > 0

\* The rate anybody can check: the cost as the page shows it over the days it shows.
RateReads ==
    \A p \in DOMAIN Periods : period[p].rate = Rate(period[p].cost, period[p].share)

\* A day of a booking is counted once in every period it lies in.  Nothing keeps two periods from
\* overlapping: counted over both, every day they cover counts once, and a day of both once more.
DaysIn(b, span) == {d \in span.start..span.end : d >= b.start /\ (b.end = None \/ d <= b.end)}
DaysAddUp ==
    \A p, q \in DOMAIN Periods : \A b \in DOMAIN Bookings :
        LET inP == DaysIn(Bookings[b], Periods[p])
            inQ == DaysIn(Bookings[b], Periods[q])
        IN Days(Bookings[b], Periods[p]) + Days(Bookings[b], Periods[q])
               = Cardinality(inP \cup inQ) + Cardinality(inP \cap inQ)
===============================================================================
