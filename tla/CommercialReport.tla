--------------------------- MODULE CommercialReport ---------------------------
(***************************************************************************)
(* The portfolio that build_commercial_report of app/hub/commercial.py      *)
(* ranks, scores and divides into segments, with the lifecycle and the      *)
(* channel that extract_commercial_snapshot gave its customers.             *)
(***************************************************************************)
EXTENDS Integers, Sequences, FiniteSets

CONSTANTS Sources,         \* subsets of {"facto", "tiendanube", "crm"} of a customer
          Turnovers,         \* sales of a customer that bought
          Counts,          \* how often a customer bought
          Today,           \* the days are 1 .. Today
          NewDays, ActiveDays, RiskDays,    \* 60, 90, 180
          Others,          \* sequences of the sales of other customers
          MaxCustomers     \* bound

ASSUME ReportAssumption ==
    /\ Turnovers \subseteq Nat
    /\ Others \subseteq Seq(Nat)
    /\ Counts \subseteq Nat \ {0}
    /\ {Today, MaxCustomers, NewDays, ActiveDays, RiskDays} \subseteq Nat
    /\ NewDays <= ActiveDays /\ ActiveDays < RiskDays

VARIABLES portfolio,   \* customers, in the order of the portfolio
          others       \* of other customers, further back, only the sales matter

reportVars == <<portfolio, others>>

\* What the providers say of a customer; one that never bought, or never on a
\* known day, has no first and no last day.
Customers ==
    {c \in [sources : Sources, first : 0 .. Today, last : 0 .. Today,
            events : Counts \cup {0}, amount : Turnovers \cup {0}, email : BOOLEAN] :
        /\ (c.events = 0) <=> (c.last = 0)
        /\ c.last = 0 => c.first = 0 /\ c.amount = 0
        /\ c.last # 0 => /\ c.first \in 1 .. c.last
                         /\ c.events = 1 => c.first = c.last
                         /\ c.sources # {"crm"}}

HasBought(c) == c.last # 0
Since(c) == Today - c.last

\* Mutant: the thresholds are those of the next class.
LifecycleLate(c) ==
    CASE ~HasBought(c) -> "no_purchase"
      [] HasBought(c) /\ Today - c.first <= NewDays /\ c.events <= 2 -> "new"
      [] OTHER -> IF Since(c) < ActiveDays THEN "active"
                  ELSE IF Since(c) < RiskDays THEN "at_risk" ELSE "dormant"

Lifecycle(c) ==
    CASE ~HasBought(c) -> "no_purchase"
      [] HasBought(c) /\ Today - c.first <= NewDays /\ c.events <= 2 -> "new"
      [] OTHER -> IF Since(c) <= ActiveDays THEN "active"
                  ELSE IF Since(c) <= RiskDays THEN "at_risk" ELSE "dormant"

Channel(c) ==
    CASE {"facto", "tiendanube"} \subseteq c.sources -> "both"
      [] "tiendanube" \in c.sources /\ "facto" \notin c.sources -> "tiendanube_only"
      [] "facto" \in c.sources /\ "tiendanube" \notin c.sources -> "facto_only"
      [] OTHER -> "crm_only"

\* commercial_value, in the order of the customers.
Values == [i \in DOMAIN portfolio |-> portfolio[i].amount] \o others

Ranked == {i \in DOMAIN Values : Values[i] > 0}

\* Mutant: the lowest value comes first.
PositionFromBelow(i) ==
    Cardinality({j \in Ranked : \/ Values[j] < Values[i]
                                \/ Values[j] = Values[i] /\ j < i})

\* The highest value first, equal values in the order of the portfolio.
Position(i) ==
    Cardinality({j \in Ranked : \/ Values[j] > Values[i]
                                \/ Values[j] = Values[i] /\ j < i})

AtLeastOne(n) == IF n < 1 THEN 1 ELSE n
AtMost(limit, n) == IF n > limit THEN limit ELSE n

\* round(percentile * 40); no half occurs in portfolios as small as the bound.
ValuePoints(i) ==
    LET steps == AtLeastOne(Cardinality(Ranked) - 1)
    IN IF i \notin Ranked THEN 0
       ELSE (2 * 40 * (steps - Position(i)) + steps) \div (2 * steps)

LifecyclePoints(c) ==
    CASE Lifecycle(c) = "new" -> 22 [] Lifecycle(c) = "active" -> 25
      [] Lifecycle(c) = "at_risk" -> 13 [] Lifecycle(c) = "dormant" -> 4
      [] OTHER -> 0

Score(i) ==
    LET c == portfolio[i]
    IN AtMost(100, ValuePoints(i) + LifecyclePoints(c) + AtMost(20, 3 * c.events)
                   + (IF Channel(c) = "both" THEN 10 ELSE 4) + (IF c.email THEN 5 ELSE 0))

Tier(i) ==
    CASE Score(i) >= 75 -> "A"
      [] Score(i) >= 55 /\ Score(i) < 75 -> "B"
      [] Score(i) >= 35 /\ Score(i) < 55 -> "C"
      [] OTHER -> "D"

\* The recommended action and its priority, in the order the cases are tried.
Advice(i) ==
    LET c == portfolio[i]
        life == Lifecycle(c)
        good == Tier(i) \in {"A", "B"}
    IN IF ~c.email THEN <<"complete_contact", "high">>
       ELSE IF Channel(c) = "tiendanube_only"
            THEN <<"convert_web_to_b2b", IF c.events >= 2 THEN "high" ELSE "medium">>
       ELSE IF life \in {"at_risk", "dormant"} /\ good THEN <<"rescue_priority", "urgent">>
       ELSE IF life = "dormant" THEN <<"reactivate", "high">>
       ELSE IF life = "new" THEN <<"onboard", "medium">>
       ELSE IF life = "active" /\ c.events >= 4
            THEN <<"loyalty_cross_sell", IF good THEN "high" ELSE "medium">>
       ELSE IF life = "no_purchase" THEN <<"qualify", "medium">>
       ELSE <<"follow_up", "normal">>

\* The segments that rest on the providers; only who can be contacted is in one.
Segment(name) ==
    {i \in DOMAIN portfolio :
        /\ portfolio[i].email
        /\ CASE name = "rescue" -> Advice(i)[1] = "rescue_priority"
             [] name = "web" -> Channel(portfolio[i]) = "tiendanube_only"
             [] name = "loyal" -> Advice(i)[1] = "loyalty_cross_sell"
             [] name = "new" -> Advice(i)[1] = "onboard"
             [] name = "dormant" -> Lifecycle(portfolio[i]) = "dormant"
             [] name = "at risk" -> Lifecycle(portfolio[i]) = "at_risk"}

ReportInit ==
    /\ portfolio = <<>>
    /\ others \in Others

AddCustomer(c) ==
    /\ portfolio' = Append(portfolio, c)
    /\ UNCHANGED others

ReportNext ==
    /\ Len(portfolio) < MaxCustomers
    /\ \E c \in Customers : AddCustomer(c)

ReportSpec == ReportInit /\ [][ReportNext]_reportVars

-----------------------------------------------------------------------------
\* Of two customers that differ in nothing else but their sales, the one that
\* buys more never scores less, however many others the portfolio has.
HigherValueNeverScoresLess ==
    \A i, j \in DOMAIN portfolio :
        LET c == portfolio[i]
            d == portfolio[j]
        IN (/\ c.amount > d.amount
            /\ Lifecycle(c) = Lifecycle(d) /\ c.events = d.events
            /\ Channel(c) = Channel(d) /\ c.email = d.email) => Score(i) >= Score(j)

\* The reasons that the segments are sent with (app/hub/commercial.py:1313-1370)
\* are true of everybody in them: "A/B con más de 90 días sin compra", "mas de 180
\* dias sin compra", "entre 91 y 180 dias", "activos con cuatro o más compras".
SegmentsAreAsTheySay ==
    LET Elapsed(i) == Since(portfolio[i])
    IN /\ \A i \in Segment("rescue") : Tier(i) \in {"A", "B"} /\ Elapsed(i) > ActiveDays
       /\ \A i \in Segment("dormant") : Elapsed(i) > RiskDays
       /\ \A i \in Segment("at risk") : Elapsed(i) > ActiveDays /\ Elapsed(i) <= RiskDays
       /\ \A i \in Segment("loyal") : portfolio[i].events >= 4 /\ Elapsed(i) <= ActiveDays
       /\ \A i \in Segment("new") : HasBought(portfolio[i]) /\ Elapsed(i) <= NewDays
=============================================================================
