------------------------------ MODULE RouteValue ------------------------------
(***************************************************************************)
(* What the purchase-route optimizer counts as the value of a route          *)
(* (optimizer/engine.py): which routes it rejects, and how the components of *)
(* one that it accepts share the purchase amount, their own caps and the     *)
(* caps of their groups, one after another in route order.                  *)
(*                                                                          *)
(* Money is a whole number of the finest unit the input may use; the engine  *)
(* rounds to multiples of Minor, the currency's minor unit.  A route and its *)
(* scenario are drawn at the start; the steps value one component each.      *)
(* Links, fees and the ranking of the routes are left out.                   *)
(***************************************************************************)
EXTENDS Integers, SequencesExt, FiniteSetsExt

CONSTANTS
  Classes,        \* ComponentValueClass
  CapGroups,      \* names of cap groups
  Components,     \* the components routes are made of
  MaxComponents,  \* bound of the components of a route
  BenefitRules,   \* canonical benefit rules the components are based on
  Amounts,        \* purchase amounts
  Minor,          \* the minor unit
  MaxAge,         \* MAX_EVIDENCE_AGE_DAYS
  MaxLimitedAge,  \* MAX_TIME_LIMITED_EVIDENCE_AGE_DAYS
  Uncapped        \* no cap, no group, no allowance, no expiry

ASSUME MinorUnit == Minor \in Nat \ {0} /\ Minor % 2 = 0
ASSUME UncappedIsNone == Uncapped \notin Int \cup CapGroups

\* What a RouteComponent must be to exist.
WellFormed(c) ==
  /\ c.class \in Classes /\ c.group \in CapGroups \cup {Uncapped}
  /\ c.rule \in BenefitRules /\ c.with \subseteq BenefitRules
  /\ c.age \in Int /\ c.left \in Int \cup {Uncapped}
  /\ c.limited \in BOOLEAN /\ c.reviewed \in BOOLEAN
  /\ c.min \in Nat /\ c.max \in Nat /\ c.min <= c.max
  /\ c.class = "guaranteed" => c.min = c.max
  /\ c.cap \in Nat \cup {Uncapped} /\ c.allowance \in Nat \cup {Uncapped}

ASSUME MoneyOfRoutes ==
  /\ Amounts \subseteq Nat \ {0} /\ MaxComponents \in Nat
  /\ \A c \in Components : WellFormed(c)

VARIABLES
  route,      \* the components of the route
  amount,     \* the purchase amount
  valued,     \* contributions of the components so far: [min, max]
  leftClass,  \* remaining_by_class
  leftGroup   \* remaining_by_cap_group, of the groups met so far

routeVars == <<route, amount, valued, leftClass, leftGroup>>

\* ROUND_HALF_EVEN to the minor unit.
Quantize(v) ==
  LET q == v \div Minor
      r == v % Minor
  IN Minor * (IF 2 * r > Minor \/ (2 * r = Minor /\ q % 2 = 1) THEN q + 1 ELSE q)

Least(S) == Min(S \ {Uncapped})

-----------------------------------------------------------------------------
(* Rejection *)

\* Evidence reviewed, not from the future, not too old, not expired.
Sound(c) ==
  /\ c.reviewed
  /\ c.age >= 0
  /\ c.age <= IF c.limited THEN MaxLimitedAge ELSE MaxAge
  /\ c.left # Uncapped => c.left >= 0

\* _rejection_reasons and _compatibility_rejections find none.
Accepted(r) ==
  /\ \A i \in DOMAIN r : Sound(r[i]) /\ (r[i].group # Uncapped => r[i].cap # Uncapped)
  /\ \A i, j \in DOMAIN r : i # j =>
       /\ r[i].rule # r[j].rule /\ r[j].rule \in r[i].with
       /\ r[i].group # Uncapped /\ r[i].group = r[j].group => r[i].cap = r[j].cap

-----------------------------------------------------------------------------
(* Valuation *)

RouteInit ==
  /\ route \in BoundedSeq(Components, MaxComponents) \ {<<>>}
  /\ Accepted(route)
  /\ amount \in Amounts
  /\ valued = <<>>
  /\ leftClass = [c \in Classes |-> Quantize(amount)]
  /\ leftGroup = [g \in {} |-> 0]

\* Variant: a group's budget is what its first member may use of it.
GroupLeftFromMember(c) ==
  IF c.group \in DOMAIN leftGroup THEN leftGroup[c.group]
  ELSE Least({c.cap, c.max})

\* setdefault: the first member of a group brings its budget.
GroupLeft(c) == IF c.group \in DOMAIN leftGroup THEN leftGroup[c.group] ELSE c.cap

\* What the next component may count, at most.
LimitOf(c) ==
  Least({amount, c.cap, c.allowance, leftClass[c.class],
         IF c.group = Uncapped THEN Uncapped ELSE GroupLeft(c)})

\* _contribution.
ValueNext ==
  /\ Len(valued) < Len(route)
  /\ LET c    == route[Len(valued) + 1]
         most == Quantize(Min({c.max, LimitOf(c)}))
     IN /\ valued' = Append(valued, [min |-> Quantize(Min({c.min, LimitOf(c)})), max |-> most])
        /\ leftClass' = [leftClass EXCEPT ![c.class] = @ - most]
        /\ leftGroup' = IF c.group = Uncapped THEN leftGroup
                        ELSE [g \in DOMAIN leftGroup \cup {c.group} |->
                                IF g = c.group THEN GroupLeft(c) - most ELSE leftGroup[g]]
  /\ UNCHANGED <<route, amount>>

RouteNext == ValueNext

RouteSpec == RouteInit /\ [][RouteNext]_routeVars

-----------------------------------------------------------------------------
(* Properties *)

RouteTypeOK ==
  /\ route \in Seq(Components) /\ amount \in Amounts
  /\ Len(valued) <= Len(route)
  /\ \A i \in DOMAIN valued : valued[i].min \in Nat /\ valued[i].max \in Nat
  /\ leftClass \in [Classes -> Nat]
  /\ DOMAIN leftGroup \subseteq CapGroups
  /\ \A g \in DOMAIN leftGroup : leftGroup[g] \in Int

\* The first n amounts of f together.
SumTo(f, n) ==
  LET sum[i \in 0 .. n] == IF i = 0 THEN 0 ELSE sum[i - 1] + f[i]
  IN sum[n]

\* _total of value_max.
Total(c) ==
  SumTo([i \in DOMAIN valued |-> IF route[i].class = c THEN valued[i].max ELSE 0], Len(valued))
Counted(g) ==
  SumTo([i \in DOMAIN valued |-> IF route[i].group = g THEN valued[i].max ELSE 0], Len(valued))
OfGroup(g) == {i \in DOMAIN route : route[i].group = g}
CapOf(g) == route[CHOOSE i \in OfGroup(g) : TRUE].cap
GroupsOf(r) == {r[i].group : i \in DOMAIN r} \ {Uncapped}

\* Nothing is counted twice: no class exceeds the purchase, and no component
\* and no group exceeds its cap by more than the rounding of one amount.
LimitsKept ==
  /\ \A c \in Classes : Total(c) <= Quantize(amount)
  /\ \A g \in GroupsOf(route) : 2 * Counted(g) <= 2 * CapOf(g) + Minor
  /\ \A i \in DOMAIN valued :
       /\ valued[i].min <= valued[i].max
       /\ 2 * valued[i].max <= 2 * Least({route[i].max, route[i].cap, route[i].allowance}) + Minor

WholeUnits ==
  \A i \in DOMAIN route :
    \A v \in {route[i].max, route[i].cap, route[i].allowance, amount} \ {Uncapped} : v % Minor = 0
GroupsWithinClasses ==
  \A i, j \in DOMAIN route :
    route[i].group # Uncapped /\ route[i].group = route[j].group => route[i].class = route[j].class

\* The least a value may be cut to, and what the caps leave of the first n
\* components: a group's members together count up to its cap, here at the
\* place of the first of them.
Worth(i) == Least({amount, route[i].max, route[i].cap, route[i].allowance})
GroupWorth(g, n) == SumTo([i \in 1 .. n |-> IF route[i].group = g THEN Worth(i) ELSE 0], n)
Share(c, i, n) ==
  IF route[i].class # c \/ \E j \in 1 .. i - 1 : route[i].group # Uncapped /\ route[j].group = route[i].group THEN 0
  ELSE IF route[i].group = Uncapped THEN Worth(i)
  ELSE Min({route[i].cap, GroupWorth(route[i].group, n)})
ClassWorth(c, n) == Min({amount, SumTo([i \in 1 .. n |-> Share(c, i, n)], n)})

\* The order of the components then changes no total.
TotalsExact ==
  WholeUnits /\ GroupsWithinClasses =>
    \A c \in Classes : Total(c) = ClassWorth(c, Len(valued))

\* A route is worth what its caps leave of it, counted once: a declared group
\* budget is allocated once across members (docs/PURCHASE-OPTIMIZER.md), and no
\* order of the components gains or loses value unless a group spans classes.
RouteValueSound == valued # <<>> => LimitsKept /\ TotalsExact

=============================================================================
