---------------------------- MODULE Experiments ----------------------------
(***************************************************************************)
(* A/B tests: analytics/app/experiments/page.tsx with ExperimentCard.tsx.  *)
(* A card tests whether two conversion rates differ and, once they do,     *)
(* offers to declare either variant the winner.                            *)
(***************************************************************************)
EXTENDS Integers, Sequences

CONSTANTS
  Visitors, \* how many a variant may have had
  None

VARIABLES experiments \* [status, winner, variants]

Side == {"A", "B"}
Variant == UNION {[visitors: {n}, conversions: 0..n] : n \in Visitors}

\* chiSquarePValue's statistic, as a fraction: the sum of (obs - exp)^2 / exp over
\* the four cells. An empty row or column makes it 0 / 0.
Chi2(a, b) ==
  LET n == a.visitors + b.visitors
      successes == a.conversions + b.conversions
      det == a.conversions * b.visitors - b.conversions * a.visitors
  IN [num |-> n * det * det, den |-> a.visitors * b.visitors * successes * (n - successes)]
Above(chi2, thousandths) == chi2.den > 0 /\ chi2.num * 1000 > thousandths * chi2.den

\* exp(-0.717 x - 0.416 x^2) < 0.05: x is above 1.957. NaN is below nothing.
FaultySignificant(a, b) == Above(Chi2(a, b), 1957) \/ Chi2(a, b).den = 0
Significant(a, b) == Above(Chi2(a, b), 1957)

Leading(a, b) == \* a rate of no visitors compares false
  IF a.visitors > 0 /\ b.visitors > 0 /\ b.conversions * a.visitors > a.conversions * b.visitors
  THEN "B" ELSE "A"

\* The buttons of a card.
Declarable(e) ==
  e.status = "active" /\ e.winner = None /\ Significant(e.variants[1], e.variants[2])

\* INITIAL_EXPERIMENTS: some are running, some are over; here one of each.
ExperimentsInit ==
  \E v, w \in [1..2 -> Variant] :
    experiments = <<[status |-> "active", winner |-> None, variants |-> v],
                    [status |-> "completed", winner |-> "B", variants |-> w]>>

DeclareWinner == \E i \in DOMAIN experiments, s \in Side :
  /\ Declarable(experiments[i])
  /\ experiments' = [experiments EXCEPT ![i].winner = s, ![i].status = "completed"]
Spec == ExperimentsInit /\ [][DeclareWinner]_experiments
-----------------------------------------------------------------------------
ExperimentsTypeOK == \A i \in DOMAIN experiments :
  experiments[i].status \in {"active", "completed"} /\ experiments[i].winner \in Side \cup {None}

\* What a card offers does not hang on which variant is called A: equal rates are
\* never told apart, rates that are stay apart when as many visitors come again,
\* and swapping the variants swaps who leads.
CardsAreFair == \A i \in DOMAIN experiments :
  LET a == experiments[i].variants[1]
      b == experiments[i].variants[2]
      twice(v) == [visitors |-> 2 * v.visitors, conversions |-> 2 * v.conversions]
  IN /\ Significant(a, b) <=> Significant(b, a)
     /\ Significant(a, b) =>
          /\ a.conversions * b.visitors # b.conversions * a.visitors
          /\ Significant(twice(a), twice(b))
          /\ Leading(a, b) # Leading(b, a)

\* A winner stays, and one is declared only where rates differ.
WinnersStay ==
  [][\A i \in DOMAIN experiments :
       \/ experiments'[i] = experiments[i]
       \/ /\ experiments[i].winner = None
          /\ Leading(experiments[i].variants[1], experiments[i].variants[2])
             # Leading(experiments[i].variants[2], experiments[i].variants[1])]_experiments
=============================================================================
