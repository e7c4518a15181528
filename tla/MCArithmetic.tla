----------------------------- MODULE MCArithmetic -----------------------------
EXTENDS BudgetArithmetic, Evaluators

\* The functions share no argument: those of one are enumerated while the others rest.
Resting == [i \in 1..4 |-> 0]
Answer == [pii |-> 0, words |-> <<"a">>, short |-> FALSE, mismatch |-> FALSE, blocked |-> 0,
           provider |-> 0, total |-> 0, prompt |-> 0, completion |-> 0, cost |-> 0,
           limits |-> <<0, 0, 0, 0>>]

Words == UNION {[1..n -> {"a", "b"}] : n \in {0, 1, 7, 8, 9, 10}}

MCInit ==
    \/ args \in [1..4 -> Machine] /\ usage = Resting /\ input = Answer
    \/ args = Resting /\ usage \in [1..4 -> Machine] /\ input = Answer
    \/ /\ args = Resting /\ usage = Resting
       /\ \/ \E n \in 0..6 : input = [Answer EXCEPT !.pii = n, !.blocked = n]
          \/ \E w \in Words, s, m \in BOOLEAN : input = [Answer EXCEPT !.words = w, !.short = s, !.mismatch = m]
          \/ \E l, t, c \in {1, 2}, m, n \in 0..MaxInt, limits \in [1..4 -> 0..2] :
               input = [Answer EXCEPT !.provider = l, !.total = t, !.prompt = m, !.completion = n,
                                      !.cost = c, !.limits = limits]

MCSpec == MCInit /\ [][UNCHANGED <<arguments, input>>]_<<arguments, input>>
===============================================================================
