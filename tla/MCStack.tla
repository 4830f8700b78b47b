------------------------------ MODULE MCStack ------------------------------
(* Three aircraft, named or interchangeable, for the runs of Stack. *)
EXTENDS Stack, TLC

Symmetry == Permutations(Callsigns)

\* A bound: how many missed approaches the three have behind them together.
MaxMisses == 2

\* Past the first doubled level the two properties about levels say nothing, and
\* the others are proved without this constraint (StackProofs).
NobodyDoubled == ~doubled

FewMisses ==
    Cardinality({c \in Callsigns : tries[c] > 0}) + Cardinality({c \in Callsigns : tries[c] > 1})
        <= MaxMisses
=============================================================================
