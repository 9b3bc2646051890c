----------------------------- MODULE MCPromotion -----------------------------
(***************************************************************************)
(* Small instances of Promotion for TLC.                                   *)
(***************************************************************************)
EXTENDS Promotion, TLC

CONSTANTS noble, jammy, h1, h2, i1, i2

Counts(c, h) == [critical |-> c, high |-> h]

\* One summary to review, none else: the races between decisions.
ReviewOnly == {NoScan, Counts(0, 1)}
\* Blocked by the default policy, to review under the second one.
Critical   == {NoScan, Counts(1, 1)}

DefaultPolicy == [critical |-> "block", high |-> "review"]
OnePolicy     == {DefaultPolicy}
\* The second policy has no entry for high: it falls back to "warn".
TwoPolicies   == {DefaultPolicy, [critical |-> "review"]}

DefaultEpss == [enabled |-> TRUE, block |-> 900, review |-> 500]
NoEpss      == {{}}
\* One score, at the review threshold.
OneScore    == {{500}}
\* Unknown score, one at the review threshold, one at the block threshold.
EpssScores  == {{0}, {500}, {900}}

\* Handlers and requests are only compared.
Alike == Permutations({h1, h2}) \cup Permutations({i1, i2})

OneWay == {<<jammy, noble>>}
================================================================================
