---------------------------- MODULE PromotionPolicy ----------------------------
(***************************************************************************)
(* The two policies that gate a promotion between distributions            *)
(* (services/promotion.py).  A scan summary maps severities to counts, the *)
(* configured policy maps severities to actions, EPSS scores are integers  *)
(* in thousandths.  Reasons and CVE labels, which only feed messages, are  *)
(* left out: a verdict is one of three strings.                            *)
(***************************************************************************)
EXTENDS Naturals

CONSTANT NoScan  \* the summary of a version that has no CVE scan

Verdicts == {"approved", "pending_review", "blocked"}
Actions  == {"block", "review", "warn", "allow"}

\* policy.get(sev, "warn")
PolicyAction(policy, sev) == IF sev \in DOMAIN policy THEN policy[sev] ELSE "warn"

\* The severities present in the summary to which the policy gives this action.
Hits(summary, policy, action) ==
    {sev \in DOMAIN summary : summary[sev] > 0 /\ PolicyAction(policy, sev) = action}

CveVerdict(summary, policy) ==
    IF summary = NoScan THEN "approved"
    ELSE IF Hits(summary, policy, "block") # {} THEN "blocked"
    ELSE IF Hits(summary, policy, "review") # {} THEN "pending_review"
    ELSE "approved"

\* A score of 0 is an unknown score and is skipped whatever the thresholds are.
ScoresAtLeast(scores, threshold) == {x \in scores : x # 0 /\ x >= threshold}

EpssVerdict(scores, ep) ==
    IF ~ep.enabled THEN "approved"
    ELSE IF ScoresAtLeast(scores, ep.block) # {} THEN "blocked"
    ELSE IF ScoresAtLeast(scores, ep.review) # {} THEN "pending_review"
    ELSE "approved"

\* Slip: only a blocking EPSS verdict is folded in.
MergeBlockedOnly(cve, epss) ==
    IF cve # "blocked" /\ epss = "blocked" THEN "blocked" ELSE cve

\* How promote() folds the EPSS verdict into the CVE verdict.
MergeVerdict(cve, epss) ==
    IF cve # "blocked" /\ epss = "blocked" THEN "blocked"
    ELSE IF cve = "approved" /\ epss = "pending_review" THEN "pending_review"
    ELSE cve
================================================================================
