--------------------------------- MODULE MCDecisions ---------------------------------
\* Decisions on a small instance: a CVE that the policy blocks, one that it lets through
\* and one that it sends to review, in three generations of the Grype database.
EXTENDS Decisions, TLC

CONSTANT team

MCSeverityOf == [worst |-> "Critical", severe |-> "High", mild |-> "Low"]
MCFound      == (0 :> {"worst"}) @@ (1 :> {"mild"}) @@ (2 :> {"severe", "mild"})
MCCvePolicy  == [Critical |-> "block", High |-> "review", Low |-> "allow"]
MCRules      == [High |-> team, Low |-> team]
MCChoices ==
    {[action |-> "exception", days |-> 2], [action |-> "upgrade_required", days |-> 2],
     [action |-> "accept_risk", days |-> 1], [action |-> "reject", days |-> 0]}
MCMixes ==
    {{"admit", "rescan", "grype"},
     {"rescan", "rematch", "reenrich"},
     {"admit", "reenrich", "refresh", "sync", "age_kev"},
     {"sync", "rescan", "publish", "age"},
     {"rematch", "grype", "quarantine", "decide", "rssi", "exception"},
     {"decide", "update", "sla", "rssi", "exception", "upgrade_required"},
     {"quarantine", "decide", "update", "delete", "rssi", "chief", "upgrade_required"},
     {"decide", "delete", "sla", "rssi", "accept_risk", "upgrade_required"},
     {"decide", "resolve", "assign", "rssi", "reject", "upgrade_required"}}
================================================================================
