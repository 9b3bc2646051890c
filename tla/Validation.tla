-------------------------------- MODULE Validation --------------------------------
(***************************************************************************)
(* What decides whether a file may enter the repository: the validation    *)
(* pipelines of services/validator_apt.py, validator_rpm.py and            *)
(* validator_apk.py, chosen by the extension of the file                   *)
(* (services/validator.py).                                                *)
(*                                                                         *)
(* A report says what each external tool answers about one file; the       *)
(* configuration is the settings validation.* and cve_policy.  Operators   *)
(* are named after the functions; those of the three formats that have the *)
(* same text are one operator under three names.                           *)
(***************************************************************************)
EXTENDS Integers, FiniteSets

Kinds == {"deb", "rpm", "apk"}

\* The severities of Grype (_order); any other name counts as Unknown.
Severities == {"Critical", "High", "Medium", "Low", "Negligible", "Unknown"}

AllReports ==
    [file     : {"extension", "broken", "good"},
     sum      : {"none", "same", "other"},
     control  : {"none", "unknown", "no_section", "same", "other"},
     clamd    : {"absent", "raises", "ok", "found", "other"},
     clamscan : {"absent", "timeout", "clean", "infected", "error"},
     grype    : {"absent", "timeout", "raises", "error", "unreadable", "done"},
     found    : SUBSET (Severities \cup {"Defcon"}),
     sig      : {"none", "valid", "invalid"}]

Actions == {"block", "review", "warn", "allow"}
FailOn  == {"critical", "high", "medium", "low", "none"}

\* policy is the cve_policy setting, a partial function; an empty one is ignored.
AllConfigs ==
    [clamav_scan : BOOLEAN, grype_scan : BOOLEAN, gpg_required : BOOLEAN,
     policy : UNION {[S -> Actions] : S \in SUBSET Severities}, fail_on : FailOn]

-----------------------------------------------------------------------------
\* A result: passed, the status that the CVE policy gives, the steps that failed.
ValidationResult == [passed |-> TRUE, cve |-> "approved", failed |-> {}]

AddStep(res, name, ok) ==
    IF ok THEN res ELSE [res EXCEPT !.passed = FALSE, !.failed = @ \cup {name}]

\* "if not result.passed: return result" before the next step.
Then(res, next) == IF res.passed THEN next ELSE res

\* Step 1: the extension, then dpkg-deb --info, rpm -qip, or a .PKGINFO in a gzip stream.
AptFormat(r, res) == AddStep(res, "format", r.file = "good")
RpmFormat(r, res) == AddStep(res, "format", r.file = "good")
ApkFormat(r, res) == AddStep(res, "format", r.file = "good")

\* Step 2: the SHA-256 of the source, when the index has one.
AptProvenance(r, res) == AddStep(res, "provenance", r.sum # "other")
RpmProvenance(r, res) == AptProvenance(r, res)
ApkChecksum(r, res)   == AddStep(res, "checksum", r.sum # "other")

\* The C: field of the APKINDEX: only a SHA-1 of the control section that differs fails.
ApkControlSection(r) == r.control \in {"same", "other"}
ApkControlChecksum(r, res) ==
    AddStep(res, "control_checksum", ApkControlSection(r) => r.control = "same")

\* Step 3: the daemon; without one, or when the socket fails, clamscan.
ClamdStatus(r) == [ok |-> "OK", found |-> "FOUND", other |-> "ERROR"][r.clamd]
Clamscan(r)    == r.clamscan # "infected"
AptClamav(r, res) ==
    AddStep(res, "antivirus",
        IF r.clamd \in {"absent", "raises"} THEN Clamscan(r) ELSE ClamdStatus(r) # "FOUND")
RpmClamdStatus(r)  == ClamdStatus(r)
RpmClamav(r, res)  == AptClamav(r, res)

\* Step 4: what Grype found, if it ran and could be read.
Counted(s)      == IF s \in Severities THEN s ELSE "Unknown"
AptMatches(r)   == IF r.grype = "done" THEN {Counted(s) : s \in r.found} ELSE {}
RpmMatches(r)   == AptMatches(r)
ApkMatches(r)   == AptMatches(r)
Threshold       ==
    [critical |-> {"Critical"}, high |-> {"Critical", "High"}, medium |-> {"Critical", "High", "Medium"},
     low |-> {"Critical", "High", "Medium", "Low"}, none |-> {}]
PolicyOf(c, s)  == IF s \in DOMAIN c.policy THEN c.policy[s] ELSE "allow"
Asks(c, seen, a) == \E s \in seen : PolicyOf(c, s) = a
Blocks(c, seen)  ==
    IF DOMAIN c.policy # {} THEN Asks(c, seen, "block") ELSE seen \cap Threshold[c.fail_on] # {}
Reviews(c, seen) == DOMAIN c.policy # {} /\ Asks(c, seen, "review")
Judged(c, seen, res) ==
    IF Blocks(c, seen) THEN AddStep([res EXCEPT !.cve = "blocked"], "cve", FALSE)
    ELSE [res EXCEPT !.cve = IF Reviews(c, seen) THEN "pending_review" ELSE "approved"]
AptGrype(r, c, res) == IF r.grype = "done" THEN Judged(c, AptMatches(r), res) ELSE res
RpmGrype(r, c, res) == IF r.grype = "done" THEN Judged(c, RpmMatches(r), res) ELSE res
ApkGrype(r, c, res) == IF r.grype = "done" THEN Judged(c, ApkMatches(r), res) ELSE res

\* Step 5: a detached signature beside the file; for .apk only whether one is inside, never a failure.
AptGpg(r, c, res) == AddStep(res, "gpg", IF r.sig = "none" THEN ~c.gpg_required ELSE r.sig = "valid")
RpmGpg(r, c, res) == AddStep(res, "gpg", IF r.sig = "none" THEN ~c.gpg_required ELSE r.sig = "valid")
ApkGpg(res)       == AddStep(res, "gpg", TRUE)

\* Step 6: dependencies; without strict_deps their failure is a warning and the result passes again.
AptDependencies(missing, res) == AddStep(res, "dependencies", ~missing)
RpmDependencies(missing, res) == AddStep(res, "dependencies", ~missing)
ApkDependencies(missing, res) == AddStep(res, "dependencies", ~missing)
Lenient(strict, res) ==
    IF ~strict /\ "dependencies" \in res.failed THEN [res EXCEPT !.passed = TRUE] ELSE res

-----------------------------------------------------------------------------
\* run_validation_pipeline, per format: the antivirus and Grype only when the settings ask for them.
When(asked, res, next) == IF asked THEN next ELSE res

\* Slip: the missing or bad signature is noted and the dependencies are looked at all the same.
AptPipelineLate(r, c, missing, strict) ==
    LET format     == AptFormat(r, ValidationResult)
        provenance == Then(format, AptProvenance(r, format))
        antivirus  == Then(provenance, When(c.clamav_scan, provenance, AptClamav(r, provenance)))
        cve        == Then(antivirus, When(c.grype_scan, antivirus, AptGrype(r, c, antivirus)))
        gpg        == Then(cve, AptGpg(r, c, cve))
    IN  Lenient(strict, AptDependencies(missing, gpg))

AptPipeline(r, c, missing, strict) ==
    LET format     == AptFormat(r, ValidationResult)
        provenance == Then(format, AptProvenance(r, format))
        antivirus  == Then(provenance, When(c.clamav_scan, provenance, AptClamav(r, provenance)))
        cve        == Then(antivirus, When(c.grype_scan, antivirus, AptGrype(r, c, antivirus)))
        gpg        == Then(cve, AptGpg(r, c, cve))
    IN  Then(gpg, Lenient(strict, AptDependencies(missing, gpg)))

RpmPipeline(r, c, missing, strict) ==
    LET format     == RpmFormat(r, ValidationResult)
        provenance == Then(format, RpmProvenance(r, format))
        antivirus  == Then(provenance, When(c.clamav_scan, provenance, RpmClamav(r, provenance)))
        cve        == Then(antivirus, When(c.grype_scan, antivirus, RpmGrype(r, c, antivirus)))
        gpg        == Then(cve, RpmGpg(r, c, cve))
    IN  Then(gpg, Lenient(strict, RpmDependencies(missing, gpg)))

ApkPipeline(r, c, missing, strict) ==
    LET format     == ApkFormat(r, ValidationResult)
        control    == Then(format, ApkControlChecksum(r, format))
        checksum   == Then(control, ApkChecksum(r, control))
        antivirus  == Then(checksum, When(c.clamav_scan, checksum, AptClamav(r, checksum)))
        cve        == Then(antivirus, When(c.grype_scan, antivirus, ApkGrype(r, c, antivirus)))
        gpg        == Then(cve, ApkGpg(cve))
    IN  Then(gpg, Lenient(strict, ApkDependencies(missing, gpg)))

RunPipeline(k, r, c, missing, strict) ==
    CASE k = "deb" -> AptPipeline(r, c, missing, strict)
      [] k = "rpm" -> RpmPipeline(r, c, missing, strict)
      [] k = "apk" -> ApkPipeline(r, c, missing, strict)

-----------------------------------------------------------------------------
(***************************************************************************)
(* What the settings and the tools hold against a file, said without the   *)
(* order of the steps: the reference that an accepted file is measured     *)
(* against.  "review" keeps it from publication only.  The signature       *)
(* required by the settings is not asked of an .apk.                       *)
(***************************************************************************)
Infected(r) == r.clamd = "found" \/ (r.clamd \in {"absent", "raises"} /\ r.clamscan = "infected")
Unsigned(r, c) == r.sig = "invalid" \/ (r.sig = "none" /\ c.gpg_required)
Named(r) == {Counted(s) : s \in r.found}
Findings(k, r, c) ==
    {x \in {"damaged", "altered", "infected", "vulnerable", "unsigned", "review"} :
        \/ x = "damaged"    /\ r.file # "good"
        \/ x = "altered"    /\ (r.sum = "other" \/ (k = "apk" /\ r.control = "other"))
        \/ x = "infected"   /\ c.clamav_scan /\ Infected(r)
        \/ x = "vulnerable" /\ c.grype_scan /\ r.grype = "done" /\ Blocks(c, Named(r))
        \/ x = "review"     /\ c.grype_scan /\ r.grype = "done" /\ Reviews(c, Named(r))
        \/ x = "unsigned"   /\ k # "apk" /\ Unsigned(r, c)}
================================================================================
