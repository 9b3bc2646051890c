------------------------------ MODULE SourceTrust ------------------------------
(***************************************************************************)
(* When an upstream index is believed: the signatures that the three       *)
(* versions of sync_source() look at (services/package_index_apt.py,       *)
(* package_index_rpm.py, package_index_apk.py) and the entries of an index *)
(* that their parsers keep.                                                *)
(*                                                                         *)
(* An answer says what the network, gpg or openssl and the keyrings of the *)
(* installation make of one metadata file.  A signature that verifies was  *)
(* made over those very bytes: no answer about a file that nobody signed   *)
(* has one.                                                                *)
(***************************************************************************)
EXTENDS Naturals

\* A download: what each try meets, an answer, a refusal (400, 401, 403, 404, 410) or an
\* outage that may pass (network, 429, 5xx).
Tries == [1 .. 3 -> {"answer", "outage", "refusal"}]

\* fetch_url(): after an outage it tries again, twice at most; a refusal is final.
Fetched(tries) == \E n \in 1 .. 3 : tries[n] = "answer" /\ \A i \in 1 .. (n - 1) : tries[i] = "outage"

\* The lines of gpg --status-fd that the code looks for.
Statuses == {"GOODSIG", "EXPKEYSIG", "BADSIG", "ERRSIG", "NO_PUBKEY"}
Printed(signed) == {s \in SUBSET Statuses : signed \/ s \cap {"GOODSIG", "EXPKEYSIG"} = {}}

AptAnswers(signed) ==
    [tries : Tries, keyring : BOOLEAN, runs : BOOLEAN, status : Printed(signed), listed : BOOLEAN]
RpmAnswers(signed, asc) ==
    [tries : Tries, asc : asc, keyring : BOOLEAN, runs : BOOLEAN, status : Printed(signed), located : BOOLEAN]
ApkAnswers(signed) ==
    [archive : {"unreadable", "unsigned", "signed"}, key : BOOLEAN, runs : BOOLEAN,
     verifies : IF signed THEN BOOLEAN ELSE {FALSE}]

\* _verify_inrelease_gpg(): one good signature, none bad; those of unknown keys do not count.
VerifiesInRelease(a) ==
    a.keyring /\ a.runs /\ "BADSIG" \notin a.status /\ "GOODSIG" \in a.status

\* _authenticated_packages_sha256(): InRelease gives the SHA-256 of this Packages file, or it all fails.
AptAuthentic(a) == Fetched(a.tries) /\ VerifiesInRelease(a) /\ a.listed

\* _verify_repomd_gpg(): nothing to verify without repomd.xml.asc; an expired key is good enough.
VerifiesRepomd(a) ==
    \/ ~a.asc
    \/ /\ a.keyring /\ a.runs
       /\ a.status \cap {"BADSIG", "ERRSIG", "NO_PUBKEY"} = {}
       /\ a.status \cap {"GOODSIG", "EXPKEYSIG"} # {}

\* repomd.xml says where primary.xml is.
RpmAuthentic(a) == Fetched(a.tries) /\ VerifiesRepomd(a) /\ a.located

\* _split_apk_signed_archive(), then _verify_apkindex_signature(): fails on anything else.
InTwoParts(a) == a.archive = "signed"
ApkAuthentic(a) == InTwoParts(a) /\ a.key /\ a.runs /\ a.verifies

--------------------------------------------------------------------------------
\* An entry of an index, and whether the parser makes a package of it.
Stanza(pkgs) == [pkg : pkgs, named : BOOLEAN, versioned : BOOLEAN]

AptKeeps(s) == s.named                     \* _parse_packages_gz()
RpmKeeps(s) == s.named /\ s.versioned      \* _parse_package_elem()
ApkKeeps(s) == s.named /\ s.versioned      \* _parse_apkindex()
================================================================================
