------------------------------ MODULE Verdicts ------------------------------
(***************************************************************************)
(* The vocabulary shared by the oracles, the coordinator, the report and   *)
(* the command line: what a verdict is, how the answers of the oracles of  *)
(* one attempt are folded into a base verdict, and which of them carry     *)
(* evidence that can be reproduced.                                        *)
(*                                                                         *)
(* The results of one attempt are a function from the identifiers of the   *)
(* oracles that judged it to records [verdict, fingerprint].               *)
(***************************************************************************)

CONSTANTS
  Fingerprints,   \* the evidence fingerprints an oracle can produce
  NoFingerprint   \* a fingerprint that is absent (None or the empty string)

ASSUME NoFingerprintAssumption == NoFingerprint \notin Fingerprints

Verdict == {"PASS", "FAIL", "VULNERABLE", "INCONCLUSIVE", "ERROR"}

OracleResult ==
  [verdict : Verdict, fingerprint : Fingerprints \cup {NoFingerprint}]

\* What calling an oracle can come to: a result, an exception, or a result
\* that carries the identifier of another oracle.
OracleAnswer ==
  [verdict : Verdict \cup {"raises", "mismatched"},
   fingerprint : Fingerprints \cup {NoFingerprint}]

\* An oracle that fails is recorded as an ERROR without evidence.
ErrorResult == [verdict |-> "ERROR", fingerprint |-> NoFingerprint]

Recorded(answer) == IF answer.verdict \in Verdict THEN answer ELSE ErrorResult

VerdictsOf(results) == {results[o].verdict : o \in DOMAIN results}

\* A failure takes precedence over a broken or undecided oracle.
BaseVerdictFailFirst(results) ==
  LET seen == VerdictsOf(results) IN
  IF seen \cap {"FAIL", "VULNERABLE"} # {} THEN "FAIL"
  ELSE IF "ERROR" \in seen THEN "ERROR"
  ELSE IF seen = {"PASS"} THEN "PASS"
  ELSE "INCONCLUSIVE"

\* Every oracle named by a plan is required, so a broken or undecided one
\* takes precedence over a failing one.
BaseVerdict(results) ==
  LET seen == VerdictsOf(results) IN
  IF "ERROR" \in seen THEN "ERROR"
  ELSE IF "INCONCLUSIVE" \in seen THEN "INCONCLUSIVE"
  ELSE IF seen \cap {"VULNERABLE", "FAIL"} # {} THEN "FAIL"
  ELSE IF seen = {"PASS"} THEN "PASS"
  ELSE "INCONCLUSIVE"

\* The typed evidence of an attempt: who saw the violation, and its print.
FailureKeys(results) ==
  {<<o, results[o].fingerprint>> :
     o \in {p \in DOMAIN results :
              /\ results[p].verdict \in {"FAIL", "VULNERABLE"}
              /\ results[p].fingerprint # NoFingerprint}}

\* The verdict of a campaign: the gravest of its findings' verdicts.
ReportVerdict(verdicts) ==
  IF "VULNERABLE" \in verdicts THEN "VULNERABLE"
  ELSE IF "ERROR" \in verdicts THEN "ERROR"
  ELSE IF "FAIL" \in verdicts THEN "FAIL"
  ELSE IF verdicts = {"PASS"} THEN "PASS"
  ELSE "INCONCLUSIVE"
=============================================================================
