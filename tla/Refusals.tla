------------------------------- MODULE Refusals -------------------------------
(***************************************************************************)
(* How the command line reports a failure (packages/cli/src/taxonomy.ts    *)
(* and notes.ts): the category of an error class, which depends on whether *)
(* a document is read or a chain is walked, and on how many backends stand *)
(* behind the refusal; and the exit code of the category.                  *)
(***************************************************************************)

Row(verify, live) == [verify |-> verify, live |-> live]

REFUSAL_TABLE == [
  CustodyUnsupported        |-> Row("OUT OF SCOPE", "OUT OF SCOPE"),
  EnvelopeIndexUnproven     |-> Row("UNPROVEN", "UNPROVEN"),
  CoinbaseHeightUnproven    |-> Row("UNPROVEN", "UNPROVEN"),
  SatStepLimit              |-> Row("UNPROVEN", "UNPROVEN"),
  SatFundingIncomplete      |-> Row("UNPROVEN", "UNPROVEN"),
  CustodyHopLimit           |-> Row("UNPROVEN", "UNPROVEN"),
  WitnessSectionUnavailable |-> Row("UNPROVEN", "UNPROVEN"),
  SatPosition               |-> Row("INVALID", "UNPROVEN")]

\* Of every row.
nonUnanimousCategory == "UNPROVEN"

WRAPPER_TABLE ==
  [BUILD_FAILED |-> "INCOMPLETE", HEADER_TRUST |-> "UNPROVEN", VERIFY_FAILED |-> "INVALID"]

CATEGORY_EXIT_CODES(category) ==
  CASE category = "UNPROVEN" -> 3 [] category = "OUT OF SCOPE" -> 4
    [] category = "INCOMPLETE" -> 5 [] category = "INVALID" -> 1

\* The marker `unanimous` is "yes" or "no" on what sharedDomainRefusal rethrows
\* and "unmarked" on any other error.
refusalReport(error, context, unanimous) ==
  CASE error \in DOMAIN REFUSAL_TABLE ->
         IF context = "live" /\ unanimous = "no"
         THEN nonUnanimousCategory ELSE REFUSAL_TABLE[error][context]
    [] error \in DOMAIN WRAPPER_TABLE -> WRAPPER_TABLE[error]
    [] OTHER -> "INVALID"

\* What a script sees of a command that failed.
failFrom(error, context, unanimous) ==
  CATEGORY_EXIT_CODES(refusalReport(error, context, unanimous))
=============================================================================
