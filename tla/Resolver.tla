------------------------------- MODULE Resolver -------------------------------
(***************************************************************************)
(* What a URI resolves to (packages/fetch/src/resolver.ts and uri.ts), in  *)
(* each of the four verification modes.  Gateway and ProofFetch model how  *)
(* the verified path comes by its bundles; here it has them or it fails.   *)
(*                                                                         *)
(* Bytes are named for what they are: the body stored in an inscription's  *)
(* envelope, its delegate's, its metadata, a body taken out of its content *)
(* encoding on the way, or none of these.  What is verified is named for   *)
(* what is stored, though the caller gets it out of its coding if that can *)
(* be done.                                                                *)
(***************************************************************************)
EXTENDS Integers, Sequences, SequencesExt

\* The path of a URI, and what its integrity fragment is the digest of.
Uri(path, pin) == [path |-> path, pin |-> pin]

OrdUris == {"id", "id#body", "id/content", "id/content#delegated", "id/metadata"}

parseOrdUri(word) ==
  CASE word = "id"                   -> Uri("undelegated", "none")
    [] word = "id#body"              -> Uri("undelegated", "body")
    [] word = "id/content"           -> Uri("content", "none")
    [] word = "id/content#delegated" -> Uri("content", "delegated")
    [] word = "id/metadata"          -> Uri("metadata", "none")

Envelopes == [delegates : BOOLEAN, has : SUBSET {"body", "delegated", "metadata"}]

\* How the way to a verified inscription, or to its delegate, may end.
PathEnds == {"verified", "BACKEND", "VERIFY_FAILED", "HEADER_TRUST"}

ServerAnswers == {"fails", "body", "delegated", "metadata", "decoded", "forged"}

Resolved(stored) == [code |-> "ok", bytes |-> stored]
OrdResolveError(code) == [code |-> code, bytes |-> "none"]

checkIntegrity(uri, stored) == uri.pin \in {"none", stored}

\* The bytes a path names.
Source(uri, inscription) ==
  CASE uri.path = "metadata" -> "metadata"
    [] uri.path = "undelegated" -> "body"
    [] uri.path = "content" -> IF inscription.delegates THEN "delegated" ELSE "body"

resolveVerified(uri, inscription, end) ==
  LET source == Source(uri, inscription)
  IN  CASE end # "verified" -> OrdResolveError(end)
        [] end = "verified" /\ source \notin inscription.has -> OrdResolveError("NO_CONTENT")
        [] OTHER -> IF checkIntegrity(uri, source) THEN Resolved(source)
                    ELSE OrdResolveError("INTEGRITY")

\* A mismatch at one server is final; only a request that fails leads to the next.
resolveViaGateway(uri, mode, answers) ==
  LET first == SelectInSeq(answers, LAMBDA answer : answer # "fails")
  IN  CASE mode = "L1" /\ uri.pin = "none" -> OrdResolveError("INTEGRITY")
        [] ~(mode = "L1" /\ uri.pin = "none") /\ first = 0 -> OrdResolveError("BACKEND")
        [] OTHER ->
             IF checkIntegrity(uri, answers[first]) THEN Resolved(answers[first])
             ELSE OrdResolveError(IF answers[first] = "decoded" /\ uri.path # "metadata"
                                  THEN "INTEGRITY_INDETERMINATE" ELSE "INTEGRITY")

\* All that a URI may resolve to, two ord servers being configured.
resolve ==
  [uri \in OrdUris |-> [mode \in {"none", "L1", "L2", "L3"} |->
     IF mode \in {"L2", "L3"}
     THEN {resolveVerified(parseOrdUri(uri), i, end) : i \in Envelopes, end \in PathEnds}
     ELSE {resolveViaGateway(parseOrdUri(uri), mode, <<a, b>>) : a, b \in ServerAnswers}]]
=============================================================================
