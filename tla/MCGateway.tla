----------------------------- MODULE MCGateway -----------------------------
(***************************************************************************)
(* The gateway, and the limiter in front of it: a behaviour is about one.  *)
(* Two backends, b1 and b2, the second an attester too, and an attester a1. *)
(* Inscription i is revealed in block 1: at L3 it delegates to j, at L2    *)
(* its commit output also commits to content of its own.  j is revealed in *)
(* block 2, in a coding that cannot be decoded.                            *)
(***************************************************************************)
EXTENDS Sidecar, TokenBucket, TLC

\* Of the clients only the watched one is told apart.
Alike == Permutations(Slots) \cup Permutations(Keys \ {Client})

MCConfigs ==
  {[mode |-> "proxy", level |-> "L2"], [mode |-> "verify", level |-> "L2"],
   [mode |-> "verify", level |-> "L3"], [mode |-> "sidecar", level |-> "L2"]}

MCServerOf == [e \in {"b1", "b2", "a1"} |-> e]

MCServers == {"b1", "b2", "a1"}

MCBackends == <<"b1", "b2">>

MCAnchors == <<"a1", "b2">>

Delegates == [delegate |-> "j", size |-> 0, coded |-> FALSE]
Plain == [delegate |-> NoId, size |-> 2, coded |-> FALSE]
Coded == [delegate |-> NoId, size |-> 1, coded |-> TRUE]

MCContents == {Delegates, Plain, Coded}

MCChain ==
  [i |-> [block |-> 1, revealed |-> Delegates, committed |-> {Plain}],
   j |-> [block |-> 2, revealed |-> Coded, committed |-> {}]]

Asks(route, id, level, accepts) ==
  [route |-> route, id |-> id, level |-> level, accepts |-> accepts]

ProofL2 == Asks("proof", "i", "L2", TRUE)
ProofL3 == Asks("proof", "i", "L3", TRUE)
VerifiedI == Asks("verified", "i", "L2", TRUE)
VerifiedUncoded == Asks("verified", "i", "L2", FALSE)
ContentI == Asks("content", "i", "L2", TRUE)
ContentUncoded == Asks("content", "i", "L2", FALSE)
ContentJ == Asks("content", "j", "L2", TRUE)
Tip == Asks("tip", Malformed, "L2", TRUE)
Bad == Asks("verified", Malformed, "L2", TRUE)
Health == Asks("health", Malformed, "L2", TRUE)
ProofBad == Asks("proof", Malformed, "L2", TRUE)
NoRoute == Asks("unknown", Malformed, "L2", TRUE)

\* The two levels of one proof; the two ways to content, by clients that do
\* and do not admit the coding; and content beside what moves with the tip.
MCWorkloads ==
  {{ProofL2, ProofL3, ProofBad, Bad}, {VerifiedI, ContentUncoded}, {ContentI, VerifiedUncoded},
   {VerifiedI, VerifiedUncoded}, {ContentJ, Tip, Health, NoRoute}}

MCRequests == UNION MCWorkloads

VARIABLE subject

ServerInit ==
  /\ Init /\ BucketInit
  /\ subject \in {"serving", "limiter"}
  /\ subject = "limiter" => world = CHOOSE w \in PossibleWorlds : TRUE

ServerNext ==
  /\ \/ subject = "serving" /\ Serve /\ UNCHANGED bucketVars
     \/ subject = "limiter" /\ BucketNext /\ UNCHANGED vars
  /\ UNCHANGED subject

Server == ServerInit /\ [][ServerNext]_<<vars, bucketVars, subject>>
=============================================================================
