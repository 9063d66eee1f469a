------------------------------ MODULE CommandLine ------------------------------
(***************************************************************************)
(* ord-resolve (packages/cli/src/main.ts): from the words of a command     *)
(* line to the work it orders, what the work leaves behind, and the exit   *)
(* code.  The command line is typed token by token; main is a function of  *)
(* it, of the document it may name and of how the work ends.               *)
(***************************************************************************)
EXTENDS Resolver, Refusals, FiniteSetsExt

CONSTANTS Words, Names,   \* what may be typed: words, and names after a "--"
          MaxTokens       \* bound on the command line of a run

VARIABLE argv

CommandInit == argv = <<>>

TypeToken ==
  /\ Len(argv) < MaxTokens
  /\ \E token \in {<<word>> : word \in Words} \cup {<<"--", name>> : name \in Names} :
       argv' = Append(argv, token)

CommandSpec == CommandInit /\ [][TypeToken]_argv

(* ------------------------------ arguments ------------------------------ *)

IsFlag(token) == Len(token) = 2

\* A flag's value is <<>> where the code has `true`.
WithFlag(flags, name, value) ==
  [n \in DOMAIN flags \cup {name} |-> IF n \in DOMAIN flags THEN flags[n] ELSE value]

\* A mutant: the token after a flag is its value, whatever it is.
parseArgsGreedily(tokens) ==
  LET parse[i \in 1 .. Len(tokens) + 2] ==
        LET valued == IsFlag(tokens[i]) /\ i < Len(tokens)
            rest   == parse[i + (IF valued THEN 2 ELSE 1)]
        IN  CASE i > Len(tokens) -> [positional |-> <<>>, flags |-> <<>>]
              [] i <= Len(tokens) /\ ~IsFlag(tokens[i]) ->
                   [rest EXCEPT !.positional = tokens[i] \o @]
              [] OTHER -> [rest EXCEPT !.flags = WithFlag(@, tokens[i][2],
                             IF valued THEN <<Last(tokens[i + 1])>> ELSE <<>>)]
  IN  parse[1]

\* A later flag of the same name replaces an earlier one.
parseArgs(tokens) ==
  LET parse[i \in 1 .. Len(tokens) + 2] ==
        LET valued == IsFlag(tokens[i]) /\ i < Len(tokens) /\ ~IsFlag(tokens[i + 1])
            rest   == parse[i + (IF valued THEN 2 ELSE 1)]
        IN  CASE i > Len(tokens) -> [positional |-> <<>>, flags |-> <<>>]
              [] i <= Len(tokens) /\ ~IsFlag(tokens[i]) ->
                   [rest EXCEPT !.positional = tokens[i] \o @]
              [] OTHER -> [rest EXCEPT !.flags = WithFlag(@, tokens[i][2],
                             IF valued THEN tokens[i + 1] ELSE <<>>)]
  IN  parse[1]

VALUE_FLAGS ==
  {"esplora", "gateway", "anchor-source", "witness-section", "level", "max-hops", "max-steps",
   "timeout-ms", "bundle", "verify", "out", "expect-id"}

FLAG_COMMANDS == [flag \in VALUE_FLAGS |->
  CASE flag = "esplora"         -> {"proof", "custody", "sat", "resolve"}
    [] flag = "gateway"         -> {"resolve"}
    [] flag = "anchor-source"   -> {"custody", "sat", "resolve"}
    [] flag = "witness-section" -> {"custody", "sat"}
    [] flag = "level"           -> {"proof"}
    [] flag = "max-hops"        -> {"custody"}
    [] flag = "max-steps"       -> {"sat", "verify"}
    [] flag = "timeout-ms"      -> {"proof", "custody", "sat", "resolve"}
    [] flag = "bundle"          -> {"custody", "sat"}
    [] flag = "verify"          -> {"resolve"}
    [] flag = "out"             -> {"resolve"}
    [] flag = "expect-id"       -> {"verify"}]

COMMANDS == {"parse", "proof", "custody", "sat", "verify"}

CommandOf(args) == IF args.positional[1] \in COMMANDS THEN args.positional[1] ELSE "resolve"

(* -------------------------------- main --------------------------------- *)

\* Is a flag given, and its value none of these?
IsNoneOf(args, name, values) ==
  name \in DOMAIN args.flags /\ args.flags[name] \notin {<<value>> : value \in values}

\* Of the words that may be typed.
PositiveIntegers == {"3"}

timeoutLimits(args) == IsNoneOf(args, "timeout-ms", PositiveIntegers)

(* A file: can it be read, is it JSON, and the top-level keys it has.       *)
Documents ==
  {{"claimedSat", "funding", "coinbase", "reveal"}, {"hops", "finalSatpoint"},
   {"level", "block"}, {"block"}}

NoDocument == [readable |-> FALSE, json |-> FALSE, keys |-> {}]

Files == {NoDocument, [NoDocument EXCEPT !.readable = TRUE]}
           \cup [readable : {TRUE}, json : {TRUE}, keys : Documents]

classifyBundle(keys) ==
  CASE {"claimedSat", "funding", "coinbase"} \subseteq keys -> "genealogy"
    [] {"hops", "finalSatpoint"} \subseteq keys -> "custody"
    [] {"level", "block"} \subseteq keys -> "proof"
    [] OTHER -> "unknown"

If(objects, exit) == [objects |-> objects, exit |-> exit]

\* What main checks before it looks at the command's own arguments ...
NamesAreRefused(args) ==
  \E name \in DOMAIN args.flags \ {"json", "help"} :
    name \in VALUE_FLAGS => CommandOf(args) \notin FLAG_COMMANDS[name]

FlagObjections(args) ==
  <<If(\E name \in VALUE_FLAGS \cap DOMAIN args.flags : args.flags[name] \in {<<>>, <<"">>}, 2),
    If(IsNoneOf(args, "witness-section", {"always", "when-needed"}), 2),
    If(NamesAreRefused(args), 2)>>

\* ... and what each command checks before it goes to work, in its order.
VerifyObjections(args, file) ==
  LET kind == classifyBundle(file.keys)
  IN  <<If(~file.readable, 2), If(~file.json, 1), If(kind = "unknown", 2),
        If("max-steps" \in DOMAIN args.flags /\ kind # "genealogy", 2),
        If(IsNoneOf(args, "max-steps", PositiveIntegers), 2),
        If(IsNoneOf(args, "expect-id", {"id"}), 2)>>

ResolveObjections(args) ==
  <<If(IsNoneOf(args, "verify", {"none", "L1", "L2", "L3"}), 2), If(timeoutLimits(args), 2)>>

ArmObjections(args, file) ==
  LET missing == If(Len(args.positional) < 2, 2)
      badId   == If(Len(args.positional) >= 2 => args.positional[2] \notin OrdUris, 1)
      number(name) == If(IsNoneOf(args, name, PositiveIntegers), 2)
  IN  CASE CommandOf(args) = "parse"   -> <<missing, badId>>
        [] CommandOf(args) = "proof"   ->
             <<missing, If(IsNoneOf(args, "level", {"L2", "L3"}), 2), badId,
               If(timeoutLimits(args), 2)>>
        [] CommandOf(args) = "custody" ->
             <<missing, badId, number("max-hops"), If(timeoutLimits(args), 2)>>
        [] CommandOf(args) = "sat"     ->
             <<missing, badId, number("max-steps"), If(timeoutLimits(args), 2)>>
        [] CommandOf(args) = "verify"  -> <<missing>> \o VerifyObjections(args, file)
        [] CommandOf(args) = "resolve" -> ResolveObjections(args)

(* ------------------------------- the work ------------------------------ *)

\* How main ended: has the command's work begun, which flags did it read, what
\* did it put out, and the bytes that were resolved.
Ended(exit, work, read, output) ==
  [exit |-> exit, work |-> work, read |-> read, output |-> output, bytes |-> "none"]

\* The flags that an arm's work reads.
Consults(command, kind) ==
  CASE command = "parse"   -> {}
    [] command = "proof"   -> {"esplora", "level", "timeout-ms"}
    [] command = "custody" -> {"json", "esplora", "anchor-source", "max-hops",
                               "witness-section", "timeout-ms", "bundle"}
    [] command = "sat"     -> {"json", "esplora", "anchor-source", "max-steps",
                               "witness-section", "timeout-ms", "bundle"}
    [] command = "verify"  -> {"json", "expect-id"} \cup
                                IF kind = "genealogy" THEN {"max-steps"} ELSE {}
    [] command = "resolve" -> {"json", "esplora", "anchor-source", "gateway", "verify",
                               "timeout-ms", "out"}

Errors == DOMAIN REFUSAL_TABLE \cup DOMAIN WRAPPER_TABLE \cup {"Error"}

\* writeBundleFile, once the result is printed.
WithBundle(args, worked) ==
  IF "bundle" \notin DOMAIN args.flags THEN {worked}
  ELSE {[worked EXCEPT !.output = @ \cup {args.flags["bundle"]}], [worked EXCEPT !.exit = 1]}

\* The bytes go to the file, or to stdout where no report does.
WithBytes(args, worked, bytes) ==
  LET resolved == [worked EXCEPT !.bytes = bytes]
  IN  IF "out" \in DOMAIN args.flags
      THEN {[resolved EXCEPT !.output = {args.flags["out"]}], [resolved EXCEPT !.exit = 1]}
      ELSE {[resolved EXCEPT !.output = {<<"stdout">>}]}

Mode(args) == IF "verify" \in DOMAIN args.flags THEN args.flags["verify"][1] ELSE "L2"

Failed(worked, exit) == Ended(exit, worked.work, worked.read, {})

VerifyWorks(worked) ==
  {worked} \cup {Failed(worked, failFrom(e, "verify", "unmarked")) : e \in Errors}

\* custody and sat
WalkWorks(args, worked) ==
  WithBundle(args, worked) \cup
    {Failed(worked, failFrom(e, "live", said)) : e \in Errors, said \in {"yes", "no", "unmarked"}}

ResolveWorks(args, worked) ==
  LET uri == args.positional[1]
  IN  IF uri \notin OrdUris THEN {Failed(worked, 1)}
      ELSE UNION {IF r.code = "ok" THEN WithBytes(args, worked, r.bytes)
                  ELSE {Failed(worked, 1)} : r \in resolve[uri][Mode(args)]}

Works(args, file) ==
  LET command == CommandOf(args)
      flags   == DOMAIN args.flags \cap Consults(command, classifyBundle(file.keys))
      worked  == Ended(0, command, {<<name, args.flags[name]>> : name \in flags}, {<<"stdout">>})
  IN  CASE command = "parse"   -> {worked}
        [] command = "proof"   -> {worked, Failed(worked, 1)}
        [] command = "verify"  -> VerifyWorks(worked)
        [] command = "resolve" -> ResolveWorks(args, worked)
        [] command \in {"custody", "sat"} -> WalkWorks(args, worked)

\* Only verify opens a file.
Opened(args) == IF CommandOf(args) = "verify" THEN Files ELSE {NoDocument}

\* All that main may come to.
Ends(args) ==
  IF args.positional = <<>> THEN {Ended(2, "none", {}, {})}
  ELSE IF "help" \in DOMAIN args.flags THEN {Ended(0, "none", {}, {})}
  ELSE UNION {LET objections == FlagObjections(args) \o ArmObjections(args, file)
                  first == SelectInSeq(objections, LAMBDA o : o.objects)
              IN  IF first = 0 THEN Works(args, file)
                  ELSE {Ended(objections[first].exit, "none", {}, {})} : file \in Opened(args)}

(* ----------------------------- properties ------------------------------ *)

\* What a reader of the command line takes a flag to say: the word after its
\* last occurrence, or nothing.
Said(name) ==
  LET last == Max({i \in DOMAIN argv : argv[i] = <<"--", name>>})
  IN  IF last < Len(argv) /\ ~IsFlag(argv[last + 1]) THEN argv[last + 1] ELSE <<>>

Given == {argv[i][2] : i \in {j \in DOMAIN argv : IsFlag(argv[j])}}

\* The words that stand behind no flag: the first of them is the command, or its URI.
Standing == {i \in DOMAIN argv : ~IsFlag(argv[i]) /\ (i > 1 => ~IsFlag(argv[i - 1]))}

Ordered == CommandOf([positional |-> argv[Min(Standing)]])

(* Three lines are not spoken of here: one with a word behind --json, where *)
(* the code and its comments disagree (JsonSwallowsNothing); one with a    *)
(* flag typed twice, of which the last is read and the others are dropped  *)
(* without a word; and the URI whose pin is the digest of the delegate's   *)
(* body, which docs/spec/SPEC-URI.md:79 allows and uri.ts:19 does not.     *)
WordBehindJson ==
  \E i \in DOMAIN argv : i > 1 /\ ~IsFlag(argv[i]) /\ argv[i - 1] = <<"--", "json">>

FlagTypedTwice == \E i, j \in DOMAIN argv : i # j /\ IsFlag(argv[i]) /\ argv[i] = argv[j]

AsIntended == ~WordBehindJson /\ ~FlagTypedTwice

PinsADelegate(uri) == uri.pin = "delegated"

\* A pin means one thing at every level: what the verified path serves under
\* it, a truthful ord server that is asked at L1 serves as well.
PinsAgree(uri) ==
  \A inscription \in Envelopes :
    LET found == resolveVerified(uri, inscription, "verified")
    IN  found.code = "ok" /\ uri.pin # "none" =>
          resolveViaGateway(uri, "L1", <<"fails", Source(uri, inscription)>>) = found

(***************************************************************************)
(* "a flag that changes nothing must not be accepted in silence, because   *)
(* the caller believes it changed something" (main.ts:144): work begins    *)
(* only if it is what the first word behind no flag orders, and if it      *)
(* reads every flag that was typed, as it was typed, --json not having to  *)
(* be read where JSON is put out anyway (:295-297).  A usage error leaves  *)
(* nothing done; success has left what was ordered, the file under its     *)
(* name and bytes that are what the URI pins; and a pin means the same     *)
(* thing at every level.                                                   *)
(***************************************************************************)
OrdersAreHonoured ==
  LET args == parseArgs(argv)
  IN  \A end \in Ends(args) :
        /\ end.exit = 2 => end.work = "none" /\ end.output = {}
        /\ AsIntended /\ end.work # "none" =>
             /\ end.work = Ordered
             /\ \A name \in Given :
                  \/ <<name, Said(name)>> \in end.read
                  \/ name = "json" /\ end.work \in {"parse", "proof"}
             /\ end.exit = 0 =>
                  \A name \in Given \cap {"bundle", "out"} : Said(name) \in end.output
        /\ end.exit = 0 /\ end.work = "resolve" =>
             LET uri == parseOrdUri(args.positional[1])
             IN  /\ ~PinsADelegate(uri) => uri.pin \in {"none", end.bytes}
                 /\ Mode(args) = "L1" => uri.pin # "none"
                 /\ PinsAgree(uri)

(***************************************************************************)
(* "--json is exempt everywhere: it is boolean, so it can swallow no       *)
(* value" (main.ts:294-295).                                               *)
(***************************************************************************)
JsonSwallowsNothing ==
  LET flags == parseArgs(argv).flags
  IN  "json" \in DOMAIN flags => flags["json"] = <<>>
=============================================================================
