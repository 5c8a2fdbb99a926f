------------------------------ MODULE Protocol ------------------------------
(***************************************************************************)
(* The text protocol: what a request line means and what an answer looks   *)
(* like.  Text is a sequence of cells: a word, a numeral, a line break, a  *)
(* carriage return, or blanks.  The blanks that separate two words are not *)
(* written; those before the first word and behind the last one are.  A    *)
(* word of a command line that holds line breaks is broken: the cells in   *)
(* it are what the daemon sees of it.                                      *)
(*                                                                         *)
(* A numeral keeps its sign, its digits (of any length) and its unit       *)
(* apart, since the limits that parse_size, parse_priority and             *)
(* parse_timeout enforce are about them.  The widths are constants.        *)
(***************************************************************************)
EXTENDS Integers, Sequences, FiniteSets

CONSTANTS MaxBytes,       \* the largest Bytes and uint64_t
          MaxInt,         \* the largest int
          MaxMillis,      \* milliseconds::max(), which means no timeout
          Units,          \* the multiplier of each unit, "none" for no unit
          ValidNames,     \* the words that valid_name accepts ...
          ValidMetadata,  \* ... that valid_metadata accepts ...
          LongWords,      \* ... and that exceed every limit on paths
          NoValue         \* std::nullopt

ASSUME WidthAssumption ==
    /\ {MaxBytes, MaxInt, MaxMillis} \subseteq Nat
    /\ MaxInt < MaxBytes /\ MaxMillis < MaxBytes
ASSUME UnitsAssumption ==
    /\ "none" \in DOMAIN Units /\ Units["none"] = 1
    /\ \A u \in DOMAIN Units : Units[u] \in Nat \ {0}

Word(text) == [kind |-> "word", text |-> text]
Numeral(sign, digits, unit) ==
    [kind |-> "numeral", sign |-> sign, digits |-> digits, unit |-> unit]
Newline == [kind |-> "newline"]
CarriageReturn == [kind |-> "cr"]
Blank == [kind |-> "blank"]
Broken(cells) == [kind |-> "broken", cells |-> cells]

Tokens == [kind : {"word"}, text : STRING]
          \cup [kind : {"numeral"}, sign : {"none", "+", "-"}, digits : Nat, unit : DOMAIN Units]
Cells == Tokens \cup {Newline, CarriageReturn, Blank}
BrokenTokens == [kind : {"broken"}, cells : Seq(Tokens \cup {Newline, CarriageReturn})]

\* How a stream inserter or to_string writes a number.
Signed(n) == IF n < 0 THEN Numeral("-", -n, "none") ELSE Numeral("none", n, "none")

-----------------------------------------------------------------------------
(***************************************************************************)
(* Fields.                                                                 *)
(***************************************************************************)

\* Signs other than "-", which is a letter of names, make a name invalid.
valid_name(token) ==
    CASE token.kind = "word" -> token.text \in ValidNames
      [] token.kind = "numeral" -> token.sign # "+"
      [] OTHER -> FALSE

valid_metadata(token) ==
    CASE token.kind = "word" -> token.text \in ValidMetadata
      [] token.kind = "numeral" -> TRUE
      [] OTHER -> FALSE

valid_path(token) == token.kind = "word" => token.text \notin LongWords

\* Mutant: the product is computed first and wraps.
parse_size_wraps(token) ==
    IF /\ token.kind = "numeral" /\ token.sign = "none"
       /\ token.digits \in 1 .. MaxBytes
    THEN (token.digits * Units[token.unit]) % (MaxBytes + 1)
    ELSE NoValue

parse_size(token) ==
    IF /\ token.kind = "numeral" /\ token.sign = "none"
       /\ token.digits \in 1 .. MaxBytes \div Units[token.unit]
    THEN token.digits * Units[token.unit]
    ELSE NoValue

parse_unsigned(token) ==
    IF /\ token.kind = "numeral" /\ token.sign = "none" /\ token.unit = "none"
       /\ token.digits <= MaxBytes
    THEN token.digits
    ELSE NoValue

parse_priority(token) ==
    IF token.kind # "numeral" THEN NoValue
    ELSE LET magnitude == parse_unsigned([token EXCEPT !.sign = "none"])
             limit == IF token.sign = "-" THEN MaxInt + 1 ELSE MaxInt
         IN  IF magnitude = NoValue \/ magnitude > limit THEN NoValue
             ELSE IF token.sign = "-" THEN -magnitude
             ELSE magnitude

parse_timeout(token) ==
    LET value == parse_unsigned(token)
    IN  IF value = NoValue \/ value > MaxMillis THEN NoValue ELSE value

-----------------------------------------------------------------------------
(***************************************************************************)
(* parse_command.                                                          *)
(***************************************************************************)

\* The tokens of a line lie between its first and its last cell that is not
\* blank.
FirstToken(line) == IF line # <<>> /\ line[1] = Blank THEN 2 ELSE 1
LastToken(line) == IF line # <<>> /\ line[Len(line)] = Blank THEN Len(line) - 1 ELSE Len(line)
tokenize(line) == SubSeq(line, FirstToken(line), LastToken(line))

Queries == {"status", "models", "residency", "metrics", "nodes"}
ModelVerbs == {"share", "unregister", "retain", "release_model", "load", "unload",
               "register", "register_file"}
NodeVerbs == {"node_register", "node_remove"}
ClientVerbs == {"release", "try_acquire", "acquire"}
Verbs == Queries \cup ModelVerbs \cup NodeVerbs \cup ClientVerbs
\* The proof system does not see by itself that a literal is a string.
ASSUME VerbsAssumption == Verbs \subseteq STRING

\* The numbers of tokens that a verb may come with, itself included.
Arities(verb) ==
    CASE verb \in Queries -> {1}
      [] verb \in {"register", "register_file", "node_register"} -> {4}
      [] verb = "try_acquire" -> {3}
      [] verb = "acquire" -> 3 .. 6
      [] OTHER -> {2}

\* Which token is a size; none is token 0.
SizeField(verb) ==
    CASE verb \in {"register", "try_acquire", "acquire"} -> 3
      [] verb = "node_register" -> 4
      [] OTHER -> 0

DefaultOptions == [priority |-> 0, timeout |-> MaxMillis, estimated_cost |-> 0]

\* The options of an acquire; NoValue stands in a field that does not parse.
\* The fifth token is only looked at if it is the last one.
acquire_options(tokens) ==
    [priority |-> IF Len(tokens) >= 4 THEN parse_priority(tokens[4]) ELSE 0,
     timeout |-> IF Len(tokens) = 5 THEN parse_timeout(tokens[5]) ELSE MaxMillis,
     estimated_cost |-> IF Len(tokens) = 6 THEN parse_timeout(tokens[6]) ELSE 0]

HasVerb(tokens) ==
    tokens # <<>> /\ tokens[1].kind = "word" /\ tokens[1].text \in Verbs

field_error(verb, tokens) ==
    IF ~ valid_name(tokens[2])
    THEN IF verb \in ModelVerbs THEN "InvalidModelId" ELSE "InvalidName"
    ELSE IF SizeField(verb) # 0 /\ parse_size(tokens[SizeField(verb)]) = NoValue
    THEN "InvalidSize"
    ELSE IF verb = "register_file" /\ ~ valid_path(tokens[3]) THEN "InvalidPath"
    ELSE IF verb \in {"register", "register_file"} /\ ~ valid_metadata(tokens[4])
    THEN "InvalidMetadata"
    ELSE IF verb = "node_register" /\ ~ valid_path(tokens[3]) THEN "InvalidRequest"
    ELSE IF /\ verb = "acquire"
            /\ \E f \in DOMAIN DefaultOptions : acquire_options(tokens)[f] = NoValue
    THEN "InvalidRequest"
    ELSE "None"

parse_error(tokens) ==
    IF ~ HasVerb(tokens) THEN "InvalidRequest"
    ELSE LET verb == tokens[1].text
         IN  IF Len(tokens) \notin Arities(verb) THEN "InvalidRequest"
             ELSE IF verb \in Queries THEN "None"
             ELSE field_error(verb, tokens)

\* The command of a line that has no error.
command_of(tokens) ==
    LET verb == tokens[1].text
    IN  [verb |-> verb,
         name |-> IF Len(tokens) > 1 THEN tokens[2] ELSE NoValue,
         bytes |-> IF SizeField(verb) # 0 THEN parse_size(tokens[SizeField(verb)]) ELSE 0,
         options |-> IF verb = "acquire" THEN acquire_options(tokens)
                     ELSE IF verb = "try_acquire"
                     THEN [DefaultOptions EXCEPT !.timeout = 0]
                     ELSE DefaultOptions]

-----------------------------------------------------------------------------
(***************************************************************************)
(* Answers.  An answer is one line, or a first line, rows and END.         *)
(***************************************************************************)

OneLine(code) == <<Word(code), Newline>>

ParseErrors == {"InvalidRequest", "InvalidSize", "InvalidName", "InvalidModelId",
                "InvalidMetadata", "InvalidPath"}

format_parse_error(error) ==
    [InvalidRequest |-> "invalid_request", InvalidSize |-> "invalid_size",
     InvalidName |-> "invalid_name", InvalidModelId |-> "invalid_model_id",
     InvalidMetadata |-> "invalid_metadata", InvalidPath |-> "invalid_path"][error]

format_operation_result(error) ==
    [None |-> "OK", InvalidName |-> "invalid_name", InvalidSize |-> "invalid_size",
     DuplicateClient |-> "duplicate_client", UnknownClient |-> "unknown_client",
     InsufficientMemory |-> "insufficient_memory", Timeout |-> "timeout",
     InvalidTimeout |-> "invalid_timeout"][error]

format_model_operation_result(error) ==
    [None |-> "OK", InvalidId |-> "invalid_model_id",
     InvalidMetadata |-> "invalid_metadata", InvalidSize |-> "invalid_size",
     DuplicateModel |-> "duplicate_model", UnknownModel |-> "unknown_model",
     ModelInUse |-> "model_in_use", RefcountUnderflow |-> "refcount_underflow",
     UnknownResidency |-> "unknown_residency",
     InsufficientMemory |-> "insufficient_memory", InvalidPath |-> "invalid_path",
     FileUnavailable |-> "file_unavailable", SourceChanged |-> "source_changed",
     ReadFailure |-> "read_failure", BackendFailure |-> "backend_failure",
     BackendUnsupported |-> "unsupported"][error]

\* Mutant: a backend without sharing is not told apart.
format_share_result_terse(error) ==
    IF error \in {"None", "UnknownModel", "UnknownResidency"}
    THEN format_model_operation_result(error)
    ELSE "internal_error"

format_share_result(error) ==
    IF error \in {"None", "UnknownModel", "UnknownResidency", "BackendUnsupported",
                  "BackendFailure"}
    THEN format_model_operation_result(error)
    ELSE "internal_error"

format_node_operation_result(error) ==
    [None |-> "OK", DuplicateNode |-> "duplicate_node", UnknownNode |-> "unknown_node",
     InvalidCapacity |-> "invalid_size", InvalidEndpoint |-> "invalid_endpoint",
     InvalidId |-> "invalid_name"][error]

\* The layout that all listings share: a first line, rows and END.
Listing(rows) ==
    LET cell(i) == IF i % 2 = 0 THEN Newline ELSE Word(rows[(i + 1) \div 2])
    IN  OneLine("OK") \o [i \in 1 .. 2 * Len(rows) |-> cell(i)] \o OneLine("END")

\* A row is told apart by how it ends: with a number, a word, or a path.
format_status(clients) == Listing([i \in 1 .. clients |-> "bytes"])

format_nodes(nodes) == Listing([i \in 1 .. nodes |-> "healthy"])

format_models(paths) == Listing(paths)

\* Only the resident ones of the records are listed.
format_residency(resident) ==
    LET listed == {i \in DOMAIN resident : resident[i]}
    IN  Listing([i \in 1 .. Cardinality(listed) |-> "last_loaded"])

format_metrics == Listing([i \in 1 .. 9 |-> "counter"])

=============================================================================
