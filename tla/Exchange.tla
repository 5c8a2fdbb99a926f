------------------------------ MODULE Exchange ------------------------------
(***************************************************************************)
(* One connection: a client sends request lines, a session of the daemon   *)
(* cuts what arrives into lines and answers each, and the client decides   *)
(* from what has arrived so far whether the answer is complete.  Both byte *)
(* streams are cut into pieces anywhere, and the daemon may close or die.  *)
(*                                                                         *)
(* There are three kinds of client: "library" is Client::request with the  *)
(* methods built on it, "ctl" is gpumemctl, which parses its command line  *)
(* first, and "raw" is any program that writes lines to the socket.        *)
(***************************************************************************)
EXTENDS Protocol, SequencesExt

CONSTANTS Clients,      \* the kinds of clients
          Commands,     \* what each kind is asked to send
          AcquireCalls, \* what Client::acquire is called with
          Wires,        \* what a raw client sends, line breaks included
          MaxLine,      \* kMaxLineBytes, in cells
          MaxRows,      \* bound on the rows of a listing
          RowEnds,      \* how the rows of a models listing may end
          NoCall

ASSUME ExchangeAssumption ==
    /\ Clients \subseteq {"library", "ctl", "raw"}
    /\ MaxLine \in Nat \ {0} /\ MaxRows \in Nat
    /\ RowEnds \subseteq {"path", "pathEND"}

\* Where the broken words of a command are.
BrokenAt(text) == {i \in DOMAIN text : text[i].kind = "broken"}

\* Blanks are written before the first word and behind the last one only, and
\* a carriage return at the end: elsewhere it is a letter of a word.
WellSpaced(text) ==
    \A i \in DOMAIN text :
        /\ text[i] = Blank => i \in {1, Len(text)} \/ text[i + 1] = CarriageReturn
        /\ text[i] = CarriageReturn => i = Len(text)

\* No blank is in a broken word, so two words of it are never on one line.
WellBroken(cells) ==
    /\ \E i \in DOMAIN cells : cells[i] = Newline
    /\ \A i \in DOMAIN cells :
          /\ cells[i] = CarriageReturn => i < Len(cells) /\ cells[i + 1] = Newline
          /\ cells[i] \in Tokens /\ i < Len(cells) => cells[i + 1] \notin Tokens

\* A raw client sends what it likes (blanks make no difference to framing), and
\* a caller of the library may put a line break anywhere.  A word of
\* gpumemctl's command line may hold line breaks; two such words are refused,
\* since no command has more than one field that takes them.
ASSUME CommandsAssumption ==
    /\ Wires \subseteq Seq(Cells \ {Blank})
    /\ "library" \in Clients =>
          \A c \in Commands["library"] : c \in Seq(Cells) /\ WellSpaced(c)
    /\ "ctl" \in Clients =>
          \A c \in Commands["ctl"] :
             /\ c \in Seq((Cells \ {Newline}) \cup BrokenTokens) /\ WellSpaced(c)
             /\ \A i \in BrokenAt(c) : WellBroken(c[i].cells) /\ BrokenAt(c) = {i}
    /\ \A c \in AcquireCalls :
          /\ c.name \in Tokens \cup {Newline}
          /\ c.bytes \in 0 .. MaxBytes
          /\ c.options.priority \in - MaxInt - 1 .. MaxInt
          /\ {c.options.timeout, c.options.estimated_cost} \subseteq Int

VARIABLES kind,       \* the kind of client
          call,       \* the arguments of Client::acquire, or NoCall
          command,    \* what it is asked to send
          wire,       \* what the client has to send or has sent
          client,     \* where the client is, and its result
          response,   \* what it has read
          toServer,   \* cells on their way to the session
          toClient,   \* cells on their way to the client
          session,    \* where the session is, and why it ended
          input,      \* its client.input
          handled,    \* the lines given to parse_command, ...
          received,   \* ... what became of the last one, a command ...
          outcomes,   \* ... and the error that each of them ended with
          answers     \* all that it has sent

asked == <<kind, call, command, wire>>
reader == <<client, response>>
parser == <<handled, received, outcomes, answers>>
vars == <<asked, reader, toServer, toClient, session, input, parser>>

-----------------------------------------------------------------------------
(***************************************************************************)
(* Client.                                                                 *)
(***************************************************************************)

\* The command line that Client::acquire puts together.
AcquireCommand(c) ==
    <<Word("acquire"), c.name, Signed(c.bytes), Signed(c.options.priority)>>
    \o (IF c.options.timeout = MaxMillis THEN <<>>
        ELSE <<Signed(c.options.timeout)>>
             \o (IF c.options.estimated_cost = 0 THEN <<>>
                 ELSE <<Signed(c.options.estimated_cost)>>))

\* A broken word goes out letter by letter: its line breaks are line breaks.
Spelled(text) ==
    IF BrokenAt(text) = {} THEN text
    ELSE LET i == CHOOSE i \in BrokenAt(text) : TRUE
         IN  SubSeq(text, 1, i - 1) \o text[i].cells \o SubSeq(text, i + 1, Len(text))

Init ==
    /\ kind \in Clients
    /\ call \in IF kind = "library" THEN AcquireCalls \cup {NoCall} ELSE {NoCall}
    /\ command \in CASE kind = "raw" -> {<<>>}
                     [] call # NoCall -> {AcquireCommand(call)}
                     [] OTHER -> Commands[kind]
    /\ wire \in IF kind = "raw" THEN Wires ELSE {Spelled(command) \o <<Newline>>}
    /\ client = "start"
    /\ response = <<>>
    /\ toServer = <<>>
    /\ toClient = <<>>
    /\ session = "none"
    /\ input = <<>>
    /\ handled = <<>>
    /\ received = NoCall
    /\ outcomes = <<>>
    /\ answers = <<>>

\* The client is done and closes the connection.
Finish(result) == client' = result

\* Whether the command is refused before anything is sent.  The library looks
\* for line breaks; gpumemctl parses the command as one line, and a path may
\* hold any letter.
RefusedEarly ==
    CASE kind = "library" -> command = <<>> \/ Contains(command, Newline)
      [] kind = "ctl" -> parse_error(tokenize(command)) # "None"
      [] OTHER -> FALSE

\* Connect and write the command; a write may fail when a part is on its way.
Connect ==
    /\ client = "start"
    /\ \/ /\ RefusedEarly
          /\ Finish(IF kind = "ctl" THEN "Usage" ELSE "InvalidRequest")
          /\ UNCHANGED <<wire, session, toServer>>
       \/ /\ ~ RefusedEarly
          /\ Finish("ConnectionFailed")
          /\ UNCHANGED <<wire, session, toServer>>
       \/ /\ ~ RefusedEarly
          /\ client' = "reading"
          /\ session' = "reading"
          /\ toServer' = wire
          /\ UNCHANGED wire
       \/ /\ ~ RefusedEarly /\ kind # "raw"
          /\ Finish("WriteFailed")
          /\ session' = "reading"
          /\ wire' \in Prefixes(Front(wire))
          /\ toServer' = wire'
    /\ UNCHANGED <<kind, call, command, response, toClient, input, parser>>

\* gpumemctl looks at what it parsed, the library at the text up to the first
\* blank: blanks in front hide the verb, and a carriage return is a part of it.
Multiline ==
    IF kind = "ctl"
    THEN tokenize(command)[1].text \in Queries \ {"nodes"}
    ELSE /\ command[1].kind = "word" /\ command[1].text \in Queries
         /\ Len(command) > 1 => command[2] # CarriageReturn

EndsInEND(text) ==
    /\ Len(text) > 1
    /\ Last(text) = Newline
    /\ text[Len(text) - 1] \in {Word("END"), Word("pathEND")}

\* It starts with "ERR ".
IsError(text) == text # <<>> /\ text[1] # Word("OK")

\* Mutants: the answer is complete with its first line; an error is not
\* complete before END.
CompleteAtNewline(text) == Contains(text, Newline)
CompleteAtEND(text) ==
    IF Multiline THEN EndsInEND(text) ELSE Contains(text, Newline)

Complete(text) ==
    \/ IsError(text) /\ Contains(text, Newline)
    \/ Multiline /\ EndsInEND(text)
    \/ ~ Multiline /\ Contains(text, Newline)

\* Read some of what has arrived.
ClientRead ==
    /\ client = "reading"
    /\ kind # "raw"
    /\ \E n \in 1 .. Len(toClient) :
          /\ response' = response \o SubSeq(toClient, 1, n)
          /\ toClient' = SubSeq(toClient, n + 1, Len(toClient))
    /\ \/ ~ Complete(response') /\ UNCHANGED client
       \/ /\ Complete(response')
          /\ Finish(IF IsError(response') THEN "BrokerRejected" ELSE "None")
    /\ UNCHANGED <<asked, toServer, session, input, parser>>

\* The end of the stream, or an error.
ClientEof ==
    /\ client = "reading"
    /\ session \notin {"reading", "processing"}
    /\ toClient = <<>>
    /\ Finish("ReadFailed")
    /\ UNCHANGED <<asked, response, toServer, toClient, session, input, parser>>

\* A raw client closes when it likes; the session may have read all or not.
RawClose ==
    /\ client = "reading"
    /\ kind = "raw"
    /\ Finish("None")
    /\ UNCHANGED <<asked, response, toServer, toClient, session, input, parser>>

-----------------------------------------------------------------------------
(***************************************************************************)
(* client_session and process_input.                                       *)
(***************************************************************************)

SessionRead ==
    /\ session = "reading"
    /\ \E n \in 1 .. Len(toServer) :
          /\ input' = input \o SubSeq(toServer, 1, n)
          /\ toServer' = SubSeq(toServer, n + 1, Len(toServer))
    /\ session' = "processing"
    /\ UNCHANGED <<asked, reader, toClient, parser>>

Send(text) ==
    /\ answers' = answers \o <<text>>
    /\ toClient' = toClient \o text

\* The position of the first newline; 0 if there is none.
NewlineAt == SelectInSeq(input, LAMBDA c : c = Newline)

\* kMaxLineBytes counts the line break, whether it has arrived or not.
TooLarge == IF NewlineAt = 0 THEN Len(input) >= MaxLine ELSE NewlineAt > MaxLine

ProcessTooLarge ==
    /\ session = "processing"
    /\ TooLarge
    /\ Send(OneLine("request_too_large"))
    /\ session' = "too_large"
    /\ UNCHANGED <<asked, reader, toServer, input, handled, received, outcomes>>

\* Mutant: an incomplete line does not make the loop go back to read.
NeedMoreSpins ==
    /\ session = "processing"
    /\ NewlineAt = 0
    /\ ~ TooLarge
    /\ UNCHANGED vars

\* No complete line is left: back to read.
NeedMore ==
    /\ session = "processing"
    /\ NewlineAt = 0
    /\ ~ TooLarge
    /\ session' = "reading"
    /\ UNCHANGED <<asked, reader, toServer, toClient, input, parser>>

\* The errors that the operation of a verb may return, and what is sent.
ManagerErrors(verb) ==
    CASE verb = "release" -> {"UnknownClient"}
      [] verb = "try_acquire" -> {"DuplicateClient", "InsufficientMemory"}
      [] OTHER -> {"DuplicateClient", "InsufficientMemory", "Timeout"}

ModelErrors(verb) ==
    CASE verb = "share" -> {"UnknownModel", "UnknownResidency", "BackendUnsupported",
                            "BackendFailure"}
      [] verb = "register" -> {"DuplicateModel"}
      [] verb = "register_file" -> {"FileUnavailable", "DuplicateModel"}
      [] verb = "unregister" -> {"UnknownModel", "ModelInUse"}
      [] verb = "retain" -> {"UnknownModel"}
      [] verb = "release_model" -> {"UnknownModel", "RefcountUnderflow"}
      [] verb = "load" -> {"UnknownModel", "InsufficientMemory", "FileUnavailable",
                           "SourceChanged", "ReadFailure", "BackendFailure"}
      [] OTHER -> {"UnknownModel", "UnknownResidency", "ModelInUse", "BackendFailure"}

NodeErrors(verb) ==
    IF verb = "node_register" THEN {"InvalidEndpoint", "DuplicateNode"} ELSE {"UnknownNode"}

\* A listing of up to MaxRows rows.
Listings(verb) ==
    CASE verb = "status" -> {format_status(n) : n \in 0 .. MaxRows}
      [] verb = "nodes" -> {format_nodes(n) : n \in 0 .. MaxRows}
      [] verb = "models" -> {format_models(ends) : ends \in BoundedSeq(RowEnds, MaxRows)}
      [] verb = "residency" -> {format_residency(r) : r \in BoundedSeq(BOOLEAN, MaxRows)}
      [] verb = "metrics" -> {format_metrics}

\* metrics and nodes may be null.
OperationErrors(verb) ==
    CASE verb \in ClientVerbs -> ManagerErrors(verb)
      [] verb \in ModelVerbs -> ModelErrors(verb)
      [] verb \in NodeVerbs -> NodeErrors(verb) \cup {"Unavailable"}
      [] verb \in {"metrics", "nodes"} -> {"Unavailable"}
      [] OTHER -> {}

AnswerCode(verb, error) ==
    IF error = "Unavailable"
    THEN IF verb = "metrics" THEN "metrics_unavailable" ELSE "nodes_unavailable"
    ELSE IF verb \in ClientVerbs THEN format_operation_result(error)
    ELSE IF verb \in NodeVerbs THEN format_node_operation_result(error)
    ELSE IF verb = "share" THEN format_share_result(error)
    ELSE format_model_operation_result(error)

\* The operation of a command and its answer.
dispatch(verb) ==
    \/ /\ verb \in Queries
       /\ outcomes' = Append(outcomes, "None")
       /\ \E text \in Listings(verb) : Send(text)
    \/ \E error \in OperationErrors(verb) \cup {"None"} :
          /\ error = "None" => verb \notin Queries
          /\ outcomes' = Append(outcomes, error)
          /\ Send(OneLine(AnswerCode(verb, error)))

\* Mutant: what follows the line break in the buffer is thrown away.
TakeLineAndRest(line) ==
    /\ input' = <<>>
    /\ handled' = Append(handled, line)

TakeLine(line) ==
    /\ input' = SubSeq(input, NewlineAt + 1, Len(input))
    /\ handled' = Append(handled, line)

StripCR(text) == IF text # <<>> /\ Last(text) = CarriageReturn THEN Front(text) ELSE text

ProcessLine ==
    LET line == StripCR(SubSeq(input, 1, NewlineAt - 1))
        tokens == tokenize(line)
        error == parse_error(tokens)
    IN
    /\ session = "processing"
    /\ NewlineAt # 0
    /\ ~ TooLarge
    /\ TakeLine(line)
    /\ \/ /\ error = "None"
          /\ received' = command_of(tokens)
          /\ dispatch(tokens[1].text)
       \/ /\ error # "None"
          /\ received' = NoCall
          /\ outcomes' = Append(outcomes, error)
          /\ Send(OneLine(format_parse_error(error)))
    /\ session' \in IF client = "reading" THEN {"processing"} ELSE {"processing", "write_failed"}
    /\ UNCHANGED <<asked, reader, toServer>>

\* The client has closed and all it sent has been read.
SessionEof ==
    /\ session = "reading"
    /\ client \notin {"start", "reading"}
    /\ toServer = <<>>
    /\ \/ input # <<>> /\ Send(OneLine("invalid_request"))
       \/ input = <<>> /\ UNCHANGED <<answers, toClient>>
    /\ session' = "eof"
    /\ UNCHANGED <<asked, reader, toServer, input, handled, received, outcomes>>

\* The stop flag is seen between two reads, or a read fails.
SessionStops ==
    /\ session = "reading"
    /\ session' = "stopped"
    /\ UNCHANGED <<asked, reader, toServer, toClient, input, parser>>

\* The daemon dies: of what is on its way any part may still arrive.
DaemonDies ==
    /\ session \in {"reading", "processing"}
    /\ session' = "dead"
    /\ toClient' \in Prefixes(toClient)
    /\ UNCHANGED <<asked, reader, toServer, input, parser>>

-----------------------------------------------------------------------------

ClientStep == Connect \/ ClientRead \/ ClientEof
SessionStep == SessionRead \/ ProcessTooLarge \/ NeedMore \/ ProcessLine \/ SessionEof

Next == ClientStep \/ RawClose \/ SessionStep \/ SessionStops \/ DaemonDies

Spec == Init /\ [][Next]_vars

\* Both sides run on, and operations end: a waiting acquire is the matter of
\* Server and ResourceManager.
FairSpec == Spec /\ WF_vars(ClientStep) /\ WF_vars(SessionStep)

-----------------------------------------------------------------------------
(***************************************************************************)
(* Reference: what a stream of cells means, whatever pieces it comes in.   *)
(***************************************************************************)

Newlines(text) == {i \in DOMAIN text : text[i] = Newline}

\* How many lines end at position i or before.
LinesBy(text, i) == Cardinality({j \in Newlines(text) : j <= i})

LineCount(text) == Cardinality(Newlines(text))

\* Where the k-th line ends; the 0-th ends before the first cell.
LineEnd(text, k) ==
    IF k = 0 THEN 0 ELSE CHOOSE i \in Newlines(text) : LinesBy(text, i) = k

\* The k-th line of text, with its line break.
LineOf(text, k) == SubSeq(text, LineEnd(text, k - 1) + 1, LineEnd(text, k))

\* How many lines come before the first one that is too long.
GoodLines(text) ==
    Cardinality({k \in 1 .. LineCount(text) :
                    \A l \in 1 .. k : Len(LineOf(text, l)) <= MaxLine})

\* What follows the last line break.
Rest(text) == SubSeq(text, LineEnd(text, LineCount(text)) + 1, Len(text))

Oversized(text) ==
    GoodLines(text) < LineCount(text) \/ Len(Rest(text)) >= MaxLine

StripLine(line) == StripCR(Front(line))

\* The lines that a session parses are the lines that were sent, in order,
\* none twice and none skipped, however the stream was cut into reads; and
\* when it ends by itself it has parsed all of them, up to a line that is
\* longer than the limit, which it reports if and only if there is one.
FramedAsSent ==
    /\ Len(handled) <= GoodLines(wire)
    /\ \A k \in DOMAIN handled : handled[k] = StripLine(LineOf(wire, k))
    /\ session \in {"eof", "too_large"} => Len(handled) = GoodLines(wire)
    /\ session = "too_large" => Oversized(wire)
    /\ session = "eof" => ~ Oversized(wire)

\* What the library and gpumemctl are asked to send is one line.
SingleLine == BrokenAt(command) = {}

\* Where a client takes a listing for an answer of one line: gpumemctl does not
\* know nodes for a listing, and the library does not find the verb of a query
\* behind blanks or before a carriage return.
TakenForOneLine ==
    \/ kind = "ctl" /\ tokenize(command)[1] = Word("nodes")
    \/ kind = "library" /\ command[1] = Blank
    \/ kind = "library" /\ Len(command) = 2 /\ command[2] = CarriageReturn

\* The last row read ends in END, as the path of a model may.
RowLooksLikeEnd == Len(response) > 1 /\ response[Len(response) - 1] = Word("pathEND")

\* A client that reports an answer has read the answer to the first line it
\* sent from its start to its end, in however many pieces it arrived, and reads
\* nothing behind it if it sent one line.  In two cases it has the first line
\* of a listing and may lack the rest: when it takes the listing for an answer
\* of one line, and when a row looks like the end of the listing.  No other
\* command and no other row does that (Client::request, is_multiline,
\* gpumemctl's main).
ResponseWhole ==
    client \in {"None", "BrokerRejected"} /\ kind # "raw" =>
        /\ answers # <<>>
        /\ SingleLine => IsPrefix(response, answers[1])
        /\ \/ IsPrefix(answers[1], response)
           \/ /\ IsPrefix(OneLine("OK"), response)
              /\ TakenForOneLine \/ RowLooksLikeEnd

\* A client that reports an answer has read all of it and nothing else.
AnswerWhole ==
    client \in {"None", "BrokerRejected"} /\ kind # "raw" => answers = <<response>>

\* The errors that a line can end with, and their codes.
LineErrors(line) ==
    ParseErrors \cup (IF HasVerb(tokenize(line)) THEN OperationErrors(tokenize(line)[1].text)
                      ELSE {})
ErrorCode(line, error) ==
    IF error \in ParseErrors THEN format_parse_error(error)
    ELSE AnswerCode(tokenize(line)[1].text, error)

\* What a client reports is true of the first line that it sent, which is all
\* that it sent unless a word of it was broken.  If it reports success the
\* operation was run and returned no error.  If it reports that the daemon
\* refused, the operation failed with the one error that the code it has read
\* stands for, of all those the line could have ended with, or the line was too
\* long and nothing was run.  If it could not connect or write, or refused the
\* command itself, the last line was not run, nor any if there is one line.  The
\* converse is not promised: a client that reports ReadFailed cannot know, since
\* the daemon may die or stop with the operation done.
OutcomeArrives ==
    kind # "raw" =>
        /\ client = "None" =>
              /\ handled # <<>> /\ outcomes[1] = "None"
              /\ SingleLine => Len(handled) = 1
        /\ client = "BrokerRejected" =>
              IF handled = <<>> THEN response[1] = Word("request_too_large")
              ELSE /\ outcomes[1] # "None"
                   /\ \A error \in LineErrors(handled[1]) :
                         response[1] = Word(ErrorCode(handled[1], error))
                             <=> error = outcomes[1]
        /\ client \in {"InvalidRequest", "Usage", "ConnectionFailed"} => handled = <<>>
        /\ client = "WriteFailed" => Len(handled) <= LineCount(Spelled(command))

\* The number of bytes, with its unit, and the priority of an acquire arrive
\* as the client has meant them or the line is refused: nothing wraps around
\* (parse_size, parse_priority, Client::acquire).
NumbersArrive ==
    kind # "raw" /\ SingleLine /\ received # NoCall /\ received.verb = "acquire" =>
        LET meant == tokenize(StripCR(command))
            size == meant[3]
        IN
        /\ received.bytes = size.digits * Units[size.unit]
        /\ received.bytes <= MaxBytes
        /\ call # NoCall =>
              received.bytes = call.bytes /\ received.options.priority = call.options.priority
        /\ call = NoCall /\ Len(meant) > 3 =>
              received.options.priority = IF meant[4].sign = "-" THEN - meant[4].digits
                                          ELSE meant[4].digits

\* The timeout that Client::acquire is called with is the one that the daemon
\* uses.
TimeoutArrives ==
    call # NoCall /\ received # NoCall => received.options.timeout = call.options.timeout

\* A client gets its answer or an error: it never goes on reading after the
\* session has said all it has to say.
ClientReturns == <> (client \notin {"start", "reading"} \/ kind = "raw")

\* No complete line is left lying in the buffer: lines that arrive together in
\* one read are all answered, unless the session has a reason to end.
LinesAnswered ==
    <> \/ Len(handled) = GoodLines(wire)
       \/ session \in {"stopped", "dead", "write_failed"}
       \/ client \in {"InvalidRequest", "Usage", "ConnectionFailed"}

=============================================================================
