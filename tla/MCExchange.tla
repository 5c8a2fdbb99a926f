----------------------------- MODULE MCExchange -----------------------------
(***************************************************************************)
(* Instances of Exchange for TLC.  Numbers are four bits wide, ints three  *)
(* (-4 .. 3) and milliseconds three, so that every limit is crossed.       *)
(***************************************************************************)
EXTENDS Exchange, TLC

MCUnits == "none" :> 1 @@ "B" :> 1 @@ "KB" :> 3 @@ "KiB" :> 4

w(text) == Word(text)
n(digits) == Numeral("none", digits, "none")

\* Every verb with good and bad fields, too few and too many.
SizeTokens == {Numeral(sign, d, u) : sign \in {"none", "-"}, d \in {0, 1, 3, 4, 5, 15, 16},
                                     u \in DOMAIN MCUnits} \cup {w("x")}
IntTokens == {Numeral(sign, d, "none") : sign \in {"none", "+", "-"}, d \in {0, 1, 3, 4, 5, 15, 16}}
             \cup {w("x")}
NameTokens == {w("a"), w("?"), n(1)}

OneName == {<<w(v), name>> : v \in {"share", "unregister", "retain", "release_model", "load",
                                     "unload", "release", "node_remove"},
                             name \in NameTokens}
Registers ==
    {<<w("register"), name, size, meta>> :
        name \in NameTokens, size \in {n(0), n(2)}, meta \in {w("a"), w("long"), n(1)}}
    \cup {<<w(v), name, path, last>> :
        v \in {"register_file", "node_register"}, name \in NameTokens,
        path \in {w("a"), w("long"), n(1)}, last \in {w("a"), n(1)}}
Acquires ==
    {<<w(v), w("a"), size>> : v \in {"acquire", "try_acquire"}, size \in SizeTokens}
    \cup {<<w("acquire"), w("a"), n(1), p>> : p \in IntTokens}
    \cup {<<w("acquire"), w("a"), n(1), n(0), t>> : t \in IntTokens}
    \cup {<<w("acquire"), w("a"), n(1), n(0), n(1), c>> : c \in IntTokens}
    \cup {<<w("acquire"), w("?"), n(1)>>}
Malformed == {<<w(v), w("a"), n(1), n(1), n(1), n(1), n(1)>> : v \in Verbs}
             \cup {<<w("x")>>, <<n(1)>>}
\* Longer than a line may be.
TooLong == {[i \in 1 .. len |-> w("status")] : len \in {8, 9}}

\* Commands with blanks around them and a carriage return behind them.
Plain == {<<w(v)>> : v \in Queries} \cup {<<w("load"), w("a")>>, <<w("acquire"), w("a"), n(1)>>}
Spaced == {front \o c \o back : front \in {<<>>, <<Blank>>}, c \in Plain \cup {<<>>},
                                back \in {<<>>, <<Blank>>, <<CarriageReturn>>,
                                          <<Blank, CarriageReturn>>}}

\* A word with line breaks in each field that may hold any letter and in some
\* that may not: what follows the break is another command, or none.
Breaks == {<<n(1), Newline, w(v)>> : v \in {"release", "status", "x"}}
          \cup {<<Newline>>, <<w("a"), CarriageReturn, Newline, w("nodes"), Newline, w("release")>>}
BrokenCommands ==
    {<<w(v), w("a"), Broken(b), n(1)>> : v \in {"register_file", "node_register", "register"}, b \in Breaks}
    \cup {<<w("acquire"), w("a"), n(1), n(0), Broken(b), n(1)>> : b \in Breaks}
    \cup {<<w("load"), Broken(b)>> : b \in Breaks} \cup {<<w("status"), Broken(b)>> : b \in Breaks}

CtlCommands == OneName \cup Registers \cup Acquires \cup Malformed \cup Spaced \cup BrokenCommands
LibraryCommands == OneName \cup Registers \cup Acquires \cup Malformed \cup Spaced
                   \cup {<<w(v), w("x")>> : v \in Queries}
                   \cup {<<w("status"), Newline>>} \cup TooLong

MCCommands == [library |-> LibraryCommands, ctl |-> CtlCommands]
NodesCommand == [ctl |-> {<<w("nodes")>>}]
NoCommands == [library |-> {}]

MCAcquireCalls ==
    {[name |-> w("a"), bytes |-> b,
      options |-> [priority |-> p, timeout |-> t, estimated_cost |-> c]] :
        b \in {0, 1, 15}, p \in {-4, -1, 0, 3}, t \in {-1, 0, 2, 7}, c \in {0, 1}}

\* Calls with a timeout, with and without a cost.
TimedCalls == {c \in MCAcquireCalls : c.options.timeout = 2}

\* Any mixture of up to five words and line breaks, and lines of about MaxLine.
RawCells == {w("status"), CarriageReturn, Newline}
MCWires == BoundedSeq(RawCells, 5)
           \cup {start \o [i \in 1 .. 6 |-> w("status")] \o end :
                    start \in {<<>>, <<Newline>>}, end \in BoundedSeq(RawCells, 3)}

=============================================================================
