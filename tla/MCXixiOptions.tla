---------------------------- MODULE MCXixiOptions ----------------------------
(***************************************************************************)
(* Checks main()'s option loop against the usage text for every command   *)
(* line of at most two options drawn from a small set, plus one option    *)
(* left without its argument at the end.  The set of options is a         *)
(* constant, so each run chooses the part of the command line it asks     *)
(* about.                                                                   *)
(***************************************************************************)
EXTENDS XixiOptions

CONSTANTS Options, Truncated

\* The numeric tokens and what atoi and atof make of them; atoi and atof
\* of a token that is not a number are 0.
Numbers == <<"0", "1", "4", "48", "-1", "1.5", "9", "131072", "131073",
             "2097152", "4194305">>
NumberValue == <<0, 1, 4, 48, -1, 1, 9, 131072, 131073, 2097152, 4194305>>
MCATOI == [t \in Tokens |->
             IF \E k \in DOMAIN Numbers : Numbers[k] = t
             THEN NumberValue[CHOOSE k \in DOMAIN Numbers : Numbers[k] = t]
             ELSE 0]
MCATOF == [t \in Tokens |-> IF t = "1.5" THEN 150 ELSE 100 * MCATOI[t]]

MCTokens == {Numbers[k] : k \in DOMAIN Numbers} \cup
            {"-p", "-m", "-c", "-h", "-i", "-l", "-d", "-f", "-n", "-t",
             "-loglevel", "-I", "-M", "-x", "eth0"}

\* The defaults the usage text states (maxbytes in megabytes), and maxconns.
MCDefaults == [port |-> 7788, inter |-> "any", maxbytes |-> 768,
               maxconns |-> 1024, factor |-> 125, pool_size |-> 2,
               num_threads |-> 4, item_size_min |-> 48,
               item_size_max |-> 5 * 2^20]

\* Options whose documented meaning the loop implements.
AgreedOptions ==
  {<<"-p", "4">>, <<"-m", "4">>, <<"-l", "eth0">>, <<"-h">>,
   <<"-i">>, <<"-f", "1">>, <<"-f", "1.5">>, <<"-n", "0">>, <<"-n", "48">>,
   <<"-t", "-1">>, <<"-t", "4">>, <<"-loglevel", "1">>, <<"-loglevel", "9">>,
   <<"-I", "0">>, <<"-I", "1">>, <<"-I", "131072">>, <<"-I", "131073">>,
   <<"-I", "2097152">>, <<"-x">>}
\* Options whose documented meaning the loop does not implement: -c, the
\* -I value whose product wraps into range, -M, and -d.
UsageOptions == AgreedOptions \cup {<<"-c", "4">>, <<"-I", "4194305">>, <<"-M">>,
                                    <<"-d">>}

\* Flags given last without their argument.
TruncatedFlags == {<<"-p">>, <<"-loglevel">>}

\* The command line under test; it never changes.
VARIABLE opts

Init ==
  opts \in BoundedSeq(Options, 2) \cup
           {o \o <<t>> : o \in BoundedSeq(Options, 1), t \in Truncated}

Next == UNCHANGED opts

Spec == Init /\ [][Next]_opts

(* main() ends its option loop with the settings, the log level and the   *)
(* exit status that print_usage() promises for the command line: each     *)
(* listed option sets what its line says, a later option overrides an    *)
(* earlier one, -h and -i stop with success, and an unlisted flag or a    *)
(* missing argument stops with failure.                                   *)
OptionsAsDocumented == Parse(Argv(opts)) = Documented(opts)
=============================================================================
