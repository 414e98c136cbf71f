---------------------------- MODULE XixiOptions ----------------------------
(***************************************************************************)
(* The command line of xixibase: the option loop at the top of main()     *)
(* (src/src/main.cpp), and what print_usage() says each option does.      *)
(*                                                                         *)
(* An argument is a string token.  atoi and atof are what they do to the   *)
(* tokens the model uses: the tables ATOI and ATOF (atof in hundredths).   *)
(* The loop is the RECURSIVE ParseFrom over one Option step, whose branch  *)
(* is the first arm of the if / else-if chain that matches.  Documented    *)
(* reads the same command line as a list of options, as the usage text    *)
(* describes them.                                                         *)
(***************************************************************************)
EXTENDS Integers, Sequences, SequencesExt

CONSTANTS
  Tokens,          \* the argument strings the model uses
  ATOI,            \* atoi of each token
  ATOF,            \* atof of each token, in hundredths
  Defaults,        \* settings_ before main() runs
  LOG_LEVEL_INFO   \* set_log_level(log_level_info) at the top of main()

ASSUME /\ ATOI \in [Tokens -> Int] /\ ATOF \in [Tokens -> Int]
       /\ LOG_LEVEL_INFO \in 0..6

\* log_level_trace .. log_level_no_log
LogLevels == 0..6

(* x * 1024 in int arithmetic, wrapped at 32 bits as the build computes  *)
(* it: only x mod 2^22 reaches the low 32 bits, and the result is negative *)
(* when bit 21 of x is set.  (Written so that no intermediate leaves the  *)
(* range of TLC's integers.)                                               *)
IntTimes1024(x) ==
  LET y == x % 2^22 IN IF y >= 2^21 THEN (y - 2^22) * 1024 ELSE y * 1024

(* The arms of the chain in main(), in order, by the string cmdcmp        *)
(* compares with.  cmdcmp is strncmp over sizeof(const_str) bytes, the    *)
(* terminating NUL included, so an arm matches only the exact string.    *)
(* "-c" is the test of two arms.                                          *)
Branches == <<"-p", "-m", "-c", "-h", "-i", "-l", "-d", "-f", "-n", "-c",
              "-t", "-loglevel", "-I">>

\* The arms without `&& i + 1 < argc`.
FlagBranches == {4, 5, 7}

\* The arm argument i enters; 0 for the final else.
Branch(args, i) ==
  LET ok == {k \in DOMAIN Branches :
               /\ Branches[k] = args[i]
               /\ (k \in FlagBranches \/ i < Len(args))}
  IN IF ok = {} THEN 0 ELSE CHOOSE k \in ok : \A j \in ok : k <= j

\* The state the loop updates: settings_, the logger's level, and whether
\* the process is to detach as a daemon (do_daemonize, which the -d arm
\* would set).
InitialState == [settings |-> Defaults, level |-> LOG_LEVEL_INFO,
                 daemon |-> FALSE]

\* set_log_level: log_level_ = log_level.
SetLogLevel(st, l) == [st EXCEPT !.level = l]

Continue(i, st) == [i |-> i, st |-> st, exit |-> "none"]
Exit(code, st) == [i |-> 0, st |-> st, exit |-> code]

\* Mutant: a factor of exactly 1.0 is kept.
FactorStrict(f) == IF f < 100 THEN 125 ELSE f

\* -f: atof, replaced by 1.25 when not greater than 1.0.
Factor(f) == IF f <= 100 THEN 125 ELSE f

\* -I: atoi(argv[i]) * 1024 as an int, rejected unless in 1 .. 128 MB.
ItemSizeMax(i, st, x) ==
  LET size_max == IntTimes1024(x)
  IN IF size_max <= 0 \/ size_max > 1024 * 1024 * 128
     THEN Exit("failure", st)
     ELSE Continue(i + 2, [st EXCEPT !.settings.item_size_max = size_max])

\* One iteration of the for loop at argument i; i++ is the step to the
\* next index, twice for an arm that consumes a value.
Option(args, i, st) ==
  LET k == Branch(args, i)
      v == IF k \in 1..13 \ FlagBranches THEN args[i + 1] ELSE args[i]
      x == ATOI[v]
      next(t) == Continue(i + 2, t)
  IN CASE k = 1 -> next([st EXCEPT !.settings.port = x])
       \* maxbytes in megabytes: (uint64_t)x * 1024 * 1024 is x MB for x >= 0
       [] k = 2 -> next([st EXCEPT !.settings.maxbytes = x])
       [] k = 3 -> next([st EXCEPT !.settings.maxconns = x])
       [] k = 4 -> Exit("success", st)
       [] k = 5 -> Exit("success", st)
       [] k = 6 -> next([st EXCEPT !.settings.inter = v])
       \* -d: `do_daemonize = true;` is commented out
       [] k = 7 -> Continue(i + 1, st)
       [] k = 8 -> next([st EXCEPT !.settings.factor = Factor(ATOF[v])])
       [] k = 9 -> IF x <= 0 THEN Exit("failure", st)
                   ELSE next([st EXCEPT !.settings.item_size_min = x])
       [] k = 10 -> next(IF x > 0 THEN [st EXCEPT !.settings.pool_size = x]
                                   ELSE st)
       [] k = 11 -> next(IF x > 0 THEN [st EXCEPT !.settings.num_threads = x]
                                   ELSE st)
       [] k = 12 -> next(IF x \in LogLevels THEN SetLogLevel(st, x)
                                             ELSE st)
       [] k = 13 -> ItemSizeMax(i, st, x)
       [] k = 0 -> Exit("failure", st)

\* for (int i = 1; i < argc; i++): argv[1 .. argc-1] is args.
RECURSIVE ParseFrom(_, _, _)
ParseFrom(args, i, st) ==
  IF i > Len(args) THEN [st |-> st, exit |-> "none"]
  ELSE LET r == Option(args, i, st)
       IN IF r.exit # "none" THEN [st |-> r.st, exit |-> r.exit]
          ELSE ParseFrom(args, r.i, r.st)

\* What main() has when the loop ends: the settings, the log level, and
\* whether exit() was called with EXIT_SUCCESS or EXIT_FAILURE.
Parse(args) == ParseFrom(args, 1, InitialState)

-----------------------------------------------------------------------------
(* The usage text.  An option is <<flag>> or <<flag, value>>.             *)

\* Options print_usage lists with an argument, and without one.
DocValueFlags == {"-p", "-l", "-m", "-loglevel", "-f", "-c", "-t", "-n", "-I"}
DocFlags == {"-d", "-M", "-h", "-i"}

\* The argument vector of a list of options.
Argv(opts) == FlattenSeq(opts)

\* An option as print_usage lists it.
Listed(o) == \/ o[1] \in DocFlags /\ Len(o) = 1
             \/ o[1] \in DocValueFlags /\ Len(o) = 2

\* One documented option applied to the state; a flag the text does not
\* list, or an option missing its argument, is an illegal argument.
DocOption(acc, o) ==
  LET st == acc.st
      f == o[1]
      x == IF Len(o) = 2 THEN ATOI[o[2]] ELSE 0
      set(t) == [acc EXCEPT !.st = t]
      stop(code) == [acc EXCEPT !.exit = code]
  IN IF acc.exit # "none" THEN acc
     ELSE IF ~Listed(o)
          THEN stop("failure")
     ELSE CASE f \in {"-h", "-i"} -> stop("success")
            [] f = "-d" -> set([st EXCEPT !.daemon = TRUE])
            \* the memory-exhausted policy has no state the loop sets
            [] f = "-M" -> acc
            [] f = "-p" -> set([st EXCEPT !.settings.port = x])
            [] f = "-l" -> set([st EXCEPT !.settings.inter = o[2]])
            \* max memory in megabytes
            [] f = "-m" -> set([st EXCEPT !.settings.maxbytes = x])
            \* levels 0 trace .. 6 no_log; any other is not a level
            [] f = "-loglevel" -> IF x \in LogLevels
                                  THEN set([st EXCEPT !.level = x]) ELSE acc
            \* a growth factor must grow; the default is 1.25
            [] f = "-f" -> set([st EXCEPT !.settings.factor =
                                  IF ATOF[o[2]] > 100 THEN ATOF[o[2]] ELSE 125])
            \* number of cores, threads: positive counts
            [] f = "-c" -> IF x > 0 THEN set([st EXCEPT !.settings.pool_size = x])
                           ELSE acc
            [] f = "-t" -> IF x > 0 THEN set([st EXCEPT !.settings.num_threads = x])
                           ELSE acc
            \* min item size in bytes
            [] f = "-n" -> IF x > 0 THEN set([st EXCEPT !.settings.item_size_min = x])
                           ELSE stop("failure")
            \* max item size in k bytes, min 1k, max 128MB
            [] f = "-I" -> IF x \in 1..(128 * 1024)
                           THEN set([st EXCEPT !.settings.item_size_max = x * 1024])
                           ELSE stop("failure")

Documented(opts) == FoldLeft(DocOption, [st |-> InitialState, exit |-> "none"], opts)
=============================================================================
