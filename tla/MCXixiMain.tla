---------------------------- MODULE MCXixiMain ----------------------------
(***************************************************************************)
(* The process life with command lines that start the server with       *)
(* several settings, one that prints the help and one that is rejected,  *)
(* and up to MaxSignals termination signals: one in the lifecycle run, two *)
(* (a user pressing Ctrl-C twice) in the runs that look for the windows.   *)
(***************************************************************************)
EXTENDS XixiMain

MCTokens == {"-h", "-x", "-p", "-t", "-c", "-loglevel", "4", "1"}
MCATOI == [t \in MCTokens |-> CASE t = "4" -> 4 [] t = "1" -> 1 [] OTHER -> 0]
MCATOF == [t \in MCTokens |-> 100 * MCATOI[t]]
MCDefaults == [port |-> 7788, inter |-> "any", maxbytes |-> 768,
               maxconns |-> 1024, factor |-> 125, pool_size |-> 2,
               num_threads |-> 4, item_size_min |-> 48,
               item_size_max |-> 5 * 2^20]
MCCommandLines ==
  {<<>>, <<<<"-h">>>>, <<<<"-x">>>>, <<<<"-loglevel", "1">>>>} \cup
  {<<<<f, v>>>> : f \in {"-p", "-t", "-c"}, v \in {"1", "4"}}
=============================================================================
