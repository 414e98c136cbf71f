---------------------------- MODULE XixiMain ----------------------------
(***************************************************************************)
(* The life of the xixibase process (main() in src/src/main.cpp) and the  *)
(* termination signals that may arrive at any point of it.                *)
(*                                                                         *)
(* main() parses the options (XixiOptions), installs sigproc for SIGINT,  *)
(* SIGHUP, SIGQUIT and SIGTERM, sets the global svr_ to a new Server,     *)
(* starts and runs it, and once run() returns deletes the server and sets *)
(* svr_ back to NULL.  sigproc calls svr_->stop() when svr_ is not NULL.  *)
(* The Server's code is not in the repository: server.h declares stop(), *)
(* run() and a volatile stop_flag_, and the model takes run() to return  *)
(* once stop() has set it.  Any std::exception thrown by the constructor, *)
(* start() or run() is caught and main() returns.                         *)
(***************************************************************************)
EXTENDS XixiOptions

CONSTANTS
  CommandLines,   \* the option lists the process may be started with
  MaxSignals      \* termination signals the user may send

VARIABLES
  pc,             \* where main() is
  svr_,           \* the global pointer: "null" or "server"
  server,         \* the Server object: "none", "live" or "freed"
  stop_flag_,     \* the Server's stop flag
  signals,        \* termination signals delivered so far
  fault,          \* undefined behaviour reached by a handler
  settings_       \* the global settings the options set

vars == <<pc, svr_, server, stop_flag_, signals, fault, settings_>>

Locations == {"options", "install", "new", "start", "run", "delete", "null",
              "done", "killed"}

(* The Server class of server.h as main() and sigproc use it: constructed, *)
(* started, run until stop() sets the volatile stop_flag_, and destroyed;  *)
(* svr_ is the extern pointer to it.  Only the declaration is in the       *)
(* repository: the acceptor, resolver, timer and io_service pool behind it *)
(* are left out, and the object is its lifetime and its stop flag.         *)
ServerLifetimes == {"none", "live", "freed"}

TypeOK ==
  /\ pc \in Locations
  /\ svr_ \in {"null", "server"}
  /\ server \in ServerLifetimes
  /\ signals \in 0..MaxSignals
  /\ fault \in {"none", "use_after_free"}
  /\ stop_flag_ \in BOOLEAN

Init ==
  /\ pc = "options"
  /\ svr_ = "null"
  /\ server = "none"
  /\ stop_flag_ = FALSE
  /\ signals = 0
  /\ fault = "none"
  /\ settings_ = Defaults

\* The process has ended, normally, by a signal's default action, or by
\* the undefined behaviour of a handler.
Ended == pc \in {"done", "killed"} \/ fault # "none"

\* main() is the only thread until start(); a faulted process runs no more.
Running == fault = "none"

\* log_init, set_log_level and the option loop: exit() ends the process
\* for -h, -i and every rejected command line.
ParseOptions ==
  /\ Running /\ pc = "options"
  /\ \E o \in CommandLines :
       /\ pc' = IF Parse(Argv(o)).exit = "none" THEN "install" ELSE "done"
       /\ settings_' = Parse(Argv(o)).st.settings
  /\ UNCHANGED <<svr_, server, stop_flag_, signals, fault>>

\* signal(SIGINT .. SIGTERM, sigproc), signal(SIGPIPE, sigpipeproc).
InstallSignals ==
  /\ Running /\ pc = "install"
  /\ pc' = "new"
  /\ UNCHANGED <<svr_, server, stop_flag_, signals, fault,
                 settings_>>

\* svr_ = new Server(settings_.pool_size, settings_.num_threads): the
\* pointer is stored only once the constructor has returned.
NewServer ==
  /\ Running /\ pc = "new"
  /\ pc' = "start" /\ svr_' = "server" /\ server' = "live"
  /\ UNCHANGED <<stop_flag_, signals, fault, settings_>>

\* svr_->start()
StartServer ==
  /\ Running /\ pc = "start"
  /\ pc' = "run"
  /\ UNCHANGED <<svr_, server, stop_flag_, signals, fault,
                 settings_>>

\* svr_->run() returns once stop() has set stop_flag_.
RunServer ==
  /\ Running /\ pc = "run" /\ stop_flag_
  /\ pc' = "delete"
  /\ UNCHANGED <<svr_, server, stop_flag_, signals, fault,
                 settings_>>

\* delete svr_; svr_ still holds the pointer.
DeleteServer ==
  /\ Running /\ pc = "delete"
  /\ pc' = "null" /\ server' = "freed"
  /\ UNCHANGED <<svr_, stop_flag_, signals, fault, settings_>>

\* svr_ = NULL; LOG_INFO; return 0.
ClearServer ==
  /\ Running /\ pc = "null"
  /\ pc' = "done" /\ svr_' = "null"
  /\ UNCHANGED <<server, stop_flag_, signals, fault, settings_>>

Throw ==
  /\ Running /\ pc \in {"new", "start", "run"}
  /\ pc' = "done"
  /\ UNCHANGED <<svr_, server, stop_flag_, signals, fault,
                 settings_>>

\* sigproc: `if (svr_ != NULL) svr_->stop();`.  stop() on the deleted
\* server is a use after free.
Sigproc ==
  IF svr_ = "null" THEN UNCHANGED <<stop_flag_, fault>>
  ELSE IF server = "freed" THEN fault' = "use_after_free" /\ UNCHANGED stop_flag_
  ELSE stop_flag_' = TRUE /\ UNCHANGED fault

(* A termination signal.  Before signal() ran, its default action ends    *)
(* the process; after, sigproc runs, on whichever thread the kernel picks, *)
(* between two of main()'s steps.  On Windows console_ctrl_handler calls   *)
(* console_ctrl_function, which does what sigproc does.  SIGPIPE goes to   *)
(* sigpipeproc, which does nothing, and is left out.                       *)
Signal ==
  /\ Running /\ pc \notin {"done", "killed"} /\ signals < MaxSignals
  /\ signals' = signals + 1
  /\ \/ /\ pc \in {"options", "install"}
        /\ pc' = "killed"
        /\ UNCHANGED <<stop_flag_, fault>>
     \/ /\ pc \notin {"options", "install"}
        /\ Sigproc
        /\ UNCHANGED pc
  /\ UNCHANGED <<svr_, server, settings_>>

Next ==
  \/ ParseOptions \/ InstallSignals \/ NewServer \/ StartServer
  \/ RunServer \/ DeleteServer \/ ClearServer \/ Throw \/ Signal

(* main() is never preempted for good: each of its steps is weakly fair.  *)
(* Exceptions and signals are not forced.                                 *)
Fairness ==
  /\ WF_vars(ParseOptions) /\ WF_vars(InstallSignals) /\ WF_vars(NewServer)
  /\ WF_vars(StartServer) /\ WF_vars(RunServer) /\ WF_vars(DeleteServer)
  /\ WF_vars(ClearServer)

Spec == Init /\ [][Next]_vars /\ Fairness

-----------------------------------------------------------------------------
\* sigproc never calls stop() on a deleted Server.  main() deletes the
\* server before it clears svr_, but reaches that window only once run()
\* has returned, which takes a signal (after an exception main() returns
\* without deleting).  So it holds while at most one signal arrives; a
\* second one, as a user pressing Ctrl-C twice sends, breaks it.
NoStopOnDeletedServer == fault # "use_after_free"

(* Every termination signal ends the process, whenever after signal() it  *)
(* arrives: sigproc is installed to stop the server.                      *)
SignalEndsProcess == (signals > 0) ~> Ended

=============================================================================
