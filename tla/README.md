# TLA+ models of the xixi HA peer connection

This directory models `Peer_XIXI_HA` (`src/trunk/src/peer_xixi_ha.cpp`). That
class is the per-connection engine of the high-availability peer protocol. It
decodes a pipelined stream of binary requests that arrive in arbitrary chunks.
It answers each request through a scatter/gather write queue. It merges in
deferred replies (mutex grants) that another thread queues. And it decides,
from two counters of in-flight I/O, when the connection object may be deleted.

## The system and how its parts interact

| Part | Code | State | Operations |
|---|---|---|---|
| Wire codec | `process_header`, `process_pdu_fixed`, the `XIXI_*_Pdu` classes (not under `src/`) | none | header choice → fixed body length; fixed body → extras length; reply length |
| Connection state machine | `process()` and the eight `process_ha_*_req_pdu_extras` handlers | `state_`, `next_state_`, `next_data_len_`, `read_pdu_`, read cursor | one pass of the `while (run)` loop per state: NEW_CMD, READ_HEADER, READ_BODY_FIXED, READ_BODY_EXTRAS2, WRITE, CLOSING, CLOSED |
| Write queue | `write_one`, `write_error`, `get_tcp_write_buf` | `write_bufs_` (descriptors into `write_pdu_fixed_buffer` and `cache_buf_`) | append a reply; drain at most MAX_WRITE_IOV_COUNT iovecs and MAX_WRITE_SIZE bytes, splitting the front descriptor |
| Pending-reply queue | `dispatch_message`, the head of `get_tcp_write_buf` | `pdu_list_` | append (HA policy thread, under `lock_`); pop one into `write_pdu_fixed_buffer` when `write_bufs_` is empty |
| I/O completion tracker | `start`, `handle_read`, `handle_write`, `try_read`, `try_write`, `send_data`, `do_write`, `destroy`, `cleanup` | `rop_count_`, `wop_count_`, `socket_`, posted handlers | each completion runs `process()` and then write-else-read under `lock_`; destroy is posted when both counters are 0 |
| Read buffer | `read_buffer_` (class not under `src/`) | `read_curr_`, `read_data_size_` | filled by `async_read_some`, consumed by `process()` |

`process()` consumes a request and encodes its reply into one of the two
connection buffers, then queues a descriptor that points at it. The WRITE
pseudo-state then yields: `process()` returns, and the completion handler
calls `try_write`. `handle_write` runs `process()` again only once
`try_write` finds nothing more to send. A protocol error queues an error
reply and sets `next_state_ = CLOSING`. The next `process()` deletes the
socket (`cleanup`). Whichever handler sees `rop_count_ + wop_count_ == 0`
then posts `destroy`, which deletes the object.

`src/src/main.cpp` is the process around the server. Its option loop fills
the global `settings_`. It installs `sigproc` for the termination signals,
sets the global `svr_` to a new `Server`, then starts and runs it. Once
`run()` returns, it deletes the server and clears `svr_`. `sigproc` calls
`svr_->stop()`, which makes `run()` return. From `src/trunk/src/log.cpp`,
only `set_log_level` is modelled. The option loop calls it, and it is
`SetLogLevel` in `XixiOptions`. The rest of log.cpp only formats output.
`src/tags/xixibase-0.1/src/server.h` holds only the declaration of the
`Server` class and of `svr_`. `XixiMain` keeps what `main()` and `sigproc`
use of it: the object's lifetime (`ServerLifetimes`) and its `stop_flag_`.

## Modules

* `HAWire.tla` models the codec facts that the state machine branches on:
  * the eight known choices (`HA_CHOICES`), and which four hand `this` to
    `svr_` and reply through `cache_buf_` (`SVR_CHOICES`);
  * `BodyLength` (`process_header`) and `ExtrasSize` (`process_pdu_fixed`);
  * the length each request occupies on the wire.

  Lengths are abstract constants. A request is a record
  `[choice, extras, decodable]`.
* `HAWriteQueue.tla` models the write queue:
  * a descriptor `[buf, off, len]` (`Const_Data`);
  * the drain loop of `get_tcp_write_buf` as the RECURSIVE operator
    `DrainLoop`, with its three exits and the split into `Remainder`.
    `HAPeer`'s write actions use it, and `WireIntegrity` checks the bytes
    it hands out.
* `HAPeer.tla` models one connection and the actors around it.
  * The whole object is one record `peer` whose fields are the C++ members.
  * `process()` is the RECURSIVE operator `Process` over `ProcessStep`, one
    case per state. Each helper keeps its C++ name: `ProcessHeader`,
    `ReadBodyFixed`, `ProcessPduFixed`, `ProcessPduExtras2`, `WriteOne`,
    `WriteErrorThenClose`, `ResetForNewCmd`, `GetTcpWriteBuf`, `TryWrite`,
    `TryRead`, `DestroyIfIdle`, `AfterWrite`.
  * Every handler runs under `lock_` and is one action that computes the
    whole handler: `Start`, `HandleReadOk`, `HandleReadError`,
    `HandleWriteOk`, `HandleWriteError`, `DoWrite`, `SendData`,
    `DispatchMessage`, `Destroy`.
  * `RunOnFreed` is what the io_service does when an operation or a posted
    handler is still pending after `destroy`: the handler runs on freed
    memory.
  * Bytes are tokens `<<rid, k>>`, byte k of the reply to request rid (or of
    grant -rid). `peer.mem` holds the two connection buffers.
  * An async_write delivers either the bytes its iovecs pointed at when it
    was issued or what those bytes hold when it completes. A buffer
    re-encoded in between is a data race, and both outcomes are allowed.
  * The ghost `peer.log` records which reply was queued, and in which order.
  * Undefined behaviour ends a behaviour with a `fault`: `null_deref` for
    `socket_->...` on the NULL socket, `use_after_free` for `RunOnFreed`, and
    `hang` for the spinning CLOSED case.
  * `start()` takes no lock. Its unlocked `try_write`/`try_read` tail is
    therefore the separate action `StartTail`, and `DispatchMessage` may run
    between `Start` and `StartTail`.
* `HAPeerService.tla` is the abstract connection. It has:
  * the replies queued (`replies`) and the reply bytes the remote has
    received (`sent`);
  * the grants dispatched, whether the socket is open, and whether an I/O
    error aborted the connection.

  A `Serve` step queues a few replies in order and sends some more of
  their bytes. The socket closes only once everything is sent, unless the
  connection was aborted. `Flushed` says that everything queued is
  eventually sent. `HAPeer` instantiates it as `Service` with `peer.log`,
  `wire`, `grants`, `peer.socket` and `ioError`. `ServiceSpec ==
  Service!Spec` is checked as a property.
* `XixiOptions.tla` models the option loop of `main()`:
  * `Branches` lists the `if`/`else if` tests in order, and `Branch` picks
    the first arm that matches. `cmdcmp` compares exactly, and an arm
    that takes a value needs `i + 1 < argc`.
  * `Option` is one iteration of the loop, and `ParseFrom` is the loop as
    a RECURSIVE operator.
  * `atoi`/`atof` are tables over the model's tokens. `IntTimes1024` is the
    32-bit wrap of `atoi * 1024`.
  * `Documented` folds, with `FoldLeft`, the meaning `print_usage` gives
    each option over a list of options.
* `XixiMain.tla` models `main()`'s life. Its steps are `ParseOptions` (which
  uses `Parse`), `InstallSignals`, `NewServer`, `StartServer`, `RunServer`,
  `DeleteServer`, `ClearServer` and `Throw` (the `catch`). `Signal` runs
  `sigproc` between any two of them, or kills the process before `signal()`
  has run.
* `MCHAPeer.tla`, `MCXixiOptions.tla` and
  `MCXixiMain.tla` give the constants their model
  values and the request streams the remote may send.

## Runs

| Run | cfg | Expect | Checks |
|---|---|---|---|
| peer_core | `MCHAPeer_core.cfg` | pass | `TypeOK`, `WireIntegrity` (the wire is a prefix of the queued replies' bytes), `RepliesInOrder`, `NoUseAfterFree`, `StartTailSkipsPduList` (start's unlocked tail never reads `pdu_list_` while the policy can append to it), `EveryRequestAnswered` (liveness), `ProtocolErrorIsFinal` (after the error reply nothing further is decoded or consumed), `ErrorReplyBeforeClose` (the socket is deleted only after the error reply is on the wire), `ServiceSpec` (refinement) on pipelines of up to three well-formed requests, a malformed request after a good one, every read split, three deferred grants, read and write errors |
| peer_send_data | `MCHAPeer_send_data.cfg` | pass | `ReleasedAfterError`: once a read or a write has failed, the connection is eventually deleted, also when `send_data` has started a write while a read is pending, so the error hits one of two operations in flight |
| grant_starvation | `MCHAPeer_grant_starvation.cfg` | violation | `GrantEventuallySent` |
| empty_extras_stall | `MCHAPeer_empty_extras.cfg` | violation | `EveryRequestAnswered` when a request has empty extras |
| close_null_deref | `MCHAPeer_close_null_deref.cfg` | violation | `NoNullSocketDeref` after a protocol error |
| send_data_buffer_race | `MCHAPeer_send_data_race.cfg` | violation | `WireIntegrity` with `send_data` |
| closed_spin | `MCHAPeer_closed_spin.cfg` | violation | `NoSpinAfterClose`: no `process()` on a CLOSED peer |
| cli_options | `MCXixiOptions.cfg` | pass | `OptionsAsDocumented`: on every command line of up to two options, plus one option left without its argument, the loop ends with the settings, log level and exit status `print_usage` promises |
| cli_usage_divergence | `MCXixiOptions_usage.cfg` | violation | `OptionsAsDocumented` when `-c 4`, `-I 4194305`, `-M` and `-d` join the options; each alone is a violating command line |
| main_lifecycle | `MCXixiMain.cfg` | pass | `NoStopOnDeletedServer` with one signal, at any point: `sigproc` never calls `stop()` on a deleted server |
| signal_after_delete | `MCXixiMain_use_after_free.cfg` | violation | `NoStopOnDeletedServer` |
| signal_before_server | `MCXixiMain_lost_signal.cfg` | violation | `SignalEndsProcess` (every signal after `signal()` ends the process) |

What the violations show (details in `PROJECT.json`, "findings"):

1. **Every close path dereferences NULL.** The CLOSING case runs `cleanup()`,
   which deletes `socket_` and sets it to NULL. The same handler then posts
   `destroy` through `socket_->get_io_service()` (lines 682, 720, 752).
2. **A request with empty extras stalls the pipeline.** The handler replies
   and returns 0, which `process()` reads as "need more input". The next
   `handle_write` only turns WRITE into NEW_CMD, and the peer reads while a
   complete request is already buffered.
3. **Deferred grants starve.** `dispatch_message` does not wake the writer,
   because its `send_data()` call is commented out. The spec promises that
   grants are not starved.
4. **`send_data` races the read path.** `do_write` starts a write while a read
   is in flight. The read's `process()` then re-encodes a buffer that the
   write still points at, and the remote receives a torn reply. Nothing under
   `src/` calls `send_data` today, so this bug is latent.
5. **A late write completion spins on a closed peer.** With a write (started
   by `do_write`) and a read both pending, the read's `process()` runs
   CLOSING and `cleanup()` and reaches CLOSED. The write has already
   completed, so `handle_write` runs with no error, `try_write` finds
   nothing, and `process()` runs on the CLOSED peer. The CLOSED case only
   `break`s, `run` stays true, and the thread spins under `lock_` (line
   260). `handle_write` looks at `is_closed()` only after `process()`.
6. **`-d` is ignored.** `print_usage` says it runs the server as a daemon;
   its assignment `do_daemonize = true` is commented out (main.cpp:129).
7. **A signal after `delete svr_` calls `stop()` on freed memory**, and **a
   signal before `svr_` is assigned is lost** (signal_after_delete,
   signal_before_server).

Every property of a pass run has a mutant in `PROJECT.json`: a plausible slip
in the mapped code that TLC then catches. The mutants are:

* `get_tcp_write_buf` pops a grant while replies are still queued;
* `write_one` does not set WRITE;
* a handler replies before its extras are buffered;
* destroy is posted without the counter check;
* `handle_write` skips `process()`, or runs it while its own next write is
  still in flight;
* `next_state_ = CLOSING` is dropped after `write_error`;
* a `svr_` handler waits for its grant without queuing a reply, so start's
  unlocked tail reaches `pdu_list_`;
* `handle_read`'s error path leaves `rop_count_` as it was (checked in
  peer_send_data);
* the split remainder's pointer is not advanced (caught by `ServiceSpec`);
* `-f` keeps a factor of exactly 1.0;
* the `catch` deletes the server before clearing `svr_`, as the normal exit
  does, which opens the window for a single signal.

## Bounds and why they are enough

* Lengths: HEAD = BODY = 1, and replies are 3 (`svr_` kinds), 2 (MutexLock
  and grants) or 1 (other mutex replies and the error reply).
  MAX_WRITE_SIZE = 2 and MAX_WRITE_IOV_COUNT = 2. Together these produce
  a reply split across writes and a reply that fits exactly. Whether the
  iovec limit is reached is not asserted: replies are queued one at a time
  behind the WRITE yield.
* READ_BUF_SIZE = 4 is smaller than a stream of two requests (up to 7
  bytes). Reads therefore split requests at every offset, and `start` is
  given data that does not fit. BUF_LEN = 3 holds the longest reply.
* Streams: two pipelined requests are the least needed for cross-request
  interference (buffer reuse, ordering, stalls). The protocol-error streams
  put a good request before the bad one, so that a reply is still unflushed
  when the error arrives.
* The core run uses pipelines of three requests (`LongStreams`, every
  mix of the three reply lengths in first and second place), so that a
  reply is queued while two more requests are buffered. It allows three
  grants, one per request, so that grants queue behind each other and
  behind a split reply (7 203 distinct states with two grants, 12 216
  with three).
* MaxGrants = 1 or 3 and MaxSendData = 0, 1 or 2 bound the environment
  threads. One `send_data` is enough to have a write and a read in flight
  together (closed_spin); peer_send_data allows two.
* The options are checked on every list of up to two options from a set
  that covers each arm and each range check at its edges:
  * `-f 1` and `-f 1.5`;
  * `-I 1`, `131072`, `131073` and `2097152`, which is the first value
    whose product wraps;
  * `-n 0`, `-t -1`, and a level out of range;
  * an unknown flag, and a flag left without its argument.

  TLC integers are 32-bit, so `maxbytes` is kept in megabytes, and the
  negative `-m` (uint64 wrap) is not checked.
* One signal in main_lifecycle, where the property holds; two in the
  runs that look for the windows: the second is what reaches `main()`
  after `run()` returned (Ctrl-C pressed twice).

Each pass run finishes in seconds, with between 109 and 18 760 distinct
states.

## Fairness

Weak fairness is assumed for the following, and nothing else:

* `Start`;
* a pending read that can complete with bytes the remote has sent;
* a pending write;
* a posted `do_write` or `destroy`;
* `StartTail`, which is the rest of `start()` on the same thread;
* once an I/O error has happened or the socket has been deleted
  (`Aborted`), the completion with an error of a pending read or write.
  The remote has reset or closed the connection, or `cleanup()` deleted
  the socket, so every operation still outstanding on it fails. A
  completion that was already queued before `cleanup()` still runs without
  error, and the model lets it;
* in `XixiMain`, each step of `main()`. Signals and exceptions are not
  forced.

The io_service runs every posted handler and every completion once its
operation can complete. The remote, the server that would call
`send_data`, and the HA policy are not obliged to act. No first I/O error is
forced.

## Not modelled, and why

* `ServiceSpec` is stated over the states where no fault has happened: a
  fault ends the behaviour and the abstract connection stutters. The close
  path's NULL dereference is therefore shown by close_null_deref, not by
  the refinement.

* The codec's byte layout and integer widths are not modelled, because
  they are not under `src/`. The uint32 sum `key.size + session_id.size`
  may wrap (hazard listed).
* READ_BODY_EXTRAS and SWALLOW are not modelled, because nothing in this
  file can enter them.
* The `WAIT_FOR_ME` branch of the lock handler is not modelled: its
  `ret` is the constant 0.
* `Server::start`, `run` and `stop` are not in the repository. The model
  takes `run()` to return once `stop()` has been called.
* `print_usage`, `print_license` and the logger's output are not modelled.
  The model keeps whether `-d` asked for a daemon, which the code never
  records (finding 6).
* The session manager keeps a peer after `~Peer_XIXI_HA`, because the
  detach is commented out. The model stops `DispatchMessage` at `destroy`.
* Several connections are not modelled: they share no state in this file.
* `Server`'s accept loop, its timer and its io_service pool are declared
  in `server.h` but their code is not in the repository. So `stop()`
  while connections are open cannot be composed with `HAPeer` from the
  source.
* `LOG_PREFIX` formats into one static buffer and returns it, and
  `log_lock_` is defined beside it. Whether the `LOG_*` macros hold the
  lock around the call and the write is decided in `log.h`, which is not
  in the repository (hazard listed). `log_init` only configures
  boost.log's console sink.

## Further work

What is left depends on code that is not in the repository:
* the codec's field widths, for the uint32 sum at `:590`;
* `log.h`, for the shared `LOG_PREFIX` buffer;
* `Server::stop()`, to compose `XixiMain` with `HAPeer`.

A 64-bit `maxbytes` is beyond TLC's integers.
