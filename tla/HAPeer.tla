------------------------------- MODULE HAPeer -------------------------------
(***************************************************************************)
(* One HA peer connection, Peer_XIXI_HA of src/trunk/src/peer_xixi_ha.cpp, *)
(* with the actors around it: the remote peer that sends a stream of       *)
(* requests and reads the replies, the io_service threads that run the     *)
(* completion handlers and the posted do_write/destroy, and the HA policy  *)
(* (svr_) that appends deferred replies with dispatch_message and may call *)
(* send_data.                                                              *)
(*                                                                         *)
(* The fields of the Peer_XIXI_HA object are one record, `peer`.  Every    *)
(* handler runs under lock_, so each is one atomic action that computes    *)
(* the whole handler body: process() (the decode loop, a RECURSIVE         *)
(* operator), handle_processed, try_write/try_read and the destroy check.  *)
(*                                                                         *)
(* Bytes are abstract.  A reply byte is <<rid, k>>: byte k of the reply to *)
(* request rid (rid > 0) or of deferred grant -rid.  The remote's stream   *)
(* is a sequence of requests (HAWire!Request); read_curr_ and read_end are *)
(* byte offsets into it.                                                   *)
(***************************************************************************)
EXTENDS HAWire, HAWriteQueue, Integers

CONSTANTS
  BUF_LEN,        \* bytes of write_pdu_fixed_buffer and of cache_buf_
  READ_BUF_SIZE,  \* room of read_buffer_ (get_read_buf_size when empty)
  Streams,        \* the request streams the remote peer may send
  MaxGrants,      \* bound: dispatch_message calls
  MaxSendData     \* bound: send_data calls

ASSUME
  /\ BUFFERS = {"fixed", "cache"}
  /\ \A c \in HA_CHOICES : RES_LENGTH[c] <= BUF_LEN
  /\ ERROR_RES_LENGTH <= BUF_LEN
  /\ READ_BUF_SIZE \in Nat \ {0}
  /\ MaxGrants \in Nat /\ MaxSendData \in Nat

\* peer_state
NEW_CMD == "NEW_CMD"
READ_HEADER == "READ_HEADER"
READ_BODY_FIXED == "READ_BODY_FIXED"
READ_BODY_EXTRAS2 == "READ_BODY_EXTRAS2"
WRITE == "WRITE"
CLOSING == "CLOSING"
CLOSED == "CLOSED"
States == {NEW_CMD, READ_HEADER, READ_BODY_FIXED, READ_BODY_EXTRAS2, WRITE,
           CLOSING, CLOSED}

\* Outcomes of undefined behaviour that end the process or the connection.
Faults == {"none", "null_deref", "use_after_free", "hang"}

NoByte == <<0, 0>>   \* buffer bytes never written

VARIABLES
  stream,         \* the requests the remote sends, fixed per behaviour
  peer,           \* the Peer_XIXI_HA object
  wire,           \* reply bytes the remote has received, in order
  started,        \* how far start() has got: "before", "tail" (process()
                  \* done, try_write/try_read not yet), "done"
  posted,         \* handlers posted to the io_service, not yet run
  destroyed,      \* Peer_XIXI_HA::destroy has deleted the object
  ioError,        \* a read or write completed with an error
  grants,         \* dispatch_message calls so far
  sendDataCalls   \* send_data calls so far

vars == <<stream, peer, wire, started, posted, destroyed, ioError, grants,
          sendDataCalls>>

-----------------------------------------------------------------------------
(* Stream layout *)

\* Offset just past request j in the stream.
EndOf(j) == LET RECURSIVE S(_)
                S(i) == IF i = 0 THEN 0 ELSE S(i - 1) + WireLength(stream[i])
            IN S(j)

TotalBytes == EndOf(Len(stream))

-----------------------------------------------------------------------------
(* Buffers and replies *)

\* F applied to the value of x, x computed once: the decode loop feeds each
\* pass's result to the next, and TLC would otherwise recompute it at every
\* use when it evaluates ENABLED for the fairness conditions.
Bind(x, F(_)) == CHOOSE r \in {F(v) : v \in {x}} : TRUE

\* read_buffer_.read_data_size_
DataSize(p) == p.read_end - p.read_curr

\* XIXI_*_Res_Pdu::encode(buf, ...): the first len bytes of buffer b now
\* hold reply rid; the bytes after them keep what they held.
Encode(mem, b, rid, len) ==
  [mem EXCEPT ![b] = [k \in 0..BUF_LEN - 1 |-> IF k < len THEN <<rid, k>>
                                                ELSE @[k]]]

\* The bytes an iovec list points at, read from mem.
IovBytes(mem, iovs) ==
  FlattenSeq([i \in 1..Len(iovs) |->
                [k \in 1..iovs[i].len |-> mem[iovs[i].buf][iovs[i].off + k - 1]]])

\* The bytes of one queued reply <<rid, len>>, as its encoder wrote them.
ReplyBytes(e) == [k \in 1..e[2] |-> <<e[1], k - 1>>]

\* The byte stream the replies in log should put on the wire.
ExpectedBytes(log) == FlattenSeq([i \in 1..Len(log) |-> ReplyBytes(log[i])])

\* Mutant: write_one leaves state_ alone.
WriteOneNoState(p, b, rid, len) ==
  [p EXCEPT !.mem = Encode(@, b, rid, len),
            !.write_bufs = Append(@, [buf |-> b, off |-> 0, len |-> len]),
            !.log = Append(@, <<rid, len>>),
            !.next_state = NEW_CMD]

\* write_one(buf, length) / write_one(length), after the encode that precedes
\* each: queue a descriptor to the reply and yield to the writer.  The log
\* entry records which reply was queued (history only).
WriteOne(p, b, rid, len) ==
  [p EXCEPT !.mem = Encode(@, b, rid, len),
            !.write_bufs = Append(@, [buf |-> b, off |-> 0, len |-> len]),
            !.log = Append(@, <<rid, len>>),
            !.state = WRITE,
            !.next_state = NEW_CMD]

\* Mutant: the caller does not set next_state_ to CLOSING.
WriteErrorNoClose(p, rid) == WriteOne(p, "fixed", rid, ERROR_RES_LENGTH)

\* write_error(XIXI_REASON_UNKNOWN_COMMAND, 0, true): the error reply goes
\* into write_pdu_fixed_buffer; both callers then set next_state_ to
\* CLOSING.  (No call in this file passes swallow > 0 or reply = false.)
WriteErrorThenClose(p, rid) ==
  [WriteOne(p, "fixed", rid, ERROR_RES_LENGTH) EXCEPT !.next_state = CLOSING]

-----------------------------------------------------------------------------
(* process(): one iteration of the while (run) loop per state *)

\* reset_for_new_cmd
ResetForNewCmd(p) ==
  [p EXCEPT !.read_pdu = 0, !.next_data_len = HEAD_LENGTH, !.state = READ_HEADER]

\* process_header, and the caller's advance of read_curr_ by what it returns.
ProcessHeader(p) ==
  LET j == p.choice + 1
      c == stream[j].choice
      q == [p EXCEPT !.choice = j, !.read_curr = @ + HEAD_LENGTH]
  IN IF c \in HA_CHOICES
     THEN [q EXCEPT !.next_data_len = BodyLength(c), !.state = READ_BODY_FIXED]
     ELSE WriteErrorThenClose(q, j)

\* XIXI_Pdu::decode_pdu_4_ha: the request PDU, or NULL (0) if the fixed
\* body does not decode.
DecodePdu4Ha(p) == IF stream[p.choice].decodable THEN p.choice ELSE 0

\* process_pdu_fixed: PROCESS_READ_BODY_EXTRAS_SMALL(extras size).
ProcessPduFixed(p) ==
  [p EXCEPT !.next_data_len = ExtrasSize(stream[p.choice]),
            !.state = READ_BODY_EXTRAS2]

\* The READ_BODY_FIXED case of process().
ReadBodyFixed(p) ==
  LET q == [p EXCEPT !.read_pdu = DecodePdu4Ha(p),
                     !.read_curr = @ + p.next_data_len]
  IN IF q.read_pdu # 0 THEN ProcessPduFixed(q)
                       ELSE WriteErrorThenClose(q, p.choice)

\* Mutant: a handler that does not wait for its extras.
ProcessPduExtras2NoWait(p) ==
  LET r == stream[p.choice]
  IN [peer |-> WriteOne(p, ReplyBuffer(r.choice), p.choice, RES_LENGTH[r.choice]),
      consumed |-> ExtrasSize(r)]

\* Mutant: the svr_ handlers take the WAIT_FOR_ME path: no reply now.
ProcessPduExtras2WaitForMe(p) ==
  LET r == stream[p.choice]
      q == [p EXCEPT !.registered = @ \/ r.choice \in SVR_CHOICES]
  IN IF DataSize(p) < ExtrasSize(r)
     THEN [peer |-> p, consumed |-> 0]
     ELSE [peer |-> IF r.choice \in SVR_CHOICES
                    THEN [q EXCEPT !.state = NEW_CMD, !.next_state = NEW_CMD]
                    ELSE WriteOne(q, ReplyBuffer(r.choice), p.choice,
                                  RES_LENGTH[r.choice]),
           consumed |-> ExtrasSize(r)]

\* process_pdu_extras2 and the eight process_ha_*_req_pdu_extras handlers:
\* all wait until the declared extras are buffered, then encode the reply
\* (svr_ fills it for the first four; the mutex family always answers with
\* reason 0, so the WAIT_FOR_ME branch of the lock handler is never taken)
\* and return the extras size as the bytes consumed.  The first four pass
\* `this` to svr_, which from then on may call dispatch_message.
ProcessPduExtras2(p) ==
  LET r == stream[p.choice]
      q == [p EXCEPT !.registered = @ \/ r.choice \in SVR_CHOICES]
  IN IF DataSize(p) < ExtrasSize(r)
     THEN [peer |-> p, consumed |-> 0]
     ELSE [peer |-> WriteOne(q, ReplyBuffer(r.choice), p.choice,
                             RES_LENGTH[r.choice]),
           consumed |-> ExtrasSize(r)]

\* Mutant: cleanup() leaves socket_ in place.
CleanupKeepSocket(p) == p

\* cleanup(): delete socket_ and set it to NULL.  Deleting the socket
\* aborts its pending operations: they complete with an error.
Cleanup(p) == [p EXCEPT !.socket = FALSE]

\* One pass of the loop: the new object and whether the loop goes on.
ProcessStep(p) ==
  CASE p.state = NEW_CMD ->
         [peer |-> ResetForNewCmd(p), run |-> TRUE]
    [] p.state = READ_HEADER ->
         IF DataSize(p) >= HEAD_LENGTH
         THEN [peer |-> ProcessHeader(p), run |-> TRUE]
         ELSE [peer |-> p, run |-> FALSE]
    [] p.state = READ_BODY_FIXED ->
         IF DataSize(p) >= p.next_data_len
         THEN [peer |-> ReadBodyFixed(p), run |-> TRUE]
         ELSE [peer |-> p, run |-> FALSE]
    [] p.state = READ_BODY_EXTRAS2 ->
         LET x == ProcessPduExtras2(p)
         IN IF x.consumed > 0
            THEN [peer |-> [x.peer EXCEPT !.read_curr = @ + x.consumed],
                  run |-> TRUE]
            ELSE [peer |-> x.peer, run |-> FALSE]
    [] p.state = WRITE ->
         [peer |-> [p EXCEPT !.state = p.next_state, !.next_state = NEW_CMD],
          run |-> FALSE]
    [] p.state = CLOSING ->
         [peer |-> [Cleanup(p) EXCEPT !.state = CLOSED],
          run |-> FALSE]
    [] p.state = CLOSED ->    \* `break` leaves run true: the loop spins
         [peer |-> [p EXCEPT !.fault = "hang"], run |-> FALSE]

\* process(): loop until a pass clears run.
RECURSIVE Process(_)
Process(p) ==
  Bind(ProcessStep(p), LAMBDA s : IF s.run THEN Process(s.peer) ELSE s.peer)

-----------------------------------------------------------------------------
(* The write side and the read side *)

\* Mutant: a deferred reply is encoded into write_pdu_fixed_buffer even
\* while write_bufs_ still holds descriptors.
GetTcpWriteBufAnyQueue(p) ==
  LET q == IF p.pdu_list # <<>>
           THEN LET g == Head(p.pdu_list)
                    len == RES_LENGTH["MutexLock"]
                IN [p EXCEPT !.mem = Encode(@, "fixed", -g, len),
                             !.pdu_list = Tail(@),
                             !.write_bufs = Append(@, [buf |-> "fixed", off |-> 0,
                                                       len |-> len]),
                             !.log = Append(@, <<-g, len>>)]
           ELSE p
      d == Drain(q.write_bufs)
  IN [peer |-> [q EXCEPT !.write_bufs = d.rest], iovs |-> d.iovs, size |-> d.size]

\* get_tcp_write_buf: with nothing queued, one deferred reply from
\* pdu_list_ is encoded into write_pdu_fixed_buffer and queued (its length
\* is XIXI_PDU_MUTEX_LOCK_RES_LENGTH); then the queue front is drained.
GetTcpWriteBuf(p) ==
  LET q == IF p.write_bufs = <<>> /\ p.pdu_list # <<>>
           THEN LET g == Head(p.pdu_list)
                    len == RES_LENGTH["MutexLock"]
                IN [p EXCEPT !.mem = Encode(@, "fixed", -g, len),
                             !.pdu_list = Tail(@),
                             !.write_bufs = Append(@, [buf |-> "fixed", off |-> 0,
                                                       len |-> len]),
                             !.log = Append(@, <<-g, len>>)]
           ELSE p
      d == Drain(q.write_bufs)
  IN [peer |-> [q EXCEPT !.write_bufs = d.rest], iovs |-> d.iovs, size |-> d.size]

\* try_write: with no write in flight, start an async_write of what
\* get_tcp_write_buf returns, if anything.  The bytes the buffers hold at
\* issue are kept: the write may send them or what the buffers hold later.
\* async_write(*socket_, ...) with socket_ NULL dereferences it.
TryWrite(p) ==
  IF p.wop_count = 0
  THEN Bind(GetTcpWriteBuf(p), LAMBDA g :
         IF g.size > 0
         THEN [peer |-> [g.peer EXCEPT !.wop_count = 1, !.write_buf = g.iovs,
                                       !.write_snap = IovBytes(g.peer.mem, g.iovs),
                                       !.fault = IF p.socket THEN @ ELSE "null_deref"],
               size |-> g.size]
         ELSE [peer |-> g.peer, size |-> 0])
  ELSE [peer |-> p, size |-> 0]

\* try_read: with no read in flight, start an async_read_some.
TryRead(p) ==
  IF p.rop_count = 0
  THEN [p EXCEPT !.rop_count = 1,
                 !.fault = IF p.socket THEN @ ELSE "null_deref"]
  ELSE p

\* is_closed()
IsClosed(p) == p.state = CLOSED

\* The tail shared by start, handle_read and handle_write after process()
\* and handle_processed: unless closed, write if there is anything to
\* write, otherwise read.
WriteElseRead(p) ==
  IF IsClosed(p) THEN p
  ELSE Bind(TryWrite(p), LAMBDA w : IF w.size = 0 THEN TryRead(w.peer) ELSE w.peer)

\* socket_->get_io_service().post(boost::bind(&Peer_XIXI_HA::destroy, this)):
\* the object after the post (faulted if socket_ is NULL) and the new
\* count of posted destroys.  A handler that faulted earlier (a spin in
\* process()) never gets here.
PostDestroy(p) ==
  CASE p.fault # "none" -> [peer |-> p, destroys |-> posted.destroy]
    [] p.socket -> [peer |-> p, destroys |-> posted.destroy + 1]
    [] OTHER -> [peer |-> [p EXCEPT !.fault = "null_deref"],
                 destroys |-> posted.destroy]

\* Mutant: destroy posted without looking at the operation counts.
DestroyIfIdleAlways(p) == PostDestroy(p)

\* The `if (rop_count_ + wop_count_ == 0)` tail of both completion handlers.
DestroyIfIdle(p) ==
  IF p.rop_count + p.wop_count = 0 THEN PostDestroy(p)
  ELSE [peer |-> p, destroys |-> posted.destroy]

\* Mutant: handle_write does not run process() once the queue is flushed.
AfterWriteNoProcess(w) == IF w.size = 0 THEN WriteElseRead(w.peer) ELSE w.peer

\* Mutant: handle_write runs process() even while its next write is in flight.
AfterWriteAlwaysProcess(w) == WriteElseRead(Process(w.peer))

\* The body of handle_write after its own try_write returned w: only when
\* nothing was left to write, process() and then write or read.
AfterWrite(w) == IF w.size = 0 THEN WriteElseRead(Process(w.peer)) ELSE w.peer

\* Bytes one async_read_some can complete with: at least one of those the
\* remote has sent and not yet delivered, at most the room left in the read
\* buffer; with no room the read completes at once with none.
ReadSizes(p) ==
  LET room == READ_BUF_SIZE - DataSize(p)
      left == TotalBytes - p.read_end
  IN IF room = 0 THEN {0} ELSE 1..(IF left < room THEN left ELSE room)

\* A request handed to svr_ gave the HA policy a pointer to this peer,
\* which it may later pass to dispatch_message.
Registered(p) == p.registered

-----------------------------------------------------------------------------
(* Actions *)

Init ==
  /\ stream \in Streams
  /\ peer = [state |-> NEW_CMD, next_state |-> NEW_CMD,
             next_data_len |-> HEAD_LENGTH, choice |-> 0, read_pdu |-> 0,
             read_curr |-> 0, read_end |-> 0,
             write_bufs |-> <<>>, pdu_list |-> <<>>,
             mem |-> [b \in BUFFERS |-> [k \in 0..BUF_LEN - 1 |-> NoByte]],
             rop_count |-> 0, wop_count |-> 0,
             write_buf |-> <<>>, write_snap |-> <<>>,
             socket |-> TRUE, registered |-> FALSE, log |-> <<>>,
             fault |-> "none"]
  /\ wire = <<>>
  /\ started = "before"
  /\ posted = [destroy |-> 0, do_write |-> 0]
  /\ destroyed = FALSE
  /\ ioError = FALSE
  /\ grants = 0
  /\ sendDataCalls = 0

\* No fault has ended the process or wedged the connection under lock_.
Alive == peer.fault = "none"

\* start(data, data_length): the server hands over the first n bytes it
\* read.  They are processed if they fit the read buffer; otherwise, or if
\* processing closed the peer, destroy is posted.  start takes no lock, so
\* its try_write/try_read (StartTail) is a step of its own: the HA policy,
\* which process() may already have handed `this`, can run in between.
Start(n) ==
  /\ Alive /\ started = "before"
  /\ \E d \in { IF n <= READ_BUF_SIZE
                 THEN Bind(Process([peer EXCEPT !.read_end = n]), LAMBDA p :
                        IF IsClosed(p) THEN PostDestroy(p)
                        ELSE [peer |-> p, destroys |-> posted.destroy])
                 ELSE PostDestroy(peer) } :
       /\ peer' = d.peer
       /\ posted' = [posted EXCEPT !.destroy = d.destroys]
       /\ started' = IF n <= READ_BUF_SIZE /\ ~IsClosed(d.peer) THEN "tail"
                                                                 ELSE "done"
  /\ UNCHANGED <<stream, wire, destroyed, ioError, grants, sendDataCalls>>

\* The rest of start: `if (!is_closed())` try_write, else try_read.
StartTail ==
  /\ Alive /\ started = "tail"
  /\ started' = "done"
  /\ peer' = WriteElseRead(peer)
  /\ UNCHANGED <<stream, wire, posted, destroyed, ioError, grants, sendDataCalls>>

\* handle_read without error: n more bytes in the read buffer, process,
\* write or read again, destroy if nothing is in flight.  socket_ may be
\* gone: a read that completed before another handler's cleanup() had its
\* handler queued, waiting for lock_, and it still runs with !err.
HandleReadOk(n) ==
  /\ Alive /\ started = "done" /\ ~destroyed
  /\ peer.rop_count = 1
  /\ n \in ReadSizes(peer)
  /\ \E p \in {Process([peer EXCEPT !.rop_count = @ - 1, !.read_end = @ + n])} :
     \E d \in {DestroyIfIdle(WriteElseRead(p))} :
       /\ peer' = d.peer
       /\ posted' = [posted EXCEPT !.destroy = d.destroys]
  /\ UNCHANGED <<stream, wire, started, destroyed, ioError, grants, sendDataCalls>>

\* Mutant: the error path of handle_read leaves rop_count_ as it was.
HandleReadErrorNoDecrement ==
  LET d == DestroyIfIdle(peer)
  IN /\ Alive /\ started = "done" /\ ~destroyed
     /\ peer.rop_count = 1
     /\ ioError' = TRUE
     /\ peer' = d.peer
     /\ posted' = [posted EXCEPT !.destroy = d.destroys]
     /\ UNCHANGED <<stream, wire, started, destroyed, grants, sendDataCalls>>

\* handle_read with an error (the remote closed or reset the connection,
\* or the socket was deleted under the read).
HandleReadError ==
  LET d == DestroyIfIdle([peer EXCEPT !.rop_count = @ - 1])
  IN /\ Alive /\ started = "done" /\ ~destroyed
     /\ peer.rop_count = 1
     /\ ioError' = TRUE
     /\ peer' = d.peer
     /\ posted' = [posted EXCEPT !.destroy = d.destroys]
     /\ UNCHANGED <<stream, wire, started, destroyed, grants, sendDataCalls>>

\* handle_write without error: the remote has the bytes of the write (as
\* the buffers held them at issue or later: they may have been re-encoded
\* meanwhile); write more, or else process and write or read; destroy if
\* nothing is in flight.  As for a read, a write that completed before
\* cleanup() still runs its handler with !err.
HandleWriteOk ==
  /\ Alive /\ started = "done" /\ ~destroyed
  /\ peer.wop_count = 1
  /\ \E sent \in {peer.write_snap, IovBytes(peer.mem, peer.write_buf)} :
       wire' = wire \o sent
  /\ \E w \in {TryWrite([peer EXCEPT !.wop_count = @ - 1, !.write_buf = <<>>,
                                      !.write_snap = <<>>])} :
     \E p \in {AfterWrite(w)} :
     \E d \in {DestroyIfIdle(p)} :
       /\ peer' = d.peer
       /\ posted' = [posted EXCEPT !.destroy = d.destroys]
  /\ UNCHANGED <<stream, started, destroyed, ioError, grants, sendDataCalls>>

\* handle_write with an error.
HandleWriteError ==
  LET d == DestroyIfIdle([peer EXCEPT !.wop_count = @ - 1, !.write_buf = <<>>,
                                      !.write_snap = <<>>])
  IN /\ Alive /\ started = "done" /\ ~destroyed
     /\ peer.wop_count = 1
     /\ ioError' = TRUE
     /\ peer' = d.peer
     /\ posted' = [posted EXCEPT !.destroy = d.destroys]
     /\ UNCHANGED <<stream, wire, started, destroyed, grants, sendDataCalls>>

\* do_write, posted by send_data: try_write under lock_.
DoWrite ==
  /\ Alive /\ ~destroyed
  /\ posted.do_write > 0
  /\ posted' = [posted EXCEPT !.do_write = @ - 1]
  /\ peer' = TryWrite(peer).peer
  /\ UNCHANGED <<stream, wire, started, destroyed, ioError, grants, sendDataCalls>>

\* send_data, called by the server: post do_write through socket_.
SendData ==
  /\ Alive /\ started = "done" /\ ~destroyed
  /\ sendDataCalls < MaxSendData
  /\ sendDataCalls' = sendDataCalls + 1
  /\ IF peer.socket
     THEN /\ posted' = [posted EXCEPT !.do_write = @ + 1]
          /\ UNCHANGED peer
     ELSE /\ peer' = [peer EXCEPT !.fault = "null_deref"]
          /\ UNCHANGED posted
  /\ UNCHANGED <<stream, wire, started, destroyed, ioError, grants>>

\* dispatch_message from the HA policy: a deferred reply (a mutex lock
\* grant) appended to pdu_list_ under lock_.  Nothing wakes the writer.
DispatchMessage ==
  /\ Alive /\ ~destroyed
  /\ Registered(peer)
  /\ grants < MaxGrants
  /\ grants' = grants + 1
  /\ peer' = [peer EXCEPT !.pdu_list = Append(@, grants + 1)]
  /\ UNCHANGED <<stream, wire, started, posted, destroyed, ioError, sendDataCalls>>

\* Peer_XIXI_HA::destroy: delete the object (the destructor's cleanup
\* deletes socket_ if it is still set).
Destroy ==
  /\ Alive /\ ~destroyed
  /\ posted.destroy > 0
  /\ posted' = [posted EXCEPT !.destroy = @ - 1]
  /\ destroyed' = TRUE
  /\ peer' = Cleanup(peer)
  /\ UNCHANGED <<stream, wire, started, ioError, grants, sendDataCalls>>

\* A completion handler, a posted do_write or a second posted destroy runs
\* on the deleted object.
RunOnFreed ==
  /\ Alive /\ destroyed
  /\ peer.rop_count + peer.wop_count + posted.do_write + posted.destroy > 0
  /\ peer' = [peer EXCEPT !.fault = "use_after_free"]
  /\ UNCHANGED <<stream, wire, started, posted, destroyed, ioError, grants,
                 sendDataCalls>>

\* The socket has failed or been deleted: pending operations fail.
Aborted == ioError \/ ~peer.socket

Next ==
  \/ \E n \in 0..TotalBytes : Start(n)
  \/ StartTail
  \/ \E n \in 0..READ_BUF_SIZE : HandleReadOk(n)
  \/ HandleReadError
  \/ HandleWriteOk
  \/ HandleWriteError
  \/ DoWrite
  \/ SendData
  \/ DispatchMessage
  \/ Destroy
  \/ RunOnFreed

(* The io_service runs every posted handler and every completion once its   *)
(* operation can complete: a started connection is started, bytes the       *)
(* remote has sent reach a pending read, a pending write completes.  The    *)
(* remote, the server calling send_data and the HA policy are not obliged   *)
(* to act, and no I/O error is forced on a healthy connection.  Once a     *)
(* read or write has failed, the connection is reset or closed by the      *)
(* remote, and once cleanup() has deleted the socket its operations are    *)
(* aborted: an operation still pending then completes, with an error       *)
(* unless it had already completed.                                        *)
Fairness ==
  /\ WF_vars(\E n \in 0..TotalBytes : Start(n))
  /\ WF_vars(StartTail)
  /\ WF_vars(\E n \in 0..READ_BUF_SIZE : HandleReadOk(n))
  /\ WF_vars(HandleWriteOk)
  /\ WF_vars(DoWrite)
  /\ WF_vars(Destroy)
  /\ WF_vars(Aborted /\ HandleReadError)
  /\ WF_vars(Aborted /\ HandleWriteError)

Spec == Init /\ [][Next]_vars /\ Fairness

-----------------------------------------------------------------------------
(* Properties *)

Descriptor == Descriptors(BUF_LEN, BUF_LEN)
Byte == (Int \X Nat)

TypeOK ==
  /\ stream \in Streams
  /\ peer.state \in States /\ peer.next_state \in States
  /\ peer.next_data_len \in Nat
  /\ peer.choice \in 0..Len(stream) /\ peer.read_pdu \in 0..Len(stream)
  /\ 0 <= peer.read_curr /\ peer.read_curr <= peer.read_end
  /\ peer.read_end <= TotalBytes
  /\ peer.write_bufs \in Seq(Descriptor) /\ peer.write_buf \in Seq(Descriptor)
  /\ peer.pdu_list \in Seq(1..MaxGrants)
  /\ peer.rop_count \in 0..1 /\ peer.wop_count \in 0..1
  /\ peer.socket \in BOOLEAN /\ peer.fault \in Faults
  /\ wire \in Seq(Byte)
  /\ posted \in [destroy: Nat, do_write: Nat]
  /\ started \in {"before", "tail", "done"}
  /\ {peer.registered, destroyed, ioError} \subseteq BOOLEAN
  /\ grants \in 0..MaxGrants /\ sendDataCalls \in 0..MaxSendData

(* The remote receives exactly the bytes of the replies in the order they  *)
(* were queued: no reply is cut short, torn by a later encode into          *)
(* write_pdu_fixed_buffer or cache_buf_, sent twice or skipped, including   *)
(* across split descriptors and deferred grants put in by get_tcp_write_buf. *)
WireIntegrity == IsPrefix(wire, ExpectedBytes(peer.log))

\* The requests answered (by a reply or an error reply), in queue order.
AnsweredRequests == SelectSeq([i \in 1..Len(peer.log) |-> peer.log[i][1]],
                              LAMBDA rid : rid > 0)

(* process() answers requests once each and in arrival order, and has     *)
(* answered every request before the one whose header it decoded last:    *)
(* no pass of the decode loop skips or repeats a handler.                  *)
RepliesInOrder ==
  /\ AnsweredRequests = [i \in 1..Len(AnsweredRequests) |-> i]
  /\ Len(AnsweredRequests) >= peer.choice - 1

(* cleanup() nulls socket_; no later path dereferences it.                *)
NoNullSocketDeref == peer.fault # "null_deref"

(* process() never runs on a CLOSED peer, where the CLOSED case leaves    *)
(* run true and the loop spins under lock_.  handle_read and handle_write  *)
(* call process() on every completion without error and look at           *)
(* is_closed() only afterwards; the code counts on an operation pending at *)
(* cleanup() completing with an error.                                     *)
NoSpinAfterClose == peer.fault # "hang"

(* Nothing runs on the object after Peer_XIXI_HA::destroy deleted it: the  *)
(* rop_count_ + wop_count_ == 0 check posts destroy only when no           *)
(* completion and no posted handler can still reach it.                    *)
NoUseAfterFree == peer.fault # "use_after_free"

\* The reply rid is queued and all its bytes are on the wire.
Delivered(rid) ==
  \E i \in 1..Len(peer.log) :
    /\ peer.log[i][1] = rid
    /\ Len(wire) >= Len(ExpectedBytes(SubSeq(peer.log, 1, i)))

\* The connection is going away: an I/O error, a protocol error that
\* sends it to CLOSING, a fault, or the object deleted.
Failed ==
  \/ ioError \/ destroyed \/ ~Alive
  \/ peer.state \in {CLOSING, CLOSED} \/ peer.next_state = CLOSING

StreamIndices == UNION {DOMAIN s : s \in Streams}

(* Every request the remote has fully sent and the read buffer has taken  *)
(* in is eventually answered on the wire, unless the connection fails:     *)
(* process() never leaves a complete request sitting in the buffer while   *)
(* the peer waits for input.                                               *)
EveryRequestAnswered ==
  \A j \in StreamIndices :
    (j <= Len(stream) /\ peer.read_end >= EndOf(j)) ~> (Delivered(j) \/ Failed)

\* A request process_header or decode_pdu_4_ha rejects.
Malformed(r) == r.choice \notin HA_CHOICES \/ ~r.decodable

(* Once a malformed request is answered the decoder stops: its error reply *)
(* is the last answer, no later header is decoded and no byte past the     *)
(* request is consumed (write_error followed by next_state_ = CLOSING in   *)
(* process_header and in the READ_BODY_FIXED case of process()).           *)
ProtocolErrorIsFinal ==
  LET A == AnsweredRequests
  IN \A i \in 1..Len(A) :
       Malformed(stream[A[i]]) =>
         /\ i = Len(A)
         /\ peer.choice = A[i]
         /\ peer.read_curr <= EndOf(A[i])

(* The socket is deleted (CLOSING -> cleanup) only after the error reply  *)
(* to the malformed request is completely on the wire, unless an I/O       *)
(* error cut the connection first: the WRITE pseudo-state yields to the    *)
(* writer and handle_write only runs process() once the queue is flushed. *)
ErrorReplyBeforeClose ==
  \A j \in 1..peer.choice :
    (Malformed(stream[j]) /\ peer.state = CLOSED) => (Delivered(j) \/ ioError)

(* start() runs without lock_ while dispatch_message, which takes lock_,  *)
(* may already be called by the HA policy that process() handed `this` to. *)
(* Between them they never touch pdu_list_ at once: while start's unlocked *)
(* try_write is still to come and the policy can reach the peer, a reply is *)
(* queued in write_bufs_, so get_tcp_write_buf's `write_bufs_.empty() &&`  *)
(* stops before it reads pdu_list_.                                        *)
StartTailSkipsPduList ==
  (started = "tail" /\ Registered(peer)) => peer.write_bufs # <<>>

-----------------------------------------------------------------------------
(* Refinement: the connection implements HAPeerService.  The queued       *)
(* replies are the log, the remote's bytes are the wire, the grants are   *)
(* the dispatch_message calls, the socket is open while socket_ is set.   *)
Service == INSTANCE HAPeerService
             WITH RequestIds <- StreamIndices, GrantIds <- 1..MaxGrants,
                  ReplyLengths <- 1..BUF_LEN, MaxBatch <- 2,
                  MaxChunk <- MAX_WRITE_SIZE,
                  replies <- peer.log, sent <- wire, dispatched <- grants,
                  open <- peer.socket, aborted <- ioError

(* Every behaviour of the connection is one of HAPeerService: replies are *)
(* queued once each in request and dispatch order and never withdrawn,   *)
(* the wire only grows along them, nothing is queued or written after     *)
(* cleanup() or destroy deleted the socket, the socket is deleted only    *)
(* after a flush unless an I/O error came first, and whatever is queued   *)
(* is eventually written.                                                 *)
ServiceSpec == Service!Spec

(* Once a read or write has failed, the connection object is eventually   *)
(* deleted: whichever completion brings rop_count_ + wop_count_ to 0 posts *)
(* destroy, so no failed connection is leaked however its read, its write *)
(* and the errors interleave.                                              *)
ReleasedAfterError == ioError ~> (destroyed \/ ~Alive)

(* Every deferred reply handed to dispatch_message eventually reaches the  *)
(* remote unless the connection fails.                                     *)
GrantEventuallySent ==
  \A g \in 1..MaxGrants : (grants >= g) ~> (Delivered(-g) \/ Failed)
=============================================================================
