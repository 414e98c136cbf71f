----------------------------- MODULE HAWriteQueue -----------------------------
(***************************************************************************)
(* The write queue of Peer_XIXI_HA: write_bufs_, a list of Const_Data      *)
(* descriptors {data, size} that point into a connection-owned buffer,    *)
(* and the scatter/gather loop of get_tcp_write_buf that turns its front  *)
(* into the iovec list of one async_write, limited to MAX_WRITE_IOV_COUNT *)
(* entries and MAX_WRITE_SIZE bytes, splitting the front descriptor when  *)
(* it does not fit.                                                        *)
(*                                                                         *)
(* A data pointer is a buffer name and an offset into that buffer.        *)
(***************************************************************************)
EXTENDS Naturals, Sequences, SequencesExt

CONSTANTS
  MAX_WRITE_IOV_COUNT,
  MAX_WRITE_SIZE,
  BUFFERS             \* the buffers a descriptor may point into

ASSUME MAX_WRITE_IOV_COUNT \in Nat \ {0} /\ MAX_WRITE_SIZE \in Nat \ {0}

\* Const_Data: data is (buf, off), size is len.
Descriptors(maxOff, maxLen) == [buf: BUFFERS, off: 0..maxOff, len: 0..maxLen]

\* Mutant: the remainder keeps the old data pointer.
RemainderNoAdvance(sd, n) == [sd EXCEPT !.len = @ - n]

\* The rest of a descriptor of which the first n bytes were taken
\* (sd1.data = sd.data + max_size; sd1.size = sd.size - max_size).
Remainder(sd, n) == [sd EXCEPT !.off = @ + n, !.len = @ - n]

\* The while loop of get_tcp_write_buf, one descriptor per call: a
\* descriptor shorter than the room left is taken whole and the loop goes
\* on; a longer one is split and its remainder replaces it at the front;
\* one that fills the room exactly is taken whole; the last two end it.
RECURSIVE DrainLoop(_, _, _, _, _)
DrainLoop(bufs, iovs, size, maxCount, maxSize) ==
  IF bufs = <<>> \/ maxCount = 0
  THEN [iovs |-> iovs, rest |-> bufs, size |-> size]
  ELSE LET sd == Head(bufs) IN
       CASE maxSize > sd.len ->
              DrainLoop(Tail(bufs), Append(iovs, sd), size + sd.len,
                        maxCount - 1, maxSize - sd.len)
         [] maxSize < sd.len ->
              [iovs |-> Append(iovs, [sd EXCEPT !.len = maxSize]),
               rest |-> <<Remainder(sd, maxSize)>> \o Tail(bufs),
               size |-> size + maxSize]
         [] OTHER ->
              [iovs |-> Append(iovs, sd), rest |-> Tail(bufs),
               size |-> size + sd.len]

\* get_tcp_write_buf from its first descriptor on.
Drain(bufs) == DrainLoop(bufs, <<>>, 0, MAX_WRITE_IOV_COUNT, MAX_WRITE_SIZE)

=============================================================================
