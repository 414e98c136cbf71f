---------------------------- MODULE HAPeerService ----------------------------
(***************************************************************************)
(* What one HA peer connection promises, without the decode loop, the two  *)
(* buffers or the I/O counters: requests are answered once each in the     *)
(* order they arrived, deferred grants are written in the order they were  *)
(* dispatched and only after dispatch, the remote receives a prefix of the *)
(* queued replies' bytes that only grows, nothing is queued or sent once   *)
(* the socket is gone, and the socket goes away only after everything      *)
(* queued was sent, unless an I/O error cut the connection.                *)
(*                                                                         *)
(* A reply is <<rid, len>>: len bytes answering request rid (rid > 0) or   *)
(* carrying grant -rid.  One handler may queue a few replies and send some *)
(* bytes at once, so a step queues at most MaxBatch replies and sends at   *)
(* most MaxChunk bytes.                                                    *)
(***************************************************************************)
EXTENDS Integers, Sequences, SequencesExt

CONSTANTS
  RequestIds,     \* the positions of requests in the remote's stream
  GrantIds,       \* the deferred grants the HA policy may dispatch
  ReplyLengths,   \* the byte lengths a reply may have
  MaxBatch,       \* replies one handler may queue
  MaxChunk        \* bytes one handler may see written

VARIABLES
  replies,        \* replies queued, in order
  sent,           \* reply bytes the remote has received
  dispatched,     \* grants handed to the connection
  open,           \* the socket exists
  aborted         \* an I/O error has been seen

avars == <<replies, sent, dispatched, open, aborted>>

Entries == ({r : r \in RequestIds} \cup {-g : g \in GrantIds}) \X ReplyLengths

\* The bytes the queued replies put on the wire, in order.
Expected(rs) == FlattenSeq([i \in 1..Len(rs) |->
                              [k \in 1..rs[i][2] |-> <<rs[i][1], k - 1>>]])

\* Request answers are 1, 2, ... and grants -1, -2, ... up to `dispatched`,
\* each subsequence in its own order.
InOrder(rs, d) ==
  LET answers == SelectSeq([i \in 1..Len(rs) |-> rs[i][1]], LAMBDA r : r > 0)
      flushed == SelectSeq([i \in 1..Len(rs) |-> rs[i][1]], LAMBDA r : r < 0)
  IN /\ answers = [i \in 1..Len(answers) |-> i]
     /\ flushed = [i \in 1..Len(flushed) |-> -i]
     /\ Len(flushed) <= d

Init ==
  /\ replies = <<>>
  /\ sent = <<>>
  /\ dispatched = 0
  /\ open = TRUE
  /\ aborted = FALSE

\* The HA policy hands over a grant.
Dispatch ==
  /\ dispatched' \in GrantIds /\ dispatched' = dispatched + 1
  /\ UNCHANGED <<replies, sent, open, aborted>>

\* A read or a write fails.
Abort ==
  /\ ~aborted /\ aborted' = TRUE
  /\ UNCHANGED <<replies, sent, dispatched, open>>

\* The socket is deleted; unless the connection was aborted, only once
\* every queued byte is on the wire.
Close(rs, s) == aborted \/ s = Expected(rs)

\* A completion handler on an open socket: queue a few replies in order,
\* have some more queued bytes reach the remote, maybe close the socket.
Serve ==
  /\ open
  /\ \E new \in BoundedSeq(Entries, MaxBatch), k \in 0..MaxChunk :
       /\ replies' = replies \o new
       /\ InOrder(replies', dispatched)
       /\ Len(sent) + k <= Len(Expected(replies'))
       /\ sent' = sent \o SubSeq(Expected(replies'), Len(sent) + 1, Len(sent) + k)
  /\ open' \in {TRUE, FALSE}
  /\ ~open' => Close(replies', sent')
  /\ UNCHANGED <<dispatched, aborted>>

\* The object is deleted with the socket still set.
Teardown ==
  /\ open /\ ~open'
  /\ Close(replies, sent)
  /\ UNCHANGED <<replies, sent, dispatched, aborted>>

Next == Dispatch \/ Abort \/ Serve \/ Teardown

(* Everything queued reaches the remote in the end, unless an I/O error   *)
(* cut the connection.                                                    *)
Flushed == <>[](aborted \/ sent = Expected(replies))

Spec == Init /\ [][Next]_avars /\ Flushed
=============================================================================
