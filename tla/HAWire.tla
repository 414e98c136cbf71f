------------------------------- MODULE HAWire -------------------------------
(***************************************************************************)
(* The part of the XIXI HA wire format that the connection state machine  *)
(* of src/trunk/src/peer_xixi_ha.cpp depends on: which header choices are *)
(* known, how long the fixed body of each is (process_header), how long   *)
(* its extras are (process_pdu_fixed), and into which per-connection      *)
(* buffer and with how many bytes its reply is encoded (the               *)
(* process_ha_*_req_pdu_extras handlers).                                 *)
(*                                                                         *)
(* Lengths are abstract byte counts: the model keeps their relations      *)
(* (which is longer than the write limit, which equals it), not the       *)
(* numeric values of the XIXI_PDU_*_LENGTH macros.                        *)
(***************************************************************************)
EXTENDS Naturals

CONSTANTS
  HEAD_LENGTH,        \* XIXI_PDU_HEAD_LENGTH
  BODY_LENGTH,        \* choice -> XIXI_PDU_HA_*_REQ_BODY_LENGTH
  RES_LENGTH,         \* choice -> encoded length of its reply
  ERROR_RES_LENGTH,   \* XIXI_PDU_ERROR_RES_LENGTH
  UNKNOWN             \* a header choice value no case of process_header names

\* The eight XIXI_CHOICE_HA_*_REQ values process_header accepts.
HA_CHOICES == {"Present", "CreateCommittee", "AnnounceLeader", "Keepalive",
               "MutexCreate", "MutexLock", "MutexUnlock", "MutexDestroy"}

\* Requests whose reply is built by svr_ (calc_encode_size, then encoded
\* into cache_buf_); the mutex family encodes a fixed-size reply into
\* write_pdu_fixed_buffer.  Only the first group hands `this` to svr_.
SVR_CHOICES == {"Present", "CreateCommittee", "AnnounceLeader", "Keepalive"}
MUTEX_CHOICES == HA_CHOICES \ SVR_CHOICES

ASSUME
  /\ HEAD_LENGTH \in Nat \ {0}
  /\ BODY_LENGTH \in [HA_CHOICES -> Nat \ {0}]
  /\ RES_LENGTH \in [HA_CHOICES -> Nat \ {0}]
  /\ ERROR_RES_LENGTH \in Nat \ {0}
  /\ UNKNOWN \notin HA_CHOICES

\* A request on the wire, abstracted to what the decoder branches on: its
\* header choice, the extras length its fixed body declares (get_extras_size
\* or key.size + session_id.size), and whether decode_pdu_4_ha yields a PDU.
Request(extrasSizes) ==
  [choice: HA_CHOICES \cup {UNKNOWN}, extras: extrasSizes, decodable: BOOLEAN]

\* process_header: the fixed body length set into next_data_len_.
BodyLength(c) == BODY_LENGTH[c]

\* process_pdu_fixed: the extras length set into next_data_len_ by
\* PROCESS_READ_BODY_EXTRAS_SMALL; the same sum the handlers compare with
\* the bytes available and return as consumed.
ExtrasSize(r) == r.extras

\* The buffer a handler encodes its reply into.
ReplyBuffer(c) == IF c \in SVR_CHOICES THEN "cache" ELSE "fixed"

\* The number of bytes a request occupies on the wire.  After an unknown
\* choice the decoder reads no further, so only its header counts.
WireLength(r) ==
  IF r.choice \in HA_CHOICES
  THEN HEAD_LENGTH + BodyLength(r.choice) + ExtrasSize(r)
  ELSE HEAD_LENGTH
=============================================================================
