------------------------------- MODULE MCHAPeer -------------------------------
(***************************************************************************)
(* Model values for HAPeer.  Lengths are chosen relative to the write      *)
(* limits: with MAX_WRITE_SIZE = 2, a Keepalive reply (3) is split across  *)
(* two writes, a MutexLock reply or grant (2) fills one write exactly and  *)
(* a MutexCreate reply or error reply (1) leaves room.                     *)
(***************************************************************************)
EXTENDS HAPeer

MCBodyLength == [c \in HA_CHOICES |-> 1]

MCResLength ==
  [c \in HA_CHOICES |-> CASE c \in SVR_CHOICES -> 3
                          [] c = "MutexLock"   -> 2
                          [] OTHER             -> 1]

\* A request of choice c with e extras bytes that decodes.
Req(c, e) == [choice |-> c, extras |-> e, decodable |-> TRUE]

\* Pipelined pairs of well-formed requests with non-empty extras.
WellFormedStreams ==
  { <<Req(a, e1), Req(b, e2)>> :
      a \in {"Keepalive", "MutexLock", "MutexCreate"},
      b \in {"Keepalive", "MutexLock"}, e1 \in {1, 2}, e2 \in {1} }

\* Three pipelined requests: two grants can fall between them, and a reply
\* can still be queued behind a split one when the third is decoded.
LongStreams ==
  { <<Req(a, 1), Req(b, 2), Req(c, 1)>> :
      a \in {"Keepalive", "MutexLock", "MutexCreate"},
      b \in {"MutexCreate", "Keepalive", "MutexLock"},
      c \in {"MutexLock", "Keepalive"} }

\* A first request whose extras are empty, then another.
EmptyExtrasStreams ==
  { <<Req(a, 0), Req(b, 1)>> : a \in {"Keepalive", "MutexLock"},
                               b \in {"MutexCreate"} }

\* A protocol error after a good request: an unknown choice, or a body
\* decode_pdu_4_ha rejects.
ProtocolErrorStreams ==
  { <<Req("Keepalive", 1), bad, Req("MutexCreate", 1)>> :
      bad \in {[choice |-> "Bogus", extras |-> 0, decodable |-> TRUE],
               [choice |-> "MutexLock", extras |-> 1, decodable |-> FALSE]} }

\* Pipelines of two and of three well-formed requests.
PipelinedStreams == WellFormedStreams \cup LongStreams

\* The core run: pipelines, and a malformed request after a good one.
CoreStreams == PipelinedStreams \cup ProtocolErrorStreams

\* Both kinds, for the runs that let send_data race the close path.
MixedStreams == WellFormedStreams \cup ProtocolErrorStreams
=============================================================================
