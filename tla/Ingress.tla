------------------------------ MODULE Ingress ------------------------------
(***************************************************************************)
(* A client's connection on its way to the user process when the enclave   *)
(* does not terminate TLS.  The control plane accepts it and pipes it over *)
(* vsock (tcp_server, control-plane/src/main.rs); accepting it there, the  *)
(* data plane looks for a PROXY protocol header at its start               *)
(* (shared/src/server/proxy_protocol.rs) and keeps what it read beyond the *)
(* header; run_tcp_passthrough (data-plane/src/main.rs) dials the user     *)
(* process, writes the header if it is to be forwarded, and pipes.         *)
(*                                                                         *)
(* A stream is a sequence of bytes.  The header is a fixed prefix, which   *)
(* no other traffic starts with; it and the payload may be cut anywhere.   *)
(***************************************************************************)
EXTENDS Integers, Sequences, SequencesExt

CONSTANTS
    Header,     \* the bytes of the header
    Payload,    \* the bytes of the client
    Forward     \* FeatureContext's forward_proxy_protocol: the values to check

ASSUME StreamsDiffer ==
    /\ Header # <<>> /\ Payload # <<>> /\ Head(Header) # Head(Payload)
    /\ Forward \subseteq BOOLEAN
ASSUME StreamsAreSequences ==
    Header \in Seq(Range(Header)) /\ Payload \in Seq(Range(Payload))

VARIABLES
    forward,    \* whether the header is forwarded
    stage,      \* where the connection is
    wire,       \* the bytes that have not been read from the vsock
    buf,        \* the bytes that try_parse_proxy_protocol has read, or the
                \* preread buffer
    pp,         \* whether a header was found
    received    \* what the user process has received

ingressVars == <<forward, stage, wire, buf, pp, received>>

IngressTypeOK ==
    /\ forward \in BOOLEAN /\ pp \in BOOLEAN
    /\ stage \in {"none", "relayed", "parsing", "accepted", "piping", "closed"}
    /\ IsSuffix(wire, Header \o Payload)
    /\ received \in Seq(Range(Header \o Payload))
    /\ buf \in Seq(Range(Header \o Payload))

IngressInit ==
    /\ forward \in Forward
    /\ stage = "none"
    /\ wire = <<>> /\ buf = <<>> /\ received = <<>>
    /\ pp = FALSE

\* tcp_server: a load balancer puts a header before the client's bytes, or
\* does not.  Without the enclave the client is cut off.
Relay(reachable) ==
    /\ stage = "none"
    /\ \E s \in {Header \o Payload, Payload} : wire' = s
    /\ stage' = IF reachable THEN "relayed" ELSE "closed"
    /\ UNCHANGED <<forward, buf, pp, received>>

AcceptConn ==
    /\ stage = "relayed"
    /\ stage' = "parsing"
    /\ UNCHANGED <<forward, wire, buf, pp, received>>

\* Variant: what was read beyond the header is thrown away.
AcceptedWithoutBuffer(read, found) ==
    /\ stage' = "accepted"
    /\ pp' = found
    /\ buf' = IF found THEN <<>> ELSE read

\* AcceptedConn::new keeps what follows the header.
Accepted(read, found) ==
    /\ stage' = "accepted"
    /\ pp' = found
    /\ buf' = IF found THEN SubSeq(read, Len(Header) + 1, Len(read)) ELSE read

\* One read of n bytes.  The header is complete, may still become complete
\* (Incomplete and Partial read on), or is not there.
ReadChunk(n) ==
    /\ stage = "parsing"
    /\ n \in 1..Len(wire)
    /\ wire' = SubSeq(wire, n + 1, Len(wire))
    /\ LET read == buf \o SubSeq(wire, 1, n) IN
         \/ IsPrefix(Header, read) /\ Accepted(read, TRUE)
         \/ /\ IsStrictPrefix(read, Header)
            /\ buf' = read
            /\ UNCHANGED <<stage, pp>>
         \/ /\ ~IsPrefix(Header, read) /\ ~IsStrictPrefix(read, Header)
            /\ Accepted(read, FALSE)
    /\ UNCHANGED <<forward, received>>

\* The user process is dialled and gets the header if it is to.
DialUser ==
    /\ stage = "accepted"
    /\ stage' = "piping"
    /\ received' = IF pp /\ forward THEN Header ELSE <<>>
    /\ UNCHANGED <<forward, wire, buf, pp>>

\* poll_read hands out the preread buffer before it reads from the vsock.
Pipe ==
    /\ stage = "piping"
    /\ \/ /\ buf # <<>>
          /\ \E n \in 1..Len(buf) : /\ received' = received \o SubSeq(buf, 1, n)
                                    /\ buf' = SubSeq(buf, n + 1, Len(buf))
          /\ UNCHANGED wire
       \/ /\ buf = <<>> /\ wire # <<>>
          /\ \E n \in 1..Len(wire) : /\ received' = received \o SubSeq(wire, 1, n)
                                     /\ wire' = SubSeq(wire, n + 1, Len(wire))
          /\ UNCHANGED buf
    /\ UNCHANGED <<forward, stage, pp>>

\* The user process refuses, the client leaves (within the header:
\* UnexpectedEOF), or an end of a pipe closes.
CloseConn ==
    /\ stage \in {"relayed", "parsing", "accepted", "piping"}
    /\ stage' = "closed"
    /\ UNCHANGED <<forward, wire, buf, pp, received>>

-----------------------------------------------------------------------------
\* What the user process receives is the client's own bytes, none lost, none
\* twice, wherever the reads cut the stream, after the header if and only if
\* there is one and it is to be forwarded: a stream that is being piped is,
\* with what is still buffered, the whole of it.
StreamIsKept ==
    /\ IngressTypeOK
    /\ stage = "piping" =>
         received \o buf \o wire = (IF pp /\ forward THEN Header ELSE <<>>) \o Payload
=============================================================================
