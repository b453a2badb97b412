------------------------------ MODULE TlsProxy ------------------------------
(***************************************************************************)
(* The control plane's proxy from the enclave to a TLS server              *)
(* (control-plane/src/tls_proxy.rs); the cert provisioner and the ACME     *)
(* servers are reached through one each.  Its loop accepts a connection,   *)
(* reads once from it, looks for the name of an allowed host in what it    *)
(* read (shared/src/server/sni.rs), resolves the name                      *)
(* (control-plane/src/dns.rs) and leaves the rest to a task of its own:    *)
(* to dial the host, to write what was read, to pipe.                      *)
(*                                                                         *)
(* The read and the resolution are awaited inside the loop, one connection *)
(* at a time, and an error of the read leaves the loop by `?': the proxy   *)
(* is gone for as long as the control plane runs, since main only joins    *)
(* it with the other servers.                                              *)
(***************************************************************************)
CONSTANTS
    Conn,       \* the connections that are made
    None        \* no connection

VARIABLES
    loop,       \* what the loop is doing
    current,    \* the connection it does it for
    link,       \* where each connection is
    hello,      \* what the first read of a connection will find
    heard       \* the connections whose ClientHello the target has got

vars == <<loop, current, link, hello, heard>>

TypeOK ==
    /\ loop \in {"accepting", "reading", "resolving", "ended"}
    /\ current \in Conn \cup {None}
    /\ link \in [Conn -> {"none", "backlog", "held", "dialling", "piped", "shut"}]
    /\ hello \in [Conn -> {"unsent", "whole", "cut", "other", "closed", "reset"}]
    /\ heard \subseteq Conn

Init ==
    /\ loop = "accepting"
    /\ current = None
    /\ link = [c \in Conn |-> "none"]
    /\ hello = [c \in Conn |-> "unsent"]
    /\ heard = {}

Listening == loop # "ended"

\* The data plane connects; the kernel queues the connection for accept.
Connect(c) ==
    /\ Listening
    /\ link[c] \in {"none", "shut"}
    /\ link' = [link EXCEPT ![c] = "backlog"]
    /\ UNCHANGED <<loop, current, hello, heard>>

\* The data plane sends its ClientHello: in one piece, in pieces of which the
\* first read finds one, or for a host that this proxy does not serve.
SendHello(c, h) ==
    /\ hello[c] = "unsent" /\ link[c] \in {"backlog", "held"}
    /\ h \in {"whole", "cut", "other"}
    /\ hello' = [hello EXCEPT ![c] = h]
    /\ UNCHANGED <<loop, current, link, heard>>

\* A connection that is over, and what is forgotten with it.
Over(c, how) ==
    /\ link' = [link EXCEPT ![c] = how]
    /\ hello' = [hello EXCEPT ![c] = "unsent"]
    /\ heard' = heard \ {c}

\* The data plane is done with the connection: pipe_streams ends.
Hangup(c) == Over(c, "none") /\ UNCHANGED <<loop, current>>

Unread(c) == link[c] \in {"backlog", "held"} /\ hello[c] = "unsent"

\* The process of the data plane dies.  A connection that has not been read
\* from is closed or reset, a pipe ends, and the loop or a task that has read
\* finds out later.
PeerDies(c) ==
    /\ \/ /\ Unread(c)
          /\ \E h \in {"closed", "reset"} : hello' = [hello EXCEPT ![c] = h]
          /\ UNCHANGED <<link, heard>>
       \/ link[c] \in {"none", "shut", "piped"} /\ Over(c, "none")
       \/ /\ ~Unread(c) /\ link[c] \in {"backlog", "held", "dialling"}
          /\ UNCHANGED <<link, hello, heard>>
    /\ UNCHANGED <<loop, current>>

-----------------------------------------------------------------------------
Accept(c) ==
    /\ loop = "accepting" /\ link[c] = "backlog"
    /\ loop' = "reading"
    /\ current' = c
    /\ link' = [link EXCEPT ![c] = "held"]
    /\ UNCHANGED <<hello, heard>>

\* shutdown_conn, and on with the loop.
Shutdown ==
    /\ loop' = "accepting"
    /\ current' = None
    /\ Over(current, "shut")

\* get_hostname finds a name in a whole ClientHello only; of the names only
\* the proxy's own are valid targets.
ReadName ==
    /\ loop = "reading" /\ hello[current] = "whole"
    /\ loop' = "resolving"
    /\ UNCHANGED <<current, link, hello, heard>>

\* No name, or not a valid one, or the peer closed before it sent anything.
ReadNoName ==
    /\ loop = "reading" /\ hello[current] \in {"cut", "other", "closed"}
    /\ Shutdown

\* The read fails: `?' returns from listen and drops the listener with all
\* that waits in it.
ReadFails ==
    /\ loop = "reading" /\ hello[current] = "reset"
    /\ loop' = "ended"
    /\ current' = None
    /\ link' = [c \in Conn |-> IF link[c] \in {"backlog", "held"} THEN "shut"
                                                                  ELSE link[c]]
    /\ hello' = [c \in Conn |-> "unsent"]
    /\ UNCHANGED heard

\* The name has an address: the connection goes to a task of its own.
Resolved ==
    /\ loop = "resolving"
    /\ loop' = "accepting"
    /\ current' = None
    /\ link' = [link EXCEPT ![current] = "dialling"]
    /\ UNCHANGED <<hello, heard>>

\* No address, or the lookup failed.
NotResolved == loop = "resolving" /\ Shutdown

\* Variant: the bytes that were read to find the name are not written.
DialWithoutTheBytes(c) ==
    /\ link[c] = "dialling"
    /\ link' = [link EXCEPT ![c] = "piped"]
    /\ UNCHANGED <<loop, current, hello, heard>>

\* The task connects to the host and writes the bytes that the loop read.
Dial(c) ==
    /\ link[c] = "dialling"
    /\ link' = [link EXCEPT ![c] = "piped"]
    /\ heard' = heard \cup {c}
    /\ UNCHANGED <<loop, current, hello>>

\* The host cannot be reached, or the bytes not be written.
DialFails(c) ==
    /\ link[c] = "dialling"
    /\ Over(c, "shut")
    /\ UNCHANGED <<loop, current>>
=============================================================================
