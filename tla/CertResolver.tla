---------------------------- MODULE CertResolver ----------------------------
(***************************************************************************)
(* Which certificate a client of the enclave gets                          *)
(* (data-plane/src/server/tls/cert_resolver.rs).  The name it asks for     *)
(* decides: <nonce>.attest.<domain> gets a certificate made for it, the    *)
(* trusted domains get the certificate of the ACME server, every other     *)
(* name the base certificate.  The certificates that the enclave makes     *)
(* carry an attestation document (data-plane/src/crypto/attest.rs), which  *)
(* is good for as long as the certificate that signed it; the base         *)
(* certificate is kept with that time and made again when the enclave's    *)
(* clock says that it has passed, or served once more if that fails.       *)
(***************************************************************************)
EXTENDS Integers

CONSTANTS
    Life,       \* how long an attestation document is good for
    MaxAge,     \* bound: how long after its end it is still counted
    None        \* no certificate

ASSUME LifeIsPositive == Life \in Nat \ {0} /\ MaxAge \in Nat
ASSUME NoneIsNoTime == None \notin Int

VARIABLES
    left,       \* how long the base certificate's document is still good for
    served      \* the certificate given in the last step, if one was

resolverVars == <<left, served>>

\* What resolve_cert_using_sni tells apart.
Sni == {"nonce", "trusted", "other"}

Certificate == [sni : Sni, cert : {"nonce", "trusted", "base"},
                left : (-MaxAge)..Life, failed : BOOLEAN]

ResolverTypeOK ==
    /\ left \in (-MaxAge)..Life \cup {None}
    /\ served \in Certificate \cup {None}

ResolverInit == left = None /\ served = None

\* AttestableCertResolver::new makes the first base certificate.
NewResolver ==
    /\ left' = Life
    /\ served' = None

Serve(sni, cert, l, failed) ==
    served' = [sni |-> sni, cert |-> cert, left |-> l, failed |-> failed]

\* A nonce is put into a certificate of its own, or the handshake fails.
ResolveNonce ==
    /\ \/ Serve("nonce", "nonce", Life, FALSE)
       \/ served' = None
    /\ UNCHANGED left

\* Variant: a certificate is good until its time by the enclave's clock has
\* been up for a second.
IsGoodAtTheEnd(clock) == left - clock >= -1

\* CertContainer::resolve_cert compares with SystemTime::now(): clock is how
\* far the enclave's clock is ahead.
IsGood(clock) == left - clock > 0

\* The base certificate: as it is, made again, or what there was if making it
\* fails.  The check under the write lock repeats the first; one thread
\* resolves, so nothing comes between them.
ResolveBase(sni, clock) ==
    \/ /\ IsGood(clock)
       /\ Serve(sni, "base", left, FALSE)
       /\ UNCHANGED left
    \/ /\ ~IsGood(clock)
       /\ left' = Life
       /\ Serve(sni, "base", Life, FALSE)
    \/ /\ ~IsGood(clock)
       /\ Serve(sni, "base", left, TRUE)
       /\ UNCHANGED left

\* A trusted domain falls back on the base certificate when the store is
\* empty.
ResolveTrusted(store, clock) ==
    \/ /\ store
       /\ Serve("trusted", "trusted", Life, FALSE)
       /\ UNCHANGED left
    \/ ~store /\ ResolveBase("trusted", clock)

Resolve(sni, store, clock) ==
    \/ sni = "nonce" /\ ResolveNonce
    \/ sni = "trusted" /\ ResolveTrusted(store, clock)
    \/ sni = "other" /\ ResolveBase("other", clock)

\* Time passes for the document.
DocumentAges ==
    /\ left' = IF left # None /\ left > -MaxAge THEN left - 1 ELSE left
    /\ served' = None

\* The process dies, and with it what it kept in memory.
ResolverGone == left' = None /\ served' = None
=============================================================================
