CONSTANTS
    n1 = n1
    n2 = n2
    n3 = n3
    Nonce <- Nonces
    NoNonce = NoNonce
    NAuth = 2
    AuthPolls = 7
    OrderPolls = 5
SPECIFICATION FairSpec
INVARIANTS NonceSentOnce CertificateWasAuthorized
PROPERTIES EveryOrderEnds
