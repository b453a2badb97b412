CONSTANTS
    l1 = l1
    l2 = l2
    c1 = c1
    good = good
    odd = odd
    evil = evil
    a1 = a1
    own = own
    NoReply = NoReply
    Lookup <- TwoLookups
    Conn <- OneConn
    Domain <- AllDomains
    Allowed <- GoodAndOdd
    HostAllowed <- GoodOnly
    Ip <- Ips
    StaticIps <- OwnIp
    Internal <- OwnIp
    Ttls <- ShortAndLong
    MaxTtl = 3
    AllowAll = FALSE
    AllowInternal = FALSE
    Permits = 1
    ChannelSize = 1
    Patience = 2
SPECIFICATION EgressFairSpec
INVARIANTS AnsweredIsUsable
PROPERTIES RelayedIsVouchedFor EveryLookupEnds
