\* HTTP and HTTPS, a peer and a firewall that change at any time.
SPECIFICATION FairSpec
CONSTANT Schemes = {TRUE, FALSE}
INVARIANTS OutageClassified VerdictJustified
PROPERTIES CheckReturns
