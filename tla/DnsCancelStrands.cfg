SPECIFICATION DnsSpec
CONSTANTS
    Clients = {c1, c2, c3}
    Hosts = {h1}
    CancelAllowed = TRUE
PROPERTY AnsweredOrCancelled
