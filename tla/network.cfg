SPECIFICATION NetSpec
CONSTANTS
  Secrets = {"a", "b"}
  Hosts = {"h", "k"}
  Values = {"x", "y"}
  Addresses = {"pub", "lan"}
  Internal = {"lan"}
  Setups <- EgressSetups
  GuestRequests <- EgressRequests
  MaxRedirects = 1
  MaxUpdates = 1
  References = {"c", "d"}
  Labels = {"c", "d"}
  SecretValues = {"s", "t"}
  Origins = {"o1", "o2"}
  Methods = {"GET", "POST"}
  TermSets <- CredTerms
  Offers <- CredOffers
  MaxClock = 1
  MaxChanges = 1
  MaxSends = 1
  MaxTokens = 1
  MaxHops = 1
  SshFlows = {"f", "g"}
  Calls = {"c1", "c2", "c3"}
  FlowOf <- CallFlow
  Target <- FlowTarget
  Allowed <- GitHosts
  Credentials <- GitHosts
  Agent = FALSE
  HostKeys = {"old", "new"}
  KnownHosts <- GitKeys
  MaxPerFlow = 1
  MaxTotal = 2
  MaxGen = 2
  Schemes = {"http", "https"}
  MaxFlows = 2
  MaxChunks = 2
  Cap = 1
INVARIANTS
  TcpDelivers
  ExchangeInOrder
  EveryHopApproved
  TunnelBytesInPlace
PROPERTIES
  UpstreamsHeldToTheirGuests
  SecretsOnlyToTheirHosts
  CredentialsKeepToTheirGrant
CHECK_DEADLOCK FALSE
