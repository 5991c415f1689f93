CONSTANTS
    DomainPath <- MCDomainPath
    Labels <- MCLabels
    Labels1035 <- MCLabels1035
    Labels1123 <- MCLabels1123
    Feds <- MCFeds
    Octets <- MCOctets
    Zone = "z1"
    Region = "r1"
    MaxLen = 5
SPECIFICATION Spec
INVARIANT FederationGrammar
INVARIANT FederationNames
INVARIANT ReverseRoundTrip
