SPECIFICATION FairSpec
CONSTANTS
    SecurityLevels = {"PreferredUnsecured", "OnlySecuredSession"}
    ServerVersions <- OneVersion
    Suggestions = {2, 3, 4, 5, 9}
    ConnectionTimeout = TRUE
    SilentClose = FALSE
    MaxSuggestions = 2
INVARIANT TypeOK
INVARIANT NeverBothWaiting
INVARIANT CredentialsSecured
INVARIANT VersionAgreed
INVARIANT RejectedIsClosed
PROPERTY StreamContinuous
PROPERTY ConnectSettles
CHECK_DEADLOCK FALSE
