CONSTANTS
    Hosts <- MCHosts
    Literal <- MCLiteral
    Addresses <- MCAddresses
    Urls <- MCUrls
    Allowlist <- MCAllowlist
    Degraded <- MCDegraded
    Credentials <- MCCredentials
    Budgets <- MCBudgets
    FetchBytes = 2
    RedirectDepth = 1
    Deadline = 2
    Delays = {0, 1}
    Jitters = {0, 1}
    ChunkSizes = {1, 2}
    MaxFetches = 2
SPECIFICATION HttpsSpec
INVARIANTS ConnectsWhereGranted CredentialsStayHome LedgerCovers DocumentsWhole
PROPERTIES MutationsSentOnce FetchesEnd
