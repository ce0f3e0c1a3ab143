CONSTANTS
    Wallets = {w1}
    AuthCodeTTL = 3
    PreAuthTTL = 4
    RefreshTokenTTL = 5
    SessionTimeout = 4
    MaxDelay = 1
    Horizon = 20

SPECIFICATION Spec
CHECK_DEADLOCK FALSE
INVARIANT TypeOK
INVARIANT ActiveWalletContinues
INVARIANT ExpiresInHonest
