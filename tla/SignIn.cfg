CONSTANTS
    i1 = i1  i2 = i2  i3 = i3  b1 = b1  b2 = b2  b3 = b3  b4 = b4  Local = Local
    e1 = e1   NoEmail = NoEmail  n1 = n1  n2 = n2  n3 = n3
    Identities = {i1, i2, i3}
    IdentityOf <- MCIdentityOf
    ProviderOf <- MCProviderOf
    EmailsOf <- MCEmailsOf
    FirstProfile <- MCFirstProfile
    StateOf <- MCStateOf
    AskedOf <- MCAskedOf
    OtherStates <- MCOtherStates
    Sep = "|"
    Configured = {"github", "wechat"}
    Callbacks = {b1, b2, b3, b4}
    Emails = {e1, NoEmail}
    Names = {n1, n2}
    MaxChanges = 1  MaxFailures = 1  MaxOutages = 1
SPECIFICATION SignInSpec
INVARIANTS SignInTypeOK OneAccountPerName SignedInAsThemselves TypeAsAsked RefusedForAReason
PROPERTIES ImplementsAccounts TokensKeepTheirAccount
CHECK_DEADLOCK FALSE
