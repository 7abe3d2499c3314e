SPECIFICATION FairSpec
CONSTANTS
    Submissions = {"s1", "s2", "s3"}
    Retries = {"t1"}
    Key <- KeysShared
    ProviderOrder <- TwoProviders
    Models <- ModelsOfTwo
    AnyProvider = "auto"
    NoProvider = "nobody"
    NoRequest = "none"
    CliDefault = "default"
CHECK_DEADLOCK FALSE
INVARIANTS TypeOK ThreadsStayApart KeyLookupHolds StrandedWasRevived
PROPERTY RequestsEnd
