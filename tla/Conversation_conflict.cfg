SPECIFICATION Spec
CONSTANTS
    Submissions = {"s1", "s2", "s3", "s4"}
    Retries = {}
    Key <- KeysOwn
    ProviderOrder <- OneProvider
    Models <- ModelOfOne
    AnyProvider = "auto"
    NoProvider = "nobody"
    NoRequest = "none"
    CliDefault = "default"
CHECK_DEADLOCK FALSE
INVARIANT FindOrCreateSucceeds
