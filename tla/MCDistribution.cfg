SPECIFICATION DistributionSpec
CONSTANTS
    first = first
    second = second
    reader = reader
    Writers <- MCWriters
    Readers = {reader}
    Plans = {plan}
    plan = plan
    Manifests = {old, new}
    old = old
    new = new
    Arguments <- MCArguments
    MaxRestarts <- MCMaxRestarts
    None = None
    Absent = Absent
    weights = weights
    engine = engine
    toolOutput = toolOutput
    tampered = tampered
    Bundles <- MCBundles
    Documents <- MCDocuments
    BundleEdits <- MCBundleEdits
    MaxBundleEdits = 2
    NotThere = NotThere
    Inodes = {i1, i2}
    Chunks = {x, y}
    MaxBytes = 2
    MaxSize = 3
    MaxFileEdits = 2
    MaxClock = 2
    Expected <- MCExpectedData
    NoContent = NoContent
    EvidencePaths = {1, 2}
    Temporaries = {3, 4}
    ReportPaths = {1}
    FileContents = {r1, r2, bytes}
    ValidReports = {r1, r2}
    MaxTreeEdits = 3
    MaxTargetDeaths = 1
    Gone = Gone
    LayoutReports = {left, right}
    LayoutWriters = {w1, w2}
    MaxLayoutDeaths = 1
    MaxLayouts = 3
    NoFile = NoFile
    Torn = Torn
    Profiles <- MCProfiles
    Negatives <- MCNegatives
    SuiteEdits <- MCSuiteEdits
    Receipts <- MCReceipts
    MaxSuiteEdits = 2
    Invalid = Invalid
    NoDirectory = NoDirectory
    NoReceipt = NoReceipt
INVARIANTS
    RejectionHasCause
    VerifiedWasPublished
    RetryReplacesEverything
    ClaimsEndInBytes
    ReadIsOneVersion
    TargetIsExact
    IndexIsBacked
    CertifiesNormative
PROPERTIES
    RefusesOnlyTorn
CHECK_DEADLOCK FALSE
