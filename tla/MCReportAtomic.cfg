SPECIFICATION Spec
CONSTANTS
    first = first
    second = second
    reader = reader
    Writers <- MCWriters
    Readers = {reader}
    Plans = {plan}
    plan = plan
    Manifests = {old, new}
    old = old
    new = new
    Arguments <- MCArguments
    MaxRestarts <- MCMaxRestarts
    None = None
    Absent = Absent
INVARIANTS ReportAndManifestTogether
CHECK_DEADLOCK FALSE
