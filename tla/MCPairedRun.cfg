SPECIFICATION Spec
CONSTANTS
    first = first
    second = second
    third = third
    release = release
    update = update
    one = one
    two = two
    Snapshots = {release, update}
    Cases = {one, two}
    Outputs = {"a", "b"}
    Seeds = {0, 1}
    Fingerprints = {"recorded"}
    Shards = {"00"}
    Secrets <- MCSecrets
    ShardOf <- MCShardOf
    Processes <- MCProcesses
    Suite <- MCSuite
    SideIdentity <- MCSideIdentity
    None = None
    Absent = Absent
    Damaged = Damaged
    LeftOver <- MCLeftOver
    Configurations <- MCConfigurations
    Returned <- MCReturned
    MaxReturned = 2
    MaxRestarts <- MCMaxRestarts
INVARIANTS ValidatedIsStorable
PROPERTIES EntriesNeverDegrade KeepsPromise
CHECK_DEADLOCK FALSE
