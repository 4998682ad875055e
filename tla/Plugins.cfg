SPECIFICATION Spec
CONSTANTS
    one = one
    other = other
    later = later
    v1 = v1
    v2 = v2
    author = author
    stranger = stranger
    Nothing = Nothing
    Procs = {p1, p2}
    Digests = {one, other, later}
    Versions = {v1, v2}
    VersionOf <- ContentVersion
    Publishers = {author, stranger}
    PublisherOf <- ContentPublisher
    Runs = {run}
    References = {project}
    MayLosePower = TRUE
INVARIANTS TypeOK NeverPartial PinsHold NothingLeftBehind
