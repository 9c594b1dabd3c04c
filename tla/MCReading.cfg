SPECIFICATION ReadSpec
CONSTANTS
    a = a
    b = b
    p = p
    q = q
    Absent = Absent
    Key = {"subject", "hasKeyword"}
    NativeKey = {"subject"}
    FetchedKey = {"subject", "hasKeyword"}
    Cases <- Everything
    Mime <- MimeTrees
    Others <- MimeLeaves
    Size = {1, 2}
    MaxTotal = 3
    Ttl = 2
    Late = 5
    MaxBlobs = 5
INVARIANTS Trusted Ordered RightPart SameView Staged
CHECK_DEADLOCK FALSE
