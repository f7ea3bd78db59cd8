\* Two downloads of one frozen project may differ.
SPECIFICATION Spec
CONSTANTS
    r1 = r1
    r2 = r2
    r3 = r3
    Request = {r1, r2, r3}
    Serves <- Downloads
    None = None
    MaxEvents = 2
INVARIANT AuditExportsAgree
