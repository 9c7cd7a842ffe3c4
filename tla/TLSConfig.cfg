SPECIFICATION Spec
SYMMETRY Symmetry
CONSTANTS
    i1 = i1
    i2 = i2
    s1 = s1
    s2 = s2
    cert1 = cert1
    cert2 = cert2
    bad = bad
    Ingress = {i1, i2}
    Secret = {s1, s2}
    Content = {cert1, cert2, bad}
    BadContent = {bad}
    Manifest <- MCManifest
    NoObject = NoObject
    Nil = Nil
INVARIANTS
    TypeOK
    CertsUsed
    UsersServed
    KeysRemoved
    CertsCurrent
    ServedUnlessChanged
CONSTRAINT FewPending
ACTION_CONSTRAINTS
    FewContents
    FewEdits
