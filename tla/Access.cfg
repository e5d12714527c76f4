SPECIFICATION MCSpec
CONSTANTS
    Members = {ann, bob}
    Founder = ann
    Sessions = {s1, s2}
    None = None
    MaxLinks = 2
    Staff = {"ida", "tom"}
    Offers <- FewOffers
    LeadRights = {{"read", "create", "admin"}, {"read", "update", "approve"}}
    MaxRights = 2
    Records = {"r1"}
    Contents = {"c1", "c2"}
    Statuses = {"DRAFT", "ACTIVE"}
    Initial = "DRAFT"
    Users = {"u1", "u2"}
    MaxVersion = 4
    MaxRemarks = 1
    Commands = {"p1", "p2"}
    Keys = {"k1", "k2"}
    Texts <- FewTexts
    Requests = {"r1", "r2"}
    Nobody = "nobody"
    Versions = {1, 2}
    MaxWrites = 2
SYMMETRY Symmetry
INVARIANTS
    OwnerRemains
    SessionsAreCurrent
    LinksAreExclusive
    AccessIsAsShown
    RecordsAreTraced
    ProposalsAreHonoured
CHECK_DEADLOCK FALSE
