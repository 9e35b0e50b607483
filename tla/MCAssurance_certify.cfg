SPECIFICATION Spec
CONSTANTS
    None = None
    Gates = {"conf", "sec"}
    Bases = {"rendered", "edited"}
    Foreign = {"edited"}
    Mutations = {m1, m2}
    Theorems = {"conform", "property"}
    ConfThms = {"conform"}
    SecThms = {"property"}
    Rendered = "rendered"
    Retries = 1
    MaxEdits = 1
    EditStages = {"core-oracle", "restore-build", "security-properties", "security-restore", "security-audit", "audit", "emit", "finish"}
    Decl <- MCDecl
    Subject <- MCSubject
INVARIANTS CertifiedModel AdequateMeansNoticed ReplayOfSnapshot Recoverable
PROPERTIES RunFinishes
