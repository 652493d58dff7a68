CONSTANTS
    Events = {"origin", "effect", "later", "latest"}
    Tasks = {t1}
    None = None
    MaxEvents = 3
    MaxTime = 3
    MaxVersion = 0
    Terms = {}
    Observed <- MCObserved
    Incidents = {"fixture", "other"}
    RequestIds = {"op1", "op2", "r1"}
    Generation <- MCGeneration
    Verifiers = {"readback", "v1"}
    RecurrenceIds = {"q1"}
    Recorded <- MCRecorded
    Verified <- MCVerified
    VerifiedByName = {"other"}
    Recurred <- MCRecurred
    Callers = {c1, c2}
    Operations = {"op1", "op2"}
    Origin <- MCOrigin
    Incident = "fixture"
    EffectEvent = "effect"
    Verifier = "readback"
    MaxCrashes = 1
SPECIFICATION Spec
INVARIANTS
    FixtureTypeOK
    ReceiptsTellOneStory
    EffectsAreLater
    RecurrencesFollowEffects
    OneAnswerClaimsTheEffect
    RecordsAgree
PROPERTIES
    SupersededRecoveriesRest
    ImplementsGrantedEffect
    PendingIsReconciled
