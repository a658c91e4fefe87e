\* Two instances, any earlier version of the database.
SPECIFICATION Spec
CONSTANTS
    Instances = {1, 2}
    Null = Null
INVARIANTS
    StatementsFit
    IntentSurvives
    TypeOK
