SPECIFICATION MCSpec
CONSTANTS
    Requests = {r1, r2}
    PublishPause = 1
    PublishTries = 2
    MaxRetries = 1
    MaxTime = 1
    MaxDoubts = 1
    Nothing = Nothing
    Strings <- MCStrings
    MaxDepth = 3
    Documents <- MCDocuments
    Forms <- MCForms
    Urls <- MCUrls
    Queries <- MCQueries
    Fields <- MCFields
    Users = {u1, u2}
    Nobody = Nobody
SYMMETRY Symmetric
INVARIANTS TypeOK RowsAccounted NoneForgotten RequestRowFirst SecretsMasked RowsStorable TokensMasked LastUserRecorded
PROPERTIES PauseHeld
CHECK_DEADLOCK FALSE
