SPECIFICATION Spec
CONSTANTS
    Boot = {b1}
    Enabled = {b1}
    Client = {c1}
    Password = {"admin123", "user123"}
    Sent <- Attempts
    MaxEdits = 2
CHECK_DEADLOCK FALSE
INVARIANTS
    TokenSpeaksForItsOwner
PROPERTIES
    LoginTrueDuringCall
    AnswerTrueDuringRequest
    TokenLivesAsLongAsItsAccount
