SPECIFICATION Spec
CONSTANTS
    a = a
    b = b
    i1 = i1
    i2 = i2
    r1 = r1
    r2 = r2
    Emails <- TwoEmails
    Invitations <- TwoInvitations
    Requests <- TwoRequests
    MaxFailed = 1
    MaxSessions = 1
SYMMETRY Rows
INVARIANTS
    InvitationsAreAccountedFor
PROPERTIES
    SpentInvitationStaysSpent
