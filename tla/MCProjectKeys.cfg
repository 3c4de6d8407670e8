SPECIFICATION Spec
CONSTANTS
  p1 = p1
  k1 = k1
  k2 = k2
  k3 = k3
  i1 = i1
  Projects <- MCProjects
  Operators <- MCOperators
  Keys <- MCKeys
  NoKey = NoKey
  Invitations <- MCInvitations
  NoInvitation = NoInvitation
  MaxRecords = 2
  MaxConnections = 2
SYMMETRY Symmetry
INVARIANTS TypeOK InvitationHonoured RedeemedKeyKept
PROPERTIES GrantsEndForGood RevokedStaysOut
CHECK_DEADLOCK FALSE
