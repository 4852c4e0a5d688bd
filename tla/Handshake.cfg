SPECIFICATION Spec
CONSTANTS
  Peers = {p1, p2}
  Keys = {k1, k2}
  HostKey = k1
  Base = 4
  RoomKeyBytes = 2
  GroupSize = 3
  Malformed = Malformed
INVARIANTS TypeOK KeysAgree HandshakeInStep
PROPERTIES MembersStay HandshakeEnds ConnectedJoins GoneIsForgotten
CHECK_DEADLOCK FALSE
