SPECIFICATION Spec
CONSTANTS
  u1 = u1
  u2 = u2
  lobby = lobby
  room1 = room1
  Users <- MCUsers
  RoomIds <- MCRoomIds
  LobbyIds <- MCLobbyIds
  Modes <- MCModes
  MMModes <- MCMMModes
  Servers <- MCServers
  ServerOf <- MCServerOf
  NoRoom = NoRoom
  NoOne = NoOne
  MatchMaker = MatchMaker
SYMMETRY MCSymmetry
INVARIANTS OneRoom InUseIsConfigured CriteriaSound
PROPERTIES ModeKept SenderHears OccupancySpec
