CONSTANTS
  Handler = {h1, h2}
  Station = {s1}
  Main = main
  None = None
  MaxPacket = 2
  MaxSession = 2
  MaxFailures = 2
  MaxAnswer = 2
  Configs <- MC_Configs
SPECIFICATION FairRtSpec
INVARIANTS AcceptIsGranted StopsInOrder CleanExitReleases
PROPERTIES RequestsAnswered ProgramExits PeerLossNoticed
