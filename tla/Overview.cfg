SPECIFICATION FairSpec
CONSTANTS
 Malformed = Malformed
 NoFile = NoFile
 NoRepository = NoRepository
 NoCommand = NoCommand
 LaneSetup = "lane"
 AgentIds = {"claude", "codex"}
 Profiles = {"claude", "codex", "extra"}
 Expectations = {"e"}
 Rubrics = {"judge", "gpt"}
 Selectors = {"claude", "codex", "gpt"}
 MaxReferences = 1
 SharedFiles <- MCSharedFiles
 LocalFiles <- MCLocalFiles
 Nothing = Nothing
 Decls <- MCDecls
 Declared = "routed"
 Issues <- MCIssues
 Workers <- MCWorkers
 Slots = {1, 2, 3}
 MaxMoves = 3
 MaxEdits = 1
 MaxFaults = 1
INVARIANTS OfferHonoured SettingsAreSound
PROPERTIES PanelCatchesUp
CHECK_DEADLOCK FALSE
