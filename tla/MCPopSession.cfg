SPECIFICATION FairSpec
CONSTANTS
  MaxMsg = 2
  MaxErrors = 2
INVARIANTS TypeOK LuaReady PluginTold SessionCounted
PROPERTIES RefinesMaildrop EndsUnlessServing
CHECK_DEADLOCK FALSE
