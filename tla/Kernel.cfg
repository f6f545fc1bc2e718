SPECIFICATION CasesSpec
CONSTANTS
  Plugins <- SomePlugins
  Offered = {"base", "front", "leaf"}
  Services = {"a", "b", "c"}
  Inject <- SomeInject
  Script <- SomeScript
  Calls = {"mount", "dispose", "restart", "withdraw", "provide", "close"}
  Reentrant = FALSE
  MaxFibers = 4
  MaxCalls = 4
  Listener = {"l1", "l2", "l3"}
  Event = {"e"}
  Modes = {"emit", "bail", "waterfall"}
  Depth = 3
  Dispatches = 2
  Profiles <- SomeProfiles
  Discovered <- SomeDiscovered
  Static <- SomeStatic
  DefaultBundles <- CoreBundle
  Patches <- SomePatches
  Locked = {"tasks"}
  Seams <- SomeSeams
  RequiredEntries = {}
  NotAFlag = NotAFlag
  Merge <- DeepMerge
  ConfigPart <- SomeValues
  Config <- SomeConfig
  Paths <- SomePaths
  MaxPatches = 3
  Entries = {"core", "extra"}
  Required = {"core"}
  LoadersCall = FALSE
  StartDepth = 3
  Changes = 2
INVARIANTS ComposedAsWritten
PROPERTIES CasesHold DispatchIsOrderly StartsComplete ComesToRest
CHECK_DEADLOCK FALSE
