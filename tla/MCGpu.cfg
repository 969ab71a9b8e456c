CONSTANTS
  Systems <- MCSystems
  Producers = {1}
  MaxIssued = 3
  AtOnce = {"destroy"}
  Later = {"add"}
  MaxCommands = 2
  MaxBuffers = 1
  MaxRuns = 1
  NoComponent = NoComponent
  Handles = {1, 2, 3}
  MaxVersions <- MCMaxVersions
  Class <- MCClass
  Identity <- MCIdentity
  Binds = {3}
  Objects = 2
  Views = 2
  ChunkSize = 1
  Pipelines = {1}
  Imports <- MCImports
  PassForms <- MCForms
  Frames = {1, 2}
  MaxPasses = 3
  MaxDependencies = 1
  Owners = {1, 2}
  Kinds <- MCKinds
  Values = {1}
  Descriptors <- MCDescriptors
  MaxGeneration <- MCMaxGeneration
  MaxFramesInFlight = 1
  MaxSubmits = 1
  Bytes = 3
  Subresources = 2
  Usages = {"TransferRead", "TransferWrite", "ShaderRead"}
  BufferFamilies = {Ignored}
  ImageFamilies = {Ignored, 1, 2}
  Ignored = Ignored
  Untracked = Untracked
  d1 = d1
  d2 = d2
  Destinations = {d1, d2}
  Batches <- MCBatches
  ArenaSize = 4
  MaxStaging = 12
  MaxBatchUploads = 2
  MaxSubmissions = 4
  MaxArenas = 5
  Requests <- MCRequests
  PoolSize = 2
  Alignment = 4
  MaxRange = 8
  MaxUses = 3
  FrameContexts = 2
  PathFrames = 5
  MaxChains = 3
  Sizes = {0, 1}
  Surfaces <- MCSurfaces
  Unset = Unset
SPECIFICATION MCSpec
INVARIANTS
  EntitiesAreSafe
  DrawsAreTrue
  GraphsAreSound
  ObjectsAreSafe
  GpuWorkIsSafe
CHECK_DEADLOCK FALSE
