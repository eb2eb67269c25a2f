\* Two files in a cache of one; edits, a Register, overrides, plans, rollbacks. Bands of
\* file priorities scaled down to room for a few files; routing indexes up to 1.
CONSTANTS
  NFiles = 2
  MaxContent = 2
  Registrars = {r1}
  CacheCap = 1
  MaxEdits = 2
  MaxRuns = 4
  Kinds = {"reload", "override", "plan", "rollback"}
  ProfileNames = {"a", "b", "c"}
  DirContents <- Dirs
  Sites <- TheSites
  BandFileBase = 10
  BandFileOverlay = 13
  BandAxis = 17
  bandFileEnd = 21
  overlayStride = 2
  Sources <- TheSources
  MaxRoutingIndex = 1
  Services <- TheServices
SPECIFICATION Spec
INVARIANTS CacheSound ReloadReflectsInputs
           LayersFollowSite
           EntriesBecomeTrees
