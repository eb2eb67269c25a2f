\* Up to three layers and one patch; transforms, hooks and views on trees of depth three; a
\* rollout over four buckets. Every part stops when its tree is done.
CONSTANTS
  Layers <- TheLayers
  Ops <- TheOps
  MergeOpts <- TheOpts
  MaxLayers = 3
  Jobs <- TheJobs
  Programs <- ThePrograms
  Numbers <- TheNumbers
  Folded <- TheFolds
  Types <- TheTypes
  SecretPaths <- ThePats
  TreesOf <- TheTrees
  InputsOf <- TheInputs
  Rules <- TheRules
  Contexts <- TheContexts
  Anchors = {"u1"}
  Buckets = 4
SPECIFICATION Spec
INVARIANTS DocumentsFollowReference
           RewritesAreExact DecodedAsMeant
           SecretsMasked RolloutShare
CHECK_DEADLOCK FALSE
