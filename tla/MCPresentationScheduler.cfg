CONSTANTS
  Layers <- MCLayers
  Keys <- MCKeys
  LayerOf <- MCLayerOf
  Capabilities <- MCCapabilities
  NeutralBinding <- MCNeutral
  Fallbacks <- MCFallbacks
  Suppressed = {}
  NoAnchor = "none"
  Never = 99
  Requests <- MCRequests
  LayerOrder <- MCLayerOrder
  Anchors = {"start", "end"}
  MaxTime = 3
  MaxGeneration = 1
  MaxLag = 1
  GlobalLimit <- MCGlobalLimit
  LayerLimits <- MCLayerLimits
  MaxPending = 1
  MaxMarkers = 1
SPECIFICATION Spec
INVARIANTS RendererAgrees NoLayerForgotten RateLimited
