CONSTANTS
  Masks <- MC_Masks
SPECIFICATION Spec
INVARIANT PortsFollowLastCalls
PROPERTY Io8Refinement
