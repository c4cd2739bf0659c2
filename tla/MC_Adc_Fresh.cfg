CONSTANTS
  ChannelCount <- MC_ChannelCount
  MaxRequests <- MC_MaxRequests
  Unconverted = Unconverted
SPECIFICATION MC_Spec
INVARIANT SampleFresh
