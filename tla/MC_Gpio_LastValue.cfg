CONSTANTS
  Masks <- MC_Masks
SPECIFICATION Spec
INVARIANT OutputsMatchLastValue
