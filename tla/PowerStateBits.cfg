\* PowerState.nc's promise about the bits outside of the mask: two parts of the
\* radio's power state.
CONSTANTS
  None = None
  Bit = {TX, RX}
  Masks = {{TX}, {RX}}
SPECIFICATION Spec
PROPERTY OnlyMaskChanges
