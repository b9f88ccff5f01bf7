SPECIFICATION Spec
CONSTANTS
  Last4 = 7
  Last6 = 9
  Mask4 = 3
  Mask6 = 1
  Inputs <- Networks
INVARIANTS TypeOK Separated
PROPERTIES SubnetsExact ImplementsAddressSet
