SPECIFICATION Spec
CHECK_DEADLOCK FALSE
CONSTANTS
  H = H
  C = C
  S = S
  B = B
  D = D
  S1 = S1
  B1 = B1
  B2 = B2
  Bo1 = Bo1
  Bo2 = Bo2
  C1 = C1
  Co = Co
  D1 = D1
  Do = Do
  None = None
  Host = H
  Composites <- TheComposites
  Atomics <- TheAtomics
  Parent <- TheParent
  InputsOf <- TheInputs
  OutputsOf <- TheOutputs
  Spontaneous <- TheSpontaneous
  InitialChildren <- TheChildren
  Wires <- TheWires
  Removable <- TheRemovable
  Sources <- TheSources
  IntMax = 99
  MaxChanges = 1
INVARIANT
  CallbacksKeepTheirAccessorsPriority
