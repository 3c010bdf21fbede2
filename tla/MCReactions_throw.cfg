SPECIFICATION Spec
CHECK_DEADLOCK FALSE
CONSTANTS
  H = H
  C = C
  S = S
  T = T
  A = A
  D = D
  E = E
  Sout = Sout
  Tout = Tout
  Ain = Ain
  Athru = Athru
  Aout = Aout
  Cin1 = Cin1
  Cin2 = Cin2
  Cout = Cout
  Din1 = Din1
  Din2 = Din2
  Ein1 = Ein1
  Ein2 = Ein2
  Atomics <- TheAtomics
  Composites <- TheComposites
  Host = H
  Parent <- TheParent
  Priority <- ThePriority
  InputsOf <- TheInputs
  Sends <- TheSends
  Sources <- BothSources
  Destinations <- TheDestinations
  MaxInstants = 2
INVARIANT
  NoInputIsStranded
