SPECIFICATION Spec
CONSTANTS
  Instances = {i1, i2}
  MaxPairs = 3
  HalfRange = 4
  PortSettings <- MCPortSettings
  DefaultPort <- MCDefaultPort
SYMMETRY Symmetry
INVARIANTS
  TypeOK
  PairFits
  KeysStayGood
  ReportIsTrue
  KeyLeadsThere
PROPERTY RefusesWhenTorn
