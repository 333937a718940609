SPECIFICATION Spec
CONSTANTS
  s1 = s1  s2 = s2
  en = en  fr = fr
  q1 = q1  q2 = q2
  Runs = {r1}
  Accents = {en, fr}
  Samples = {s1, s2}
  Accent <- OneEach
  Rates = {500, 1400}
  Versions = {v1}
  Requests = {q1, q2}
  MaxResults = 2
  NoRun = NoRun
  NoSample = NoSample
  NoVersion = NoVersion
SYMMETRY Symmetry
CHECK_DEADLOCK FALSE
INVARIANTS
  TypeOK
  CounterTracksRows
  ClipsCountOnce
  BaselineHasEvidence
