SPECIFICATION FairSpec
CONSTANTS
  t1 = t1
  t2 = t2
  Threads = {t1, t2}
  Repertoire <- AllAndOutput
  MaxBlock = 2
  Lens = {1, 3, 4}
INVARIANTS Framed Accounted
PROPERTIES CallsReturn
