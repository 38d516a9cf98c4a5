\* An original and its derivative, a file without a row, a directory; AIPs of every kind of compression, two faults.
SPECIFICATION Spec
CONSTANTS
  f1 = f1
  f2 = f2
  g1 = g1
  m0 = m0
  d1 = d1
  nowhere = nowhere
  Sip = Sip
  Files = {f1, f2}
  Unverified = {f2}
  Loose = {g1, m0}
  Former = {m0}
  Known <- SomeKnown
  Sources <- SomeSources
  Dirs = {d1}
  Declarations <- SomeDeclarations
  Programs = {"None", "7z", "gzip"}
  Faults = {"early", "late"}
  MaxOdd = 2
INVARIANTS
  NothingLost
  StoredIsTrue
  StoredIsDescribed
  FixityIsTrue
  PidIsBound
