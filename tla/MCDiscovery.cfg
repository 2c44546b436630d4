CONSTANTS
  a = a
  b = b
  d = d
  Normal = {a, b}
  Discoverers = {d}
  Seeds <- OneSeed
  MinConnections = 11
  MaxConnections = 50
  Workers = {a, b, d}
  Lossy = {d}
  MaxLost = 1
SPECIFICATION FairSpec
PROPERTY NodesMeet
