SPECIFICATION LiveSpec
CONSTANTS
  s1 = s1
  s2 = s2
  t1 = t1
  t2 = t2
  Workers = {w1, w2}
  Commands = {}
  Loader = loader
  Sockets <- HttpSockets
  Target <- HttpTarget
  TlsFallback = FALSE
  ReusePort = FALSE
  None = None
PROPERTIES Recovers
