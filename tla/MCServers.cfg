CONSTANTS
  Threads = {t1, t2}
  Clients = {c1}
  Timeouts = TRUE
  None = None
  Stopper = stopper
  RpcConns = {k1, k2, k3, k4}
  RpcKinds = {"good", "unknown", "version", "throws"}
  MpConns = {k1, k2, k3}
  MpKinds = {"good", "unknown", "mistyped", "throws", "silent"}
  MaxCalls = 2
  Ids = 4
SPECIFICATION Spec
INVARIANTS StoppedMeansQuiet OutcomesTrue AnswersTrue
PROPERTIES StopsEnd CallsEnd
