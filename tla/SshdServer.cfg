\* Every interleaving of three connections with startup and shutdown.
CONSTANT Conns = {c1, c2, c3}
SPECIFICATION FairSpec
INVARIANTS ClosedMeansDrained GraceRespected
PROPERTIES ShutdownStopsAccepting ServingShutdownEnds SocketsClosed
