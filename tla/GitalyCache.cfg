\* Three concurrent calls over three keys, one of them without an address.
CONSTANTS
  Calls = {t1, t2, t3}
  Keys = {k1, k2, noaddr}
  NoAddress = {noaddr}
SPECIFICATION FairSpec
INVARIANTS NoMapRace NoConnectionLost
PROPERTIES CallsReturn ImplementsPool
