\* One account, one stranger, two pooled connections.
CONSTANTS
  a1 = a1
  x = x
  k1 = k1
  k2 = k2
  k3 = k3
  Accounts = {a1}
  Strangers = {x}
  Currencies = {"coins", "diamonds"}
  Keys = {k1, k2, k3}
  Amounts = {1, 2}
  Calls <- MCCalls
  Conns = {c1, c2}
  NoConn = NoConn
  NoRow = NoRow
  NoCall = NoCall
  MaxSafe = 3
  MaxBigint = 5
SPECIFICATION Spec
PROPERTY ReplayNeverRefused
