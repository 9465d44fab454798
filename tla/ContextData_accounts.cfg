CONSTANTS
  a1 = a1
  a2 = a2
  a3 = a3
  n1 = n1
  n2 = n2
  k1 = k1
  d1 = d1
  x1 = x1
  x2 = x2
  u1 = u1
  u2 = u2
  none = none
  Addrs <- MCAddrs
  NewAddrs <- MCNewAddrs
  NameOf <- MCNameOf
  AddressLikeName <- MCAddressLikeName
  Keys = {}
  Vals = {x1, x2}
  Ids = {}
  Absent <- none
  MaxDepth = 2
  LoaderAcc <- MCLoaderAcc
  LoaderPD <- MCNoLoaderPD
  LoaderUTXO = {}
  LoaderSeq <- MCLoaderSeq
  AccKeys = {}
  LoaderAD <- MCNoLoaderAD
  MaxSeq = 1
  SeqAddrs = {a1}
  MaxEvents = 0
SPECIFICATION Spec

PROPERTY ImplementsFlatContext
