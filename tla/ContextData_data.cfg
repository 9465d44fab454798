CONSTANTS
  a1 = a1
  a2 = a2
  a3 = a3
  n1 = n1
  n2 = n2
  k1 = k1
  d1 = d1
  x1 = x1
  x2 = x2
  u1 = u1
  u2 = u2
  none = none
  Addrs <- MCNoAddrs
  NewAddrs = {}
  NameOf <- MCNoNameOf
  AddressLikeName = {}
  Keys = {k1}
  Vals = {x1}
  Ids = {u1, u2}
  Absent <- none
  MaxDepth = 2
  LoaderAcc <- MCNoLoaderAcc
  LoaderPD <- MCLoaderPD
  LoaderUTXO <- MCLoaderUTXO
  LoaderSeq <- MCNoLoaderSeq
  AccKeys = {d1}
  LoaderAD <- MCLoaderAD
  MaxSeq = 2
  SeqAddrs = {}
  MaxEvents = 2
SPECIFICATION Spec
PROPERTY ImplementsFlatContext
