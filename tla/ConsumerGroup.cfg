CONSTANTS
  Client = {c1}
  MemberId = {m1, m2, m3}
  NoMember = NoMember
  range = range
  sticky = sticky
  Protocol <- MCProtocol
  ProtocolLists <- MCProtocolLists
  NoProtocol = NoProtocol
  Assignment = {none, a1}
  NoAssignment = none
  Partition = {p1}
  Offset = {7}
  MaxGeneration = 4
SYMMETRY MemberSymmetry
SPECIFICATION Spec
INVARIANTS TypeOK LeaderIsMember OneHolderUntilSync CommonProtocol
PROPERTIES GenerationFixesMembership StableByLastJoiner AliveMeansStable
