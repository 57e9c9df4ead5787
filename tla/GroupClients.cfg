CONSTANTS
  Client = {c1, c2}
  MemberId = {m1, m2, m3}
  NoMember = NoMember
  range = range
  Protocol = {range}
  ProtocolLists <- MCProtocolLists
  NoProtocol = NoProtocol
  Assignment <- MCAssignment
  NoAssignment = {}
  Partition = {p1}
  Offset = {}
  MaxGeneration = 4
  NoRequest = NoRequest
  MaxLate = 1
VIEW NoHistory
SYMMETRY Symmetry
SPECIFICATION ClientSpec
INVARIANTS StableIsAssigned SameGenerationExclusive CurrentConsumersOwnTheirShare
