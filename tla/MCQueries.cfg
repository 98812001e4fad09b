SPECIFICATION QuerySpec
CONSTANTS
  a1 = a1
  a2 = a2
  b1 = b1
  Keys = {a1, a2, b1}
  GvkOf <- MCGvkOf
  NsOf <- MCNsOf
  Runs = {r1}
  Serves <- MCServes
  Fields = {"owner"}
  Values = {"x", "y", ""}
  Funcs = {"owner", "both"}
  PathIndexes <- MCPathIndexes
  Objs <- MCObjs
  Extract <- MCExtract
  LabelSelectors <- MCLabelSelectors
  FieldSelectors <- MCFieldSelectors
INVARIANTS Mirror NeverOmits ExactIfExpressible LookupAgreesWithList
PROPERTY ImplementsFieldIndex
