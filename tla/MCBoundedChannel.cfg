CONSTANTS
  Capacity <- MCCapacity
  MaxItems <- MCMaxItems
SPECIFICATION Spec
INVARIANT TypeOK
INVARIANT ItemsInPushOrder
PROPERTY ImplementsAbstractChannel
