SPECIFICATION Spec
CONSTANTS
  MaxActivations <- MCMaxActivations
  Empty = Empty
PROPERTY
  StartsOnlyConfigured
