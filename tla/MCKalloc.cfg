CONSTANTS
  Frames = {1, 2, 3, 4, 5}
  KernelBase = 8
  PageSize = 2
  SizeMax = 7
  PerPage = 2
  Sizes = {0, 1, 3, 7}
  Others = {2}
  Null = Null
SPECIFICATION Spec
INVARIANT TypeOK
INVARIANT ListExact
INVARIANT HeapExact
INVARIANT NothingLeaked
INVARIANT AtMostOneEmptyPage
PROPERTY GivesBackWhatItTook
