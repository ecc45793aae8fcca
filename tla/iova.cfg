SPECIFICATION FairSpec
CONSTANTS
  Cpus = {c1}
  Domains <- TwoDomains
  DomainOf <- TwoPorts
  Sata <- BareAndSata
  Iovas = 2
  Sizes = {1}
  LenSpace = 16
  DMA_ARRAY_LEN = 2
  MaxMaps = 3
INVARIANTS TypeOK NothingOverlooked SuccessMeansAsked OnlyChosenDomains
PROPERTIES CheckEnds
