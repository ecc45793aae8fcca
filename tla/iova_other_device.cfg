SPECIFICATION Spec
CONSTANTS
  Cpus = {c1}
  Domains <- TwoDomains
  DomainOf <- ThreePorts
  Sata <- BareAndSata
  Iovas = 3
  Sizes = {1}
  LenSpace = 16
  DMA_ARRAY_LEN = 4
  MaxMaps = 3
INVARIANT SuccessMeansDevice
