SPECIFICATION Spec
CONSTANTS
  Systems <- MCSystems
  MAX_IRQ_CNT = 2
  Segments = 2
  MaxCalls = 3
  MaxUnplugs = 1
  MaxLoads = 3
  MaxCallsInside = 1
  Layers = {"bsa", "sdei", "ffa"}
  HwIrqs = {31, 3}
  KernelIrq = 31
  MaxVirq = 5
  MaxInstalls = 4
  Domains = {"none", "flat", "hierarchy"}
  Sizes = {1, 2, 3, 4, 6, 10, 18}
  UINT32 = 16
  TIME_OUT = 3
  MaxAllocs = 4
  HostLists <- MCHostLists
  Walks <- MCWalks
  Cpus = {1, 2}
  MaxBroken = 2
  Firmwares <- MCFirmwares
  CELL = 1000
INVARIANTS KeptLive TableNamesDevices VectorListWhole IrqMapExact
INVARIANTS WalkOnward RootPortAbove CallsReachLoaded HandlerCalled
INVARIANTS TransferSound BuffersSound DmaServicesRight
INVARIANTS AnswersRight TablesMatchFirmware
PROPERTY TransferEnds
CHECK_DEADLOCK FALSE
