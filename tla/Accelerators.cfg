\* Four cores: core 0 streaming, loopback or compressing, core 3 coherent; the
\* lengths are those of the programs.
CONSTANTS
  NumCores = 4
  vlen = 2
  word_count = 10
  MemWords = 10
  dma_tlv_header <- ZiplineRequest

SPECIFICATION FairSpec

INVARIANTS
  OperandsStand
  ResponseIsRight
  TypeGoesWithItsData

PROPERTY EveryoneFinishes
