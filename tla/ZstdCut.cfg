SPECIFICATION ZstdSpec
CONSTANTS
  Flags <- MCFlags
  CHUNK = 2
  RESERVE = 1
  READ = 3
  Padding = 2
  MaxPush = 3
  DICT = 2
  Slack = 1
  Threshold = 1
  Radix = 24
  MaxData = 4
  WINDOW_SIZE = 2
  BLOCK_MAX = 2
  MIN_MATCH = 2
  Patterns <- MCPatterns
  ESCAPE = 2
  MAX_RLE1_RUN = 4
  SORT_MAX = 5
  LIMIT = 8
  GROUP_SIZE = 2
  TABLE_STEPS = {4}
  REFINE_ROUNDS = 2
  MAX_CODE_LEN = 3
  SEED_HIGH_COST = 15
  Bytes = {1, 2}
  MaxStream = 5
  MaxMembers = 1
  HEADER_LEN = 2
  BLOCK_SIZE = 2
  LANES = 2
  BLOCK_LEN = 3
  CIPHER_CHUNK = 4
  MaxSecret = 6
  BASE = 4
  CALL = 2
  FILTER_CHUNK = 5
  Programs <- MCPrograms
  Distance = 2
  MaxCut = 6
  DEFLATE_BLOCK = 12
  PROBE_SIZE = 6
  MAX_STORED = 4
  PARALLEL_CHUNK = 13
  LITERALS = 7
  LENGTH_BASE <- MCLengthBase
  LENGTH_EXTRA <- MCLengthExtra
  DIST_BASE <- MCDistBase
  DIST_EXTRA <- MCDistExtra
  MAX_MATCH = 4
  MAX_DISTANCE = 6
  HASH_BYTES = 2
  HASH_SIZE = 3
  MAX_CHAIN = 3
  GOOD_LENGTH = 3
  NICE_LENGTH = 4
  MAX_BASE = 20
  MAX_BITS = 4
  MAX_CODE_LENGTH = 3
  REPEAT <- MCRepeat
  ZEROS <- MCRepeat
  MANY <- MCMany
  CODE_LENGTH_ORDER <- MCOrder
  OUT_CHUNK = 1
  MADE_UP = 4
  Texts <- MCTexts
  PROB_BITS = 2
  MOVE_BITS = 1
  LC = 1
  PB = 1
  LEN_BITS = 1
  HIGH_BITS = 1
  LEN_STATES = 2
  SLOT_BITS = 4
  END_POS_MODEL_INDEX = 6
  ALIGN_BITS = 1
  QUAD = 3
  DEPTH = 3
  SKIP_SHIFT = 2
  LZMA_CHUNK = 3
  Jobs <- MCJobs
  MaxDamaged = 4
PROPERTY CutIsReported
