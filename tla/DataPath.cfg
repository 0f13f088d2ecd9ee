CONSTANTS
  Window = 4
  DiffMod = 16
  MaxSeq = 9
  MaxPackets = 4
  MaxKeepalives = 1
  MaxSessions = 2
  Ends = {A, B}
  Other = C
  Psks = {p, q}
  MaxMade = 5
  Devices = {A, B}
  Addresses = {a, b}
  Roaming = {A}
  CookieAge = 1
  MaxInitiations = 2
  MaxTime = 1
  Symbols = {9, 62, 64, 65}
  MaxChars = 8
  SampleBytes = {0, 107, 255}
  MaxBytes = 5
  KeyLength = 5
  HashBlock = 4
  WordMod = 8
  MacBlock = 4
  PadBlock = 2
  KeyLens = {0, 1, 3, 4}
  MaxFed = 21
  MaxPacket = 5
  Limbs = 3
  Base = 64
  Multipliers = {1, 2, 63, 4095, 5461}
  Messages = {0, 1, 32767, 47000, 65532, 65535}
  PadWord = 16
  Pads = {0, 1, 4369, 61680, 65520, 65535}
  MaxBlocks = 3
  FieldBits = 10
  Gap = 3
  WordBits = 6
  A24 = 5
  Scalars = {40, 77, 264, 511, 1000}
  Points = {0, 1, 2, 9, 100, 508, 509, 700, 1023}
SPECIFICATION DataSpec
INVARIANTS
  AcceptedOnce WindowExact
  ReuseBounded SpoiledBounded
  KeysAgree ConfigurationAgrees NonceZeroOnce
  ServesReachable CookieTakenOnce
  SameKeys EncodingDecodes
  SameAsOneShot OpensOnlyItself
  TagExact
  FieldExact SecretsAgree ChainInverts
PROPERTY Implements
CHECK_DEADLOCK FALSE
