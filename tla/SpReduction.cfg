SPECIFICATION SpSpec
CONSTANTS
  P = 59
  Q = 53
  B = 37
  BaseX = 1
  BaseY = 25
  Bits = 6
  Window = 4
  DigitBits = 5
  Stripes = 3
  MaxSigGen = 2
  Zs <- MCZs
  Hashes <- MCHashes
  Keys <- MCKeys
  SigS <- MCSigS
  Blocks <- MCBlocks
  Widths <- MCWidths
  DigitsBits = 7
  Width = 3
  ByteBits = 2
  Moduli <- MCModuli
  Words <- MCWords
  Operands <- MCOperands
  ShortBits = 11
  ShortWidth = 3
  Divisors <- MCDivisors
  Factors <- MCFactors
  ModBits = 10
  ShiftWindow = 2
  ExpModuli <- MCExpModuli
  Bases <- MCBases
  Exponents <- MCExponents
  RsaKeys <- MCRsaKeys
  Semi = 2
  SemiByteBits = 2
  MliBits = 3
  Mark = 1
  PadBuf = 6
  Encrypt <- MCEncrypt
  Decrypt <- MCDecrypt
  WrapKeys <- MCWrapKeys
  Ciphertexts <- MCCiphertexts
  MdSize = 2
  CtrModulus = 4
  MaxOut = 9
INVARIANTS
  ReductionsAreExact
CHECK_DEADLOCK FALSE
