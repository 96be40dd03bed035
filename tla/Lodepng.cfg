\* Deflate: all strings of up to four pieces, a window of 8 to 32 bytes, blocks of 9
\* or 10 bytes and matches of up to 7, so that windows wrap and matches meet block
\* ends.  Png: mixes of nine kinds of pixels, every width up to nine in every mode,
\* each filter strategy, and a palette of 18 colours with one colour too many.
SPECIFICATION MCSpec
CONSTANTS
  FIRSTBITS = 3
  MAX_SUPPORTED_DEFLATE_LENGTH = 7
  MinBlock = 9
  MaxBlock = 10
  MaxStored = 5
  Inputs <- MCInputs
  Settings <- MCSettings
  MaxColors = 18
  FewPixels = 16
  Frames <- MCFrames
INVARIANTS
  ZeroCountsHold
  EncodedIsExact
  RoundTrip
  CodeLengthsOptimal
  DecodedIsRendered
  CompleteFileDecodes
  CutFileIsRefused
  UnreadScanlinesIntact
