CONSTANTS
  BlockSize = 2
  BufferSizes = {1, 4}
  Streams <- MCStreams
  SrcLen = 8
  DestLens = {6, 8}
  StreamErrors = TRUE
  CopyErrors = TRUE

SPECIFICATION Spec

INVARIANT TypeOK
INVARIANT CopiedInOrder
INVARIANT OkMeansCopied
INVARIANT OkMeansDrained
PROPERTY Terminates

\* copy_regions returns (Ok, Err or a panic) and the copier thread ends.
CHECK_DEADLOCK FALSE
