CONSTANTS
  NoOrigin = NoOrigin
  ioBrokenPipe = ioBrokenPipe
  None = NoOrigin
  Function = "aes_cbc_encrypt"
  CodePoints <- MCCodePoints
  MaxText = 1
  Numbers <- MCNumbers
  UsizeBits = 8
  IoKinds <- MCIoKinds
SPECIFICATION Spec
\* a call ends once it has returned or failed
CHECK_DEADLOCK FALSE
INVARIANTS
  TypeOK
  NoUnwrapPanic
  BindsFaithfully
  FirstBadArgumentReported
