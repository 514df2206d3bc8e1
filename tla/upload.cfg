CONSTANTS
  f1 = f1
  f2 = f2
  FileIds = {f1, f2}
  NonceLen = 3
  Byte = 2
  MaxTotalChunks = 3
  Uploads <- MCUploads
  NoHash = NoHash
  NoFileId = NoFileId
SPECIFICATION Spec
INVARIANT ForwardedIsWholeFile
INVARIANT IntactUploadNotRefused
