CONSTANTS
  BlockBytes = 4
  OutBytes = 4
  Word = 6
  MaxStream = 18
  MaxOut = 13
  LengthWord = 4
  MinSalt = 1
  Configs <- MCConfigs
  Passwords <- MCPasswords
  Salts <- MCSalts
  Secrets <- MCSecrets
  Datas <- MCDatas
SPECIFICATION HashCallsSpec
INVARIANTS
  CutsDoNotMatter
  LongFollowsRFC
  VerifiesExactly
  LeavesNoSecret
