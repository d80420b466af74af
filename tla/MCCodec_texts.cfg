SPECIFICATION Spec
CONSTANTS
    Digest <- MCDigest
    ErrorText <- MCErrors
    Arguments <- MCArguments
    TooSmall = 3
    MaxAnswer = 20
    ByteBits = 2
    BlockLen = 2
    HLen = 1
    HashBlock = 6
    LengthBytes = 4
    Xor <- MCXor
    Cipher <- MCCipher
    Hash <- MCHash
    Uids = {10, 7, 123}
    Payloads <- MCPayloads
    Lists <- MCLists
    Infos <- MCInfos
    Plains <- MCPlains
    AesKeys = {1, 2}
    Ivs <- MCIvs
    KeyBits = 12
    KeyTexts <- MCKeyTexts
    Seeds <- MCSeeds
    Hashed <- MCHashed
    Packets <- MCPackets
    SumLen = 3
    Noise = {0, 1, 9, 10, 11, 13}
INVARIANTS
    RequestUnderstood
    InfoRestored
    RequestWholeOrRefused
    AnswerWholeOrRefused
    MessageDeciphered
    KeyUnsealed
    UidsUnderstood
    HashedAsSpecified
    PacketRestored
