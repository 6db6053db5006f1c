\* Components that share no state, one at a time.
CONSTANTS
  g1 = g1
  g2 = g2
  g3 = g3
  g4 = g4
  t1 = t1
  t2 = t2
  t3 = t3
  p1 = p1
  \* IdentityStore
  Procs = {pr1, pr2}
  Dirs = {di1, di2}
  Password = Password
  Identities = {id1, id2, id3}
  LocalKeys = {lk1, lk2, lk3}
  Plain = Plain
  Missing = Missing
  Torn = Torn
  \* StorageKey
  Users = {u1, u2}
  Keys = {k1, k2, k3, k4, k5}
  NoKey = NoKey
  \* Contacts
  Holders = {h1, h2}
  Aliases = {a1, a2, a3}
  BadAliases = {a3}
  Details = {de1}
  \* MessageJournal
  Journalled = {m1, m2}
  JournalCalls = {c1, c2}
  MaxJournal = 2
  Absent = Absent
  HalfWritten = HalfWritten
  \* RelayManager
  KnownRelays = {r1, r2}
  FirstRelays = {r1}
  OperationThreshold = 3
  MaxCount = 1
  NoStats = NoStats
  Truncated = Truncated
  \* MessageCodec
  Texts = {x1, x2}
  Batchlike = {x2}
  Sizes = {0, 2, 3, 8, 10, 11}
  MinCompressSize = 3
  MaxUncompressedSize = 10
  CompressionPercent = 80
  MaxMessages = 2
  Garbage = Garbage
  \* TokenBucket
  Capacity = 3
  RefillRate = 2
  Second = 3
  MaxTime = 9
  \* GroupSubscriptions
  Groups = {g1, g2, g3, g4}
  Topics = {t1, t2, t3}
  TopicOf <- MCTopicOf
  LongTopics = {t3}
  Posts = {p1}
  GroupOf <- MCGroupOf
  MaxHistory = 2
  MaxOverlaps = 1
  \* GroupManager
  Pubkeys = {pk1, pk2, pk3}
  Unknown = Unknown
  MaxMute = 1
SPECIFICATION MCSpec
INVARIANTS LinesReadable HeldIsStored OffsetsRight StatsSaved BatchDecodes BucketBounds SubscriptionsMatch OneOwner
PROPERTIES IdentityStays SanctionsKept
CHECK_DEADLOCK FALSE
