----------------------------- MODULE MessageCodec -----------------------------
(***************************************************************************)
(* Compression and batches of src/src/utils/performance.js, as functions   *)
(* of their input, with what _publishBatch of                              *)
(* src/src/network/nostr-network.js makes of a batch.                      *)
(*                                                                         *)
(* A text has a size, and gzip makes it some size; what it says does not   *)
(* matter.  Bytes are a body and whether they are zipped: unzipping bytes  *)
(* that are not zipped throws, and zipped bytes are no text.  Base64 and   *)
(* JSON lose nothing.                                                      *)
(***************************************************************************)
EXTENDS Integers, Sequences

CONSTANTS
  Texts,               \* messages
  Batchlike,           \* of them, objects with a field _batch of their own
  Sizes,               \* sizes of a text and of what gzip makes of it
  MinCompressSize,     \* CompressionConfig
  MaxUncompressedSize,
  CompressionPercent,  \* COMPRESSION_THRESHOLD, in percent
  MaxMessages,         \* bound: messages of a batch
  Garbage              \* what is no text, or an exception

ASSUME MessageCodecAssumption ==
  /\ Batchlike \subseteq Texts /\ Sizes \subseteq Nat
  /\ MinCompressSize \in Nat /\ MaxUncompressedSize \in Nat /\ CompressionPercent \in 0..100

VARIABLES
  messages,            \* a batch
  compress,            \* the option
  originalSize,        \* size of its text
  gzipSize             \* size of that when zipped

mcVars == <<messages, compress, originalSize, gzipSize>>

McTypeOK ==
  /\ messages \in Seq(Texts) /\ compress \in BOOLEAN
  /\ originalSize \in Sizes /\ gzipSize \in Sizes

McInit ==
  /\ messages \in UNION {[1..n -> Texts] : n \in 1..MaxMessages}
  /\ compress \in BOOLEAN
  /\ originalSize \in Sizes /\ gzipSize \in Sizes

\* The functions change nothing.
McNext == UNCHANGED mcVars
McSpec == McInit /\ [][McNext]_mcVars

----------------------------------------------------------------------------
(* Compression. *)

Bytes(zipped, body) == [zipped |-> zipped, body |-> body]
Gunzip(bytes) == IF bytes.zipped THEN bytes.body ELSE Garbage
Utf8(bytes) == IF bytes.zipped THEN Garbage ELSE bytes.body

\* compressIfNeeded: a large text is compressed whether or not that makes it smaller.
CompressIfNeeded(body) ==
  LET worthwhile == /\ originalSize >= MinCompressSize
                    /\ \/ originalSize > MaxUncompressedSize
                       \/ gzipSize * 100 < originalSize * CompressionPercent
  IN [compressed |-> worthwhile, data |-> Bytes(worthwhile, body)]

DecompressIfNeeded(bytes, isCompressed) == IF isCompressed THEN Gunzip(bytes) ELSE Utf8(bytes)

EncodeCompressed(body) ==
  LET result == CompressIfNeeded(body) IN
  [prefix |-> IF result.compressed THEN "gzip" ELSE "raw", data |-> result.data]

DecodeCompressed(encoded) == DecompressIfNeeded(encoded.data, encoded.prefix = "gzip")

----------------------------------------------------------------------------
(* Batches.  A batch has a field _batch, and so may a message. *)

Single(text) == [_batch |-> text \in Batchlike, single |-> text]
Batch(result) == [_batch |-> TRUE, compressed |-> result.compressed, data |-> result.data]

CreateBatch(batch) ==
  CASE Len(batch) = 1 -> Single(batch[1])
    [] compress /\ Len(batch) # 1 -> Batch(CompressIfNeeded(batch))
    [] OTHER -> Batch([compressed |-> FALSE, data |-> Bytes(FALSE, batch)])

\* Mutant: what is in a batch counts as compressed.
DecompressAlways(batch) ==
  IF ~batch._batch THEN <<batch.single>>
  ELSE IF "data" \in DOMAIN batch THEN Gunzip(batch.data) ELSE Garbage

\* decompressBatch; a message that looks like a batch has no data of one.
DecompressBatch(batch) ==
  IF ~batch._batch THEN <<batch.single>>
  ELSE IF "data" \in DOMAIN batch THEN DecompressIfNeeded(batch.data, batch.compressed)
       ELSE Garbage

\* What flush hands to the callback.
FlushData(batch) ==
  LET result == CompressIfNeeded(batch) IN
  IF compress /\ result.compressed
  THEN [compressed |-> TRUE, data |-> Batch(result)]
  ELSE [compressed |-> FALSE, data |-> batch]

\* The messages that _publishBatch publishes of it.
Published(flushed) ==
  IF flushed.compressed THEN DecompressBatch(flushed.data) ELSE flushed.data

----------------------------------------------------------------------------
(* Properties. *)

\* Whatever sizes a batch has before and after compression, what was compressed is
\* taken for compressed and nothing else is: a text is decoded to itself, the network
\* publishes the messages that were flushed, each once and in their order, and
\* decompressBatch returns the messages of createBatch, unless it is one message
\* that looks like a batch.
BatchDecodes ==
  /\ DecodeCompressed(EncodeCompressed(messages)) = messages
  /\ Published(FlushData(messages)) = messages
  /\ \/ DecompressBatch(CreateBatch(messages)) = messages
     \/ Len(messages) = 1 /\ messages[1] \in Batchlike
=============================================================================
