------------------------------ MODULE Transfer ------------------------------
(***************************************************************************)
(* The contents of an upload, from the browser that seals it chunk by      *)
(* chunk to the one that opens it again.  A sealed byte is named by its    *)
(* chunk and its place in it, a plain one by its place in the file.        *)
(* Opening a frame succeeds only if it is one sealed chunk from the first  *)
(* byte to the last, and, for what has been uploaded since chunks are      *)
(* bound to their place, if it is the chunk that is due.  In between,      *)
(* chunks are stored in some order and the response comes in pieces of any *)
(* size, breaks off or goes on too long.                                   *)
(***************************************************************************)
EXTENDS Integers, FiniteSets, SequencesExt

CONSTANTS MaxSize,   \* bound: bytes of a file
          ChunkSize, \* FILE_CHUNK_SIZE
          Overhead,  \* FILE_ENCRYPTION_OVERHEAD
          MaxPiece   \* bound: bytes that arrive at once

ASSUME TransferAssumption == {MaxSize, ChunkSize, Overhead, MaxPiece} \subseteq Nat \ {0}

VARIABLES size,    \* bytes of the file, in its row
          format,  \* "v2" if chunks were sealed with their place, or "v1"
          order,   \* which chunk is stored at which place
          source,  \* sealed bytes that have not arrived
          piece,   \* the network chunk at hand, from its offset on
          frame,   \* the frame being read
          chunk,   \* number of the chunk that is due, from 0
          mode,    \* encryptionMode
          written, \* bytes handed to the writable
          received, phase

transferVars == <<size, format, order, source, piece, frame, chunk, mode, written, received, phase>>

Count(n) == (n + ChunkSize - 1) \div ChunkSize
Length(i) == IF ChunkSize <= size - i * ChunkSize THEN ChunkSize ELSE size - i * ChunkSize
EncryptedSize == size + Count(size) * Overhead

\* The plain bytes of a chunk, by their place in the file.
Plain(i) == [k \in 1..Length(i) |-> i * ChunkSize + k]
PlainText == [k \in 1..size |-> k]
Sealed(i) == [k \in 1..(Length(i) + Overhead) |-> <<i, k>>]
\* What handleChunk has stored at the first places.
StoredTo[i \in 0..Count(size)] ==
  IF i = 0 THEN <<>> ELSE StoredTo[i - 1] \o Sealed(order[i])
Stored == StoredTo[Count(size)]
InOrder == \A i \in 1..Count(size) : order[i] = i - 1

\* Mutant of Opened: the number of the chunk is not part of what is sealed.
OpenedAnywhere(f, i, way) ==
  {j \in 0..(Count(size) - 1) : /\ f = Sealed(j) /\ format = way
                                /\ way = "v2" => Length(j) = Length(i)}

\* decryptChunk: the chunks the frame can be, none if authentication fails.
Opened(f, i, way) ==
  {j \in 0..(Count(size) - 1) : f = Sealed(j) /\ format = way /\ (way = "v2" => j = i)}

\* downloadFile refuses an object whose size is not the expected one; the
\* metadata and the headers are computed from the same row.
InitTransfer ==
  /\ size \in 1..MaxSize /\ format \in {"v1", "v2"}
  /\ order \in [1..Count(size) -> 0..(Count(size) - 1)]
  /\ Len(Stored) = EncryptedSize
  /\ \E cut \in 0..Len(Stored), surplus \in 0..1 :
       source = IF surplus = 0 THEN SubSeq(Stored, 1, cut) ELSE Stored \o <<<<0, 1>>>>
  /\ piece = <<>> /\ frame = <<>> /\ chunk = 0 /\ mode = "unknown"
  /\ written = <<>> /\ received = 0 /\ phase = "reading"

Due == Length(chunk) + Overhead
Fails == /\ phase' = "failed"
         /\ UNCHANGED <<size, format, order, source, piece, frame, chunk, mode, written, received>>

\* reader.read
Arrive ==
  /\ phase = "reading" /\ piece = <<>> /\ Len(frame) < Due
  /\ \/ \E n \in 1..MaxPiece :
          /\ n <= Len(source)
          /\ piece' = SubSeq(source, 1, n)
          /\ source' = SubSeq(source, n + 1, Len(source))
          /\ UNCHANGED <<size, format, order, frame, chunk, mode, written, received, phase>>
     \/ source = <<>> /\ Fails

\* One round of readFrame.
Copy ==
  LET missing == Due - Len(frame)
      n == IF Len(piece) < missing THEN Len(piece) ELSE missing
  IN /\ phase = "reading" /\ piece /= <<>> /\ Len(frame) < Due
     /\ frame' = frame \o SubSeq(piece, 1, n)
     /\ piece' = SubSeq(piece, n + 1, Len(piece))
     /\ received' = received + n
     /\ phase' = IF received' > EncryptedSize THEN "failed" ELSE phase
     /\ UNCHANGED <<size, format, order, source, chunk, mode, written>>

\* decryptFrame, the write and the step to the next chunk.  The way the first
\* frame can be opened is kept for the whole file.
Decrypt ==
  /\ phase = "reading" /\ Len(frame) = Due
  /\ LET ways == IF mode = "unknown" THEN {"v1", "v2"} ELSE {mode}
         fits == {w \in ways : Opened(frame, chunk, w) /= {}}
     IN \/ fits = {} /\ Fails
        \/ \E way \in fits : \E j \in Opened(frame, chunk, way) :
             /\ "v2" \in fits => way = "v2"
             /\ mode' = way
             /\ IF Length(j) = Length(chunk)
                THEN /\ written' = written \o Plain(j)
                     /\ frame' = <<>> /\ chunk' = chunk + 1
                     /\ phase' = IF chunk + 1 = Count(size) THEN "finishing" ELSE phase
                ELSE phase' = "failed" /\ UNCHANGED <<written, frame, chunk>>
             /\ UNCHANGED <<size, format, order, source, piece, received>>

\* Nothing may follow, and both sizes must fit.
Finish ==
  /\ phase = "finishing"
  /\ phase' = IF piece = <<>> /\ source = <<>> /\ received = EncryptedSize /\ Len(written) = size
              THEN "done" ELSE "failed"
  /\ UNCHANGED <<size, format, order, source, piece, frame, chunk, mode, written, received>>

\* The user cancels, or the writable throws.
Abort == phase \in {"reading", "finishing"} /\ Fails

NextTransfer == Arrive \/ Copy \/ Decrypt \/ Finish \/ Abort

-----------------------------------------------------------------------------
(* What is written is at all times the beginning of the file, and a        *)
(* download that succeeds has written all of it, however the response was  *)
(* cut to pieces, cut off or prolonged, and whatever order its chunks were *)
(* stored in; of a file of the first format only if that order was right   *)
(* (StreamingDownloadService.ts, streamDecryptToFile).                     *)
FileExact ==
  format = "v2" \/ InOrder =>
    /\ IsPrefix(written, PlainText)
    /\ phase = "done" => written = PlainText
=============================================================================
