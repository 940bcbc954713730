----------------------------- MODULE FileStreams ----------------------------
(***************************************************************************)
(* An input file on its way through S3, encrypted at rest                  *)
(* (internal/crypto/aes.go and its twin in the relay): the gateway seals   *)
(* it chunk by chunk while it is uploaded, the relay opens it chunk by     *)
(* chunk while it is posted to the model as a multipart form               *)
(* (relay/internal/adapter/multipart.go).                                  *)
(*                                                                         *)
(* Three goroutines write into an io.Pipe each: Encrypt's into "body",     *)
(* which the S3 uploader reads; Decrypt's into "plain", which the          *)
(* adapter's reads; the adapter's into "form", which the HTTP client       *)
(* reads.  The bytes of a file are 1, 2, ..., its size.                    *)
(***************************************************************************)
EXTENDS Integers, Sequences

CONSTANTS
  chunkPlainSize, gcmTagSize, noncePrefixLen,
  Counters,      (* how many values the chunk counter has                   *)
  Sizes,         (* sizes a file may have                                   *)
  Fails          (* what may fail                                           *)

chunkCipherSize == chunkPlainSize + gcmTagSize

ASSUME StreamAssumption ==
  /\ chunkPlainSize \in Nat \ {0}
  /\ gcmTagSize \in Nat \ {0}
  /\ noncePrefixLen \in Nat \ {0}
  /\ Counters \in Nat \ {0}
  /\ \A size \in Sizes : size \in Nat /\ size < chunkPlainSize * Counters
  /\ Fails \subseteq {"source", "upload", "download", "url", "model"}

Goroutines == {"encrypt", "decrypt", "multipart"}

out == [encrypt |-> "body", decrypt |-> "plain", multipart |-> "form"]

VARIABLES
  size,      (* of the file                                                 *)
  next,      (* the next step of each goroutine; "eof" and "error": it is   *)
             (* about to close its pipe                                     *)
  sealed,    (* Encrypt: chunk counter, and plaintext bytes read            *)
  opened,    (* Decrypt: chunk counter, and object bytes read               *)
  pipe,      (* each pipe: the bytes of a Write in progress, how the writer *)
             (* has closed it, and whether the reader has not               *)
  upload,    (* S3Client.Upload, and the bytes it has read                  *)
  call       (* process in the relay, and the file bytes the model has      *)

streamVars == <<size, next, sealed, opened, pipe, upload, call>>

StreamInit ==
  /\ size \in Sizes
  /\ next = [g \in Goroutines |-> IF g = "encrypt" THEN "prefix" ELSE "idle"]
  /\ sealed = [i |-> 0, at |-> 0]
  /\ opened = [i |-> 0, at |-> 0]
  /\ pipe = [p \in {out[g] : g \in Goroutines} |->
               [data |-> <<>>, end |-> "open", reader |-> TRUE]]
  /\ upload = [pc |-> "reading", body |-> <<>>]
  /\ call = [pc |-> "get", got |-> <<>>]

-----------------------------------------------------------------------------
(* The format                                                               *)

(* AES-GCM, external: a byte of a sealed chunk is known by the nonce's      *)
(* counter, the chunk and its place; only a whole chunk can be opened, and  *)
(* only with its counter.                                                   *)
Seal(i, data) == [k \in 1..Len(data) + gcmTagSize |-> [i |-> i, data |-> data, k |-> k]]

CanOpen(i, bytes) == bytes = Seal(i, bytes[1].data)

(* The random prefix of the file's nonces.                                  *)
NoncePrefix == [k \in 1..noncePrefixLen |-> [i |-> Counters, data |-> <<>>, k |-> k]]

(* Variant: with a last chunk that may be empty.                            *)
EncryptedSizeWithLast(plainSize) ==
  noncePrefixLen + (plainSize \div chunkPlainSize) * chunkCipherSize
    + (plainSize % chunkPlainSize) + gcmTagSize

(* The length of an encrypted file; -1 if that of the file is unknown.      *)
EncryptedSize(plainSize) ==
  LET lastPlain == plainSize % chunkPlainSize IN
  IF plainSize < 0 THEN -1
  ELSE noncePrefixLen + (plainSize \div chunkPlainSize) * chunkCipherSize
         + (IF plainSize = 0 \/ lastPlain > 0 THEN lastPlain + gcmTagSize ELSE 0)

Least(m, n) == IF m < n THEN m ELSE n

-----------------------------------------------------------------------------
(* Goroutines and pipes.  A Write returns when its bytes have been read.    *)

Goes(g, from, to) ==
  /\ next[g] = from
  /\ pipe[out[g]].reader
  /\ pipe[out[g]].data = <<>>
  /\ next' = [next EXCEPT ![g] = to]

Write(p, bytes) == pipe' = [pipe EXCEPT ![p].data = <<bytes>>]

(* CloseWithError, after the last Write or because the reader has closed.   *)
Close(g) ==
  LET p == out[g] IN
  /\ \/ /\ next[g] \in {"eof", "error"}
        /\ pipe[p].data = <<>>
        /\ pipe' = [pipe EXCEPT ![p].end = next[g]]
     \/ /\ next[g] \notin {"idle", "done"}
        /\ ~pipe[p].reader
        /\ UNCHANGED pipe
  /\ next' = [next EXCEPT ![g] = "done"]
  /\ UNCHANGED <<size, sealed, opened, upload, call>>

Ended(p, end) == pipe[p].data = <<>> /\ pipe[p].end = end

-----------------------------------------------------------------------------
(* encryptStream                                                            *)

EncryptPrefix ==
  /\ Goes("encrypt", "prefix", "chunk")
  /\ Write("body", NoncePrefix)
  /\ UNCHANGED <<size, sealed, opened, upload, call>>

(* Variant: the counter stays.                                              *)
AdvanceSameNonce(n) == sealed' = [sealed EXCEPT !.at = @ + n]

(* The next chunk has the next counter, a uint32.                           *)
Advance(n) == sealed' = [i |-> (sealed.i + 1) % Counters, at |-> sealed.at + n]

(* Variant: the whole buffer is sealed, with what was in it.                *)
SealChunkBuffer(n) ==
  /\ Advance(n)
  /\ IF n > 0 \/ sealed.i = 0
     THEN Write("body", Seal(sealed.i, [k \in 1..chunkPlainSize |-> sealed.at + k]))
     ELSE UNCHANGED pipe

(* Of what was read, n bytes, a chunk is sealed; of nothing too, at first.  *)
SealChunk(n) ==
  /\ Advance(n)
  /\ IF n > 0 \/ sealed.i = 0
     THEN Write("body", Seal(sealed.i, [k \in 1..n |-> sealed.at + k]))
     ELSE UNCHANGED pipe

(* ReadFull, which is short at the end of the file, or when the source      *)
(* fails.  The source is a file or a buffer, whose errors are not           *)
(* ErrUnexpectedEOF: that would be taken for the end.                       *)
EncryptChunk ==
  LET n == Least(chunkPlainSize, size - sealed.at) IN
  /\ \/ /\ Goes("encrypt", "chunk", IF n < chunkPlainSize THEN "eof" ELSE "chunk")
        /\ SealChunk(n)
     \/ /\ "source" \in Fails
        /\ Goes("encrypt", "chunk", "error")
        /\ \E m \in 0..Least(n, chunkPlainSize - 1) : SealChunk(m)
  /\ UNCHANGED <<size, opened, upload, call>>

-----------------------------------------------------------------------------
(* S3Client.Upload                                                          *)

UploadRead ==
  /\ upload.pc = "reading"
  /\ pipe["body"].data # <<>>
  /\ upload' = [upload EXCEPT !.body = @ \o Head(pipe["body"].data)]
  /\ pipe' = [pipe EXCEPT !["body"].data = <<>>]
  /\ UNCHANGED <<size, next, sealed, opened, call>>

(* Variant: without the deferred call.                                      *)
UploadReturnOpen(pc) ==
  /\ upload.pc = "reading"
  /\ upload' = [upload EXCEPT !.pc = pc]
  /\ UNCHANGED pipe

(* The reader is closed by the deferred call.                               *)
UploadReturn(pc) ==
  /\ upload.pc = "reading"
  /\ upload' = [upload EXCEPT !.pc = pc]
  /\ pipe' = [pipe EXCEPT !["body"].reader = FALSE]

(* The object is there when the uploader has come to the end; it is not     *)
(* when reading has failed, or S3 has.                                      *)
Upload ==
  /\ \/ Ended("body", "eof") /\ UploadReturn("stored")
     \/ Ended("body", "error") /\ UploadReturn("failed")
     \/ "upload" \in Fails /\ UploadReturn("failed")
  /\ UNCHANGED <<size, next, sealed, opened, call>>

-----------------------------------------------------------------------------
(* decryptStream                                                            *)

ObjectLeft == Len(upload.body) - opened.at

DecryptPrefix ==
  /\ \/ /\ Goes("decrypt", "prefix", "chunk")
        /\ opened' = [opened EXCEPT !.at = noncePrefixLen]
     \/ /\ "download" \in Fails
        /\ Goes("decrypt", "prefix", "error")
        /\ UNCHANGED opened
  /\ UNCHANGED <<size, sealed, pipe, upload, call>>

(* Variant: whatever ends the stream between two chunks ends it cleanly.    *)
OpenChunkLeniently(n, err) ==
  LET bytes == SubSeq(upload.body, opened.at + 1, opened.at + n) IN
  IF n = 0 THEN Goes("decrypt", "chunk", "eof") /\ UNCHANGED <<opened, pipe>>
  ELSE IF CanOpen(opened.i, bytes)
  THEN /\ Goes("decrypt", "chunk", CASE err = "none" -> "chunk" [] err = "other" -> "error"
                                     [] OTHER -> "eof")
       /\ Write("plain", bytes[1].data)
       /\ opened' = [i |-> (opened.i + 1) % Counters, at |-> opened.at + n]
  ELSE Goes("decrypt", "chunk", "error") /\ UNCHANGED <<opened, pipe>>

(* What is done with the n bytes and the error that ReadFull has returned.  *)
OpenChunk(n, err) ==
  LET bytes == SubSeq(upload.body, opened.at + 1, opened.at + n) IN
  IF n = 0 THEN /\ Goes("decrypt", "chunk", IF err = "EOF" THEN "eof" ELSE "error")
                /\ UNCHANGED <<opened, pipe>>
  ELSE IF CanOpen(opened.i, bytes)
  THEN /\ Goes("decrypt", "chunk", CASE err = "none" -> "chunk" [] err = "other" -> "error"
                                     [] OTHER -> "eof")
       /\ Write("plain", bytes[1].data)
       /\ opened' = [i |-> (opened.i + 1) % Counters, at |-> opened.at + n]
  ELSE Goes("decrypt", "chunk", "error") /\ UNCHANGED <<opened, pipe>>

(* A connection that breaks ends the body with ErrUnexpectedEOF, which is   *)
(* also what ReadFull makes of an EOF after some bytes.                     *)
DecryptChunk ==
  LET n == Least(chunkCipherSize, ObjectLeft) IN
  /\ \/ OpenChunk(n, CASE n = chunkCipherSize -> "none" [] n = 0 -> "EOF"
                       [] OTHER -> "unexpected EOF")
     \/ /\ "download" \in Fails
        /\ \E m \in 0..Least(n, chunkCipherSize - 1), err \in {"unexpected EOF", "other"} :
             OpenChunk(m, err)
  /\ UNCHANGED <<size, sealed, upload, call>>

-----------------------------------------------------------------------------
(* multipartAdapter.Call                                                    *)

(* The fields and the header of the part for the file.                      *)
WriteFields ==
  /\ Goes("multipart", "fields", "copy")
  /\ Write("form", <<>>)
  /\ UNCHANGED <<size, sealed, opened, upload, call>>

(* io.Copy, and at the end the form's last line; after an error not that.   *)
Copy ==
  /\ \/ /\ pipe["plain"].data # <<>>
        /\ Goes("multipart", "copy", "copy")
        /\ pipe' = [pipe EXCEPT !["plain"].data = <<>>, !["form"].data = pipe["plain"].data]
     \/ /\ Ended("plain", "eof")
        /\ Goes("multipart", "copy", "eof")
        /\ Write("form", <<>>)
     \/ /\ Ended("plain", "error") \/ ~pipe["plain"].reader
        /\ Goes("multipart", "copy", "error")
        /\ UNCHANGED pipe
  /\ UNCHANGED <<size, sealed, opened, upload, call>>

-----------------------------------------------------------------------------
(* process, and the HTTP client                                             *)

GetObject ==
  /\ call.pc = "get"
  /\ upload.pc = "stored"
  /\ call' = [call EXCEPT !.pc = "call"]
  /\ next' = [next EXCEPT !["decrypt"] = "prefix"]
  /\ UNCHANGED <<size, sealed, opened, pipe, upload>>

(* Without a URL, Call returns before it starts the goroutine.              *)
Call ==
  /\ call.pc = "call"
  /\ \/ /\ call' = [call EXCEPT !.pc = "send"]
        /\ next' = [next EXCEPT !["multipart"] = "fields"]
     \/ /\ "url" \in Fails
        /\ call' = [call EXCEPT !.pc = "failed"]
        /\ UNCHANGED next
  /\ UNCHANGED <<size, sealed, opened, pipe, upload>>

Send ==
  /\ call.pc = "send"
  /\ pipe["form"].data # <<>>
  /\ call' = [call EXCEPT !.got = @ \o Head(pipe["form"].data)]
  /\ pipe' = [pipe EXCEPT !["form"].data = <<>>]
  /\ UNCHANGED <<size, next, sealed, opened, upload>>

(* Do returns, and closes the form: with an answer to the whole request, or *)
(* an error: of the body, or of the model, the connection or the context at *)
(* any time.                                                                *)
DoReturn(pc) ==
  /\ call.pc = "send"
  /\ call' = [call EXCEPT !.pc = pc]
  /\ pipe' = [pipe EXCEPT !["form"].reader = FALSE]

Do ==
  /\ \/ Ended("form", "eof") /\ DoReturn("answered")
     \/ Ended("form", "error") /\ DoReturn("failed")
     \/ "model" \in Fails /\ DoReturn("failed")
  /\ UNCHANGED <<size, next, sealed, opened, upload>>

(* The deferred body.Close of process.                                      *)
CloseBody ==
  /\ call.pc \in {"answered", "failed"}
  /\ pipe["plain"].reader
  /\ pipe' = [pipe EXCEPT !["plain"].reader = FALSE]
  /\ UNCHANGED <<size, next, sealed, opened, upload, call>>

GoroutineStep ==
  \/ EncryptPrefix \/ EncryptChunk
  \/ DecryptPrefix \/ DecryptChunk
  \/ WriteFields \/ Copy

CallerStep ==
  \/ UploadRead \/ Upload
  \/ GetObject \/ Call \/ Send \/ Do \/ CloseBody

StreamNext ==
  \/ GoroutineStep
  \/ \E g \in Goroutines : Close(g)
  \/ CallerStep

(* Each goroutine, the upload and process go on when they can.              *)
StreamFairness ==
  /\ WF_streamVars(EncryptPrefix \/ EncryptChunk \/ Close("encrypt"))
  /\ WF_streamVars(DecryptPrefix \/ DecryptChunk \/ Close("decrypt"))
  /\ WF_streamVars(WriteFields \/ Copy \/ Close("multipart"))
  /\ WF_streamVars(UploadRead \/ Upload)
  /\ WF_streamVars(GetObject \/ Call \/ Send \/ Do \/ CloseBody)

StreamSpec == StreamInit /\ [][StreamNext]_streamVars /\ StreamFairness

-----------------------------------------------------------------------------
Position == [i : 0..Counters - 1, at : Nat]

(* The types of the state; only bytes of the file are sealed and sent.      *)
StreamTypeOK ==
  /\ size \in Sizes
  /\ \A g \in Goroutines :
       next[g] \in {"idle", "prefix", "chunk", "fields", "copy", "eof", "error", "done"}
  /\ sealed \in Position /\ sealed.at <= size
  /\ opened \in Position /\ opened.at <= Len(upload.body)
  /\ \A p \in DOMAIN pipe :
       Len(pipe[p].data) <= 1 /\ pipe[p].end \in {"open", "eof", "error"}
  /\ upload.pc \in {"reading", "stored", "failed"}
  /\ \A k \in DOMAIN upload.body : \A l \in DOMAIN upload.body[k].data :
       upload.body[k].data[l] \in 1..size
  /\ call.pc \in {"get", "call", "send", "answered", "failed"}
  /\ \A k \in DOMAIN call.got : call.got[k] \in 1..size

(* The formula of EncryptedSize, which the code's tests alone use so far,   *)
(* is the length of the stream that encryptStream writes, for files of      *)
(* every length around a multiple of the chunk size and for the empty one   *)
(* (aes.go:57-74, 127-138).                                                 *)
StoredSize == upload.pc = "stored" => Len(upload.body) = EncryptedSize(size)

(* No two chunks of an object are sealed with one nonce (aes.go:12-14).     *)
NonceUsedOnce ==
  \A k, l \in DOMAIN upload.body :
    /\ upload.body[k].i = upload.body[l].i
    /\ upload.body[k].k = upload.body[l].k
    => k = l

(* A model that has got a whole form has got the whole file: neither a      *)
(* source, nor a pipe, nor a connection that fails half-way is taken for    *)
(* the end (aes.go:140-145, 172-193, multipart.go:62-67).                   *)
NothingTruncated ==
  call.pc = "answered" => call.got = [k \in 1..size |-> k]

(* Every goroutine ends, and with it the S3 body it reads is closed,        *)
(* whoever fails first (aes.go:82-101, s3.go:61-62, relay.go:124).          *)
GoroutinesEnd ==
  <>[](\A g \in Goroutines : next[g] \in {"idle", "done"})
=============================================================================
