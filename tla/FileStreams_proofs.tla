------------------------- MODULE FileStreams_proofs -------------------------
(***************************************************************************)
(* Proofs about FileStreams, for files, chunks, tags and nonces of any     *)
(* size, and whatever fails.  A file is followed as bytes at positions: a  *)
(* byte of the object says where it belongs, so that nothing is said about *)
(* how many chunks there are before it.                                    *)
(***************************************************************************)
EXTENDS FileStreams, SequenceTheorems, TLAPS

(* The bytes a pipe holds, of which the writer waits to be rid.             *)
Held(p) == IF pipe[p].data = <<>> THEN <<>> ELSE Head(pipe[p].data)

(* What Encrypt has written, and what Decrypt has, wherever it is by now.   *)
Written == upload.body \o Held("body")
(* The bytes of the form that the model has been given or will be.          *)
Given == call.got \o Held("form")
(* The plaintext that Decrypt has written.                                  *)
Read == Given \o Held("plain")

(* The bytes of the file in its chunk i.                                    *)
ChunkData(i) ==
  [k \in 1..Least(chunkPlainSize, size - i * chunkPlainSize) |-> i * chunkPlainSize + k]

-----------------------------------------------------------------------------
(***************************************************************************)
(* The inductive invariant                                                 *)
(***************************************************************************)

(* A byte of the object, known by counter, chunk and place.                 *)
CipherByte == [i : 0..Counters, data : Seq(Nat), k : Nat]

(* A pipe holds the bytes of one Write at most.                             *)
Pipe(Byte) ==
  [data : {<<>>} \cup {<<w>> : w \in Seq(Byte)}, end : {"open", "eof", "error"},
   reader : BOOLEAN]

(* The types, and where each goroutine may be.                              *)
Typed ==
  /\ size \in Sizes
  /\ next \in [Goroutines -> {"idle", "prefix", "chunk", "fields", "copy", "eof", "error", "done"}]
  /\ next["encrypt"] \in {"prefix", "chunk", "eof", "error", "done"}
  /\ next["decrypt"] \in {"idle", "prefix", "chunk", "eof", "error", "done"}
  /\ next["multipart"] \in {"idle", "fields", "copy", "eof", "error", "done"}
  /\ sealed \in Position
  /\ opened \in Position
  /\ DOMAIN pipe = {"body", "plain", "form"}
  /\ pipe["body"] \in Pipe(CipherByte)
  /\ pipe["plain"] \in Pipe(Nat)
  /\ pipe["form"] \in Pipe(Nat)
  /\ upload \in [pc : {"reading", "stored", "failed"}, body : Seq(CipherByte)]
  /\ call \in [pc : {"get", "call", "send", "answered", "failed"}, got : Seq(Nat)]

(* A pipe is closed by its writer's last step, or by the one that wrote the *)
(* last bytes, which have been read.                                        *)
Closed(g) ==
  pipe[out[g]].end # "open" => next[g] = "done" /\ pipe[out[g]].data = <<>>

(* Encrypt has come to no error, or has come to the end.                    *)
Sound == next["encrypt"] \in {"prefix", "chunk", "eof"} \/ pipe["body"].end = "eof"

(* The byte at place x of the object: its counter and its place in the      *)
(* chunk are those of x, and what it seals is the chunk.                    *)
ByteAt(x, b) ==
  \/ b.i = Counters /\ b.k = x /\ x <= noncePrefixLen
  \/ /\ b.i \in 0..Counters - 1
     /\ x = noncePrefixLen + b.i * chunkCipherSize + b.k
     /\ b.k \in 1..Len(b.data) + gcmTagSize
     /\ Sound => b.data = ChunkData(b.i)

(* All that Encrypt writes: q whole chunks, and r bytes in a last one.      *)
WholeObject ==
  \E q \in Nat, r \in 0..chunkPlainSize - 1 :
    /\ size = q * chunkPlainSize + r
    /\ Len(Written) = noncePrefixLen + q * chunkCipherSize
                        + (IF r > 0 \/ q = 0 THEN r + gcmTagSize ELSE 0)

(* What Encrypt has written is the file so far: where it stands says how    *)
(* much, each byte is in its place, and what is stored is whole.            *)
Sealing ==
  /\ next["encrypt"] = "prefix" => Written = <<>> /\ sealed = [i |-> 0, at |-> 0]
  /\ next["encrypt"] = "chunk" =>
       /\ sealed.at = sealed.i * chunkPlainSize
       /\ Len(Written) = noncePrefixLen + sealed.i * chunkCipherSize
  /\ next["encrypt"] = "eof" \/ pipe["body"].end = "eof" => WholeObject
  /\ sealed.at <= size
  /\ \A x \in 1..Len(Written) : ByteAt(x, Written[x])
  /\ \A x \in 1..Len(Written) : \A l \in 1..Len(Written[x].data) : Written[x].data[l] \in 1..size
  /\ upload.pc = "stored" => pipe["body"].end = "eof"

(* The relay begins to read when an object is stored.                       *)
Started ==
  /\ call.pc # "get" => upload.pc = "stored"
  /\ call.pc = "get" => /\ next["decrypt"] = "idle" /\ next["multipart"] = "idle"
                        /\ opened = [i |-> 0, at |-> 0]
                        /\ Read = <<>>
  /\ call.pc = "call" => next["multipart"] = "idle"

(* What Decrypt has written is the file so far, byte by byte; an end        *)
(* without error comes after the last byte and passes from pipe to pipe.    *)
Opening ==
  /\ opened.at <= Len(upload.body)
  /\ Len(Read) <= size
  /\ \A x \in 1..Len(Read) : Read[x] = x
  /\ next["decrypt"] = "prefix" => Read = <<>> /\ opened = [i |-> 0, at |-> 0]
  /\ next["decrypt"] = "chunk" =>
       /\ opened.at = noncePrefixLen + opened.i * chunkCipherSize
       /\ Len(Read) = opened.i * chunkPlainSize
  /\ next["decrypt"] = "eof" \/ pipe["plain"].end = "eof" => Len(Read) = size
  /\ next["multipart"] = "eof" \/ pipe["form"].end = "eof" => pipe["plain"].end = "eof"
  /\ call.pc = "answered" => pipe["form"].end = "eof"

(* The inductive invariant.                                                 *)
StreamInv ==
  /\ Typed
  /\ \A g \in Goroutines : Closed(g)
  /\ Sealing
  /\ Started
  /\ Opening

-----------------------------------------------------------------------------
(***************************************************************************)
(* Sequences and numbers                                                   *)
(***************************************************************************)

(* A function on 1..n is a sequence of that length.                         *)
LEMMA SequenceMade ==
  ASSUME NEW S, NEW n \in Nat, NEW f \in [1..n -> S]
  PROVE  f \in Seq(S) /\ Len(f) = n
OBVIOUS

(* Length and elements of two sequences joined.                             *)
LEMMA Joined ==
  ASSUME NEW S, NEW s \in Seq(S), NEW t \in Seq(S)
  PROVE  /\ s \o t \in Seq(S)
         /\ Len(s \o t) = Len(s) + Len(t)
         /\ \A x \in 1..Len(s) + Len(t) :
              (s \o t)[x] = IF x <= Len(s) THEN s[x] ELSE t[x - Len(s)]
OBVIOUS

(* Joined with nothing, a sequence stays.                                   *)
LEMMA JoinedEmpty ==
  ASSUME NEW S, NEW s \in Seq(S)
  PROVE  s \o <<>> = s /\ <<>> \o s = s
OBVIOUS

(* Multiples of a chunk size are ordered as their counts.                   *)
LEMMA Counting ==
  ASSUME NEW c \in Nat \ {0}, NEW i \in Int, NEW j \in Int
  PROVE  /\ i * c < j * c => i < j
         /\ (i + 1) * c = i * c + c
         /\ \A r \in 0..c - 1 : j * c = i * c + r => i = j /\ r = 0
OBVIOUS

(* Quotient and remainder of a number of whole chunks and a rest.           *)
LEMMA Divided ==
  ASSUME NEW c \in Nat \ {0}, NEW i \in Nat, NEW r \in 0..c - 1, NEW n \in Nat, n = i * c + r
  PROVE  n \div c = i /\ n % c = r
OBVIOUS

(* The sizes of the format, and that counters are enough for every file.    *)
LEMMA Constants ==
  /\ chunkPlainSize \in Nat \ {0} /\ gcmTagSize \in Nat \ {0} /\ noncePrefixLen \in Nat \ {0}
  /\ Counters \in Nat \ {0} /\ chunkCipherSize \in Nat \ {0}
  /\ chunkCipherSize = chunkPlainSize + gcmTagSize
  /\ \A s \in Sizes : s \in Nat /\ s < chunkPlainSize * Counters
BY StreamAssumption DEF chunkCipherSize

-----------------------------------------------------------------------------
(***************************************************************************)
(* Types                                                                   *)
(***************************************************************************)

(* Where a goroutine may be.                                                *)
Ends == {"idle", "prefix", "chunk", "fields", "copy", "eof", "error", "done"}

(* A Write puts the bytes into one pipe.                                    *)
LEMMA Writes ==
  ASSUME Typed, NEW p \in {"body", "plain", "form"}, NEW Byte, pipe[p] \in Pipe(Byte),
         NEW bytes \in Seq(Byte), Write(p, bytes)
  PROVE  /\ DOMAIN pipe' = DOMAIN pipe
         /\ pipe'[p] \in Pipe(Byte)
         /\ pipe'[p].end = pipe[p].end /\ pipe'[p].reader = pipe[p].reader
         /\ pipe'[p].data = <<bytes>>
         /\ Held(p)' = bytes
         /\ \A q \in {"body", "plain", "form"} \ {p} : pipe'[q] = pipe[q] /\ Held(q)' = Held(q)
<1>1. DOMAIN pipe' = DOMAIN pipe /\ p \in DOMAIN pipe
  BY DEF Typed, Write
<1>2. pipe'[p] = [pipe[p] EXCEPT !.data = <<bytes>>]
  BY <1>1 DEF Write
<1>3. \A q \in {"body", "plain", "form"} \ {p} : pipe'[q] = pipe[q]
  BY DEF Typed, Write
<1>4. pipe'[p] = [data |-> <<bytes>>, end |-> pipe[p].end, reader |-> pipe[p].reader]
  BY <1>2 DEF Pipe
<1>5. pipe'[p] \in Pipe(Byte)
  BY <1>4 DEF Pipe
<1>6. Held(p)' = bytes
  BY <1>4 DEF Held
<1> QED
  BY <1>1, <1>3, <1>4, <1>5, <1>6 DEF Held

(* Who has read empties one pipe.                                           *)
LEMMA Empties ==
  ASSUME Typed, NEW p \in {"body", "plain", "form"}, NEW Byte, pipe[p] \in Pipe(Byte),
         pipe' = [pipe EXCEPT ![p].data = <<>>]
  PROVE  /\ DOMAIN pipe' = DOMAIN pipe
         /\ pipe'[p] \in Pipe(Byte)
         /\ pipe'[p].end = pipe[p].end /\ pipe'[p].reader = pipe[p].reader
         /\ pipe'[p].data = <<>>
         /\ Held(p)' = <<>>
         /\ \A q \in {"body", "plain", "form"} \ {p} : pipe'[q] = pipe[q] /\ Held(q)' = Held(q)
<1>1. DOMAIN pipe' = DOMAIN pipe /\ p \in DOMAIN pipe
  BY DEF Typed
<1>3. \A q \in {"body", "plain", "form"} \ {p} : pipe'[q] = pipe[q]
  BY DEF Typed
<1>4. pipe'[p] = [data |-> <<>>, end |-> pipe[p].end, reader |-> pipe[p].reader]
  BY <1>1 DEF Pipe
<1> QED
  BY <1>1, <1>3, <1>4 DEF Pipe, Held

(* A pipe is closed at one of its sides, and keeps its bytes.               *)
LEMMA Closes ==
  ASSUME Typed, NEW p \in {"body", "plain", "form"}, NEW Byte, pipe[p] \in Pipe(Byte),
         NEW end \in {"open", "eof", "error"}, NEW reader \in BOOLEAN,
         \/ pipe' = [pipe EXCEPT ![p].end = end] /\ reader = pipe[p].reader
         \/ pipe' = [pipe EXCEPT ![p].reader = reader] /\ end = pipe[p].end
  PROVE  /\ DOMAIN pipe' = DOMAIN pipe
         /\ pipe'[p] \in Pipe(Byte)
         /\ pipe'[p].end = end /\ pipe'[p].reader = reader
         /\ pipe'[p].data = pipe[p].data
         /\ Held(p)' = Held(p)
         /\ \A q \in {"body", "plain", "form"} \ {p} : pipe'[q] = pipe[q] /\ Held(q)' = Held(q)
<1>1. DOMAIN pipe' = DOMAIN pipe /\ p \in DOMAIN pipe
  BY DEF Typed
<1>3. \A q \in {"body", "plain", "form"} \ {p} : pipe'[q] = pipe[q]
  BY DEF Typed
<1>4. pipe'[p] = [data |-> pipe[p].data, end |-> end, reader |-> reader]
  BY <1>1 DEF Pipe
<1> QED
  BY <1>1, <1>3, <1>4 DEF Pipe, Held

(* A goroutine's step moves only it.                                        *)
LEMMA GoesOn ==
  ASSUME Typed, NEW g \in Goroutines, NEW to \in Ends, next' = [next EXCEPT ![g] = to]
  PROVE  /\ next' \in [Goroutines -> Ends]
         /\ next'[g] = to
         /\ \A h \in Goroutines \ {g} : next'[h] = next[h]
BY DEF Typed, Ends

(* What a pipe holds is a sequence of its bytes.                            *)
LEMMA HeldBytes ==
  ASSUME NEW p, NEW Byte, pipe[p] \in Pipe(Byte)
  PROVE  /\ Held(p) \in Seq(Byte)
         /\ pipe[p].data = <<>> => Held(p) = <<>>
         /\ pipe[p].data # <<>> => Held(p) = Head(pipe[p].data)
         /\ Len(pipe[p].data) <= 1
<1>1. CASE pipe[p].data = <<>>
  BY <1>1 DEF Held
<1>2. CASE pipe[p].data # <<>>
  <2>1. PICK w \in Seq(Byte) : pipe[p].data = <<w>>
    BY <1>2 DEF Pipe
  <2> QED
    BY <1>2, <2>1 DEF Held
<1> QED
  BY <1>1, <1>2

(* What is sealed is bytes, tag included, each of which says of what.       *)
LEMMA Seals ==
  ASSUME NEW i \in 0..Counters, NEW data \in Seq(Nat)
  PROVE  /\ Seal(i, data) \in Seq(CipherByte)
         /\ Len(Seal(i, data)) = Len(data) + gcmTagSize
         /\ \A k \in 1..Len(data) + gcmTagSize :
              Seal(i, data)[k] = [i |-> i, data |-> data, k |-> k]
<1>1. Len(data) + gcmTagSize \in Nat
  BY Constants
<1>2. \A k \in 1..Len(data) + gcmTagSize : [i |-> i, data |-> data, k |-> k] \in CipherByte
  BY <1>1 DEF CipherByte
<1>3. Seal(i, data) \in [1..Len(data) + gcmTagSize -> CipherByte]
  BY <1>2 DEF Seal
<1>4. Seal(i, data) \in Seq(CipherByte) /\ Len(Seal(i, data)) = Len(data) + gcmTagSize
  BY <1>1, <1>3, SequenceMade
<1> QED
  BY <1>4 DEF Seal

(* So is the prefix of the nonces.                                          *)
LEMMA Prefixes ==
  /\ NoncePrefix \in Seq(CipherByte)
  /\ Len(NoncePrefix) = noncePrefixLen
  /\ \A k \in 1..noncePrefixLen : NoncePrefix[k] = [i |-> Counters, data |-> <<>>, k |-> k]
<1>1. noncePrefixLen \in Nat /\ Counters \in 0..Counters
  BY Constants
<1>2. \A k \in 1..noncePrefixLen : [i |-> Counters, data |-> <<>>, k |-> k] \in CipherByte
  BY <1>1 DEF CipherByte
<1>3. NoncePrefix \in [1..noncePrefixLen -> CipherByte]
  BY <1>2 DEF NoncePrefix
<1>4. NoncePrefix \in Seq(CipherByte) /\ Len(NoncePrefix) = noncePrefixLen
  BY <1>1, <1>3, SequenceMade
<1> QED
  BY <1>4 DEF NoncePrefix

(* A run of bytes of the file.                                              *)
LEMMA Runs ==
  ASSUME NEW at \in Nat, NEW n \in Nat
  PROVE  /\ [k \in 1..n |-> at + k] \in Seq(Nat)
         /\ Len([k \in 1..n |-> at + k]) = n
BY SequenceMade

(* A counter that has room stays below the number of counters.              *)
LEMMA Wraps ==
  ASSUME NEW i \in 0..Counters - 1
  PROVE  /\ (i + 1) % Counters \in 0..Counters - 1
         /\ i + 1 < Counters => (i + 1) % Counters = i + 1
BY Constants

(* What a step of Encrypt does to a chunk.                                  *)
LEMMA SealChunkTyped ==
  ASSUME Typed, NEW n \in Nat, SealChunk(n)
  PROVE  /\ sealed' \in Position
         /\ DOMAIN pipe' = {"body", "plain", "form"} /\ pipe'["body"] \in Pipe(CipherByte)
         /\ pipe'["plain"] = pipe["plain"] /\ pipe'["form"] = pipe["form"]
<1>1. sealed.i \in 0..Counters - 1 /\ sealed.at \in Nat /\ sealed.i \in 0..Counters
  BY Constants DEF Typed, Position
<1>2. sealed' \in Position
  BY <1>1, Wraps DEF SealChunk, Advance, Position
<1>3. CASE UNCHANGED pipe
  BY <1>2, <1>3 DEF Typed
<1>4. CASE Write("body", Seal(sealed.i, [k \in 1..n |-> sealed.at + k]))
  <2>1. Seal(sealed.i, [k \in 1..n |-> sealed.at + k]) \in Seq(CipherByte)
    BY <1>1, Runs, Seals
  <2>2. pipe["body"] \in Pipe(CipherByte) /\ DOMAIN pipe = {"body", "plain", "form"}
    BY DEF Typed
  <2> QED
    BY <1>2, <1>4, <2>1, <2>2, Writes
<1> QED
  BY <1>3, <1>4 DEF SealChunk

(* The bytes of a chunk that opens are those that were sealed.              *)
LEMMA OpensData ==
  ASSUME NEW body \in Seq(CipherByte), NEW at \in Nat, NEW n \in Nat \ {0}, at + n <= Len(body)
  PROVE  /\ Len(SubSeq(body, at + 1, at + n)) = n
         /\ \A k \in 1..n : SubSeq(body, at + 1, at + n)[k] = body[at + k]
         /\ SubSeq(body, at + 1, at + n)[1] = body[at + 1]
         /\ body[at + 1].data \in Seq(Nat)
<1>1. at + 1 \in 1..Len(body) /\ at + n \in 1..Len(body) /\ at + n + 1 - (at + 1) = n
  OBVIOUS
<1>2. body[at + 1] \in CipherByte
  BY <1>1
<1>3. body[at + 1].data \in Seq(Nat)
  BY <1>2 DEF CipherByte
<1>4. Len(SubSeq(body, at + 1, at + n)) = n
  BY <1>1
<1>5. \A k \in 1..n : SubSeq(body, at + 1, at + n)[k] = body[at + k]
  BY <1>1
<1>6. SubSeq(body, at + 1, at + n)[1] = body[at + 1]
  <2>1. 1 \in 1..n
    OBVIOUS
  <2>2. \A part : (\A k \in 1..n : part[k] = body[at + k]) => part[1] = body[at + 1]
    BY <2>1
  <2> QED
    BY ONLY <1>5, <2>2
<1> QED
  BY ONLY <1>3, <1>4, <1>5, <1>6

(* What a step of Decrypt does to a chunk.                                  *)
LEMMA OpenChunkTyped ==
  ASSUME Typed, opened.at <= Len(upload.body), NEW n \in Nat, n <= ObjectLeft, NEW err,
         OpenChunk(n, err)
  PROVE  /\ opened' \in Position
         /\ DOMAIN pipe' = {"body", "plain", "form"} /\ pipe'["plain"] \in Pipe(Nat)
         /\ pipe'["body"] = pipe["body"] /\ pipe'["form"] = pipe["form"]
         /\ \E to \in {"chunk", "eof", "error"} : Goes("decrypt", "chunk", to)
<1>1. opened.i \in 0..Counters - 1 /\ opened.at \in Nat
  BY DEF Typed, Position
<1>2. upload.body \in Seq(CipherByte) /\ pipe["plain"] \in Pipe(Nat)
      /\ DOMAIN pipe = {"body", "plain", "form"} /\ opened \in Position
  BY DEF Typed
<1>3. \E to \in {"chunk", "eof", "error"} : Goes("decrypt", "chunk", to)
  <2>1. (CASE err = "none" -> "chunk" [] err = "other" -> "error" [] OTHER -> "eof")
          \in {"chunk", "eof", "error"}
    OBVIOUS
  <2>2. (IF err = "EOF" THEN "eof" ELSE "error") \in {"chunk", "eof", "error"}
    OBVIOUS
  <2> QED
    BY <2>1, <2>2 DEF OpenChunk
<1>4. CASE UNCHANGED <<opened, pipe>>
  BY <1>2, <1>3, <1>4
<1>5. CASE ~UNCHANGED <<opened, pipe>>
  <2> DEFINE bytes == SubSeq(upload.body, opened.at + 1, opened.at + n)
  <2>1. /\ n # 0
        /\ Write("plain", bytes[1].data)
        /\ opened' = [i |-> (opened.i + 1) % Counters, at |-> opened.at + n]
    BY <1>5 DEF OpenChunk
  <2>2. bytes[1].data \in Seq(Nat)
    <3>1. n \in Nat \ {0} /\ opened.at + n <= Len(upload.body)
      BY <1>1, <1>2, <2>1 DEF ObjectLeft
    <3> QED
      BY <1>1, <1>2, <3>1, OpensData
  <2>3. opened' \in Position
    <3>1. (opened.i + 1) % Counters \in 0..Counters - 1 /\ opened.at + n \in Nat
      <4>1. (opened.i + 1) % Counters \in 0..Counters - 1
        BY ONLY <1>1, Wraps
      <4>2. opened.at + n \in Nat
        BY <1>1
      <4> QED BY <4>1, <4>2
    <3> HIDE DEF bytes
    <3> QED
      BY <2>1, <3>1 DEF Position
  <2> QED
    BY <1>2, <1>3, <2>1, <2>2, <2>3, Writes
<1> QED
  BY <1>4, <1>5

(* What ReadFull returns: the whole buffer, or what is left.                *)
LEMMA Reads ==
  ASSUME NEW c \in Nat \ {0}, NEW left \in Nat
  PROVE  /\ Least(c, left) \in Nat /\ Least(c, left) <= left /\ Least(c, left) <= c
         /\ Least(c, left) = c \/ Least(c, left) = left
         /\ \A m \in 0..Least(Least(c, left), c - 1) : m \in Nat /\ m <= left /\ m < c
BY DEF Least

(* Every step keeps the types.                                              *)
LEMMA TypedNext ==
  ASSUME Typed, sealed.at <= size, opened.at <= Len(upload.body), StreamNext
  PROVE  Typed'
<1>0. /\ sealed \in Position /\ opened \in Position
      /\ sealed.i \in 0..Counters - 1 /\ sealed.at \in Nat
      /\ opened.i \in 0..Counters - 1 /\ opened.at \in Nat
      /\ upload.body \in Seq(CipherByte) /\ call.got \in Seq(Nat)
      /\ DOMAIN pipe = {"body", "plain", "form"}
      /\ pipe["body"] \in Pipe(CipherByte) /\ pipe["plain"] \in Pipe(Nat)
      /\ pipe["form"] \in Pipe(Nat)
      /\ Len(upload.body) \in Nat /\ ObjectLeft \in Nat
      /\ size \in Nat /\ size - sealed.at \in Nat
  BY Constants DEF Typed, Position, ObjectLeft
<1>1. CASE EncryptPrefix
  <2>1. pipe'["body"] \in Pipe(CipherByte) /\ DOMAIN pipe' = {"body", "plain", "form"}
        /\ pipe'["plain"] = pipe["plain"] /\ pipe'["form"] = pipe["form"]
    BY <1>0, <1>1, Writes, Prefixes DEF EncryptPrefix
  <2>2. next' = [next EXCEPT !["encrypt"] = "chunk"]
    BY <1>1 DEF EncryptPrefix, Goes
  <2> QED
    BY <1>1, <2>1, <2>2, GoesOn DEF EncryptPrefix, Typed, Goroutines, Ends
<1>2. CASE EncryptChunk
  <2>1. PICK n \in Nat : SealChunk(n)
    BY <1>0, <1>2, Constants, Reads DEF EncryptChunk
  <2>2. PICK to \in {"chunk", "eof", "error"} : next' = [next EXCEPT !["encrypt"] = to]
    BY <1>2 DEF EncryptChunk, Goes
  <2>3. sealed' \in Position
        /\ pipe'["body"] \in Pipe(CipherByte) /\ DOMAIN pipe' = {"body", "plain", "form"}
        /\ pipe'["plain"] = pipe["plain"] /\ pipe'["form"] = pipe["form"]
    BY <2>1, SealChunkTyped
  <2> QED
    BY <1>2, <2>2, <2>3, GoesOn DEF EncryptChunk, Typed, Goroutines, Ends
<1>3. CASE DecryptPrefix
  <2>1. PICK to \in {"chunk", "error"} : next' = [next EXCEPT !["decrypt"] = to]
    BY <1>3 DEF DecryptPrefix, Goes
  <2>2. opened' \in Position
    BY <1>0, <1>3, Constants DEF DecryptPrefix, Position
  <2> QED
    BY <1>3, <2>1, <2>2, GoesOn DEF DecryptPrefix, Typed, Goroutines, Ends
<1>4. CASE DecryptChunk
  <2>1. \E n \in Nat, err \in {"none", "EOF", "unexpected EOF", "other"} :
          n <= ObjectLeft /\ OpenChunk(n, err)
    <3> DEFINE n == Least(chunkCipherSize, ObjectLeft)
    <3>1. n \in Nat /\ n <= ObjectLeft
          /\ \A m \in 0..Least(n, chunkCipherSize - 1) : m \in Nat /\ m <= ObjectLeft
      BY <1>0, Constants, Reads
    <3>2. \/ \E err \in {"none", "EOF", "unexpected EOF"} : OpenChunk(n, err)
          \/ \E m \in 0..Least(n, chunkCipherSize - 1), err \in {"unexpected EOF", "other"} :
               OpenChunk(m, err)
      BY <1>4 DEF DecryptChunk
    <3> HIDE DEF n
    <3> QED
      BY <3>1, <3>2
  <2>2. /\ opened' \in Position
        /\ pipe'["plain"] \in Pipe(Nat) /\ DOMAIN pipe' = {"body", "plain", "form"}
        /\ pipe'["body"] = pipe["body"] /\ pipe'["form"] = pipe["form"]
        /\ \E to \in {"chunk", "eof", "error"} : Goes("decrypt", "chunk", to)
    BY <2>1, OpenChunkTyped
  <2>3. PICK to \in {"chunk", "eof", "error"} : next' = [next EXCEPT !["decrypt"] = to]
    BY <2>2 DEF Goes
  <2> QED
    BY <1>4, <2>2, <2>3, GoesOn DEF DecryptChunk, Typed, Goroutines, Ends
<1>5. CASE WriteFields
  <2>1. pipe'["form"] \in Pipe(Nat) /\ DOMAIN pipe' = {"body", "plain", "form"}
        /\ pipe'["body"] = pipe["body"] /\ pipe'["plain"] = pipe["plain"]
    <3>1. <<>> \in Seq(Nat) /\ Write("form", <<>>)
      BY <1>5 DEF WriteFields
    <3> QED
      BY <1>0, <3>1, Writes
  <2>2. next' = [next EXCEPT !["multipart"] = "copy"]
    BY <1>5 DEF WriteFields, Goes
  <2> QED
    BY <1>5, <2>1, <2>2, GoesOn DEF WriteFields, Typed, Goroutines, Ends
<1>6. CASE Copy
  <2>1. PICK to \in {"copy", "eof", "error"} : next' = [next EXCEPT !["multipart"] = to]
    BY <1>6 DEF Copy, Goes
  <2>2. pipe'["form"] \in Pipe(Nat) /\ DOMAIN pipe' = {"body", "plain", "form"}
        /\ pipe'["body"] = pipe["body"] /\ pipe'["plain"] \in Pipe(Nat)
    <3>1. CASE Write("form", <<>>)
      <4>1. <<>> \in Seq(Nat)
        OBVIOUS
      <4> QED
        BY <1>0, <3>1, <4>1, Writes
    <3>2. CASE UNCHANGED pipe
      BY <1>0, <3>2
    <3>3. CASE pipe' = [pipe EXCEPT !["plain"].data = <<>>, !["form"].data = pipe["plain"].data]
      <4>1. /\ pipe'["plain"] = [pipe["plain"] EXCEPT !.data = <<>>]
            /\ pipe'["form"] = [pipe["form"] EXCEPT !.data = pipe["plain"].data]
            /\ pipe'["body"] = pipe["body"] /\ DOMAIN pipe' = DOMAIN pipe
        BY <1>0, <3>3
      <4> QED
        BY <1>0, <4>1 DEF Pipe
    <3> QED
      BY <1>6, <3>1, <3>2, <3>3 DEF Copy
  <2> QED
    BY <1>6, <2>1, <2>2, GoesOn DEF Copy, Typed, Goroutines, Ends
<1>7. ASSUME NEW g \in Goroutines, Close(g)  PROVE Typed'
  <2>1. next' = [next EXCEPT ![g] = "done"]
    BY <1>7 DEF Close
  <2>2. /\ DOMAIN pipe' = {"body", "plain", "form"}
        /\ pipe'["body"] \in Pipe(CipherByte) /\ pipe'["plain"] \in Pipe(Nat)
        /\ pipe'["form"] \in Pipe(Nat)
    <3>1. CASE UNCHANGED pipe
      BY <1>0, <3>1
    <3>2. CASE ~UNCHANGED pipe
      <4>1. PICK p \in {"body", "plain", "form"}, end \in {"eof", "error"} :
              pipe' = [pipe EXCEPT ![p].end = end]
        BY <1>7, <3>2 DEF Close, out, Goroutines
      <4>2. /\ DOMAIN pipe' = DOMAIN pipe
            /\ pipe'[p] = [pipe[p] EXCEPT !.end = end]
            /\ \A q \in {"body", "plain", "form"} \ {p} : pipe'[q] = pipe[q]
        BY <1>0, <4>1
      <4>3. \A Byte : pipe[p] \in Pipe(Byte) => pipe'[p] \in Pipe(Byte)
        BY <4>2 DEF Pipe
      <4> QED
        BY <1>0, <4>2, <4>3
    <3> QED
      BY <3>1, <3>2
  <2> QED
    BY <1>7, <2>1, <2>2, GoesOn DEF Close, Typed, Goroutines, Ends
<1>8. CASE UploadRead
  <2>1. pipe'["body"] \in Pipe(CipherByte) /\ DOMAIN pipe' = {"body", "plain", "form"}
        /\ pipe'["plain"] = pipe["plain"] /\ pipe'["form"] = pipe["form"]
    BY <1>0, <1>8, Empties DEF UploadRead
  <2>2. upload' = [upload EXCEPT !.body = upload.body \o Held("body")]
        /\ Held("body") \in Seq(CipherByte)
    BY <1>0, <1>8, HeldBytes DEF UploadRead
  <2>3. upload.body \o Held("body") \in Seq(CipherByte)
    BY <1>0, <2>2, Joined
  <2> QED
    BY <1>8, <2>1, <2>2, <2>3 DEF UploadRead, Typed
<1>9. CASE Upload
  <2>1. pipe' = [pipe EXCEPT !["body"].reader = FALSE]
        /\ \E pc \in {"stored", "failed"} : upload' = [upload EXCEPT !.pc = pc]
    BY <1>9 DEF Upload, UploadReturn
  <2>2. pipe'["body"] \in Pipe(CipherByte) /\ DOMAIN pipe' = {"body", "plain", "form"}
        /\ pipe'["plain"] = pipe["plain"] /\ pipe'["form"] = pipe["form"]
    <3>1. /\ pipe'["body"] = [pipe["body"] EXCEPT !.reader = FALSE] /\ DOMAIN pipe' = DOMAIN pipe
          /\ pipe'["plain"] = pipe["plain"] /\ pipe'["form"] = pipe["form"]
      BY <1>0, <2>1
    <3> QED
      BY <1>0, <3>1 DEF Pipe
  <2>3. upload' \in [pc : {"reading", "stored", "failed"}, body : Seq(CipherByte)]
    BY <2>1 DEF Typed
  <2>4. UNCHANGED <<size, next, sealed, opened, call>>
    BY <1>9 DEF Upload
  <2> QED
    BY <2>2, <2>3, <2>4 DEF Typed
<1>10. CASE GetObject \/ Call
  <2>1. PICK pc \in {"call", "send", "failed"} : call' = [call EXCEPT !.pc = pc]
    BY <1>10 DEF GetObject, Call
  <2>2. CASE next' = next
    BY <1>10, <2>1, <2>2 DEF GetObject, Call, Typed
  <2>3. CASE next' # next
    <3>1. PICK g \in {"decrypt", "multipart"}, to \in {"prefix", "fields"} :
            /\ g = "decrypt" <=> to = "prefix"
            /\ next' = [next EXCEPT ![g] = to]
      BY <1>10, <2>3 DEF GetObject, Call
    <3> QED
      BY <1>10, <2>1, <3>1, GoesOn DEF GetObject, Call, Typed, Goroutines, Ends
  <2> QED
    BY <2>2, <2>3
<1>11. CASE Send
  <2>1. pipe'["form"] \in Pipe(Nat) /\ DOMAIN pipe' = {"body", "plain", "form"}
        /\ pipe'["body"] = pipe["body"] /\ pipe'["plain"] = pipe["plain"]
    BY <1>0, <1>11, Empties DEF Send
  <2>2. call' = [call EXCEPT !.got = call.got \o Held("form")] /\ Held("form") \in Seq(Nat)
    BY <1>0, <1>11, HeldBytes DEF Send
  <2>3. call.got \o Held("form") \in Seq(Nat)
    BY <1>0, <2>2, Joined
  <2> QED
    BY <1>11, <2>1, <2>2, <2>3 DEF Send, Typed
<1>12. CASE Do
  <2>1. pipe' = [pipe EXCEPT !["form"].reader = FALSE]
        /\ \E pc \in {"answered", "failed"} : call' = [call EXCEPT !.pc = pc]
    BY <1>12 DEF Do, DoReturn
  <2>2. /\ pipe'["form"] = [pipe["form"] EXCEPT !.reader = FALSE] /\ DOMAIN pipe' = DOMAIN pipe
        /\ pipe'["plain"] = pipe["plain"] /\ pipe'["body"] = pipe["body"]
    BY <1>0, <2>1
  <2>3. pipe'["form"] \in Pipe(Nat)
    BY <1>0, <2>2 DEF Pipe
  <2> QED
    BY <1>12, <2>1, <2>2, <2>3 DEF Do, Typed
<1>13. CASE CloseBody
  <2>2. /\ pipe'["plain"] = [pipe["plain"] EXCEPT !.reader = FALSE] /\ DOMAIN pipe' = DOMAIN pipe
        /\ pipe'["form"] = pipe["form"] /\ pipe'["body"] = pipe["body"]
    BY <1>0, <1>13 DEF CloseBody
  <2>3. pipe'["plain"] \in Pipe(Nat)
    BY <1>0, <2>2 DEF Pipe
  <2> QED
    BY <1>13, <2>2, <2>3 DEF CloseBody, Typed
<1> QED
  BY <1>1, <1>2, <1>3, <1>4, <1>5, <1>6, <1>7, <1>8, <1>9, <1>10, <1>11, <1>12, <1>13
  DEF StreamNext, GoroutineStep, CallerStep

-----------------------------------------------------------------------------
(***************************************************************************)
(* The ends of the pipes                                                   *)
(***************************************************************************)

(* A goroutine has its own pipe.                                            *)
LEMMA OwnPipes ==
  /\ out["encrypt"] = "body" /\ out["decrypt"] = "plain" /\ out["multipart"] = "form"
  /\ \A g \in Goroutines : out[g] \in {"body", "plain", "form"}
  /\ \A g, h \in Goroutines : out[g] = out[h] => g = h
BY DEF out, Goroutines

(* A pipe that stays open, or as it was and its writer too.                 *)
LEMMA ClosedStays ==
  ASSUME NEW g, Closed(g),
         \/ pipe'[out[g]].end = "open"
         \/ /\ pipe'[out[g]].end = pipe[out[g]].end /\ next'[g] = next[g]
            /\ pipe'[out[g]].data \in {<<>>, pipe[out[g]].data}
  PROVE  Closed(g)'
BY DEF Closed

(* A pipe is closed by its writer's last step.                              *)
LEMMA ClosedNext ==
  ASSUME Typed, \A g \in Goroutines : Closed(g), Started,
         sealed.at <= size, opened.at <= Len(upload.body), StreamNext
  PROVE  (\A g \in Goroutines : Closed(g))'
<1> SUFFICES ASSUME NEW g \in Goroutines  PROVE Closed(g)'
  OBVIOUS
<1> DEFINE Stays(h) ==
      /\ next'[h] = next[h]
      /\ pipe'[out[h]].end = pipe[out[h]].end
      /\ pipe'[out[h]].data \in {<<>>, pipe[out[h]].data}
<1> DEFINE Opened(h) == pipe'[out[h]].end = "open"
<1>0. /\ DOMAIN pipe = {"body", "plain", "form"}
      /\ pipe["body"] \in Pipe(CipherByte) /\ pipe["plain"] \in Pipe(Nat)
      /\ pipe["form"] \in Pipe(Nat)
      /\ next \in [Goroutines -> Ends]
  BY DEF Typed, Ends
<1>a. SUFFICES \A h \in Goroutines : Opened(h) \/ Stays(h) \/ Closed(h)'
  <2>1. Opened(g) \/ Stays(g) \/ Closed(g)'
    BY <1>a
  <2> QED
    BY <2>1, ClosedStays
<1>b. \A h \in Goroutines : next[h] # "done" => pipe[out[h]].end = "open"
  BY DEF Closed
<1>c. Goroutines = {"encrypt", "decrypt", "multipart"}
  BY DEF Goroutines
<1> HIDE DEF Stays, Opened
<1>1. CASE EncryptPrefix
  <2>1. Opened("encrypt")
    BY <1>0, <1>1, <1>b, <1>c, OwnPipes, Writes, Prefixes DEF EncryptPrefix, Goes, Opened
  <2>2. Stays("decrypt") /\ Stays("multipart")
    BY <1>0, <1>1, <1>c, OwnPipes, Writes, Prefixes DEF EncryptPrefix, Goes, Stays
  <2> QED
    BY <1>c, <2>1, <2>2
<1>2. CASE EncryptChunk
  <2>1. PICK n \in Nat : SealChunk(n)
    <3>1. size - sealed.at \in Nat
      BY Constants DEF Typed, Position
    <3> QED
      BY <3>1, <1>2, Constants, Reads DEF EncryptChunk
  <2>2. PICK to \in {"chunk", "eof", "error"} : Goes("encrypt", "chunk", to)
    BY <1>2 DEF EncryptChunk
  <2>3. pipe'["plain"] = pipe["plain"] /\ pipe'["form"] = pipe["form"]
        /\ pipe'["body"].end = pipe["body"].end
    <3>1. CASE UNCHANGED pipe
      BY <3>1
    <3>2. CASE ~UNCHANGED pipe
      <4>1. Write("body", Seal(sealed.i, [k \in 1..n |-> sealed.at + k]))
        BY <2>1, <3>2 DEF SealChunk
      <4>2. pipe'["body"] = [pipe["body"] EXCEPT
                !.data = <<Seal(sealed.i, [k \in 1..n |-> sealed.at + k])>>]
            /\ pipe'["plain"] = pipe["plain"] /\ pipe'["form"] = pipe["form"]
        BY <1>0, <4>1 DEF Write
      <4> QED
        BY <1>0, <4>2 DEF Pipe
    <3> QED
      BY <3>1, <3>2
  <2>4. Opened("encrypt")
    BY <1>0, <1>b, <1>c, <2>2, <2>3, OwnPipes DEF Goes, Opened
  <2>5. Stays("decrypt") /\ Stays("multipart")
    BY <1>0, <1>c, <2>2, <2>3, OwnPipes DEF Goes, Stays
  <2> QED
    BY <1>c, <2>4, <2>5
<1>3. CASE DecryptPrefix
  <2>2. PICK to \in {"chunk", "error"} : Goes("decrypt", "prefix", to)
    BY <1>3 DEF DecryptPrefix
  <2>4. Opened("decrypt")
    BY <1>3, <1>b, <1>c, <2>2, OwnPipes DEF DecryptPrefix, Goes, Opened
  <2>5. Stays("encrypt") /\ Stays("multipart")
    BY <1>0, <1>3, <1>c, <2>2, OwnPipes DEF DecryptPrefix, Goes, Stays
  <2> QED
    BY <1>c, <2>4, <2>5
<1>4. CASE DecryptChunk
  <2>2. PICK to \in {"chunk", "eof", "error"} : Goes("decrypt", "chunk", to)
    <3>1. \E n, err : OpenChunk(n, err)
      BY <1>4 DEF DecryptChunk
    <3>2. \A err : (CASE err = "none" -> "chunk" [] err = "other" -> "error" [] OTHER -> "eof")
            \in {"chunk", "eof", "error"}
      OBVIOUS
    <3>3. \A err : (IF err = "EOF" THEN "eof" ELSE "error") \in {"chunk", "eof", "error"}
      OBVIOUS
    <3> QED
      BY <3>1, <3>2, <3>3 DEF OpenChunk
  <2>3. pipe'["body"] = pipe["body"] /\ pipe'["form"] = pipe["form"]
        /\ pipe'["plain"].end = pipe["plain"].end
    <3>1. CASE UNCHANGED pipe
      BY <3>1
    <3>2. CASE ~UNCHANGED pipe
      <4>1. PICK bytes : Write("plain", bytes)
        BY <1>4, <3>2 DEF DecryptChunk, OpenChunk
      <4>2. pipe'["plain"] = [pipe["plain"] EXCEPT !.data = <<bytes>>]
            /\ pipe'["body"] = pipe["body"] /\ pipe'["form"] = pipe["form"]
        BY <1>0, <4>1 DEF Write
      <4> QED
        BY <1>0, <4>2 DEF Pipe
    <3> QED
      BY <3>1, <3>2
  <2>4. Opened("decrypt")
    BY <1>b, <1>c, <2>2, <2>3, OwnPipes DEF Goes, Opened
  <2>5. Stays("encrypt") /\ Stays("multipart")
    BY <1>0, <1>c, <2>2, <2>3, OwnPipes DEF Goes, Stays
  <2> QED
    BY <1>c, <2>4, <2>5
<1>5. CASE WriteFields \/ Copy
  <2>2. PICK from \in {"fields", "copy"}, to \in {"copy", "eof", "error"} :
          Goes("multipart", from, to)
    BY <1>5 DEF WriteFields, Copy
  <2>3. /\ pipe'["body"] = pipe["body"]
        /\ pipe'["plain"].end = pipe["plain"].end
        /\ pipe'["plain"].data \in {<<>>, pipe["plain"].data}
        /\ pipe'["form"].end = pipe["form"].end
    <3>1. CASE Write("form", <<>>)
      <4>1. pipe'["form"] = [pipe["form"] EXCEPT !.data = << <<>> >>]
            /\ pipe'["body"] = pipe["body"] /\ pipe'["plain"] = pipe["plain"]
        BY <1>0, <3>1 DEF Write
      <4> QED
        BY <1>0, <4>1 DEF Pipe
    <3>2. CASE UNCHANGED pipe
      BY <3>2
    <3>3. CASE pipe' = [pipe EXCEPT !["plain"].data = <<>>, !["form"].data = pipe["plain"].data]
      <4>1. /\ pipe'["plain"] = [pipe["plain"] EXCEPT !.data = <<>>]
            /\ pipe'["form"] = [pipe["form"] EXCEPT !.data = pipe["plain"].data]
            /\ pipe'["body"] = pipe["body"]
        BY <1>0, <3>3
      <4> QED
        BY <1>0, <4>1 DEF Pipe
    <3> QED
      BY <1>5, <3>1, <3>2, <3>3 DEF WriteFields, Copy
  <2>4. Opened("multipart")
    BY <1>b, <1>c, <2>2, <2>3, OwnPipes DEF Goes, Opened
  <2>5. Stays("encrypt") /\ Stays("decrypt")
    BY <1>0, <1>c, <2>2, <2>3, OwnPipes DEF Goes, Stays
  <2> QED
    BY <1>c, <2>4, <2>5
<1>7. ASSUME NEW h \in Goroutines, Close(h)
      PROVE  \A k \in Goroutines : Opened(k) \/ Stays(k) \/ Closed(k)'
  <2>1. next' = [next EXCEPT ![h] = "done"]
    BY <1>7 DEF Close
  <2>2. CASE UNCHANGED pipe
    <3>1. Closed(h)'
      BY <1>0, <2>1, <2>2 DEF Closed
    <3>2. \A k \in Goroutines \ {h} : Stays(k)
      BY <1>0, <2>1, <2>2 DEF Stays
    <3> QED
      BY <3>1, <3>2
  <2>3. CASE ~UNCHANGED pipe
    <3>1. pipe[out[h]].data = <<>> /\ pipe' = [pipe EXCEPT ![out[h]].end = next[h]]
      BY <1>7, <2>3 DEF Close
    <3>2. pipe'[out[h]] = [pipe[out[h]] EXCEPT !.end = next[h]]
          /\ \A p \in {"body", "plain", "form"} \ {out[h]} : pipe'[p] = pipe[p]
      BY <1>0, <3>1, OwnPipes
    <3>3. pipe'[out[h]].data = <<>>
      <4>1. pipe[out[h]] \in Pipe(CipherByte) \cup Pipe(Nat)
        BY <1>0, OwnPipes
      <4> QED
        BY <3>1, <3>2, <4>1 DEF Pipe
    <3>4. Closed(h)'
      BY <1>0, <2>1, <3>3 DEF Closed
    <3>5. \A k \in Goroutines \ {h} : Stays(k)
      BY <1>0, <2>1, <3>2, OwnPipes DEF Stays
    <3> QED
      BY <3>4, <3>5
  <2> QED
    BY <2>2, <2>3
<1>8. CASE UploadRead \/ Send
  <2>1. PICK p \in {"body", "form"} : pipe' = [pipe EXCEPT ![p].data = <<>>]
    BY <1>8 DEF UploadRead, Send
  <2>2. /\ pipe'[p] = [pipe[p] EXCEPT !.data = <<>>]
        /\ \A q \in {"body", "plain", "form"} \ {p} : pipe'[q] = pipe[q]
    BY <1>0, <2>1
  <2>3. pipe'[p].end = pipe[p].end /\ pipe'[p].data = <<>>
    BY <1>0, <2>2 DEF Pipe
  <2> QED
    BY <1>8, <2>2, <2>3, OwnPipes DEF UploadRead, Send, Stays
<1>9. CASE Upload \/ Do \/ CloseBody
  <2>1. PICK p \in {"body", "plain", "form"} : pipe' = [pipe EXCEPT ![p].reader = FALSE]
    BY <1>9 DEF Upload, UploadReturn, Do, DoReturn, CloseBody
  <2>2. /\ pipe'[p] = [pipe[p] EXCEPT !.reader = FALSE]
        /\ \A q \in {"body", "plain", "form"} \ {p} : pipe'[q] = pipe[q]
    BY <1>0, <2>1
  <2>3. pipe'[p].end = pipe[p].end /\ pipe'[p].data = pipe[p].data
    BY <1>0, <2>2 DEF Pipe
  <2> QED
    BY <1>9, <2>2, <2>3, OwnPipes DEF Upload, Do, CloseBody, Stays
<1>10. CASE GetObject \/ Call
  <2>1. PICK h \in {"decrypt", "multipart"}, to \in {"prefix", "fields"} :
          /\ next' \in {next, [next EXCEPT ![h] = to]}
          /\ next[h] = "idle"
    BY <1>10 DEF GetObject, Call, Started
  <2>2. Opened(h)
    BY <1>10, <1>b, <1>c, <2>1 DEF GetObject, Call, Opened
  <2>3. \A k \in Goroutines \ {h} : Stays(k)
    BY <1>0, <1>10, <2>1 DEF GetObject, Call, Stays
  <2> QED
    BY <2>2, <2>3
<1> QED
  BY <1>1, <1>2, <1>3, <1>4, <1>5, <1>7, <1>8, <1>9, <1>10
  DEF StreamNext, GoroutineStep, CallerStep

-----------------------------------------------------------------------------
(***************************************************************************)
(* The gateway's side and the relay's                                      *)
(***************************************************************************)

(* The steps of the upload, which are the gateway's.                        *)
GatewayStep == EncryptPrefix \/ EncryptChunk \/ Close("encrypt") \/ UploadRead \/ Upload

(* The steps of the download, which are the relay's.                        *)
RelayStep ==
  \/ DecryptPrefix \/ DecryptChunk \/ Close("decrypt")
  \/ WriteFields \/ Copy \/ Close("multipart")
  \/ GetObject \/ Call \/ Send \/ Do \/ CloseBody

(* There are no others.                                                     *)
LEMMA Sides == StreamNext <=> GatewayStep \/ RelayStep
BY DEF StreamNext, GoroutineStep, CallerStep, GatewayStep, RelayStep, Goroutines

(* The gateway's steps leave the relay's state alone.                       *)
LEMMA GatewayFrame ==
  ASSUME Typed, GatewayStep
  PROVE  /\ next'["decrypt"] = next["decrypt"] /\ next'["multipart"] = next["multipart"]
         /\ pipe'["plain"] = pipe["plain"] /\ pipe'["form"] = pipe["form"]
         /\ size' = size /\ opened' = opened /\ call' = call
         /\ Given' = Given /\ Read' = Read
<1>0. DOMAIN pipe = {"body", "plain", "form"} /\ next \in [Goroutines -> Ends]
  BY DEF Typed, Ends
<1>1. size' = size /\ opened' = opened /\ call' = call
  BY DEF GatewayStep, EncryptPrefix, EncryptChunk, Close, UploadRead, Upload
<1>2. next' = next \/ \E to : next' = [next EXCEPT !["encrypt"] = to]
  BY DEF GatewayStep, EncryptPrefix, EncryptChunk, Close, UploadRead, Upload, Goes
<1>3. \/ pipe' = pipe
      \/ \E bytes : Write("body", bytes)
      \/ \E r : pipe' = [pipe EXCEPT !["body"].end = r]
      \/ pipe' = [pipe EXCEPT !["body"].data = <<>>]
      \/ pipe' = [pipe EXCEPT !["body"].reader = FALSE]
  BY OwnPipes DEF GatewayStep, EncryptPrefix, EncryptChunk, SealChunk, Close, UploadRead, Upload,
     UploadReturn
<1>4. next'["decrypt"] = next["decrypt"] /\ next'["multipart"] = next["multipart"]
  BY <1>0, <1>2 DEF Goroutines
<1>5. pipe'["plain"] = pipe["plain"] /\ pipe'["form"] = pipe["form"]
  BY <1>0, <1>3 DEF Write
<1> QED
  BY <1>1, <1>4, <1>5 DEF Given, Read, Held

(* The relay's steps leave the gateway's alone.                             *)
LEMMA RelayFrame ==
  ASSUME Typed, RelayStep
  PROVE  /\ next'["encrypt"] = next["encrypt"]
         /\ pipe'["body"] = pipe["body"]
         /\ size' = size /\ sealed' = sealed /\ upload' = upload
         /\ Written' = Written
<1>0. DOMAIN pipe = {"body", "plain", "form"} /\ next \in [Goroutines -> Ends]
  BY DEF Typed, Ends
<1>1. size' = size /\ sealed' = sealed /\ upload' = upload
  BY DEF RelayStep, DecryptPrefix, DecryptChunk, Close, WriteFields, Copy, GetObject, Call, Send,
     Do, CloseBody
<1>2. next' = next \/ \E g \in {"decrypt", "multipart"} : \E to : next' = [next EXCEPT ![g] = to]
  <2>1. CASE DecryptChunk
    BY <2>1 DEF DecryptChunk, OpenChunk, Goes
  <2>2. CASE DecryptPrefix \/ WriteFields \/ Copy
    BY <2>2 DEF DecryptPrefix, WriteFields, Copy, Goes
  <2> QED
    BY <2>1, <2>2 DEF RelayStep, Close, GetObject, Call, Send, Do, CloseBody
<1>3. \/ pipe' = pipe
      \/ \E p \in {"plain", "form"} :
           \/ \E bytes : Write(p, bytes)
           \/ \E r : pipe' = [pipe EXCEPT ![p].end = r]
           \/ pipe' = [pipe EXCEPT ![p].data = <<>>]
           \/ pipe' = [pipe EXCEPT ![p].reader = FALSE]
      \/ pipe' = [pipe EXCEPT !["plain"].data = <<>>, !["form"].data = pipe["plain"].data]
  <2>1. CASE DecryptChunk
    BY <2>1 DEF DecryptChunk, OpenChunk
  <2>2. CASE Copy \/ WriteFields \/ DecryptPrefix
    BY <2>2 DEF Copy, WriteFields, DecryptPrefix
  <2>3. CASE Close("decrypt") \/ Close("multipart")
    BY <2>3, OwnPipes DEF Close
  <2> QED
    BY <2>1, <2>2, <2>3 DEF RelayStep, GetObject, Call, Send, Do, DoReturn, CloseBody
<1>4. next'["encrypt"] = next["encrypt"]
  BY <1>0, <1>2 DEF Goroutines
<1>5. pipe'["body"] = pipe["body"]
  BY <1>0, <1>3 DEF Write
<1> QED
  BY <1>1, <1>4, <1>5 DEF Written, Held

(* The relay starts with an object, from its beginning.                     *)
LEMMA StartedNext ==
  ASSUME Typed, Started, StreamNext
  PROVE  Started'
<1>0. /\ next \in [Goroutines -> Ends]
      /\ call \in [pc : {"get", "call", "send", "answered", "failed"}, got : Seq(Nat)]
      /\ upload \in [pc : {"reading", "stored", "failed"}, body : Seq(CipherByte)]
  BY DEF Typed, Ends
<1>1. CASE GatewayStep
  <2>1. upload'.pc = upload.pc \/ upload.pc = "reading"
    BY <1>0, <1>1 DEF GatewayStep, EncryptPrefix, EncryptChunk, Close, UploadRead, Upload,
       UploadReturn
  <2> QED
    BY <1>1, <2>1, GatewayFrame DEF Started
<1>2. CASE RelayStep
  <2>0. upload' = upload
    BY <1>2, RelayFrame
  <2>1. CASE GetObject
    <3>1. call'.pc = "call" /\ next'["multipart"] = next["multipart"] /\ upload.pc = "stored"
      BY <1>0, <2>1 DEF GetObject, Goroutines
    <3> QED
      BY <2>0, <2>1, <3>1 DEF Started, GetObject
  <2>2. CASE Call \/ Send \/ Do
    <3>1. call.pc \in {"call", "send"} /\ call'.pc \notin {"get", "call"}
      BY <1>0, <2>2 DEF Call, Send, Do, DoReturn
    <3> QED
      BY <2>0, <3>1 DEF Started
  <2>3. CASE CloseBody
    BY <2>0, <2>3 DEF Started, CloseBody
  <2>4. CASE DecryptChunk \/ DecryptPrefix \/ Close("decrypt")
    <3>1. next["decrypt"] # "idle" /\ call' = call
      BY <2>4 DEF DecryptChunk, OpenChunk, DecryptPrefix, Close, Goes
    <3>2. \E to : next' = [next EXCEPT !["decrypt"] = to]
      BY <2>4 DEF DecryptChunk, OpenChunk, DecryptPrefix, Close, Goes
    <3>3. next'["multipart"] = next["multipart"]
      BY <1>0, <3>2 DEF Goroutines
    <3> QED
      BY <2>0, <3>1, <3>3 DEF Started
  <2>5. CASE WriteFields \/ Copy \/ Close("multipart")
    <3>1. next["multipart"] # "idle" /\ call' = call
      BY <2>5 DEF WriteFields, Copy, Close, Goes
    <3> QED
      BY <2>0, <3>1 DEF Started
  <2> QED
    BY <1>2, <2>1, <2>2, <2>3, <2>4, <2>5 DEF RelayStep
<1> QED
  BY <1>1, <1>2, Sides

-----------------------------------------------------------------------------
(***************************************************************************)
(* Sealing                                                                 *)
(***************************************************************************)

(* Every byte that Encrypt has written is in its place.                     *)
BytesPlaced == \A x \in 1..Len(Written) : ByteAt(x, Written[x])

(* What is sealed in it is of the file.                                     *)
BytesOfFile ==
  \A x \in 1..Len(Written) : \A l \in 1..Len(Written[x].data) : Written[x].data[l] \in 1..size

(* What Encrypt has written is a sequence of bytes of the object.           *)
LEMMA WrittenBytes ==
  ASSUME Typed
  PROVE  /\ Written \in Seq(CipherByte) /\ upload.body \in Seq(CipherByte)
         /\ Len(Written) = Len(upload.body) + Len(Held("body"))
         /\ Held("body") \in Seq(CipherByte)
<1>1. upload.body \in Seq(CipherByte) /\ pipe["body"] \in Pipe(CipherByte)
  BY DEF Typed
<1>2. Held("body") \in Seq(CipherByte)
  BY <1>1, HeldBytes
<1> QED
  BY <1>1, <1>2, Joined DEF Written

(* Bytes already written stay where they are.                               *)
LEMMA PlacesStay ==
  ASSUME NEW x, NEW b, ByteAt(x, b), size' = size, Sound' => Sound
  PROVE  ByteAt(x, b)'
BY DEF ByteAt, ChunkData

(* What Encrypt writes comes after what it has written.                     *)
LEMMA WritesMore ==
  ASSUME Typed, NEW bytes \in Seq(CipherByte), pipe["body"].data = <<>>, Write("body", bytes),
         upload' = upload
  PROVE  /\ Written' = Written \o bytes
         /\ Len(Written') = Len(Written) + Len(bytes)
         /\ \A x \in 1..Len(Written) + Len(bytes) :
              Written'[x] = IF x <= Len(Written) THEN Written[x] ELSE bytes[x - Len(Written)]
<1>1. pipe["body"] \in Pipe(CipherByte)
  BY DEF Typed
<1>2. Held("body")' = bytes
  BY <1>1, Writes
<1>3. Written = upload.body
  BY <1>1, HeldBytes, WrittenBytes, JoinedEmpty DEF Written
<1>4. Written' = Written \o bytes
  BY <1>2, <1>3 DEF Written
<1> QED
  BY <1>4, WrittenBytes, Joined

(* The prefix of the nonces.                                                *)
LEMMA SealingPrefix ==
  ASSUME Typed, Sealing, Closed("encrypt"), EncryptPrefix
  PROVE  Sealing'
<1>0. /\ next["encrypt"] = "prefix" /\ next'["encrypt"] = "chunk"
      /\ pipe["body"].data = <<>> /\ Write("body", NoncePrefix)
      /\ size' = size /\ sealed' = sealed /\ upload' = upload
  BY OwnPipes DEF EncryptPrefix, Goes, Typed, Goroutines
<1>1. Written = <<>> /\ sealed = [i |-> 0, at |-> 0]
  BY <1>0 DEF Sealing
<1>2. pipe["body"].end = "open" /\ pipe'["body"].end = "open"
  BY <1>0, OwnPipes, Writes, Prefixes DEF Closed, Typed
<1>3. Len(Written') = noncePrefixLen
      /\ \A x \in 1..noncePrefixLen : Written'[x] = [i |-> Counters, data |-> <<>>, k |-> x]
  BY <1>0, <1>1, WritesMore, Prefixes, Constants
<1>4. BytesPlaced'
  BY <1>3, Constants DEF BytesPlaced, ByteAt
<1>5. BytesOfFile'
  BY <1>3 DEF BytesOfFile
<1>6. sealed'.at = sealed'.i * chunkPlainSize
      /\ Len(Written') = noncePrefixLen + sealed'.i * chunkCipherSize
  BY <1>0, <1>1, <1>3, Constants
<1> QED
  BY <1>0, <1>1, <1>2, <1>4, <1>5, <1>6 DEF Sealing, BytesPlaced, BytesOfFile

(* The length of the object, when the chunks before the last are whole.     *)
LEMMA SizeAtLast ==
  ASSUME NEW s \in Nat, NEW i \in Nat, NEW n \in 0..chunkPlainSize - 1,
         s = i * chunkPlainSize + n
  PROVE  EncryptedSize(s) =
           noncePrefixLen + i * chunkCipherSize
             + (IF n > 0 \/ i = 0 THEN n + gcmTagSize ELSE 0)
<1>1. s \div chunkPlainSize = i /\ s % chunkPlainSize = n
  BY Constants, Divided
<1>2. s = 0 <=> i = 0 /\ n = 0
  <2>1. CASE i = 0
    BY <2>1, Constants
  <2>2. CASE i # 0
    <3>1. i * chunkPlainSize > 0
      BY <2>2, Constants, Counting
    <3> QED
      BY <2>2, <3>1, Constants
  <2> QED
    BY <2>1, <2>2
<1> QED
  BY <1>1, <1>2 DEF EncryptedSize

(* A whole chunk leaves room for the next counter.                          *)
LEMMA CounterHasRoom ==
  ASSUME NEW i \in Nat, NEW s \in Sizes, i * chunkPlainSize + chunkPlainSize <= s
  PROVE  i + 1 < Counters
<1>1. s < Counters * chunkPlainSize
  BY Constants
<1>2. (i + 1) * chunkPlainSize = i * chunkPlainSize + chunkPlainSize
  BY Constants, Counting
<1>3. (i + 1) * chunkPlainSize \in Int /\ Counters * chunkPlainSize \in Int /\ s \in Int
  BY Constants
<1>4. (i + 1) * chunkPlainSize < Counters * chunkPlainSize
  BY <1>1, <1>2, <1>3
<1> QED
  BY <1>4, Constants, Counting

(* A chunk, of n bytes, whole or the last one, or cut short by an error.    *)
LEMMA SealingBytes ==
  ASSUME Typed, Sealing, next["encrypt"] = "chunk", pipe["body"].data = <<>>,
         pipe["body"].end = "open", pipe'["body"].end = "open",
         NEW n \in Nat, n <= size - sealed.at, n <= chunkPlainSize, SealChunk(n),
         size' = size, upload' = upload,
         Sound' => n = Least(chunkPlainSize, size - sealed.at)
  PROVE  /\ BytesPlaced'
         /\ BytesOfFile'
         /\ Len(Written') = noncePrefixLen + sealed.i * chunkCipherSize
              + (IF n > 0 \/ sealed.i = 0 THEN n + gcmTagSize ELSE 0)
         /\ sealed'.i = (sealed.i + 1) % Counters /\ sealed'.at = sealed.at + n
<1> DEFINE data == [k \in 1..n |-> sealed.at + k]
<1>0. /\ sealed.i \in 0..Counters - 1 /\ sealed.i \in Nat /\ sealed.i \in 0..Counters
      /\ sealed.at \in Nat /\ size \in Nat
  BY Constants DEF Typed, Position
<1>1. /\ sealed.at = sealed.i * chunkPlainSize
      /\ Len(Written) = noncePrefixLen + sealed.i * chunkCipherSize
      /\ BytesPlaced /\ BytesOfFile /\ Sound
  BY DEF Sealing, BytesPlaced, BytesOfFile, Sound
<1>2. sealed'.i = (sealed.i + 1) % Counters /\ sealed'.at = sealed.at + n
  BY DEF SealChunk, Advance
<1>3. data \in Seq(Nat) /\ Len(data) = n /\ Seal(sealed.i, data) \in Seq(CipherByte)
      /\ Len(Seal(sealed.i, data)) = n + gcmTagSize
      /\ \A k \in 1..n + gcmTagSize :
           Seal(sealed.i, data)[k] = [i |-> sealed.i, data |-> data, k |-> k]
  <2>1. data \in Seq(Nat) /\ Len(data) = n
    BY <1>0, Runs
  <2> HIDE DEF data
  <2>2. /\ Seal(sealed.i, data) \in Seq(CipherByte)
        /\ Len(Seal(sealed.i, data)) = Len(data) + gcmTagSize
        /\ \A k \in 1..Len(data) + gcmTagSize :
             Seal(sealed.i, data)[k] = [i |-> sealed.i, data |-> data, k |-> k]
    BY ONLY <1>0, <2>1, Seals
  <2> QED
    BY ONLY <2>1, <2>2
<1>4. Sound' => data = ChunkData(sealed.i)
  <2>1. ChunkData(sealed.i)
          = [k \in 1..Least(chunkPlainSize, size - sealed.at) |-> sealed.at + k]
    BY ONLY <1>1 DEF ChunkData
  <2> QED
    BY <2>1
<1>8. \A i : ChunkData(i)' = ChunkData(i)
  BY DEF ChunkData
<1>5. Len(Written) \in Nat
  BY <1>0, <1>1, Constants
<1>6. CASE n > 0 \/ sealed.i = 0
  <2>1. Write("body", Seal(sealed.i, data))
    BY <1>6 DEF SealChunk
  <2>2. /\ Len(Written') = Len(Written) + (n + gcmTagSize)
        /\ \A x \in 1..Len(Written) : Written'[x] = Written[x]
        /\ \A x \in Len(Written) + 1..Len(Written) + (n + gcmTagSize) :
             Written'[x] = Seal(sealed.i, data)[x - Len(Written)]
    <3> DEFINE bytes == Seal(sealed.i, data)
    <3> HIDE DEF data
    <3>1. bytes \in Seq(CipherByte) /\ Len(bytes) = n + gcmTagSize /\ Write("body", bytes)
          /\ n + gcmTagSize \in Nat
      BY <1>3, <2>1, Constants
    <3> HIDE DEF bytes
    <3>2. Len(Written') = Len(Written) + Len(bytes)
          /\ \A x \in 1..Len(Written) + Len(bytes) :
               Written'[x] = IF x <= Len(Written) THEN Written[x] ELSE bytes[x - Len(Written)]
      BY <3>1, WritesMore
    <3>3. /\ Len(Written') = Len(Written) + (n + gcmTagSize)
          /\ \A x \in 1..Len(Written) : Written'[x] = Written[x]
          /\ \A x \in Len(Written) + 1..Len(Written) + (n + gcmTagSize) :
               Written'[x] = bytes[x - Len(Written)]
      BY <1>5, <3>1, <3>2
    <3> QED
      BY <3>3 DEF bytes
  <2>3. ASSUME NEW x \in 1..Len(Written')  PROVE ByteAt(x, Written[x])' /\
               \A l \in 1..Len(Written'[x].data) : Written'[x].data[l] \in 1..size
    <3>1. CASE x \in 1..Len(Written)
      <4>1. ByteAt(x, Written[x])
        BY <1>1, <3>1 DEF BytesPlaced
      <4>2. Written'[x] = Written[x]
        BY <2>2, <3>1
      <4>3. ByteAt(x, Written'[x])
        BY <4>1, <4>2
      <4>4. ByteAt(x, Written[x])'
        BY <1>1, <4>3, PlacesStay
      <4> QED
        BY <1>1, <3>1, <4>2, <4>4 DEF BytesOfFile
    <3>2. CASE x \notin 1..Len(Written)
      <4> DEFINE k == x - Len(Written)
      <4>1. k \in 1..n + gcmTagSize /\ x \in Len(Written) + 1..Len(Written) + (n + gcmTagSize)
            /\ x = Len(Written) + k
        BY <1>5, <2>2, <3>2, Constants
      <4>2. Written'[x] = [i |-> sealed.i, data |-> data, k |-> k]
        <5>1. Seal(sealed.i, data)[k] = [i |-> sealed.i, data |-> data, k |-> k]
          BY <1>3, <4>1
        <5>2. Written'[x] = Seal(sealed.i, data)[k]
          BY <2>2, <4>1
        <5> HIDE DEF data, k
        <5> QED
          BY <5>1, <5>2
      <4>3. x = noncePrefixLen + sealed.i * chunkCipherSize + k
        BY <1>1, <4>1
      <4>4. ByteAt(x, Written[x])'
        <5> HIDE DEF data, k
        <5> QED
          BY <1>0, <1>3, <1>4, <1>8, <4>1, <4>2, <4>3 DEF ByteAt
      <4>5. \A l \in 1..n : data[l] \in 1..size
        BY <1>0
      <4>6. Written'[x].data = data
        BY <4>2
      <4> HIDE DEF data, k
      <4> QED
        BY <1>3, <4>4, <4>5, <4>6
    <3> QED
      BY <3>1, <3>2
  <2>4. BytesPlaced'
    BY <2>3 DEF BytesPlaced
  <2>5. BytesOfFile'
    BY <2>3 DEF BytesOfFile
  <2>6. Len(Written') = noncePrefixLen + sealed.i * chunkCipherSize + (n + gcmTagSize)
    BY <1>1, <2>2
  <2> HIDE DEF data
  <2> QED
    BY <1>2, <1>6, <2>4, <2>5, <2>6
<1>7. CASE ~(n > 0 \/ sealed.i = 0)
  <2>1. pipe' = pipe
    BY <1>7 DEF SealChunk
  <2>2. Written' = Written
    BY <2>1 DEF Written, Held
  <2>3. BytesPlaced'
    BY <1>1, <2>2, PlacesStay DEF BytesPlaced
  <2>4. BytesOfFile'
    BY <1>1, <2>2 DEF BytesOfFile
  <2>5. Len(Written') = noncePrefixLen + sealed.i * chunkCipherSize + 0
    BY <1>0, <1>1, <2>2, Constants
  <2> QED
    BY <1>2, <1>7, <2>3, <2>4, <2>5
<1> QED
  BY <1>6, <1>7

(* A chunk that is sealed goes on where the last one ended.                 *)
LEMMA SealingChunk ==
  ASSUME Typed, Sealing, Closed("encrypt"), EncryptChunk
  PROVE  Sealing'
<1> DEFINE all == Least(chunkPlainSize, size - sealed.at)
<1>0. /\ sealed.i \in 0..Counters - 1 /\ sealed.i \in Nat /\ sealed.at \in Nat
      /\ size \in Nat /\ size \in Sizes /\ sealed.at <= size
      /\ next["encrypt"] = "chunk" /\ pipe["body"].data = <<>>
      /\ size' = size /\ upload' = upload
      /\ next \in [Goroutines -> Ends] /\ "encrypt" \in Goroutines
  BY Constants, OwnPipes DEF Typed, Position, Sealing, EncryptChunk, Goes, Ends, Goroutines
<1>1. /\ sealed.at = sealed.i * chunkPlainSize
      /\ Len(Written) = noncePrefixLen + sealed.i * chunkCipherSize
  BY <1>0 DEF Sealing
<1>2. pipe["body"].end = "open"
  BY <1>0, OwnPipes DEF Closed
<1>3. pipe'["body"].end = "open"
  <2>1. CASE pipe' = pipe
    BY <1>2, <2>1
  <2>2. CASE pipe' # pipe
    <3>1. \E bytes : Write("body", bytes)
      BY <2>2 DEF EncryptChunk, SealChunk
    <3>2. PICK bytes : pipe'["body"] = [pipe["body"] EXCEPT !.data = <<bytes>>]
      BY <3>1 DEF Write, Typed
    <3>3. pipe["body"] \in Pipe(CipherByte)
      BY DEF Typed
    <3> QED
      BY ONLY <1>2, <3>2, <3>3 DEF Pipe
  <2> QED
    BY <2>1, <2>2
<1>4. upload.pc # "stored"
  BY <1>2 DEF Sealing
<1>5. /\ all \in Nat /\ all <= size - sealed.at /\ all <= chunkPlainSize
      /\ \/ all = chunkPlainSize \/ all = size - sealed.at
      /\ all < chunkPlainSize => all = size - sealed.at
      /\ \A m \in 0..Least(all, chunkPlainSize - 1) :
           m \in Nat /\ m <= size - sealed.at /\ m <= chunkPlainSize
  <2>1. size - sealed.at \in Nat
    BY <1>0
  <2>2. /\ all \in Nat /\ all <= size - sealed.at /\ all <= chunkPlainSize
        /\ all = chunkPlainSize \/ all = size - sealed.at
        /\ \A m \in 0..Least(all, chunkPlainSize - 1) :
             m \in Nat /\ m <= size - sealed.at /\ m < chunkPlainSize
    BY <2>1, Constants, Reads
  <2> HIDE DEF all
  <2> QED
    BY <2>1, <2>2, Constants
<1>6. CASE SealChunk(all) /\ next' = [next EXCEPT !["encrypt"] = IF all < chunkPlainSize THEN "eof" ELSE "chunk"]
  <2>1. /\ BytesPlaced' /\ BytesOfFile'
        /\ Len(Written') = noncePrefixLen + sealed.i * chunkCipherSize
             + (IF all > 0 \/ sealed.i = 0 THEN all + gcmTagSize ELSE 0)
        /\ sealed'.i = (sealed.i + 1) % Counters /\ sealed'.at = sealed.at + all
    BY <1>0, <1>2, <1>3, <1>5, <1>6, SealingBytes
  <2>2. next'["encrypt"] = IF all < chunkPlainSize THEN "eof" ELSE "chunk"
    BY <1>0, <1>6
  <2>3. sealed'.at <= size
    BY <1>0, <1>5, <2>1
  <2>4. CASE all < chunkPlainSize
    <3>1. all \in 0..chunkPlainSize - 1 /\ size = sealed.i * chunkPlainSize + all
      <4>1. all \in Nat /\ all = size - sealed.at
        BY <1>5, <2>4
      <4> HIDE DEF all
      <4>2. all \in 0..chunkPlainSize - 1 /\ size = sealed.at + all
        BY <1>0, <2>4, <4>1, Constants
      <4> QED
        BY <1>1, <4>2
    <3> HIDE DEF all
    <3>3. WholeObject'
      BY <1>0, <2>1, <3>1 DEF WholeObject
    <3> QED
      BY <1>0, <1>4, <2>1, <2>2, <2>3, <2>4, <3>3 DEF Sealing, BytesPlaced, BytesOfFile
  <2>5. CASE ~(all < chunkPlainSize)
    <3>1. all = chunkPlainSize
      BY <1>5, <2>5, Constants
    <3>2. sealed.i * chunkPlainSize + chunkPlainSize <= size
      <4>1. chunkPlainSize <= size - sealed.at
        BY ONLY <1>5, <3>1
      <4>2. sealed.at + chunkPlainSize <= size
        BY ONLY <1>0, <4>1, Constants
      <4> QED
        BY ONLY <1>1, <4>2
    <3>3. sealed'.i = sealed.i + 1
      BY <1>0, <2>1, <3>2, CounterHasRoom, Wraps
    <3>4. sealed'.at = sealed'.i * chunkPlainSize
      <4> HIDE DEF all
      <4> QED
        BY <1>0, <1>1, <2>1, <3>1, <3>3, Constants, Counting
    <3>5. Len(Written') = noncePrefixLen + sealed'.i * chunkCipherSize
      <4>1. (sealed.i + 1) * chunkCipherSize = sealed.i * chunkCipherSize + chunkCipherSize
        BY <1>0, Constants, Counting
      <4>2. Len(Written') = noncePrefixLen + sealed.i * chunkCipherSize + (chunkPlainSize + gcmTagSize)
        <5> HIDE DEF all
        <5> QED
          BY <2>1, <3>1, Constants
      <4> QED
        BY <1>0, <3>3, <4>1, <4>2, Constants
    <3> HIDE DEF all
    <3> QED
      BY <1>0, <1>3, <1>4, <2>1, <2>2, <2>3, <2>5, <3>4, <3>5 DEF Sealing, BytesPlaced, BytesOfFile
  <2> QED
    BY <2>4, <2>5
<1>7. CASE next' = [next EXCEPT !["encrypt"] = "error"]
           /\ \E m \in 0..Least(all, chunkPlainSize - 1) : SealChunk(m)
  <2>0. PICK m \in 0..Least(all, chunkPlainSize - 1) : SealChunk(m)
    BY <1>7
  <2>1. next'["encrypt"] = "error"
    BY <1>0, <1>7
  <2>2. ~Sound'
    BY <1>3, <2>1 DEF Sound
  <2>3. m \in Nat /\ m <= size - sealed.at /\ m <= chunkPlainSize
    BY <1>5
  <2> HIDE DEF all
  <2>4. /\ BytesPlaced' /\ BytesOfFile'
        /\ sealed'.at = sealed.at + m
    BY <1>0, <1>2, <1>3, <2>0, <2>2, <2>3, SealingBytes
  <2>5. sealed'.at <= size
    BY <1>0, <2>3, <2>4
  <2> QED
    BY <1>0, <1>3, <1>4, <2>1, <2>4, <2>5 DEF Sealing, BytesPlaced, BytesOfFile
<1> QED
  BY <1>6, <1>7 DEF EncryptChunk, Goes

(* Every other step leaves what has been written as it is.                  *)
LEMMA SealingStays ==
  ASSUME Typed, Sealing, Closed("encrypt"), Close("encrypt") \/ UploadRead \/ Upload \/ RelayStep
  PROVE  Sealing'
<1>0. /\ next \in [Goroutines -> Ends] /\ "encrypt" \in Goroutines
      /\ pipe["body"] \in Pipe(CipherByte) /\ DOMAIN pipe = {"body", "plain", "form"}
      /\ upload \in [pc : {"reading", "stored", "failed"}, body : Seq(CipherByte)]
  BY DEF Typed, Ends, Goroutines
<1>a. ASSUME Written' = Written, size' = size, sealed' = sealed, Sound' => Sound,
             next'["encrypt"] = "prefix" => next["encrypt"] = "prefix",
             next'["encrypt"] = "chunk" => next["encrypt"] = "chunk",
             next'["encrypt"] = "eof" \/ pipe'["body"].end = "eof"
               => next["encrypt"] = "eof" \/ pipe["body"].end = "eof",
             upload'.pc = "stored" => pipe'["body"].end = "eof"
      PROVE  Sealing'
  <2>1. \A x \in 1..Len(Written') : ByteAt(x, Written[x])'
    BY <1>a, PlacesStay DEF Sealing
  <2>2. WholeObject' <=> WholeObject
    BY <1>a DEF WholeObject
  <2> QED
    BY <1>a, <2>1, <2>2 DEF Sealing
<1>1. CASE Close("encrypt")
  <2>1. next' = [next EXCEPT !["encrypt"] = "done"] /\ size' = size /\ sealed' = sealed
        /\ upload' = upload
    BY <1>1 DEF Close
  <2>2. next'["encrypt"] = "done"
    BY <1>0, <2>1
  <2>3. CASE pipe' = pipe
    <3>1. Written' = Written
      BY <2>1, <2>3 DEF Written, Held
    <3> QED
      BY <1>a, <2>1, <2>2, <2>3, <3>1 DEF Sealing, Sound
  <2>4. CASE pipe' # pipe
    <3>1. next["encrypt"] \in {"eof", "error"}
          /\ pipe' = [pipe EXCEPT !["body"].end = next["encrypt"]]
      BY <1>1, <2>4, OwnPipes DEF Close
    <3>2. pipe'["body"].end = next["encrypt"] /\ Held("body")' = Held("body")
      <4>1. pipe'["body"] = [pipe["body"] EXCEPT !.end = next["encrypt"]]
        BY <1>0, <3>1
      <4> QED
        BY <1>0, <4>1 DEF Pipe, Held
    <3>3. Written' = Written
      BY <2>1, <3>2 DEF Written
    <3>4. upload'.pc # "stored"
      BY <2>1, <3>1, OwnPipes DEF Sealing, Closed
    <3> QED
      BY <1>a, <2>1, <2>2, <3>1, <3>2, <3>3, <3>4 DEF Sound
  <2> QED
    BY <2>3, <2>4
<1>2. CASE UploadRead
  <2>1. next' = next /\ size' = size /\ sealed' = sealed /\ upload.pc = "reading"
        /\ upload' = [upload EXCEPT !.body = upload.body \o Held("body")]
    BY <1>0, <1>2, HeldBytes DEF UploadRead
  <2>2. pipe'["body"].end = pipe["body"].end /\ Held("body")' = <<>>
    BY <1>0, <1>2, Empties DEF UploadRead
  <2>3. upload'.pc = "reading" /\ upload'.body = Written
    BY <1>0, <2>1 DEF Written
  <2>4. Written' = Written
    BY <2>2, <2>3, WrittenBytes, JoinedEmpty DEF Written
  <2> QED
    BY <1>a, <2>1, <2>2, <2>3, <2>4 DEF Sound
<1>3. CASE Upload
  <2>1. next' = next /\ size' = size /\ sealed' = sealed
        /\ pipe' = [pipe EXCEPT !["body"].reader = FALSE]
        /\ \E pc \in {"stored", "failed"} : upload' = [upload EXCEPT !.pc = pc]
    BY <1>3 DEF Upload, UploadReturn
  <2>2. pipe'["body"].end = pipe["body"].end /\ Held("body")' = Held("body")
    <3>1. pipe'["body"] = [pipe["body"] EXCEPT !.reader = FALSE]
      BY <1>0, <2>1
    <3> QED
      BY <1>0, <3>1 DEF Pipe, Held
  <2>3. upload'.body = upload.body
    BY <1>0, <2>1
  <2>4. upload'.pc = "stored" => pipe["body"].end = "eof"
    BY <1>0, <1>3 DEF Upload, UploadReturn, Ended
  <2>5. Written' = Written
    BY <2>2, <2>3 DEF Written
  <2> QED
    BY <1>a, <2>1, <2>2, <2>4, <2>5 DEF Sound
<1>4. CASE RelayStep
  <2>1. next'["encrypt"] = next["encrypt"] /\ pipe'["body"] = pipe["body"]
        /\ size' = size /\ sealed' = sealed /\ upload' = upload /\ Written' = Written
    BY <1>4, RelayFrame
  <2> QED
    BY <1>a, <2>1 DEF Sealing, Sound
<1> QED
  BY <1>1, <1>2, <1>3, <1>4

(* Every step keeps what Encrypt has written.                               *)
LEMMA SealingNext ==
  ASSUME Typed, Sealing, Closed("encrypt"), StreamNext
  PROVE  Sealing'
BY Sides, SealingPrefix, SealingChunk, SealingStays DEF GatewayStep

-----------------------------------------------------------------------------
(***************************************************************************)
(* Opening                                                                 *)
(***************************************************************************)

(* What Decrypt has written is a sequence of bytes.                         *)
LEMMA ReadBytes ==
  ASSUME Typed
  PROVE  /\ call.got \in Seq(Nat) /\ Held("form") \in Seq(Nat) /\ Held("plain") \in Seq(Nat)
         /\ Given \in Seq(Nat) /\ Read \in Seq(Nat)
<1>1. call.got \in Seq(Nat) /\ Held("form") \in Seq(Nat) /\ Held("plain") \in Seq(Nat)
  BY HeldBytes DEF Typed
<1>2. Given \in Seq(Nat)
  BY <1>1, Joined DEF Given
<1> QED
  BY <1>1, <1>2, Joined DEF Read

(* What the relay reads is the object, whole.                               *)
LEMMA ObjectThere ==
  ASSUME Typed, Closed("encrypt"), Sealing, Started, next["decrypt"] # "idle"
  PROVE  /\ upload.body = Written
         /\ WholeObject
         /\ \A x \in 1..Len(upload.body) :
              \/ upload.body[x].i = Counters
              \/ upload.body[x].data = ChunkData(upload.body[x].i)
<1>1. upload.pc = "stored" /\ pipe["body"].end = "eof" /\ WholeObject /\ Sound
  BY DEF Started, Sealing, Sound
<1>2. pipe["body"].data = <<>>
  BY <1>1, OwnPipes DEF Closed
<1>3. upload.body = Written
  BY <1>2, HeldBytes, WrittenBytes, JoinedEmpty DEF Written, Typed
<1> QED
  BY <1>1, <1>3 DEF Sealing, ByteAt

(* It is longer than the prefix, where Decrypt starts.                      *)
LEMMA PrefixThere ==
  ASSUME WholeObject
  PROVE  noncePrefixLen <= Len(Written)
<1>1. PICK q \in Nat, r \in 0..chunkPlainSize - 1 :
        Len(Written) = noncePrefixLen + q * chunkCipherSize
                         + (IF r > 0 \/ q = 0 THEN r + gcmTagSize ELSE 0)
  BY DEF WholeObject
<1>2. q * chunkCipherSize \in Nat
  BY Constants
<1> QED
  BY <1>1, <1>2, Constants

(* When Decrypt has come to the end between two chunks, it has read all.    *)
LEMMA EndBetweenChunks ==
  ASSUME WholeObject, NEW i \in Nat, Len(Written) = noncePrefixLen + i * chunkCipherSize
  PROVE  size = i * chunkPlainSize
<1>1. PICK q \in Nat, r \in 0..chunkPlainSize - 1 :
        /\ size = q * chunkPlainSize + r
        /\ Len(Written) = noncePrefixLen + q * chunkCipherSize
                            + (IF r > 0 \/ q = 0 THEN r + gcmTagSize ELSE 0)
  BY DEF WholeObject
<1> DEFINE rest == IF r > 0 \/ q = 0 THEN r + gcmTagSize ELSE 0
<1>2. /\ rest \in 0..chunkCipherSize - 1
      /\ rest = 0 => r = 0
  BY Constants
<1>3. Len(Written) = noncePrefixLen + q * chunkCipherSize + rest
  BY <1>1
<1>4. q * chunkCipherSize \in Nat /\ i * chunkCipherSize \in Nat /\ q * chunkPlainSize \in Nat
  BY Constants
<1> HIDE DEF rest
<1>5. i * chunkCipherSize = q * chunkCipherSize + rest
  BY <1>2, <1>3, <1>4, Constants
<1>6. i = q /\ rest = 0
  BY <1>2, <1>5, Constants, Counting
<1> QED
  BY <1>1, <1>2, <1>4, <1>6

(* The bytes of a chunk that opens are a whole chunk of the file.           *)
LEMMA OpensChunk ==
  ASSUME Typed, Closed("encrypt"), Sealing, Started, next["decrypt"] # "idle",
         NEW n \in Nat \ {0}, opened.at + n <= Len(upload.body),
         CanOpen(opened.i, SubSeq(upload.body, opened.at + 1, opened.at + n))
  PROVE  LET data == SubSeq(upload.body, opened.at + 1, opened.at + n)[1].data IN
         /\ data = ChunkData(opened.i)
         /\ data \in Seq(Nat)
         /\ n = Len(data) + gcmTagSize
<1> DEFINE bytes == SubSeq(upload.body, opened.at + 1, opened.at + n)
           data == bytes[1].data
<1>0. /\ opened.i \in 0..Counters - 1 /\ opened.i \in 0..Counters /\ opened.at \in Nat
      /\ upload.body \in Seq(CipherByte) /\ opened.i # Counters
  BY Constants DEF Typed, Position
<1>1. /\ Len(bytes) = n /\ bytes[1] = upload.body[opened.at + 1]
      /\ upload.body[opened.at + 1].data \in Seq(Nat)
  BY <1>0, OpensData
<1>2. data \in Seq(Nat) /\ bytes = Seal(opened.i, data)
  BY <1>1 DEF CanOpen
<1> HIDE DEF bytes, data
<1>3. Len(bytes) = Len(data) + gcmTagSize /\ bytes[1] = [i |-> opened.i, data |-> data, k |-> 1]
  <2>1. Len(data) \in Nat /\ 1 \in 1..Len(data) + gcmTagSize
    BY <1>2, Constants
  <2> QED
    BY <1>0, <1>2, <2>1, Seals
<1>4. upload.body[opened.at + 1].i = opened.i /\ upload.body[opened.at + 1].data = data
  BY <1>1, <1>3
<1>5. opened.at + 1 \in 1..Len(upload.body)
  BY <1>0
<1>6. data = ChunkData(opened.i)
  BY <1>0, <1>4, <1>5, ObjectThere
<1> QED
  BY <1>1, <1>2, <1>3, <1>6 DEF bytes, data

(* A step that leaves what has been read, and where, as it is.              *)
LEMMA OpeningStays ==
  ASSUME Opening, Read' = Read, size' = size, opened' = opened, opened.at <= Len(upload'.body),
         next'["decrypt"] = "prefix" => Read = <<>> /\ opened = [i |-> 0, at |-> 0],
         next'["decrypt"] = "chunk" => next["decrypt"] = "chunk",
         next'["decrypt"] = "eof" \/ pipe'["plain"].end = "eof"
           => next["decrypt"] = "eof" \/ pipe["plain"].end = "eof" \/ Len(Read) = size,
         next'["multipart"] = "eof" \/ pipe'["form"].end = "eof" => pipe'["plain"].end = "eof",
         call'.pc = "answered" => pipe'["form"].end = "eof"
  PROVE  Opening'
BY DEF Opening

(* The gateway's steps keep what Decrypt has written.                       *)
LEMMA OpeningGateway ==
  ASSUME Typed, Opening, GatewayStep
  PROVE  Opening'
<1>1. /\ next'["decrypt"] = next["decrypt"] /\ next'["multipart"] = next["multipart"]
      /\ pipe'["plain"] = pipe["plain"] /\ pipe'["form"] = pipe["form"]
      /\ size' = size /\ opened' = opened /\ call' = call
      /\ Read' = Read
  BY GatewayFrame
<1>2. opened.at \in Nat /\ upload \in [pc : {"reading", "stored", "failed"}, body : Seq(CipherByte)]
  BY DEF Typed, Position
<1>3. opened.at <= Len(upload'.body)
  <2>1. CASE UploadRead
    <3>1. upload'.body = upload.body \o Held("body") /\ Held("body") \in Seq(CipherByte)
      BY <1>2, <2>1, HeldBytes, WrittenBytes DEF UploadRead, Typed
    <3>2. Len(upload'.body) = Len(upload.body) + Len(Held("body"))
      BY <1>2, <3>1, Joined
    <3> QED
      BY <1>2, <3>1, <3>2 DEF Opening
  <2>2. CASE ~UploadRead
    <3>1. upload'.body = upload.body
      BY <1>2, <2>2 DEF GatewayStep, EncryptPrefix, EncryptChunk, Close, Upload, UploadReturn
    <3> QED
      BY <3>1 DEF Opening
  <2> QED
    BY <2>1, <2>2
<1>4. Opening
  OBVIOUS
<1> QED
  BY <1>1, <1>3, OpeningStays DEF Opening

(* A chunk of the object: its bytes follow those of the chunks before.      *)
LEMMA OpensMore ==
  ASSUME Typed, Opening, next["decrypt"] = "chunk", pipe["plain"].data = <<>>,
         Write("plain", ChunkData(opened.i)), size' = size, call' = call
  PROVE  /\ ChunkData(opened.i) \in Seq(Nat)
         /\ Len(ChunkData(opened.i)) = Least(chunkPlainSize, size - opened.i * chunkPlainSize)
         /\ Len(Read') = opened.i * chunkPlainSize + Len(ChunkData(opened.i))
         /\ Len(Read') <= size
         /\ \A x \in 1..Len(Read') : Read'[x] = x
<1> DEFINE data == ChunkData(opened.i)
           at == opened.i * chunkPlainSize
           n == Least(chunkPlainSize, size - at)
<1>0. /\ opened.i \in Nat /\ size \in Nat /\ at \in Nat /\ at <= size /\ Len(Read) = at
      /\ pipe["plain"] \in Pipe(Nat) /\ pipe["form"] \in Pipe(Nat)
  BY Constants DEF Typed, Position, Opening
<1>1. n \in Nat /\ n <= size - at
  <2>1. size - at \in Nat
    BY <1>0
  <2> QED
    BY <2>1, Constants, Reads
<1>2. data \in Seq(Nat) /\ Len(data) = n /\ \A k \in 1..n : data[k] = at + k
  <2>1. data = [k \in 1..n |-> at + k]
    BY DEF ChunkData
  <2> HIDE DEF data, n, at
  <2> QED
    BY <1>0, <1>1, <2>1, Runs
<1>3. Read = Given
  BY <1>0, HeldBytes, ReadBytes, JoinedEmpty DEF Read
<1>4. Held("plain")' = data /\ Held("form")' = Held("form")
  BY <1>0, <1>2, Writes
<1>5. Read' = Read \o data
  BY <1>3, <1>4 DEF Read, Given
<1> HIDE DEF data, at, n
<1>6. /\ Len(Read') = at + n
      /\ \A x \in 1..at + n : Read'[x] = IF x <= at THEN Read[x] ELSE data[x - at]
  <2>1. Read \in Seq(Nat)
    BY ReadBytes
  <2> QED
    BY ONLY <1>0, <1>2, <1>5, <2>1, Joined
<1>7. ASSUME NEW x \in 1..at + n  PROVE Read'[x] = x
  <2>1. CASE x <= at
    <3>1. x \in 1..Len(Read)
      BY <1>0, <1>1, <2>1
    <3> QED
      BY <1>6, <1>7, <2>1, <3>1 DEF Opening
  <2>2. CASE ~(x <= at)
    <3>1. x - at \in 1..n
      BY <1>0, <1>1, <2>2
    <3>2. Read'[x] = at + (x - at)
      BY <1>2, <1>6, <1>7, <2>2, <3>1
    <3> QED
      BY <1>0, <3>2
  <2> QED
    BY <2>1, <2>2
<1>8. at + n <= size
  BY <1>0, <1>1
<1> QED
  BY <1>2, <1>6, <1>7, <1>8 DEF data, at, n

(* Where chunks begin, in the file and in the object.                       *)
LEMMA ChunkPlaces ==
  ASSUME NEW i \in Nat
  PROVE  /\ i * chunkPlainSize \in Nat /\ i * chunkCipherSize \in Nat
         /\ (i + 1) * chunkPlainSize = i * chunkPlainSize + chunkPlainSize
         /\ (i + 1) * chunkCipherSize = i * chunkCipherSize + chunkCipherSize
BY Constants, Counting

(* The n bytes and the error that ReadFull returns.                         *)
Returned(n, err) ==
  /\ opened.at + n <= Len(upload.body)
  /\ \/ err = "none" /\ n = chunkCipherSize
     \/ err = "EOF" /\ n = 0 /\ ObjectLeft = 0
     \/ err = "unexpected EOF" /\ n < chunkCipherSize
     \/ err = "other"

(* What Decrypt does with the n bytes that ReadFull has returned: an end    *)
(* is one of the object only if it comes between chunks, or in the last.    *)
LEMMA OpeningOpenChunk ==
  ASSUME Typed, Closed("encrypt"), Closed("decrypt"), Sealing, Started, Opening,
         next["decrypt"] = "chunk", NEW n \in Nat, NEW err,
         Returned(n, err), OpenChunk(n, err), size' = size, upload' = upload, call' = call
  PROVE  Opening'
<1> DEFINE bytes == SubSeq(upload.body, opened.at + 1, opened.at + n)
           data == ChunkData(opened.i)
<1>9. /\ opened.i \in 0..Counters - 1 /\ opened.i \in Nat /\ opened.at \in Nat
      /\ size \in Sizes /\ size \in Nat /\ Len(upload.body) \in Nat
  BY Constants, WrittenBytes DEF Typed, Position
<1>0. /\ pipe["plain"] \in Pipe(Nat) /\ DOMAIN pipe = {"body", "plain", "form"}
      /\ next \in [Goroutines -> Ends] /\ "decrypt" \in Goroutines
  BY DEF Typed, Ends, Goroutines
<1>1. /\ opened.at = noncePrefixLen + opened.i * chunkCipherSize
      /\ Len(Read) = opened.i * chunkPlainSize
      /\ pipe["plain"].end = "open" /\ pipe["form"].end # "eof" /\ next["multipart"] # "eof"
      /\ call.pc # "answered"
      /\ opened.at <= Len(upload.body)
  BY OwnPipes DEF Opening, Closed
<1>8. opened.at + n <= Len(upload.body) /\ n <= ObjectLeft
  <2>1. opened.at + n <= Len(upload.body)
    BY DEF Returned
  <2> QED
    BY <1>9, <2>1 DEF ObjectLeft
<1>2. upload.body = Written /\ WholeObject
  BY ObjectThere
<1>3. PICK to \in {"chunk", "eof", "error"} : Goes("decrypt", "chunk", to)
  BY <1>1, <1>8, OpenChunkTyped
<1>4. pipe["plain"].data = <<>> /\ next'["decrypt"] = to /\ next'["multipart"] = next["multipart"]
  BY <1>0, <1>9, <1>3, OwnPipes DEF Goes, Goroutines
<1>5. CASE UNCHANGED <<opened, pipe>> /\ to = "error"
  <2>1. Read' = Read
    BY <1>5 DEF Read, Given, Held
  <2> QED
    BY <1>1, <1>4, <1>5, <2>1, OpeningStays
<1>6. CASE n = 0 /\ err = "EOF"
  <2>0. opened.at = Len(upload.body)
    BY <1>6, <1>9 DEF Returned, ObjectLeft
  <2>1. UNCHANGED <<opened, pipe>> /\ Goes("decrypt", "chunk", "eof")
    BY <1>6 DEF OpenChunk
  <2>2. next'["decrypt"] = "eof"
    BY <1>0, <1>9, <2>1 DEF Goes
  <2>3. Read' = Read
    BY <2>1 DEF Read, Given, Held
  <2>4. Len(Written) = noncePrefixLen + opened.i * chunkCipherSize
    BY <1>1, <1>2, <2>0
  <2>5. Len(Read) = size
    BY <1>0, <1>9, <1>1, <1>2, <2>4, EndBetweenChunks
  <2> QED
    BY <1>1, <1>4, <2>1, <2>2, <2>3, <2>5, OpeningStays
<1>7. CASE n # 0 /\ CanOpen(opened.i, bytes)
  <2>1. /\ Goes("decrypt", "chunk", CASE err = "none" -> "chunk" [] err = "other" -> "error"
                                      [] OTHER -> "eof")
        /\ Write("plain", bytes[1].data)
        /\ opened' = [i |-> (opened.i + 1) % Counters, at |-> opened.at + n]
    BY <1>7 DEF OpenChunk
  <2>2. bytes[1].data = data /\ n = Len(data) + gcmTagSize
    BY <1>0, <1>9, <1>7, <1>8, OpensChunk
  <2>3. Write("plain", data)
    BY <2>1, <2>2
  <2>4. /\ data \in Seq(Nat)
        /\ Len(data) = Least(chunkPlainSize, size - opened.i * chunkPlainSize)
        /\ Len(Read') = opened.i * chunkPlainSize + Len(data)
        /\ Len(Read') <= size
        /\ \A x \in 1..Len(Read') : Read'[x] = x
    BY <1>4, <2>3, OpensMore
  <2>5. pipe'["plain"].end = "open" /\ pipe'["form"] = pipe["form"]
    BY <1>0, <1>9, <1>1, <2>3, <2>4, Writes
  <2>6. opened'.at <= Len(upload'.body) /\ opened'.at = opened.at + n
        /\ opened'.i = (opened.i + 1) % Counters
    BY <1>0, <1>9, <1>8, <2>1
  <2>a. next'["decrypt"] = (CASE err = "none" -> "chunk" [] err = "other" -> "error"
                              [] OTHER -> "eof")
    BY <1>0, <1>9, <2>1 DEF Goes
  <2>b. opened.i * chunkPlainSize \in Nat /\ opened.i * chunkPlainSize <= size
    BY <1>0, <1>9, <1>1, ChunkPlaces DEF Opening
  <2> HIDE DEF data
  <2>7. CASE err = "none"
    <3>1. n = chunkCipherSize /\ Len(data) = chunkPlainSize
      <4>1. n = chunkCipherSize
        BY <2>7 DEF Returned
      <4>2. Len(data) \in Nat
        BY <2>4
      <4> QED
        BY <2>2, <4>1, <4>2, Constants
    <3>2. opened.i * chunkPlainSize + chunkPlainSize <= size
      BY <2>4, <3>1
    <3>3. opened'.i = opened.i + 1
      BY <1>0, <1>9, <2>6, <3>2, CounterHasRoom, Wraps
    <3>4. opened'.at = noncePrefixLen + opened'.i * chunkCipherSize
      <4>1. (opened.i + 1) * chunkCipherSize = opened.i * chunkCipherSize + chunkCipherSize
            /\ opened.i * chunkCipherSize \in Nat
        BY <1>0, <1>9, ChunkPlaces
      <4> QED
        BY <1>1, <2>6, <3>1, <3>3, <4>1, Constants
    <3>5. Len(Read') = opened'.i * chunkPlainSize
      <4>1. (opened.i + 1) * chunkPlainSize = opened.i * chunkPlainSize + chunkPlainSize
        BY <1>0, <1>9, ChunkPlaces
      <4> QED
        BY <2>4, <3>1, <3>3, <4>1
    <3>6. next'["decrypt"] = "chunk"
      BY <2>7, <2>a
    <3> QED
      BY <1>1, <1>4, <2>4, <2>5, <2>6, <3>4, <3>5, <3>6 DEF Opening
  <2>8. CASE err = "other"
    <3>1. next'["decrypt"] = "error"
      BY <2>8, <2>a
    <3> QED
      BY <1>1, <1>4, <2>4, <2>5, <2>6, <3>1 DEF Opening
  <2>9. CASE err = "unexpected EOF"
    <3>1. next'["decrypt"] = "eof"
      BY <2>9, <2>a
    <3>2. Len(data) \in Nat /\ Len(data) < chunkPlainSize
      <4>1. n < chunkCipherSize
        BY <2>9 DEF Returned
      <4>2. Len(data) \in Nat
        BY <2>4
      <4> QED
        BY <2>2, <4>1, <4>2, Constants
    <3>3. Len(data) = size - opened.i * chunkPlainSize
      BY <1>0, <1>9, <2>4, <2>b, <3>2, Constants DEF Least
    <3>4. Len(Read') = size
      BY <1>0, <1>9, <2>4, <2>b, <3>3
    <3> QED
      BY <1>1, <1>4, <2>4, <2>5, <2>6, <3>1, <3>4 DEF Opening
  <2> QED
    BY <1>7, <2>7, <2>8, <2>9 DEF Returned
<1> QED
  <2>1. CASE n = 0 /\ err # "EOF"
    <3>1. UNCHANGED <<opened, pipe>> /\ Goes("decrypt", "chunk", "error")
      BY <2>1 DEF OpenChunk
    <3>2. to = "error"
      BY <1>0, <1>9, <1>4, <3>1 DEF Goes
    <3> QED
      BY <1>5, <3>1, <3>2
  <2>2. CASE n # 0 /\ ~CanOpen(opened.i, bytes)
    <3>1. UNCHANGED <<opened, pipe>> /\ Goes("decrypt", "chunk", "error")
      BY <2>2 DEF OpenChunk
    <3>2. to = "error"
      BY <1>0, <1>9, <1>4, <3>1 DEF Goes
    <3> QED
      BY <1>5, <3>1, <3>2
  <2> QED
    BY <1>6, <1>7, <2>1, <2>2

(* A chunk that opens is the next of the file, and an end of the object at  *)
(* its last chunk is the end of the file.                                   *)
LEMMA OpeningChunk ==
  ASSUME Typed, Closed("encrypt"), Closed("decrypt"), Sealing, Started, Opening, DecryptChunk
  PROVE  Opening'
<1> DEFINE n == Least(chunkCipherSize, ObjectLeft)
<1>0. /\ opened.at \in Nat /\ Len(upload.body) \in Nat /\ ObjectLeft \in Nat
      /\ opened.at <= Len(upload.body)
  BY WrittenBytes DEF Typed, Position, ObjectLeft, Opening
<1>1. size' = size /\ upload' = upload /\ call' = call
  BY DEF DecryptChunk
<1>2. next["decrypt"] = "chunk"
  BY DEF DecryptChunk, OpenChunk, Goes
<1>3. /\ n \in Nat /\ n <= ObjectLeft /\ n <= chunkCipherSize
      /\ n = chunkCipherSize \/ n = ObjectLeft
      /\ \A m \in 0..Least(n, chunkCipherSize - 1) :
           m \in Nat /\ m <= ObjectLeft /\ m < chunkCipherSize
  BY <1>0, Constants, Reads
<1>4. \A m \in Nat : m <= ObjectLeft => opened.at + m <= Len(upload.body)
  BY <1>0 DEF ObjectLeft
<1> DEFINE err == CASE n = chunkCipherSize -> "none" [] n = 0 -> "EOF" [] OTHER -> "unexpected EOF"
<1>5. CASE OpenChunk(n, err)
  <2>1. \/ n = chunkCipherSize /\ err = "none"
        \/ n # chunkCipherSize /\ n = 0 /\ err = "EOF"
        \/ n # chunkCipherSize /\ n # 0 /\ err = "unexpected EOF"
    <3>1. chunkCipherSize # 0
      BY Constants
    <3> HIDE DEF n
    <3> QED
      BY <3>1
  <2> HIDE DEF err, n
  <2>2. Returned(n, err)
    <3>1. opened.at + n <= Len(upload.body)
      BY <1>3, <1>4
    <3>2. n # chunkCipherSize => n < chunkCipherSize /\ n = ObjectLeft
      BY <1>3, Constants
    <3> QED
      BY <2>1, <3>1, <3>2 DEF Returned
  <2> QED
    BY <1>1, <1>2, <1>3, <1>5, <2>2, OpeningOpenChunk
<1>6. ASSUME NEW m \in 0..Least(n, chunkCipherSize - 1),
             NEW e \in {"unexpected EOF", "other"}, OpenChunk(m, e)
      PROVE  Opening'
  <2>1. m \in Nat /\ Returned(m, e)
    <3>1. m \in Nat /\ m <= ObjectLeft /\ m < chunkCipherSize
      BY <1>3
    <3>2. opened.at + m <= Len(upload.body)
      BY <1>4, <3>1
    <3> QED
      BY <3>1, <3>2 DEF Returned
  <2> QED
    BY <1>1, <1>2, <1>6, <2>1, OpeningOpenChunk
<1> QED
  BY <1>5, <1>6 DEF DecryptChunk

(* Every other step of the relay's side moves what has been read, or marks  *)
(* an end that there is.                                                    *)
LEMMA OpeningRelay ==
  ASSUME Typed, \A g \in Goroutines : Closed(g), Sealing, Started, Opening,
         RelayStep, ~DecryptChunk
  PROVE  Opening'
<1>0. /\ next \in [Goroutines -> Ends]
      /\ "encrypt" \in Goroutines /\ "decrypt" \in Goroutines /\ "multipart" \in Goroutines
      /\ pipe["plain"] \in Pipe(Nat) /\ pipe["form"] \in Pipe(Nat)
      /\ DOMAIN pipe = {"body", "plain", "form"}
      /\ call \in [pc : {"get", "call", "send", "answered", "failed"}, got : Seq(Nat)]
      /\ opened.at <= Len(upload.body)
  BY DEF Typed, Ends, Goroutines, Opening
<1>1. /\ pipe["plain"].end # "open" => next["decrypt"] = "done" /\ pipe["plain"].data = <<>>
      /\ pipe["form"].end # "open" => next["multipart"] = "done" /\ pipe["form"].data = <<>>
      /\ Closed("encrypt")
  BY <1>0, OwnPipes DEF Closed
<1>2. size' = size /\ upload' = upload
  BY RelayFrame
<1>a. Opening
  OBVIOUS
<1>3. CASE DecryptPrefix
  <2>1. next["decrypt"] = "prefix" /\ pipe' = pipe /\ call' = call
        /\ next'["multipart"] = next["multipart"]
    BY <1>0, <1>3 DEF DecryptPrefix, Goes
  <2>2. Read' = Read
    BY <2>1 DEF Read, Given, Held
  <2>3. Read = <<>> /\ opened = [i |-> 0, at |-> 0]
    BY <2>1 DEF Opening
  <2>4. pipe["plain"].end = "open"
    BY <1>1, <2>1
  <2>5. CASE next'["decrypt"] = "chunk" /\ opened' = [opened EXCEPT !.at = noncePrefixLen]
    <3>1. opened'.at = noncePrefixLen /\ opened'.i = 0
      BY <2>3, <2>5
    <3>2. noncePrefixLen <= Len(upload'.body)
      BY <1>1, <1>2, <2>1, ObjectThere, PrefixThere
    <3>3. opened'.at = noncePrefixLen + opened'.i * chunkCipherSize
          /\ Len(Read') = opened'.i * chunkPlainSize
      BY <2>2, <2>3, <3>1, Constants
    <3> QED
      BY <1>2, <2>1, <2>2, <2>4, <2>5, <3>1, <3>2, <3>3 DEF Opening
  <2>6. CASE next'["decrypt"] = "error" /\ opened' = opened
    BY <1>0, <1>2, <2>1, <2>2, <2>4, <2>6, OpeningStays DEF Opening
  <2> QED
    BY <1>0, <1>3, <2>5, <2>6 DEF DecryptPrefix, Goes
<1>4. CASE Close("decrypt")
  <2>1. next' = [next EXCEPT !["decrypt"] = "done"] /\ opened' = opened /\ call' = call
    BY <1>4 DEF Close
  <2>2. next'["decrypt"] = "done" /\ next'["multipart"] = next["multipart"]
    BY <1>0, <2>1
  <2>3. CASE pipe' = pipe
    <3>1. Read' = Read
      BY <2>1, <2>3 DEF Read, Given, Held
    <3> QED
      BY <1>0, <1>2, <2>1, <2>2, <2>3, <3>1, OpeningStays DEF Opening
  <2>4. CASE pipe' # pipe
    <3>1. next["decrypt"] \in {"eof", "error"}
          /\ pipe' = [pipe EXCEPT !["plain"].end = next["decrypt"]]
      BY <1>4, <2>4, OwnPipes DEF Close
    <3>2. /\ pipe'["plain"].end = next["decrypt"] /\ Held("plain")' = Held("plain")
          /\ pipe'["form"] = pipe["form"] /\ Held("form")' = Held("form")
      BY <1>0, <3>1, Closes DEF Pipe
    <3>3. Read' = Read
      BY <2>1, <3>2 DEF Read, Given
    <3>4. pipe["form"].end # "eof" /\ next["multipart"] # "eof" /\ call.pc # "answered"
      BY <1>1, <3>1 DEF Opening
    <3> QED
      BY <1>0, <1>2, <2>1, <2>2, <3>1, <3>2, <3>3, <3>4, OpeningStays DEF Opening
  <2> QED
    BY <2>3, <2>4
<1>5. CASE WriteFields
  <2>1. next["multipart"] = "fields" /\ pipe["form"].data = <<>> /\ opened' = opened
        /\ call' = call /\ next' = [next EXCEPT !["multipart"] = "copy"] /\ Write("form", <<>>)
    BY <1>5, OwnPipes DEF WriteFields, Goes
  <2>2. <<>> \in Seq(Nat)
    OBVIOUS
  <2>3. pipe'["form"].end = pipe["form"].end /\ pipe'["plain"] = pipe["plain"]
        /\ Held("form")' = <<>> /\ Held("plain")' = Held("plain") /\ Held("form") = <<>>
    BY <1>0, <2>1, <2>2, Writes DEF Held
  <2>4. Read' = Read
    BY <2>1, <2>3 DEF Read, Given
  <2>5. next'["multipart"] = "copy" /\ next'["decrypt"] = next["decrypt"]
    BY <1>0, <2>1
  <2> QED
    BY <1>0, <1>1, <1>2, <2>1, <2>3, <2>4, <2>5, OpeningStays DEF Opening
<1>6. CASE Copy
  <2>0. next["multipart"] = "copy" /\ pipe["form"].data = <<>> /\ opened' = opened /\ call' = call
        /\ pipe["form"].end = "open"
    BY <1>1, <1>6, OwnPipes DEF Copy, Goes
  <2>1. PICK to \in {"copy", "eof", "error"} : next' = [next EXCEPT !["multipart"] = to]
    BY <1>6 DEF Copy, Goes
  <2>2. next'["multipart"] = to /\ next'["decrypt"] = next["decrypt"]
    BY <1>0, <2>1
  <2>3. Held("form") = <<>>
    BY <2>0 DEF Held
  <2>4. CASE pipe' = [pipe EXCEPT !["plain"].data = <<>>, !["form"].data = pipe["plain"].data]
             /\ next' = [next EXCEPT !["multipart"] = "copy"]
    <3>1. /\ pipe'["plain"] = [pipe["plain"] EXCEPT !.data = <<>>]
          /\ pipe'["form"] = [pipe["form"] EXCEPT !.data = pipe["plain"].data]
      BY <1>0, <2>4
    <3>2. /\ pipe'["plain"].data = <<>> /\ pipe'["plain"].end = pipe["plain"].end
          /\ pipe'["form"].data = pipe["plain"].data /\ pipe'["form"].end = pipe["form"].end
      BY <1>0, <3>1 DEF Pipe
    <3>3. Held("form")' = Held("plain") /\ Held("plain")' = <<>>
      BY <3>2 DEF Held
    <3>4. Given' = call.got \o Held("plain") /\ Read' = Given' \o <<>>
      BY <2>0, <3>3 DEF Given, Read
    <3>5. Read = call.got \o Held("plain") /\ Read \in Seq(Nat)
      BY <2>3, ReadBytes, JoinedEmpty DEF Given, Read
    <3>6. Read' = Read
      BY <3>4, <3>5, JoinedEmpty
    <3>7. next'["multipart"] = "copy"
      BY <1>0, <2>4
    <3> QED
      BY <1>0, <1>2, <2>0, <2>2, <3>2, <3>6, <3>7, OpeningStays DEF Opening
  <2>5. CASE Ended("plain", "eof") /\ Write("form", <<>>)
    <3>1. <<>> \in Seq(Nat)
      OBVIOUS
    <3>2. pipe'["form"].end = pipe["form"].end /\ pipe'["plain"] = pipe["plain"]
          /\ Held("form")' = <<>> /\ Held("plain")' = Held("plain")
      BY <1>0, <2>5, <3>1, Writes DEF Held
    <3>3. Read' = Read
      BY <2>0, <2>3, <3>2 DEF Read, Given
    <3>4. pipe'["plain"].end = "eof"
      BY <2>5, <3>2 DEF Ended
    <3> QED
      BY <1>0, <1>2, <2>0, <2>2, <3>2, <3>3, <3>4, OpeningStays DEF Opening
  <2>6. CASE pipe' = pipe /\ next' = [next EXCEPT !["multipart"] = "error"]
    <3>1. Read' = Read
      BY <2>0, <2>6 DEF Read, Given, Held
    <3>2. next'["multipart"] = "error"
      BY <1>0, <2>6
    <3> QED
      BY <1>0, <1>2, <2>0, <2>2, <2>6, <3>1, <3>2, OpeningStays DEF Opening
  <2> QED
    BY <1>6, <2>4, <2>5, <2>6 DEF Copy, Goes
<1>7. CASE Close("multipart")
  <2>1. next' = [next EXCEPT !["multipart"] = "done"] /\ opened' = opened /\ call' = call
    BY <1>7 DEF Close
  <2>2. next'["multipart"] = "done" /\ next'["decrypt"] = next["decrypt"]
    BY <1>0, <2>1
  <2>3. CASE pipe' = pipe
    <3>1. Read' = Read
      BY <2>1, <2>3 DEF Read, Given, Held
    <3> QED
      BY <1>0, <1>2, <2>1, <2>2, <2>3, <3>1, OpeningStays DEF Opening
  <2>4. CASE pipe' # pipe
    <3>1. next["multipart"] \in {"eof", "error"}
          /\ pipe' = [pipe EXCEPT !["form"].end = next["multipart"]]
      BY <1>7, <2>4, OwnPipes DEF Close
    <3>2. /\ pipe'["form"].end = next["multipart"] /\ Held("form")' = Held("form")
          /\ pipe'["plain"] = pipe["plain"] /\ Held("plain")' = Held("plain")
      BY <1>0, <3>1, Closes DEF Pipe
    <3>3. Read' = Read
      BY <2>1, <3>2 DEF Read, Given
    <3>4. call.pc # "answered"
      BY <1>1, <3>1 DEF Opening
    <3> QED
      BY <1>0, <1>2, <2>1, <2>2, <3>1, <3>2, <3>3, <3>4, OpeningStays DEF Opening
  <2> QED
    BY <2>3, <2>4
<1>8. CASE GetObject \/ Call
  <2>1. opened' = opened /\ pipe' = pipe /\ call'.got = call.got /\ call'.pc \in {"call", "send", "failed"}
    BY <1>0, <1>8 DEF GetObject, Call
  <2>2. Read' = Read
    BY <2>1 DEF Read, Given, Held
  <2>3. CASE GetObject
    <3>1. next'["decrypt"] = "prefix" /\ next'["multipart"] = next["multipart"]
      BY <1>0, <2>3 DEF GetObject
    <3>2. Read = <<>> /\ opened = [i |-> 0, at |-> 0]
      BY <2>3 DEF GetObject, Started
    <3> QED
      BY <1>0, <1>2, <2>1, <2>2, <3>1, <3>2, OpeningStays DEF Opening
  <2>4. CASE Call
    <3>1. next'["multipart"] \in {"fields", next["multipart"]} /\ next'["decrypt"] = next["decrypt"]
      BY <1>0, <2>4 DEF Call
    <3> QED
      BY <1>0, <1>2, <2>1, <2>2, <3>1, OpeningStays DEF Opening
  <2> QED
    BY <1>8, <2>3, <2>4
<1>9. CASE Send
  <2>1. next' = next /\ opened' = opened /\ pipe' = [pipe EXCEPT !["form"].data = <<>>]
        /\ call' = [call EXCEPT !.got = call.got \o Head(pipe["form"].data)]
        /\ pipe["form"].data # <<>> /\ call.pc = "send"
    BY <1>9 DEF Send
  <2>2. call'.got = Given /\ call'.pc = "send"
    BY <1>0, <2>1, HeldBytes DEF Given
  <2>3. /\ pipe'["form"].end = pipe["form"].end /\ pipe'["plain"] = pipe["plain"]
        /\ Held("form")' = <<>> /\ Held("plain")' = Held("plain")
    BY <1>0, <2>1, Empties
  <2>4. Given' = Given
    BY <2>2, <2>3, ReadBytes, JoinedEmpty DEF Given
  <2>5. Read' = Read
    BY <2>3, <2>4 DEF Read
  <2> QED
    BY <1>0, <1>2, <2>1, <2>2, <2>3, <2>5, OpeningStays DEF Opening
<1>10. CASE Do
  <2>1. /\ next' = next /\ opened' = opened /\ pipe' = [pipe EXCEPT !["form"].reader = FALSE]
        /\ \E pc \in {"answered", "failed"} :
             /\ call' = [call EXCEPT !.pc = pc]
             /\ pc = "answered" => pipe["form"].end = "eof"
    BY <1>10 DEF Do, DoReturn, Ended
  <2>2. call'.got = call.got /\ (call'.pc = "answered" => pipe["form"].end = "eof")
    BY <1>0, <2>1
  <2>3. pipe'["form"] = [pipe["form"] EXCEPT !.reader = FALSE] /\ pipe'["plain"] = pipe["plain"]
    BY <1>0, <2>1
  <2>4. pipe'["form"].end = pipe["form"].end /\ pipe'["form"].data = pipe["form"].data
    BY <1>0, <2>3 DEF Pipe
  <2>5. Read' = Read
    BY <2>2, <2>3, <2>4 DEF Read, Given, Held
  <2> QED
    BY <1>0, <1>2, <2>1, <2>2, <2>3, <2>4, <2>5, OpeningStays DEF Opening
<1>11. CASE CloseBody
  <2>1. next' = next /\ opened' = opened /\ call' = call
        /\ pipe' = [pipe EXCEPT !["plain"].reader = FALSE]
    BY <1>11 DEF CloseBody
  <2>3. pipe'["plain"] = [pipe["plain"] EXCEPT !.reader = FALSE] /\ pipe'["form"] = pipe["form"]
    BY <1>0, <2>1
  <2>4. pipe'["plain"].end = pipe["plain"].end /\ pipe'["plain"].data = pipe["plain"].data
    BY <1>0, <2>3 DEF Pipe
  <2>5. Read' = Read
    <3>1. Held("plain")' = Held("plain") /\ Held("form")' = Held("form")
      BY <2>3, <2>4 DEF Held
    <3> QED
      BY <2>1, <3>1 DEF Read, Given
  <2> QED
    BY <1>0, <1>2, <2>1, <2>3, <2>4, <2>5, OpeningStays DEF Opening
<1> QED
  BY <1>3, <1>4, <1>5, <1>6, <1>7, <1>8, <1>9, <1>10, <1>11 DEF RelayStep

(* Every step keeps what Decrypt has written.                               *)
LEMMA OpeningNext ==
  ASSUME Typed, \A g \in Goroutines : Closed(g), Sealing, Started, Opening, StreamNext
  PROVE  Opening'
<1>1. Closed("encrypt") /\ Closed("decrypt")
  BY DEF Goroutines
<1> QED
  BY <1>1, Sides, OpeningGateway, OpeningChunk, OpeningRelay

-----------------------------------------------------------------------------
(***************************************************************************)
(* The theorems                                                            *)
(***************************************************************************)

(* The invariant holds at first.                                            *)
LEMMA StreamInvInit == StreamInit => StreamInv
<1> SUFFICES ASSUME StreamInit  PROVE StreamInv
  OBVIOUS
<1>1. /\ next["encrypt"] = "prefix" /\ next["decrypt"] = "idle" /\ next["multipart"] = "idle"
      /\ next \in [Goroutines -> Ends]
  BY DEF StreamInit, Goroutines, Ends
<1>2. {out[g] : g \in Goroutines} = {"body", "plain", "form"}
  BY DEF out, Goroutines
<1>3. /\ DOMAIN pipe = {"body", "plain", "form"}
      /\ \A p \in {"body", "plain", "form"} :
           pipe[p] = [data |-> <<>>, end |-> "open", reader |-> TRUE]
  BY <1>2 DEF StreamInit
<1>4. \A Byte : [data |-> <<>>, end |-> "open", reader |-> TRUE] \in Pipe(Byte)
  BY DEF Pipe
<1>5. Typed
  <2>1. sealed \in Position /\ opened \in Position /\ size \in Sizes
    BY Constants DEF StreamInit, Position
  <2>2. pipe["body"] \in Pipe(CipherByte) /\ pipe["plain"] \in Pipe(Nat)
        /\ pipe["form"] \in Pipe(Nat)
    BY <1>3, <1>4
  <2>3. upload \in [pc : {"reading", "stored", "failed"}, body : Seq(CipherByte)]
        /\ call \in [pc : {"get", "call", "send", "answered", "failed"}, got : Seq(Nat)]
    BY DEF StreamInit
  <2> QED
    BY <1>1, <1>3, <2>1, <2>2, <2>3 DEF Typed, Ends
<1>6. \A g \in Goroutines : Closed(g)
  BY <1>3, OwnPipes DEF Closed
<1>7. Held("body") = <<>> /\ Held("plain") = <<>> /\ Held("form") = <<>>
  BY <1>3 DEF Held
<1>8. Written = <<>> /\ Read = <<>> /\ Len(upload.body) = 0
  BY <1>7 DEF StreamInit, Written, Read, Given
<1>9. size \in Nat /\ sealed = [i |-> 0, at |-> 0] /\ opened = [i |-> 0, at |-> 0]
      /\ upload.pc = "reading" /\ call.pc = "get"
  BY Constants DEF StreamInit
<1>10. Sealing
  BY <1>1, <1>3, <1>8, <1>9 DEF Sealing
<1>11. Started
  BY <1>1, <1>8, <1>9 DEF Started
<1>12. Opening
  BY <1>1, <1>3, <1>8, <1>9 DEF Opening
<1> QED
  BY <1>5, <1>6, <1>10, <1>11, <1>12 DEF StreamInv

(* Every step keeps it.                                                     *)
LEMMA StreamInvNext == StreamInv /\ [StreamNext]_streamVars => StreamInv'
<1> SUFFICES ASSUME StreamInv, [StreamNext]_streamVars  PROVE StreamInv'
  OBVIOUS
<1>1. /\ Typed /\ Sealing /\ Started /\ Opening
      /\ \A g \in Goroutines : Closed(g)
      /\ sealed.at <= size /\ opened.at <= Len(upload.body)
  BY DEF StreamInv, Sealing, Opening
<1>2. CASE StreamNext
  <2>1. Typed' /\ (\A g \in Goroutines : Closed(g))' /\ Started' /\ Opening'
    BY <1>1, <1>2, TypedNext, ClosedNext, StartedNext, OpeningNext
  <2>2. Sealing'
    BY <1>1, <1>2, SealingNext DEF Goroutines
  <2> QED
    BY <2>1, <2>2 DEF StreamInv
<1>3. CASE UNCHANGED streamVars
  <2>1. Typed' /\ (\A g \in Goroutines : Closed(g))'
    BY <1>1, <1>3 DEF streamVars, Typed, Closed
  <2>2. Held("body")' = Held("body") /\ Held("plain")' = Held("plain")
        /\ Held("form")' = Held("form")
    BY <1>3 DEF streamVars, Held
  <2>3. Written' = Written /\ Read' = Read
    BY <1>3, <2>2 DEF streamVars, Written, Read, Given
  <2>4. Started' /\ Opening'
    BY <1>1, <1>3, <2>3 DEF streamVars, Started, Opening
  <2>5. Sealing'
    <3>1. size' = size /\ (Sound' => Sound) /\ (WholeObject' <=> WholeObject)
      BY <1>3, <2>3 DEF streamVars, Sound, WholeObject
    <3>2. \A x \in 1..Len(Written') : ByteAt(x, Written[x])'
      BY <1>1, <2>3, <3>1, PlacesStay DEF Sealing
    <3> QED
      BY <1>1, <1>3, <2>3, <3>1, <3>2 DEF streamVars, Sealing
  <2> QED
    BY <2>1, <2>4, <2>5 DEF StreamInv
<1> QED
  BY <1>2, <1>3

(* The invariant of the streams, of a file of any size, in chunks of any.   *)
THEOREM StreamInvariant == StreamSpec => []StreamInv
BY StreamInvInit, StreamInvNext, PTL DEF StreamSpec

(* The object as the uploader has it is the beginning of what was written.  *)
LEMMA BodyWritten ==
  ASSUME Typed
  PROVE  \A x \in 1..Len(upload.body) : x \in 1..Len(Written) /\ Written[x] = upload.body[x]
<1>1. upload.body \in Seq(CipherByte) /\ Held("body") \in Seq(CipherByte)
  BY WrittenBytes
<1> QED
  BY <1>1, Joined DEF Written

(* What the model has got is the beginning of what Decrypt has read.        *)
LEMMA GotRead ==
  ASSUME Typed
  PROVE  \A x \in 1..Len(call.got) : x \in 1..Len(Read) /\ Read[x] = call.got[x]
<1>1. call.got \in Seq(Nat) /\ Held("form") \in Seq(Nat) /\ Held("plain") \in Seq(Nat)
      /\ Given \in Seq(Nat)
  BY ReadBytes
<1>2. \A x \in 1..Len(call.got) : x \in 1..Len(Given) /\ Given[x] = call.got[x]
  BY <1>1, Joined DEF Given
<1>3. \A x \in 1..Len(Given) : x \in 1..Len(Read) /\ Read[x] = Given[x]
  BY <1>1, Joined DEF Read
<1> QED
  BY <1>2, <1>3

(* Counters stay below their number, a pipe holds one Write at most, and    *)
(* only bytes of the file are sealed, and sent.                             *)
THEOREM StreamTypeCorrect == StreamSpec => []StreamTypeOK
<1>1. StreamInv => StreamTypeOK
  <2> SUFFICES ASSUME StreamInv  PROVE StreamTypeOK
    OBVIOUS
  <2>0. Typed /\ Sealing /\ Opening
    BY DEF StreamInv
  <2>1. /\ size \in Sizes /\ sealed \in Position /\ opened \in Position
        /\ \A g \in Goroutines : next[g] \in Ends
        /\ upload.pc \in {"reading", "stored", "failed"}
        /\ call.pc \in {"get", "call", "send", "answered", "failed"}
        /\ upload.body \in Seq(CipherByte) /\ call.got \in Seq(Nat)
        /\ size \in Nat
    BY <2>0, Constants DEF Typed, Ends
  <2>2. \A p \in DOMAIN pipe : Len(pipe[p].data) <= 1 /\ pipe[p].end \in {"open", "eof", "error"}
    <3>1. ASSUME NEW p, NEW Byte, pipe[p] \in Pipe(Byte)
          PROVE  Len(pipe[p].data) <= 1 /\ pipe[p].end \in {"open", "eof", "error"}
      BY <3>1, HeldBytes DEF Pipe
    <3> QED
      BY <2>0, <3>1 DEF Typed
  <2>3. sealed.at <= size /\ opened.at <= Len(upload.body)
    BY <2>0 DEF Sealing, Opening
  <2>4. ASSUME NEW k \in DOMAIN upload.body, NEW l \in DOMAIN upload.body[k].data
        PROVE  upload.body[k].data[l] \in 1..size
    <3>1. k \in 1..Len(upload.body) /\ upload.body[k].data \in Seq(Nat)
      <4>1. k \in 1..Len(upload.body) /\ upload.body[k] \in CipherByte
        BY <2>1, <2>4
      <4> QED
        BY <4>1 DEF CipherByte
    <3>2. l \in 1..Len(upload.body[k].data)
      BY <2>4, <3>1
    <3>3. k \in 1..Len(Written) /\ Written[k] = upload.body[k]
      BY <2>0, <3>1, BodyWritten
    <3> QED
      BY <2>0, <3>2, <3>3 DEF Sealing
  <2>5. ASSUME NEW k \in DOMAIN call.got  PROVE call.got[k] \in 1..size
    <3>1. k \in 1..Len(call.got)
      BY <2>1, <2>5
    <3>2. k \in 1..Len(Read) /\ Read[k] = call.got[k]
      BY <2>0, <3>1, GotRead
    <3>3. Read[k] = k /\ Len(Read) <= size /\ Len(Read) \in Nat
      BY <2>0, <3>2, ReadBytes DEF Opening
    <3> QED
      BY <2>1, <3>2, <3>3
  <2> QED
    BY <2>1, <2>2, <2>3, <2>4, <2>5 DEF StreamTypeOK, Ends
<1> QED
  BY <1>1, StreamInvariant, PTL

(* The stream that encryptStream writes, which is what S3 stores, is as     *)
(* long as EncryptedSize computes, whatever the size of the file and of the *)
(* chunks (aes.go:57-74, 127-138).                                          *)
THEOREM StoredSizeCorrect == StreamSpec => []StoredSize
<1>1. StreamInv => StoredSize
  <2> SUFFICES ASSUME StreamInv, upload.pc = "stored"
               PROVE  Len(upload.body) = EncryptedSize(size)
    BY DEF StoredSize
  <2>0. Typed /\ Sealing /\ Closed("encrypt")
    BY DEF StreamInv, Goroutines
  <2>1. WholeObject /\ pipe["body"].data = <<>>
    BY <2>0, OwnPipes DEF Sealing, Closed
  <2>2. upload.body = Written
    BY <2>0, <2>1, HeldBytes, WrittenBytes, JoinedEmpty DEF Written, Typed
  <2>3. PICK q \in Nat, r \in 0..chunkPlainSize - 1 :
          /\ size = q * chunkPlainSize + r
          /\ Len(Written) = noncePrefixLen + q * chunkCipherSize
                              + (IF r > 0 \/ q = 0 THEN r + gcmTagSize ELSE 0)
    BY <2>1 DEF WholeObject
  <2>4. size \in Nat
    BY <2>0, Constants DEF Typed
  <2> QED
    BY <2>2, <2>3, <2>4, SizeAtLast
<1> QED
  BY <1>1, StreamInvariant, PTL

(* No two bytes of an object are at one place of one chunk: no counter, and *)
(* so no nonce, seals twice, for files that have no more chunks than there  *)
(* are counters (aes.go:12-14).                                             *)
THEOREM NoncesUsedOnce == StreamSpec => []NonceUsedOnce
<1>1. StreamInv => NonceUsedOnce
  <2> SUFFICES ASSUME StreamInv, NEW k \in DOMAIN upload.body, NEW l \in DOMAIN upload.body,
                      upload.body[k].i = upload.body[l].i, upload.body[k].k = upload.body[l].k
               PROVE  k = l
    BY DEF NonceUsedOnce
  <2>0. Typed /\ Sealing
    BY DEF StreamInv
  <2>1. k \in 1..Len(upload.body) /\ l \in 1..Len(upload.body)
    BY <2>0, WrittenBytes
  <2>2. ByteAt(k, upload.body[k]) /\ ByteAt(l, upload.body[l])
    BY <2>0, <2>1, BodyWritten DEF Sealing
  <2>3. Counters \notin 0..Counters - 1
    BY Constants
  <2> QED
    BY <2>2, <2>3 DEF ByteAt
<1> QED
  BY <1>1, StreamInvariant, PTL

(* A form that the model has got whole has the whole file in it, whatever   *)
(* has failed on the way (aes.go:140-145, 172-193, multipart.go:62-67).     *)
THEOREM WholeFileSent == StreamSpec => []NothingTruncated
<1>1. StreamInv => NothingTruncated
  <2> SUFFICES ASSUME StreamInv, call.pc = "answered"
               PROVE  call.got = [k \in 1..size |-> k]
    BY DEF NothingTruncated
  <2>0. Typed /\ Opening /\ Closed("decrypt") /\ Closed("multipart")
    BY DEF StreamInv, Goroutines
  <2>1. /\ Len(Read) = size
        /\ \A x \in 1..size : Read[x] = x
        /\ pipe["plain"].data = <<>> /\ pipe["form"].data = <<>>
    BY <2>0, OwnPipes DEF Opening, Closed
  <2>2. Held("plain") = <<>> /\ Held("form") = <<>> /\ call.got \in Seq(Nat)
    BY <2>0, <2>1, ReadBytes DEF Held
  <2>3. Read = call.got
    BY <2>2, JoinedEmpty DEF Read, Given
  <2> QED
    BY <2>1, <2>2, <2>3
<1> QED
  BY <1>1, StreamInvariant, PTL
=============================================================================
