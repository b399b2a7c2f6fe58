------------------------------ MODULE Ciphers -------------------------------
(***************************************************************************)
(* Encryption: of a ZIP entry with ZipCrypto or with WinZip's AES, of a 7z *)
(* folder with AES in blocks that are chained.  Ciphers are ideal: a byte  *)
(* of cipher text holds its plain byte and the key it was sealed with, and *)
(* opens under that key alone; what goes into the next key is what the     *)
(* code puts there.  The bytes of a keystream or of a chain are made in    *)
(* blocks, by the processor several at a time where it can, and writer and *)
(* reader may run on different ones.                                       *)
(***************************************************************************)
EXTENDS Wire

CONSTANTS
  HEADER_LEN,     \* bytes before an entry under ZipCrypto
  BLOCK_SIZE,     \* bytes of an AES block
  LANES,          \* blocks the processor makes at a time
  BLOCK_LEN,      \* bytes SHA-1 takes at a time, the last for the length
  CHUNK,          \* bytes decrypted at a time in a 7z folder
  MaxSecret       \* bytes that are written

Right == 1
Wrong == 2
Garbage == 0
CHECK_BYTE == 99

Sealed(byte, key) == [byte |-> byte, key |-> key]
Opened(sealed, key) == IF sealed.key = key THEN sealed.byte ELSE Garbage

-----------------------------------------------------------------------------
(* AES as a keystream: of every byte the number of its block and its place. *)

NewCtr(hardware) == [hardware |-> hardware, counter |-> 1, block |-> 0, used |-> BLOCK_SIZE]

(* What is left of the last block goes first.                               *)
Left(ctr, n) == Least(BLOCK_SIZE - ctr.used, n)

(* Then blocks that are used as a whole, and the rest from blocks that are  *)
(* filled one by one.                                                       *)
Whole(ctr, n) ==
  IF ctr.hardware THEN LANES * ((n - Left(ctr, n)) \div (LANES * BLOCK_SIZE)) ELSE (n - Left(ctr, n)) \div BLOCK_SIZE
Rest(ctr, n) == n - Left(ctr, n) - Whole(ctr, n) * BLOCK_SIZE

Keys(ctr, n) ==
  [i \in 1 .. n |->
     IF i <= Left(ctr, n) THEN <<ctr.block, ctr.used + i>>
     ELSE <<ctr.counter + (i - Left(ctr, n) - 1) \div BLOCK_SIZE, ((i - Left(ctr, n) - 1) % BLOCK_SIZE) + 1>>]

Applied(ctr, n) ==
  LET filled == (Rest(ctr, n) + BLOCK_SIZE - 1) \div BLOCK_SIZE
      counter == ctr.counter + Whole(ctr, n) + filled
  IN  IF filled = 0 THEN [ctr EXCEPT !.counter = counter, !.used = @ + Left(ctr, n)]
      ELSE [ctr EXCEPT !.counter = counter, !.block = counter - 1, !.used = ((Rest(ctr, n) - 1) % BLOCK_SIZE) + 1]

-----------------------------------------------------------------------------
(* SHA-1, as the blocks it has compressed, and the code for authentication. *)

NewSha == [blocks |-> <<>>, buffer |-> <<>>, length |-> 0]
Blocks(bytes) == [k \in 1 .. Len(bytes) \div BLOCK_LEN |-> SubSeq(bytes, (k - 1) * BLOCK_LEN + 1, k * BLOCK_LEN)]

Update(sha, bytes) ==
  LET take == IF sha.buffer = <<>> THEN 0 ELSE Least(BLOCK_LEN - Len(sha.buffer), Len(bytes))
      first == sha.buffer \o SubSeq(bytes, 1, take)
      rest == After(bytes, take)
      short == sha.buffer # <<>> /\ Len(first) < BLOCK_LEN
  IN  [length |-> sha.length + Len(bytes),
       blocks |-> IF short THEN sha.blocks ELSE sha.blocks \o Blocks(first) \o Blocks(rest),
       buffer |-> IF short THEN first ELSE After(rest, Len(rest) - (Len(rest) % BLOCK_LEN))]

(* The end is marked, then zeros up to where the length fits in a block.    *)
Digest(sha) ==
  LET zeros == (2 * BLOCK_LEN - 2 - Len(sha.buffer)) % BLOCK_LEN
  IN  sha.blocks \o Blocks(sha.buffer \o <<Token("80", <<>>)>> \o [i \in 1 .. zeros |-> Token("00", <<>>)]
                                      \o <<Token("length", <<sha.length>>)>>)

KeyBlock(password, pad) == [i \in 1 .. BLOCK_LEN |-> Token(pad, <<password>>)]
NewMac(password) == Update(NewSha, KeyBlock(password, "inner"))
Tag(mac, password) == Digest(Update(Update(NewSha, KeyBlock(password, "outer")), <<Token("digest", Digest(mac))>>))

-----------------------------------------------------------------------------
(* Blocks in a chain.  A byte of cipher text has its place in a block, the  *)
(* number of that block and of the one before it, and the block's bytes.    *)

Iv == [j \in 1 .. BLOCK_SIZE |-> [number |-> 0, at |-> j]]

CbcEncrypt(plain) ==
  LET blocks == Most(1, (Len(plain) + BLOCK_SIZE - 1) \div BLOCK_SIZE)
      byte(i) == IF i <= Len(plain) THEN plain[i] ELSE Garbage
      block(k) == [j \in 1 .. BLOCK_SIZE |-> byte((k - 1) * BLOCK_SIZE + j)]
  IN  [i \in 1 .. blocks * BLOCK_SIZE |->
         LET k == (i - 1) \div BLOCK_SIZE + 1
         IN  [number |-> k, at |-> ((i - 1) % BLOCK_SIZE) + 1, after |-> k - 1, block |-> block(k)]]

(* A block opens as a whole or not at all; then every byte needs the byte   *)
(* of the block before it.                                                  *)
CbcBlock(group, chain) ==
  LET whole == \A j \in 1 .. BLOCK_SIZE : group[j].number = group[1].number /\ group[j].at = j
  IN  [j \in 1 .. BLOCK_SIZE |->
         IF whole /\ chain[j] = [number |-> group[j].after, at |-> j] THEN group[j].block[j] ELSE Garbage]

CbcApply(bytes, chain) ==
  LET cipher == [i \in DOMAIN bytes |-> [number |-> bytes[i].number, at |-> bytes[i].at]]
      group(k) == SubSeq(bytes, (k - 1) * BLOCK_SIZE + 1, k * BLOCK_SIZE)
      before(k) == SubSeq(chain \o cipher, (k - 1) * BLOCK_SIZE + 1, k * BLOCK_SIZE)
  IN  [plain |-> FlattenSeq([k \in 1 .. Len(bytes) \div BLOCK_SIZE |-> CbcBlock(group(k), before(k))]),
       chain |-> After(chain \o cipher, Len(bytes))]

-----------------------------------------------------------------------------
(* ZipCrypto: the key of a byte comes of all plain bytes before it.         *)

Encrypted(keys, plain) == [i \in DOMAIN plain |-> Sealed(plain[i], keys \o SubSeq(plain, 1, i - 1))]
Decrypted(keys, bytes) == FoldLeft(LAMBDA k, sealed : Append(k, Opened(sealed, k)), keys, bytes)

-----------------------------------------------------------------------------
(* Writers                                                                  *)

CInit ==
  /\ codec \in {"zipcrypto", "winzip", "7zaes"}
  /\ given = <<>> /\ wire = <<>> /\ damage = "none" /\ got = <<>> /\ last = "writing" /\ refused = FALSE
  /\ writer = [data |-> <<>>, open |-> FALSE, written |-> 0]
  /\ reader = [open |-> FALSE]

Unwritten == UNCHANGED <<codec, damage, reader, got, refused>>
Prefix == IF codec = "winzip" THEN <<Token("salt", <<>>), Token("verifier", <<Right>>)>> ELSE <<>>
Overhead == IF codec = "winzip" THEN 3 ELSE HEADER_LEN
RandomHeader == [i \in 1 .. HEADER_LEN |-> IF i = HEADER_LEN THEN CHECK_BYTE ELSE Garbage]
Heads(bytes) == [i \in DOMAIN bytes |-> Token("head", <<bytes[i]>>)]

Start ==
  /\ last = "writing" /\ ~writer.open
  /\ \/ /\ codec = "winzip" /\ wire' = Prefix
        /\ \E hardware \in BOOLEAN :
             writer' = [data |-> <<>>, open |-> TRUE, written |-> Len(Prefix), ctr |-> NewCtr(hardware), mac |-> NewMac(Right)]
     \/ /\ codec = "zipcrypto" /\ wire' = Heads(Encrypted(<<Right>>, RandomHeader))
        /\ writer' = [data |-> <<>>, open |-> TRUE, written |-> HEADER_LEN, keys |-> <<Right>> \o RandomHeader]
     \/ /\ codec = "7zaes" /\ UNCHANGED wire
        /\ writer' = [writer EXCEPT !.open = TRUE]
  /\ UNCHANGED <<given, last>> /\ Unwritten

Puts(sealed) == wire' = wire \o Data(sealed)

WriteAes(bytes) ==
  LET sealed == [i \in DOMAIN bytes |-> Sealed(bytes[i], <<Right>> \o Keys(writer.ctr, Len(bytes))[i])]
  IN  /\ Puts(sealed)
      /\ writer' = [writer EXCEPT !.data = @ \o bytes, !.written = @ + Len(bytes), !.ctr = Applied(@, Len(bytes)), !.mac = Update(@, sealed)]

WriteZipCrypto(bytes) ==
  /\ Puts(Encrypted(writer.keys, bytes))
  /\ writer' = [writer EXCEPT !.data = @ \o bytes, !.written = @ + Len(bytes), !.keys = @ \o bytes]

(* A 7z folder is held until it is closed.                                  *)
Write(n) ==
  /\ last = "writing" /\ writer.open /\ Len(writer.data) + n <= MaxSecret
  /\ CASE codec = "winzip" -> WriteAes(Fresh(n))
       [] codec = "zipcrypto" -> WriteZipCrypto(Fresh(n))
       [] codec = "7zaes" -> UNCHANGED wire /\ writer' = [writer EXCEPT !.data = @ \o Fresh(n)]
  /\ UNCHANGED <<given, last>> /\ Unwritten

(* The directory of the archive keeps the size of the entry, stored and     *)
(* plain, for the reader.                                                   *)
Finish ==
  /\ last = "writing" /\ writer.open
  /\ wire' = wire \o CASE codec = "winzip" -> <<Token("tag", Tag(writer.mac, Right))>>
                       [] codec = "zipcrypto" -> <<>>
                       [] codec = "7zaes" -> Data(CbcEncrypt(writer.data))
  /\ given' = <<writer.data>>
  /\ writer' = [data |-> <<>>, open |-> FALSE, written |-> writer.written + IF codec = "winzip" THEN 1 ELSE 0]
  /\ last' = "ready"
  /\ Unwritten

-----------------------------------------------------------------------------
(* Readers.  One that could not be opened is opened once more.              *)

Password == IF damage = "password" THEN Wrong ELSE Right
Refuses == Fails /\ UNCHANGED <<wire, reader>>
Begins(r, n) == On /\ wire' = After(wire, n) /\ reader' = r
Opens == Goes /\ ~reader.open

(* Two bytes are a weak check: a wrong password may pass.                   *)
OpenAes ==
  /\ Opens /\ codec = "winzip"
  /\ IF writer.written < Overhead \/ Len(wire) < 2 \/ (Len(wire) = 2 /\ Last(wire) = Part) THEN Refuses
     ELSE \/ \E hardware \in BOOLEAN :
               Begins([open |-> TRUE, remaining |-> writer.written - Overhead, verified |-> FALSE,
                       ctr |-> NewCtr(hardware), mac |-> NewMac(Password)], 2)
          \/ Password = Wrong /\ Refuses

OpenZipCrypto ==
  /\ Opens /\ codec = "zipcrypto"
  /\ IF writer.written < Overhead \/ Len(wire) < HEADER_LEN THEN Refuses
     ELSE LET keys == Decrypted(<<Password>>, [i \in 1 .. HEADER_LEN |-> wire[i].v[1]])
          IN  \/ /\ Last(keys) = CHECK_BYTE \/ Password = Wrong
                 /\ Begins([open |-> TRUE, remaining |-> writer.written - Overhead, verified |-> FALSE, keys |-> keys], HEADER_LEN)
              \/ Last(keys) # CHECK_BYTE /\ Refuses

OpenFolder ==
  /\ Opens /\ codec = "7zaes"
  /\ Begins([open |-> TRUE, chain |-> Iv, buffer |-> <<>>, at |-> 0, filled |-> 0, done |-> FALSE, left |-> Len(Sent)], 0)

(* The code for authentication is asked for once; whatever comes of it, the *)
(* entry has ended from then on.                                            *)
Authentic(r, rest) == rest # <<>> /\ Head(rest) = Token("tag", Tag(r.mac, Password))
Verified(r, rest) == r.verified \/ codec = "zipcrypto" \/ Authentic(r, rest)
Verify(r, rest) ==
  /\ wire' = IF r.verified THEN rest ELSE After(rest, 1)
  /\ reader' = [r EXCEPT !.verified = TRUE]

Deciphered(bytes) ==
  IF codec = "zipcrypto" THEN After(Decrypted(reader.keys, bytes), Len(reader.keys))
  ELSE [i \in DOMAIN bytes |-> Opened(bytes[i], <<Password>> \o Keys(reader.ctr, Len(bytes))[i])]

Advanced(bytes) ==
  IF codec = "zipcrypto" THEN [reader EXCEPT !.remaining = @ - Len(bytes), !.keys = Decrypted(@, bytes)]
  ELSE [reader EXCEPT !.remaining = @ - Len(bytes), !.ctr = Applied(@, Len(bytes)), !.mac = Update(@, bytes)]

Reads == Goes /\ codec # "7zaes" /\ reader.open

(* One read of the source, short or not.  The bytes of the last one are     *)
(* lost where the code for authentication is another.                       *)
Decrypt ==
  /\ Reads /\ reader.remaining > 0
  /\ \E n \in 1 .. Least(reader.remaining, Len(wire)) :
       LET bytes == [i \in 1 .. n |-> wire[i].v[1]]
           r == Advanced(bytes)
       IN  IF r.remaining > 0 THEN Gives(Deciphered(bytes)) /\ wire' = After(wire, n) /\ reader' = r
           ELSE /\ Verify(r, After(wire, n))
                /\ IF Verified(r, After(wire, n)) THEN Gives(Deciphered(bytes)) ELSE Fails

Short == Reads /\ reader.remaining > 0 /\ wire = <<>> /\ Refuses

AtEnd ==
  /\ Reads /\ reader.remaining = 0
  /\ Verify(reader, wire)
  /\ IF Verified(reader, wire) THEN Ends ELSE Fails

ReadsFolder == Goes /\ codec = "7zaes" /\ reader.open

AtLimit == ReadsFolder /\ reader.left = 0 /\ Ends /\ UNCHANGED <<wire, reader>>

(* The source is read until a chunk is full or the source is at its end.    *)
NextChunk ==
  LET n == Least(CHUNK, Len(wire))
      bytes == [i \in 1 .. n |-> wire[i].v[1]]
      apply == CbcApply(bytes, reader.chain)
  IN  /\ ReadsFolder /\ reader.left > 0 /\ reader.at = reader.filled /\ ~reader.done
      /\ wire' = After(wire, n)
      /\ IF n = 0 THEN Ends /\ reader' = [reader EXCEPT !.done = TRUE, !.filled = 0]
         ELSE IF n % BLOCK_SIZE # 0 THEN Fails /\ UNCHANGED reader
         ELSE On /\ reader' = [reader EXCEPT !.chain = apply.chain, !.buffer = apply.plain, !.at = 0, !.filled = n]

TakeFolder ==
  /\ ReadsFolder /\ reader.left > 0 /\ reader.at < reader.filled
  /\ \E n \in 1 .. Least(reader.filled - reader.at, reader.left) :
       /\ Gives(SubSeq(reader.buffer, reader.at + 1, reader.at + n))
       /\ reader' = [reader EXCEPT !.at = @ + n, !.left = @ - n]
  /\ UNCHANGED wire

Done == ReadsFolder /\ reader.left > 0 /\ reader.at = reader.filled /\ reader.done /\ Ends /\ UNCHANGED <<wire, reader>>

(* Where a stream ended too soon the place in the buffer is past its end:   *)
(* the difference of the two is below zero, and the call panics or, built   *)
(* without the check, takes what the buffer still holds, up to its size.    *)
Stale ==
  /\ ReadsFolder /\ reader.left > 0 /\ reader.at > reader.filled
  /\ \/ Refuses
     \/ \E n \in 1 .. Least(Most(0, CHUNK - reader.at), reader.left) :
          /\ Gives([i \in 1 .. n |-> Garbage])
          /\ reader' = [reader EXCEPT !.at = @ + n, !.left = @ - n] /\ UNCHANGED wire

-----------------------------------------------------------------------------
AlterByte ==
  /\ last = "ready" /\ damage = "none"
  /\ \E i \in DOMAIN wire :
       /\ wire[i].t = "data"
       /\ wire' = [wire EXCEPT ![i].v = IF codec = "7zaes" THEN <<[@[1] EXCEPT !.at = 0]>> ELSE <<[@[1] EXCEPT !.byte = Garbage]>>]
  /\ damage' = "altered"
  /\ UNCHANGED <<codec, given, writer, reader, got, last, refused>>

ForgetPassword ==
  /\ last = "ready" /\ damage = "none" /\ codec # "7zaes"
  /\ damage' = "password"
  /\ UNCHANGED <<codec, given, writer, wire, reader, got, last, refused>>

CMissed(i, midway) == midway => wire[i + 1].t \in {"salt", "verifier", "tag"}

CNext ==
  \/ Start \/ (\E n \in 1 .. MaxSecret : Write(n)) \/ Finish
  \/ Cut(CMissed) \/ AlterByte \/ ForgetPassword \/ Call
  \/ OpenAes \/ OpenZipCrypto \/ OpenFolder
  \/ Decrypt \/ Short \/ AtEnd
  \/ AtLimit \/ NextChunk \/ TakeFolder \/ Done \/ Stale

CTypeOK ==
  /\ Len(given) <= 1 /\ Len(Sent) <= MaxSecret
  /\ reader.open => IF codec = "7zaes" THEN reader.left <= Len(Sent) /\ reader.at <= CHUNK
                    ELSE reader.remaining <= writer.written - Overhead
=============================================================================
