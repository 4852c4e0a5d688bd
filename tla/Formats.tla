------------------------------- MODULE Formats -------------------------------
(***************************************************************************)
(* The program's own data formats, as functions: the room key as it is     *)
(* shown and typed (src/internal/crypto/pin.go), frames                    *)
(* (src/internal/protocol/protocol.go), the binary form of a chunk         *)
(* (src/internal/transfer/transfer.go), and the names a receiver makes of  *)
(* what an offer and an archive call their files                           *)
(* (src/internal/receiver/receiver.go, archive.go).                        *)
(*                                                                         *)
(* A byte is a number below Base (256 in the code).  A reader is the       *)
(* sequence of the bytes that are left; what cannot be read is Malformed.  *)
(***************************************************************************)
EXTENDS Integers, Sequences, SequencesExt

CONSTANTS Base,           \* values of a byte
          RoomKeyBytes,   \* 16 in the code
          GroupSize,      \* hex digits in a group of the key, 8 in the code
          Malformed       \* what a reader returns instead of a value

ASSUME FormatsAssumption == /\ Base \in Nat \ {0, 1}
                            /\ RoomKeyBytes \in Nat \ {0} /\ GroupSize \in Nat \ {0}

------------------------------------------------------------------------------
(* The room key.  A character is 0..15 for a hex digit, 16 more if it is a *)
(* letter in lower case, Dash, or Junk.                                    *)

Dash == 100
Junk == 101
IsHexDigit(c) == c \in (0..15) \cup (26..31)
HexDigit(c) == c % 16

\* Two digits a byte, with a dash between the groups.
FormatRoomKey(raw) ==
  LET hex == [i \in 1..(2 * Len(raw)) |->
                IF i % 2 = 1 THEN raw[(i + 1) \div 2] \div 16 ELSE raw[i \div 2] % 16]
  IN  [i \in 1..(Len(hex) + (Len(hex) - 1) \div GroupSize) |->
         IF i % (GroupSize + 1) = 0 THEN Dash ELSE hex[i - i \div (GroupSize + 1)]]

ParseRoomKey(key) ==
  LET clean == SelectSeq(key, LAMBDA c : c # Dash)
  IN  IF Len(clean) # 2 * RoomKeyBytes \/ \E i \in DOMAIN clean : ~IsHexDigit(clean[i])
      THEN Malformed
      ELSE [i \in 1..RoomKeyBytes |-> 16 * HexDigit(clean[2 * i - 1]) + HexDigit(clean[2 * i])]

------------------------------------------------------------------------------
(* binary.Write and binary.Read of numbers, most significant byte first    *)

BigEndian(n, width) == [i \in 1..width |-> (n \div Base ^ (width - i)) % Base]
Number(bytes) == FoldLeft(LAMBDA n, b : Base * n + b, 0, bytes)

\* The next n bytes of a reader, and what is left after them.
Take(r, n) == SubSeq(r, 1, n)
Drop(r, n) == SubSeq(r, n + 1, Len(r))

\* A type, a length of four bytes, and the data.
MarshalRaw(type, data) == <<type>> \o BigEndian(Len(data), 4) \o data

\* What it reads from r: the type, the data and the rest.
Unmarshal(r) ==
  IF Len(r) < 5 THEN Malformed
  ELSE LET length == Number(SubSeq(r, 2, 5))
       IN  IF Len(r) < 5 + length THEN Malformed
           ELSE [type |-> r[1], data |-> Take(Drop(r, 5), length), rest |-> Drop(r, 5 + length)]

\* The length of the id is one byte, and wraps round.
marshalChunkBody(chunk) ==
  <<Len(chunk.id) % Base>> \o chunk.id \o BigEndian(chunk.offset, 8)
    \o BigEndian(Len(chunk.data), 4) \o BigEndian(chunk.checksum, 4) \o chunk.data

DecodeChunkBlob(blob) ==
  IF blob = <<>> \/ Len(blob) < 1 + blob[1] + 16 THEN Malformed
  ELSE LET id == Take(Drop(blob, 1), blob[1])
           r == Drop(blob, 1 + blob[1])
           dataLen == Number(SubSeq(r, 9, 12))
       IN  IF Len(r) < 16 + dataLen THEN Malformed
           ELSE [id |-> id, offset |-> Number(Take(r, 8)),
                 checksum |-> Number(SubSeq(r, 13, 16)), data |-> Take(Drop(r, 16), dataLen)]

------------------------------------------------------------------------------
(* Names.  A name is a sequence of characters, a path one of segments.     *)

Has(name, chars) == \E i \in DOMAIN name : name[i] \in chars

\* strings.TrimSpace
TrimSpace(name) ==
  LET inked == {i \in DOMAIN name : name[i] # " "}
  IN  IF inked = {} THEN <<>>
      ELSE SubSeq(name, Min(inked), Max(inked))

\* filepath.Base: the last element of a path, or its only separator.
PathBase(name) ==
  LET solid == {i \in DOMAIN name : name[i] # "/"}
  IN  IF name = <<>> THEN <<".">>
      ELSE IF solid = {} THEN <<"/">>
      ELSE LET last == Max(solid)
               cuts == {0} \cup {i \in 1..last : name[i] = "/"}
           IN  SubSeq(name, 1 + Max(cuts), last)

\* A name the file can get, or nothing.
sanitizeFilename(name) ==
  LET trimmed == TrimSpace(name)
      base == TrimSpace(PathBase(trimmed))
  IN  IF \/ Has(trimmed, {"\\", ":", "NUL"})
         \/ base \in {<<>>, <<".">>, <<".", ".">>} \/ Has(base, {"/", "\\"})
      THEN <<>> ELSE base

\* filepath.Clean, by segments: a path from the root of the tree cannot leave it.
Clean(path) ==
  LET rooted == path # <<>> /\ Head(path) = ""
  IN  FoldLeft(LAMBDA done, seg :
                 IF seg \in {"", "."} THEN done
                 ELSE IF seg # ".." THEN Append(done, seg)
                 ELSE IF done # <<>> /\ Last(done) # ".." THEN Front(done)
                 ELSE IF rooted THEN done ELSE Append(done, seg),
               <<>>, path)

\* The name createArchive gives an entry: below the folder's own name, with
\* nothing after the last separator if it is a folder.
ArchiveName(folder, rel, isDir) == <<folder>> \o rel \o IF isDir THEN <<"">> ELSE <<>>

\* What extractFolder makes of an entry, its separators being of either kind.
EntryOf(root, name) ==
  LET rel == Tail(name)
      cleanRel == Clean(rel)
  IN  IF rel \in {<<>>, <<"">>} THEN [kind |-> "skipped"]
      ELSE IF Head(rel) # "" /\ cleanRel # <<>> /\ Head(cleanRel) = ".." THEN [kind |-> "illegal"]
      ELSE [kind |-> IF Last(name) = "" THEN "folder" ELSE "file", path |-> root \o cleanRel]

==============================================================================
