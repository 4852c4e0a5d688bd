---------------------------- MODULE FormatsChecks ----------------------------
(***************************************************************************)
(* What the formats of Formats.tla promise each other, over bounded        *)
(* inputs: TLC evaluates the assumptions when it starts.                   *)
(***************************************************************************)
EXTENDS Formats

UpTo(S, n) == UNION {[1..k -> S] : k \in 0..n}

------------------------------------------------------------------------------
(* Room keys, of 0s, 10s in both cases, dashes and junk.                   *)

Keystrokes == UpTo({0, 10, 26, Dash, Junk}, 5)
RawKeys == [1..RoomKeyBytes -> {0, 9, 160, 171, 255}]

\* The key the host shows is the key a receiver reads.
ASSUME ShownKeyIsRead == \A raw \in RawKeys : ParseRoomKey(FormatRoomKey(raw)) = raw

\* What can be read is the shown key of what was read, but for case and dashes:
\* two keys are never taken for each other.
Digits(key) ==
  LET clean == SelectSeq(key, LAMBDA c : c # Dash)
  IN  [i \in DOMAIN clean |-> IF IsHexDigit(clean[i]) THEN HexDigit(clean[i]) ELSE clean[i]]

ASSUME ReadKeyIsTyped ==
  \A key \in Keystrokes : LET raw == ParseRoomKey(key)
                          IN  raw # Malformed => Digits(FormatRoomKey(raw)) = Digits(key)

\* A key is refused only for its length or for a character that is no digit.
ASSUME KeyIsRefusedForCause ==
  \A key \in Keystrokes : (ParseRoomKey(key) = Malformed) <=>
                            (Len(Digits(key)) # 2 * RoomKeyBytes \/ Junk \in ToSet(key))

------------------------------------------------------------------------------
(* Frames and chunks.                                                      *)

Bytes == 0..(Base - 1)
Chunks == [id : UpTo({0, Base - 1}, 2), offset : {0, 1, Base, Base ^ 5 + 1},
           checksum : {0, Base ^ 4 - 1}, data : UpTo({0, Base - 1}, 2) \cup {[i \in 1..(Base + 1) |-> 1]}]

\* A receiver reads the chunk the host wrote; of a blob that was cut short it
\* makes no chunk at all, and it does not see what follows the data.
ASSUME ChunkIsRead ==
  \A c \in Chunks : LET blob == marshalChunkBody(c)
                    IN  /\ DecodeChunkBlob(blob) = c
                        /\ DecodeChunkBlob(blob \o <<1>>) = c
                        /\ \A n \in 0..(Len(blob) - 1) : DecodeChunkBlob(Take(blob, n)) = Malformed

\* A transfer id that does not fit its length byte is not what is read.
ASSUME LongIdIsLost ==
  LET c == [id |-> [i \in 1..Base |-> 1], offset |-> 0, checksum |-> 0, data |-> <<>>]
  IN  DecodeChunkBlob(marshalChunkBody(c)) # c

\* Frames one after the other are read one after the other, whatever is in them.
Payloads == UpTo({0, 1, Base - 1}, 2) \cup {[i \in 1..(Base * Base) |-> 0]}

ASSUME FramesAreRead ==
  \A t1, t2 \in Bytes, d1, d2 \in Payloads :
    LET first == Unmarshal(MarshalRaw(t1, d1) \o MarshalRaw(t2, d2))
        second == Unmarshal(first.rest)
    IN  /\ first.type = t1 /\ first.data = d1
        /\ second.type = t2 /\ second.data = d2
        /\ Unmarshal(second.rest) = Malformed

------------------------------------------------------------------------------
(* Names.                                                                  *)

Names == UpTo({"a", " ", ".", "/", "\\", ":", "NUL"}, 4)

\* What a file is called is one element of a path (FormatsProofs has this for
\* every name), and calling it so again changes nothing.
ASSUME SanitizedIsElement ==
  \A name \in Names : LET made == sanitizeFilename(name)
                      IN  made # <<>> => /\ made \notin {<<".">>, <<".", ".">>}
                                         /\ ~Has(made, {"/", "\\", ":", "NUL"})

ASSUME SanitizedIsStable == \A name \in Names : sanitizeFilename(sanitizeFilename(name)) = sanitizeFilename(name)

\* A name without a separator, a colon or blanks at its ends is kept.
ASSUME PlainNameIsKept ==
  \A name \in Names :
    (/\ name \notin {<<>>, <<".">>, <<".", ".">>} /\ ~Has(name, {"/", "\\", ":", "NUL"})
     /\ TrimSpace(name) = name) => sanitizeFilename(name) = name

\* No entry of an archive is put outside the folder that is extracted, and
\* what the host packed comes out where it was.
Segments == {"", ".", "..", "a", "b"}

ASSUME EntriesStayInside ==
  \A name \in UpTo(Segments, 5) \ {<<>>} :
    LET entry == EntryOf(<<"root">>, name)
    IN  entry.kind \in {"file", "folder"} =>
          /\ Head(entry.path) = "root"
          /\ \A i \in DOMAIN entry.path : entry.path[i] \notin {"", ".", ".."}

ASSUME TreeIsRestored ==
  \A rel \in UpTo({"a", "b"}, 4) \ {<<>>}, isDir \in BOOLEAN :
    EntryOf(<<"root">>, ArchiveName("a", rel, isDir)) =
      [kind |-> IF isDir THEN "folder" ELSE "file", path |-> <<"root">> \o rel]

==============================================================================
