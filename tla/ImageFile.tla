------------------------------ MODULE ImageFile ------------------------------
(***************************************************************************)
(* An image file byte by byte: write_lmcx_file on one host, the file cut   *)
(* short or lengthened on its way, read_lmcx_file and the checks of the    *)
(* virtual machine on another.  One process at a time is at the file here; *)
(* Toolchain has several.                                                  *)
(***************************************************************************)
EXTENDS Integers, SequencesExt

CONSTANTS
  EXECUTABLE_SIZE,        \* 100
  EXT_SUPPORTED_VERSION,  \* 0
  Images,                 \* the data of a descriptor, decimal words: other words could
                          \* follow LMCX as TENDED; lmasm writes EXECUTABLE_SIZE
                          \* words, other tools may write fewer or more
  Versions,               \* its ext_version, 0 for a standard image
  Junk,                   \* bytes a longer file ends in
  NULL

Byte == 0 .. 255
Word == 0 .. 65535
Decimal == 0 .. 999

ASSUME SizeAssumption == EXECUTABLE_SIZE \in Nat /\ EXT_SUPPORTED_VERSION \in Nat
ASSUME ImagesAssumption == \A image \in Images : image \in Seq(Decimal) /\ image # <<>>
ASSUME VersionsAssumption == 0 \in Versions /\ Versions \subseteq Word
ASSUME JunkAssumption == Junk \subseteq Seq(Byte)

Hosts == {"little", "big"}

VARIABLES
  writer, reader,  \* the two hosts
  descriptor,      \* what is written
  file,
  position,        \* where the reader's stream is
  result,          \* what read_lmcx_file returns
  stage

vars == <<writer, reader, descriptor, file, position, result, stage>>

MAGIC_STRING_LMC          == <<76, 77, 67, 88>>                          \* LMCX
MAGIC_STRING_LMC_EXTENDED == MAGIC_STRING_LMC \o <<84, 69, 78, 68, 69, 68>> \* TENDED

Init == /\ writer \in Hosts /\ reader \in Hosts
        /\ descriptor \in [data : Images, ext_version : Versions]
        /\ file = <<>> /\ position = 0
        /\ result = NULL
        /\ stage = "write"

-----------------------------------------------------------------------------
\* Words and bytes

Low(word)       == word % 256
High(word)      == word \div 256
Join(low, high) == low + 256 * high

\* The bytes of a word in the memory of a host, and the word bytes make there.
InMemory(host, word) == IF host = "little" THEN <<Low(word), High(word)>>
                        ELSE <<High(word), Low(word)>>
FromMemory(host, b1, b2) == IF host = "little" THEN Join(b1, b2) ELSE Join(b2, b1)

\* Mutant: the bytes are never swapped.
ForFile_AsIs(host, word) == word
\* Mutant: the swapped word is kept in an int.
ForFile_Int(host, word) == IF host = "little" THEN word ELSE 256 * word + word \div 256
\* (word << 8) | (word >> 8) in sixteen bits, on a big endian host.
ForFile(host, word) == IF host = "little" THEN word
                       ELSE Join(High(word), Low(word))

\* fwrite of words.
Bytes(host, words) ==
  [k \in 1 .. 2 * Len(words) |->
     InMemory(host, ForFile(host, words[(k + 1) \div 2]))[1 + ((k + 1) % 2)]]

-----------------------------------------------------------------------------
write_lmcx_file ==
  /\ stage = "write"
  /\ file' = (IF descriptor.ext_version # 0
              THEN MAGIC_STRING_LMC_EXTENDED \o Bytes(writer, <<descriptor.ext_version>>)
              ELSE MAGIC_STRING_LMC)
             \o Bytes(writer, descriptor.data)
  /\ stage' = "closed"
  /\ UNCHANGED <<writer, reader, descriptor, position, result>>

\* The disk was full or a copy of the file broke off; or something is behind it.
Damage == /\ stage = "closed"
          /\ \/ \E n \in 0 .. Len(file) : file' = SubSeq(file, 1, n)
             \/ \E bytes \in Junk : file' = file \o bytes
          /\ stage' = "damaged"
          /\ UNCHANGED <<writer, reader, descriptor, position, result>>

-----------------------------------------------------------------------------
\* read_lmcx_file

Refuse == stage' = "refused" /\ UNCHANGED <<position, result>>

\* strcmp reads on behind the buffer, which has no room for a NUL: it finds
\* the extended magic string only if a zero happens to follow.  A file shorter
\* than that string is not looked at.
Matches(magic) == /\ Len(file) >= Len(MAGIC_STRING_LMC_EXTENDED)
                  /\ IsPrefix(magic, file)

ReadMagic ==
  /\ stage \in {"closed", "damaged"}
  /\ IF ~Matches(MAGIC_STRING_LMC) THEN Refuse
     ELSE /\ \/ /\ Matches(MAGIC_STRING_LMC_EXTENDED)
                /\ stage' = "version" /\ position' = Len(MAGIC_STRING_LMC_EXTENDED)
             \/ /\ stage' = "data" /\ position' = Len(MAGIC_STRING_LMC)
          /\ UNCHANGED result
  /\ UNCHANGED <<writer, reader, descriptor, file>>

\* fread returns the number of versions read, at most one, and the code
\* compares it with the two bytes a version has: the file is always refused.
ReadVersion ==
  /\ stage = "version"
  /\ \E versions \in {IF Len(file) >= position + 2 THEN 1 ELSE 0} :
       versions # 2 /\ Refuse
  /\ UNCHANGED <<writer, reader, descriptor, file>>

remaining_file_size == Len(file) - position

\* Byte i of the data.
DataAt(i) == position + i

\* It asks for twice as many words as there are and gets what there is; an odd
\* byte at the end is lost.
ReadData ==
  /\ stage = "data"
  /\ result' = [data |-> [i \in 1 .. remaining_file_size \div 2 |->
                            FromMemory(reader, file[DataAt(2 * i - 1)], file[DataAt(2 * i)])],
                data_size |-> remaining_file_size,
                ext_version |-> 0]
  /\ stage' = "check"
  /\ UNCHANGED <<writer, reader, descriptor, file, position>>

\* Mutant: data_size is taken for a number of words.
TooLarge_InBytes == result.data_size > EXECUTABLE_SIZE
\* data_value_count > EXECUTABLE_SIZE
TooLarge == result.data_size \div 2 > EXECUTABLE_SIZE

\* main, before it loads the image.
CheckImage ==
  /\ stage = "check"
  /\ stage' = IF result.ext_version > EXT_SUPPORTED_VERSION \/ TooLarge
              THEN "refused" ELSE "loaded"
  /\ UNCHANGED <<writer, reader, descriptor, file, position, result>>

Ended == stage \in {"refused", "loaded"} /\ UNCHANGED vars

Next == \/ write_lmcx_file \/ Damage
        \/ ReadMagic \/ ReadVersion \/ ReadData \/ CheckImage \/ Ended

Spec == Init /\ [][Next]_vars

-----------------------------------------------------------------------------
\* Properties

\* Types: what is in a file is bytes, and what is read words.
TypeOK == /\ writer \in Hosts /\ reader \in Hosts
          /\ descriptor \in [data : Images, ext_version : Versions]
          /\ file \in Seq(Byte) /\ position \in 0 .. Len(file)
          /\ result \in {NULL} \cup [data : Seq(Word), data_size : Nat, ext_version : {0}]
          /\ stage \in {"write", "closed", "damaged", "version", "data", "check",
                        "refused", "loaded"}

Standard == descriptor.ext_version = 0

\* Words written by any host are read back the same by a little endian one: a
\* file that is cut or lengthened loses words or gains some at its end, but
\* never gives another word for one that was written.
LoadedIsWritten ==
  stage = "loaded" /\ Standard /\ reader = "little" =>
    IsPrefix(result.data, descriptor.data) \/ IsPrefix(descriptor.data, result.data)

\* A standard image is refused only if it is shorter than the longer magic
\* string or has more words than memory; an odd byte at its end does no harm.
ImagesThatFitLoad ==
  stage = "refused" /\ Standard =>
    \/ Len(file) < Len(MAGIC_STRING_LMC_EXTENDED)
    \/ Len(file) - Len(MAGIC_STRING_LMC) >= 2 * (EXECUTABLE_SIZE + 1)
=============================================================================
