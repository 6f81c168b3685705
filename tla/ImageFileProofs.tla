--------------------------- MODULE ImageFileProofs ---------------------------
(***************************************************************************)
(* Theorems about ImageFile, for images of every length, and files cut or  *)
(* lengthened in any way.                                                  *)
(***************************************************************************)
EXTENDS ImageFile, TLAPS

Data == descriptor.data
\* Byte k of the data as any host writes it.
FileByte(k) == IF k % 2 = 1 THEN Low(Data[(k + 1) \div 2]) ELSE High(Data[(k + 1) \div 2])

Types == /\ writer \in Hosts
         /\ descriptor \in [data : Images, ext_version : Versions]
         /\ file \in Seq(Byte)

\* A standard file agrees with what was written as far as both go.
FileAgrees == /\ \A i \in 1 .. 4 : i <= Len(file) => file[i] = MAGIC_STRING_LMC[i]
              /\ \A k \in 1 .. 2 * Len(Data) : 4 + k <= Len(file) => file[4 + k] = FileByte(k)

\* A standard file that is long enough is read as one: the pairs of bytes
\* behind the magic string.
ReadAgrees ==
  /\ stage # "version"
  /\ stage = "data" => position = 4 /\ Len(file) >= 10
  /\ stage \in {"check", "loaded"} =>
       /\ result.data = [i \in 1 .. (Len(file) - 4) \div 2 |->
                           FromMemory(reader, file[4 + (2 * i - 1)], file[4 + 2 * i])]
       /\ result.data_size = Len(file) - 4
       /\ result.ext_version = 0
       /\ Len(file) >= 10

-----------------------------------------------------------------------------
\* Bytes and words

LEMMA LowByte == \A w \in Nat : w % 256 \in 0 .. 255
  OBVIOUS

LEMMA HighNat == \A w \in Nat : w \div 256 \in Nat
  OBVIOUS

LEMMA Split == \A w \in Nat : w = 256 * (w \div 256) + (w % 256)
  OBVIOUS

LEMMA HighBound == \A q, r \in Nat : 256 * q + r <= 65535 => q <= 255
  OBVIOUS

LEMMA Unique == \A q, p, r, s \in Nat :
                  r <= 255 /\ s <= 255 /\ 256 * q + r = 256 * p + s => q = p /\ r = s
  OBVIOUS

LEMMA WordNat == \A w \in Word : w \in Nat /\ w <= 65535
  BY DEF Word

LEMMA NatWord == \A w \in Nat : w <= 65535 => w \in Word
<1> DEFINE largest == 65535
<1>1. largest \in Nat /\ Word = 0 .. largest
  BY DEF Word
<1>2. SUFFICES ASSUME NEW w \in Nat, w <= largest PROVE w \in Word
  OBVIOUS
<1> HIDE DEF largest
<1>3. QED
  BY <1>1, <1>2

LEMMA ByteNat == \A b : b \in Byte <=> b \in Nat /\ b <= 255
  BY DEF Byte

LEMMA LowIsByte == \A w \in Word : Low(w) \in Byte
  BY WordNat, LowByte DEF Low, Byte

LEMMA HighByte == \A w \in Nat : w <= 65535 => w \div 256 <= 255
<1>1. SUFFICES ASSUME NEW w \in Nat, w <= 65535 PROVE w \div 256 <= 255
  OBVIOUS
<1> DEFINE q == w \div 256
           r == w % 256
<1>2. q \in Nat
  BY HighNat
<1>3. r \in Nat
  BY LowByte
<1>4. w = 256 * q + r
  BY Split
<1> HIDE DEF q, r
<1>5. q <= 255
  BY <1>1, <1>2, <1>3, <1>4, HighBound
<1>6. QED
  BY <1>5 DEF q

LEMMA HighIsByte == \A w \in Word : High(w) \in Byte
<1>1. SUFFICES ASSUME NEW w \in Word PROVE High(w) \in Byte
  OBVIOUS
<1>2. w \in Nat /\ w <= 65535
  BY WordNat
<1>3. w \div 256 \in Nat /\ w \div 256 <= 255
  BY <1>2, HighNat, HighByte
<1>4. QED
  BY <1>3, ByteNat DEF High

\* A word is put together again from its bytes.
LEMMA JoinBack == \A w \in Word : Join(Low(w), High(w)) = w
<1>1. SUFFICES ASSUME NEW w \in Word PROVE Join(Low(w), High(w)) = w
  OBVIOUS
<1>2. w \in Nat /\ w <= 65535
  BY WordNat
<1>3. w \div 256 \in Nat /\ w % 256 \in Nat
  BY <1>2, HighNat, LowByte
<1>4. w = 256 * (w \div 256) + (w % 256)
  BY <1>2, Split
<1>5. QED
  BY <1>3, <1>4 DEF Join, Low, High

\* Bytes put together are found in the word.
LEMMA PartsOfJoin == \A l, h \in Byte : Low(Join(l, h)) = l /\ High(Join(l, h)) = h
<1>1. SUFFICES ASSUME NEW l \in Byte, NEW h \in Byte
               PROVE  Low(Join(l, h)) = l /\ High(Join(l, h)) = h
  OBVIOUS
<1> DEFINE x == Join(l, h)
<1>2. l \in Nat /\ h \in Nat /\ l <= 255 /\ h <= 255
  BY ByteNat
<1>3. x = 256 * h + l
  BY <1>2 DEF Join
<1>4. x \in Nat
  BY <1>2, <1>3
<1> HIDE DEF x
<1>5. Low(x) \in Nat /\ Low(x) <= 255
  BY <1>4, LowByte DEF Low
<1>6. High(x) \in Nat
  BY <1>4, HighNat DEF High
<1>7. x = 256 * High(x) + Low(x)
  BY <1>4, Split DEF High, Low
<1>8. High(x) = h /\ Low(x) = l
  BY <1>2, <1>3, <1>5, <1>6, <1>7, Unique
<1>9. QED
  BY <1>8 DEF x

\* Any host puts the low byte of a word first into the file.
LEMMA LowByteFirst == \A host \in Hosts, w \in Word :
                        InMemory(host, ForFile(host, w)) = <<Low(w), High(w)>>
<1>1. SUFFICES ASSUME NEW host \in Hosts, NEW w \in Word
               PROVE  InMemory(host, ForFile(host, w)) = <<Low(w), High(w)>>
  OBVIOUS
<1>2. CASE host = "little"
  BY <1>2 DEF InMemory, ForFile
<1>3. CASE host = "big"
  <2>1. Low(w) \in Byte /\ High(w) \in Byte
    BY LowIsByte, HighIsByte
  <2>2. ForFile(host, w) = Join(High(w), Low(w))
    BY <1>3 DEF ForFile
  <2>3. Low(ForFile(host, w)) = High(w) /\ High(ForFile(host, w)) = Low(w)
    BY <2>1, <2>2, PartsOfJoin
  <2>4. QED
    BY <1>3, <2>3 DEF InMemory
<1>4. QED
  BY <1>2, <1>3 DEF Hosts

\* What fwrite makes of words, byte by byte.
LEMMA BytesOfWords ==
  ASSUME NEW host \in Hosts, NEW words \in Seq(Word)
  PROVE  /\ Bytes(host, words) \in Seq(Byte)
         /\ Len(Bytes(host, words)) = 2 * Len(words)
         /\ \A k \in 1 .. 2 * Len(words) :
              Bytes(host, words)[k] = IF k % 2 = 1 THEN Low(words[(k + 1) \div 2])
                                      ELSE High(words[(k + 1) \div 2])
<1> DEFINE n == Len(words)
           bytes == Bytes(host, words)
<1>1. n \in Nat
  OBVIOUS
<1>2. ASSUME NEW k \in 1 .. 2 * n
      PROVE  /\ bytes[k] = IF k % 2 = 1 THEN Low(words[(k + 1) \div 2])
                           ELSE High(words[(k + 1) \div 2])
             /\ bytes[k] \in Byte
  <2> DEFINE i == (k + 1) \div 2
             w == words[i]
  <2>1. i \in 1 .. n
    BY <1>1
  <2>2. w \in Word
    BY <2>1
  <2> HIDE DEF w
  <2>3. InMemory(host, ForFile(host, w)) = <<Low(w), High(w)>>
    BY <2>2, LowByteFirst
  <2>4. bytes[k] = InMemory(host, ForFile(host, w))[1 + ((k + 1) % 2)]
    BY DEF Bytes, w
  <2>5. CASE k % 2 = 1
    <3>1. (k + 1) % 2 = 0
      BY <1>1, <2>5
    <3>2. bytes[k] = Low(w)
      BY <2>3, <2>4, <3>1
    <3>3. QED
      BY <2>2, <2>5, <3>2, LowIsByte DEF w
  <2>6. CASE k % 2 # 1
    <3>1. (k + 1) % 2 = 1
      BY <1>1, <2>6
    <3>2. bytes[k] = High(w)
      BY <2>3, <2>4, <3>1
    <3>3. QED
      BY <2>2, <2>6, <3>2, HighIsByte DEF w
  <2>7. QED
    BY <2>5, <2>6
<1>3. bytes \in Seq(Byte) /\ Len(bytes) = 2 * n
  <2>1. 2 * n \in Nat
    BY <1>1
  <2>2. bytes = [k \in 1 .. 2 * n |-> bytes[k]]
    BY DEF Bytes
  <2> HIDE DEF bytes
  <2>3. bytes \in [1 .. 2 * n -> Byte]
    BY <1>2, <2>2
  <2>4. QED
    BY <2>1, <2>3
<1>4. QED
  BY <1>2, <1>3

-----------------------------------------------------------------------------
\* Sequences

LEMMA PrefixByElements ==
  ASSUME NEW S, NEW s \in Seq(S), NEW t \in Seq(S), Len(s) <= Len(t),
         \A i \in 1 .. Len(s) : s[i] = t[i]
  PROVE  IsPrefix(s, t)
<1>1. SubSeq(t, 1, Len(s)) \in Seq(S) /\ Len(SubSeq(t, 1, Len(s))) = Len(s)
  OBVIOUS
<1>2. SubSeq(s, 1, Len(s)) = s
  OBVIOUS
<1>3. \A i \in 1 .. Len(s) : SubSeq(t, 1, Len(s))[i] = t[i]
  OBVIOUS
<1>4. SubSeq(t, 1, Len(s)) = s
  BY <1>1, <1>3
<1>5. QED
  BY <1>2, <1>4 DEF IsPrefix

LEMMA ElementsOfPrefix ==
  ASSUME NEW S, NEW s \in Seq(S), NEW t \in Seq(S), IsPrefix(s, t)
  PROVE  Len(s) <= Len(t) /\ \A i \in 1 .. Len(s) : s[i] = t[i]
<1>1. Len(s) <= Len(t) /\ SubSeq(s, 1, Len(s)) = SubSeq(t, 1, Len(s))
  BY DEF IsPrefix
<1>2. \A i \in 1 .. Len(s) : SubSeq(s, 1, Len(s))[i] = s[i]
  OBVIOUS
<1>3. \A i \in 1 .. Len(s) : SubSeq(t, 1, Len(s))[i] = t[i]
  BY <1>1
<1>4. QED
  BY <1>1, <1>2, <1>3

LEMMA Concatenated ==
  ASSUME NEW S, NEW s \in Seq(S), NEW t \in Seq(S)
  PROVE  /\ s \o t \in Seq(S) /\ Len(s \o t) = Len(s) + Len(t)
         /\ \A i \in 1 .. Len(s) : (s \o t)[i] = s[i]
         /\ \A k \in 1 .. Len(t) : (s \o t)[Len(s) + k] = t[k]
  OBVIOUS

LEMMA Magic == /\ MAGIC_STRING_LMC \in Seq(Byte) /\ Len(MAGIC_STRING_LMC) = 4
               /\ MAGIC_STRING_LMC_EXTENDED \in Seq(Byte)
               /\ Len(MAGIC_STRING_LMC_EXTENDED) = 10
               /\ MAGIC_STRING_LMC_EXTENDED[6] = 69
<1>1. <<76, 77, 67, 88>> \in Seq(Byte) /\ <<84, 69, 78, 68, 69, 68>> \in Seq(Byte)
  BY DEF Byte
<1>2. QED
  BY <1>1 DEF MAGIC_STRING_LMC, MAGIC_STRING_LMC_EXTENDED

-----------------------------------------------------------------------------
\* The data of a descriptor

LEMMA DecimalIsWord == \A w \in Decimal : w \in Nat /\ w <= 999 /\ w \in Word
<1>1. SUFFICES ASSUME NEW w \in Decimal PROVE w \in Nat /\ w <= 999 /\ w \in Word
  OBVIOUS
<1>2. w \in Nat /\ w <= 999
  BY DEF Decimal
<1>3. w <= 65535
  BY <1>2
<1>4. QED
  BY <1>2, <1>3 DEF Word

LEMMA DataIsWords ==
  ASSUME Types
  PROVE  Data \in Seq(Decimal) /\ Data \in Seq(Word) /\ Len(Data) \in Nat \ {0}
<1>1. Data \in Images
  BY DEF Types, Data
<1>2. Data \in Seq(Decimal) /\ Data # <<>>
  BY <1>1, ImagesAssumption
<1>3. Decimal \subseteq Word
  BY DecimalIsWord
<1> HIDE DEF Data
<1>4. Data \in Seq(Word)
  BY <1>2, <1>3
<1>5. QED
  BY <1>2, <1>4

\* The two bytes of word i of the data.
LEMMA BytesOfWord ==
  ASSUME NEW i \in Nat \ {0}
  PROVE  FileByte(2 * i - 1) = Low(Data[i]) /\ FileByte(2 * i) = High(Data[i])
<1>1. (2 * i - 1 + 1) \div 2 = i /\ (2 * i - 1) % 2 = 1
  OBVIOUS
<1>2. (2 * i + 1) \div 2 = i /\ (2 * i) % 2 = 0
  OBVIOUS
<1>3. QED
  BY <1>1, <1>2 DEF FileByte

\* The second letter of TENDED is not the high byte of a decimal word.
LEMMA HighOfDecimal == \A w \in Decimal : High(w) # 69
<1>1. SUFFICES ASSUME NEW w \in Decimal, w \div 256 = 69 PROVE FALSE
  BY DEF High
<1>2. w \in Nat /\ w <= 999
  BY DecimalIsWord
<1>3. w = 256 * (w \div 256) + (w % 256) /\ w % 256 \in Nat
  BY <1>2, Split, LowByte
<1>4. w = 17664 + (w % 256)
  BY <1>1, <1>3
<1>5. QED
  BY <1>2, <1>3, <1>4

-----------------------------------------------------------------------------
\* The inductive invariant

WholeFile == Len(file) = 4 + 2 * Len(Data)

IInv == /\ Types
        /\ stage = "closed" /\ Standard => WholeFile
        /\ stage # "write" /\ Standard => FileAgrees
        /\ Standard => ReadAgrees
        /\ ImagesThatFitLoad

LEMMA Initially == Init => IInv
<1>1. SUFFICES ASSUME Init PROVE IInv
  OBVIOUS
<1>2. Types
  BY <1>1 DEF Init, Types
<1>3. stage = "write"
  BY <1>1 DEF Init
<1>4. QED
  BY <1>2, <1>3 DEF IInv, ReadAgrees, ImagesThatFitLoad

LEMMA WriteAgrees ==
  ASSUME Types, write_lmcx_file
  PROVE  Types' /\ (Standard => FileAgrees' /\ WholeFile')
<1> DEFINE version == Bytes(writer, <<descriptor.ext_version>>)
           data == Bytes(writer, Data)
<1>1. UNCHANGED <<writer, descriptor>>
  BY DEF write_lmcx_file
<1>2. Data \in Seq(Word) /\ Len(Data) \in Nat /\ Data' = Data
  BY <1>1, DataIsWords DEF Data
<1>3. writer \in Hosts
  BY DEF Types
<1>4. /\ data \in Seq(Byte) /\ Len(data) = 2 * Len(Data)
      /\ \A k \in 1 .. 2 * Len(Data) : data[k] = FileByte(k)
  BY <1>2, <1>3, BytesOfWords DEF FileByte
<1>5. version \in Seq(Byte)
  <2>1. descriptor.ext_version \in Word
    BY VersionsAssumption DEF Types
  <2>2. <<descriptor.ext_version>> \in Seq(Word)
    BY <2>1
  <2>3. QED
    BY <1>3, <2>2, BytesOfWords
<1>6. file' = (IF descriptor.ext_version # 0 THEN MAGIC_STRING_LMC_EXTENDED \o version
               ELSE MAGIC_STRING_LMC) \o data
  BY DEF write_lmcx_file, Data
<1> HIDE DEF version, data
<1>7. Types'
  <2>1. file' \in Seq(Byte)
    BY <1>4, <1>5, <1>6, Magic
  <2>2. QED
    BY <1>1, <2>1 DEF Types
<1>8. ASSUME Standard PROVE FileAgrees' /\ WholeFile'
  <2>1. file' = MAGIC_STRING_LMC \o data
    BY <1>6, <1>8 DEF Standard
  <2>2. /\ \A i \in 1 .. 4 : file'[i] = MAGIC_STRING_LMC[i]
        /\ \A k \in 1 .. Len(data) : file'[4 + k] = data[k]
        /\ Len(file') = 4 + Len(data)
    <3>1. MAGIC_STRING_LMC \in Seq(Byte) /\ data \in Seq(Byte)
      BY <1>4, Magic
    <3>2. /\ Len(MAGIC_STRING_LMC \o data) = Len(MAGIC_STRING_LMC) + Len(data)
          /\ \A i \in 1 .. Len(MAGIC_STRING_LMC) :
               (MAGIC_STRING_LMC \o data)[i] = MAGIC_STRING_LMC[i]
          /\ \A k \in 1 .. Len(data) :
               (MAGIC_STRING_LMC \o data)[Len(MAGIC_STRING_LMC) + k] = data[k]
      BY <3>1, Concatenated
    <3>3. Len(MAGIC_STRING_LMC) = 4
      BY Magic
    <3>4. QED
      BY <2>1, <3>2, <3>3
  <2>3. \A k \in 1 .. 2 * Len(Data) : file'[4 + k] = data[k]
    BY <1>4, <2>2
  <2>4. \A k : FileByte(k)' = FileByte(k)
    BY <1>2 DEF FileByte
  <2>5. \A k \in 1 .. 2 * Len(Data) : file'[4 + k] = FileByte(k)'
    BY <1>4, <2>3, <2>4
  <2>6. FileAgrees'
    BY <1>2, <2>2, <2>5 DEF FileAgrees
  <2>7. QED
    BY <1>2, <1>4, <2>2, <2>6 DEF WholeFile
<1>9. QED
  BY <1>7, <1>8

LEMMA DamageAgrees ==
  ASSUME Types, Damage
  PROVE  Types' /\ (FileAgrees /\ WholeFile => FileAgrees')
<1>1. UNCHANGED <<writer, descriptor>> /\ Data' = Data /\ \A k : FileByte(k)' = FileByte(k)
  BY DEF Damage, Data, FileByte
<1>2. file \in Seq(Byte) /\ Len(file) \in Nat /\ Len(Data) \in Nat
  BY DataIsWords DEF Types
<1>3. ASSUME file' \in Seq(Byte),
             \A i \in 1 .. Len(file') : i <= Len(file) => file'[i] = file[i],
             WholeFile => Len(file) = 4 + 2 * Len(Data)
      PROVE  Types' /\ (FileAgrees /\ WholeFile => FileAgrees')
  <2>1. Types'
    BY <1>1, <1>3 DEF Types
  <2>2. ASSUME FileAgrees, WholeFile PROVE FileAgrees'
    <3>1. Len(file) = 4 + 2 * Len(Data) /\ Len(file') \in Nat
      BY <1>3, <2>2
    <3>2. ASSUME NEW i \in 1 .. 4, i <= Len(file') PROVE file'[i] = MAGIC_STRING_LMC[i]
      BY <1>2, <1>3, <2>2, <3>1, <3>2 DEF FileAgrees
    <3>3. ASSUME NEW k \in 1 .. 2 * Len(Data), 4 + k <= Len(file')
          PROVE  file'[4 + k] = FileByte(k)
      <4>1. 4 + k \in 1 .. Len(file') /\ 4 + k <= Len(file)
        BY <1>2, <3>1, <3>3
      <4>2. file[4 + k] = FileByte(k)
        BY <2>2, <4>1 DEF FileAgrees
      <4>3. QED
        BY <1>3, <4>1, <4>2
    <3>4. QED
      BY <1>1, <3>2, <3>3 DEF FileAgrees
  <2>3. QED
    BY <2>1, <2>2
<1>4. CASE \E n \in 0 .. Len(file) : file' = SubSeq(file, 1, n)
  <2>1. PICK n \in 0 .. Len(file) : file' = SubSeq(file, 1, n)
    BY <1>4
  <2>2. file' \in Seq(Byte) /\ \A i \in 1 .. Len(file') : file'[i] = file[i]
    BY <1>2, <2>1
  <2>3. QED
    BY <1>3, <2>2 DEF WholeFile
<1>5. CASE \E bytes \in Junk : file' = file \o bytes
  <2>1. PICK bytes \in Junk : file' = file \o bytes
    BY <1>5
  <2>2. bytes \in Seq(Byte)
    BY JunkAssumption
  <2>3. file' \in Seq(Byte) /\ \A i \in 1 .. Len(file) : file'[i] = file[i]
    BY <1>2, <2>1, <2>2, Concatenated
  <2>4. \A i \in 1 .. Len(file') : i <= Len(file) => file'[i] = file[i]
    BY <1>2, <2>3
  <2>5. QED
    BY <1>3, <2>3, <2>4 DEF WholeFile
<1>6. QED
  BY <1>4, <1>5 DEF Damage

\* A standard file that is long enough has the standard magic string and not
\* the extended one.
LEMMA StandardMagic ==
  ASSUME Types, FileAgrees, Len(file) >= 10
  PROVE  Matches(MAGIC_STRING_LMC) /\ ~Matches(MAGIC_STRING_LMC_EXTENDED)
<1>1. file \in Seq(Byte) /\ Len(file) \in Nat
  BY DEF Types
<1>2. IsPrefix(MAGIC_STRING_LMC, file)
  <2>1. \A i \in 1 .. 4 : file[i] = MAGIC_STRING_LMC[i]
    BY <1>1 DEF FileAgrees
  <2>2. MAGIC_STRING_LMC \in Seq(Byte) /\ Len(MAGIC_STRING_LMC) = 4
    BY Magic
  <2>3. /\ Len(MAGIC_STRING_LMC) <= Len(file)
        /\ \A i \in 1 .. Len(MAGIC_STRING_LMC) : MAGIC_STRING_LMC[i] = file[i]
    BY <1>1, <2>1, <2>2
  <2>4. QED
    BY <1>1, <2>2, <2>3, PrefixByElements
<1>3. ASSUME IsPrefix(MAGIC_STRING_LMC_EXTENDED, file) PROVE FALSE
  <2>1. file[6] = 69
    <3>1. MAGIC_STRING_LMC_EXTENDED \in Seq(Byte)
      BY Magic
    <3>2. \A i \in 1 .. Len(MAGIC_STRING_LMC_EXTENDED) : MAGIC_STRING_LMC_EXTENDED[i] = file[i]
      BY <1>1, <1>3, <3>1, ElementsOfPrefix
    <3>3. Len(MAGIC_STRING_LMC_EXTENDED) = 10 /\ MAGIC_STRING_LMC_EXTENDED[6] = 69
      BY Magic
    <3>4. QED
      BY <3>2, <3>3
  <2>2. Data \in Seq(Decimal) /\ Len(Data) \in Nat /\ Len(Data) >= 1
    BY DataIsWords
  <2>3. Data[1] \in Decimal
    BY <2>2
  <2>4. file[4 + 2] = FileByte(2)
    BY <1>1, <2>2 DEF FileAgrees
  <2>5. FileByte(2 * 1) = High(Data[1])
    BY BytesOfWord
  <2>6. QED
    BY <2>1, <2>3, <2>4, <2>5, HighOfDecimal
<1>4. QED
  BY <1>2, <1>3, Magic DEF Matches

LEMMA Inductive == IInv /\ [Next]_vars => IInv'
<1> SUFFICES ASSUME IInv, [Next]_vars PROVE IInv'
  OBVIOUS
<1>1. Types /\ ImagesThatFitLoad
  BY DEF IInv
<1>2. file \in Seq(Byte) /\ Len(file) \in Nat
  BY <1>1 DEF Types
<1>3. ASSUME UNCHANGED <<writer, reader, descriptor, file>>, stage # "write", stage' # "closed",
             Standard => ReadAgrees',
             stage' = "refused" /\ Standard => ImagesThatFitLoad'
      PROVE  IInv'
  <2>1. Types'
    BY <1>1, <1>3 DEF Types
  <2>2. Standard' <=> Standard
    BY <1>3 DEF Standard
  <2>3. Standard => FileAgrees'
    <3>1. \A k : FileByte(k)' = FileByte(k)
      BY <1>3 DEF FileByte, Data
    <3>2. QED
      BY <1>3, <3>1 DEF IInv, FileAgrees, Data
  <2>4. QED
    BY <1>3, <2>1, <2>2, <2>3 DEF IInv, ImagesThatFitLoad
<1>4. CASE write_lmcx_file
  <2>1. Types' /\ (Standard => FileAgrees' /\ WholeFile')
    BY <1>1, <1>4, WriteAgrees
  <2>2. stage' = "closed" /\ descriptor' = descriptor
    BY <1>4 DEF write_lmcx_file
  <2>3. QED
    BY <2>1, <2>2 DEF IInv, ReadAgrees, ImagesThatFitLoad, Standard
<1>5. CASE Damage
  <2>1. Types' /\ (FileAgrees /\ WholeFile => FileAgrees')
    BY <1>1, <1>5, DamageAgrees
  <2>2. stage = "closed" /\ stage' = "damaged" /\ descriptor' = descriptor
    BY <1>5 DEF Damage
  <2>3. QED
    BY <2>1, <2>2 DEF IInv, ReadAgrees, ImagesThatFitLoad, Standard
<1>6. CASE ReadMagic
  <2>1. /\ UNCHANGED <<writer, reader, descriptor, file>>
        /\ stage # "write" /\ stage' # "closed" /\ stage' \notin {"check", "loaded"}
    BY <1>6 DEF ReadMagic, Refuse
  <2>2. ASSUME Standard, Len(file) >= 10 PROVE stage' = "data" /\ position' = 4
    <3>1. FileAgrees
      BY <2>1, <2>2 DEF IInv
    <3>2. Matches(MAGIC_STRING_LMC) /\ ~Matches(MAGIC_STRING_LMC_EXTENDED)
      BY <1>1, <2>2, <3>1, StandardMagic
    <3>3. QED
      BY <1>6, <3>2, Magic DEF ReadMagic
  <2>3. ASSUME ~(Len(file) >= 10) PROVE stage' = "refused"
    BY <1>6, <2>3, Magic DEF ReadMagic, Matches, Refuse
  <2>4. Standard => ReadAgrees'
    BY <1>2, <2>1, <2>2, <2>3 DEF ReadAgrees
  <2>5. stage' = "refused" /\ Standard => ImagesThatFitLoad'
    <3>1. stage' = "refused" /\ Standard => Len(file') < Len(MAGIC_STRING_LMC_EXTENDED)
      BY <1>2, <2>1, <2>2, <2>3, Magic
    <3>2. QED
      BY <3>1 DEF ImagesThatFitLoad
  <2>6. QED
    BY <1>3, <2>1, <2>4, <2>5
<1>7. CASE ReadVersion
  <2>1. /\ UNCHANGED <<writer, reader, descriptor, file>>
        /\ stage = "version" /\ stage' = "refused"
    BY <1>7 DEF ReadVersion, Refuse
  <2>2. ~Standard
    BY <2>1 DEF IInv, ReadAgrees
  <2>3. QED
    BY <1>3, <2>1, <2>2
<1>8. CASE ReadData
  <2>1. /\ UNCHANGED <<writer, reader, descriptor, file>>
        /\ stage = "data" /\ stage' = "check"
    BY <1>8 DEF ReadData
  <2>2. ASSUME Standard PROVE ReadAgrees'
    <3>1. position = 4 /\ Len(file) >= 10
      BY <2>1, <2>2 DEF IInv, ReadAgrees
    <3>2. result' = [data |-> [i \in 1 .. (Len(file) - 4) \div 2 |->
                                FromMemory(reader, file[4 + (2 * i - 1)], file[4 + 2 * i])],
                     data_size |-> Len(file) - 4, ext_version |-> 0]
      BY <1>8, <3>1 DEF ReadData, DataAt, remaining_file_size
    <3>3. \A b1, b2 : FromMemory(reader, b1, b2)' = FromMemory(reader, b1, b2)
      BY <2>1 DEF FromMemory
    <3>4. QED
      BY <2>1, <3>1, <3>2, <3>3 DEF ReadAgrees
  <2>3. QED
    BY <1>3, <2>1, <2>2
<1>9. CASE CheckImage
  <2>1. /\ UNCHANGED <<writer, reader, descriptor, file, position, result>>
        /\ stage = "check" /\ stage' \in {"refused", "loaded"}
    BY <1>9 DEF CheckImage
  <2>2. Standard => ReadAgrees
    BY DEF IInv
  <2>3. Standard => ReadAgrees'
    BY <2>1, <2>2 DEF ReadAgrees, FromMemory
  <2>4. ASSUME Standard, stage' = "refused" PROVE ImagesThatFitLoad'
    <3>1. result.data_size = Len(file) - 4 /\ result.ext_version = 0
      BY <2>1, <2>2, <2>4 DEF ReadAgrees
    <3>2. (Len(file) - 4) \div 2 > EXECUTABLE_SIZE
      BY <1>9, <2>4, <3>1, SizeAssumption DEF CheckImage, TooLarge
    <3>3. Len(file) - 4 >= 2 * (EXECUTABLE_SIZE + 1)
      BY <1>2, <3>2, SizeAssumption
    <3>4. QED
      BY <2>1, <3>3, Magic DEF ImagesThatFitLoad
  <2>5. QED
    BY <1>3, <2>1, <2>3, <2>4
<1>10. CASE UNCHANGED vars
  <2>1. UNCHANGED <<writer, reader, descriptor, file, position, result, stage>>
    BY <1>10 DEF vars
  <2>2. QED
    BY <2>1 DEF IInv, Types, WholeFile, FileAgrees, ReadAgrees, ImagesThatFitLoad, Standard,
                Data, FileByte, FromMemory
<1>11. QED
  BY <1>4, <1>5, <1>6, <1>7, <1>8, <1>9, <1>10 DEF Next, Ended

-----------------------------------------------------------------------------
\* Theorems

\* What a little endian host loads from a standard file agrees with the words
\* that were written.
LEMMA LoadedAgrees == IInv => LoadedIsWritten
<1>1. SUFFICES ASSUME IInv, stage = "loaded", Standard, reader = "little"
               PROVE  IsPrefix(result.data, Data) \/ IsPrefix(Data, result.data)
  BY DEF LoadedIsWritten, Data
<1> DEFINE n == (Len(file) - 4) \div 2
           read == result.data
<1>2. /\ Types /\ FileAgrees /\ Len(file) >= 10
      /\ read = [i \in 1 .. n |-> FromMemory(reader, file[4 + (2 * i - 1)], file[4 + 2 * i])]
  BY <1>1 DEF IInv, ReadAgrees
<1>3. file \in Seq(Byte) /\ Len(file) \in Nat /\ n \in Nat /\ 4 + 2 * n <= Len(file)
  BY <1>2 DEF Types
<1>4. Data \in Seq(Word) /\ Len(Data) \in Nat
  BY <1>2, DataIsWords
<1> HIDE DEF n, read
<1>5. ASSUME NEW i \in 1 .. n, i <= Len(Data) PROVE read[i] = Data[i]
  <2>1. i \in Nat \ {0} /\ 2 * i - 1 \in 1 .. 2 * Len(Data) /\ 2 * i \in 1 .. 2 * Len(Data)
    BY <1>3, <1>4, <1>5
  <2>2. 4 + (2 * i - 1) <= Len(file) /\ 4 + 2 * i <= Len(file)
    BY <1>3
  <2>3. file[4 + (2 * i - 1)] = FileByte(2 * i - 1) /\ file[4 + 2 * i] = FileByte(2 * i)
    BY <1>2, <2>1, <2>2 DEF FileAgrees
  <2>4. FileByte(2 * i - 1) = Low(Data[i]) /\ FileByte(2 * i) = High(Data[i])
    BY <2>1, BytesOfWord
  <2>5. read[i] = Join(Low(Data[i]), High(Data[i]))
    BY <1>1, <1>2, <2>3, <2>4 DEF FromMemory
  <2>6. Data[i] \in Word
    BY <1>4, <1>5
  <2>7. QED
    BY <2>5, <2>6, JoinBack
<1> DEFINE S == Word \cup {read[i] : i \in 1 .. n}
<1>6. read \in Seq(S) /\ Len(read) = n
  <2>1. \A i \in 1 .. n : read[i] \in S
    OBVIOUS
  <2>2. read = [i \in 1 .. n |-> read[i]]
    BY <1>2
  <2> HIDE DEF S
  <2>3. QED
    BY <1>3, <2>1, <2>2
<1>7. Data \in Seq(S)
  <2>1. Word \subseteq S
    OBVIOUS
  <2> HIDE DEF S
  <2>2. QED
    BY <1>4, <2>1
<1> HIDE DEF S
<1>8. CASE n <= Len(Data)
  <2>1. Len(read) <= Len(Data) /\ \A i \in 1 .. Len(read) : read[i] = Data[i]
    BY <1>3, <1>4, <1>5, <1>6, <1>8
  <2>2. IsPrefix(read, Data)
    BY <1>6, <1>7, <2>1, PrefixByElements
  <2>3. QED
    BY <2>2 DEF read
<1>9. CASE Len(Data) <= n
  <2>1. Len(Data) <= Len(read) /\ \A i \in 1 .. Len(Data) : Data[i] = read[i]
    BY <1>3, <1>4, <1>5, <1>6, <1>9
  <2>2. IsPrefix(Data, read)
    BY <1>6, <1>7, <2>1, PrefixByElements
  <2>3. QED
    BY <2>2 DEF read
<1>10. QED
  BY <1>3, <1>4, <1>8, <1>9

\* A standard file read by a little endian host never gives a word that was not
\* written in its place, wherever the file was written and however it was cut
\* or lengthened (write_lmcx_file, read_lmcx_file).
THEOREM WordsSurvive == Spec => []LoadedIsWritten
<1>1. QED
  BY Initially, Inductive, LoadedAgrees, PTL DEF Spec

\* A standard file that fits memory is loaded (main: the two refusals).
THEOREM FittingImagesLoad == Spec => []ImagesThatFitLoad
<1>1. IInv => ImagesThatFitLoad
  BY DEF IInv
<1>2. QED
  BY <1>1, Initially, Inductive, PTL DEF Spec

-----------------------------------------------------------------------------
\* Types.  The stream is within the file: it has not moved until the file is
\* no longer changed, and then no further than the magic string that is there.

TInv == /\ TypeOK
        /\ stage \in {"write", "closed", "damaged"} => position = 0

LEMMA WordsRead ==
  ASSUME NEW host \in Hosts, NEW b1 \in Byte, NEW b2 \in Byte
  PROVE  FromMemory(host, b1, b2) \in Word
<1>1. ASSUME NEW l \in Byte, NEW h \in Byte PROVE Join(l, h) \in Word
  <2>1. l \in Nat /\ l <= 255 /\ h \in Nat /\ h <= 255
    BY ByteNat
  <2> DEFINE w == l + 256 * h
  <2>2. w \in Nat /\ w <= 65535
    BY <2>1
  <2>3. w \in Word
    BY <2>2, NatWord
  <2>4. QED
    BY <2>3 DEF Join, w
<1>2. QED
  BY <1>1 DEF FromMemory

LEMMA ReadDataTypes == TInv /\ ReadData => TInv'
<1>1. SUFFICES ASSUME TInv, ReadData PROVE TInv'
  OBVIOUS
<1>2. /\ file \in Seq(Byte) /\ Len(file) \in Nat /\ position \in 0 .. Len(file)
      /\ reader \in Hosts
  BY <1>1 DEF TInv, TypeOK
<1> DEFINE n == remaining_file_size \div 2
           read == [i \in 1 .. n |-> FromMemory(reader, file[DataAt(2 * i - 1)],
                                                        file[DataAt(2 * i)])]
<1>3. remaining_file_size \in Nat /\ n \in Nat /\ position + 2 * n <= Len(file)
  BY <1>2 DEF remaining_file_size
<1>4. ASSUME NEW i \in 1 .. n
      PROVE  FromMemory(reader, file[DataAt(2 * i - 1)], file[DataAt(2 * i)]) \in Word
  <2> HIDE DEF n
  <2>1. DataAt(2 * i - 1) \in 1 .. Len(file) /\ DataAt(2 * i) \in 1 .. Len(file)
    BY <1>2, <1>3 DEF DataAt
  <2>2. file[DataAt(2 * i - 1)] \in Byte /\ file[DataAt(2 * i)] \in Byte
    BY <1>2, <2>1
  <2>3. QED
    BY <1>2, <2>2, WordsRead
<1>5. read \in Seq(Word)
  <2> HIDE DEF n
  <2>1. read \in [1 .. n -> Word]
    BY <1>4
  <2> HIDE DEF read
  <2>2. QED
    BY <1>3, <2>1
<1>6. result' = [data |-> read, data_size |-> remaining_file_size, ext_version |-> 0]
  BY <1>1 DEF ReadData
<1>7. /\ stage' = "check"
      /\ UNCHANGED <<writer, reader, descriptor, file, position>>
  BY <1>1 DEF ReadData
<1> HIDE DEF read, n
<1>8. result' \in [data : Seq(Word), data_size : Nat, ext_version : {0}]
  BY <1>3, <1>5, <1>6
<1>9. QED
  BY <1>1, <1>7, <1>8 DEF TInv, TypeOK

LEMMA InductiveTypes == TInv /\ [Next]_vars => TInv'
<1> SUFFICES ASSUME TInv, [Next]_vars PROVE TInv'
  OBVIOUS
<1>1. /\ Types /\ file \in Seq(Byte) /\ Len(file) \in Nat /\ position \in 0 .. Len(file)
  BY DEF TInv, TypeOK, Types
<1>2. CASE write_lmcx_file \/ Damage
  <2>1. Types' /\ stage' \in {"closed", "damaged"} /\ position = 0
        /\ UNCHANGED <<reader, position, result>>
    BY <1>1, <1>2, WriteAgrees, DamageAgrees DEF write_lmcx_file, Damage, TInv
  <2>2. Len(file') \in Nat
    BY <2>1 DEF Types
  <2>3. QED
    BY <2>1, <2>2 DEF TInv, TypeOK, Types
<1>3. CASE ReadMagic
  <2>1. /\ UNCHANGED <<writer, reader, descriptor, file, result>>
        /\ stage' \in {"refused", "version", "data"}
    BY <1>3 DEF ReadMagic, Refuse
  <2>2. position' \in 0 .. Len(file)
    BY <1>1, <1>3, Magic DEF ReadMagic, Refuse, Matches
  <2>3. QED
    BY <2>1, <2>2 DEF TInv, TypeOK
<1>4. CASE ReadData
  BY <1>4, ReadDataTypes
<1>5. CASE ReadVersion \/ CheckImage
  BY <1>5 DEF ReadVersion, Refuse, CheckImage, TInv, TypeOK
<1>6. CASE UNCHANGED vars
  BY <1>6 DEF vars, TInv, TypeOK
<1>7. QED
  BY <1>2, <1>3, <1>4, <1>5, <1>6 DEF Next, Ended

\* A file is bytes and what is read of it words, with the stream never behind
\* its end (read_lmcx_file).
THEOREM TypesOK == Spec => []TypeOK
<1>1. Init => TInv
  BY DEF Init, TInv, TypeOK
<1>2. TInv => TypeOK
  BY DEF TInv
<1>3. QED
  BY <1>1, <1>2, InductiveTypes, PTL DEF Spec
=============================================================================
