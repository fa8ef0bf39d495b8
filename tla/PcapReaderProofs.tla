--------------------------- MODULE PcapReaderProofs ---------------------------
(***************************************************************************)
(* Proofs about PcapReader, for all files and every size of packets and of *)
(* what is skipped: headers read 4 bytes late still give each packet of a  *)
(* legal size once and in order, and cut files at most one packet more.    *)
(***************************************************************************)
EXTENDS PcapReader, WellFoundedInduction, TLAPS

-----------------------------------------------------------------------------
(* Sequences put together *)

\* A set of natural numbers has a least one.
LEMMA Least ==
    ASSUME NEW S \in SUBSET Nat, S # {}
    PROVE  \E x \in S : \A y \in S : x <= y
<1>1. PICK x \in S : \A y \in S : ~ (<<y, x>> \in OpToRel(<, Nat))
  BY NatLessThanWellFounded, WFMin
<1>2. ASSUME NEW y \in S
      PROVE  x <= y
  <2>1. y < x => <<y, x>> \in OpToRel(<, Nat)
    BY DEF OpToRel
  <2>2. ~(y < x)
    BY <1>1, <2>1, Zenon
  <2>3. QED
    BY <2>2
<1>3. QED
  BY <1>2

\* f is the recursive function in FlattenSeq().
IsFlattening(f, seqs, len) ==
    f = [i \in 1 .. len |-> IF i = 1 THEN seqs[i] ELSE f[i - 1] \o seqs[i]]

\* The recursive function of FlattenSeq exists.
LEMMA FlatteningExists ==
    ASSUME NEW seqs, NEW len \in Nat
    PROVE  \E f : IsFlattening(f, seqs, len)
<1> DEFINE Missing == {m \in Nat : ~ \E f : IsFlattening(f, seqs, m)}
<1>1. SUFFICES ASSUME Missing # {} PROVE FALSE
  OBVIOUS
<1>2. PICK m \in Missing : \A k \in Missing : m <= k
  BY <1>1, Least
<1>3. CASE m = 0
  <2>1. IsFlattening([i \in 1 .. 0 |-> 0], seqs, 0)
    BY DEF IsFlattening
  <2>2. QED
    BY <1>3, <2>1
<1>4. CASE m # 0
  <2>1. m - 1 \in Nat /\ m - 1 \notin Missing
    BY <1>2, <1>4
  <2>2. PICK f : IsFlattening(f, seqs, m - 1)
    BY <2>1
  <2> DEFINE last == IF m = 1 THEN seqs[m] ELSE f[m - 1] \o seqs[m]
             g == [i \in 1 .. m |-> IF i = m THEN last ELSE f[i]]
  <2>3. ASSUME NEW i \in 1 .. m
        PROVE  g[i] = IF i = 1 THEN seqs[i] ELSE g[i - 1] \o seqs[i]
    <3>1. CASE i = m
      <4>1. g[i] = last
        BY <3>1
      <4>2. i # 1 => g[i - 1] = f[m - 1]
        BY <2>1, <3>1
      <4>3. QED
        BY <3>1, <4>1, <4>2
    <3>2. CASE i # m
      <4>1. i \in 1 .. m - 1
        BY <2>1, <3>2
      <4>2. f[i] = IF i = 1 THEN seqs[i] ELSE f[i - 1] \o seqs[i]
        BY <2>2, <4>1 DEF IsFlattening
      <4>3. g[i] = f[i] /\ (i # 1 => g[i - 1] = f[i - 1])
        BY <2>1, <3>2
      <4>4. QED
        BY <4>2, <4>3
    <3>3. QED
      BY <3>1, <3>2
  <2>4. IsFlattening(g, seqs, m)
    BY <2>3 DEF IsFlattening
  <2>5. QED
    BY <2>4
<1>5. QED
  BY <1>2, <1>3, <1>4

\* u is s, of length m, and behind it t, of length n.
IsJoined(u, s, m, t, n) ==
    /\ Len(u) = m + n
    /\ \A j \in 1 .. m : u[j] = s[j]
    /\ \A j \in 1 .. n : u[m + j] = t[j]

\* One sequence behind another
LEMMA Joined ==
    ASSUME NEW S, NEW s \in Seq(S), NEW t \in Seq(S)
    PROVE  /\ s \o t \in Seq(S)
           /\ Len(s) \in Nat /\ Len(t) \in Nat
           /\ IsJoined(s \o t, s, Len(s), t, Len(t))
<1>1. /\ s \o t \in Seq(S) /\ Len(s) \in Nat /\ Len(t) \in Nat
      /\ Len(s \o t) = Len(s) + Len(t)
  OBVIOUS
<1>2. ASSUME NEW j \in 1 .. Len(s)
      PROVE  (s \o t)[j] = s[j]
  OBVIOUS
<1>3. ASSUME NEW j \in 1 .. Len(t)
      PROVE  (s \o t)[Len(s) + j] = t[j]
  OBVIOUS
<1>4. QED
  BY <1>1, <1>2, <1>3 DEF IsJoined

\* p[k] is the first k of the sequences put together.
IsPrefixes(p, seqs, S) ==
    /\ p \in [0 .. Len(seqs) -> Seq(S)]
    /\ p[0] = <<>>
    /\ \A k \in 1 .. Len(seqs) : p[k] = p[k - 1] \o seqs[k]

\* FlattenSeq() puts one sequence after the other.
LEMMA FlattenByPrefixes ==
    ASSUME NEW S, NEW seqs \in Seq(Seq(S))
    PROVE  \E p : IsPrefixes(p, seqs, S) /\ FlattenSeq(seqs) = p[Len(seqs)]
<1> DEFINE n == Len(seqs)
           F == CHOOSE f : IsFlattening(f, seqs, n)
           p == [k \in 0 .. n |-> IF k = 0 THEN <<>> ELSE F[k]]
<1>1. n \in Nat /\ \A k \in 1 .. n : seqs[k] \in Seq(S)
  OBVIOUS
<1>2. IsFlattening(F, seqs, n)
  BY <1>1, FlatteningExists
<1>3. \A k \in 1 .. n : F[k] = IF k = 1 THEN seqs[k] ELSE F[k - 1] \o seqs[k]
  BY <1>2 DEF IsFlattening
<1>4. FlattenSeq(seqs) = IF n = 0 THEN seqs ELSE F[n]
  BY DEF FlattenSeq, IsFlattening
<1> HIDE DEF F
<1>5. ASSUME NEW k \in 1 .. n
      PROVE  p[k] = p[k - 1] \o seqs[k]
  <2>1. CASE k = 1
    <3>1. p[k] = seqs[k] /\ p[k - 1] = <<>>
      BY <1>3, <2>1
    <3>2. <<>> \o seqs[k] = seqs[k]
      BY <1>1
    <3>3. QED
      BY <3>1, <3>2
  <2>2. CASE k # 1
    <3>1. p[k] = F[k] /\ p[k - 1] = F[k - 1]
      BY <2>2
    <3>2. QED
      BY <1>3, <2>2, <3>1
  <2>3. QED
    BY <2>1, <2>2
<1>6. p[0] = <<>>
  BY <1>1
<1>7. FlattenSeq(seqs) = p[n]
  <2>1. CASE n = 0
    <3>1. seqs = <<>>
      BY <2>1
    <3>2. QED
      BY <1>4, <1>6, <2>1, <3>1
  <2>2. CASE n # 0
    BY <1>1, <1>4, <2>2
  <2>3. QED
    BY <2>1, <2>2
<1> DEFINE Bad == {k \in 0 .. n : p[k] \notin Seq(S)}
<1> HIDE DEF p, n
<1>8. ASSUME Bad # {}
      PROVE  FALSE
  <2>1. PICK k \in Bad : \A j \in Bad : k <= j
    <3>1. Bad \in SUBSET Nat
      BY <1>1
    <3>2. QED
      BY <1>8, <3>1, Least
  <2>2. k # 0
    <3>1. p[0] \in Seq(S)
      BY <1>6
    <3>2. QED
      BY <2>1, <3>1
  <2>3. k \in 1 .. n /\ k - 1 \in 0 .. n /\ k - 1 < k
    BY <1>1, <2>2
  <2>4. p[k - 1] \in Seq(S)
    BY <2>1, <2>3
  <2>5. p[k] \in Seq(S)
    <3>1. seqs[k] \in Seq(S) /\ p[k] = p[k - 1] \o seqs[k]
      BY <1>1, <1>5, <2>3
    <3>2. QED
      BY <2>4, <3>1, Joined
  <2>6. QED
    BY <2>5
<1>9. p \in [0 .. n -> Seq(S)]
  BY <1>8 DEF p
<1>10. IsPrefixes(p, seqs, S)
  BY <1>5, <1>6, <1>9 DEF IsPrefixes, n
<1>11. QED
  BY <1>7, <1>10 DEF n

\* What has been put together stays at its place.
LEMMA PrefixesStay ==
    ASSUME NEW S, NEW seqs \in Seq(Seq(S)), NEW p, IsPrefixes(p, seqs, S),
           NEW from \in 0 .. Len(seqs), NEW to \in from .. Len(seqs)
    PROVE  /\ Len(p[from]) <= Len(p[to])
           /\ \A j \in 1 .. Len(p[from]) : p[to][j] = p[from][j]
<1> DEFINE n == Len(seqs)
           Stays(k) == /\ Len(p[from]) <= Len(p[k])
                       /\ \A j \in 1 .. Len(p[from]) : p[k][j] = p[from][j]
           Bad == {k \in from .. n : ~Stays(k)}
<1>1. n \in Nat /\ \A k \in 1 .. n : seqs[k] \in Seq(S)
  OBVIOUS
<1>2. /\ \A k \in 0 .. n : p[k] \in Seq(S)
      /\ \A k \in 1 .. n : p[k] = p[k - 1] \o seqs[k]
  BY DEF IsPrefixes
<1>3. Stays(from)
  BY <1>2
<1>4. ASSUME NEW k \in from .. n, k # from, Stays(k - 1)
      PROVE  Stays(k)
  <2>1. k \in 1 .. n /\ k - 1 \in 0 .. n
    BY <1>4
  <2>2. /\ p[k - 1] \in Seq(S) /\ seqs[k] \in Seq(S) /\ p[k] = p[k - 1] \o seqs[k]
        /\ p[from] \in Seq(S)
    BY <1>1, <1>2, <2>1
  <2>3. /\ Len(p[k - 1]) \in Nat /\ Len(seqs[k]) \in Nat
        /\ Len(p[k]) = Len(p[k - 1]) + Len(seqs[k])
        /\ \A j \in 1 .. Len(p[k - 1]) : p[k][j] = p[k - 1][j]
    <3> DEFINE a == p[k - 1]
               b == seqs[k]
               c == p[k]
    <3>1. a \in Seq(S) /\ b \in Seq(S) /\ c = a \o b
      BY <2>2
    <3> HIDE DEF a, b, c
    <3>2. Len(a) \in Nat /\ Len(b) \in Nat /\ IsJoined(c, a, Len(a), b, Len(b))
      BY <3>1, Joined
    <3>3. QED
      BY <3>2 DEF IsJoined, a, b, c
  <2>4. Len(p[from]) \in Nat /\ Len(p[from]) <= Len(p[k - 1])
    BY <1>4, <2>2
  <2>5. ASSUME NEW j \in 1 .. Len(p[from])
        PROVE  p[k][j] = p[from][j]
    <3>1. j \in 1 .. Len(p[k - 1])
      BY <2>3, <2>4
    <3>2. p[k][j] = p[k - 1][j]
      BY <2>3, <3>1
    <3>3. QED
      BY <1>4, <3>2
  <2>6. Len(p[from]) <= Len(p[k])
    <3> DEFINE a == Len(p[from])
               b == Len(p[k - 1])
               c == Len(p[k])
               d == Len(seqs[k])
    <3>1. a \in Nat /\ b \in Nat /\ d \in Nat /\ a <= b /\ c = b + d
      BY <2>3, <2>4
    <3> HIDE DEF a, b, c, d
    <3>2. a <= c
      BY <3>1
    <3>3. QED
      BY <3>2 DEF a, c
  <2>7. QED
    BY <2>5, <2>6
<1> HIDE DEF Stays, n
<1>5. ASSUME Bad # {}
      PROVE  FALSE
  <2>1. PICK k \in Bad : \A j \in Bad : k <= j
    <3>1. Bad \in SUBSET Nat
      BY <1>1
    <3>2. QED
      BY <1>5, <3>1, Least
  <2>2. k # from
    BY <1>3, <2>1
  <2>3. k - 1 \in from .. n /\ k - 1 < k
    BY <1>1, <2>2
  <2>4. Stays(k - 1)
    BY <2>1, <2>3
  <2>5. QED
    BY <1>4, <2>1, <2>2, <2>4
<1>6. Stays(to)
  BY <1>5 DEF n
<1>7. QED
  BY <1>6 DEF Stays

-----------------------------------------------------------------------------
(* The bytes of a file *)

AllFiles == (UNION {Range(list) : list \in FileLists}) \ {None}

AllRecords == UNION {Range(file.records) : file \in AllFiles}

\* What a byte is told apart by
Values == {0} \cup Lengths \cup {r.ts : r \in AllRecords} \cup {r.data : r \in AllRecords}

Names == {"header", "ts", "length", "data", "garbage"}

Datum == Names \X Values \X Nat

\* What the model assumes of each file
LEMMA EveryFile ==
    ASSUME NEW file \in AllFiles
    PROVE  IsFile(file)
<1>1. PICK list \in FileLists : file \in Range(list) /\ file # None
  BY DEF AllFiles
<1>2. \A f \in Range(list) \ {None} : IsFile(f)
  BY PcapReaderAssumption
<1>3. QED
  BY <1>1, <1>2

\* The records of a file
LEMMA FileRecords ==
    ASSUME NEW file \in AllFiles
    PROVE  /\ file.cut \in Nat
           /\ file.records \in Seq(AllRecords)
           /\ Len(file.records) \in Nat
           /\ DOMAIN file.records = 1 .. Len(file.records)
<1>1. IsFile(file)
  BY EveryFile
<1>2. Range(file.records) \subseteq AllRecords
  BY DEF AllRecords
<1>3. file.records \in Seq(AllRecords)
  BY <1>1, <1>2 DEF IsFile
<1>4. QED
  BY <1>1, <1>3 DEF IsFile

\* The fields of a record
LEMMA RecordFields ==
    ASSUME NEW r \in AllRecords
    PROVE  /\ r.incl \in Lengths /\ r.orig \in Lengths
           /\ r.incl \in Nat /\ r.orig \in Nat
           /\ r.ts \in Values /\ r.data \in Values
           /\ r.incl \in Values /\ r.orig \in Values
<1>1. PICK file \in AllFiles : r \in Range(file.records)
  BY DEF AllRecords
<1>2. IsFile(file)
  BY <1>1, EveryFile
<1>3. r.incl \in Lengths /\ r.orig \in Lengths
  BY <1>1, <1>2 DEF IsFile
<1>4. QED
  BY <1>3, PcapReaderAssumption DEF Values

\* A field is a sequence of bytes.
LEMMA FieldBytes ==
    ASSUME NEW name \in Names, NEW v \in Values, NEW size \in Nat
    PROVE  /\ Field(name, v, size) \in Seq(Datum)
           /\ Len(Field(name, v, size)) = size
           /\ \A j \in 1 .. size : Field(name, v, size)[j] = <<name, v, j>>
<1>1. \A j \in 1 .. size : <<name, v, j>> \in Datum
  BY DEF Datum
<1>2. Field(name, v, size) \in [1 .. size -> Datum]
  BY <1>1 DEF Field
<1>3. QED
  BY <1>2 DEF Field

\* Bytes that agree everywhere
LEMMA SameBytes ==
    ASSUME NEW s \in Seq(Datum), NEW t \in Seq(Datum), Len(s) = Len(t),
           \A j \in 1 .. Len(s) : s[j] = t[j]
    PROVE  s = t
  OBVIOUS

\* A record is 16 bytes of header, with the length on the wire at the end, and
\* the data.
LEMMA RecordLayout ==
    ASSUME NEW r \in AllRecords
    PROVE  /\ RecordBytes(r) \in Seq(Datum)
           /\ Len(RecordBytes(r)) = 16 + r.incl
           /\ \A j \in 1 .. 4 : RecordBytes(r)[12 + j] = <<"length", r.orig, j>>
           /\ \A j \in 1 .. r.incl : RecordBytes(r)[16 + j] = <<"data", r.data, j>>
<1> DEFINE ts == Field("ts", r.ts, 8)
           incl == Field("length", r.incl, 4)
           orig == Field("length", r.orig, 4)
           data == Field("data", r.data, r.incl)
           a == ts \o incl
           b == a \o orig
           c == b \o data
<1>1. /\ r.incl \in Nat /\ 4 \in Nat /\ 8 \in Nat
      /\ r.ts \in Values /\ r.incl \in Values /\ r.orig \in Values /\ r.data \in Values
      /\ "ts" \in Names /\ "length" \in Names /\ "data" \in Names
  BY RecordFields DEF Names
<1>2. ts \in Seq(Datum) /\ Len(ts) = 8
  BY <1>1, FieldBytes
<1>3. incl \in Seq(Datum) /\ Len(incl) = 4
  BY <1>1, FieldBytes
<1>4. orig \in Seq(Datum) /\ Len(orig) = 4 /\ \A j \in 1 .. 4 : orig[j] = <<"length", r.orig, j>>
  BY <1>1, FieldBytes
<1>5. /\ data \in Seq(Datum) /\ Len(data) = r.incl
      /\ \A j \in 1 .. r.incl : data[j] = <<"data", r.data, j>>
  BY <1>1, FieldBytes
<1>6. RecordBytes(r) = c
  BY DEF RecordBytes
<1>7. a = ts \o incl /\ b = a \o orig /\ c = b \o data
  OBVIOUS
<1> HIDE DEF ts, incl, orig, data, a, b, c
<1>8. a \in Seq(Datum) /\ Len(a) = 12
  <2>1. a \in Seq(Datum) /\ IsJoined(a, ts, 8, incl, 4)
    BY <1>2, <1>3, <1>7, Joined
  <2>2. QED
    BY <2>1 DEF IsJoined
<1>9. b \in Seq(Datum) /\ Len(b) = 16 /\ \A j \in 1 .. 4 : b[12 + j] = orig[j]
  <2>1. orig \in Seq(Datum) /\ Len(orig) = 4
    BY <1>4
  <2>2. b \in Seq(Datum) /\ IsJoined(b, a, 12, orig, 4)
    BY <1>7, <1>8, <2>1, Joined
  <2>3. QED
    BY <2>2 DEF IsJoined
<1>10. /\ c \in Seq(Datum) /\ Len(c) = 16 + r.incl
       /\ \A j \in 1 .. 16 : c[j] = b[j]
       /\ \A j \in 1 .. r.incl : c[16 + j] = data[j]
  <2>1. data \in Seq(Datum) /\ Len(data) = r.incl
    BY <1>5
  <2>2. b \in Seq(Datum) /\ Len(b) = 16
    BY <1>9
  <2>3. c \in Seq(Datum) /\ IsJoined(c, b, 16, data, r.incl)
    BY <1>7, <2>1, <2>2, Joined
  <2>4. QED
    BY <2>3 DEF IsJoined
<1>11. ASSUME NEW j \in 1 .. 4
       PROVE  c[12 + j] = <<"length", r.orig, j>>
  <2>1. 12 + j \in 1 .. 16
    OBVIOUS
  <2>2. c[12 + j] = b[12 + j]
    BY <1>10, <2>1
  <2>3. QED
    BY <1>4, <1>9, <2>2
<1>12. QED
  BY <1>5, <1>6, <1>10, <1>11

\* The file before its end is cut off
AllBytes(file) ==
    FlattenSeq(<<Field("header", 0, 24)>>
                 \o [k \in DOMAIN file.records |-> RecordBytes(file.records[k])])

\* start[k] bytes are before the k-th record; behind the last one is the end.
IsLayout(file, start) ==
    LET all == AllBytes(file)
        n == Len(file.records)
    IN  /\ all \in Seq(Datum)
        /\ start \in [1 .. n + 1 -> Nat]
        /\ start[1] = 24
        /\ Len(all) = start[n + 1]
        /\ \A k \in 1 .. n :
             LET r == file.records[k]
             IN  /\ start[k + 1] = start[k] + 16 + r.incl
                 /\ start[k + 1] <= Len(all)
                 /\ \A j \in 1 .. 4 : all[start[k] + 12 + j] = <<"length", r.orig, j>>
                 /\ \A j \in 1 .. r.incl : all[start[k] + 16 + j] = <<"data", r.data, j>>

\* Every file has such a layout.
LEMMA Layout ==
    ASSUME NEW file \in AllFiles
    PROVE  \E start : IsLayout(file, start)
<1> DEFINE all == AllBytes(file)
           R == file.records
           n == Len(file.records)
           recs == [k \in DOMAIN R |-> RecordBytes(R[k])]
           header == Field("header", 0, 24)
           seqs == <<header>> \o recs
<1>1. n \in Nat /\ DOMAIN R = 1 .. n /\ \A k \in 1 .. n : R[k] \in AllRecords
  BY FileRecords
<1>2. header \in Seq(Datum) /\ Len(header) = 24
  <2>1. 0 \in Values /\ 24 \in Nat /\ "header" \in Names
    BY DEF Values, Names
  <2>2. QED
    BY <2>1, FieldBytes
<1>3. recs \in Seq(Seq(Datum)) /\ Len(recs) = n /\ \A k \in 1 .. n : recs[k] = RecordBytes(R[k])
  <2>1. \A k \in 1 .. n : RecordBytes(R[k]) \in Seq(Datum)
    BY <1>1, RecordLayout
  <2>2. recs \in [1 .. n -> Seq(Datum)]
    BY <1>1, <2>1
  <2>3. QED
    BY <1>1, <2>2
<1> HIDE DEF recs, header
<1>4. /\ seqs \in Seq(Seq(Datum)) /\ Len(seqs) = n + 1 /\ seqs[1] = header
      /\ \A k \in 1 .. n : seqs[k + 1] = recs[k]
  <2> DEFINE first == <<header>>
  <2>1. first \in Seq(Seq(Datum)) /\ Len(first) = 1 /\ first[1] = header
    BY <1>2
  <2>2. seqs = first \o recs
    OBVIOUS
  <2> HIDE DEF first, seqs
  <2>3. /\ seqs \in Seq(Seq(Datum)) /\ Len(seqs) = 1 + n
        /\ \A j \in 1 .. 1 : seqs[j] = first[j]
        /\ \A j \in 1 .. n : seqs[1 + j] = recs[j]
    <3>1. recs \in Seq(Seq(Datum)) /\ Len(recs) = n
      BY <1>3
    <3>2. seqs \in Seq(Seq(Datum)) /\ IsJoined(seqs, first, 1, recs, n)
      BY <2>1, <2>2, <3>1, Joined
    <3>3. QED
      BY <3>2 DEF IsJoined
  <2>4. QED
    BY <1>1, <2>1, <2>3
<1>5. all = FlattenSeq(seqs)
  BY DEF AllBytes, recs, header
<1> HIDE DEF seqs
<1>6. PICK p : IsPrefixes(p, seqs, Datum) /\ FlattenSeq(seqs) = p[n + 1]
  BY <1>4, FlattenByPrefixes
<1>7. /\ \A k \in 0 .. n + 1 : p[k] \in Seq(Datum)
      /\ p[0] = <<>>
      /\ \A k \in 1 .. n + 1 : p[k] = p[k - 1] \o seqs[k]
  BY <1>4, <1>6 DEF IsPrefixes
<1> DEFINE start == [k \in 1 .. n + 1 |-> Len(p[k])]
<1>8. start \in [1 .. n + 1 -> Nat]
  BY <1>1, <1>7
<1>9. all \in Seq(Datum) /\ all = p[n + 1] /\ Len(all) = start[n + 1]
  BY <1>1, <1>5, <1>6, <1>7
<1>10. start[1] = 24
  <2>1. p[1] = <<>> \o header
    <3>1. 1 \in 1 .. n + 1 /\ 1 - 1 = 0
      BY <1>1
    <3>2. p[1] = p[0] \o seqs[1]
      BY <1>7, <3>1
    <3>3. QED
      BY <1>4, <1>7, <3>2
  <2>2. p[1] = header
    BY <1>2, <2>1
  <2>3. QED
    BY <1>1, <1>2, <2>2
<1> HIDE DEF all, n, R
<1>11. ASSUME NEW k \in 1 .. n
       PROVE  LET r == R[k]
              IN  /\ start[k + 1] = start[k] + 16 + r.incl
                  /\ start[k + 1] <= Len(all)
                  /\ \A j \in 1 .. 4 : all[start[k] + 12 + j] = <<"length", r.orig, j>>
                  /\ \A j \in 1 .. r.incl : all[start[k] + 16 + j] = <<"data", r.data, j>>
  <2> DEFINE r == R[k]
             a == p[k]
             b == RecordBytes(R[k])
             c == p[k + 1]
             la == Len(p[k])
  <2>1. k \in 0 .. n + 1 /\ k + 1 \in 1 .. n + 1 /\ k + 1 \in 0 .. n + 1 /\ (k + 1) - 1 = k
    BY <1>1
  <2>2. a \in Seq(Datum) /\ c = a \o b
    BY <1>3, <1>4, <1>7, <2>1
  <2>3. r \in AllRecords /\ r.incl \in Nat
    BY <1>1, RecordFields
  <2>4. /\ b \in Seq(Datum) /\ Len(b) = 16 + r.incl
        /\ \A j \in 1 .. 4 : b[12 + j] = <<"length", r.orig, j>>
        /\ \A j \in 1 .. r.incl : b[16 + j] = <<"data", r.data, j>>
    BY <2>3, RecordLayout
  <2>5. start[k] = la /\ start[k + 1] = Len(c) /\ la = Len(a)
    BY <1>1, <2>1
  <2>6. Len(c) <= Len(all) /\ \A j \in 1 .. Len(c) : all[j] = c[j]
    <3>1. k + 1 \in 0 .. Len(seqs) /\ n + 1 \in k + 1 .. Len(seqs)
      BY <1>1, <1>4, <2>1
    <3>2. seqs \in Seq(Seq(Datum)) /\ IsPrefixes(p, seqs, Datum)
      BY <1>4, <1>6
    <3>3. /\ Len(p[k + 1]) <= Len(p[n + 1])
          /\ \A j \in 1 .. Len(p[k + 1]) : p[n + 1][j] = p[k + 1][j]
      BY <3>1, <3>2, PrefixesStay, SMTT(20)
    <3>4. QED
      BY <1>9, <3>3
  <2> HIDE DEF r, a, b, c, la, start
  <2>7. /\ la \in Nat /\ Len(c) = la + 16 + r.incl
        /\ \A j \in 1 .. 16 + r.incl : c[la + j] = b[j]
    <3> DEFINE lb == 16 + r.incl
    <3>1. b \in Seq(Datum) /\ Len(b) = lb /\ Len(a) = la
      BY <2>4, <2>5
    <3> HIDE DEF lb
    <3>2. la \in Nat /\ IsJoined(c, a, la, b, lb)
      BY <2>2, <3>1, Joined
    <3>3. Len(c) = la + lb /\ \A j \in 1 .. lb : c[la + j] = b[j]
      BY <3>2 DEF IsJoined
    <3>4. la + lb = la + 16 + r.incl
      BY <2>3, <3>2 DEF lb
    <3>5. QED
      BY <3>2, <3>3, <3>4 DEF lb
  <2>8. ASSUME NEW j \in 1 .. 16 + r.incl
        PROVE  all[la + j] = b[j]
    <3>1. la + j \in 1 .. Len(c)
      BY <2>3, <2>7
    <3>2. QED
      BY <2>6, <2>7, <3>1
  <2>9. ASSUME NEW j \in 1 .. 4
        PROVE  all[la + 12 + j] = <<"length", r.orig, j>>
    <3>1. 12 + j \in 1 .. 16 + r.incl /\ la + (12 + j) = la + 12 + j
      BY <2>3, <2>7
    <3>2. all[la + (12 + j)] = b[12 + j]
      BY <2>8, <3>1
    <3>3. QED
      BY <2>4, <3>1, <3>2
  <2>10. ASSUME NEW j \in 1 .. r.incl
         PROVE  all[la + 16 + j] = <<"data", r.data, j>>
    <3>1. 16 + j \in 1 .. 16 + r.incl /\ la + (16 + j) = la + 16 + j
      BY <2>3, <2>7
    <3>2. all[la + (16 + j)] = b[16 + j]
      BY <2>8, <3>1
    <3>3. QED
      BY <2>4, <3>1, <3>2
  <2>11. start[k + 1] = start[k] + 16 + r.incl /\ start[k + 1] <= Len(all)
    BY <2>5, <2>6, <2>7
  <2>12. /\ \A j \in 1 .. 4 : all[start[k] + 12 + j] = <<"length", r.orig, j>>
         /\ \A j \in 1 .. r.incl : all[start[k] + 16 + j] = <<"data", r.data, j>>
    BY <2>5, <2>9, <2>10
  <2>13. QED
    BY <2>11, <2>12 DEF r
<1>12. IsLayout(file, start)
  BY <1>8, <1>9, <1>10, <1>11 DEF IsLayout, all, n, R
<1>13. QED
  BY <1>12

-----------------------------------------------------------------------------
(* The packets of a legal size *)

\* count[k] of the first k records have a legal size.
IsCount(file, count) ==
    LET legal == LegalRecords(file)
        n == Len(file.records)
    IN  /\ count \in [0 .. n -> Nat]
        /\ count[0] = 0
        /\ Len(legal) = count[n]
        /\ \A k \in 1 .. n :
             LET r == file.records[k]
             IN  /\ count[k] <= count[n]
                 /\ Legal(r) => count[k] = count[k - 1] + 1 /\ legal[count[k]] = r
                 /\ ~Legal(r) => count[k] = count[k - 1]

\* Every file has such a count.
LEMMA LegalCount ==
    ASSUME NEW file \in AllFiles
    PROVE  \E count : IsCount(file, count)
<1> DEFINE R == file.records
           n == Len(R)
           legal == LegalRecords(file)
           One(k) == IF Legal(R[k]) THEN <<R[k]>> ELSE <<>>
           seqs == [k \in DOMAIN R |-> One(k)]
<1>1. n \in Nat /\ DOMAIN R = 1 .. n /\ \A k \in 1 .. n : R[k] \in AllRecords
  BY FileRecords
<1>2. \A k \in 1 .. n : One(k) \in Seq(AllRecords)
  BY <1>1
<1>3. legal = FlattenSeq(seqs)
  BY DEF LegalRecords
<1>4. seqs \in Seq(Seq(AllRecords)) /\ Len(seqs) = n /\ \A k \in 1 .. n : seqs[k] = One(k)
  <2>1. seqs \in [1 .. n -> Seq(AllRecords)]
    BY <1>1, <1>2
  <2>2. \A k \in 1 .. n : seqs[k] = One(k)
    BY <1>1
  <2> HIDE DEF seqs, One
  <2>3. QED
    BY <1>1, <2>1, <2>2
<1> HIDE DEF seqs, legal, R, n
<1>5. PICK p : IsPrefixes(p, seqs, AllRecords) /\ legal = p[n]
  BY <1>3, <1>4, FlattenByPrefixes
<1>6. /\ \A k \in 0 .. n : p[k] \in Seq(AllRecords)
      /\ p[0] = <<>>
      /\ \A k \in 1 .. n : p[k] = p[k - 1] \o seqs[k]
  BY <1>4, <1>5 DEF IsPrefixes
<1> DEFINE count == [k \in 0 .. n |-> Len(p[k])]
<1>7. count \in [0 .. n -> Nat] /\ count[0] = 0 /\ Len(legal) = count[n]
  BY <1>1, <1>5, <1>6
<1>8. ASSUME NEW k \in 1 .. n
      PROVE  LET r == R[k]
             IN  /\ count[k] <= count[n]
                 /\ Legal(r) => count[k] = count[k - 1] + 1 /\ legal[count[k]] = r
                 /\ ~Legal(r) => count[k] = count[k - 1]
  <2> DEFINE a == p[k - 1]
             b == seqs[k]
             c == p[k]
  <2>1. k \in 0 .. n /\ k - 1 \in 0 .. n
    BY <1>1
  <2>2. a \in Seq(AllRecords) /\ b \in Seq(AllRecords) /\ c = a \o b
    BY <1>1, <1>2, <1>4, <1>6, <2>1
  <2>3. Len(c) <= Len(legal) /\ \A j \in 1 .. Len(c) : legal[j] = c[j]
    <3>1. k \in 0 .. Len(seqs) /\ n \in k .. Len(seqs)
      BY <1>1, <1>4, <2>1
    <3>2. seqs \in Seq(Seq(AllRecords)) /\ IsPrefixes(p, seqs, AllRecords)
      BY <1>4, <1>5
    <3>3. Len(p[k]) <= Len(p[n]) /\ \A j \in 1 .. Len(p[k]) : p[n][j] = p[k][j]
      BY <3>1, <3>2, PrefixesStay
    <3>4. QED
      BY <1>5, <3>3
  <2>4. count[k] = Len(c) /\ count[k - 1] = Len(a)
    BY <2>1
  <2>5. Legal(R[k]) => b = <<R[k]>>
    BY <1>4
  <2>6. ~Legal(R[k]) => b = <<>>
    BY <1>4
  <2> HIDE DEF a, b, c, count
  <2>7. Len(a) \in Nat /\ IsJoined(c, a, Len(a), b, Len(b))
    BY <2>2, Joined
  <2>8. ASSUME Legal(R[k])
        PROVE  count[k] = count[k - 1] + 1 /\ legal[count[k]] = R[k]
    <3>1. Len(b) = 1 /\ b[1] = R[k]
      BY <2>5, <2>8
    <3>2. Len(c) = Len(a) + 1 /\ c[Len(a) + 1] = b[1]
      BY <2>7, <3>1 DEF IsJoined
    <3>3. Len(c) \in 1 .. Len(c)
      BY <2>7, <3>2
    <3>4. legal[Len(c)] = c[Len(c)]
      BY <2>3, <3>3
    <3>5. QED
      BY <2>4, <3>1, <3>2, <3>4
  <2>9. ASSUME ~Legal(R[k])
        PROVE  count[k] = count[k - 1]
    <3>1. Len(b) = 0
      BY <2>6, <2>9
    <3>2. Len(c) = Len(a) + 0
      BY <2>7, <3>1 DEF IsJoined
    <3>3. QED
      BY <2>4, <2>7, <3>2
  <2>10. count[k] <= count[n]
    BY <1>7, <2>3, <2>4
  <2>11. QED
    BY <2>8, <2>9, <2>10
<1>9. IsCount(file, count)
  BY <1>7, <1>8 DEF IsCount, legal, n, R
<1>10. QED
  BY <1>9

-----------------------------------------------------------------------------
(* Reading *)

\* Position x of a file of len bytes
Clip(x, len) == IF x > len THEN len ELSE x

\* Where fseek() goes
LEMMA SeekClips ==
    ASSUME Len(bytes) \in Nat, NEW at \in Nat, NEW offset \in Nat
    PROVE  /\ Seek(at, offset) = Clip(at + offset, Len(bytes))
           /\ Clip(at + offset, Len(bytes)) \in 0 .. Len(bytes)
  BY DEF Seek, Clip

\* Going on from a position that may have been clipped
LEMMA ClipTwice ==
    ASSUME NEW len \in Nat, NEW x \in Nat, NEW y \in Nat
    PROVE  Clip(Clip(x, len) + y, len) = Clip(x + y, len)
  BY DEF Clip

\* What fread() gets is what is in the file.
LEMMA FreadGets ==
    ASSUME bytes \in Seq(Datum), NEW at \in 0 .. Len(bytes), NEW size \in Nat
    PROVE  /\ Fread(at, size) \in Seq(Datum)
           /\ Len(Fread(at, size)) = Clip(at + size, Len(bytes)) - at
           /\ \A j \in 1 .. Len(Fread(at, size)) : Fread(at, size)[j] = bytes[at + j]
<1> DEFINE end == Clip(at + size, Len(bytes))
           len == Len(bytes)
           got == Fread(at, size)
<1>1. len \in Nat /\ at \in Nat
  OBVIOUS
<1>2. end \in at .. len
  BY <1>1 DEF Clip
<1>3. got = SubSeq(bytes, at + 1, end)
  BY <1>1, SeekClips DEF Fread
<1> HIDE DEF end
<1>4. SubSeq(bytes, at + 1, end) \in Seq(Datum)
  BY <1>1, <1>2
<1>5. Len(SubSeq(bytes, at + 1, end)) = end - at
  BY <1>1, <1>2
<1>6. ASSUME NEW j \in 1 .. end - at
      PROVE  SubSeq(bytes, at + 1, end)[j] = bytes[at + j]
  BY <1>1, <1>2
<1> HIDE DEF got
<1>7. got \in Seq(Datum) /\ Len(got) = end - at /\ \A j \in 1 .. Len(got) : got[j] = bytes[at + j]
  BY <1>3, <1>4, <1>5, <1>6
<1>8. QED
  BY <1>7 DEF got, end

\* The layout and the count of a file
Start(file) == CHOOSE start : IsLayout(file, start)
Count(file) == CHOOSE count : IsCount(file, count)

\* They are what they are called.
LEMMA StartAndCount ==
    ASSUME NEW file \in AllFiles
    PROVE  IsLayout(file, Start(file)) /\ IsCount(file, Count(file))
  BY Layout, LegalCount DEF Start, Count

\* A file is read as far as it is not cut off.
LEMMA BytesOfFile ==
    ASSUME NEW file \in AllFiles
    PROVE  /\ FileBytes(file) \in Seq(Datum)
           /\ Len(FileBytes(file)) \in Nat
           /\ Len(FileBytes(file)) <= Len(AllBytes(file))
           /\ \A j \in 1 .. Len(FileBytes(file)) : FileBytes(file)[j] = AllBytes(file)[j]
           /\ file.cut = 0 => Len(FileBytes(file)) = Len(AllBytes(file))
<1> DEFINE all == AllBytes(file)
           len == Len(AllBytes(file)) - file.cut
           some == FileBytes(file)
<1>1. all \in Seq(Datum) /\ Len(all) \in Nat
  BY StartAndCount DEF IsLayout
<1>2. file.cut \in Nat /\ len \in Int /\ len <= Len(all) /\ (file.cut = 0 => len = Len(all))
  BY <1>1, FileRecords
<1>3. some = SubSeq(all, 1, len)
  BY DEF FileBytes, AllBytes
<1> HIDE DEF all, len, some
<1>4. CASE len <= 0
  <2>1. SubSeq(all, 1, len) = <<>>
    BY <1>1, <1>2, <1>4
  <2>2. some = <<>> /\ <<>> \in Seq(Datum) /\ Len(<<>>) = 0
    BY <1>3, <2>1
  <2>3. QED
    BY <1>1, <1>2, <1>4, <2>2 DEF all, some
<1>5. CASE len > 0
  <2>1. some \in Seq(Datum) /\ Len(some) = len /\ len \in Nat
    BY <1>1, <1>2, <1>3, <1>5
  <2>2. ASSUME NEW j \in 1 .. len
        PROVE  some[j] = all[j]
    BY <1>1, <1>2, <1>3, <1>5
  <2>3. QED
    BY <1>1, <1>2, <2>1, <2>2 DEF all, some
<1>6. QED
  BY <1>2, <1>4, <1>5

-----------------------------------------------------------------------------
(* The invariant *)

\* What the loop works on
ReaderTypes ==
    /\ files \in Seq(AllFiles \cup {None})
    /\ pc = "loop" =>
         /\ files # <<>> /\ Head(files) \in AllFiles
         /\ bytes = FileBytes(Head(files))
         /\ pos \in 0 .. Len(bytes)
         /\ eof \in BOOLEAN
         /\ pLength \in Lengths
         /\ pData \in Seq(Datum) /\ Len(pData) = MAX_PACKET + 1
         /\ packets \in Seq(Seq(Datum))

\* The loop is 4 bytes behind the beginning of what follows the k-th record,
\* or at the end.
AtRecord(file, len, at, k) == at = Clip(Start(file)[k + 1] + 4, len)

\* Before the end of the file is met, no packet was pushed but those of the
\* records passed; the last one pushed may be none.
NoMoreThanPassed(file, len, at, end, num) ==
    LET n == Len(file.records)
    IN  \/ end /\ num <= Count(file)[n] + 1
        \/ ~end /\ \E k \in 0 .. n : AtRecord(file, len, at, k) /\ num <= Count(file)[k]

\* The payloads pushed are those of the first packets of a legal size.
RightPayloads(file, pushed) ==
    LET legal == LegalRecords(file)
    IN  \A j \in DOMAIN pushed :
          /\ Len(pushed[j]) = legal[j].orig - PAYLOAD + 1
          /\ OwnBytes(legal[j], pushed[j])

\* Of a whole file, all packets passed were pushed.  Its end is met behind the
\* last record, unless that has no legal size; then the loop goes on with its length.
AllOfPassed(file, len, at, end, length, pushed) ==
    LET n == Len(file.records)
    IN  \E k \in 0 .. n :
          /\ AtRecord(file, len, at, k)
          /\ Len(pushed) = Count(file)[k]
          /\ end => k = n
          /\ k = n /\ ~end => ~Accepts(length)

ReaderInv ==
    /\ ReaderTypes
    /\ pc = "loop" /\ Captured(Head(files)) =>
         /\ NoMoreThanPassed(Head(files), Len(bytes), pos, eof, Len(packets))
         /\ Whole(Head(files)) =>
              /\ AllOfPassed(Head(files), Len(bytes), pos, eof, pLength, packets)
              /\ RightPayloads(Head(files), packets)

\* The first file that is opened is one of the files.
LEMMA InitReader ==
    ASSUME Init
    PROVE  ReaderInv
<1>1. files \in Seq(Range(files)) /\ files \in FileLists
  BY PcapReaderAssumption DEF Init
<1>2. Range(files) \subseteq AllFiles \cup {None}
  BY <1>1 DEF AllFiles
<1>3. files \in Seq(AllFiles \cup {None})
  BY <1>1, <1>2
<1>4. QED
  BY <1>3 DEF Init, ReaderInv, ReaderTypes

\* The loop begins 4 bytes behind the beginning of the first record.
LEMMA OpenStep ==
    ASSUME ReaderInv, Open
    PROVE  ReaderInv'
<1> DEFINE file == Head(files)
           len == Len(FileBytes(file))
           n == Len(file.records)
<1>1. files \in Seq(AllFiles \cup {None}) /\ files # <<>> /\ file # None /\ files' = files
  BY DEF ReaderInv, ReaderTypes, Open
<1>2. file \in AllFiles
  BY <1>1
<1>3. bytes' = FileBytes(file) /\ len \in Nat /\ FileBytes(file) \in Seq(Datum)
  BY <1>2, BytesOfFile DEF Open
<1>4. pos' = Clip(28, len) /\ pos' \in 0 .. len
  BY <1>3 DEF Open, Clip
<1>5. pData' \in Seq(Datum) /\ Len(pData') = MAX_PACKET + 1
  <2>1. Garbage \in Datum
    BY DEF Garbage, Datum, Names, Values
  <2>2. pData' = [k \in 1 .. MAX_PACKET + 1 |-> Garbage] /\ MAX_PACKET + 1 \in Nat
    BY PcapReaderAssumption DEF Open, GarbageData
  <2>3. QED
    BY <2>1, <2>2
<1>6. eof' = FALSE /\ pLength' \in Lengths /\ packets' = <<>> /\ pc' = "loop"
  BY DEF Open
<1>7. ReaderTypes'
  <2>1. Head(files') = file /\ files' # <<>> /\ files' \in Seq(AllFiles \cup {None})
    BY <1>1
  <2>2. bytes' = FileBytes(Head(files')) /\ Len(bytes') = len
    BY <1>3, <2>1
  <2> HIDE DEF file, len
  <2>3. packets' \in Seq(Seq(Datum))
    BY <1>6
  <2>4. pos' \in 0 .. Len(bytes') /\ eof' \in BOOLEAN /\ Head(files') \in AllFiles
    BY <1>2, <1>4, <1>6, <2>1, <2>2
  <2>5. QED
    BY <1>5, <1>6, <2>1, <2>2, <2>3, <2>4, Zenon DEF ReaderTypes
<1>8. n \in Nat /\ Start(file)[1] = 24 /\ Count(file)[0] = 0
  BY <1>2, FileRecords, StartAndCount DEF IsLayout, IsCount
<1>9. AtRecord(file, len, pos', 0)
  <2>1. Start(file)[0 + 1] + 4 = 28
    BY <1>8
  <2>2. QED
    BY <1>4, <2>1 DEF AtRecord
<1>10. Len(packets') = 0 /\ DOMAIN packets' = {}
  BY <1>6
<1>11. 0 \in 0 .. n
  BY <1>8
<1> HIDE DEF file, len
<1>12. NoMoreThanPassed(file, len, pos', eof', Len(packets'))
  <2>1. Len(packets') <= Count(file)[0]
    BY <1>8, <1>10
  <2>2. QED
    BY <1>6, <1>9, <1>11, <2>1 DEF NoMoreThanPassed
<1>13. Whole(file) => n # 0
  <2>1. file.records \in Seq(AllRecords)
    BY <1>2, FileRecords
  <2>2. n = 0 => file.records = <<>>
    BY <2>1
  <2>3. QED
    BY <2>2 DEF Whole
<1>14. Whole(file) => AllOfPassed(file, len, pos', eof', pLength', packets')
  BY <1>6, <1>8, <1>9, <1>10, <1>11, <1>13 DEF AllOfPassed
<1>15. RightPayloads(file, packets')
  BY <1>10 DEF RightPayloads
<1>16. Head(files') = file /\ Len(bytes') = len
  BY <1>1, <1>3 DEF file, len
<1>17. QED
  BY <1>7, <1>12, <1>14, <1>15, <1>16 DEF ReaderInv

\* The loop reads the length on the wire, 4 bytes before the data, as long as
\* it is there; behind it there is nothing.
LEMMA ReadLength ==
    ASSUME ReaderInv, pc = "loop",
           NEW k \in 0 .. Len(Head(files).records),
           AtRecord(Head(files), Len(bytes), pos, k),
           NEW length \in Lengths, Holds(length, Fread(LengthAt, 4), pLength)
    PROVE  LET file == Head(files)
               len == Len(bytes)
               s == Start(file)[k + 1]
           IN  /\ s \in Nat /\ len \in Nat /\ length \in Nat
               /\ DataAt = Clip(s + 20, len) /\ DataAt \in 0 .. len
               /\ Seek(DataAt, length) = Clip(s + 20 + length, len)
               /\ Seek(DataAt, length) \in 0 .. len
               /\ k < Len(file.records) /\ s + 16 <= len => length = file.records[k + 1].orig
               /\ k = Len(file.records) => len <= s
               /\ k = Len(file.records) => length = pLength
<1> DEFINE file == Head(files)
           len == Len(bytes)
           n == Len(file.records)
           s == Start(file)[k + 1]
           got == Fread(LengthAt, 4)
<1>1. /\ file \in AllFiles /\ bytes = FileBytes(file) /\ pos \in 0 .. len
  BY DEF ReaderInv, ReaderTypes
<1>2. /\ bytes \in Seq(Datum) /\ len \in Nat /\ len <= Len(AllBytes(file))
      /\ \A j \in 1 .. len : bytes[j] = AllBytes(file)[j]
  BY <1>1, BytesOfFile
<1>3. IsLayout(file, Start(file)) /\ n \in Nat
  BY <1>1, StartAndCount, FileRecords
<1>4. s \in Nat /\ k \in 0 .. n
  <2>1. Start(file) \in [1 .. n + 1 -> Nat]
    BY <1>3 DEF IsLayout
  <2>2. k \in 0 .. n /\ k + 1 \in 1 .. n + 1
    BY <1>3
  <2>3. QED
    BY <2>1, <2>2
<1>5. length \in Nat
  BY PcapReaderAssumption
<1>6. pos = Clip(s + 4, len)
  BY DEF AtRecord
<1>7. k = n => len <= s
  BY <1>2, <1>3 DEF IsLayout
<1> HIDE DEF file, len, n, s
<1>8. LengthAt = Clip(s + 12, len) /\ LengthAt \in 0 .. len
  <2>1. LengthAt = Clip(pos + 8, len) /\ Clip(pos + 8, len) \in 0 .. len
    <3>1. Len(bytes) \in Nat /\ pos \in Nat /\ 8 \in Nat
      BY <1>1, <1>2 DEF len
    <3>2. QED
      BY <3>1, SeekClips DEF LengthAt, len
  <2>2. Clip(pos + 8, len) = Clip(s + 12, len)
    BY <1>2, <1>4, <1>6 DEF Clip
  <2>3. QED
    BY <2>1, <2>2
<1>9. DataAt = Clip(s + 20, len) /\ DataAt \in 0 .. len
  <2> DEFINE mid == Seek(LengthAt, 4)
  <2>1. mid = Clip(LengthAt + 4, len) /\ Clip(LengthAt + 4, len) \in 0 .. len
    <3>1. Len(bytes) \in Nat /\ LengthAt \in Nat /\ 4 \in Nat
      BY <1>2, <1>8 DEF len
    <3>2. QED
      BY <3>1, SeekClips DEF len
  <2>2. DataAt = Seek(mid, 4)
    BY DEF DataAt
  <2> HIDE DEF mid
  <2>3. Seek(mid, 4) = Clip(mid + 4, len) /\ Clip(mid + 4, len) \in 0 .. len
    <3>1. Len(bytes) \in Nat /\ mid \in Nat /\ 4 \in Nat
      BY <1>2, <2>1 DEF len
    <3>2. QED
      BY <3>1, SeekClips DEF len
  <2>4. Clip(mid + 4, len) = Clip(s + 20, len)
    BY <1>2, <1>4, <1>8, <2>1 DEF Clip
  <2>5. QED
    BY <2>2, <2>3, <2>4
<1>10. /\ Seek(DataAt, length) = Clip(s + 20 + length, len)
       /\ Seek(DataAt, length) \in 0 .. len
  <2>1. Seek(DataAt, length) = Clip(DataAt + length, len) /\ Clip(DataAt + length, len) \in 0 .. len
    <3>1. Len(bytes) \in Nat /\ DataAt \in Nat
      BY <1>2, <1>9 DEF len
    <3>2. QED
      BY <1>5, <3>1, SeekClips DEF len
  <2>2. Clip(DataAt + length, len) = Clip(s + 20 + length, len)
    BY <1>2, <1>4, <1>5, <1>9 DEF Clip
  <2>3. QED
    BY <2>1, <2>2
<1>11. /\ Len(got) = Clip(LengthAt + 4, len) - LengthAt
       /\ got \in Seq(Datum)
       /\ \A j \in 1 .. Len(got) : got[j] = bytes[LengthAt + j]
  <2>1. LengthAt \in 0 .. Len(bytes) /\ 4 \in Nat
    BY <1>8 DEF len
  <2>2. QED
    BY <1>2, <2>1, FreadGets DEF len
<1>12. ASSUME k < n, s + 16 <= len
       PROVE  length = file.records[k + 1].orig
  <2> DEFINE r == file.records[k + 1]
  <2>1. k + 1 \in 1 .. n
    BY <1>3, <1>4, <1>12
  <2>2. r \in AllRecords
    BY <1>1, <2>1, FileRecords DEF n
  <2>3. r.orig \in Lengths /\ r.orig \in Values
    BY <2>2, RecordFields
  <2>4. \A j \in 1 .. 4 : AllBytes(file)[s + 12 + j] = <<"length", r.orig, j>>
    <3>1. \A i \in 1 .. n : \A j \in 1 .. 4 :
            AllBytes(file)[Start(file)[i] + 12 + j] = <<"length", file.records[i].orig, j>>
      BY <1>3 DEF IsLayout, n
    <3>2. QED
      BY <2>1, <3>1 DEF s
  <2>5. LengthAt = s + 12 /\ Len(got) = 4
    <3>1. LengthAt = s + 12
      BY <1>2, <1>4, <1>8, <1>12 DEF Clip
    <3>2. Clip(LengthAt + 4, len) = s + 16
      BY <1>2, <1>4, <1>12, <3>1 DEF Clip
    <3> HIDE DEF got
    <3>3. QED
      BY <1>4, <1>11, <3>1, <3>2
  <2>6. ASSUME NEW j \in 1 .. 4
        PROVE  got[j] = <<"length", r.orig, j>>
    <3>1. got[j] = bytes[s + 12 + j]
      BY <1>11, <2>5
    <3>2. s + 12 + j \in 1 .. len
      BY <1>2, <1>4, <1>12
    <3>3. QED
      BY <1>2, <2>4, <3>1, <3>2
  <2>7. got = Field("length", r.orig, 4)
    <3> DEFINE f == Field("length", r.orig, 4)
    <3>1. 4 \in Nat /\ "length" \in Names
      BY DEF Names
    <3>2. f \in Seq(Datum) /\ Len(f) = 4 /\ \A j \in 1 .. 4 : f[j] = <<"length", r.orig, j>>
      BY <2>3, <3>1, FieldBytes
    <3> HIDE DEF f, got, r
    <3>3. \A j \in 1 .. 4 : got[j] = f[j]
      BY <2>6, <3>2, Zenon
    <3>4. got \in Seq(Datum) /\ f \in Seq(Datum) /\ Len(got) = Len(f)
      BY <1>11, <2>5, <3>2
    <3>5. got = f
      BY <2>5, <3>3, <3>4, SameBytes
    <3>6. QED
      BY <3>5 DEF f, r
  <2>8. QED
    BY <2>3, <2>7 DEF Holds
<1>13. ASSUME k = n
       PROVE  length = pLength
  <2>1. LengthAt = len /\ Len(got) = 0
    BY <1>2, <1>4, <1>7, <1>8, <1>11, <1>13 DEF Clip
  <2>2. got = <<>>
    BY <1>11, <2>1
  <2>3. QED
    BY <2>2 DEF Holds
<1>14. QED
  BY <1>2, <1>4, <1>5, <1>7, <1>9, <1>10, <1>12, <1>13 DEF file, len, n, s

\* Wherever the loop is, it stays in the file.
LEMMA LoopTypes ==
    ASSUME ReaderInv, pc = "loop", NEW length \in Lengths
    PROVE  /\ Head(files) \in AllFiles /\ bytes = FileBytes(Head(files))
           /\ bytes \in Seq(Datum) /\ Len(bytes) \in Nat /\ length \in Nat
           /\ LengthAt \in 0 .. Len(bytes)
           /\ DataAt \in 0 .. Len(bytes)
           /\ Seek(DataAt, length) \in 0 .. Len(bytes)
           /\ Seek(DataAt, length) = Clip(DataAt + length, Len(bytes))
<1> DEFINE len == Len(bytes)
<1>1. Head(files) \in AllFiles /\ bytes = FileBytes(Head(files)) /\ pos \in 0 .. len
  BY DEF ReaderInv, ReaderTypes
<1>2. bytes \in Seq(Datum) /\ Len(bytes) \in Nat
  BY <1>1, BytesOfFile
<1>3. length \in Nat /\ 4 \in Nat /\ 8 \in Nat
  BY PcapReaderAssumption
<1>4. LengthAt \in 0 .. Len(bytes)
  <2>1. pos \in Nat
    BY <1>1
  <2>2. QED
    BY <1>2, <1>3, <2>1, SeekClips DEF LengthAt
<1>5. DataAt \in 0 .. Len(bytes)
  <2>1. Seek(LengthAt, 4) \in 0 .. Len(bytes)
    <3>1. LengthAt \in Nat
      BY <1>4
    <3>2. QED
      BY <1>2, <1>3, <3>1, SeekClips
  <2>2. Seek(LengthAt, 4) \in Nat
    BY <2>1
  <2>3. QED
    BY <1>2, <1>3, <2>2, SeekClips DEF DataAt
<1>6. DataAt \in Nat
  BY <1>5
<1>7. QED
  BY <1>1, <1>2, <1>3, <1>4, <1>5, <1>6, SeekClips

\* From 4 bytes behind the beginning of a record, the loop gets as far behind
\* that of the next one.
LEMMA NextRecord ==
    ASSUME ReaderInv, pc = "loop", Captured(Head(files)),
           NEW k \in 0 .. Len(Head(files).records),
           AtRecord(Head(files), Len(bytes), pos, k),
           NEW length \in Lengths, Holds(length, Fread(LengthAt, 4), pLength)
    PROVE  LET n == Len(Head(files).records)
           IN  /\ k = n => AtRecord(Head(files), Len(bytes), Seek(DataAt, length), k)
               /\ k < n => AtRecord(Head(files), Len(bytes), Seek(DataAt, length), k + 1)
<1> DEFINE file == Head(files)
           len == Len(bytes)
           n == Len(file.records)
           s == Start(file)[k + 1]
           to == Seek(DataAt, length)
<1>1. /\ s \in Nat /\ len \in Nat /\ length \in Nat
      /\ to = Clip(s + 20 + length, len)
      /\ k < n /\ s + 16 <= len => length = file.records[k + 1].orig
      /\ k = n => len <= s
  BY ReadLength
<1>2. file \in AllFiles
  BY LoopTypes
<1>3. n \in Nat /\ k \in 0 .. n
  BY <1>2, FileRecords
<1>4. ASSUME k = n
      PROVE  AtRecord(file, len, to, k)
  <2> HIDE DEF file, len, n, s, to
  <2>1. to = Clip(s + 4, len)
    BY <1>1, <1>4 DEF Clip
  <2>2. QED
    BY <2>1 DEF AtRecord, s
<1>5. ASSUME k < n
      PROVE  AtRecord(file, len, to, k + 1)
  <2> DEFINE r == file.records[k + 1]
             orig == r.orig
             next == Start(file)[(k + 1) + 1]
  <2>1. k + 1 \in 1 .. n
    BY <1>3, <1>5
  <2>2. r.orig \in Nat /\ r.incl = r.orig
    <3>1. r \in AllRecords /\ k + 1 \in DOMAIN file.records
      BY <1>2, <2>1, FileRecords
    <3>2. QED
      BY <3>1, RecordFields DEF Captured
  <2>3. next = s + 16 + r.incl
    <3>1. IsLayout(file, Start(file))
      BY <1>2, StartAndCount
    <3>2. \A i \in 1 .. n : Start(file)[i + 1] = Start(file)[i] + 16 + file.records[i].incl
      BY <3>1 DEF IsLayout
    <3>3. QED
      BY <2>1, <3>2
  <2>4. s + 16 <= len => length = orig
    BY <1>1, <1>5
  <2>5. orig \in Nat /\ next = s + 16 + orig
    BY <2>2, <2>3
  <2>6. s \in Nat /\ len \in Nat /\ length \in Nat /\ to = Clip(s + 20 + length, len)
    BY <1>1
  <2> HIDE DEF file, len, n, s, to, r, next, orig
  <2>7. to = Clip(next + 4, len)
    <3>1. CASE s + 16 <= len
      <4>1. s + 20 + length = next + 4
        BY <2>4, <2>5, <2>6, <3>1
      <4>2. QED
        BY <2>6, <4>1
    <3>2. CASE ~(s + 16 <= len)
      <4>1. s + 20 + length > len /\ next + 4 > len
        BY <2>5, <2>6, <3>2
      <4>2. QED
        BY <2>6, <4>1 DEF Clip
    <3>3. QED
      BY <3>1, <3>2
  <2>8. QED
    BY <2>7 DEF AtRecord, next
<1>6. QED
  BY <1>4, <1>5

\* How many packets of a legal size the next record makes it
LEMMA NextCount ==
    ASSUME NEW file \in AllFiles, NEW k \in 0 .. Len(file.records)
    PROVE  LET n == Len(file.records)
               count == Count(file)
           IN  /\ n \in Nat /\ count[k] \in Nat /\ count[n] \in Nat /\ count[k] <= count[n]
               /\ count[n] = Len(LegalRecords(file))
               /\ k < n =>
                    LET r == file.records[k + 1]
                    IN  /\ r \in AllRecords /\ count[k + 1] \in Nat
                        /\ Legal(r) => /\ count[k + 1] = count[k] + 1
                                       /\ LegalRecords(file)[count[k + 1]] = r
                        /\ ~Legal(r) => count[k + 1] = count[k]
<1> DEFINE n == Len(file.records)
           count == Count(file)
<1>1. n \in Nat /\ k \in 0 .. n /\ \A i \in 1 .. n : file.records[i] \in AllRecords
  BY FileRecords
<1>2. IsCount(file, count)
  BY StartAndCount
<1>3. /\ count \in [0 .. n -> Nat] /\ count[0] = 0 /\ Len(LegalRecords(file)) = count[n]
      /\ \A i \in 1 .. n :
           /\ count[i] <= count[n]
           /\ Legal(file.records[i]) => /\ count[i] = count[i - 1] + 1
                                        /\ LegalRecords(file)[count[i]] = file.records[i]
           /\ ~Legal(file.records[i]) => count[i] = count[i - 1]
  BY <1>2 DEF IsCount
<1> HIDE DEF n, count
<1>4. count[k] \in Nat /\ count[n] \in Nat /\ count[k] <= count[n]
  BY <1>1, <1>3
<1>5. ASSUME k < n
      PROVE  /\ file.records[k + 1] \in AllRecords /\ count[k + 1] \in Nat
             /\ Legal(file.records[k + 1]) => /\ count[k + 1] = count[k] + 1
                                             /\ LegalRecords(file)[count[k + 1]] = file.records[k + 1]
             /\ ~Legal(file.records[k + 1]) => count[k + 1] = count[k]
  <2>1. k + 1 \in 1 .. n /\ k + 1 \in 0 .. n /\ (k + 1) - 1 = k
    BY <1>1, <1>5
  <2>2. QED
    BY <1>1, <1>3, <2>1
<1>6. QED
  BY <1>1, <1>3, <1>4, <1>5 DEF n, count

\* In a whole file the loop reads the length of every record, and all of its
\* data but the last 4 bytes; the end is met in the last record and in no other.
LEMMA WholeRecord ==
    ASSUME ReaderInv, pc = "loop", Captured(Head(files)), Whole(Head(files)),
           NEW k \in 0 .. Len(Head(files).records), k < Len(Head(files).records),
           AtRecord(Head(files), Len(bytes), pos, k),
           NEW length \in Lengths, Holds(length, Fread(LengthAt, 4), pLength)
    PROVE  LET n == Len(Head(files).records)
               r == Head(files).records[k + 1]
               got == Fread(DataAt, length)
           IN  /\ r.orig \in Nat /\ length = r.orig
               /\ k + 1 < n => Len(got) >= length
               /\ k + 1 = n /\ length > 0 => Len(got) < length
               /\ \A j \in 1 .. length - 4 : j <= Len(got) /\ got[j] = <<"data", r.data, j + 4>>
<1> DEFINE file == Head(files)
           len == Len(bytes)
           n == Len(file.records)
           start == Start(file)
           s == start[k + 1]
           r == file.records[k + 1]
           orig == r.orig
           got == Fread(DataAt, length)
<1>1. /\ file \in AllFiles /\ bytes = FileBytes(file) /\ bytes \in Seq(Datum) /\ len \in Nat
      /\ DataAt \in 0 .. len
  BY LoopTypes
<1>2. file.cut = 0
  BY DEF Whole
<1>3. len = Len(AllBytes(file)) /\ \A j \in 1 .. len : bytes[j] = AllBytes(file)[j]
  BY <1>1, <1>2, BytesOfFile
<1>4. n \in Nat /\ k + 1 \in 1 .. n /\ k \in Nat
  BY <1>1, FileRecords
<1>5. /\ start \in [1 .. n + 1 -> Nat]
      /\ len = start[n + 1]
      /\ \A i \in 1 .. n : /\ start[i + 1] = start[i] + 16 + file.records[i].incl
                           /\ start[i + 1] <= len
      /\ \A i \in 1 .. n : \A j \in 1 .. file.records[i].incl :
           AllBytes(file)[start[i] + 16 + j] = <<"data", file.records[i].data, j>>
  <2>1. IsLayout(file, start)
    BY <1>1, StartAndCount
  <2>2. QED
    BY <1>3, <2>1 DEF IsLayout
<1>6. orig \in Nat /\ r.incl = orig
  <2>1. r \in AllRecords /\ k + 1 \in DOMAIN file.records
    BY <1>1, <1>4, FileRecords
  <2>2. QED
    BY <2>1, RecordFields DEF Captured
<1>7. /\ s \in Nat /\ length \in Nat
      /\ DataAt = Clip(s + 20, len)
      /\ s + 16 <= len => length = orig
  BY ReadLength
<1> HIDE DEF start, r, file, len, n
<1>8. start[(k + 1) + 1] = s + 16 + orig /\ start[(k + 1) + 1] <= len
  BY <1>4, <1>5, <1>6 DEF r
<1>9. \A j \in 1 .. orig : AllBytes(file)[s + 16 + j] = <<"data", r.data, j>>
  BY <1>4, <1>5, <1>6 DEF r
<1> HIDE DEF s, orig
<1>10. s + 16 + orig <= len /\ length = orig
  BY <1>1, <1>6, <1>7, <1>8
<1>11. /\ Len(got) = Clip(DataAt + length, len) - DataAt
       /\ \A j \in 1 .. Len(got) : got[j] = bytes[DataAt + j]
  BY <1>1, <1>7, FreadGets DEF len
<1> HIDE DEF got
<1>12. ASSUME k + 1 < n
       PROVE  Len(got) >= length
  <2>1. (k + 1) + 1 \in 1 .. n
    BY <1>4, <1>12
  <2>2. (k + 1) + 1 \in 1 .. n /\ file.records[(k + 1) + 1] \in AllRecords
    BY <1>1, <2>1, FileRecords DEF n
  <2>3. file.records[(k + 1) + 1].incl \in Nat
    BY <2>2, RecordFields
  <2>4. s + 16 + orig + 16 <= len
    <3> DEFINE i == (k + 1) + 1
               incl == file.records[(k + 1) + 1].incl
               end == start[i + 1]
    <3>1. end = start[i] + 16 + incl /\ end <= len
      BY <1>5, <2>1
    <3>2. start[i] = s + 16 + orig /\ incl \in Nat
      BY <1>8, <2>3
    <3> HIDE DEF i, incl, end
    <3>3. QED
      BY <1>1, <1>6, <1>7, <3>1, <3>2
  <2>5. DataAt = s + 20 /\ DataAt + length <= len
    BY <1>1, <1>6, <1>7, <1>10, <2>4 DEF Clip
  <2>6. QED
    BY <1>1, <1>7, <1>11, <2>5 DEF Clip
<1>13. ASSUME k + 1 = n, length > 0
       PROVE  Len(got) < length
  <2>1. len = s + 16 + orig
    BY <1>5, <1>8, <1>13
  <2>2. DataAt + length > len
    BY <1>6, <1>7, <1>10, <1>13, <2>1 DEF Clip
  <2>3. Clip(DataAt + length, len) = len
    BY <2>2 DEF Clip
  <2>4. len - DataAt < length
    BY <1>1, <1>7, <2>2
  <2>5. QED
    BY <1>11, <2>3, <2>4
<1>14. ASSUME NEW j \in 1 .. length - 4
       PROVE  j <= Len(got) /\ got[j] = <<"data", r.data, j + 4>>
  <2>1. j \in Nat /\ j >= 1 /\ j + 4 <= orig
    BY <1>7, <1>10
  <2>2. DataAt = s + 20 /\ DataAt + j <= len
    BY <1>1, <1>6, <1>7, <1>10, <2>1 DEF Clip
  <2>3. j <= Len(got)
    <3>1. CASE DataAt + length > len
      BY <1>1, <1>11, <2>1, <2>2, <3>1 DEF Clip
    <3>2. CASE ~(DataAt + length > len)
      BY <1>1, <1>6, <1>7, <1>10, <1>11, <2>1, <2>2, <3>2 DEF Clip
    <3>3. QED
      BY <3>1, <3>2
  <2>4. got[j] = bytes[s + 20 + j]
    <3>1. j \in 1 .. Len(got)
      BY <1>1, <1>11, <2>1, <2>3 DEF Clip
    <3>2. QED
      BY <1>11, <2>2, <3>1
  <2>5. bytes[s + 20 + j] = AllBytes(file)[s + 20 + j]
    <3>1. s \in Nat /\ len \in Nat /\ s + 20 + j <= len
      BY <1>1, <1>7, <2>2
    <3>2. s + 20 + j \in 1 .. len
      BY <2>1, <3>1
    <3>3. QED
      BY <1>3, <3>2
  <2>6. AllBytes(file)[s + 16 + (j + 4)] = <<"data", r.data, j + 4>>
    <3>1. j + 4 \in 1 .. orig
      BY <1>6, <2>1
    <3>2. QED
      BY <1>9, <3>1
  <2>7. s + 16 + (j + 4) = s + 20 + j
    BY <1>7, <2>1
  <2>8. QED
    BY <2>3, <2>4, <2>5, <2>6, <2>7
<1>15. QED
  BY <1>6, <1>10, <1>12, <1>13, <1>14 DEF file, n, r, orig, got

\* A packet that is not of a legal size is passed.
LEMMA SkipStep ==
    ASSUME ReaderInv, SkipPacket
    PROVE  ReaderInv'
<1> DEFINE file == Head(files)
           len == Len(bytes)
           n == Len(file.records)
<1>1. pc = "loop" /\ eof = FALSE
  BY DEF SkipPacket, ReaderInv, ReaderTypes
<1>2. PICK length \in Lengths :
        /\ Holds(length, Fread(LengthAt, 4), pLength)
        /\ ~Accepts(length)
        /\ pLength' = length
        /\ pos' = Seek(DataAt, length)
  BY DEF SkipPacket
<1>3. /\ files' = files /\ bytes' = bytes /\ pc' = pc /\ eof' = eof /\ pData' = pData
      /\ packets' = packets
  BY DEF SkipPacket
<1>4. file \in AllFiles /\ Seek(DataAt, length) \in 0 .. len /\ n \in Nat
  BY <1>1, LoopTypes, FileRecords
<1>5. ReaderTypes'
  <2>1. pos' \in 0 .. Len(bytes') /\ pLength' \in Lengths
    BY <1>2, <1>3, <1>4
  <2>2. ReaderTypes
    BY DEF ReaderInv
  <2>3. QED
    BY <1>3, <2>1, <2>2 DEF ReaderTypes
<1>6. ASSUME Captured(file)
      PROVE  NoMoreThanPassed(file, len, pos', FALSE, Len(packets))
  <2>1. NoMoreThanPassed(file, len, pos, eof, Len(packets))
    BY <1>1, <1>6 DEF ReaderInv
  <2>2. PICK k \in 0 .. n : AtRecord(file, len, pos, k) /\ Len(packets) <= Count(file)[k]
    BY <1>1, <2>1 DEF NoMoreThanPassed
  <2>3. CASE k = n
    <3>1. AtRecord(file, len, pos', k)
      BY <1>1, <1>2, <1>6, <2>2, <2>3, NextRecord
    <3>2. QED
      BY <2>2, <3>1 DEF NoMoreThanPassed
  <2>4. CASE k < n
    <3>1. AtRecord(file, len, pos', k + 1)
      BY <1>1, <1>2, <1>6, <2>2, <2>4, NextRecord
    <3>2. Count(file)[k] <= Count(file)[k + 1] /\ Count(file)[k] \in Nat /\ Count(file)[k + 1] \in Nat
      BY <1>4, <2>4, NextCount
    <3>3. Len(packets) <= Count(file)[k + 1]
      <4>1. Len(packets) \in Nat
        BY <1>1 DEF ReaderInv, ReaderTypes
      <4>2. QED
        BY <2>2, <3>2, <4>1
    <3>4. k + 1 \in 0 .. n
      BY <1>4, <2>4
    <3>5. QED
      BY <3>1, <3>3, <3>4 DEF NoMoreThanPassed
  <2>5. k = n \/ k < n
    <3> HIDE DEF n
    <3>1. QED
      BY <1>4
  <2>6. QED
    BY <2>3, <2>4, <2>5
<1>7. ASSUME Captured(file), Whole(file)
      PROVE  AllOfPassed(file, len, pos', FALSE, length, packets)
  <2>1. AllOfPassed(file, len, pos, eof, pLength, packets)
    BY <1>1, <1>7 DEF ReaderInv
  <2>2. PICK k \in 0 .. n : AtRecord(file, len, pos, k) /\ Len(packets) = Count(file)[k]
    BY <2>1 DEF AllOfPassed
  <2>3. CASE k = n
    <3>1. AtRecord(file, len, pos', k)
      BY <1>1, <1>2, <1>7, <2>2, <2>3, NextRecord
    <3>2. QED
      BY <1>2, <2>2, <3>1 DEF AllOfPassed
  <2>4. CASE k < n
    <3>1. AtRecord(file, len, pos', k + 1)
      BY <1>1, <1>2, <1>7, <2>2, <2>4, NextRecord
    <3>2. file.records[k + 1].orig \in Nat /\ length = file.records[k + 1].orig
      BY <1>1, <1>2, <1>7, <2>2, <2>4, WholeRecord
    <3>3. ~Legal(file.records[k + 1])
      BY <1>2, <3>2, PcapReaderAssumption DEF Legal, Accepts
    <3>4. Len(packets) = Count(file)[k + 1]
      BY <1>4, <2>2, <2>4, <3>3, NextCount
    <3>5. k + 1 \in 0 .. n
      BY <1>4, <2>4
    <3>6. QED
      BY <1>2, <3>1, <3>4, <3>5 DEF AllOfPassed
  <2>5. k = n \/ k < n
    <3> HIDE DEF n
    <3>1. QED
      BY <1>4
  <2>6. QED
    BY <2>3, <2>4, <2>5
<1>8. Captured(file) /\ Whole(file) => RightPayloads(file, packets)
  BY <1>1 DEF ReaderInv
<1>9. Head(files') = file /\ Len(bytes') = len
  BY <1>3
<1> HIDE DEF file, len
<1>10. QED
  BY <1>1, <1>2, <1>3, <1>5, <1>6, <1>7, <1>8, <1>9 DEF ReaderInv

\* A piece of a sequence, from behind the a-th to the b-th
LEMMA Piece ==
    ASSUME NEW S, NEW s \in Seq(S), NEW a \in Nat, NEW b \in Nat, a <= b, b <= Len(s)
    PROVE  /\ SubSeq(s, a + 1, b) \in Seq(S)
           /\ Len(SubSeq(s, a + 1, b)) = b - a
           /\ \A j \in 1 .. b - a : SubSeq(s, a + 1, b)[j] = s[a + j]
<1>1. SubSeq(s, a + 1, b) \in Seq(S)
  OBVIOUS
<1>2. Len(SubSeq(s, a + 1, b)) = b - a
  OBVIOUS
<1>3. ASSUME NEW j \in 1 .. b - a
      PROVE  SubSeq(s, a + 1, b)[j] = s[a + j]
  OBVIOUS
<1>4. QED
  BY <1>1, <1>2, <1>3

\* What is read goes to the beginning of the buffer, and the payload is taken
\* from behind PAYLOAD.
LEMMA ReadData ==
    ASSUME ReaderInv, pc = "loop", NEW length \in Lengths, Accepts(length)
    PROVE  LET got == Fread(DataAt, length)
               data == got \o SubSeq(pData, Len(got) + 1, Len(pData))
           IN  /\ length \in Nat /\ length > PAYLOAD
               /\ Len(got) \in Nat
               /\ Len(got) = Clip(DataAt + length, Len(bytes)) - DataAt
               /\ data \in Seq(Datum) /\ Len(data) = MAX_PACKET + 1
               /\ Payload(length, data) \in Seq(Datum)
               /\ Len(Payload(length, data)) = length - PAYLOAD + 1
               /\ \A j \in 1 .. length - PAYLOAD :
                    PAYLOAD + j <= Len(got) => Payload(length, data)[j] = got[PAYLOAD + j]
<1> DEFINE len == Len(bytes)
           got == Fread(DataAt, length)
           num == Len(got)
           rest == SubSeq(pData, num + 1, Len(pData))
           data == got \o rest
           end == length + 1
           payload == SubSeq(data, PAYLOAD + 1, end)
<1>1. /\ bytes \in Seq(Datum) /\ len \in Nat /\ length \in Nat /\ DataAt \in 0 .. len
  BY LoopTypes
<1>2. /\ length > PAYLOAD /\ length <= MAX_PACKET /\ PAYLOAD \in Nat /\ MAX_PACKET \in Nat
  BY <1>1, PcapReaderAssumption DEF Accepts
<1>3. pData \in Seq(Datum) /\ Len(pData) = MAX_PACKET + 1
  BY DEF ReaderInv, ReaderTypes
<1>4. got \in Seq(Datum) /\ num = Clip(DataAt + length, len) - DataAt
  BY <1>1, FreadGets
<1>5. num \in Nat /\ num <= length
  <2> HIDE DEF len, num
  <2>1. QED
    BY <1>1, <1>4 DEF Clip
<1>6. rest \in Seq(Datum) /\ Len(rest) = MAX_PACKET + 1 - num
  <2> DEFINE all == Len(pData)
  <2>1. all = MAX_PACKET + 1
    BY <1>3
  <2> HIDE DEF num, all
  <2>2. all \in Nat /\ num \in Nat /\ num <= all
    BY <1>1, <1>2, <1>5, <2>1
  <2>3. SubSeq(pData, num + 1, all) \in Seq(Datum) /\ Len(SubSeq(pData, num + 1, all)) = all - num
    BY <1>3, <2>2, Piece DEF all
  <2>4. rest \in Seq(Datum) /\ Len(rest) = all - num
    BY <2>3 DEF all
  <2> HIDE DEF rest
  <2>5. QED
    BY <1>2, <2>1, <2>2, <2>4
<1>7. data = got \o rest /\ payload = SubSeq(data, PAYLOAD + 1, end) /\ end = length + 1
  OBVIOUS
<1>8. Payload(length, data) = payload
  BY DEF Payload
<1> HIDE DEF got, rest, data, payload, end
<1>9. data \in Seq(Datum) /\ IsJoined(data, got, Len(got), rest, Len(rest))
  BY <1>4, <1>6, <1>7, Joined
<1>10. Len(data) = MAX_PACKET + 1 /\ \A j \in 1 .. num : data[j] = got[j]
  <2>1. Len(data) = num + (MAX_PACKET + 1 - num) /\ \A j \in 1 .. num : data[j] = got[j]
    BY <1>6, <1>9 DEF IsJoined
  <2> HIDE DEF num
  <2>2. QED
    BY <1>2, <1>5, <2>1
<1> HIDE DEF num
<1>11. /\ payload \in Seq(Datum) /\ Len(payload) = end - PAYLOAD
       /\ \A j \in 1 .. end - PAYLOAD : payload[j] = data[PAYLOAD + j]
  <2>1. end \in Nat /\ PAYLOAD \in Nat /\ PAYLOAD <= end /\ end <= Len(data)
    BY <1>1, <1>2, <1>7, <1>10
  <2>2. data \in Seq(Datum)
    BY <1>9
  <2>3. /\ SubSeq(data, PAYLOAD + 1, end) \in Seq(Datum)
        /\ Len(SubSeq(data, PAYLOAD + 1, end)) = end - PAYLOAD
        /\ \A j \in 1 .. end - PAYLOAD : SubSeq(data, PAYLOAD + 1, end)[j] = data[PAYLOAD + j]
    BY <2>1, <2>2, Piece
  <2>4. QED
    BY <1>7, <2>3, Zenon
<1>12. ASSUME NEW j \in 1 .. length - PAYLOAD, PAYLOAD + j <= num
       PROVE  payload[j] = got[PAYLOAD + j]
  <2>1. payload[j] = data[PAYLOAD + j]
    <3>1. j \in 1 .. end - PAYLOAD
      BY <1>1, <1>2, <1>7
    <3>2. QED
      BY <1>11, <3>1
  <2>2. PAYLOAD + j \in 1 .. num
    BY <1>2, <1>5, <1>12
  <2>3. QED
    BY <1>10, <2>1, <2>2
<1>13. end - PAYLOAD = length - PAYLOAD + 1
  BY <1>1, <1>2, <1>7
<1>14. QED
  BY <1>1, <1>2, <1>4, <1>5, <1>8, <1>9, <1>10, <1>11, <1>12, <1>13
     DEF got, num, rest, data, len

\* A packet of a legal size is pushed, or the end of the file is met.
LEMMA ReadStep ==
    ASSUME ReaderInv, ReadPacket
    PROVE  ReaderInv'
<1> DEFINE file == Head(files)
           len == Len(bytes)
           n == Len(file.records)
           num == Len(packets)
           legal == LegalRecords(file)
           got(length) == Fread(DataAt, length)
           data(length) == got(length) \o SubSeq(pData, Len(got(length)) + 1, Len(pData))
<1>1. pc = "loop" /\ eof = FALSE
  BY DEF ReadPacket, ReaderInv, ReaderTypes
<1>2. PICK length \in Lengths :
        /\ Holds(length, Fread(LengthAt, 4), pLength)
        /\ Accepts(length)
        /\ pLength' = length
        /\ pos' = Seek(DataAt, length)
        /\ eof' = Short(got(length), length)
        /\ pData' = data(length)
        /\ packets' = Append(packets, Payload(length, data(length)))
  BY DEF ReadPacket
<1>held. Holds(length, Fread(LengthAt, 4), pLength) /\ Accepts(length)
  BY <1>2
<1>there. pos' = Seek(DataAt, length) /\ pLength' = length
  BY <1>2
<1>3. files' = files /\ bytes' = bytes /\ pc' = pc
  BY DEF ReadPacket
<1>4. /\ file \in AllFiles /\ Seek(DataAt, length) \in 0 .. len /\ n \in Nat /\ len \in Nat
      /\ DataAt \in 0 .. len
  BY <1>1, LoopTypes, FileRecords
<1>5. /\ length \in Nat /\ length > PAYLOAD /\ length > 0
      /\ Len(got(length)) \in Nat
      /\ Len(got(length)) = Clip(DataAt + length, len) - DataAt
      /\ data(length) \in Seq(Datum) /\ Len(data(length)) = MAX_PACKET + 1
      /\ Payload(length, data(length)) \in Seq(Datum)
      /\ Len(Payload(length, data(length))) = length - PAYLOAD + 1
      /\ \A j \in 1 .. length - PAYLOAD :
           PAYLOAD + j <= Len(got(length)) =>
             Payload(length, data(length))[j] = got(length)[PAYLOAD + j]
  <2>1. PAYLOAD \in Nat
    BY PcapReaderAssumption
  <2>2. length \in Nat /\ length > PAYLOAD
    BY <1>1, <1>held, ReadData
  <2>3. length > 0
    BY <2>1, <2>2
  <2>4. QED
    BY <1>1, <1>held, <2>2, <2>3, ReadData
<1> DEFINE payload == Payload(length, data(length))
<1> HIDE DEF got, data, payload
<1>size. length \in Nat /\ PAYLOAD \in Nat /\ length > PAYLOAD /\ length > 0
  BY <1>5, PcapReaderAssumption
<1>6. packets \in Seq(Seq(Datum)) /\ num \in Nat
  BY <1>1 DEF ReaderInv, ReaderTypes
<1>7. /\ packets' = Append(packets, payload) /\ payload \in Seq(Datum)
      /\ Len(payload) = length - PAYLOAD + 1
  BY <1>2, <1>5 DEF payload
<1>8. /\ packets' \in Seq(Seq(Datum)) /\ Len(packets') = num + 1
      /\ DOMAIN packets' = 1 .. num + 1
      /\ packets'[num + 1] = payload
      /\ \A j \in 1 .. num : packets'[j] = packets[j]
  BY <1>6, <1>7
<1>9. ReaderTypes'
  <2>1. pos' \in 0 .. Len(bytes') /\ pLength' \in Lengths
    BY <1>2, <1>3, <1>4
  <2>2. eof' \in BOOLEAN
    BY <1>2 DEF Short
  <2>3. pData' \in Seq(Datum) /\ Len(pData') = MAX_PACKET + 1
    BY <1>2, <1>5
  <2>4. ReaderTypes
    BY DEF ReaderInv
  <2>5. QED
    BY <1>1, <1>3, <1>8, <2>1, <2>2, <2>3, <2>4 DEF ReaderTypes
<1>10. eof' <=> Len(got(length)) < length
  BY <1>2 DEF Short
<1>11. ASSUME Captured(file)
       PROVE  NoMoreThanPassed(file, len, pos', eof', Len(packets'))
  <2>1. NoMoreThanPassed(file, len, pos, eof, num)
    BY <1>1, <1>11 DEF ReaderInv
  <2>2. PICK k \in 0 .. n : AtRecord(file, len, pos, k) /\ num <= Count(file)[k]
    BY <1>1, <2>1 DEF NoMoreThanPassed
  <2> DEFINE s == Start(file)[k + 1]
             r == file.records[k + 1]
  <2>3. /\ Count(file)[k] \in Nat /\ Count(file)[n] \in Nat /\ Count(file)[k] <= Count(file)[n]
        /\ k < n /\ Legal(r) => Count(file)[k + 1] = Count(file)[k] + 1
    BY <1>4, NextCount
  <2>4. /\ s \in Nat /\ DataAt = Clip(s + 20, len)
        /\ k < n /\ s + 16 <= len => length = r.orig
        /\ k = n => len <= s
    BY <1>1, <1>held, <2>2, ReadLength
  <2>5. CASE eof'
    <3>1. Len(packets') <= Count(file)[n] + 1
      <4> DEFINE c == Count(file)[k]
                 d == Count(file)[n]
      <4>1. c \in Nat /\ d \in Nat /\ c <= d /\ num <= c /\ num \in Nat
        BY <1>6, <2>2, <2>3
      <4> HIDE DEF c, d, num
      <4>2. num + 1 <= d + 1
        BY <4>1
      <4>3. QED
        BY <1>8, <4>2 DEF d
    <3>2. QED
      BY <2>5, <3>1 DEF NoMoreThanPassed
  <2>6. CASE ~eof'
    <3> HIDE DEF s
    <3>1. s + 20 < len
      <4>1. Clip(DataAt + length, len) - DataAt >= length
        BY <1>4, <1>5, <1>10, <2>6
      <4> HIDE DEF len
      <4>2. DataAt + length <= len
        BY <1>4, <1>5, <4>1 DEF Clip
      <4>3. QED
        BY <1>4, <1>5, <2>4, <4>2 DEF Clip
    <3>2. k < n /\ k + 1 \in 0 .. n
      <4>1. k # n
        <5> HIDE DEF len
        <5>1. QED
          BY <1>4, <2>4, <3>1
      <4> HIDE DEF n
      <4>2. QED
        BY <1>4, <4>1
    <3>3. s + 16 <= len
      <4> HIDE DEF len
      <4>1. QED
        BY <1>4, <2>4, <3>1
    <3>4. Legal(r)
      <4>1. length = r.orig
        BY <2>4, <3>2, <3>3
      <4>2. QED
        BY <1>held, <1>size, <4>1, PcapReaderAssumption DEF Legal, Accepts
    <3>5. Len(packets') <= Count(file)[k + 1]
      <4>1. Count(file)[k + 1] = Count(file)[k] + 1
        BY <2>3, <3>2, <3>4
      <4> DEFINE c == Count(file)[k]
      <4>2. c \in Nat /\ num \in Nat /\ num <= c
        BY <1>6, <2>2, <2>3
      <4> HIDE DEF c, num
      <4>3. num + 1 <= c + 1
        BY <4>2
      <4>4. QED
        BY <1>8, <4>1, <4>3 DEF c
    <3>6. AtRecord(file, len, pos', k + 1)
      BY <1>1, <1>held, <1>there, <1>11, <2>2, <3>2, NextRecord
    <3>7. QED
      BY <2>6, <3>2, <3>5, <3>6 DEF NoMoreThanPassed
  <2>7. QED
    BY <2>5, <2>6
<1>12. ASSUME Captured(file), Whole(file)
       PROVE  /\ AllOfPassed(file, len, pos', eof', length, packets')
              /\ RightPayloads(file, packets')
  <2>1. AllOfPassed(file, len, pos, eof, pLength, packets) /\ RightPayloads(file, packets)
    BY <1>1, <1>12 DEF ReaderInv
  <2>2. PICK k \in 0 .. n :
          /\ AtRecord(file, len, pos, k)
          /\ num = Count(file)[k]
          /\ k = n /\ ~eof => ~Accepts(pLength)
    BY <2>1 DEF AllOfPassed
  <2> DEFINE r == file.records[k + 1]
  <2>3. k < n /\ k + 1 \in 0 .. n
    <3>1. ASSUME k = n PROVE FALSE
      <4>1. length = pLength
        BY <1>1, <1>held, <2>2, <3>1, ReadLength
      <4>2. QED
        BY <1>1, <1>held, <2>2, <3>1, <4>1, Zenon
    <3> HIDE DEF n
    <3>2. QED
      BY <1>4, <3>1
  <2>4. /\ r.orig \in Nat /\ length = r.orig
        /\ k + 1 < n => Len(got(length)) >= length
        /\ k + 1 = n /\ length > 0 => Len(got(length)) < length
        /\ \A j \in 1 .. length - 4 :
             /\ j <= Len(got(length))
             /\ got(length)[j] = <<"data", r.data, j + 4>>
    BY <1>1, <1>held, <1>12, <2>2, <2>3, WholeRecord DEF got
  <2>5. Legal(r)
    BY <1>held, <1>size, <2>4, PcapReaderAssumption DEF Legal, Accepts
  <2>6. num + 1 = Count(file)[k + 1] /\ legal[num + 1] = r
    <3>1. /\ Count(file)[k + 1] = Count(file)[k] + 1
          /\ legal[Count(file)[k + 1]] = r
      BY <1>4, <2>3, <2>5, NextCount
    <3>2. num = Count(file)[k]
      BY <2>2
    <3> HIDE DEF num, legal, r, file
    <3>3. QED
      BY <3>1, <3>2
  <2>7. AtRecord(file, len, pos', k + 1)
    BY <1>1, <1>held, <1>there, <1>12, <2>2, <2>3, NextRecord
  <2>8. eof' <=> k + 1 = n
    <3> DEFINE g == Len(got(length))
    <3>1. /\ k + 1 < n => g >= length
          /\ k + 1 = n => g < length
          /\ g \in Nat /\ (eof' <=> g < length)
      BY <1>5, <1>10, <2>4
    <3>2. k + 1 < n \/ k + 1 = n
      <4> HIDE DEF n
      <4>1. QED
        BY <1>4, <2>3
    <3> HIDE DEF g
    <3>3. QED
      BY <1>5, <3>1, <3>2
  <2>9. AllOfPassed(file, len, pos', eof', length, packets')
    BY <1>8, <2>3, <2>6, <2>7, <2>8 DEF AllOfPassed
  <2>10. OwnBytes(r, payload)
    <3> DEFINE own == r.orig - PAYLOAD - 4
               from == IF PAYLOAD + 4 <= length THEN PAYLOAD + 4 ELSE PAYLOAD
    <3>1. PAYLOAD \in Nat /\ own = length - PAYLOAD - 4
      BY <2>4, PcapReaderAssumption
    <3>2. from \in PAYLOAD .. r.orig
      BY <1>size, <2>4, <3>1
    <3>3. ASSUME NEW j \in 1 .. own
          PROVE  payload[j] = <<"data", r.data, from + j>>
      <4>1. /\ j \in 1 .. length - PAYLOAD /\ PAYLOAD + j \in 1 .. length - 4
            /\ PAYLOAD + 4 <= length
            /\ (PAYLOAD + j) + 4 = (PAYLOAD + 4) + j
        <5> HIDE DEF own
        <5>1. j \in Nat /\ j >= 1 /\ j <= length - PAYLOAD - 4
          BY <1>size, <3>1
        <5>2. QED
          BY <1>size, <5>1
      <4>2. /\ PAYLOAD + j <= Len(got(length))
            /\ got(length)[PAYLOAD + j] = <<"data", r.data, (PAYLOAD + j) + 4>>
        BY <2>4, <4>1
      <4>3. payload[j] = got(length)[PAYLOAD + j]
        BY <1>5, <4>1, <4>2 DEF payload
      <4>4. from + j = (PAYLOAD + j) + 4
        BY <4>1
      <4>5. QED
        BY <4>2, <4>3, <4>4
    <3> HIDE DEF from
    <3>4. QED
      BY <3>2, <3>3 DEF OwnBytes
  <2>11. RightPayloads(file, packets')
    <3>1. ASSUME NEW j \in 1 .. num + 1
          PROVE  /\ Len(packets'[j]) = legal[j].orig - PAYLOAD + 1
                 /\ OwnBytes(legal[j], packets'[j])
      <4>1. CASE j = num + 1
        BY <1>7, <1>8, <2>4, <2>6, <2>10, <4>1
      <4>2. CASE j # num + 1
        <5>1. j \in 1 .. num
          <6> HIDE DEF num
          <6>1. QED
            BY <1>6, <4>2
        <5>2. j \in DOMAIN packets /\ packets'[j] = packets[j]
          BY <1>6, <1>8, <5>1
        <5>3. QED
          BY <2>1, <5>2 DEF RightPayloads
      <4>3. QED
        BY <4>1, <4>2
    <3>2. QED
      BY <1>8, <3>1 DEF RightPayloads
  <2>12. QED
    BY <2>9, <2>11
<1>13. Head(files') = file /\ Len(bytes') = len
  BY <1>3
<1> HIDE DEF file, len
<1>14. QED
  BY <1>2, <1>9, <1>11, <1>12, <1>13 DEF ReaderInv

\* Outside the loop nothing is claimed but that there are files.
LEMMA FileSteps ==
    ASSUME ReaderInv, SkipFile \/ EndOfFile \/ EndOfFiles
    PROVE  ReaderInv'
<1>1. files \in Seq(AllFiles \cup {None})
  BY DEF ReaderInv, ReaderTypes
<1>2. files # <<>> => Tail(files) \in Seq(AllFiles \cup {None})
  BY <1>1
<1>3. CASE SkipFile
  BY <1>2, <1>3 DEF SkipFile, ReaderInv, ReaderTypes
<1>4. CASE EndOfFile
  <2>1. files # <<>>
    BY <1>4 DEF EndOfFile, ReaderInv, ReaderTypes
  <2>2. files' \in Seq(AllFiles \cup {None}) /\ pc' = "open"
    BY <1>2, <1>4, <2>1 DEF EndOfFile
  <2>3. QED
    BY <2>2 DEF ReaderInv, ReaderTypes
<1>5. CASE EndOfFiles
  BY <1>1, <1>5 DEF EndOfFiles, ReaderInv, ReaderTypes
<1>6. QED
  BY <1>3, <1>4, <1>5

\* All of the invariant
THEOREM ReaderInvariant == Spec => []ReaderInv
<1>1. Init => ReaderInv
  BY InitReader
<1>2. ReaderInv /\ [Next]_vars => ReaderInv'
  <2> SUFFICES ASSUME ReaderInv, [Next]_vars
               PROVE  ReaderInv'
    OBVIOUS
  <2>1. CASE SkipFile
    BY <2>1, FileSteps
  <2>2. CASE Open
    BY <2>2, OpenStep
  <2>3. CASE SkipPacket
    BY <2>3, SkipStep
  <2>4. CASE ReadPacket
    BY <2>4, ReadStep
  <2>5. CASE EndOfFile
    BY <2>5, FileSteps
  <2>6. CASE EndOfFiles
    BY <2>6, FileSteps
  <2>7. CASE UNCHANGED vars
    BY <2>7 DEF vars, ReaderInv, ReaderTypes
  <2>8. QED
    BY <2>1, <2>2, <2>3, <2>4, <2>5, <2>6, <2>7 DEF Next
<1>3. QED
  BY <1>1, <1>2, PTL DEF Spec

-----------------------------------------------------------------------------
(* What the project asks of the reader *)

\* Of a whole file that was captured in full, the packets of a legal size are
\* pushed in their order, each from behind what is skipped of it.
THEOREM PacketsArePushedInOrder == Spec => []PacketsInOrder
<1>1. ReaderInv => PacketsInOrder
  <2> DEFINE file == Head(files)
             n == Len(file.records)
             legal == LegalRecords(file)
  <2> SUFFICES ASSUME ReaderInv, pc = "loop", Whole(file), Captured(file)
               PROVE  /\ Len(packets) <= Len(legal)
                      /\ \A k \in DOMAIN packets :
                           /\ Len(packets[k]) = legal[k].orig - PAYLOAD + 1
                           /\ OwnBytes(legal[k], packets[k])
    BY DEF PacketsInOrder
  <2>1. /\ AllOfPassed(file, Len(bytes), pos, eof, pLength, packets)
        /\ RightPayloads(file, packets)
        /\ file \in AllFiles
    BY DEF ReaderInv, ReaderTypes
  <2>2. PICK k \in 0 .. n : Len(packets) = Count(file)[k]
    BY <2>1 DEF AllOfPassed
  <2>3. Len(packets) <= Len(legal)
    BY <2>1, <2>2, NextCount
  <2>4. QED
    BY <2>1, <2>3 DEF RightPayloads
<1>2. QED
  BY <1>1, ReaderInvariant, PTL

\* Of a file that was captured in full, at most one packet is pushed that is
\* not in it, wherever the file is cut off.
THEOREM AtMostOnePhantom == Spec => []OnePhantom
<1>1. ReaderInv => OnePhantom
  <2> DEFINE file == Head(files)
             n == Len(file.records)
             num == Len(packets)
  <2> SUFFICES ASSUME ReaderInv, pc = "loop", Captured(file)
               PROVE  num <= Len(LegalRecords(file)) + 1
    BY DEF OnePhantom
  <2>1. /\ NoMoreThanPassed(file, Len(bytes), pos, eof, num)
        /\ file \in AllFiles /\ packets \in Seq(Seq(Datum))
    BY DEF ReaderInv, ReaderTypes
  <2>2. n \in Nat /\ num \in Nat
    BY <2>1, FileRecords
  <2>3. PICK k \in 0 .. n : num <= Count(file)[n] + 1 \/ num <= Count(file)[k]
    <3>1. n \in 0 .. n
      <4> HIDE DEF n
      <4>1. QED
        BY <2>2
    <3>2. QED
      BY <2>1, <3>1 DEF NoMoreThanPassed
  <2>4. /\ Count(file)[k] \in Nat /\ Count(file)[n] \in Nat /\ Count(file)[k] <= Count(file)[n]
        /\ Count(file)[n] = Len(LegalRecords(file))
    BY <2>1, NextCount
  <2> DEFINE c == Count(file)[k]
             d == Count(file)[n]
  <2>5. c \in Nat /\ d \in Nat /\ c <= d /\ (num <= d + 1 \/ num <= c)
    BY <2>3, <2>4
  <2> HIDE DEF c, d, num
  <2>6. num <= d + 1
    BY <2>2, <2>5
  <2>7. QED
    BY <2>4, <2>6 DEF d
<1>2. QED
  BY <1>1, ReaderInvariant, PTL

\* When such a whole file is left, all of them have been pushed.
THEOREM NoPacketIsLeft == Spec => AllPacketsPushed
<1>1. ReaderInv /\ EndOfFile /\ Whole(Head(files)) /\ Captured(Head(files)) =>
        Len(packets) = Len(LegalRecords(Head(files)))
  <2> DEFINE file == Head(files)
             n == Len(file.records)
  <2> SUFFICES ASSUME ReaderInv, EndOfFile, Whole(file), Captured(file)
               PROVE  Len(packets) = Len(LegalRecords(file))
    OBVIOUS
  <2>1. pc = "loop" /\ eof
    BY DEF EndOfFile
  <2>2. AllOfPassed(file, Len(bytes), pos, eof, pLength, packets) /\ file \in AllFiles
    BY <2>1 DEF ReaderInv, ReaderTypes
  <2>3. Len(packets) = Count(file)[n] /\ n \in 0 .. n
    BY <2>1, <2>2 DEF AllOfPassed
  <2>4. QED
    BY <2>2, <2>3, NextCount
<1>2. QED
  BY <1>1, ReaderInvariant, PTL DEF AllPacketsPushed
=============================================================================
