----------------------------- MODULE PcapReader -----------------------------
(***************************************************************************)
(* How the producer of project4/threadedRE.cpp reads its capture files.    *)
(* What it pushes is what PacketQueue takes for packets.                   *)
(*                                                                         *)
(* A file is its records and how many bytes are cut off its end.  A byte   *)
(* is told apart by the field it belongs to and its place there.  The      *)
(* sizes of the packets and of what is skipped are scaled down.            *)
(***************************************************************************)
EXTENDS Integers, Sequences, SequencesExt

CONSTANTS
    FileLists,      \* the lists of files main() may be given
    None,           \* a file that is missing, or not named .pcap
    Lengths,        \* the numbers a length field may hold
    MIN_PACKET,
    MAX_PACKET,
    PAYLOAD         \* where the payload begins in pData, 52 in the program

\* The lengths of a record are numbers of its header.
IsFile(file) ==
    /\ file.cut \in Nat
    /\ file.records \in Seq(Range(file.records))
    /\ \A r \in Range(file.records) : r.incl \in Lengths /\ r.orig \in Lengths

ASSUME PcapReaderAssumption ==
    /\ PAYLOAD \in Nat /\ MIN_PACKET \in Nat /\ MAX_PACKET \in Nat
    /\ PAYLOAD < MIN_PACKET /\ MIN_PACKET <= MAX_PACKET
    /\ Lengths \subseteq Nat
    /\ \A list \in FileLists :
         /\ list \in Seq(Range(list))
         /\ \A file \in Range(list) \ {None} : IsFile(file)

VARIABLES
    files,          \* the files to read, the current one first
    bytes,          \* of the current file
    pc,             \* "open" or "loop", or "returned"
    pos,            \* the position in the current file, at most its end
    eof,            \* its end-of-file indicator
    pLength,
    pData,          \* the buffer, and the byte behind it
    packets         \* the payloads pushed since the file was opened

vars == <<files, bytes, pc, pos, eof, pLength, pData, packets>>

-----------------------------------------------------------------------------
(* The file and the C library *)

Field(name, value, size) == [k \in 1 .. size |-> <<name, value, k>>]

RecordBytes(r) ==
    Field("ts", r.ts, 8) \o Field("length", r.incl, 4) \o Field("length", r.orig, 4)
        \o Field("data", r.data, r.incl)

\* A global header of 24 bytes, and the records
FileBytes(file) ==
    LET records == [k \in DOMAIN file.records |-> RecordBytes(file.records[k])]
        all == FlattenSeq(<<Field("header", 0, 24)>> \o records)
    IN  SubSeq(all, 1, Len(all) - file.cut)

\* fseek() clears the end-of-file indicator and may go past the end, where
\* there is nothing to read.
Seek(at, offset) == IF at + offset > Len(bytes) THEN Len(bytes) ELSE at + offset

\* What fread() gets; it has met the end of the file if that is less than size.
Fread(at, size) == SubSeq(bytes, at + 1, Seek(at, size))

\* v may be in a number that held old, with what was read into it.
Holds(v, got, old) ==
    /\ got = <<>> => v = old
    /\ \A u \in Lengths : got = Field("length", u, 4) => v = u

Garbage == <<"garbage", 0, 0>>
GarbageData == [k \in 1 .. MAX_PACKET + 1 |-> Garbage]

-----------------------------------------------------------------------------

Init ==
    /\ files \in FileLists
    /\ bytes = <<>>
    /\ pc = "open"
    /\ pos = 0
    /\ eof = FALSE
    /\ pLength = 0
    /\ pData = GarbageData
    /\ packets = <<>>

SkipFile ==
    /\ pc = "open"
    /\ files # <<>>
    /\ Head(files) = None
    /\ files' = Tail(files)
    /\ UNCHANGED <<bytes, pc, pos, eof, pLength, pData, packets>>

\* Of the global header 4 bytes are read and 24 more skipped, to byte 28.  pLength and pData
\* are not initialised.
Open ==
    /\ pc = "open"
    /\ files # <<>>
    /\ Head(files) # None
    /\ pc' = "loop"
    /\ bytes' = FileBytes(Head(files))
    /\ pos' = IF Len(bytes') < 28 THEN Len(bytes') ELSE 28
    /\ eof' = FALSE
    /\ pLength' \in Lengths
    /\ pData' = GarbageData
    /\ packets' = <<>>
    /\ UNCHANGED files

\* The length is read behind 8 bytes, and 4 more are skipped.
LengthAt == Seek(pos, 8)

\* Mutant: the last 4 bytes are not skipped
DataAtLength == Seek(LengthAt, 4)

DataAt == Seek(Seek(LengthAt, 4), 4)

\* Mutants: one limit or the other is not included
AcceptsAboveMin(length) == length > MIN_PACKET /\ length <= MAX_PACKET
AcceptsBelowMax(length) == length >= MIN_PACKET /\ length < MAX_PACKET

Accepts(length) == length >= MIN_PACKET /\ length <= MAX_PACKET

SkipPacket ==
    /\ pc = "loop"
    /\ ~eof
    /\ \E length \in Lengths :
         /\ Holds(length, Fread(LengthAt, 4), pLength)
         /\ ~Accepts(length)
         /\ pLength' = length
         /\ pos' = Seek(DataAt, length)
    /\ UNCHANGED <<files, bytes, pc, eof, pData, packets>>

\* From PAYLOAD on, length - PAYLOAD + 1 bytes
Payload(length, data) == SubSeq(data, PAYLOAD + 1, length + 1)

\* Mutant: the end of the file is not noticed
ShortNever(got, length) == FALSE

Short(got, length) == Len(got) < length

\* A packet that is not read in full is pushed as well if the file ends in it.
ReadPacket ==
    /\ pc = "loop"
    /\ ~eof
    /\ \E length \in Lengths :
         LET got == Fread(DataAt, length)
             data == got \o SubSeq(pData, Len(got) + 1, Len(pData))
         IN  /\ Holds(length, Fread(LengthAt, 4), pLength)
             /\ Accepts(length)
             /\ pLength' = length
             /\ pos' = Seek(DataAt, length)
             /\ eof' = Short(got, length)
             /\ pData' = data
             /\ packets' = Append(packets, Payload(length, data))
    /\ UNCHANGED <<files, bytes, pc>>

EndOfFile ==
    /\ pc = "loop"
    /\ eof
    /\ files' = Tail(files)
    /\ pc' = "open"
    /\ UNCHANGED <<bytes, pos, eof, pLength, pData, packets>>

EndOfFiles ==
    /\ pc = "open"
    /\ files = <<>>
    /\ pc' = "returned"
    /\ UNCHANGED <<files, bytes, pos, eof, pLength, pData, packets>>

Next == SkipFile \/ Open \/ SkipPacket \/ ReadPacket \/ EndOfFile \/ EndOfFiles

Spec == Init /\ [][Next]_vars /\ WF_vars(Next)

-----------------------------------------------------------------------------

\* A file with packets and not cut; all its packets captured in full; those of
\* a legal size
Whole(file) == file.cut = 0 /\ file.records # <<>>
Captured(file) == \A k \in DOMAIN file.records : file.records[k].incl = file.records[k].orig
Legal(r) == r.orig \in MIN_PACKET .. MAX_PACKET
LegalRecords(file) ==
    FlattenSeq([k \in DOMAIN file.records |->
                  IF Legal(file.records[k]) THEN <<file.records[k]>> ELSE <<>>])

\* The bytes a record's payload has of its own, next to each other: it ends
\* with 4 bytes of what follows in the file and one that was in pData before.
OwnBytes(r, payload) ==
    \E from \in PAYLOAD .. r.orig :
        \A j \in 1 .. r.orig - PAYLOAD - 4 : payload[j] = <<"data", r.data, from + j>>

\* Although each header is read 4 bytes late, so that it is the length on the
\* wire that is read and not the captured one (threadedRE.cpp:202-212), the
\* payloads pushed are those of the packets of a legal size, in order, as long as all
\* packets were captured in full.
PacketsInOrder ==
    pc = "loop" /\ Whole(Head(files)) /\ Captured(Head(files)) =>
        LET legal == LegalRecords(Head(files))
        IN  /\ Len(packets) <= Len(legal)
            /\ \A k \in DOMAIN packets :
                /\ Len(packets[k]) = legal[k].orig - PAYLOAD + 1
                /\ OwnBytes(legal[k], packets[k])

\* When such a file ends, all of them have been pushed.
AllPacketsPushed ==
    [][EndOfFile /\ Whole(Head(files)) /\ Captured(Head(files)) =>
          Len(packets) = Len(LegalRecords(Head(files)))]_vars

\* fseek() clears the end-of-file indicator that feof() is to see
\* (threadedRE.cpp:207-212): nevertheless at most one packet is pushed that is
\* not in the file, whether the file has no packets or is cut anywhere.
OnePhantom ==
    pc = "loop" /\ Captured(Head(files)) =>
        Len(packets) <= Len(LegalRecords(Head(files))) + 1

\* The loop of threadedRE.cpp:208 ends if the last packet of each file has
\* a legal size: reading it goes 4 bytes past the end.
ReadingEnds ==
    (\A f \in DOMAIN files : files[f] # None =>
        Whole(files[f]) /\ Captured(files[f]) /\ Legal(Last(files[f].records)))
    ~> pc = "returned"

\* Refuted: any complete file is read to its end.
ReadingAlwaysEnds ==
    (\A f \in DOMAIN files : files[f] # None => Whole(files[f]) /\ Captured(files[f]))
    ~> pc = "returned"

\* Refuted: packets with the same bytes are pushed with the same bytes.
RepeatsLookAlike ==
    pc = "loop" /\ Whole(Head(files)) /\ Captured(Head(files)) =>
        LET legal == LegalRecords(Head(files))
        IN  \A j, k \in DOMAIN packets :
                /\ legal[j].data = legal[k].data
                /\ legal[j].orig = legal[k].orig
                => packets[j] = packets[k]

=============================================================================
