---------------------------- MODULE SnapFileProofs ----------------------------
(* With one daemon the snapshot file is an atomic register, whatever the   *)
(* number of readers, of inodes and of chunks.                             *)
EXTENDS SnapFile, TLAPS

OneWriter == \A v, w \in Writers : v = w

File   == [len : 0..N, data : Content]
Writer == [at : {"idle", "open", "write"}, inode : Inodes \cup {None},
           off : 0..N, version : 0..MaxVersion]
Reader == [at : {"idle", "open", "read"}, inode : Inodes \cup {None},
           buf : Content, off : 0..N]

(* ------------------------------ types ---------------------------------- *)

LEMMA SnapInitTypes == Init => TypeOK
<1>1. Blank \in Content /\ 0 \in 0..N /\ 1 \in Chunks
  BY SnapAssumption DEF Blank, Content, Chunks
<1> QED  BY <1>1, SnapAssumption DEF Init, TypeOK, NoWriter, NoReader

(* An open file is an inode.                                               *)
ReadsFile == \A r \in Readers : reader[r].at = "read" => reader[r].inode \in Inodes

LEMMA SnapStepTypes == TypeOK /\ ReadsFile /\ [Next]_vars => TypeOK'
<1> SUFFICES ASSUME TypeOK, ReadsFile, [Next]_vars PROVE TypeOK'
  OBVIOUS
<1> USE DEF File, Writer, Reader
<1>0. /\ Blank \in Content /\ 0 \in 0..N /\ [len |-> 0, data |-> Blank] \in File
      /\ NoWriter \in Writer /\ NoReader \in Reader
  BY SnapAssumption DEF Blank, Content, Chunks, NoWriter, NoReader
<1>1. ASSUME NEW w \in Writers, Sample(w) PROVE TypeOK'
  <2>1. taken' \in 0..MaxVersion /\ taken + 1 \in 0..MaxVersion
    BY <1>1, SnapAssumption DEF Sample, TypeOK
  <2>2. [NoWriter EXCEPT !.at = "open", !.version = taken + 1] \in Writer
    BY <1>0, <1>1, <2>1 DEF Sample
  <2> QED  BY <1>1, <2>1, <2>2 DEF Sample, TypeOK
<1>2. ASSUME NEW w \in Writers, OpenTmp(w) PROVE TypeOK'
  <2>1. PICK i \in Inodes :
          /\ tmp' = i
          /\ file' = [file EXCEPT ![i] = [len |-> 0, data |-> Blank]]
          /\ writer' = [writer EXCEPT ![w].at = "write", ![w].inode = i]
    BY <1>2 DEF OpenTmp
  <2>2. [writer[w] EXCEPT !.at = "write", !.inode = i] \in Writer
    BY DEF TypeOK
  <2> QED  BY <1>0, <1>2, <2>1, <2>2 DEF OpenTmp, TypeOK
<1>3. ASSUME NEW w \in Writers, WriteChunk(w) PROVE TypeOK'
  <2> DEFINE i == writer[w].inode
             k == writer[w].off + 1
             f == [len  |-> IF file[i].len > k THEN file[i].len ELSE k,
                   data |-> [file[i].data EXCEPT ![k] = writer[w].version]]
  <2>1. k \in 0..N /\ k \in Chunks /\ writer[w] \in Writer
    BY <1>3, SnapAssumption DEF WriteChunk, TypeOK, Chunks
  <2>2. [writer[w] EXCEPT !.off = k] \in Writer
    BY <2>1
  <2>3. i \in Inodes => f \in File
    BY <2>1 DEF TypeOK, Content
  <2>4. file' \in [Inodes -> File]
    <3>1. CASE i \in Inodes
      BY <1>3, <2>3, <3>1 DEF WriteChunk, TypeOK
    <3>2. CASE i \notin Inodes
      BY <1>3, <3>2 DEF WriteChunk, TypeOK
    <3> QED  BY <3>1, <3>2
  <2>5. writer' \in [Writers -> Writer]
    BY <1>3, <2>2 DEF WriteChunk, TypeOK
  <2> QED  BY <1>3, <2>4, <2>5 DEF WriteChunk, TypeOK
<1>4. ASSUME NEW w \in Writers, Rename(w) PROVE TypeOK'
  <2>1. writer[w].version \in 0..MaxVersion
    BY DEF TypeOK
  <2> QED  BY <1>0, <1>4, <2>1 DEF Rename, TypeOK
<1>5. ASSUME NEW w \in Writers, Abandon(w) PROVE TypeOK'
  BY <1>0, <1>5 DEF Abandon, TypeOK
<1>6. CASE UnlinkBin
  BY <1>6 DEF UnlinkBin, TypeOK
<1>7. ASSUME NEW r \in Readers, Stat(r) PROVE TypeOK'
  <2>1. [reader[r] EXCEPT !.at = "open"] \in Reader
    BY DEF TypeOK
  <2> QED  BY <1>7, <2>1 DEF Stat, TypeOK
<1>8. ASSUME NEW r \in Readers, OpenBin(r) PROVE TypeOK'
  <2>1. bin \in Inodes => [NoReader EXCEPT !.at = "read", !.inode = bin] \in Reader
    BY <1>0
  <2> QED  BY <1>0, <1>8, <2>1 DEF OpenBin, TypeOK
<1>9. ASSUME NEW r \in Readers, ReadChunk(r), reader[r].inode \in Inodes PROVE TypeOK'
  <2> DEFINE i == reader[r].inode
             k == reader[r].off + 1
  <2>1. k \in 0..N /\ k \in Chunks /\ file[i].data[k] \in Nat /\ reader[r] \in Reader
    <3>1. reader[r] \in Reader /\ file[i] \in File
      BY <1>9 DEF TypeOK
    <3>2. k \in Nat /\ k >= 1 /\ k <= N
      BY <1>9, <3>1, SnapAssumption DEF ReadChunk
    <3> QED  BY <3>1, <3>2, SnapAssumption DEF Chunks, Content
  <2>2. [reader[r].buf EXCEPT ![k] = file[i].data[k]] \in Content
    BY <2>1 DEF Content
  <2>3. [reader[r] EXCEPT !.buf = [reader[r].buf EXCEPT ![k] = file[i].data[k]], !.off = k]
           \in Reader
    BY <2>1, <2>2
  <2>4. reader' = [reader EXCEPT ![r] =
            [reader[r] EXCEPT !.buf = [reader[r].buf EXCEPT ![k] = file[i].data[k]], !.off = k]]
    BY <1>9 DEF ReadChunk, TypeOK
  <2>5. reader' \in [Readers -> Reader]
    BY <2>3, <2>4 DEF TypeOK
  <2> QED  BY <1>9, <2>5 DEF ReadChunk, TypeOK
<1>10. ASSUME NEW r \in Readers, EndRead(r) PROVE TypeOK'
  BY <1>0, <1>10 DEF EndRead, TypeOK
<1>11. CASE UNCHANGED vars
  BY <1>11 DEF vars, TypeOK
<1> QED
  BY <1>1, <1>2, <1>3, <1>4, <1>5, <1>6, <1>7, <1>8, <1>9, <1>10, <1>11
  DEF Next, ReadsFile, ReadChunk

(* --------------------- whole reads, atomic register --------------------- *)

(* The daemon's own file: named snap.tmp, seen by nobody else, written up  *)
(* to the offset with a snapshot younger than any in place.                *)
WriterOwnsTmp ==
    \A w \in Writers :
        /\ writer[w].at # "write" => writer[w].inode = None /\ writer[w].off = 0
        /\ writer[w].at # "idle" => writer[w].version > top /\ writer[w].version <= taken
        /\ writer[w].at = "write" =>
            /\ writer[w].inode = tmp /\ tmp # None
            /\ file[tmp].len = writer[w].off
            /\ \A k \in 1..writer[w].off : file[tmp].data[k] = writer[w].version

(* A file that has been renamed into place is whole and does not change.   *)
Placed(i) == i # tmp /\ file[i].len = N /\ Whole(file[i].data) /\ file[i].data[1] <= top

BinPlaced == bin # None => Placed(bin) /\ file[bin].data[1] = top

(* A reader holds such a file, and has copied a part of it.                *)
Holds(r) ==
    /\ reader[r].at = "read" =>
        /\ reader[r].inode \in Inodes /\ Placed(reader[r].inode)
        /\ \A k \in 1..reader[r].off : reader[r].buf[k] = file[reader[r].inode].data[k]
    /\ reader[r].at # "read" => reader[r].inode = None

ReadersHoldPlaced == \A r \in Readers : Holds(r)

SnapInv ==
    TypeOK /\ top <= taken /\ WriterOwnsTmp /\ BinPlaced /\ ReadersHoldPlaced /\ NoTornRead

LEMMA SnapInvInit == Init => SnapInv
<1> SUFFICES ASSUME Init PROVE SnapInv
  OBVIOUS
<1>1. TypeOK
  BY SnapInitTypes
<1> QED
  BY <1>1, SnapAssumption DEF Init, SnapInv, WriterOwnsTmp, BinPlaced, ReadersHoldPlaced, Holds,
     NoTornRead, NoWriter, NoReader

LEMMA ReadsFiles == SnapInv => ReadsFile
BY DEF SnapInv, ReadersHoldPlaced, Holds, ReadsFile

LEMMA Versions ==
    ASSUME TypeOK
    PROVE  /\ top \in Nat /\ taken \in Nat /\ N \in Nat /\ N >= 1 /\ 1 \in Chunks
           /\ \A w \in Writers : writer[w].version \in Nat /\ writer[w].off \in 0..N
           /\ \A r \in Readers : reader[r].off \in 0..N
           /\ \A i \in Inodes : file[i].data[1] \in Nat
<1>1. top \in Nat /\ taken \in Nat /\ N \in Nat /\ N >= 1 /\ 1 \in Chunks
  BY SnapAssumption DEF TypeOK, Chunks
<1>2. ASSUME NEW w \in Writers PROVE writer[w].version \in Nat /\ writer[w].off \in 0..N
  <2>1. writer[w] \in Writer
    BY DEF TypeOK, Writer
  <2> QED  BY <2>1, SnapAssumption DEF Writer
<1>3. ASSUME NEW r \in Readers PROVE reader[r].off \in 0..N
  <2>1. reader[r] \in Reader
    BY DEF TypeOK, Reader
  <2> QED  BY <2>1 DEF Reader
<1>4. ASSUME NEW i \in Inodes PROVE file[i].data[1] \in Nat
  <2>1. file[i] \in File
    BY DEF TypeOK, File
  <2>2. file[i].data \in [Chunks -> Nat]
    BY <2>1 DEF File, Content
  <2> QED  BY <1>1, <2>2
<1> QED  BY <1>1, <1>2, <1>3, <1>4

(* A file in place stays in place while its content, and the name snap.tmp,*)
(* are left alone.                                                         *)
LEMMA StaysPlaced ==
    ASSUME TypeOK, TypeOK', top' >= top, NEW i \in Inodes, Placed(i), file'[i] = file[i], tmp' # i
    PROVE  Placed(i)'
BY Versions DEF Placed, Whole, TypeOK

LEMMA StaysHeld ==
    ASSUME SnapInv, TypeOK', top' >= top, NEW r \in Readers, reader' = reader,
           reader[r].at = "read" =>
              file'[reader[r].inode] = file[reader[r].inode] /\ tmp' # reader[r].inode
    PROVE  Holds(r)'
<1>0. Holds(r)
  BY DEF SnapInv, ReadersHoldPlaced, Holds
<1>1. CASE reader[r].at = "read"
  <2>1. reader[r].inode \in Inodes /\ Placed(reader[r].inode)
    BY <1>0, <1>1 DEF Holds
  <2>2. Placed(reader[r].inode)'
    BY <1>1, <2>1, StaysPlaced DEF SnapInv
  <2>3. \A k \in 1..reader[r].off : reader[r].buf[k] = file[reader[r].inode].data[k]
    BY <1>0, <1>1 DEF Holds
  <2>4. \A k \in 1..reader'[r].off : reader'[r].buf[k] = file'[reader'[r].inode].data[k]
    BY <1>1, <2>3
  <2> QED  BY <1>1, <2>1, <2>2, <2>4 DEF Holds
<1>2. CASE reader[r].at # "read"
  BY <1>0, <1>2 DEF Holds
<1> QED  BY <1>1, <1>2

(* A read that has come to the end of its file has the whole of it.        *)
LEMMA ReadIsWhole ==
    ASSUME SnapInv, NEW r \in Readers, EndRead(r)
    PROVE  /\ reader[r].off = N /\ Whole(reader[r].buf)
           /\ reader[r].buf[1] = file[reader[r].inode].data[1]
<1> DEFINE i == reader[r].inode
<1>1. TypeOK /\ N \in Nat /\ N >= 1 /\ reader[r].off \in 0..N
  BY Versions DEF SnapInv
<1>2. Placed(i) /\ \A k \in 1..reader[r].off : reader[r].buf[k] = file[i].data[k]
  BY DEF EndRead, SnapInv, ReadersHoldPlaced, Holds
<1>3. reader[r].off = N
  BY <1>1, <1>2 DEF EndRead, Placed
<1>4. \A k \in Chunks : reader[r].buf[k] = file[i].data[k]
  BY <1>2, <1>3 DEF Chunks
<1> QED  BY <1>1, <1>2, <1>3, <1>4 DEF Placed, Whole, Chunks

LEMMA SnapInvStep == OneWriter /\ SnapInv /\ [Next]_vars => SnapInv'
<1> SUFFICES ASSUME OneWriter, SnapInv, [Next]_vars PROVE SnapInv'
  OBVIOUS
<1>t. TypeOK /\ TypeOK'
  BY ReadsFiles, SnapStepTypes DEF SnapInv
<1>v. top \in Nat /\ taken \in Nat /\ top <= taken /\ N \in Nat /\ N >= 1 /\ 1 \in Chunks
  BY <1>t, Versions DEF SnapInv
<1>1. ASSUME NEW w \in Writers, Sample(w) PROVE SnapInv'
  <2>1. UNCHANGED <<tmp, bin, file, reader, got, top>> /\ taken' = taken + 1
    BY <1>1 DEF Sample
  <2>2. writer'[w].at = "open" /\ writer'[w].inode = None /\ writer'[w].off = 0
        /\ writer'[w].version = taken + 1 /\ \A v \in Writers : v = w
    BY <1>t, <1>1 DEF Sample, NoWriter, TypeOK, OneWriter
  <2>3. WriterOwnsTmp'
    BY <1>v, <2>1, <2>2 DEF WriterOwnsTmp
  <2>4. BinPlaced' /\ ReadersHoldPlaced' /\ NoTornRead'
    BY <2>1 DEF SnapInv, BinPlaced, ReadersHoldPlaced, Holds, NoTornRead, Placed
  <2> QED  BY <1>t, <1>v, <2>1, <2>3, <2>4 DEF SnapInv
<1>2. ASSUME NEW w \in Writers, OpenTmp(w) PROVE SnapInv'
  <2>1. PICK i \in Inodes :
          /\ IF tmp # None THEN i = tmp ELSE Free(i)
          /\ tmp' = i
          /\ file' = [file EXCEPT ![i] = [len |-> 0, data |-> Blank]]
          /\ writer' = [writer EXCEPT ![w].at = "write", ![w].inode = i]
    BY <1>2 DEF OpenTmp
  <2>2. UNCHANGED <<bin, reader, got, taken, top>> /\ writer[w].at = "open"
    BY <1>2 DEF OpenTmp
  <2>3. writer'[w].at = "write" /\ writer'[w].inode = i /\ writer'[w].off = 0
        /\ writer'[w].version = writer[w].version /\ \A v \in Writers : v = w
    BY <1>t, <2>1, <2>2 DEF TypeOK, OneWriter, SnapInv, WriterOwnsTmp
  <2>4. i # bin /\ \A r \in Readers : reader[r].at = "read" => reader[r].inode # i
    BY <1>t, <2>1, SnapAssumption DEF Free, SnapInv, BinPlaced, ReadersHoldPlaced, Holds, Placed
  <2>5. file'[i].len = 0 /\ \A j \in Inodes \ {i} : file'[j] = file[j]
    BY <1>t, <2>1 DEF TypeOK
  <2>6. WriterOwnsTmp'
    <3>1. writer[w].version > top /\ writer[w].version <= taken
      BY <2>2 DEF SnapInv, WriterOwnsTmp
    <3>2. \A k \in 1..0 : file'[tmp'].data[k] = writer'[w].version
      OBVIOUS
    <3>3. tmp' # None
      BY <2>1, SnapAssumption
    <3> QED  BY <2>1, <2>2, <2>3, <2>5, <3>1, <3>2, <3>3 DEF WriterOwnsTmp
  <2>7. BinPlaced'
    BY <1>t, <1>v, <2>1, <2>2, <2>4, <2>5, StaysPlaced DEF SnapInv, BinPlaced, TypeOK
  <2>8. ReadersHoldPlaced' /\ NoTornRead'
    <3>1. \A r \in Readers : reader[r].at = "read" =>
             file'[reader[r].inode] = file[reader[r].inode] /\ tmp' # reader[r].inode
      BY <2>1, <2>4, <2>5 DEF SnapInv, ReadersHoldPlaced, Holds
    <3>2. ReadersHoldPlaced'
      BY <1>t, <1>v, <2>2, <3>1, StaysHeld DEF ReadersHoldPlaced
    <3> QED  BY <2>2, <3>2 DEF SnapInv, NoTornRead, Whole
  <2> QED  BY <1>t, <1>v, <2>2, <2>6, <2>7, <2>8 DEF SnapInv
<1>3. ASSUME NEW w \in Writers, WriteChunk(w) PROVE SnapInv'
  <2> DEFINE i == writer[w].inode
             k == writer[w].off + 1
  <2>1. UNCHANGED <<tmp, bin, reader, got, taken, top>> /\ writer[w].at = "write" /\ k <= N
    BY <1>3 DEF WriteChunk
  <2>2. i = tmp /\ i \in Inodes /\ tmp # None /\ file[i].len = writer[w].off
        /\ \A v \in Writers : v = w
    BY <1>t, <2>1 DEF SnapInv, WriterOwnsTmp, TypeOK, OneWriter
  <2>3. k \in Chunks /\ file[i].data \in Content /\ writer[w].off \in Nat
    BY <1>t, <1>v, <2>1, <2>2, Versions DEF TypeOK, Chunks
  <2>4. writer'[w].at = "write" /\ writer'[w].inode = i /\ writer'[w].off = k
        /\ writer'[w].version = writer[w].version
    BY <1>t, <1>3, <2>1 DEF WriteChunk, TypeOK
  <2>5. /\ file'[i] = [len |-> k, data |-> [file[i].data EXCEPT ![k] = writer[w].version]]
        /\ \A j \in Inodes \ {i} : file'[j] = file[j]
    BY <1>t, <1>3, <2>2, <2>3 DEF WriteChunk, TypeOK
  <2>6. \A n \in 1..k : file'[i].data[n] = writer[w].version
    <3>1. \A n \in 1..writer[w].off : file[i].data[n] = writer[w].version
      BY <2>1, <2>2 DEF SnapInv, WriterOwnsTmp
    <3>2. file'[i].data = [file[i].data EXCEPT ![k] = writer[w].version]
      BY <2>5
    <3>3. file'[i].data[k] = writer[w].version
      BY <2>3, <3>2 DEF Content
    <3>4. ASSUME NEW n \in 1..writer[w].off PROVE file'[i].data[n] = writer[w].version
      <4>1. n \in Chunks /\ n # k
        BY <1>v, <2>1, <2>3 DEF Chunks
      <4> QED  BY <2>3, <3>1, <3>2, <4>1 DEF Content
    <3>5. \A n \in 1..k : n = k \/ n \in 1..writer[w].off
      BY <2>3
    <3> QED  BY <3>3, <3>4, <3>5
  <2>7. WriterOwnsTmp'
    BY <2>1, <2>2, <2>4, <2>5, <2>6 DEF SnapInv, WriterOwnsTmp
  <2>8. BinPlaced'
    BY <1>t, <1>v, <2>1, <2>2, <2>5, StaysPlaced DEF SnapInv, BinPlaced, Placed, TypeOK
  <2>9. ReadersHoldPlaced' /\ NoTornRead'
    <3>1. \A r \in Readers : reader[r].at = "read" =>
             file'[reader[r].inode] = file[reader[r].inode] /\ tmp' # reader[r].inode
      BY <2>1, <2>2, <2>5 DEF SnapInv, ReadersHoldPlaced, Holds, Placed
    <3>2. ReadersHoldPlaced'
      BY <1>t, <1>v, <2>1, <3>1, StaysHeld DEF ReadersHoldPlaced
    <3> QED  BY <2>1, <3>2 DEF SnapInv, NoTornRead, Whole
  <2> QED  BY <1>t, <1>v, <2>1, <2>7, <2>8, <2>9 DEF SnapInv
<1>4. ASSUME NEW w \in Writers, Rename(w) PROVE SnapInv'
  <2>1. UNCHANGED <<file, reader, got, taken>> /\ writer[w].at = "write" /\ writer[w].off = N
    BY <1>4 DEF Rename
  <2>2. tmp # None /\ tmp \in Inodes /\ file[tmp].len = N /\ writer[w].version > top
        /\ writer[w].version <= taken
        /\ \A k \in Chunks : file[tmp].data[k] = writer[w].version
    BY <1>t, <2>1 DEF SnapInv, WriterOwnsTmp, TypeOK, Chunks
  <2>3. bin' = tmp /\ tmp' = None /\ top' = writer[w].version
        /\ writer'[w] = NoWriter /\ \A v \in Writers : v = w
    BY <1>t, <1>4, <2>2 DEF Rename, TypeOK, OneWriter
  <2>4. writer[w].version \in Nat
    BY <1>t, Versions
  <2>5. WriterOwnsTmp'
    BY <2>3 DEF WriterOwnsTmp, NoWriter
  <2>6. BinPlaced'
    BY <1>v, <2>1, <2>2, <2>3, <2>4 DEF BinPlaced, Placed, Whole
  <2>7. ReadersHoldPlaced' /\ NoTornRead'
    <3>1. \A r \in Readers : reader[r].at = "read" =>
             file'[reader[r].inode] = file[reader[r].inode] /\ tmp' # reader[r].inode
      BY <2>1, <2>3, SnapAssumption DEF SnapInv, ReadersHoldPlaced, Holds
    <3>2. ReadersHoldPlaced'
      BY <1>t, <1>v, <2>1, <2>2, <2>3, <2>4, <3>1, StaysHeld DEF ReadersHoldPlaced
    <3> QED  BY <2>1, <3>2 DEF SnapInv, NoTornRead, Whole
  <2> QED  BY <1>t, <1>v, <2>1, <2>2, <2>3, <2>5, <2>6, <2>7 DEF SnapInv
<1>5. ASSUME NEW w \in Writers, Abandon(w) PROVE SnapInv'
  <2>1. UNCHANGED <<tmp, bin, file, reader, got, taken, top>>
    BY <1>5 DEF Abandon
  <2>2. writer'[w] = NoWriter /\ \A v \in Writers : v = w
    BY <1>t, <1>5 DEF Abandon, TypeOK, OneWriter
  <2>3. WriterOwnsTmp'
    BY <2>2 DEF WriterOwnsTmp, NoWriter
  <2> QED
    BY <1>t, <2>1, <2>3 DEF SnapInv, BinPlaced, ReadersHoldPlaced, Holds, NoTornRead, Placed
<1>6. CASE UnlinkBin
  BY <1>t, <1>6 DEF UnlinkBin, SnapInv, WriterOwnsTmp, BinPlaced, ReadersHoldPlaced, Holds,
     NoTornRead, Placed
<1>7. ASSUME NEW r \in Readers, Stat(r) \/ OpenBin(r) \/ ReadChunk(r) \/ EndRead(r)
      PROVE  UNCHANGED <<tmp, bin, file, writer, taken, top>>
             /\ \A q \in Readers \ {r} : reader'[q] = reader[q] /\ got'[q] = got[q]
  BY <1>t, <1>7 DEF Stat, OpenBin, ReadChunk, EndRead, TypeOK
<1>8. ASSUME NEW r \in Readers, Stat(r) \/ OpenBin(r) \/ ReadChunk(r) \/ EndRead(r),
             Holds(r)', got'[r] # None => Whole(got'[r])
      PROVE  SnapInv'
  <2>1. UNCHANGED <<tmp, bin, file, writer, taken, top>>
        /\ \A q \in Readers \ {r} : reader'[q] = reader[q] /\ got'[q] = got[q]
    BY <1>7, <1>8
  <2>2. ReadersHoldPlaced'
    <3>1. ASSUME NEW q \in Readers \ {r} PROVE Holds(q)'
      <4>1. Holds(q) /\ reader'[q] = reader[q] /\ UNCHANGED <<file, tmp, top>>
        BY <2>1 DEF SnapInv, ReadersHoldPlaced
      <4> QED  BY <4>1 DEF Holds, Placed
    <3> QED  BY <1>8, <3>1 DEF ReadersHoldPlaced
  <2>3. NoTornRead'
    BY <1>8, <2>1 DEF SnapInv, NoTornRead, Whole
  <2>4. WriterOwnsTmp'
    BY <2>1 DEF SnapInv, WriterOwnsTmp
  <2>5. BinPlaced'
    BY <2>1 DEF SnapInv, BinPlaced, Placed
  <2> QED  BY <1>t, <1>v, <2>1, <2>2, <2>3, <2>4, <2>5 DEF SnapInv
<1>9. ASSUME NEW r \in Readers, Stat(r) PROVE SnapInv'
  <2>1. reader'[r].at = "open" /\ reader'[r].inode = None /\ got'[r] = got[r]
    BY <1>t, <1>9 DEF Stat, TypeOK, SnapInv, ReadersHoldPlaced, Holds
  <2>2. Holds(r)'
    BY <2>1 DEF Holds
  <2> QED  BY <1>8, <1>9, <2>1, <2>2 DEF SnapInv, NoTornRead
<1>10. ASSUME NEW r \in Readers, OpenBin(r) PROVE SnapInv'
  <2>1. got'[r] = got[r]
    BY <1>10 DEF OpenBin
  <2>2. CASE bin = None
    <3>1. reader'[r].at = "idle" /\ reader'[r].inode = None
      BY <1>t, <1>10, <2>2 DEF OpenBin, NoReader, TypeOK
    <3>2. Holds(r)'
      BY <3>1 DEF Holds
    <3> QED  BY <1>8, <1>10, <2>1, <3>2 DEF SnapInv, NoTornRead
  <2>3. CASE bin # None
    <3>1. reader'[r].at = "read" /\ reader'[r].inode = bin /\ reader'[r].off = 0
      BY <1>t, <1>10, <2>3 DEF OpenBin, NoReader, TypeOK
    <3>2. bin \in Inodes /\ Placed(bin)
      BY <1>t, <2>3 DEF SnapInv, BinPlaced, TypeOK
    <3>3. Placed(bin)'
      BY <1>7, <1>10, <3>2 DEF Placed
    <3>4. Holds(r)'
      BY <1>7, <1>10, <3>1, <3>2, <3>3 DEF Holds
    <3> QED  BY <1>8, <1>10, <2>1, <3>4 DEF SnapInv, NoTornRead
  <2> QED  BY <2>2, <2>3
<1>11. ASSUME NEW r \in Readers, ReadChunk(r) PROVE SnapInv'
  <2> DEFINE i == reader[r].inode
             k == reader[r].off + 1
  <2>1. got'[r] = got[r] /\ reader[r].at = "read" /\ k <= file[i].len
    BY <1>11 DEF ReadChunk
  <2>2. i \in Inodes /\ Placed(i)
        /\ \A n \in 1..reader[r].off : reader[r].buf[n] = file[i].data[n]
    BY <2>1 DEF SnapInv, ReadersHoldPlaced, Holds
  <2>3. k \in Chunks /\ reader[r].buf \in Content /\ reader[r].off \in Nat
    <3>1. reader[r] \in Reader /\ reader[r].off \in 0..N /\ file[i].len = N
      BY <1>t, <2>2 DEF TypeOK, Reader, Placed
    <3> QED  BY <1>v, <2>1, <3>1 DEF Reader, Chunks
  <2>4. reader'[r] = [reader[r] EXCEPT !.buf = [reader[r].buf EXCEPT ![k] = file[i].data[k]],
                                       !.off = k]
    BY <1>t, <1>11 DEF ReadChunk, TypeOK
  <2>5. reader'[r].at = "read" /\ reader'[r].inode = i /\ reader'[r].off = k
        /\ reader'[r].buf = [reader[r].buf EXCEPT ![k] = file[i].data[k]]
    BY <1>t, <2>1, <2>4 DEF TypeOK
  <2>6. \A n \in 1..k : reader'[r].buf[n] = file[i].data[n]
    <3>1. reader'[r].buf[k] = file[i].data[k]
      BY <2>3, <2>5 DEF Content
    <3>2. ASSUME NEW n \in 1..reader[r].off PROVE reader'[r].buf[n] = file[i].data[n]
      <4>1. n \in Chunks /\ n # k
        BY <1>v, <2>3 DEF Chunks
      <4> QED  BY <2>2, <2>3, <2>5, <4>1 DEF Content
    <3>3. \A n \in 1..k : n = k \/ n \in 1..reader[r].off
      BY <2>3
    <3> QED  BY <3>1, <3>2, <3>3
  <2>7. Holds(r)'
    BY <1>7, <1>11, <2>2, <2>5, <2>6 DEF Holds, Placed
  <2> QED  BY <1>8, <1>11, <2>1, <2>7 DEF SnapInv, NoTornRead
<1>12. ASSUME NEW r \in Readers, EndRead(r) PROVE SnapInv'
  <2>1. reader'[r].at = "idle" /\ reader'[r].inode = None
    BY <1>t, <1>12 DEF EndRead, NoReader, TypeOK
  <2>2. got'[r] # None => Whole(got'[r])
    BY <1>t, <1>12, ReadIsWhole DEF EndRead, SnapInv, NoTornRead, TypeOK
  <2>3. Holds(r)'
    BY <2>1 DEF Holds
  <2> QED  BY <1>8, <1>12, <2>2, <2>3
<1>13. CASE UNCHANGED vars
  BY <1>t, <1>13 DEF vars, SnapInv, WriterOwnsTmp, BinPlaced, ReadersHoldPlaced, Holds,
     NoTornRead, Placed
<1> QED
  BY <1>1, <1>2, <1>3, <1>4, <1>5, <1>6, <1>9, <1>10, <1>11, <1>12, <1>13 DEF Next

LEMMA SnapInvAlways == ASSUME OneWriter PROVE Spec => []SnapInv
<1>1. SnapInv /\ [Next]_vars => SnapInv'
  BY SnapInvStep
<1> QED  BY <1>1, SnapInvInit, PTL DEF Spec

(* With one daemon no reader is given a torn or a partial struct, whatever *)
(* fails, dies or is removed in between (service.rs:361).                  *)
THEOREM WholeReads == ASSUME OneWriter PROVE Spec => []NoTornRead
<1>1. SnapInv => NoTornRead
  BY DEF SnapInv
<1> QED  BY <1>1, SnapInvAlways, PTL

(* Nor does snap.bin ever name a file that was not written to its end      *)
(* (service.rs:363-371).                                                   *)
THEOREM BinWhole == ASSUME OneWriter PROVE Spec => []BinIsWhole
<1>1. SnapInv => BinIsWhole
  BY DEF SnapInv, BinPlaced, Placed, BinIsWhole
<1> QED  BY <1>1, SnapInvAlways, PTL

(* Every reachable state of the two files and their users is well typed.   *)
THEOREM Typed == ASSUME OneWriter PROVE Spec => []TypeOK
<1>1. SnapInv => TypeOK
  BY DEF SnapInv
<1> QED  BY <1>1, SnapInvAlways, PTL

(* ----------------------------- refinement ------------------------------- *)

Reg  == IF bin = None THEN None ELSE file[bin].data[1]
Held == [r \in Readers |-> IF reader[r].inode = None THEN None
                           ELSE file[reader[r].inode].data[1]]
Got  == [r \in Readers |-> IF got[r] = None THEN None ELSE got[r][1]]

LEMMA RegisterInit == Init => Register!Init
BY DEF Init, Register!Init, NoReader

(* An open file is never None, and its first chunk is a number.            *)
LEMMA HeldFile ==
    ASSUME SnapInv, NEW r \in Readers
    PROVE  /\ reader[r].inode # None => reader[r].inode \in Inodes /\ Placed(reader[r].inode)
           /\ reader[r].inode # None <=> reader[r].at = "read"
BY SnapAssumption DEF SnapInv, ReadersHoldPlaced, Holds

(* A step of the daemon that leaves the files in place alone.              *)
LEMMA DaemonStutters ==
    ASSUME SnapInv, UNCHANGED <<bin, reader, got, top>>,
           \A i \in Inodes : i # tmp /\ (bin = i \/ \E r \in Readers : reader[r].inode = i)
                               => file'[i] = file[i]
    PROVE  UNCHANGED <<top, Reg, Held, Got>>
<1>1. bin # None => bin \in Inodes /\ bin # tmp
  BY DEF SnapInv, TypeOK, BinPlaced, Placed
<1>2. Reg' = Reg
  BY <1>1 DEF Reg
<1>3. ASSUME NEW r \in Readers, reader[r].inode # None
      PROVE  file'[reader[r].inode] = file[reader[r].inode]
  BY <1>3, HeldFile DEF Placed
<1>4. Held' = Held
  BY <1>3 DEF Held
<1> QED  BY <1>2, <1>4 DEF Got

LEMMA RegisterStep ==
    ASSUME OneWriter, SnapInv, SnapInv', Next
    PROVE  \/ UNCHANGED <<top, Reg, Held, Got>>
           \/ /\ top' \in Nat /\ top' > top /\ Reg' = top'
              /\ UNCHANGED <<Held, Got>>
           \/ Reg' = None /\ UNCHANGED <<top, Held, Got>>
           \/ \E r \in Readers :
                 \/ /\ Reg # None /\ Held[r] = None
                    /\ Held' = [Held EXCEPT ![r] = Reg]
                    /\ UNCHANGED <<top, Reg, Got>>
                 \/ /\ Held[r] # None
                    /\ Got' = [Got EXCEPT ![r] = Held[r]]
                    /\ Held' = [Held EXCEPT ![r] = None]
                    /\ UNCHANGED <<top, Reg>>
<1> DEFINE Goal ==
           \/ UNCHANGED <<top, Reg, Held, Got>>
           \/ /\ top' \in Nat /\ top' > top /\ Reg' = top'
              /\ UNCHANGED <<Held, Got>>
           \/ Reg' = None /\ UNCHANGED <<top, Held, Got>>
           \/ \E r \in Readers :
                 \/ /\ Reg # None /\ Held[r] = None
                    /\ Held' = [Held EXCEPT ![r] = Reg]
                    /\ UNCHANGED <<top, Reg, Got>>
                 \/ /\ Held[r] # None
                    /\ Got' = [Got EXCEPT ![r] = Held[r]]
                    /\ Held' = [Held EXCEPT ![r] = None]
                    /\ UNCHANGED <<top, Reg>>
<1>t. TypeOK /\ TypeOK' /\ \A i \in Inodes : file[i].data[1] \in Nat
  BY Versions DEF SnapInv
<1>1. ASSUME NEW w \in Writers, Sample(w) \/ Abandon(w) PROVE Goal
  BY <1>1 DEF Sample, Abandon, Reg, Held, Got
<1>2. ASSUME NEW w \in Writers, OpenTmp(w) PROVE Goal
  <2>1. UNCHANGED <<bin, reader, got, top>>
    BY <1>2 DEF OpenTmp
  <2>2. ASSUME NEW i \in Inodes, i # tmp, bin = i \/ \E r \in Readers : reader[r].inode = i
        PROVE  file'[i] = file[i]
    BY <1>t, <1>2, <2>2 DEF OpenTmp, Free, TypeOK
  <2> QED  BY <2>1, <2>2, DaemonStutters
<1>3. ASSUME NEW w \in Writers, WriteChunk(w) PROVE Goal
  <2>1. UNCHANGED <<bin, reader, got, top>> /\ writer[w].inode = tmp
    BY <1>3 DEF WriteChunk, SnapInv, WriterOwnsTmp
  <2>2. ASSUME NEW i \in Inodes, i # tmp PROVE file'[i] = file[i]
    BY <1>t, <1>3, <2>1, <2>2 DEF WriteChunk, TypeOK
  <2> QED  BY <2>1, <2>2, DaemonStutters
<1>4. ASSUME NEW w \in Writers, Rename(w) PROVE Goal
  <2>1. UNCHANGED <<file, reader, got>> /\ writer[w].at = "write" /\ writer[w].off = N
    BY <1>4 DEF Rename
  <2>2. tmp # None /\ writer[w].version > top /\ file[tmp].data[1] = writer[w].version
    <3>1. N \in Nat /\ N >= 1 /\ 1 \in 1..N
      BY <1>t, Versions
    <3> QED  BY <2>1, <3>1 DEF SnapInv, WriterOwnsTmp
  <2>3. bin' = tmp /\ top' = writer[w].version /\ top' \in Nat
    BY <1>t, <1>4, <2>2, Versions DEF Rename
  <2>4. Reg' = top' /\ UNCHANGED <<Held, Got>>
    BY <2>1, <2>2, <2>3 DEF Reg, Held, Got
  <2> QED  BY <2>2, <2>3, <2>4
<1>5. CASE UnlinkBin
  BY <1>5 DEF UnlinkBin, Reg, Held, Got
<1>6. ASSUME NEW r \in Readers, Stat(r) \/ ReadChunk(r) PROVE Goal
  <2>1. UNCHANGED <<bin, file, got, top>>
    BY <1>6 DEF Stat, ReadChunk
  <2>2. \A q \in Readers : reader'[q].inode = reader[q].inode
    BY <1>t, <1>6 DEF Stat, ReadChunk, TypeOK
  <2>3. UNCHANGED <<Reg, Held, Got>>
    BY <2>1, <2>2 DEF Reg, Held, Got
  <2> QED  BY <2>1, <2>3
<1>7. ASSUME NEW r \in Readers, OpenBin(r) PROVE Goal
  <2>1. UNCHANGED <<bin, file, got, top>> /\ reader[r].at = "open"
    BY <1>7 DEF OpenBin
  <2>2. reader[r].inode = None /\ \A q \in Readers \ {r} : reader'[q] = reader[q]
    BY <1>t, <1>7, <2>1, HeldFile DEF OpenBin, TypeOK
  <2>3. reader'[r].inode = bin
    BY <1>t, <1>7 DEF OpenBin, NoReader, TypeOK
  <2>4. UNCHANGED <<Reg, Got>>
    BY <2>1 DEF Reg, Got
  <2>5. CASE bin = None
    <3>1. Held' = Held
      BY <2>1, <2>2, <2>3, <2>5 DEF Held
    <3> QED  BY <2>1, <2>4, <3>1
  <2>6. CASE bin # None
    <3>1. Reg # None
      BY <1>t, <2>6, SnapAssumption DEF Reg, TypeOK
    <3>2. Held[r] = None
      BY <2>2 DEF Held
    <3>3. Held' = [Held EXCEPT ![r] = Reg]
      BY <2>1, <2>2, <2>3, <2>6 DEF Held, Reg
    <3> QED  BY <2>1, <2>4, <3>1, <3>2, <3>3
  <2> QED  BY <2>5, <2>6
<1>8. ASSUME NEW r \in Readers, EndRead(r) PROVE Goal
  <2>1. /\ reader[r].at = "read" /\ UNCHANGED <<bin, file, top>>
        /\ reader[r].off = N /\ reader[r].buf[1] = file[reader[r].inode].data[1]
    BY <1>8, ReadIsWhole DEF EndRead
  <2>2. reader[r].inode # None /\ reader[r].inode \in Inodes
    BY <2>1, HeldFile
  <2>3. got' = [got EXCEPT ![r] = reader[r].buf]
    <3>1. ~(N < N)
      BY SnapAssumption
    <3> QED  BY <1>8, <2>1, <3>1 DEF EndRead
  <2>4. reader[r].buf # None
    BY <1>t, SnapAssumption DEF TypeOK, Content, Chunks
  <2>5. reader'[r].inode = None /\ \A q \in Readers \ {r} : reader'[q] = reader[q]
    BY <1>t, <1>8 DEF EndRead, NoReader, TypeOK
  <2>6. got'[r] = reader[r].buf /\ \A q \in Readers \ {r} : got'[q] = got[q]
    BY <1>t, <2>3 DEF TypeOK
  <2>7. Held[r] = file[reader[r].inode].data[1]
    BY <2>2 DEF Held
  <2>8. Held[r] # None
    BY <1>t, <2>2, <2>7, SnapAssumption
  <2>9. Got' = [Got EXCEPT ![r] = Held[r]]
    BY <2>1, <2>4, <2>6, <2>7 DEF Got
  <2>10. Held' = [Held EXCEPT ![r] = None]
    BY <2>1, <2>5 DEF Held
  <2>11. Reg' = Reg
    BY <2>1 DEF Reg
  <2> QED  BY <2>1, <2>8, <2>9, <2>10, <2>11
<1> QED  BY <1>1, <1>2, <1>3, <1>4, <1>5, <1>6, <1>7, <1>8 DEF Next

(* With one daemon the snapshot file implements the atomic register: reads *)
(* return one whole published snapshot, and no reader is ever taken back   *)
(* from a newer file in place to an older one (service.rs:87-101, 359-371).*)
THEOREM FileIsRegister == ASSUME OneWriter PROVE Spec => IsRegister
<1>1. Init => Register!Init
  BY RegisterInit
<1>2. SnapInv /\ SnapInv' /\ [Next]_vars => [Register!Next]_(Register!vars)
  <2> SUFFICES ASSUME SnapInv, SnapInv', [Next]_vars PROVE [Register!Next]_(Register!vars)
    OBVIOUS
  <2>1. CASE UNCHANGED vars
    BY <2>1 DEF vars, Register!vars
  <2>2. CASE Next
    BY <2>2, RegisterStep DEF Reg, Held, Got, Register!vars, Register!Next, Register!Publish,
       Register!Remove, Register!Begin, Register!End
  <2> QED  BY <2>1, <2>2
<1>3. SnapInv /\ [Next]_vars => SnapInv'
  BY SnapInvStep
<1> QED  BY <1>1, <1>2, <1>3, SnapInvInit, PTL DEF Spec, IsRegister, Register!Spec
=============================================================================
