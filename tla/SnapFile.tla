------------------------------- MODULE SnapFile -------------------------------
(***************************************************************************)
(* The snapshot file at the level of inodes (tui/src/service.rs): daemons  *)
(* write snap.tmp and rename it over snap.bin, clients read snap.bin by    *)
(* name, stop and disable unlink it.  A snapshot is N chunks, and a file   *)
(* is written and read chunk by chunk, so that a reader can meet a writer  *)
(* in the middle of a file.  (Foo_Bug is a wrong version of Foo, as in     *)
(* Service.)                                                               *)
(***************************************************************************)
EXTENDS Naturals, FiniteSets

CONSTANTS
    Writers,    \* daemons
    Readers,    \* clients that read snapshots
    Inodes,
    N,          \* chunks of a benchmon_snapshot_t
    None,       \* no inode, no result
    MaxVersion  \* bound of the model: the number of snapshots taken

ASSUME SnapAssumption ==
    /\ N \in Nat \ {0} /\ MaxVersion \in Nat
    /\ None \notin Nat /\ None \notin Inodes /\ None \notin [1..N -> Nat]

VARIABLES
    tmp, bin,   \* the inodes that snap.tmp and snap.bin name
    file,       \* the inodes: length and content
    writer,     \* each daemon's main loop
    reader,     \* each client's read_latest_snapshot()
    got,        \* the last result of each client, chunk by chunk
    taken,      \* the number of the last snapshot taken
    top         \* history: the number of the last snapshot renamed into place

vars == <<tmp, bin, file, writer, reader, got, taken, top>>

Chunks  == 1..N
Blank   == [i \in Chunks |-> 0]      \* a hole reads as zeroes
Content == [Chunks -> Nat]           \* the snapshot each chunk comes from
NoWriter == [at |-> "idle", inode |-> None, off |-> 0, version |-> 0]
NoReader == [at |-> "idle", inode |-> None, buf |-> Blank, off |-> 0]

TypeOK ==
    /\ tmp \in Inodes \cup {None} /\ bin \in Inodes \cup {None}
    /\ file \in [Inodes -> [len : 0..N, data : Content]]
    /\ writer \in [Writers -> [at : {"idle", "open", "write"}, inode : Inodes \cup {None},
                               off : 0..N, version : 0..MaxVersion]]
    /\ reader \in [Readers -> [at : {"idle", "open", "read"}, inode : Inodes \cup {None},
                               buf : Content, off : 0..N]]
    /\ got \in [Readers -> Content \cup {None}]
    /\ taken \in 0..MaxVersion /\ top \in 0..MaxVersion

Init ==
    /\ tmp = None /\ bin = None
    /\ file = [i \in Inodes |-> [len |-> 0, data |-> Blank]]
    /\ writer = [w \in Writers |-> NoWriter]
    /\ reader = [r \in Readers |-> NoReader]
    /\ got = [r \in Readers |-> None]
    /\ taken = 0 /\ top = 0

-----------------------------------------------------------------------------
(* The daemon.                                                             *)

(* mon.snapshot_and_raw() has returned a snapshot.                         *)
Sample(w) ==
    /\ writer[w].at = "idle" /\ taken < MaxVersion
    /\ taken' = taken + 1
    /\ writer' = [writer EXCEPT ![w] = [NoWriter EXCEPT !.at = "open", !.version = taken + 1]]
    /\ UNCHANGED <<tmp, bin, file, reader, got, top>>

(* No name and no open file leads to inode i.                              *)
Free(i) ==
    /\ i \notin {tmp, bin}
    /\ \A w \in Writers : writer[w].inode # i
    /\ \A r \in Readers : reader[r].inode # i

(* The snapshot is written in place.                                       *)
OpenTmp_InPlace(w) ==
    /\ writer[w].at = "open"
    /\ \E i \in Inodes :
        /\ IF bin # None THEN i = bin ELSE Free(i)
        /\ tmp' = i
        /\ file' = [file EXCEPT ![i].len = 0]
        /\ writer' = [writer EXCEPT ![w].at = "write", ![w].inode = i]
    /\ UNCHANGED <<bin, reader, got, taken, top>>

(* fs::write(SNAP_TMP) opens the file: a new one, or the one left there,   *)
(* truncated.                                                              *)
OpenTmp(w) ==
    /\ writer[w].at = "open"
    /\ \E i \in Inodes :
        /\ IF tmp # None THEN i = tmp ELSE Free(i)
        /\ tmp' = i
        /\ file' = [file EXCEPT ![i] = [len |-> 0, data |-> Blank]]
        /\ writer' = [writer EXCEPT ![w].at = "write", ![w].inode = i]
    /\ UNCHANGED <<bin, reader, got, taken, top>>

(* The next chunk goes to the writer's own offset, which may lie beyond    *)
(* the end of a file that another writer has truncated.                    *)
WriteChunk(w) ==
    LET i == writer[w].inode
        k == writer[w].off + 1
    IN
    /\ writer[w].at = "write" /\ k <= N
    /\ file' = [file EXCEPT ![i] = [len  |-> IF file[i].len > k THEN file[i].len ELSE k,
                                    data |-> [file[i].data EXCEPT ![k] = writer[w].version]]]
    /\ writer' = [writer EXCEPT ![w].off = k]
    /\ UNCHANGED <<tmp, bin, reader, got, taken, top>>

(* fs::rename(SNAP_TMP, SNAP_FILE) moves whatever snap.tmp names now; an   *)
(* error is ignored.                                                       *)
Rename(w) ==
    /\ writer[w].at = "write" /\ writer[w].off = N
    /\ bin' = IF tmp = None THEN bin ELSE tmp
    /\ tmp' = None
    /\ top' = IF tmp = None THEN top ELSE writer[w].version
    /\ writer' = [writer EXCEPT ![w] = NoWriter]
    /\ UNCHANGED <<file, reader, got, taken>>

(* The rename is done although the write has failed.                       *)
Abandon_Renames(w) ==
    /\ writer[w].at \in {"open", "write"}
    /\ bin' = IF tmp = None THEN bin ELSE tmp
    /\ tmp' = None
    /\ writer' = [writer EXCEPT ![w] = NoWriter]
    /\ UNCHANGED <<file, reader, got, taken, top>>

(* fs::write fails, and the loop goes on without a rename; or the daemon   *)
(* dies, and the next one finds what it left.                              *)
Abandon(w) ==
    /\ writer[w].at \in {"open", "write"}
    /\ writer' = [writer EXCEPT ![w] = NoWriter]
    /\ UNCHANGED <<tmp, bin, file, reader, got, taken, top>>

-----------------------------------------------------------------------------
(* The clients.                                                            *)

(* remove_file(SNAP_FILE), in stop() and disable().                        *)
UnlinkBin ==
    /\ bin # None
    /\ bin' = None
    /\ UNCHANGED <<tmp, file, writer, reader, got, taken, top>>

(* fs::metadata(SNAP_FILE) finds a file young enough.  Otherwise, and when *)
(* there is none, the read returns nothing and changes nothing.            *)
Stat(r) ==
    /\ reader[r].at = "idle" /\ bin # None
    /\ reader' = [reader EXCEPT ![r].at = "open"]
    /\ UNCHANGED <<tmp, bin, file, writer, got, taken, top>>

(* fs::read opens by name: the file may have been replaced or removed.     *)
OpenBin(r) ==
    /\ reader[r].at = "open"
    /\ reader' = [reader EXCEPT ![r] = IF bin = None THEN NoReader
                                       ELSE [NoReader EXCEPT !.at = "read", !.inode = bin]]
    /\ UNCHANGED <<tmp, bin, file, writer, got, taken, top>>

ReadChunk(r) ==
    LET i == reader[r].inode
        k == reader[r].off + 1
    IN
    /\ reader[r].at = "read" /\ k <= file[i].len
    /\ reader' = [reader EXCEPT ![r].buf = [@ EXCEPT ![k] = file[i].data[k]],
                                ![r].off = k]
    /\ UNCHANGED <<tmp, bin, file, writer, got, taken, top>>

(* At the end of the file snapshot_from_bytes() wants a whole struct.      *)
EndRead(r) ==
    /\ reader[r].at = "read" /\ reader[r].off >= file[reader[r].inode].len
    /\ got' = IF reader[r].off < N THEN got ELSE [got EXCEPT ![r] = reader[r].buf]
    /\ reader' = [reader EXCEPT ![r] = NoReader]
    /\ UNCHANGED <<tmp, bin, file, writer, taken, top>>

-----------------------------------------------------------------------------
Next ==
    \/ \E w \in Writers : Sample(w) \/ OpenTmp(w) \/ WriteChunk(w) \/ Rename(w) \/ Abandon(w)
    \/ UnlinkBin
    \/ \E r \in Readers : Stat(r) \/ OpenBin(r) \/ ReadChunk(r) \/ EndRead(r)

Spec == Init /\ [][Next]_vars

-----------------------------------------------------------------------------
(* Properties.                                                             *)

(* A reader is never given parts of two snapshots, nor zeroes              *)
(* (service.rs:361 "Atomic write: write to tmp then rename so TUI never    *)
(* reads a partial struct").                                               *)
Whole(content) == \A j, k \in Chunks : content[j] = content[k] /\ content[j] > 0

NoTornRead == \A r \in Readers : got[r] # None => Whole(got[r])

(* What snap.bin names is at every moment a whole snapshot: a client that  *)
(* starts to read now succeeds, whatever writes, failures and deaths went  *)
(* before (service.rs:361-365).                                            *)
BinIsWhole == bin # None => file[bin].len = N /\ Whole(file[bin].data)

(* The snapshot file is an atomic register, as long as one daemon writes   *)
(* it: reads are whole, and no reader goes back to an older snapshot.      *)
Register == INSTANCE SnapRegister WITH
    reg  <- IF bin = None THEN None ELSE file[bin].data[1],
    held <- [r \in Readers |-> IF reader[r].inode = None THEN None
                               ELSE file[reader[r].inode].data[1]],
    got  <- [r \in Readers |-> IF got[r] = None THEN None ELSE got[r][1]]

IsRegister == Register!Spec
=============================================================================
