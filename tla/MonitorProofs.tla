---------------------------- MODULE MonitorProofs ----------------------------
(***************************************************************************)
(* Proofs about Monitor, for any machine, any descriptor table and any     *)
(* limits: the state is well typed (Typed), benchmon_monitor_destroy()     *)
(* closes every descriptor of the monitor once and no other (ClosesItsOwn),*)
(* and what is there is read (MissesNothing, ReadsAllCores).               *)
(*                                                                         *)
(* The invariant behind the second is an account of the descriptor table:  *)
(* each good field that init() has filled is open on its own file (Refer), *)
(* no two of them on the same descriptor (Distinct), and each descriptor   *)
(* that is open belongs to the process, to a field, or to the one case of a*)
(* leak (Accounted).  The one behind the others follows each interface from*)
(* its directory to its slot (Reading).                                    *)
(***************************************************************************)
EXTENDS Monitor, FiniteSetTheorems, TLAPS

(* The slot that is being filled.                                          *)
Slot == IF at \in {"net", "veth"} THEN NetSlot(count.net)
        ELSE IF at = "disks" THEN {<<"disk", count.disk, "stat">>} ELSE {}

(* The fields that init() has filled and still has use for.                *)
Mine == IF at = "null" THEN {} ELSE (Counted \cup Slot) \ todo

(* Where each stage stands.                                                *)
Staged ==
    /\ at = "cores" => todo \subseteq {s \in CoreFields : s[2] < count.core}
    /\ at \in {"net", "veth"} =>
         /\ todo \subseteq {s \in NetSlot(count.net) : s[3] # "passthru"}
         /\ cur \in Nets /\ count.net < MaxNets /\ name.net[count.net] = cur
    /\ at \notin {"cores", "net", "veth"} => todo = {}
    /\ at \in {"netdir", "net", "netns", "veth"} => entries \subseteq Nets
    /\ at \in {"diskdir", "disks"} => entries \subseteq Disks
    /\ at = "disks" => count.disk < MaxDisks /\ name.disk[count.disk] \in Disks

Shape == TypeOK /\ Staged

Good(s) == fd[s] # Bad

Refer ==
    \A s \in Mine : Good(s) =>
      fd[s] \in Fds /\ table[fd[s]] # None /\ table[fd[s]] = FileOf(s)

Distinct == \A s, t \in Mine : Good(s) /\ fd[s] = fd[t] => s = t

(* A counter of an interface that appeared after its rx_bytes was looked for.*)
Stray(file) == file.kind = "net" /\ file.what # RxBytes /\ file.of \in racing

Listing == at \in {"netdir", "net", "diskdir", "disks"}

AccountedAt(f) ==
    \/ table[f] \in {None, Stdin, Own}
    \/ Stray(table[f])
    \/ table[f] = Dir /\ Listing
    \/ \E s \in Mine : fd[s] = f

Accounted == \A f \in Fds : AccountedAt(f)

Rx == <<"net", count.net, RxBytes>>

(* Why a slot without rx_bytes has nothing open: the interface is not there,*)
(* or there are no descriptors left, for as long as the slot is being filled.*)
RxFirst ==
    at \in {"net", "veth"} =>
      /\ Rx \in todo => \A s \in NetSlot(count.net) \ todo : ~Good(s)
      /\ Rx \notin todo /\ ~Good(Rx) =>
           /\ cur \notin up \/ cur \in racing \/ Free = {}
           /\ \A s \in NetSlot(count.net) \ todo : ~Good(s) \/ cur \in racing

Account == Refer /\ Distinct /\ Accounted /\ RxFirst

-----------------------------------------------------------------------------
LEMMA CountTyped ==
    ASSUME TypeOK PROVE CoreCount \in 0..MaxCores
<1>1. IsFiniteSet(online)
  BY MonitorAssumption, FS_Subset DEF TypeOK
<1>2. Cardinality(online) \in Nat
  BY <1>1, FS_CardinalityType
<1>3. MaxCores \in Nat
  BY MonitorAssumption
<1>4. ASSUME NEW n \in Nat PROVE (IF n > MaxCores THEN MaxCores ELSE n) \in 0..MaxCores
  BY <1>3
<1> QED
  BY <1>2, <1>4 DEF CoreCount

(* open() keeps the types.                                                 *)
LEMMA OpenTyped ==
    ASSUME NEW s \in Fields, NEW file \in Files, NEW there,
           table \in [Fds -> {None} \cup Files], fd \in [Fields -> Fds \cup {Bad}],
           full \in BOOLEAN, Open(s, file, there)
    PROVE  /\ table' \in [Fds -> {None} \cup Files]
           /\ fd' \in [Fields -> Fds \cup {Bad}]
           /\ full' \in BOOLEAN
BY DEF Open, Free

(* A slot of nets is begun.                                                *)
LEMMA BeginNetShape ==
    ASSUME Shape, NEW i \in Nets, NEW stage, BeginNet(i, stage), Room
    PROVE  /\ fd' \in [Fields -> Fds \cup {Bad}]
           /\ name' \in [net  : [0..(MaxNets - 1) -> Nets \cup {None}],
                        disk : [0..(MaxDisks - 1) -> Disks \cup {None}]]
           /\ name'.net[count.net] = i /\ name'.disk = name.disk
           /\ \A n \in 0..(MaxNets - 1) : n # count.net => name'.net[n] = name.net[n]
           /\ todo' = {s \in NetSlot(count.net) : s[3] # "passthru"}
           /\ todo' \subseteq Fields /\ count.net \in 0..(MaxNets - 1)
<1>1. count.net \in 0..(MaxNets - 1)
  BY MonitorAssumption DEF Shape, TypeOK, Room
<1>2. fd' \in [Fields -> Fds \cup {Bad}]
  BY MonitorAssumption DEF BeginNet, Cleared, Shape, TypeOK, Fds
<1>3. name.net \in [0..(MaxNets - 1) -> Nets \cup {None}]
  BY DEF Shape, TypeOK
<1>4. name' = [name EXCEPT !.net = [name.net EXCEPT ![count.net] = i]]
  BY DEF BeginNet
<1>5. [name.net EXCEPT ![count.net] = i] \in [0..(MaxNets - 1) -> Nets \cup {None}]
  BY <1>3
<1>6. name \in [net  : [0..(MaxNets - 1) -> Nets \cup {None}],
               disk : [0..(MaxDisks - 1) -> Disks \cup {None}]]
  BY DEF Shape, TypeOK
<1>7. name'.net = [name.net EXCEPT ![count.net] = i] /\ name'.disk = name.disk
  BY <1>4, <1>6
<1> QED
  BY <1>1, <1>2, <1>3, <1>4, <1>5, <1>6, <1>7 DEF BeginNet, NetSlot, Fields

(* The types of the descriptor fields, by kind.                            *)
LEMMA FieldTypes ==
    /\ \A s \in CoreFields : s[1] = "core" /\ s[2] \in Nat /\ s[2] < MaxCores /\ s[3] \in Events
    /\ \A s \in NetFields : s[1] = "net" /\ s[2] \in 0..(MaxNets - 1) /\ s[3] \in Counters \cup {"passthru"}
    /\ \A s \in DiskFields : s[1] = "disk" /\ s[2] \in 0..(MaxDisks - 1) /\ s[3] = "stat"
    /\ MemField \in Fields /\ CoreFields \subseteq Fields
    /\ NetFields \subseteq Fields /\ DiskFields \subseteq Fields
    /\ MemFile \in Files /\ Dir \in Files /\ Own \in Files /\ Stdin \in Files
BY MonitorAssumption DEF CoreFields, NetFields, DiskFields, Fields, MemField,
   Files, File, MemFile, Dir, Own, Stdin

-----------------------------------------------------------------------------
(* Every step keeps the types and the stages.                              *)
LEMMA ShapeInit == Init => Shape
<1>1. 0 \in Fds /\ Stdin \in Files
  BY MonitorAssumption, FieldTypes DEF Fds
<1>2. Zeroed \in [Fields -> Fds \cup {Bad}]
  BY <1>1 DEF Zeroed
<1>3. NoNames \in [net  : [0..(MaxNets - 1) -> Nets \cup {None}],
                  disk : [0..(MaxDisks - 1) -> Disks \cup {None}]]
  BY DEF NoNames
<1>4. ASSUME Init PROVE TypeOK
  <2>1. table \in [Fds -> {None} \cup Files]
    BY <1>1, <1>4 DEF Init
  <2>2. count \in [core : 0..MaxCores, net : 0..MaxNets, disk : 0..MaxDisks]
    BY <1>4, MonitorAssumption DEF Init
  <2>3. stayed \in [net : SUBSET Nets, core : SUBSET Cpus]
    BY <1>4 DEF Init
  <2> QED
    BY <1>2, <1>3, <1>4, <2>1, <2>2, <2>3 DEF Init, TypeOK, Stages
<1> QED
  BY <1>4 DEF Init, Shape, Staged

LEMMA ShapeStep ==
    ASSUME Shape, [Next]_vars PROVE Shape'
<1> USE MonitorAssumption, FieldTypes
<1> DEFINE T == /\ table \in [Fds -> {None} \cup Files]
                /\ fd \in [Fields -> Fds \cup {Bad}] /\ full \in BOOLEAN
<1>0. TypeOK /\ Staged /\ T
  BY DEF Shape, TypeOK
<1>1. CASE New
  <2>1. CoreCount \in 0..MaxCores
    BY <1>0, CountTyped
  <2>2. T'
    BY <1>0, <1>1, OpenTyped DEF New
  <2> QED
    <3>1. count' \in [core : 0..MaxCores, net : 0..MaxNets, disk : 0..MaxDisks]
      BY <1>1, <2>1 DEF New
    <3>2. stayed' \in [net : SUBSET Nets, core : SUBSET Cpus]
      BY <1>0, <1>1 DEF New, TypeOK
    <3>3. TypeOK'
      BY <1>0, <1>1, <2>2, <3>1, <3>2 DEF New, TypeOK, Stages
    <3> QED
      BY <1>0, <1>1, <2>1, <3>3 DEF New, Shape, Staged
<1>2. CASE OpenCore
  <2>1. PICK s \in todo : /\ Open(s, File("core", s[2], s[3]), s[2] \in online /\ s[3] \notin Denied)
                          /\ todo' = todo \ {s}
    BY <1>2 DEF OpenCore
  <2>2. s \in CoreFields
    BY <1>0, <1>2, <2>1 DEF OpenCore, Staged
  <2>3. File("core", s[2], s[3]) \in Files
    BY <2>2 DEF File, Files
  <2>5. s \in Fields /\ Open(s, File("core", s[2], s[3]), s[2] \in online /\ s[3] \notin Denied)
    BY <2>1, <2>2
  <2>4. T'
    BY <1>0, <2>3, <2>5, OpenTyped
  <2> QED
    BY <1>0, <1>2, <2>1, <2>4 DEF OpenCore, Shape, TypeOK, Staged, world
<1>3. CASE OpenNetDir
  <2>1. T' /\ entries' \subseteq Nets
    BY <1>0, <1>3 DEF OpenNetDir, OpenDir, Free, Nets
  <2> QED
    BY <1>0, <1>3, <2>1 DEF OpenNetDir, Shape, TypeOK, Staged, world, Stages
<1>4. CASE ReadNetDir
  <2>1. PICK i \in entries : BeginNet(i, "net") /\ entries' = entries \ {i}
    BY <1>4 DEF ReadNetDir
  <2>2. i \in Nets /\ Room
    BY <1>0, <1>4 DEF ReadNetDir, Staged
  <2>3. TypeOK'
    BY <1>0, <1>4, <2>1, <2>2, BeginNetShape DEF ReadNetDir, BeginNet, TypeOK, world, Stages
  <2> QED
    BY <1>0, <1>4, <2>1, <2>2, <2>3, BeginNetShape DEF ReadNetDir, BeginNet, Shape, Staged
<1>5. CASE OpenCounter
  <2>1. PICK s \in todo : /\ Open(s, File("net", cur, s[3]), cur \in up)
                          /\ todo' = todo \ {s}
    BY <1>5 DEF OpenCounter
  <2>2. s \in NetFields /\ cur \in Nets
    BY <1>0, <1>5, <2>1 DEF OpenCounter, Staged, NetSlot
  <2>3. File("net", cur, s[3]) \in Files
    BY <2>2 DEF File, Files
  <2>5. s \in Fields /\ Open(s, File("net", cur, s[3]), cur \in up)
    BY <2>1, <2>2
  <2>4. T'
    BY <1>0, <2>3, <2>5, OpenTyped
  <2> QED
    BY <1>0, <1>5, <2>1, <2>4 DEF OpenCounter, Shape, TypeOK, Staged, world, NetSlot
<1>6. CASE EndNet
  <2>1. count' \in [core : 0..MaxCores, net : 0..MaxNets, disk : 0..MaxDisks]
    <3>1. count.net \in Nat /\ count.net + 1 \in 0..MaxNets
      BY <1>0, <1>6 DEF EndNet, TypeOK, Staged
    <3>2. PICK k \in {count.net, count.net + 1} : count' = [count EXCEPT !.net = k]
      BY <1>6 DEF EndNet
    <3> QED
      BY <1>0, <3>1, <3>2 DEF TypeOK
  <2> QED
    BY <1>0, <1>6, <2>1 DEF EndNet, Shape, TypeOK, Staged, world, Stages
<1>7. CASE CloseNetDir
  BY <1>0, <1>7 DEF CloseNetDir, Shape, TypeOK, Staged, world, Stages, Nets
<1>8. CASE FindVeth
  <2>1. PICK i \in entries :
          /\ entries' = entries \ {i}
          /\ IF Room /\ i \in up /\ Pipe
             THEN BeginNet(i, "veth") /\ UNCHANGED full
             ELSE full' = (full \/ ~Pipe) /\ UNCHANGED <<at, cur, fd, name, todo>>
    BY <1>8 DEF FindVeth
  <2>2. CASE Room /\ i \in up /\ Pipe
    <3>1. i \in Nets /\ Room
      BY <1>0, <1>8, <2>2 DEF FindVeth, Staged
    <3>2. TypeOK'
      BY <1>0, <1>8, <2>1, <2>2, <3>1, BeginNetShape DEF FindVeth, BeginNet, TypeOK, world, Stages
    <3> QED
      BY <1>0, <1>8, <2>1, <2>2, <3>1, <3>2, BeginNetShape DEF FindVeth, BeginNet, Shape, Staged
  <2>3. CASE ~(Room /\ i \in up /\ Pipe)
    BY <1>0, <1>8, <2>1, <2>3 DEF FindVeth, Shape, TypeOK, Staged, world
  <2> QED
    BY <2>2, <2>3
<1>9. CASE OpenDiskDir
  <2>1. T' /\ entries' \subseteq Disks
    BY <1>0, <1>9 DEF OpenDiskDir, OpenDir, Free
  <2> QED
    BY <1>0, <1>9, <2>1 DEF OpenDiskDir, Shape, TypeOK, Staged, world, Stages
<1>10. CASE OpenDisk
  <2> DEFINE n == count.disk
  <2>1. PICK d \in entries, there \in BOOLEAN :
          /\ entries' = entries \ {d}
          /\ name' = [name EXCEPT !.disk[n] = d]
          /\ Open(<<"disk", n, "stat">>, File("disk", d, "stat"), there)
    BY <1>10 DEF OpenDisk
  <2>2. d \in Disks /\ n \in 0..(MaxDisks - 1)
    BY <1>0, <1>10, <2>1 DEF OpenDisk, Staged, TypeOK
  <2>3. <<"disk", n, "stat">> \in Fields /\ File("disk", d, "stat") \in Files
    BY <2>2 DEF Fields, DiskFields, File, Files
  <2>4. T'
    BY <1>0, <2>1, <2>3, OpenTyped
  <2>5. /\ name'.disk[n] = d
        /\ name' \in [net  : [0..(MaxNets - 1) -> Nets \cup {None}],
                     disk : [0..(MaxDisks - 1) -> Disks \cup {None}]]
    BY <1>0, <2>1, <2>2 DEF TypeOK
  <2>6. TypeOK'
    BY <1>0, <1>10, <2>1, <2>4, <2>5 DEF OpenDisk, TypeOK, world, Stages
  <2> QED
    BY <1>0, <1>10, <2>1, <2>2, <2>5, <2>6 DEF OpenDisk, Shape, Staged
<1>11. CASE EndDisk
  BY <1>0, <1>11 DEF EndDisk, Shape, TypeOK, Staged, world, Stages
<1>12. CASE CloseDiskDir
  BY <1>0, <1>12 DEF CloseDiskDir, CloseDir, Shape, TypeOK, Staged, world, Stages
<1>13. CASE Drop
  <2>1. Zeroed \in [Fields -> Fds \cup {Bad}]
    BY DEF Zeroed, Fds
  <2>2. table' \in [Fds -> {None} \cup Files]
    BY <1>0, <1>13 DEF Drop
  <2>3. NoNames \in [net  : [0..(MaxNets - 1) -> Nets \cup {None}],
                    disk : [0..(MaxDisks - 1) -> Disks \cup {None}]]
    BY DEF NoNames
  <2>5. count' \in [core : 0..MaxCores, net : 0..MaxNets, disk : 0..MaxDisks]
    BY <1>13 DEF Drop
  <2>4. TypeOK'
    BY <1>0, <1>13, <2>1, <2>2, <2>3, <2>5 DEF Drop, TypeOK, world, Stages
  <2> QED
    BY <1>0, <1>13, <2>4 DEF Drop, Shape, Staged
<1>14. CASE OpenOwn \/ CloseOwn
  <2>1. T'
    BY <1>0, <1>14 DEF OpenOwn, CloseOwn, Free
  <2> QED
    BY <1>0, <1>14, <2>1 DEF OpenOwn, CloseOwn, Shape, TypeOK, Staged, world
<1>15. CASE IfaceDown
  <2>1. stayed' \in [net : SUBSET Nets, core : SUBSET Cpus] /\ up' \subseteq Nets
    <3>1. PICK i \in up : up' = up \ {i} /\ stayed' = [stayed EXCEPT !.net = stayed.net \ {i}]
      BY <1>15 DEF IfaceDown
    <3>2. stayed \in [net : SUBSET Nets, core : SUBSET Cpus] /\ up \subseteq Nets
      BY <1>0 DEF TypeOK
    <3> QED
      BY <3>1, <3>2
  <2>2. TypeOK'
    BY <1>0, <1>15, <2>1 DEF IfaceDown, TypeOK
  <2> QED
    BY <1>0, <1>15, <2>2 DEF IfaceDown, Shape, Staged
<1>16. CASE IfaceUp
  BY <1>0, <1>16 DEF IfaceUp, Shape, TypeOK, Staged
<1>17. CASE SwitchSmt
  BY <1>0, <1>17 DEF SwitchSmt, Shape, TypeOK, Staged
<1>18. CASE UNCHANGED vars
  <2>1. TypeOK'
    BY <1>0, <1>18 DEF vars, TypeOK
  <2>2. Staged'
    BY <1>0, <1>18 DEF vars, Staged
  <2> QED
    BY <2>1, <2>2 DEF Shape
<1> QED
  BY <1>1, <1>2, <1>3, <1>4, <1>5, <1>6, <1>7, <1>8, <1>9, <1>10, <1>11, <1>12,
     <1>13, <1>14, <1>15, <1>16, <1>17, <1>18 DEF Next

(* Every reachable state is well typed.                                    *)
THEOREM Typed == Spec => []TypeOK
<1>1. Spec => []Shape
  BY ShapeInit, ShapeStep, PTL DEF Spec
<1>2. Shape => TypeOK
  BY DEF Shape
<1> QED
  BY <1>1, <1>2, PTL

-----------------------------------------------------------------------------
(* No field stands for a file of the process or for a directory.           *)
LEMMA FileKind ==
    \A s \in Fields : FileOf(s).kind \in {"mem", "core", "net", "disk"}
BY FieldTypes DEF FileOf, Fields, MemField, MemFile, File

(* A step that opens no file of the monitor: fields that come into use are *)
(* not good, those that go out of use were not, or leave a stray counter.  *)
LEMMA Frame ==
    ASSUME Shape, Account, Mine \subseteq Fields,
           \A s \in Mine : fd'[s] = fd[s] /\ FileOf(s)' = FileOf(s),
           \A s \in Mine' : s \notin Mine => fd'[s] = Bad,
           \A s \in Mine : s \notin Mine' => fd[s] = Bad \/ Stray(FileOf(s)),
           \A f \in Fds : \/ table'[f] = table[f]
                          \/ table[f] \in {None, Own, Dir} /\ table'[f] \in {None, Own, Dir},
           \A f \in Fds : table'[f] = Dir => Listing',
           racing \subseteq racing'
    PROVE  Refer' /\ Distinct' /\ Accounted'
<1>1. ASSUME NEW s \in Mine, Good(s)
      PROVE  /\ fd[s] \in Fds /\ table[fd[s]] # None /\ table[fd[s]] = FileOf(s)
             /\ table'[fd[s]] = table[fd[s]]
  <2>1. fd[s] \in Fds /\ table[fd[s]] # None /\ table[fd[s]] = FileOf(s)
    BY <1>1 DEF Account, Refer
  <2>2. FileOf(s) # Own /\ FileOf(s) # Dir
    BY FileKind, <1>1 DEF Own, Dir, File
  <2> QED
    BY <2>1, <2>2
<1>2. Refer'
  BY <1>1 DEF Refer, Good
<1>3. Distinct'
  <2> SUFFICES ASSUME NEW s \in Mine', NEW t \in Mine', fd'[s] # Bad, fd'[s] = fd'[t]
               PROVE  s = t
    BY DEF Distinct, Good
  <2>1. s \in Mine /\ t \in Mine
    OBVIOUS
  <2> QED
    BY <2>1 DEF Account, Distinct, Good
<1>4. ASSUME NEW f \in Fds PROVE AccountedAt(f)'
  <2>1. AccountedAt(f)
    BY DEF Account, Accounted
  <2>2. CASE table'[f] # table[f]
    BY <2>2 DEF AccountedAt
  <2>3. CASE table'[f] = table[f] /\ table[f] \in {None, Stdin, Own, Dir}
    BY <2>3 DEF AccountedAt
  <2>4. CASE table'[f] = table[f] /\ Stray(table[f])
    BY <2>4 DEF AccountedAt, Stray
  <2>5. CASE table'[f] = table[f] /\ \E s \in Mine : fd[s] = f
    <3>1. PICK s \in Mine : fd[s] = f
      BY <2>5
    <3>2. Good(s)
      BY <3>1 DEF Good, Fds, Bad
    <3>3. CASE s \in Mine'
      BY <3>1, <3>3 DEF AccountedAt
    <3>4. CASE s \notin Mine'
      BY <1>1, <2>5, <3>1, <3>2, <3>4 DEF AccountedAt, Stray, Good
    <3> QED
      BY <3>3, <3>4
  <2> QED
    BY <2>1, <2>2, <2>3, <2>4, <2>5 DEF AccountedAt
<1> QED
  BY <1>2, <1>3, <1>4 DEF Accounted

(* A step that opens the file of one more field.                           *)
LEMMA OpenAccount ==
    ASSUME Shape, Account, Mine \subseteq Fields,
           NEW s \in Fields, NEW file \in Files, NEW there, Open(s, file, there),
           s \notin Mine, Mine' = Mine \cup {s}, FileOf(s)' = file,
           \A t \in Mine : FileOf(t)' = FileOf(t),
           Listing => Listing', racing' = racing
    PROVE  Refer' /\ Distinct' /\ Accounted'
<1>1. \A t \in Mine : fd'[t] = fd[t]
  BY DEF Open, Shape, TypeOK
<1>2. CASE \E f \in Free : table' = [table EXCEPT ![f] = file] /\ fd' = [fd EXCEPT ![s] = f]
  <2>1. PICK f \in Free : table' = [table EXCEPT ![f] = file] /\ fd' = [fd EXCEPT ![s] = f]
    BY <1>2
  <2>2. f \in Fds /\ table[f] = None /\ table'[f] = file /\ fd'[s] = f /\ f # Bad /\ file # None
    BY <2>1, MonitorAssumption DEF Free, Shape, TypeOK, Fds, Bad
  <2>3. \A g \in Fds : g # f => table'[g] = table[g]
    BY <2>1 DEF Shape, TypeOK
  <2>4. \A t \in Mine : Good(t) => fd[t] # f
    BY <2>2 DEF Account, Refer
  <2>5. Refer'
    BY <1>1, <2>2, <2>3, <2>4 DEF Account, Refer, Good
  <2>6. Distinct'
    BY <1>1, <2>2, <2>4 DEF Account, Distinct, Good
  <2>7. \A g \in Fds : AccountedAt(g)'
    BY <1>1, <2>2, <2>3 DEF Account, Accounted, AccountedAt, Stray
  <2> QED
    BY <2>5, <2>6, <2>7 DEF Accounted
<1>3. CASE fd' = [fd EXCEPT ![s] = Bad] /\ table' = table
  <2>1. fd'[s] = Bad
    BY <1>3 DEF Shape, TypeOK
  <2>2. Refer' /\ Distinct'
    BY <1>1, <1>3, <2>1 DEF Account, Refer, Distinct, Good
  <2>3. \A g \in Fds : AccountedAt(g)'
    BY <1>1, <1>3 DEF Account, Accounted, AccountedAt, Stray
  <2> QED
    BY <2>2, <2>3 DEF Accounted
<1> QED
  BY <1>2, <1>3 DEF Open

-----------------------------------------------------------------------------
LEMMA MineTyped == Shape => Mine \subseteq Fields
BY FieldTypes, MonitorAssumption
DEF Mine, Counted, Slot, NetSlot, Shape, TypeOK, Staged, Fields, DiskFields

(* The names of the slots that are counted do not change.                  *)
LEMMA SameFiles ==
    ASSUME Shape, name' = name PROVE \A s \in Mine : FileOf(s)' = FileOf(s)
BY DEF FileOf

LEMMA AccountInit == Init => Account
BY DEF Init, Account, Refer, Distinct, Accounted, AccountedAt, RxFirst, Mine

(* The steps that open a file.                                             *)
LEMMA NewStep ==
    ASSUME Shape, Account, New PROVE Account'
<1>1. MemField \in Fields /\ MemFile \in Files /\ Open(MemField, MemFile, TRUE)
  BY FieldTypes DEF New
<1>2. Mine = {} /\ Mine' = Mine \cup {MemField}
  BY DEF New, Mine, Slot, Counted, MemField, CoreFields, NetFields, DiskFields
<1>3. FileOf(MemField)' = MemFile
  BY DEF FileOf, MemField
<1>4. racing' = racing /\ ~Listing /\ ~(at' \in {"net", "veth"})
  BY DEF New, Listing
<1>5. Refer' /\ Distinct' /\ Accounted'
  BY <1>1, <1>2, <1>3, <1>4, OpenAccount
<1> QED
  BY <1>4, <1>5 DEF Account, RxFirst

LEMMA OpenCoreStep ==
    ASSUME Shape, Account, OpenCore PROVE Account'
<1>1. PICK s \in todo : /\ Open(s, File("core", s[2], s[3]), s[2] \in online /\ s[3] \notin Denied)
                        /\ todo' = todo \ {s}
  BY DEF OpenCore
<1>2. s \in CoreFields /\ s[2] < count.core
  BY <1>1 DEF OpenCore, Shape, Staged
<1>3. s \in Fields /\ File("core", s[2], s[3]) \in Files
  BY <1>2, FieldTypes DEF File, Files
<1>4. Mine' = Mine \cup {s} /\ s \notin Mine
  BY <1>1, <1>2 DEF OpenCore, Mine, Slot, Counted
<1>5. FileOf(s)' = File("core", s[2], s[3])
  BY <1>2, FieldTypes DEF FileOf
<1>6. (Listing => Listing') /\ racing' = racing /\ name' = name /\ ~(at' \in {"net", "veth"})
  BY DEF OpenCore, Listing, world
<1>7. Refer' /\ Distinct' /\ Accounted'
  BY <1>1, <1>3, <1>4, <1>5, <1>6, MineTyped, SameFiles, OpenAccount
<1> QED
  BY <1>6, <1>7 DEF Account, RxFirst

LEMMA OpenCounterStep ==
    ASSUME Shape, Account, OpenCounter PROVE Account'
<1>1. PICK s \in todo : /\ s[3] = RxBytes \/ \A t \in todo : t[3] # RxBytes
                        /\ Open(s, File("net", cur, s[3]), cur \in up)
                        /\ todo' = todo \ {s}
  BY DEF OpenCounter
<1>2. /\ s \in NetSlot(count.net) /\ s \in NetFields /\ s[3] # "passthru"
      /\ cur \in Nets /\ name.net[count.net] = cur
      /\ count.net \in 0..(MaxNets - 1)
  BY <1>1, MonitorAssumption DEF OpenCounter, Shape, Staged, NetSlot, TypeOK
<1>3. s \in Fields /\ File("net", cur, s[3]) \in Files
  BY <1>2, FieldTypes DEF File, Files
<1>4. Mine' = Mine \cup {s} /\ s \notin Mine
  BY <1>1, <1>2 DEF OpenCounter, Mine, Slot, Counted
<1>5. FileOf(s)' = File("net", cur, s[3])
  BY <1>2, FieldTypes DEF FileOf, OpenCounter, NetSlot
<1>6. (Listing => Listing') /\ racing' = racing /\ name' = name /\ up' = up
  BY DEF OpenCounter, Listing, world
<1>7. Refer' /\ Distinct' /\ Accounted'
  BY <1>1, <1>3, <1>4, <1>5, <1>6, MineTyped, SameFiles, OpenAccount
<1>8. Rx' = Rx /\ NetSlot(count.net)' = NetSlot(count.net) /\ cur' = cur
  BY DEF OpenCounter, Rx, NetSlot
<1>9. /\ Rx \in todo => \A t \in NetSlot(count.net) \ todo : ~Good(t)
      /\ Rx \notin todo /\ ~Good(Rx) =>
           /\ cur \notin up \/ cur \in racing \/ Free = {}
           /\ \A t \in NetSlot(count.net) \ todo : ~Good(t) \/ cur \in racing
  BY DEF Account, RxFirst, OpenCounter
<1>10. \A t \in Fields : t # s => fd'[t] = fd[t]
  BY <1>1 DEF Open, Shape, TypeOK
<1>11. Rx \in Fields /\ NetSlot(count.net) \subseteq Fields
  BY <1>2, MonitorAssumption DEF Rx, NetFields, Fields, NetSlot
<1>12. CASE s = Rx
  <2>1. \A t \in NetSlot(count.net) \ todo : fd'[t] = Bad
    BY <1>1, <1>9, <1>10, <1>11, <1>12 DEF Good
  <2>2. fd'[s] = Bad => cur \notin up \/ (Free = {} /\ Free' = {})
    <3>1. CASE \E f \in Free : fd' = [fd EXCEPT ![s] = f]
      BY <1>3, <3>1, MonitorAssumption DEF Shape, TypeOK, Free, Fds, Bad
    <3>2. CASE (cur \notin up \/ Free = {}) /\ table' = table
      BY <3>2 DEF Free
    <3> QED
      BY <1>1, <3>1, <3>2 DEF Open
  <2> QED
    BY <1>1, <1>6, <1>7, <1>8, <1>12, <2>1, <2>2 DEF Account, RxFirst, Good
<1>13. CASE s # Rx
  <2>1. Rx \notin todo
    BY <1>1, <1>2, <1>13 DEF Rx, NetSlot, NetFields
  <2>2. Free = {} => Free' = {}
    BY <1>1 DEF Open, Free
  <2>3. fd'[Rx] = Bad => fd'[s] = Bad \/ cur \in racing
    BY <1>1, <1>9, <1>10, <1>11, <1>13, <2>1 DEF Open, Shape, TypeOK, Good
  <2>4. Rx \notin todo'
    BY <1>1, <2>1
  <2>5. fd'[Rx] = fd[Rx]
    BY <1>10, <1>11, <1>13
  <2> QED
    BY <1>1, <1>6, <1>7, <1>8, <1>9, <1>10, <1>11, <2>1, <2>2, <2>3, <2>4, <2>5
    DEF Account, RxFirst, Good
<1> QED
  BY <1>12, <1>13

LEMMA OpenDiskStep ==
    ASSUME Shape, Account, OpenDisk PROVE Account'
<1>0. PICK n \in 0..(MaxDisks - 1) : n = count.disk
  BY MonitorAssumption DEF OpenDisk, Shape, TypeOK
<1> DEFINE s == <<"disk", n, "stat">>
<1>1. PICK d \in entries, there \in BOOLEAN :
         /\ name' = [name EXCEPT !.disk[n] = d]
         /\ Open(s, File("disk", d, "stat"), there)
  BY <1>0 DEF OpenDisk
<1>2. d \in Disks /\ count.disk = n /\ count'.disk = n /\ todo = {}
  BY <1>0 DEF OpenDisk, Shape, Staged
<1>3. s \in Fields /\ File("disk", d, "stat") \in Files
  BY <1>2 DEF Fields, DiskFields, File, Files
<1>4. Mine = Counted /\ Mine' = Mine \cup {s}
  BY <1>2 DEF OpenDisk, Mine, Slot, Counted
<1>5. s \notin Mine
  BY <1>2, <1>4, FieldTypes DEF Counted, MemField
<1>6. /\ name'.net = name.net /\ name'.disk[n] = d
      /\ \A k \in 0..(MaxDisks - 1) : k # n => name'.disk[k] = name.disk[k]
  BY <1>1, <1>2 DEF Shape, TypeOK
<1>7. FileOf(s)' = File("disk", d, "stat")
  BY <1>6 DEF FileOf
<1>8. ASSUME NEW t \in Mine PROVE FileOf(t)' = FileOf(t)
  <2>1. t[1] = "disk" => t[2] \in 0..(MaxDisks - 1) /\ t[2] # n
    BY <1>4, <1>2, FieldTypes DEF Counted, MemField
  <2> QED
    BY <1>6, <2>1 DEF FileOf
<1>9. Listing' /\ racing' = racing /\ ~(at' \in {"net", "veth"})
  BY DEF OpenDisk, Listing, world
<1> HIDE DEF s
<1>10. Refer' /\ Distinct' /\ Accounted'
  BY <1>1, <1>3, <1>4, <1>5, <1>7, <1>8, <1>9, MineTyped, OpenAccount
<1> QED
  BY <1>9, <1>10 DEF Account, RxFirst

(* A directory is open only while it is read.                              *)
LEMMA DirListed ==
    ASSUME Shape, Account, NEW f \in Fds, table[f] = Dir PROVE Listing
<1>1. Dir \notin {None, Stdin, Own} /\ ~Stray(Dir)
  BY MonitorAssumption, FieldTypes DEF Dir, Stdin, Own, File, Stray
<1>2. ASSUME NEW s \in Mine, fd[s] = f PROVE FALSE
  <2>1. table[f] = FileOf(s)
    BY <1>2 DEF Account, Refer, Good, Fds, Bad
  <2> QED
    BY <2>1, MineTyped, FileKind DEF Dir, File
<1> QED
  BY <1>1, <1>2 DEF Account, Accounted, AccountedAt

-----------------------------------------------------------------------------
(* The steps that do not.                                                  *)

(* A directory is opened.                                                  *)
LEMMA OpenDirStep ==
    ASSUME Shape, Account, OpenNetDir \/ OpenDiskDir PROVE Account'
<1>1. Mine' = Mine /\ todo = {}
  BY DEF OpenNetDir, OpenDiskDir, Mine, Slot, Counted, Shape, Staged
<1>2. fd' = fd /\ name' = name /\ racing' = racing /\ Listing' /\ ~(at' \in {"net", "veth"})
  BY DEF OpenNetDir, OpenDiskDir, world, Listing
<1>3. \A f \in Fds : table'[f] = table[f] \/ (table[f] = None /\ table'[f] = Dir)
  BY DEF OpenNetDir, OpenDiskDir, OpenDir, Free, Shape, TypeOK
<1>4. Refer' /\ Distinct' /\ Accounted'
  BY <1>1, <1>2, <1>3, MineTyped, SameFiles, Frame
<1> QED
  BY <1>2, <1>4 DEF Account, RxFirst

(* It is closed.                                                           *)
LEMMA CloseDirStep ==
    ASSUME Shape, Account, CloseNetDir \/ CloseDiskDir PROVE Account'
<1>1. Mine' = Mine
  BY DEF CloseNetDir, CloseDiskDir, Mine, Slot, Counted
<1>2. fd' = fd /\ name' = name /\ racing' = racing /\ ~(at' \in {"net", "veth"})
  BY DEF CloseNetDir, CloseDiskDir, world
<1>3. \A f \in Fds : table'[f] = IF table[f] = Dir THEN None ELSE table[f]
  BY DEF CloseNetDir, CloseDiskDir, CloseDir
<1>4. \A f \in Fds : table'[f] # Dir
  BY <1>3, MonitorAssumption, FieldTypes
<1>5. Refer' /\ Distinct' /\ Accounted'
  BY <1>1, <1>2, <1>3, <1>4, MineTyped, SameFiles, Frame
<1> QED
  BY <1>2, <1>5 DEF Account, RxFirst

(* A slot of nets is begun: its passthru_fd comes into use and is not good.*)
LEMMA BeginNetStep ==
    ASSUME Shape, Account, NEW i \in Nets, NEW stage \in {"net", "veth"},
           BeginNet(i, stage), Room, at \in {"netdir", "netns"},
           stage = "net" <=> at = "netdir",
           table' = table, count' = count, racing' = racing
    PROVE  Account'
<1>1. PICK n \in 0..(MaxNets - 1) : n = count.net
  BY BeginNetShape
<1>2. /\ todo = {} /\ todo' = {s \in NetSlot(n) : s[3] # "passthru"}
      /\ Mine = Counted /\ Counted' = Counted /\ Slot' = NetSlot(n)
  BY <1>1, BeginNetShape DEF BeginNet, Mine, Slot, Counted, Shape, Staged, NetSlot
<1>3. \A s \in Mine : s \notin NetSlot(n)
  BY <1>1, <1>2, FieldTypes DEF Counted, NetSlot, MemField
<1>4. Mine' = Mine \cup {s \in NetSlot(n) : s[3] = "passthru"}
  BY <1>2, <1>3 DEF Mine, BeginNet
<1>5. /\ \A s \in Fields : s \notin NetSlot(n) => fd'[s] = fd[s]
      /\ \A s \in NetSlot(n) : s[3] = "passthru" => fd'[s] = Bad
  BY <1>1, FieldTypes DEF BeginNet, Cleared, NetSlot
<1>6. ASSUME NEW s \in Mine PROVE FileOf(s)' = FileOf(s)
  <2>1. s[1] = "net" => s[2] \in 0..(MaxNets - 1) /\ s[2] # n
    BY <1>2, <1>3, FieldTypes DEF Counted, NetSlot, MemField
  <2> QED
    BY <1>1, <2>1, BeginNetShape DEF FileOf
<1>7. \A f \in Fds : table'[f] = Dir => Listing'
  BY DirListed DEF BeginNet, Listing
<1>8. Refer' /\ Distinct' /\ Accounted'
  BY <1>3, <1>4, <1>5, <1>6, <1>7, MineTyped, Frame
<1>9. Rx' = <<"net", n, RxBytes>> /\ Rx' \in NetSlot(n) /\ RxBytes # "passthru"
  BY <1>1, MonitorAssumption DEF Rx, NetSlot, NetFields
<1>10. Rx' \in todo' /\ \A s \in NetSlot(n) \ todo' : fd'[s] = Bad
  BY <1>2, <1>5, <1>9
<1>11. NetSlot(count'.net) = NetSlot(n)
  BY <1>1 DEF NetSlot
<1> QED
  BY <1>8, <1>10, <1>11 DEF Account, RxFirst, Good, NetSlot

LEMMA ReadNetDirStep ==
    ASSUME Shape, Account, ReadNetDir PROVE Account'
<1>1. PICK i \in entries : BeginNet(i, "net")
  BY DEF ReadNetDir
<1>2. i \in Nets
  BY DEF ReadNetDir, Shape, Staged
<1> QED
  BY <1>1, <1>2, BeginNetStep DEF ReadNetDir, world

LEMMA FindVethStep ==
    ASSUME Shape, Account, FindVeth PROVE Account'
<1>1. PICK i \in entries :
        \/ Room /\ BeginNet(i, "veth")
        \/ UNCHANGED <<at, fd, name, todo>>
  BY DEF FindVeth
<1>2. at = "netns" /\ table' = table /\ count' = count /\ racing' = racing
  BY DEF FindVeth, world
<1>3. CASE Room /\ BeginNet(i, "veth")
  <2>1. i \in Nets
    BY <1>2 DEF Shape, Staged
  <2> QED
    BY <1>2, <1>3, <2>1, BeginNetStep
<1>4. CASE UNCHANGED <<at, fd, name, todo>>
  <2>1. Mine' = Mine
    BY <1>2, <1>4 DEF Mine, Slot, Counted
  <2>2. \A f \in Fds : table'[f] = Dir => Listing'
    BY <1>2, <1>4, DirListed DEF Listing
  <2>3. Refer' /\ Distinct' /\ Accounted'
    BY <1>2, <1>4, <2>1, <2>2, MineTyped, SameFiles, Frame
  <2> QED
    BY <1>2, <1>4, <2>3 DEF Account, RxFirst
<1> QED
  BY <1>1, <1>3, <1>4

(* The slot is counted, or given up: then nothing of it is open but a stray.*)
LEMMA EndNetStep ==
    ASSUME Shape, Account, EndNet PROVE Account'
<1>1. /\ todo = {} /\ todo' = {} /\ fd' = fd /\ name' = name /\ table' = table
      /\ racing' = racing /\ at \in {"net", "veth"} /\ at' \in {"netdir", "netns"}
      /\ at' = "netdir" <=> at = "net"
  BY DEF EndNet, world
<1>2. /\ count.net \in 0..(MaxNets - 1) /\ name.net[count.net] = cur
      /\ count \in [core : 0..MaxCores, net : 0..MaxNets, disk : 0..MaxDisks]
  BY <1>1, MonitorAssumption DEF Shape, TypeOK, Staged
<1>3. Mine = Counted \cup NetSlot(count.net) /\ Mine' = Counted'
  BY <1>1 DEF Mine, Slot
<1>4. \A f \in Fds : table'[f] = Dir => Listing'
  BY <1>1, DirListed DEF Listing
<1>5. CASE Kept(count.net)
  <2>1. count' = [count EXCEPT !.net = count.net + 1]
    BY <1>5 DEF EndNet
  <2>2. Counted' = Counted \cup NetSlot(count.net)
    BY <1>2, <2>1, FieldTypes DEF Counted, NetSlot
  <2>3. Refer' /\ Distinct' /\ Accounted'
    BY <1>1, <1>3, <1>4, <2>2, MineTyped, SameFiles, Frame
  <2> QED
    BY <1>1, <2>3 DEF Account, RxFirst
<1>6. CASE ~Kept(count.net)
  <2>1. Counted' = Counted
    BY <1>2, <1>6 DEF EndNet, Counted
  <2>2. ASSUME NEW s \in NetSlot(count.net) PROVE fd[s] = Bad \/ Stray(FileOf(s))
    <3>1. ~Good(Rx) /\ (fd[s] = Bad \/ cur \in racing)
      BY <1>1, <1>6 DEF Account, RxFirst, Kept, Rx, Good
    <3>2. s[1] = "net" /\ s[2] = count.net /\ FileOf(s) = File("net", cur, s[3])
      BY <1>2, FieldTypes DEF FileOf, NetSlot
    <3>3. s[3] = RxBytes => s = Rx
      BY <3>2 DEF Rx, NetSlot, NetFields
    <3> QED
      BY <3>1, <3>2, <3>3 DEF Stray, File, Good
  <2>3. Refer' /\ Distinct' /\ Accounted'
    BY <1>1, <1>3, <1>4, <2>1, <2>2, MineTyped, SameFiles, Frame
  <2> QED
    BY <1>1, <2>3 DEF Account, RxFirst
<1> QED
  BY <1>5, <1>6

LEMMA EndDiskStep ==
    ASSUME Shape, Account, EndDisk PROVE Account'
<1> DEFINE s == <<"disk", count.disk, "stat">>
<1>1. /\ todo = {} /\ todo' = {} /\ fd' = fd /\ name' = name /\ table' = table
      /\ racing' = racing /\ at = "disks" /\ at' = "diskdir"
  BY DEF EndDisk, world, Shape, Staged
<1>2. /\ count.disk \in 0..(MaxDisks - 1)
      /\ count \in [core : 0..MaxCores, net : 0..MaxNets, disk : 0..MaxDisks]
  BY <1>1, MonitorAssumption DEF Shape, TypeOK, Staged
<1>3. Mine = Counted \cup {s} /\ Mine' = Counted'
  BY <1>1 DEF Mine, Slot
<1>4. \/ fd[s] # Bad /\ Counted' = Counted \cup {s}
      \/ fd[s] = Bad /\ Counted' = Counted
  <2>1. CASE fd[s] # Bad
    <3>1. count' = [count EXCEPT !.disk = count.disk + 1]
      BY <2>1 DEF EndDisk
    <3> QED
      BY <1>2, <2>1, <3>1, FieldTypes DEF Counted, DiskFields
  <2>2. CASE fd[s] = Bad
    BY <1>2, <2>2 DEF EndDisk, Counted
  <2> QED
    BY <2>1, <2>2
<1>5. \A f \in Fds : table'[f] = Dir => Listing'
  BY <1>1, DirListed DEF Listing
<1>6. Refer' /\ Distinct' /\ Accounted'
  BY <1>1, <1>3, <1>4, <1>5, MineTyped, SameFiles, Frame
<1> QED
  BY <1>1, <1>6 DEF Account, RxFirst

(* destroy() closes all that is in use: what remains open is stray, or the *)
(* process's own.                                                          *)
LEMMA DropStep ==
    ASSUME Shape, Account, Drop PROVE Account'
<1>1. at = "ready" /\ at' = "null" /\ racing' = racing /\ Mine' = {} /\ Mine = Counted
  BY DEF Drop, world, Mine, Shape, Staged, Slot
<1>2. \A f \in Fds : table'[f] = IF f \in Closed THEN None ELSE table[f]
  BY DEF Drop
<1>3. ASSUME NEW f \in Fds PROVE AccountedAt(f)'
  <2>1. CASE f \in Closed
    BY <1>2, <2>1 DEF AccountedAt
  <2>2. CASE f \notin Closed
    <3>1. \A s \in Mine : fd[s] # f
      BY <1>1, <2>2 DEF Closed, Fds, Bad
    <3>2. table[f] \in {None, Stdin, Own} \/ Stray(table[f])
      BY <1>1, <3>1 DEF Account, Accounted, AccountedAt, Listing
    <3> QED
      BY <1>1, <1>2, <2>2, <3>2 DEF AccountedAt, Stray
  <2> QED
    BY <2>1, <2>2
<1> QED
  BY <1>1, <1>3 DEF Account, Refer, Distinct, Accounted, RxFirst

(* The process, the interfaces and the cores.                              *)
LEMMA WorldStep ==
    ASSUME Shape, Account,
           OpenOwn \/ CloseOwn \/ IfaceDown \/ IfaceUp \/ SwitchSmt \/ UNCHANGED vars
    PROVE  Account'
<1>1. /\ fd' = fd /\ name' = name /\ at' = at /\ count' = count /\ todo' = todo /\ cur' = cur
      /\ racing \subseteq racing'
  BY DEF OpenOwn, CloseOwn, IfaceDown, IfaceUp, SwitchSmt, vars, world
<1>2. Mine' = Mine
  BY <1>1 DEF Mine, Slot, Counted, NetSlot
<1>3. \A f \in Fds : \/ table'[f] = table[f]
                     \/ table[f] \in {None, Own} /\ table'[f] \in {None, Own}
  BY DEF OpenOwn, CloseOwn, IfaceDown, IfaceUp, SwitchSmt, vars, Free, Shape, TypeOK
<1>4. None # Dir /\ Own # Dir
  BY MonitorAssumption, FieldTypes DEF Own, Dir, File
<1>5. \A f \in Fds : table'[f] = Dir => Listing'
  BY <1>1, <1>3, <1>4, DirListed DEF Listing
<1>6. Refer' /\ Distinct' /\ Accounted'
  BY <1>1, <1>2, <1>3, <1>5, MineTyped, SameFiles, Frame
<1>7. ASSUME at \in {"net", "veth"}
      PROVE  /\ table' = table
             /\ cur \notin up \/ cur \in racing => cur \notin up' \/ cur \in racing'
  BY <1>7 DEF OpenOwn, CloseOwn, IfaceDown, IfaceUp, SwitchSmt, vars, world, Between
<1>8. Rx' = Rx /\ NetSlot(count.net)' = NetSlot(count.net)
  BY <1>1 DEF Rx, NetSlot
<1>9. at \in {"net", "veth"} => Free' = Free
  BY <1>7 DEF Free
<1>10. RxFirst'
  BY <1>1, <1>7, <1>8, <1>9 DEF Account, RxFirst, Good
<1> QED
  BY <1>6, <1>10 DEF Account

LEMMA AccountStep ==
    ASSUME Shape, Account, [Next]_vars PROVE Account'
BY NewStep, OpenCoreStep, OpenCounterStep, OpenDiskStep, OpenDirStep, CloseDirStep,
   ReadNetDirStep, FindVethStep, EndNetStep, EndDiskStep, DropStep, WorldStep DEF Next

LEMMA Accounts == Spec => [](Shape /\ Account)
BY ShapeInit, AccountInit, ShapeStep, AccountStep, PTL DEF Spec

(* When init() returns, each descriptor that destroy() will close is open  *)
(* on the file of its field, and is that of one field only                 *)
(* (monitor.c:292-356, 470-500).                                           *)
THEOREM ClosesItsOwn == Spec => []Owned
<1>1. Shape /\ Account => Owned
  <2> SUFFICES ASSUME Shape, Account, at = "ready"
               PROVE  /\ \A s \in Counted : fd[s] # Bad => table[fd[s]] = FileOf(s)
                      /\ \A s, t \in Counted : fd[s] = fd[t] /\ fd[s] # Bad => s = t
    BY DEF Owned
  <2>1. Mine = Counted
    BY DEF Mine, Slot, Shape, Staged
  <2> QED
    BY <2>1 DEF Account, Refer, Distinct, Good
<1> QED
  BY Accounts, <1>1, PTL

(* Between monitors nothing is left open but a racing interface's counters *)
(* (monitor.c:115, 470-500).                                               *)
THEOREM NoneLeft == Spec => []NoLeak
<1>1. Shape /\ Account => NoLeak
  BY DEF NoLeak, Account, Accounted, AccountedAt, Stray, Listing, Mine
<1> QED
  BY Accounts, <1>1, PTL

-----------------------------------------------------------------------------
(* What is read: the invariant behind NothingMissed and AllCoresRead.      *)

(* The interfaces that init() has still to look at, or is looking at.      *)
Ahead == {i \in Nets : \/ at = "cores"
                       \/ at \in {"netdir", "net", "netns", "veth"} /\ i \in entries
                       \/ at \in {"netdir", "net"} /\ i \in Veths
                       \/ at \in {"net", "veth"} /\ i = cur}

Named(i) == \E n \in 0..(count.net - 1) : name.net[n] = i

Overfull == count.net = MaxNets /\ Cardinality(Nets) > MaxNets

(* An interface belongs to one directory and is taken from it once.        *)
Sorted ==
    /\ at \in {"netdir", "net"} => entries \subseteq Ifaces
    /\ at \in {"netns", "veth"} => entries \subseteq Veths
    /\ at = "net" => cur \in Ifaces \ entries
    /\ at = "veth" => cur \in Veths \ entries

NamedOnce ==
    at # "null" =>
      \A n \in 0..(count.net - 1) :
        /\ name.net[n] \in Nets \ Ahead
        /\ \A m \in 0..(count.net - 1) : name.net[m] = name.net[n] => m = n

(* The fields whose file has been there since the init began.              *)
Promised(s) ==
    \/ s \in NetFields /\ s[3] # "passthru" /\ name.net[s[2]] \in stayed.net
    \/ s \in CoreFields /\ s[3] \notin Denied /\ s[2] \in stayed.core

Present == stayed.net \subseteq up /\ stayed.core \subseteq online

Filled == ~full => \A s \in Mine : Promised(s) => Good(s)

Handled ==
    at # "null" /\ ~full =>
      \A i \in stayed.net : i \in Ahead \/ Named(i) \/ Overfull

Reading == Sorted /\ NamedOnce /\ Present /\ Filled /\ Handled

(* As many cores are read as have been online since, or as there is room.  *)
CoresCounted ==
    at # "null" => count.core = MaxCores \/ Cardinality(stayed.core) <= count.core

-----------------------------------------------------------------------------
(* An open() of a file that is there fails only for want of a descriptor,  *)
(* and that is remembered.                                                 *)
LEMMA OpenFull ==
    ASSUME NEW s \in Fields, NEW file, NEW there, Shape, Open(s, file, there)
    PROVE  /\ full => full'
           /\ there => fd'[s] # Bad \/ full'
<1>1. fd \in [Fields -> Fds \cup {Bad}] /\ full \in BOOLEAN
  BY DEF Shape, TypeOK
<1>2. CASE \E f \in Free : fd' = [fd EXCEPT ![s] = f] /\ UNCHANGED full
  <2>1. PICK f \in Free : fd' = [fd EXCEPT ![s] = f] /\ UNCHANGED full
    BY <1>2
  <2>2. fd'[s] # Bad
    BY <1>1, <2>1, MonitorAssumption DEF Free, Fds, Bad
  <2> QED  BY <2>1, <2>2
<1>3. CASE full' = (full \/ there)
  BY <1>3, Zenon
<1> QED  BY <1>2, <1>3, Zenon DEF Open

-----------------------------------------------------------------------------
(* What was there and has been since is there.                             *)
LEMMA PresentStep ==
    ASSUME Shape, Present, [Next]_vars PROVE Present'
<1>1. CASE New
  BY <1>1 DEF New, Present
<1>2. CASE IfaceDown
  <2>1. PICK i \in up : up' = up \ {i} /\ stayed' = [stayed EXCEPT !.net = stayed.net \ {i}]
    BY <1>2 DEF IfaceDown
  <2>2. stayed'.net = stayed.net \ {i} /\ stayed'.core = stayed.core
    BY <2>1 DEF Shape, TypeOK
  <2> QED  BY <1>2, <2>1, <2>2 DEF IfaceDown, Present
<1>3. CASE IfaceUp
  BY <1>3 DEF IfaceUp, Present
<1>4. CASE SwitchSmt
  <2>1. stayed'.net = stayed.net /\ stayed'.core = stayed.core \cap online'
    BY <1>4 DEF SwitchSmt, Shape, TypeOK
  <2> QED  BY <1>4, <2>1 DEF SwitchSmt, Present
<1>5. CASE UNCHANGED world \/ UNCHANGED vars
  BY <1>5 DEF world, vars, Present
<1> QED
  BY <1>1, <1>2, <1>3, <1>4, <1>5
  DEF Next, OpenCore, OpenNetDir, ReadNetDir, OpenCounter, EndNet, CloseNetDir, FindVeth,
      OpenDiskDir, OpenDisk, EndDisk, CloseDiskDir, Drop, OpenOwn, CloseOwn

(* An interface is taken from the directory that it belongs to.            *)
LEMMA SortedStep ==
    ASSUME Shape, Sorted, [Next]_vars PROVE Sorted'
<1>1. CASE OpenNetDir
  BY <1>1 DEF OpenNetDir, OpenDir, Sorted
<1>2. CASE ReadNetDir
  BY <1>2 DEF ReadNetDir, BeginNet, Sorted
<1>3. CASE EndNet
  BY <1>3 DEF EndNet, Sorted
<1>4. CASE CloseNetDir
  BY <1>4 DEF CloseNetDir, Sorted
<1>5. CASE FindVeth
  BY <1>5 DEF FindVeth, BeginNet, Sorted
<1>6. CASE UNCHANGED <<at, entries, cur>>
  BY <1>6 DEF Sorted
<1>7. CASE New \/ OpenDiskDir \/ OpenDisk \/ EndDisk \/ CloseDiskDir \/ Drop
  BY <1>7 DEF New, OpenDiskDir, OpenDisk, EndDisk, CloseDiskDir, Drop, Sorted
<1> QED
  BY <1>1, <1>2, <1>3, <1>4, <1>5, <1>6, <1>7
  DEF Next, OpenCore, OpenCounter, OpenOwn, CloseOwn, IfaceDown, IfaceUp, SwitchSmt, world, vars

-----------------------------------------------------------------------------
(* As many slots as there are interfaces, each with another name, leave no *)
(* interface without one.                                                  *)
LEMMA AllNamed ==
    ASSUME Shape, NamedOnce, at # "null", ~Room, ~Overfull, NEW i \in Nets
    PROVE  Named(i)
<1>1. count.net = MaxNets /\ MaxNets \in Nat
  BY MonitorAssumption DEF Shape, TypeOK, Room
<1>2. IsFiniteSet(Nets) /\ Cardinality(Nets) \in Nat /\ Cardinality(Nets) <= MaxNets
  BY <1>1, MonitorAssumption, FS_CardinalityType DEF Overfull
<1> DEFINE S == 0..(MaxNets - 1)
           T == Nets \ {i}
<1> SUFFICES ASSUME ~Named(i) PROVE FALSE
  OBVIOUS
<1>3. IsFiniteSet(S) /\ Cardinality(S) = MaxNets
  BY <1>1, FS_Interval
<1>4. IsFiniteSet(T) /\ Cardinality(T) = Cardinality(Nets) - 1
  BY <1>2, FS_RemoveElement
<1>5. name.net \in [S -> T]
  <2>1. \A n \in S : name.net[n] \in T
    BY <1>1 DEF NamedOnce, Named
  <2>2. name.net \in [S -> Nets \cup {None}]
    BY DEF Shape, TypeOK
  <2> QED  BY <2>1, <2>2
<1>6. \A m, n \in S : name.net[m] = name.net[n] => m = n
  BY <1>1 DEF NamedOnce
<1> HIDE DEF S, T
<1>7. Cardinality(T) < Cardinality(S)
  BY <1>1, <1>2, <1>3, <1>4
<1>8. PICK m, n \in S : m # n /\ name.net[m] = name.net[n]
  BY <1>3, <1>4, <1>5, <1>7, FS_PigeonHole
<1> QED  BY <1>6, <1>8

(* A step that takes no slot into the count.                               *)
LEMMA SameSlots ==
    ASSUME Shape, NamedOnce, Handled, at # "null",
           count'.net = count.net,
           \A n \in 0..(count.net - 1) : name'.net[n] = name.net[n],
           Ahead' \subseteq Ahead, stayed'.net \subseteq stayed.net, full => full',
           ~full' => \A i \in stayed'.net : i \in Ahead => i \in Ahead' \/ Named(i) \/ Overfull
    PROVE  NamedOnce' /\ Handled'
<1>1. NamedOnce'
  BY DEF NamedOnce
<1>2. \A i : Named(i) => Named(i)'
  BY DEF Named
<1>3. Overfull => Overfull'
  BY DEF Overfull
<1> QED  BY <1>1, <1>2, <1>3 DEF Handled

(* A slot is begun: the names of the others stay.                          *)
LEMMA BeginNames ==
    ASSUME Shape, NEW i \in Nets, NEW stage, BeginNet(i, stage), Room
    PROVE  \A n \in 0..(count.net - 1) : name'.net[n] = name.net[n]
BY BeginNetShape, MonitorAssumption DEF Shape, TypeOK

LEMMA EndNetHandled ==
    ASSUME Shape, Sorted, NamedOnce, Filled, Handled, EndNet
    PROVE  NamedOnce' /\ Handled'
<1>1. /\ at \in {"net", "veth"} /\ todo = {} /\ cur \in Nets /\ name' = name /\ full' = full
      /\ stayed' = stayed /\ entries' = entries /\ at' \in {"netdir", "netns"}
      /\ at' = "netdir" <=> at = "net"
      /\ name.net[count.net] = cur /\ count.net \in 0..(MaxNets - 1)
  BY MonitorAssumption DEF EndNet, Shape, Staged, TypeOK, world
<1>2. Ahead' = Ahead \ {cur}
  <2>1. CASE at = "net"
    <3>1. at' = "netdir" /\ cur \notin entries /\ cur \notin Veths
      BY <1>1, <2>1, MonitorAssumption DEF Sorted
    <3> QED  BY <1>1, <2>1, <3>1 DEF Ahead
  <2>2. CASE at = "veth"
    <3>1. at' = "netns" /\ cur \notin entries
      BY <1>1, <2>2 DEF Sorted
    <3> QED  BY <1>1, <2>2, <3>1 DEF Ahead
  <2> QED  BY <1>1, <2>1, <2>2
<1>3. cur \in Ahead
  BY <1>1 DEF Ahead
<1>4. count \in [core : 0..MaxCores, net : 0..MaxNets, disk : 0..MaxDisks]
  BY DEF Shape, TypeOK
<1>5. CASE Kept(count.net)
  <2>1. count'.net = count.net + 1
    BY <1>4, <1>5 DEF EndNet
  <2>2. \A n \in 0..count.net : n = count.net \/ n \in 0..(count.net - 1)
    BY <1>1
  <2>3. \A n \in 0..(count.net - 1) : name.net[n] \in Nets \ Ahead /\ name.net[n] # cur
    BY <1>1, <1>3 DEF NamedOnce
  <2>4. \A n \in 0..(count.net - 1), m \in 0..(count.net - 1) :
          name.net[m] = name.net[n] => m = n
    BY <1>1 DEF NamedOnce
  <2>5. 0..(count'.net - 1) = 0..count.net
    BY <1>1, <2>1
  <2>6. NamedOnce'
    <3> SUFFICES ASSUME NEW n \in 0..count.net
                 PROVE  /\ name.net[n] \in Nets \ Ahead'
                        /\ \A m \in 0..count.net : name.net[m] = name.net[n] => m = n
      BY <1>1, <2>5 DEF NamedOnce
    <3> QED  BY <1>1, <1>2, <2>2, <2>3, <2>4
  <2>11. count.net \in 0..(count'.net - 1) /\ 0..(count.net - 1) \subseteq 0..(count'.net - 1)
    BY <1>1, <2>1
  <2>7. \A i : Named(i) => Named(i)'
    BY <1>1, <2>11 DEF Named
  <2>8. \E n \in 0..(count'.net - 1) : name'.net[n] = cur
    BY <1>1, <2>11
  <2>9. count.net # MaxNets
    BY <1>1, MonitorAssumption
  <2>10. Handled'
    <3> SUFFICES ASSUME ~full, NEW i \in stayed.net PROVE i \in Ahead' \/ Named(i)'
      BY <1>1 DEF Handled
    <3>1. CASE i = cur
      BY <2>8, <3>1 DEF Named
    <3>2. CASE i # cur
      <4>1. i \in Ahead \/ Named(i)
        BY <1>1, <2>9 DEF Handled, Overfull
      <4> QED  BY <1>2, <2>7, <3>2, <4>1
    <3> QED  BY <3>1, <3>2
  <2> QED  BY <2>6, <2>10
<1>6. CASE ~Kept(count.net)
  <2>1. count'.net = count.net
    BY <1>4, <1>6 DEF EndNet
  <2>2. ~full => cur \notin stayed.net
    <3>1. Rx \in NetSlot(count.net) /\ Rx[3] # "passthru" /\ Rx[2] = count.net /\ ~Good(Rx)
      BY <1>1, <1>6, MonitorAssumption DEF Rx, NetSlot, NetFields, Kept, Good
    <3>2. Rx \in Mine /\ Rx \in NetFields
      BY <1>1, <3>1 DEF Mine, Slot, NetSlot
    <3> QED  BY <1>1, <3>1, <3>2 DEF Filled, Promised
  <2> QED  BY <1>1, <1>2, <2>1, <2>2, SameSlots
<1> QED  BY <1>5, <1>6

LEMMA HandledStep ==
    ASSUME Shape, Sorted, NamedOnce, Present, Filled, Handled, [Next]_vars
    PROVE  NamedOnce' /\ Handled'
<1> USE MonitorAssumption
<1>0. /\ stayed \in [net : SUBSET Nets, core : SUBSET Cpus] /\ full \in BOOLEAN
      /\ entries \subseteq Nets \cup Disks
      /\ at \in {"netdir", "net", "netns", "veth"} => entries \subseteq Nets
      /\ count \in [core : 0..MaxCores, net : 0..MaxNets, disk : 0..MaxDisks]
  BY DEF Shape, TypeOK, Staged
<1>1. CASE New
  <2>1. count'.net = 0 /\ at' = "cores" /\ stayed'.net = up /\ Ahead' = Nets /\ up \subseteq Nets
    BY <1>1 DEF New, Ahead, Shape, TypeOK
  <2> QED  BY <2>1 DEF NamedOnce, Handled
<1>2. CASE OpenCore \/ OpenCounter
  <2>1. at # "null" /\ UNCHANGED <<count, name, at, entries, cur, stayed>>
    BY <1>2 DEF OpenCore, OpenCounter, world
  <2>3. full => full'
    <3>1. \A s \in todo : s \in Fields
      BY DEF Shape, TypeOK
    <3> QED  BY <1>2, <3>1, OpenFull DEF OpenCore, OpenCounter
  <2>2. Ahead' = Ahead
    BY <2>1 DEF Ahead
  <2> QED  BY <2>1, <2>2, <2>3, SameSlots
<1>3. CASE OpenNetDir
  <2>1. /\ at = "cores" /\ at' = "netdir" /\ UNCHANGED <<count, name, stayed>>
        /\ full => full'
        /\ ~full' => entries' = up \cap Ifaces
    BY <1>3 DEF OpenNetDir, OpenDir, world
  <2>2. Ahead' \subseteq Ahead
    BY <2>1 DEF Ahead
  <2>3. ~full' => \A i \in stayed'.net : i \in Ahead'
    BY <1>0, <2>1 DEF Ahead, Present, Nets
  <2> QED  BY <2>1, <2>2, <2>3, SameSlots
<1>4. CASE ReadNetDir
  <2>1. PICK i \in entries : BeginNet(i, "net") /\ entries' = entries \ {i}
    BY <1>4 DEF ReadNetDir
  <2>2. at = "netdir" /\ Room /\ UNCHANGED <<count, stayed, full>> /\ i \in Nets
    BY <1>0, <1>4 DEF ReadNetDir, world
  <2>3. at' = "net" /\ cur' = i
    BY <2>1 DEF BeginNet
  <2>4. Ahead' = Ahead
    BY <2>1, <2>2, <2>3 DEF Ahead
  <2>5. \A n \in 0..(count.net - 1) : name'.net[n] = name.net[n]
    BY <2>1, <2>2, BeginNames
  <2> QED  BY <2>2, <2>4, <2>5, SameSlots
<1>5. CASE EndNet
  BY <1>5, EndNetHandled
<1>6. CASE CloseNetDir
  <2>1. /\ at = "netdir" /\ at' = "netns" /\ entries' = Veths /\ UNCHANGED <<count, name, stayed, full>>
        /\ entries = {} \/ ~Room
    BY <1>6 DEF CloseNetDir, world
  <2>2. Ahead' = Veths /\ Ahead = entries \cup Veths
    BY <1>0, <2>1 DEF Ahead, Nets
  <2>3. \A i \in Nets : ~Room => Named(i) \/ Overfull
    BY <2>1, AllNamed
  <2> QED  BY <1>0, <2>1, <2>2, <2>3, SameSlots
<1>7. CASE FindVeth
  <2>1. PICK i \in entries :
          /\ entries' = entries \ {i}
          /\ IF Room /\ i \in up /\ Pipe
             THEN BeginNet(i, "veth") /\ UNCHANGED full
             ELSE full' = (full \/ ~Pipe) /\ UNCHANGED <<at, cur, fd, name, todo>>
    BY <1>7 DEF FindVeth
  <2>2. at = "netns" /\ UNCHANGED <<count, stayed>> /\ i \in Nets
    BY <1>0, <1>7 DEF FindVeth, world
  <2>3. CASE Room /\ i \in up /\ Pipe
    <3>1. at' = "veth" /\ cur' = i
      BY <2>1, <2>3 DEF BeginNet
    <3>2. Ahead' = Ahead
      BY <2>1, <2>2, <3>1 DEF Ahead
    <3>3. \A n \in 0..(count.net - 1) : name'.net[n] = name.net[n]
      BY <2>1, <2>2, <2>3, BeginNames
    <3> QED  BY <2>1, <2>2, <2>3, <3>2, <3>3, SameSlots
  <2>4. CASE ~(Room /\ i \in up /\ Pipe)
    <3>1. UNCHANGED <<at, cur, name>> /\ full' = (full \/ ~Pipe)
      BY <2>1, <2>4
    <3>2. Ahead' = Ahead \ {i}
      BY <2>1, <2>2, <3>1 DEF Ahead
    <3>3. ~Room => Named(i) \/ Overfull
      BY <2>2, AllNamed
    <3>4. i \notin up => i \notin stayed.net
      BY DEF Present
    <3>5. ~full' => (i \in stayed'.net => Named(i) \/ Overfull)
      BY <2>2, <2>4, <3>1, <3>3, <3>4
    <3>6. ~full' => \A j \in stayed'.net : j \in Ahead => j \in Ahead' \/ Named(j) \/ Overfull
      BY <3>2, <3>5
    <3>7. full => full'
      BY <3>1
    <3> QED  BY <2>2, <3>1, <3>2, <3>6, <3>7, SameSlots
  <2> QED  BY <2>3, <2>4
<1>8. CASE OpenDiskDir
  <2>1. /\ at = "netns" /\ entries = {} /\ at' = "diskdir" /\ UNCHANGED <<count, name, stayed>>
        /\ full => full'
    BY <1>8 DEF OpenDiskDir, OpenDir, world
  <2>2. Ahead = {} /\ Ahead' = {}
    BY <2>1 DEF Ahead
  <2> QED  BY <2>1, <2>2, SameSlots
<1>9. CASE OpenDisk \/ EndDisk \/ CloseDiskDir
  <2>1. /\ at \in {"diskdir", "disks"} /\ at' \in {"diskdir", "disks", "ready"}
        /\ UNCHANGED stayed
    BY <1>9 DEF OpenDisk, EndDisk, CloseDiskDir, world
  <2>4. full => full'
    <3>1. OpenDisk => <<"disk", count.disk, "stat">> \in Fields
      BY <1>0 DEF OpenDisk, Fields, DiskFields
    <3> QED  BY <1>9, <3>1, OpenFull DEF OpenDisk, EndDisk, CloseDiskDir
  <2>2. count'.net = count.net /\ name'.net = name.net
    <3>1. name = [net |-> name.net, disk |-> name.disk]
      BY DEF Shape, TypeOK
    <3>2. OpenDisk => name'.net = name.net
      BY <3>1 DEF OpenDisk
    <3> QED  BY <1>0, <1>9, <3>2 DEF OpenDisk, EndDisk, CloseDiskDir
  <2>3. Ahead = {} /\ Ahead' = {}
    BY <2>1 DEF Ahead
  <2> QED  BY <2>1, <2>2, <2>3, <2>4, SameSlots
<1>10. CASE Drop
  BY <1>10 DEF Drop, NamedOnce, Handled
<1>11. CASE OpenOwn \/ CloseOwn \/ IfaceDown \/ IfaceUp \/ SwitchSmt \/ UNCHANGED vars
  <2>1. UNCHANGED <<count, name, at, entries, cur, full>>
    BY <1>11 DEF OpenOwn, CloseOwn, IfaceDown, IfaceUp, SwitchSmt, vars
  <2>2. stayed'.net \subseteq stayed.net
    BY <1>0, <1>11 DEF OpenOwn, CloseOwn, IfaceDown, IfaceUp, SwitchSmt, vars, world
  <2>3. Ahead' = Ahead
    BY <2>1 DEF Ahead
  <2>4. CASE at = "null"
    BY <2>1, <2>4 DEF NamedOnce, Handled
  <2> QED  BY <2>1, <2>2, <2>3, <2>4, SameSlots
<1> QED
  BY <1>1, <1>2, <1>3, <1>4, <1>5, <1>6, <1>7, <1>8, <1>9, <1>10, <1>11 DEF Next

-----------------------------------------------------------------------------
(* What has been there is good.                                            *)

(* A step that opens nothing of the monitor.                               *)
LEMMA SameGood ==
    ASSUME Shape, Filled,
           \A s \in Mine : fd'[s] = fd[s],
           \A s \in Mine' : s \notin Mine => s[3] = "passthru" /\ s \notin CoreFields,
           \A s \in Mine : s \in NetFields => name'.net[s[2]] = name.net[s[2]],
           stayed'.net \subseteq stayed.net, stayed'.core \subseteq stayed.core, full => full'
    PROVE  Filled'
<1> SUFFICES ASSUME ~full', NEW s \in Mine', Promised(s)' PROVE fd'[s] # Bad
  BY DEF Filled, Good
<1>1. s \in Mine
  BY DEF Promised
<1>2. Promised(s)
  BY <1>1 DEF Promised
<1> QED  BY <1>1, <1>2 DEF Filled, Good

(* A step that opens one file.                                             *)
LEMMA OpenGood ==
    ASSUME Shape, Filled, Mine \subseteq Fields,
           NEW s \in Fields, NEW file, NEW there, Open(s, file, there),
           s \notin Mine, Mine' = Mine \cup {s}, Promised(s)' => there,
           \A t \in Mine : t \in NetFields => name'.net[t[2]] = name.net[t[2]],
           stayed' = stayed
    PROVE  Filled'
<1> SUFFICES ASSUME ~full', NEW t \in Mine', Promised(t)' PROVE fd'[t] # Bad
  BY DEF Filled, Good
<1>1. CASE t = s
  BY <1>1, OpenFull
<1>2. CASE t # s
  <2>1. t \in Mine /\ fd'[t] = fd[t]
    BY <1>2 DEF Open, Shape, TypeOK
  <2>2. Promised(t)
    BY <2>1 DEF Promised
  <2> QED  BY <2>1, <2>2, OpenFull DEF Filled, Good
<1> QED  BY <1>1, <1>2

LEMMA FilledNew ==
    ASSUME Shape, Filled, New PROVE Filled'
<1>1. Mine' = {MemField}
  BY DEF New, Mine, Slot, Counted, MemField, CoreFields, NetFields, DiskFields
<1>2. ~Promised(MemField)'
  BY FieldTypes DEF Promised, MemField
<1> QED  BY <1>1, <1>2 DEF Filled

LEMMA FilledOpen ==
    ASSUME Shape, Present, Filled, OpenCore \/ OpenCounter \/ OpenDisk PROVE Filled'
<1>1. Mine \subseteq Fields
  BY MineTyped
<1>2. CASE OpenCore
  <2>1. PICK s \in todo : /\ Open(s, File("core", s[2], s[3]), s[2] \in online /\ s[3] \notin Denied)
                          /\ todo' = todo \ {s}
    BY <1>2 DEF OpenCore
  <2>2. s \in CoreFields /\ s[2] < count.core /\ s \in Fields
    BY <1>2, <2>1, FieldTypes DEF OpenCore, Shape, Staged
  <2>3. Mine' = Mine \cup {s} /\ s \notin Mine /\ UNCHANGED <<name, stayed, online>>
    BY <1>2, <2>1, <2>2 DEF OpenCore, Mine, Slot, Counted, world
  <2>4. Promised(s)' => s[2] \in online /\ s[3] \notin Denied
    BY <2>2, <2>3, FieldTypes DEF Promised, Present
  <2> QED  BY <1>1, <2>1, <2>2, <2>3, <2>4, OpenGood
<1>3. CASE OpenCounter
  <2>1. PICK s \in todo : /\ Open(s, File("net", cur, s[3]), cur \in up)
                          /\ todo' = todo \ {s}
    BY <1>3 DEF OpenCounter
  <2>2. /\ s \in NetSlot(count.net) /\ s \in NetFields /\ s[3] # "passthru" /\ s \in Fields
        /\ name.net[count.net] = cur
    BY <1>3, <2>1, FieldTypes DEF OpenCounter, Shape, Staged, NetSlot
  <2>3. Mine' = Mine \cup {s} /\ s \notin Mine /\ UNCHANGED <<name, stayed, up>>
    BY <1>3, <2>1, <2>2 DEF OpenCounter, Mine, Slot, Counted, world
  <2>4. Promised(s)' => cur \in up
    BY <2>2, <2>3, FieldTypes DEF Promised, Present, NetSlot
  <2> QED  BY <1>1, <2>1, <2>2, <2>3, <2>4, OpenGood
<1>4. CASE OpenDisk
  <2>0. PICK n \in 0..(MaxDisks - 1) : n = count.disk
    BY <1>4, MonitorAssumption DEF OpenDisk, Shape, TypeOK
  <2> DEFINE s == <<"disk", n, "stat">>
  <2>1. PICK d \in entries, there \in BOOLEAN :
           /\ name' = [name EXCEPT !.disk[n] = d]
           /\ Open(s, File("disk", d, "stat"), there)
    BY <1>4, <2>0 DEF OpenDisk
  <2>2. s \in Fields /\ s \in DiskFields
    BY <2>0 DEF Fields, DiskFields
  <2>3. count.disk = n /\ count'.disk = n /\ todo = {} /\ stayed' = stayed
    BY <1>4, <2>0 DEF OpenDisk, Shape, Staged, world
  <2>4. Mine = Counted /\ Mine' = Mine \cup {s}
    BY <1>4, <2>3 DEF OpenDisk, Mine, Slot, Counted
  <2>5. s \notin Mine
    BY <2>3, <2>4, FieldTypes DEF Counted, MemField
  <2>6. name'.net = name.net
    BY <2>1 DEF Shape, TypeOK
  <2>7. ~Promised(s)'
    BY DEF Promised, NetFields, CoreFields
  <2> HIDE DEF s
  <2> QED  BY <1>1, <2>1, <2>2, <2>3, <2>4, <2>5, <2>6, <2>7, OpenGood
<1> QED  BY <1>2, <1>3, <1>4

LEMMA FilledBegin ==
    ASSUME Shape, Filled, NEW i \in Nets, NEW stage \in {"net", "veth"},
           BeginNet(i, stage), Room, at \in {"netdir", "netns"},
           count' = count, stayed' = stayed, full' = full
    PROVE  Filled'
<1>1. PICK n \in 0..(MaxNets - 1) : n = count.net
  BY BeginNetShape
<1>2. /\ todo = {} /\ todo' = {s \in NetSlot(n) : s[3] # "passthru"}
      /\ Mine = Counted /\ Counted' = Counted /\ Slot' = NetSlot(n)
  BY <1>1, BeginNetShape DEF BeginNet, Mine, Slot, Counted, Shape, Staged, NetSlot
<1>3. \A s \in Mine : s \notin NetSlot(n)
  BY <1>1, <1>2, FieldTypes DEF Counted, NetSlot, MemField
<1>4. Mine' = Mine \cup {s \in NetSlot(n) : s[3] = "passthru"}
  BY <1>2, <1>3 DEF Mine, BeginNet
<1>5. \A s \in Mine : fd'[s] = fd[s]
  BY <1>1, <1>3, MineTyped DEF BeginNet, Cleared
<1>6. \A s \in Mine : s \in NetFields => name'.net[s[2]] = name.net[s[2]]
  <2> SUFFICES ASSUME NEW s \in Mine, s \in NetFields PROVE name'.net[s[2]] = name.net[s[2]]
    OBVIOUS
  <2>1. s[2] \in 0..(MaxNets - 1) /\ s[2] # n
    BY <1>3, FieldTypes DEF NetSlot
  <2> QED  BY <1>1, <2>1, BeginNetShape
<1>7. \A s \in NetSlot(n) : s \notin CoreFields
  BY FieldTypes DEF NetSlot
<1> QED  BY <1>4, <1>5, <1>6, <1>7, SameGood

LEMMA FilledStep ==
    ASSUME Shape, Present, Filled, [Next]_vars PROVE Filled'
<1>1. CASE OpenNetDir \/ OpenDiskDir \/ CloseNetDir \/ CloseDiskDir
  <2>1. Mine' = Mine
    BY <1>1 DEF OpenNetDir, OpenDiskDir, CloseNetDir, CloseDiskDir, Mine, Slot, Counted, Shape, Staged
  <2>2. UNCHANGED <<fd, name, stayed>> /\ (full => full')
    BY <1>1 DEF OpenNetDir, OpenDiskDir, OpenDir, CloseNetDir, CloseDiskDir, world
  <2> QED  BY <1>1, <2>1, <2>2, SameGood
<1>2. CASE ReadNetDir
  <2>1. PICK i \in entries : BeginNet(i, "net")
    BY <1>2 DEF ReadNetDir
  <2>2. i \in Nets
    BY <1>2 DEF ReadNetDir, Shape, Staged
  <2> QED  BY <1>2, <2>1, <2>2, FilledBegin DEF ReadNetDir, world
<1>3. CASE FindVeth
  <2>1. PICK i \in entries :
          IF Room /\ i \in up /\ Pipe
          THEN BeginNet(i, "veth") /\ UNCHANGED full
          ELSE full' = (full \/ ~Pipe) /\ UNCHANGED <<at, cur, fd, name, todo>>
    BY <1>3 DEF FindVeth
  <2>2. at = "netns" /\ UNCHANGED <<count, stayed>> /\ i \in Nets
    BY <1>3 DEF FindVeth, world, Shape, Staged
  <2>3. CASE Room /\ i \in up /\ Pipe
    BY <2>1, <2>2, <2>3, FilledBegin
  <2>4. CASE ~(Room /\ i \in up /\ Pipe)
    <3>1. UNCHANGED <<at, fd, name, todo>> /\ full' = (full \/ ~Pipe)
      BY <2>1, <2>4
    <3>2. Mine' = Mine
      BY <2>2, <3>1 DEF Mine, Slot, Counted
    <3>3. full => full'
      BY <3>1
    <3> QED  BY <2>2, <3>1, <3>2, <3>3, SameGood
  <2> QED  BY <2>3, <2>4
<1>4. CASE EndNet
  <2>1. /\ todo = {} /\ UNCHANGED <<todo, fd, name, stayed, full>>
        /\ at \in {"net", "veth"} /\ at' \in {"netdir", "netns"}
        /\ count.net \in 0..(MaxNets - 1)
        /\ count \in [core : 0..MaxCores, net : 0..MaxNets, disk : 0..MaxDisks]
    BY <1>4, MonitorAssumption DEF EndNet, world, Shape, TypeOK, Staged
  <2>2. Mine' \subseteq Mine
    <3>1. PICK k \in {count.net, count.net + 1} : count' = [count EXCEPT !.net = k]
      BY <1>4 DEF EndNet
    <3> QED  BY <2>1, <3>1, FieldTypes DEF Mine, Slot, Counted, NetSlot
  <2> QED  BY <2>1, <2>2, SameGood
<1>5. CASE EndDisk
  <2>1. /\ todo = {} /\ UNCHANGED <<todo, fd, name, stayed, full>>
        /\ at = "disks" /\ at' = "diskdir" /\ count.disk \in Nat
        /\ count \in [core : 0..MaxCores, net : 0..MaxNets, disk : 0..MaxDisks]
    BY <1>5, MonitorAssumption DEF EndDisk, world, Shape, TypeOK, Staged
  <2>2. Mine' \subseteq Mine
    <3>1. PICK k \in {count.disk, count.disk + 1} : count' = [count EXCEPT !.disk = k]
      BY <1>5 DEF EndDisk
    <3>2. \A s \in DiskFields : s[2] < k => s[2] < count.disk \/ s = <<"disk", count.disk, "stat">>
      BY <2>1, FieldTypes DEF DiskFields
    <3> QED  BY <2>1, <3>1, <3>2 DEF Mine, Slot, Counted
  <2> QED  BY <2>1, <2>2, SameGood
<1>6. CASE Drop
  BY <1>6 DEF Drop, Filled, Mine
<1>7. CASE OpenOwn \/ CloseOwn \/ IfaceDown \/ IfaceUp \/ SwitchSmt \/ UNCHANGED vars
  <2>1. UNCHANGED <<fd, name, at, count, todo, full>>
    BY <1>7 DEF OpenOwn, CloseOwn, IfaceDown, IfaceUp, SwitchSmt, vars
  <2>2. Mine' = Mine
    BY <2>1 DEF Mine, Slot, Counted, NetSlot
  <2>3. stayed \in [net : SUBSET Nets, core : SUBSET Cpus]
    BY DEF Shape, TypeOK
  <2>4. stayed'.net \subseteq stayed.net /\ stayed'.core \subseteq stayed.core
    BY <1>7, <2>3 DEF OpenOwn, CloseOwn, IfaceDown, IfaceUp, SwitchSmt, vars, world
  <2> QED  BY <2>1, <2>2, <2>4, SameGood
<1> QED  BY <1>1, <1>2, <1>3, <1>4, <1>5, <1>6, <1>7, FilledNew, FilledOpen DEF Next

-----------------------------------------------------------------------------
LEMMA ReadingInit == Init => Reading
BY DEF Init, Reading, Sorted, NamedOnce, Present, Filled, Mine, Handled

LEMMA Reads == Spec => [](Shape /\ Account /\ Reading)
<1>1. Shape /\ Reading /\ [Next]_vars => Reading'
  BY SortedStep, PresentStep, FilledStep, HandledStep DEF Reading
<1> QED
  BY <1>1, ReadingInit, Accounts, PTL DEF Spec

(* An interface that is there throughout is read, unless there is no room  *)
(* or no descriptor for it, whatever comes and goes beside it              *)
(* (monitor.c:191, 251).                                                   *)
THEOREM MissesNothing == Spec => []NothingMissed
<1>1. Shape /\ Account /\ Reading => NothingMissed
  <2> SUFFICES ASSUME Shape, Account, Reading, at = "ready", ~full,
                      count.net < MaxNets \/ Cardinality(Nets) <= MaxNets, NEW i \in stayed.net
               PROVE  \E n \in 0..(count.net - 1) : \A c \in Counters :
                        /\ fd[<<"net", n, c>>] # Bad
                        /\ table[fd[<<"net", n, c>>]] = File("net", i, c)
    BY DEF NothingMissed
  <2>1. count.net \in 0..MaxNets /\ MaxNets \in Nat /\ IsFiniteSet(Nets)
    BY MonitorAssumption DEF Shape, TypeOK
  <2>2. ~Overfull /\ Ahead = {}
    BY <2>1, FS_CardinalityType DEF Overfull, Ahead
  <2>3. PICK n \in 0..(count.net - 1) : name.net[n] = i
    BY <2>2 DEF Reading, Handled, Named
  <2>4. ASSUME NEW c \in Counters
        PROVE  fd[<<"net", n, c>>] # Bad /\ table[fd[<<"net", n, c>>]] = File("net", i, c)
    <3> DEFINE s == <<"net", n, c>>
    <3>1. s \in NetFields /\ c # "passthru" /\ s[1] = "net" /\ s[2] = n /\ s[3] = c /\ n < count.net
      BY <2>1, MonitorAssumption DEF NetFields
    <3>2. s \in Mine
      BY <3>1 DEF Mine, Counted, Shape, Staged
    <3>3. Promised(s) /\ FileOf(s) = File("net", i, c)
      BY <2>3, <3>1 DEF Promised, FileOf
    <3> HIDE DEF s
    <3>4. fd[s] # Bad /\ table[fd[s]] = File("net", i, c)
      BY <3>2, <3>3 DEF Reading, Filled, Account, Refer, Good
    <3> QED  BY <3>4 DEF s
  <2> QED  BY <2>4
<1> QED
  BY <1>1, Reads, PTL

-----------------------------------------------------------------------------
(* Cores are counted, and fewer of them make a lower count.                *)
LEMMA CoresFinite ==
    ASSUME NEW C \in SUBSET Cpus, NEW D \in SUBSET C
    PROVE  Cardinality(C) \in Nat /\ Cardinality(D) \in Nat /\ Cardinality(D) <= Cardinality(C)
<1>1. IsFiniteSet(C) /\ IsFiniteSet(D)
  BY FS_Subset, MonitorAssumption
<1> QED  BY <1>1, FS_Subset, FS_CardinalityType

LEMMA CoresCountedInit == Init => CoresCounted
BY DEF Init, CoresCounted

LEMMA CoresCountedStep ==
    ASSUME Shape, CoresCounted, [Next]_vars PROVE CoresCounted'
<1>1. CASE New
  <2>1. stayed'.core = online /\ online \in SUBSET Cpus /\ count'.core = CoreCount
    BY <1>1 DEF New, Shape, TypeOK
  <2>2. Cardinality(online) \in Nat /\ MaxCores \in Nat
    BY <2>1, CoresFinite, MonitorAssumption
  <2> QED  BY <2>1, <2>2 DEF CoresCounted, CoreCount
<1>2. CASE SwitchSmt
  <2>1. /\ stayed'.core = stayed.core \cap online' /\ count' = count /\ at' = at
        /\ stayed.core \in SUBSET Cpus
    BY <1>2 DEF SwitchSmt, Shape, TypeOK
  <2>2. /\ Cardinality(stayed.core) \in Nat /\ Cardinality(stayed'.core) \in Nat
        /\ Cardinality(stayed'.core) <= Cardinality(stayed.core)
    BY <2>1, CoresFinite
  <2>3. count.core \in 0..MaxCores
    BY DEF Shape, TypeOK
  <2> QED  BY <2>1, <2>2, <2>3, MonitorAssumption DEF CoresCounted
<1>3. CASE Drop
  BY <1>3 DEF Drop, CoresCounted, world
<1>4. CASE EndNet \/ EndDisk
  <2>1. count \in [core : 0..MaxCores, net : 0..MaxNets, disk : 0..MaxDisks]
    BY DEF Shape, TypeOK
  <2>2. count'.core = count.core /\ stayed' = stayed /\ at # "null"
    BY <1>4, <2>1 DEF EndNet, EndDisk, world
  <2> QED  BY <2>2 DEF CoresCounted
<1>5. CASE IfaceDown
  <2>1. stayed'.core = stayed.core /\ count' = count /\ at' = at
    BY <1>5 DEF IfaceDown, Shape, TypeOK
  <2> QED  BY <2>1 DEF CoresCounted
<1>6. CASE /\ stayed' = stayed /\ count' = count /\ (at' = at \/ at # "null")
  BY <1>6 DEF CoresCounted
<1> QED
  BY <1>1, <1>2, <1>3, <1>4, <1>5, <1>6
  DEF Next, OpenCore, OpenNetDir, ReadNetDir, OpenCounter, CloseNetDir, FindVeth, OpenDiskDir,
      OpenDisk, CloseDiskDir, OpenOwn, CloseOwn, IfaceUp, world, vars

(* Of the cores that are online throughout, each that is numbered below how*)
(* many they are is read with the events that the machine has, as far as   *)
(* there is room, however they are numbered (monitor.c:330-344).           *)
THEOREM ReadsAllCores == Spec => []AllCoresRead
<1>1. Shape /\ CoresCounted /\ [Next]_vars => CoresCounted'
  BY CoresCountedStep
<1>2. Shape /\ Account /\ Reading /\ CoresCounted => AllCoresRead
  <2> SUFFICES ASSUME Shape, Account, Reading, CoresCounted, at = "ready", ~full,
                      NEW c \in stayed.core, c < MaxCores, c < Cardinality(stayed.core)
               PROVE  /\ c < count.core
                      /\ \A e \in Events \ Denied :
                            /\ fd[<<"core", c, e>>] # Bad
                            /\ table[fd[<<"core", c, e>>]] = File("core", c, e)
    BY DEF AllCoresRead
  <2>1. stayed.core \in SUBSET Cpus /\ c \in Nat /\ Cardinality(stayed.core) \in Nat
    BY CoresFinite, MonitorAssumption DEF Shape, TypeOK
  <2>2. c < count.core /\ count.core \in 0..MaxCores /\ MaxCores \in Nat
    BY <2>1, MonitorAssumption DEF CoresCounted, Shape, TypeOK
  <2>3. ASSUME NEW e \in Events \ Denied
        PROVE  fd[<<"core", c, e>>] # Bad /\ table[fd[<<"core", c, e>>]] = File("core", c, e)
    <3> DEFINE s == <<"core", c, e>>
    <3>1. s \in CoreFields /\ s[1] = "core" /\ s[2] = c /\ s[3] = e
      BY <2>1, <2>2 DEF CoreFields
    <3>2. s \in Mine
      BY <2>2, <3>1 DEF Mine, Counted, Shape, Staged
    <3>3. Promised(s) /\ FileOf(s) = File("core", c, e)
      BY <3>1 DEF Promised, FileOf
    <3> HIDE DEF s
    <3>4. fd[s] # Bad /\ table[fd[s]] = File("core", c, e)
      BY <3>2, <3>3 DEF Reading, Filled, Account, Refer, Good
    <3> QED  BY <3>4 DEF s
  <2> QED  BY <2>2, <2>3
<1>3. Spec => []CoresCounted
  <2>1. Spec => []Shape
    BY Accounts, PTL
  <2> QED  BY <1>1, <2>1, CoresCountedInit, PTL DEF Spec
<1> QED
  BY <1>2, <1>3, Reads, PTL

=============================================================================
