---------------------------- MODULE ApplyProofs ----------------------------
(***************************************************************************)
(* The safety of the file operations, for any number of processes, targets *)
(* and inodes, any patches and any system calls failing, a flush included. *)
(***************************************************************************)
EXTENDS ApplyInv, TLAPS

\* What is whole is a content, and never the mark of a refused patch.
LEMMA WholeContents ==
    /\ Spoilt \subseteq {Lost} /\ Spoilt \subseteq Content
    /\ Data \subseteq Whole /\ Spoilt \subseteq Whole
    /\ Whole \subseteq Content
    /\ Rejected \notin Whole
    /\ Torn \notin Whole
BY ApplyAssumption DEF Spoilt, Whole, Content

\* The inode disk' differs at, if any, is i, and the entry dir' differs at, if
\* any, is that of name n of file f: what a step that writes i under <<f, n>>
\* leaves alone.
OnlyTouches(f, n) ==
    /\ \A g \in Target, m \in Name :
         (g # f \/ m # n) =>
           /\ dir'[g][m] = dir[g][m]
           /\ dir[g][m] # None => disk'[dir[g][m]] = disk[dir[g][m]]
    /\ \A q \in Process :
         pc[q] \in {"copying", "read"} =>
           /\ disk'[rd[q]] = disk[rd[q]]
           /\ dir'[f][n] # rd[q]

\* Opening a name other than a target's for writing disturbs nothing else.
LEMMA OpenTouches ==
    ASSUME IInv, NEW p \in Process, NEW f \in Target, NEW n \in Name \ {"file"},
           NEW i \in OpenForWriting(f, n),
           dir' = [dir EXCEPT ![f][n] = i],
           disk' = [disk EXCEPT ![i] = Torn]
    PROVE  /\ i \in Inode /\ i # None
           /\ dir' \in [Target -> [Name -> Inode \union {None}]]
           /\ disk' \in [Inode -> Content]
           /\ dir'[f][n] = i
           /\ disk'[i] = Torn
           /\ Distinct'
           /\ OnlyTouches(f, n)
<1> USE ApplyAssumption
<1>1. i \in Inode /\ i # None
  BY DEF OpenForWriting, Free, IInv, TypeOK
<1>2. /\ dir' \in [Target -> [Name -> Inode \union {None}]]
      /\ disk' \in [Inode -> Content]
      /\ dir'[f][n] = i
      /\ disk'[i] = Torn
      /\ \A g \in Target, m \in Name : (g # f \/ m # n) => dir'[g][m] = dir[g][m]
      /\ \A j \in Inode : j # i => disk'[j] = disk[j]
  BY <1>1 DEF IInv, TypeOK, Content
<1>3. \A g \in Target, m \in Name : (g # f \/ m # n) => dir[g][m] # i
  <2>1. CASE dir[f][n] = None
    BY <2>1, <1>1 DEF OpenForWriting, Free, Linked
  <2>2. CASE dir[f][n] # None
    BY <2>2, <1>1 DEF OpenForWriting, IInv, Distinct
  <2> QED BY <2>1, <2>2
<1>4. \A q \in Process : pc[q] \in {"copying", "read"} => rd[q] # i /\ rd[q] \in Inode
  <2> SUFFICES ASSUME NEW q \in Process, pc[q] \in {"copying", "read"}
               PROVE  rd[q] # i /\ rd[q] \in Inode
    OBVIOUS
  <2>1. rd[q] # None /\ rd[q] \in Inode
    BY DEF IInv, ProcessInv, ReaderOwns, TypeOK
  <2>2. CASE dir[f][n] = None
    BY <2>1, <2>2 DEF OpenForWriting, Free, Opened
  <2>3. CASE dir[f][n] # None
    BY <2>1, <2>3 DEF OpenForWriting, IInv, ProcessInv, ReaderOwns
  <2> QED BY <2>1, <2>2, <2>3
<1>5. Distinct'
  BY <1>2, <1>3 DEF Distinct, IInv
<1>6. \A g \in Target, m \in Name : dir[g][m] \in Inode \union {None}
  BY DEF IInv, TypeOK
<1>7. OnlyTouches(f, n)
  BY <1>1, <1>2, <1>3, <1>4, <1>6 DEF OnlyTouches
<1> QED BY <1>1, <1>2, <1>5, <1>7

\* Writing to the inode a process has open disturbs nothing else.
LEMMA WriteTouches ==
    ASSUME IInv, NEW p \in Process,
           pc[p] \in {"copying", "write", "flush"},
           NEW c \in Content,
           disk' = [disk EXCEPT ![wr[p]] = c],
           UNCHANGED dir
    PROVE  /\ wr[p] \in Inode
           /\ disk' \in [Inode -> Content]
           /\ disk'[dir[File(p)][WriterName(p)]] = c
           /\ WriterName(p) \in Name \ {"file"}
           /\ OnlyTouches(File(p), WriterName(p))
<1> USE ApplyAssumption
<1>1. /\ wr[p] \in Inode
      /\ wr[p] = dir[File(p)][WriterName(p)]
      /\ wr[p] # None
  BY DEF IInv, ProcessInv, WriterOwns, TypeOK
<1>2. /\ File(p) \in Target
      /\ WriterName(p) \in Name \ {"file"}
  BY DEF IInv, TypeOK, Call, File, WriterName, OutName, Name
<1>3. /\ disk' \in [Inode -> Content]
      /\ disk'[wr[p]] = c
      /\ \A j \in Inode : j # wr[p] => disk'[j] = disk[j]
  BY <1>1 DEF IInv, TypeOK
<1>4. \A g \in Target, m \in Name :
        (g # File(p) \/ m # WriterName(p)) => dir[g][m] # wr[p]
  BY <1>1, <1>2 DEF IInv, Distinct
<1>5. \A q \in Process : pc[q] \in {"copying", "read"} => rd[q] # wr[p] /\ rd[q] \in Inode
  BY <1>1, <1>2 DEF IInv, ProcessInv, ReaderOwns, TypeOK
<1>6. \A g \in Target, m \in Name : dir[g][m] \in Inode \union {None}
  BY DEF IInv, TypeOK
<1>7. OnlyTouches(File(p), WriterName(p))
  BY <1>1, <1>2, <1>3, <1>4, <1>5, <1>6 DEF OnlyTouches
<1> QED BY <1>1, <1>2, <1>3, <1>7

\* Process p changed only its own variables.
OthersStay(p) ==
    \A q \in Process \ {p} :
        /\ pc'[q] = pc[q] /\ call'[q] = call[q]
        /\ rd'[q] = rd[q] /\ wr'[q] = wr[q]
        /\ data'[q] = data[q] /\ result'[q] = result[q]

\* A running process writes, under a name of its own, and every other process
\* still knows what it knew.
LEMMA OthersKeep ==
    ASSUME IInv, NEW p \in Process, Live(p),
           NEW n \in Writes(call[p]), n # "file",
           OnlyTouches(File(p), n), OthersStay(p)
    PROVE  \A q \in Process \ {p} : ProcessInv(q)'
<1> USE ApplyAssumption
<1> SUFFICES ASSUME NEW q \in Process \ {p} PROVE ProcessInv(q)'
  OBVIOUS
<1> DEFINE f == File(q)
<1>1. /\ ProcessInv(q)
      /\ f \in Target /\ File(p) \in Target
      /\ n \in Name
      /\ call[q] \in Call
  BY DEF IInv, TypeOK, Call, File, Writes, Name
<1>2. /\ pc'[q] = pc[q] /\ call'[q] = call[q]
      /\ rd'[q] = rd[q] /\ wr'[q] = wr[q]
      /\ data'[q] = data[q] /\ result'[q] = result[q]
      /\ File(q)' = f /\ InPlace(q)' = InPlace(q) /\ WriterName(q)' = WriterName(q)
  BY DEF OthersStay, File, InPlace, WriterName
<1>3. ASSUME NEW m \in Name, f # File(p) \/ m # n
      PROVE  /\ dir'[f][m] = dir[f][m]
             /\ dir[f][m] # None => disk'[dir[f][m]] = disk[dir[f][m]]
  BY <1>1, <1>3 DEF OnlyTouches
<1>4. ASSUME Live(q), NEW m \in Writes(call[q]) PROVE f # File(p) \/ m # n
  BY <1>4 DEF IInv, Exclusive
<1>5. /\ dir'[f].file = dir[f].file
      /\ ContentOf(f)' = ContentOf(f)
  <2>1. "file" \in Name /\ (f # File(p) \/ "file" # n)
    BY DEF Name
  <2>2. dir[f].file # None
    BY <1>1 DEF IInv, TargetIntact
  <2>3. dir'[f].file = dir[f].file /\ disk'[dir[f].file] = disk[dir[f].file]
    BY <2>1, <2>2, <1>3
  <2> QED BY <2>3, <1>2 DEF ContentOf
<1>6. StepFitsCall(q)'
  BY <1>1, <1>2 DEF ProcessInv, StepFitsCall
<1>7. WriterOwns(q)'
  <2>1. CASE pc[q] \in {"copying", "write", "flush"}
    <3>1. Live(q) /\ WriterName(q) \in Writes(call[q]) /\ WriterName(q) \in Name
      BY <2>1, <1>1 DEF Live, ProcessInv, StepFitsCall, WriterName, OutName, Writes, InPlace, Name
    <3> QED BY <2>1, <3>1, <1>1, <1>2, <1>3, <1>4 DEF ProcessInv, WriterOwns
  <2>2. CASE pc[q] \notin {"copying", "write", "flush"}
    BY <2>2, <1>1, <1>2 DEF ProcessInv, WriterOwns
  <2> QED BY <2>1, <2>2
<1>8. ReaderOwns(q)'
  <2>1. CASE pc[q] \in {"copying", "read"}
    <3>1. disk'[rd[q]] = disk[rd[q]] /\ dir'[File(p)][n] # rd[q]
      BY <2>1 DEF OnlyTouches
    <3>2. \A g \in Target, m \in Name : dir'[g][m] = rd[q] => m = "file"
      BY <3>1, <2>1, <1>1 DEF OnlyTouches, ProcessInv, ReaderOwns
    <3> QED BY <2>1, <3>1, <3>2, <1>1, <1>2 DEF ProcessInv, ReaderOwns
  <2>2. CASE pc[q] \notin {"copying", "read"}
    BY <2>2, <1>1, <1>2 DEF ProcessInv, ReaderOwns
  <2> QED BY <2>1, <2>2
<1>9. ReadsTarget(q)'
  BY <1>1, <1>2, <1>5 DEF ProcessInv, ReadsTarget
<1>10. DataCurrent(q)'
  BY <1>1, <1>2, <1>5 DEF ProcessInv, DataCurrent
<1>11. TempReady(q)'
  <2>1. CASE pc[q] = "rename"
    <3>1. Live(q) /\ "tmp" \in Writes(call[q]) /\ "tmp" \in Name
      BY <2>1, <1>1 DEF Live, ProcessInv, StepFitsCall, Writes, InPlace, Name
    <3> QED BY <2>1, <3>1, <1>1, <1>2, <1>3, <1>4 DEF ProcessInv, TempReady
  <2>2. CASE pc[q] # "rename"
    BY <2>2, <1>2 DEF TempReady
  <2> QED BY <2>1, <2>2
<1>12. BackupCurrent(q)'
  <2>1. CASE InPlace(q) /\ call[q].backup
    <3>1. "bak" \in Writes(call[q]) /\ "bak" \in Name
      BY <2>1 DEF Writes, InPlace, Name
    <3> QED BY <3>1, <1>1, <1>2, <1>3, <1>4, <1>5 DEF ProcessInv, BackupCurrent, Live
  <2>2. CASE ~(InPlace(q) /\ call[q].backup)
    BY <2>2, <1>2 DEF BackupCurrent
  <2> QED BY <2>1, <2>2
<1> QED BY <1>6, <1>7, <1>8, <1>9, <1>10, <1>11, <1>12 DEF ProcessInv

\* The same when the step leaves the file system alone.
LEMMA QuietKeep ==
    ASSUME IInv, NEW p \in Process, UNCHANGED <<dir, disk>>, OthersStay(p)
    PROVE  /\ \A q \in Process \ {p} : ProcessInv(q)'
           /\ TargetIntact' /\ Distinct'
<1>1. \A q \in Process \ {p} : ProcessInv(q)'
  <2> SUFFICES ASSUME NEW q \in Process \ {p} PROVE ProcessInv(q)'
    OBVIOUS
  <2>1. /\ pc'[q] = pc[q] /\ call'[q] = call[q]
        /\ rd'[q] = rd[q] /\ wr'[q] = wr[q]
        /\ data'[q] = data[q] /\ result'[q] = result[q]
        /\ File(q)' = File(q) /\ InPlace(q)' = InPlace(q) /\ WriterName(q)' = WriterName(q)
        /\ ContentOf(File(q))' = ContentOf(File(q))
    BY DEF OthersStay, File, InPlace, WriterName, ContentOf
  <2>2. ProcessInv(q)
    BY DEF IInv
  <2>3. StepFitsCall(q)' /\ WriterOwns(q)' /\ ReaderOwns(q)'
    BY <2>1, <2>2 DEF ProcessInv, StepFitsCall, WriterOwns, ReaderOwns
  <2>4. ReadsTarget(q)' /\ DataCurrent(q)' /\ TempReady(q)' /\ BackupCurrent(q)'
    BY <2>1, <2>2 DEF ProcessInv, ReadsTarget, DataCurrent, TempReady, BackupCurrent
  <2> QED BY <2>3, <2>4 DEF ProcessInv
<1>2. TargetIntact' /\ Distinct'
  BY DEF IInv, TargetIntact, Distinct, ContentOf
<1> QED BY <1>1, <1>2

\* A process in the middle of a call keeps what Begin was promised.
LEMMA StepOfCall ==
    ASSUME IInv, NEW p \in Process, Live(p), UNCHANGED call, OthersStay(p),
           TypeOK', TargetIntact', Distinct', ProcessInv(p)',
           \A q \in Process \ {p} : ProcessInv(q)'
    PROVE  IInv'
<1>1. \A q \in Process : Live(q)' => Live(q)
  BY DEF OthersStay, Live
<1>2. Exclusive'
  BY <1>1 DEF IInv, Exclusive, File, Writes
<1> QED BY <1>2 DEF IInv

\* A call that returns owns nothing any more.
LEMMA ReturnKeeps ==
    ASSUME IInv, NEW p \in Process, Live(p), NEW r \in Result, Return(p, r),
           UNCHANGED <<dir, disk, call, data>>
    PROVE  IInv'
<1>1. OthersStay(p)
  BY DEF IInv, TypeOK, OthersStay, Return, Goto, Close
<1>2. TypeOK'
  BY DEF IInv, TypeOK, Return, Goto, Close, Step
<1>3. pc'[p] = "idle" /\ rd'[p] = None /\ wr'[p] = None
  BY DEF IInv, TypeOK, Return, Goto, Close
<1>4. ProcessInv(p)'
  BY <1>3 DEF ProcessInv, StepFitsCall, WriterOwns, ReaderOwns, ReadsTarget,
              DataCurrent, TempReady, BackupCurrent
<1> QED BY <1>1, <1>2, <1>4, QuietKeep, StepOfCall

\* So does one that goes on to remove its temporary.
LEMMA ErrorKeeps ==
    ASSUME IInv, NEW p \in Process, Live(p), NEW r \in Error, ReturnError(p, r),
           UNCHANGED <<dir, disk, call, data>>
    PROVE  IInv'
<1>1. CASE InPlace(p)
  <2>1. OthersStay(p)
    BY DEF IInv, TypeOK, OthersStay, ReturnError, Goto, Close
  <2>2. TypeOK'
    BY <1>1 DEF IInv, TypeOK, ReturnError, Goto, Close, Step, OnError, InPlace, Result
  <2>3. /\ pc'[p] = "cleanup" /\ rd'[p] = None /\ wr'[p] = None
        /\ result'[p] = r /\ InPlace(p)'
    BY <1>1 DEF IInv, TypeOK, ReturnError, Goto, Close, OnError, InPlace
  <2>4. ProcessInv(p)'
    BY <2>3 DEF ProcessInv, StepFitsCall, WriterOwns, ReaderOwns, ReadsTarget,
                DataCurrent, TempReady, BackupCurrent
  <2> QED BY <2>1, <2>2, <2>4, QuietKeep, StepOfCall
<1>2. CASE ~InPlace(p)
  <2>1. Return(p, r)
    BY <1>2 DEF ReturnError, Return, OnError, InPlace
  <2> QED BY <2>1, ReturnKeeps DEF Result
<1> QED BY <1>1, <1>2

\* A step that touches no target's own name leaves every target intact.
LEMMA TargetsKeep ==
    ASSUME IInv, NEW f \in Target, NEW n \in Name, n # "file", OnlyTouches(f, n)
    PROVE  /\ TargetIntact'
           /\ \A g \in Target : dir'[g].file = dir[g].file /\ ContentOf(g)' = ContentOf(g)
<1>1. ASSUME NEW g \in Target
      PROVE  /\ dir'[g].file = dir[g].file /\ dir[g].file # None
             /\ disk'[dir[g].file] = disk[dir[g].file]
  <2>1. "file" \in Name /\ "file" # n
    BY DEF Name
  <2>2. dir[g].file # None
    BY DEF IInv, TargetIntact
  <2> QED BY <2>1, <2>2 DEF OnlyTouches
<1> QED BY <1>1 DEF IInv, TargetIntact, ContentOf

\* Begin: the names a new call writes are written by no running one
\* (MayBegin, for apply.cc:10-84), and its locals start empty.
LEMMA BeginKeeps ==
    ASSUME IInv, NEW p \in Process, NEW c \in Call, Begin(p, c)
    PROVE  IInv'
<1>1. OthersStay(p)
  BY DEF IInv, TypeOK, OthersStay, Begin, Goto
<1>2. TypeOK'
  BY DEF IInv, TypeOK, Begin, Goto, Entry, Step, Content, Result
<1>3. /\ \A q \in Process \ {p} : ProcessInv(q)'
      /\ TargetIntact' /\ Distinct'
  BY <1>1, QuietKeep DEF Begin
<1>4. /\ pc'[p] = Entry(c) /\ call'[p] = c
      /\ rd'[p] = None /\ wr'[p] = None
  BY DEF IInv, TypeOK, ProcessInv, WriterOwns, ReaderOwns, Begin, Goto, Live
<1>5. ProcessInv(p)'
  BY <1>4 DEF Entry, ProcessInv, StepFitsCall, WriterOwns, ReaderOwns, ReadsTarget,
              DataCurrent, TempReady, BackupCurrent, InPlace
<1>6. Exclusive'
  <2> SUFFICES ASSUME NEW q \in Process, NEW r \in Process, q # r,
                      Live(q)', Live(r)', File(q)' = File(r)'
               PROVE  Writes(call'[q]) \intersect Writes(call'[r]) = {}
    BY DEF Exclusive, Writes
  <2>1. CASE q # p /\ r # p
    BY <2>1, <1>1 DEF IInv, Exclusive, OthersStay, Live, File
  <2>2. CASE q = p
    BY <2>2, <1>1, <1>4 DEF Begin, MayBegin, OthersStay, Live, File
  <2>3. CASE r = p
    BY <2>3, <1>1, <1>4 DEF Begin, MayBegin, OthersStay, Live, File
  <2> QED BY <2>1, <2>2, <2>3
<1> QED BY <1>2, <1>3, <1>5, <1>6 DEF IInv

\* Opening the backup file touches only that name, which this call alone
\* writes (apply.cc:10-20).
LEMMA OpenBackupKeeps ==
    ASSUME IInv, NEW p \in Process, OpenBackup(p)
    PROVE  IInv'
<1>1. Live(p) /\ UNCHANGED <<call, data>>
  BY DEF OpenBackup, Live
<1>2. CASE Return(p, "InvalidArgument") /\ UNCHANGED <<dir, disk>>
  BY <1>1, <1>2, ReturnKeeps DEF Result, Error
<1>3. CASE Return(p, "FileWriteError") /\ UNCHANGED <<dir, disk>>
  BY <1>1, <1>3, ReturnKeeps DEF Result, Error
<1>4. ASSUME call[p].backup,
             NEW i \in OpenForWriting(File(p), "bak"),
             dir' = [dir EXCEPT ![File(p)]["bak"] = i],
             disk' = [disk EXCEPT ![i] = Torn],
             rd' = [rd EXCEPT ![p] = dir[File(p)].file],
             wr' = [wr EXCEPT ![p] = i],
             Goto(p, "copying"), UNCHANGED result
      PROVE  IInv'
  <2>1. /\ File(p) \in Target /\ "bak" \in Name \ {"file"} /\ "file" \in Name
        /\ call[p].op \in {"backup", "inplace"}
    BY DEF IInv, TypeOK, Call, File, Name, ProcessInv, StepFitsCall, OpenBackup, InPlace
  <2>2. /\ i \in Inode /\ i # None
        /\ dir' \in [Target -> [Name -> Inode \union {None}]]
        /\ disk' \in [Inode -> Content]
        /\ dir'[File(p)]["bak"] = i
        /\ Distinct' /\ OnlyTouches(File(p), "bak")
    BY <1>4, <2>1, OpenTouches
  <2>3. OthersStay(p)
    BY <1>1, <1>4 DEF IInv, TypeOK, OthersStay, Goto
  <2>4. "bak" \in Writes(call[p])
    BY <1>4, <2>1 DEF Writes
  <2>5. \A q \in Process \ {p} : ProcessInv(q)'
    BY <1>1, <2>3, <2>4, <2>2, OthersKeep
  <2>6. /\ TargetIntact'
        /\ dir'[File(p)].file = dir[File(p)].file
        /\ ContentOf(File(p))' = ContentOf(File(p))
    BY <1>1, <2>1, <2>2, TargetsKeep DEF File
  <2>7. dir[File(p)].file # None /\ dir[File(p)].file \in Inode
    BY <2>1 DEF IInv, TargetIntact, TypeOK
  <2>8. TypeOK'
    BY <1>1, <1>4, <2>2, <2>7 DEF IInv, TypeOK, Goto, Step
  <2>9. /\ pc'[p] = "copying" /\ rd'[p] = dir'[File(p)].file /\ wr'[p] = i
        /\ call'[p] = call[p] /\ File(p)' = File(p)
    BY <1>1, <1>4, <2>6 DEF IInv, TypeOK, Goto, File
  <2>10. ReaderOwns(p)' /\ ReadsTarget(p)'
    <3>1. \A g \in Target, m \in Name : dir'[g][m] = rd'[p] => m = "file"
      BY <2>1, <2>6, <2>7, <2>9, <2>2 DEF Distinct
    <3>2. disk'[rd'[p]] \in Whole
      BY <2>1, <2>6, <2>9 DEF IInv, TargetIntact, ContentOf
    <3> QED BY <2>6, <2>7, <2>9, <3>1, <3>2 DEF ReaderOwns, ReadsTarget
  <2>11. StepFitsCall(p)' /\ WriterOwns(p)'
    BY <1>4, <2>1, <2>2, <2>9 DEF StepFitsCall, WriterOwns, WriterName, InPlace
  <2>12. DataCurrent(p)' /\ TempReady(p)' /\ BackupCurrent(p)'
    BY <2>9 DEF DataCurrent, TempReady, BackupCurrent
  <2>13. ProcessInv(p)'
    BY <2>10, <2>11, <2>12 DEF ProcessInv
  <2> QED BY <1>1, <2>2, <2>3, <2>5, <2>6, <2>8, <2>13, StepOfCall
<1> QED BY <1>2, <1>3, <1>4 DEF OpenBackup

\* The copy makes the backup equal to the target it has open, or returns an
\* error (apply.cc:17-25).
LEMMA CopyBackupKeeps ==
    ASSUME IInv, NEW p \in Process, CopyBackup(p)
    PROVE  IInv'
<1>1. Live(p) /\ UNCHANGED <<dir, call, data>> /\ pc[p] = "copying"
  BY DEF CopyBackup, Live
<1>2. CASE Return(p, "FileWriteError") /\ UNCHANGED disk
  BY <1>1, <1>2, ReturnKeeps DEF Result, Error
<1>3. ASSUME disk' = [disk EXCEPT ![wr[p]] = disk[rd[p]]],
             IF InPlace(p)
               THEN Goto(p, "load") /\ Close(p) /\ UNCHANGED result
               ELSE Return(p, "Ok")
      PROVE  IInv'
  <2>1. /\ File(p) \in Target /\ WriterName(p) = "bak"
        /\ call[p].backup /\ call[p].op \in {"backup", "inplace"}
        /\ disk[rd[p]] \in Content
        /\ InPlace(p) => rd[p] = dir[File(p)].file
    BY <1>1, WholeContents DEF IInv, TypeOK, Call, File, WriterName, ProcessInv, StepFitsCall,
                ReaderOwns, ReadsTarget
  <2>2. /\ disk' \in [Inode -> Content]
        /\ disk'[dir[File(p)]["bak"]] = disk[rd[p]]
        /\ "bak" \in Name \ {"file"}
        /\ OnlyTouches(File(p), "bak")
    <3>1. \A c \in Content : disk' = [disk EXCEPT ![wr[p]] = c] =>
             /\ disk' \in [Inode -> Content]
             /\ disk'[dir[File(p)][WriterName(p)]] = c
             /\ WriterName(p) \in Name \ {"file"}
             /\ OnlyTouches(File(p), WriterName(p))
      BY <1>1, WriteTouches
    <3> QED BY <1>3, <2>1, <3>1
  <2>3. OthersStay(p)
    BY <1>1, <1>3 DEF IInv, TypeOK, OthersStay, Goto, Close, Return
  <2>4. "bak" \in Writes(call[p])
    BY <2>1 DEF Writes
  <2>5. \A q \in Process \ {p} : ProcessInv(q)'
    BY <1>1, <2>3, <2>4, <2>2, OthersKeep
  <2>6. /\ TargetIntact'
        /\ ContentOf(File(p))' = ContentOf(File(p))
    BY <1>1, <2>1, <2>2, TargetsKeep DEF File
  <2>7. TypeOK'
    BY <1>1, <1>3, <2>2 DEF IInv, TypeOK, Goto, Close, Return, Step, Result
  <2>8. Distinct'
    BY <1>1 DEF IInv, Distinct
  <2>9. /\ pc'[p] = IF InPlace(p) THEN "load" ELSE "idle"
        /\ rd'[p] = None /\ wr'[p] = None
        /\ InPlace(p)' = InPlace(p) /\ File(p)' = File(p) /\ call'[p] = call[p]
    BY <1>1, <1>3 DEF IInv, TypeOK, Goto, Close, Return, InPlace, File
  <2>10. BackupCurrent(p)'
    <3>1. dir[File(p)]["bak"] # None
      BY <1>1, <2>1 DEF IInv, ProcessInv, WriterOwns
    <3>2. InPlace(p) => disk'[dir'[File(p)].bak] = ContentOf(File(p))
      BY <1>1, <2>1, <2>2 DEF ContentOf
    <3> QED BY <1>1, <2>6, <2>9, <3>1, <3>2 DEF BackupCurrent
  <2>11. StepFitsCall(p)' /\ WriterOwns(p)' /\ ReaderOwns(p)' /\ ReadsTarget(p)'
    BY <2>9 DEF StepFitsCall, WriterOwns, ReaderOwns, ReadsTarget, InPlace
  <2>12. DataCurrent(p)' /\ TempReady(p)'
    BY <2>9 DEF DataCurrent, TempReady
  <2>13. ProcessInv(p)'
    BY <2>10, <2>11, <2>12 DEF ProcessInv
  <2> QED BY <1>1, <2>3, <2>5, <2>6, <2>7, <2>8, <2>13, StepOfCall
<1> QED BY <1>2, <1>3 DEF CopyBackup

\* Loading the patch touches no file of a target (apply.cc:47-51, 91-94).
LEMMA LoadPatchKeeps ==
    ASSUME IInv, NEW p \in Process, LoadPatch(p)
    PROVE  IInv'
<1>1. Live(p) /\ UNCHANGED <<dir, disk, call, data>>
  BY DEF LoadPatch, Live
<1>2. ASSUME NEW r \in Error, ReturnError(p, r) PROVE IInv'
  BY <1>1, <1>2, ErrorKeeps
<1>3. ASSUME NEW r \in {"Ok", "threw"}, Return(p, r) PROVE IInv'
  BY <1>1, <1>3, ReturnKeeps DEF Result
<1>4. CASE Goto(p, "open") /\ UNCHANGED <<rd, wr, result>> /\ ~StopsAtLoad(call[p])
  <2>1. OthersStay(p) /\ TypeOK'
    BY <1>1, <1>4 DEF IInv, TypeOK, OthersStay, Goto, Step
  <2>2. /\ pc[p] = "load" /\ pc'[p] = "open" /\ rd'[p] = rd[p] /\ wr'[p] = wr[p]
        /\ InPlace(p)' = InPlace(p) /\ File(p)' = File(p) /\ call'[p] = call[p]
        /\ ContentOf(File(p))' = ContentOf(File(p))
    BY <1>1, <1>4 DEF LoadPatch, IInv, TypeOK, Goto, InPlace, File, ContentOf
  <2>3. call[p].op \in {"inplace", "apply", "validate"}
    BY <1>4, <2>2 DEF StopsAtLoad, IInv, TypeOK, Call, Op, ProcessInv, StepFitsCall
  <2>4. ProcessInv(p)'
    BY <1>1, <2>2, <2>3 DEF IInv, ProcessInv, StepFitsCall, WriterOwns, ReaderOwns, ReadsTarget,
                            DataCurrent, TempReady, BackupCurrent
  <2> QED BY <1>1, <2>1, <2>4, QuietKeep, StepOfCall
<1> QED BY <1>2, <1>3, <1>4 DEF LoadPatch, GiveUp, Error

\* Opening the source: what is behind the name of a target is complete
\* (io.cc:192-198).
LEMMA OpenSourceKeeps ==
    ASSUME IInv, NEW p \in Process, OpenSource(p)
    PROVE  IInv'
<1>1. Live(p) /\ UNCHANGED <<dir, disk, call, data>>
  BY DEF OpenSource, Live
<1>2. CASE ReturnError(p, "FileNotFound")
  BY <1>1, <1>2, ErrorKeeps DEF Error
<1>3. CASE /\ rd' = [rd EXCEPT ![p] = dir[File(p)].file]
           /\ Goto(p, "read")
           /\ UNCHANGED <<wr, result>>
  <2>1. /\ File(p) \in Target /\ "file" \in Name
        /\ dir[File(p)].file # None /\ dir[File(p)].file \in Inode
        /\ disk[dir[File(p)].file] \in Whole
    BY DEF IInv, TypeOK, TargetIntact, Call, File, Name, ContentOf
  <2>2. OthersStay(p) /\ TypeOK'
    BY <1>1, <1>3, <2>1 DEF IInv, TypeOK, OthersStay, Goto, Step
  <2>3. /\ pc[p] = "open" /\ pc'[p] = "read" /\ wr'[p] = wr[p]
        /\ rd'[p] = dir[File(p)].file
        /\ InPlace(p)' = InPlace(p) /\ File(p)' = File(p) /\ call'[p] = call[p]
        /\ ContentOf(File(p))' = ContentOf(File(p))
    BY <1>1, <1>3 DEF OpenSource, IInv, TypeOK, Goto, InPlace, File, ContentOf
  <2>4. \A g \in Target, m \in Name : dir[g][m] = rd'[p] => m = "file"
    BY <2>1, <2>3 DEF IInv, Distinct
  <2>5. ReaderOwns(p)' /\ ReadsTarget(p)'
    BY <1>1, <2>1, <2>3, <2>4 DEF ReaderOwns, ReadsTarget
  <2>6. ProcessInv(p)'
    BY <1>1, <2>3, <2>5 DEF IInv, ProcessInv, StepFitsCall, WriterOwns,
                            DataCurrent, TempReady, BackupCurrent
  <2> QED BY <1>1, <2>2, <2>6, QuietKeep, StepOfCall
<1> QED BY <1>2, <1>3 DEF OpenSource

\* Reading the source: the bytes to be written are the patch of the target
\* as it still is (ips.cc:160-178 and its like).
LEMMA ReadSourceKeeps ==
    ASSUME IInv, NEW p \in Process, ReadSource(p)
    PROVE  IInv'
<1> USE ApplyAssumption
<1> DEFINE source  == disk[rd[p]]
           patched == Outcome[call[p].patch][source]
<1>1. Live(p) /\ UNCHANGED <<dir, disk, call>>
  BY DEF ReadSource, Live
<1>2. ASSUME NEW r \in Error, ReturnError(p, r), UNCHANGED data PROVE IInv'
  BY <1>1, <1>2, ErrorKeeps
<1>3. ASSUME NEW r \in Error \union {"Ok", "threw"}, Return(p, r), UNCHANGED data PROVE IInv'
  BY <1>1, <1>3, ReturnKeeps DEF Result
<1>4. CASE /\ call[p].op # "validate"
           /\ ~Refused(patched)
           /\ data' = [data EXCEPT ![p] = patched]
           /\ Goto(p, "create")
           /\ Close(p)
           /\ UNCHANGED result
  <2>1. /\ pc[p] = "read" /\ call[p] \in Call
        /\ source \in Whole /\ patched \in Whole
        /\ InPlace(p) => source = ContentOf(File(p))
        /\ call[p].op \in {"inplace", "apply"}
    <3>1. pc[p] = "read" /\ call[p] \in Call
      BY DEF ReadSource, IInv, TypeOK
    <3>2. source \in Whole /\ (InPlace(p) => source = ContentOf(File(p)))
      BY <3>1 DEF IInv, ProcessInv, ReaderOwns, ReadsTarget, ContentOf
    <3>3. patched \in Whole
      <4>1. call[p].patch \in Patch /\ patched # Rejected
        BY <3>1, <1>4 DEF Call, Refused
      <4>2. CASE source \in Data
        BY <4>1, <4>2 DEF Whole
      <4>3. CASE source \in Spoilt
        BY <4>1, <4>3 DEF Whole, Spoilt
      <4> QED BY <3>2, <4>2, <4>3 DEF Whole
    <3>4. call[p].op \in {"inplace", "apply"}
      BY <3>1, <1>4 DEF IInv, ProcessInv, StepFitsCall, Call, Op
    <3> QED BY <3>1, <3>2, <3>3, <3>4
  <2>2. OthersStay(p) /\ TypeOK'
    BY <1>1, <1>4, <2>1, WholeContents DEF IInv, TypeOK, OthersStay, Goto, Close, Step
  <2>3. /\ pc'[p] = "create" /\ rd'[p] = None /\ wr'[p] = None
        /\ data'[p] = patched
        /\ InPlace(p)' = InPlace(p) /\ File(p)' = File(p) /\ call'[p] = call[p]
        /\ ContentOf(File(p))' = ContentOf(File(p))
    BY <1>1, <1>4 DEF IInv, TypeOK, Goto, Close, InPlace, File, ContentOf
  <2>4. DataCurrent(p)'
    BY <2>1, <2>3 DEF DataCurrent
  <2>5. ProcessInv(p)'
    BY <1>1, <2>1, <2>3, <2>4 DEF IInv, ProcessInv, StepFitsCall, WriterOwns, ReaderOwns,
                                  ReadsTarget, TempReady, BackupCurrent
  <2> QED BY <1>1, <2>2, <2>5, QuietKeep, StepOfCall
<1> QED BY <1>2, <1>3, <1>4 DEF ReadSource, GiveUp, Error

\* Creating the output tears only the name this call alone writes
\* (io.cc:130-140).
LEMMA CreateOutputKeeps ==
    ASSUME IInv, NEW p \in Process, CreateOutput(p)
    PROVE  IInv'
<1>1. Live(p) /\ UNCHANGED <<call, data>>
  BY DEF CreateOutput, Live
<1>2. CASE ReturnError(p, "FileWriteError") /\ UNCHANGED <<dir, disk>>
  BY <1>1, <1>2, ErrorKeeps DEF Error
<1>3. ASSUME NEW i \in OpenForWriting(File(p), OutName(call[p])),
             dir' = [dir EXCEPT ![File(p)][OutName(call[p])] = i],
             disk' = [disk EXCEPT ![i] = Torn],
             wr' = [wr EXCEPT ![p] = i],
             Goto(p, "write"), UNCHANGED <<rd, result>>
      PROVE  IInv'
  <2> DEFINE n == OutName(call[p])
  <2>1. /\ pc[p] = "create" /\ File(p) \in Target /\ call[p].op \in {"inplace", "apply"}
        /\ n \in Name \ {"file", "bak"}
        /\ n \in Writes(call[p])
    BY DEF IInv, TypeOK, Call, File, Name, ProcessInv, StepFitsCall, CreateOutput, InPlace,
           OutName, Writes
  <2>2. /\ i \in Inode /\ i # None
        /\ dir' \in [Target -> [Name -> Inode \union {None}]]
        /\ disk' \in [Inode -> Content]
        /\ dir'[File(p)][n] = i
        /\ Distinct' /\ OnlyTouches(File(p), n)
    BY <1>3, <2>1, OpenTouches
  <2>3. OthersStay(p)
    BY <1>1, <1>3 DEF IInv, TypeOK, OthersStay, Goto
  <2>4. \A q \in Process \ {p} : ProcessInv(q)'
    BY <1>1, <2>1, <2>3, <2>2, OthersKeep
  <2>5. /\ TargetIntact'
        /\ ContentOf(File(p))' = ContentOf(File(p))
    BY <1>1, <2>1, <2>2, TargetsKeep DEF File
  <2>6. TypeOK'
    BY <1>1, <1>3, <2>2 DEF IInv, TypeOK, Goto, Step
  <2>7. /\ pc'[p] = "write" /\ rd'[p] = rd[p] /\ wr'[p] = i /\ data'[p] = data[p]
        /\ call'[p] = call[p] /\ File(p)' = File(p) /\ InPlace(p)' = InPlace(p)
        /\ WriterName(p)' = n
    BY <1>1, <1>3 DEF IInv, TypeOK, Goto, File, InPlace, WriterName
  <2>8. BackupCurrent(p)'
    <3>1. "bak" \in Name /\ "bak" # n
      BY <2>1 DEF Name
    <3>2. /\ dir'[File(p)]["bak"] = dir[File(p)]["bak"]
          /\ dir[File(p)]["bak"] # None
               => disk'[dir[File(p)]["bak"]] = disk[dir[File(p)]["bak"]]
      BY <3>1, <2>1, <2>2 DEF OnlyTouches
    <3> QED BY <3>2, <2>1, <2>5, <2>7 DEF IInv, ProcessInv, BackupCurrent
  <2>9. StepFitsCall(p)' /\ WriterOwns(p)' /\ ReaderOwns(p)' /\ ReadsTarget(p)'
    BY <2>1, <2>2, <2>7 DEF IInv, ProcessInv, StepFitsCall, WriterOwns, ReaderOwns, ReadsTarget
  <2>10. DataCurrent(p)' /\ TempReady(p)'
    BY <2>1, <2>5, <2>7 DEF IInv, ProcessInv, DataCurrent, TempReady
  <2>11. ProcessInv(p)'
    BY <2>8, <2>9, <2>10 DEF ProcessInv
  <2> QED BY <1>1, <2>2, <2>3, <2>4, <2>5, <2>6, <2>11, StepOfCall
<1> QED BY <1>2, <1>3 DEF CreateOutput

\* What WriteOutput and FlushOutput have in common: they put something in the
\* file the call has open, or nothing.
LEMMA WritingKeeps ==
    ASSUME IInv, NEW p \in Process, pc[p] \in {"write", "flush"},
           NEW c \in Content, disk' \in {disk, [disk EXCEPT ![wr[p]] = c]},
           UNCHANGED <<dir, call, data>>, OthersStay(p)
    PROVE  /\ \A q \in Process \ {p} : ProcessInv(q)'
           /\ TargetIntact' /\ Distinct'
           /\ disk' \in [Inode -> Content]
           /\ ContentOf(File(p))' = ContentOf(File(p))
           /\ BackupCurrent(p)'
<1>1. /\ File(p) \in Target /\ WriterName(p) = OutName(call[p])
      /\ OutName(call[p]) \in Name \ {"file", "bak"}
      /\ OutName(call[p]) \in Writes(call[p])
      /\ Live(p) /\ File(p)' = File(p) /\ InPlace(p)' = InPlace(p) /\ call'[p] = call[p]
  BY DEF IInv, TypeOK, Call, File, Name, ProcessInv, StepFitsCall, InPlace, WriterName,
         OutName, Writes, Live
<1>2. CASE disk' = disk
  BY <1>1, <1>2, QuietKeep DEF IInv, TypeOK, ContentOf, ProcessInv, BackupCurrent
<1>3. CASE disk' = [disk EXCEPT ![wr[p]] = c]
  <2>1. /\ disk' \in [Inode -> Content]
        /\ OnlyTouches(File(p), WriterName(p))
    BY <1>1, <1>3, WriteTouches
  <2>2. \A q \in Process \ {p} : ProcessInv(q)'
    BY <1>1, <2>1, OthersKeep DEF OnlyTouches
  <2>3. /\ TargetIntact'
        /\ ContentOf(File(p))' = ContentOf(File(p))
    BY <1>1, <2>1, TargetsKeep DEF File, OnlyTouches
  <2>4. "bak" \in Name /\ "bak" # OutName(call[p])
    BY <1>1 DEF Name
  <2>5. /\ dir'[File(p)]["bak"] = dir[File(p)]["bak"]
        /\ dir[File(p)]["bak"] # None
             => disk'[dir[File(p)]["bak"]] = disk[dir[File(p)]["bak"]]
    BY <2>4, <1>1, <2>1 DEF OnlyTouches
  <2>6. Distinct'
    BY DEF IInv, Distinct
  <2>7. BackupCurrent(p)'
    BY <2>5, <2>3, <1>1 DEF IInv, ProcessInv, BackupCurrent
  <2> QED BY <2>1, <2>2, <2>3, <2>6, <2>7
<1> QED BY <1>2, <1>3

\* Writing reaches only the inode this call created (io.cc:150-155).
LEMMA WriteOutputKeeps ==
    ASSUME IInv, NEW p \in Process, WriteOutput(p)
    PROVE  IInv'
<1>1. Live(p) /\ UNCHANGED <<dir, call, data>> /\ pc[p] = "write"
  BY DEF WriteOutput, Live
<1>2. CASE ReturnError(p, "FileWriteError") /\ UNCHANGED disk
  BY <1>1, <1>2, ErrorKeeps DEF Error
<1>3. CASE /\ disk' \in {disk, [disk EXCEPT ![wr[p]] = data[p]]}
           /\ Goto(p, "flush")
           /\ UNCHANGED <<rd, wr, result>>
  <2>1. OthersStay(p)
    BY <1>1, <1>3 DEF IInv, TypeOK, OthersStay, Goto
  <2>2. /\ \A q \in Process \ {p} : ProcessInv(q)'
        /\ TargetIntact' /\ Distinct'
        /\ disk' \in [Inode -> Content]
        /\ ContentOf(File(p))' = ContentOf(File(p))
        /\ BackupCurrent(p)'
    <3>1. data[p] \in Content
      BY DEF IInv, TypeOK
    <3> QED BY <1>1, <1>3, <2>1, <3>1, WritingKeeps
  <2>3. TypeOK'
    BY <1>1, <1>3, <2>2 DEF IInv, TypeOK, Goto, Step
  <2>4. /\ pc'[p] = "flush" /\ rd'[p] = rd[p] /\ wr'[p] = wr[p] /\ data'[p] = data[p]
        /\ call'[p] = call[p] /\ File(p)' = File(p) /\ InPlace(p)' = InPlace(p)
        /\ WriterName(p)' = WriterName(p)
    BY <1>1, <1>3 DEF IInv, TypeOK, Goto, File, InPlace, WriterName
  <2>6. StepFitsCall(p)' /\ WriterOwns(p)' /\ ReaderOwns(p)' /\ ReadsTarget(p)'
    BY <1>1, <2>4 DEF IInv, ProcessInv, StepFitsCall, WriterOwns, ReaderOwns, ReadsTarget
  <2>7. DataCurrent(p)' /\ TempReady(p)'
    BY <1>1, <2>2, <2>4 DEF IInv, ProcessInv, DataCurrent, TempReady
  <2>8. ProcessInv(p)'
    BY <2>2, <2>6, <2>7 DEF ProcessInv
  <2> QED BY <1>1, <2>1, <2>2, <2>3, <2>8, StepOfCall
<1> QED BY <1>2, <1>3 DEF WriteOutput

\* A flush puts all the bytes in the file, or loses some.
LEMMA FlushWrites ==
    ASSUME IInv, NEW p \in Process, FlushOutput(p)
    PROVE  \E c \in {data[p]} \union Spoilt :
              c \in Content /\ disk' = [disk EXCEPT ![wr[p]] = c]
<1>1. CASE disk' = [disk EXCEPT ![wr[p]] = data[p]]
  <2>1. data[p] \in {data[p]} \union Spoilt /\ data[p] \in Content
    BY DEF IInv, TypeOK
  <2> QED BY <1>1, <2>1
<1>2. CASE Fails("flush") /\ disk' = [disk EXCEPT ![wr[p]] = Lost]
  <2>1. Lost \in {data[p]} \union Spoilt /\ Lost \in Content
    BY <1>2 DEF Fails, Spoilt, Content
  <2> QED BY <1>2, <2>1
<1> QED BY <1>1, <1>2 DEF FlushOutput, Flushed

\* Behind the flush the output holds all the bytes, or what a lost one left
\* (io.cc:162-165).
LEMMA FlushOutputKeeps ==
    ASSUME IInv, NEW p \in Process, FlushOutput(p)
    PROVE  IInv'
<1>c. PICK c \in {data[p]} \union Spoilt :
        c \in Content /\ disk' = [disk EXCEPT ![wr[p]] = c]
  BY FlushWrites
<1>1. /\ Live(p) /\ UNCHANGED <<dir, call, data>> /\ pc[p] = "flush"
      /\ disk' = [disk EXCEPT ![wr[p]] = c]
  BY <1>c DEF FlushOutput, Live
<1>2. OthersStay(p)
  BY <1>1 DEF FlushOutput, IInv, TypeOK, OthersStay, Goto, Close, Return
<1>3. /\ \A q \in Process \ {p} : ProcessInv(q)'
      /\ TargetIntact' /\ Distinct'
      /\ disk' \in [Inode -> Content]
      /\ ContentOf(File(p))' = ContentOf(File(p))
      /\ BackupCurrent(p)'
  BY <1>c, <1>1, <1>2, WritingKeeps
<1>4. TypeOK'
  BY <1>1, <1>3 DEF FlushOutput, IInv, TypeOK, Goto, Close, Return, Step, Result
<1>5. /\ pc'[p] = IF InPlace(p) THEN "rename" ELSE "idle"
      /\ rd'[p] = None /\ wr'[p] = None /\ data'[p] = data[p]
      /\ call'[p] = call[p] /\ File(p)' = File(p) /\ InPlace(p)' = InPlace(p)
  BY <1>1 DEF FlushOutput, IInv, TypeOK, Goto, Close, Return, File, InPlace
<1>6. TempReady(p)'
  <2>1. /\ wr[p] # None /\ wr[p] \in Inode
        /\ InPlace(p) => wr[p] = dir[File(p)]["tmp"]
    BY <1>1 DEF IInv, TypeOK, ProcessInv, WriterOwns, WriterName, OutName, InPlace
  <2>2. disk'[wr[p]] \in {data[p]} \union Spoilt
    BY <1>1, <2>1 DEF IInv, TypeOK
  <2>3. Spoilt' = Spoilt
    BY DEF Spoilt
  <2> QED BY <1>1, <1>5, <2>1, <2>2, <2>3 DEF TempReady
<1>8. StepFitsCall(p)' /\ WriterOwns(p)' /\ ReaderOwns(p)' /\ ReadsTarget(p)' /\ DataCurrent(p)'
  BY <1>1, <1>3, <1>5 DEF IInv, ProcessInv, StepFitsCall, WriterOwns, ReaderOwns, ReadsTarget,
                          DataCurrent
<1>9. ProcessInv(p)'
  BY <1>3, <1>6, <1>8 DEF ProcessInv
<1> QED BY <1>1, <1>2, <1>3, <1>4, <1>9, StepOfCall

\* The rename: the target is replaced, whoever reads the old file keeps it.
LEMMA RenameTempKeeps ==
    ASSUME IInv, NEW p \in Process, RenameTemp(p)
    PROVE  IInv'
<1> USE ApplyAssumption
<1>1. Live(p) /\ UNCHANGED <<disk, call, data>> /\ pc[p] = "rename"
  BY DEF RenameTemp, Live
<1>2. CASE Return(p, "FileWriteError") /\ UNCHANGED dir
  BY <1>1, <1>2, ReturnKeeps DEF Result, Error
<1>3. CASE dir' = Renamed(File(p)) /\ Return(p, "Ok")
  <2> DEFINE f == File(p)
  <2>1. /\ f \in Target /\ InPlace(p)
        /\ dir[f]["tmp"] # None /\ disk[dir[f]["tmp"]] \in Whole
        /\ "file" \in Name /\ "tmp" \in Name /\ "file" # "tmp"
        /\ \A g \in Target, m \in Name : dir[g][m] \in Inode \union {None}
    BY <1>1 DEF IInv, TypeOK, Call, File, Name, ProcessInv, StepFitsCall, TempReady,
                DataCurrent, Whole
  <2>2. /\ dir' \in [Target -> [Name -> Inode \union {None}]]
        /\ dir'[f]["file"] = dir[f]["tmp"] /\ dir'[f]["tmp"] = None
        /\ \A g \in Target, m \in Name :
             g # f \/ m \notin {"file", "tmp"} => dir'[g][m] = dir[g][m]
    BY <1>3, <2>1 DEF Renamed, IInv, TypeOK
  <2>3. OthersStay(p) /\ pc'[p] = "idle" /\ rd'[p] = None /\ wr'[p] = None
    BY <1>1, <1>3 DEF IInv, TypeOK, OthersStay, Return, Goto, Close
  <2>4. TypeOK'
    BY <1>1, <1>3, <2>2 DEF IInv, TypeOK, Return, Goto, Close, Step, Result
  <2>5. TargetIntact'
    <3> SUFFICES ASSUME NEW g \in Target
                 PROVE  dir'[g]["file"] # None /\ disk'[dir'[g]["file"]] \in Whole
      BY DEF TargetIntact, ContentOf, Whole, Spoilt
    <3>1. CASE g = f
      BY <3>1, <1>1, <2>1, <2>2
    <3>2. CASE g # f
      BY <3>2, <1>1, <2>1, <2>2 DEF IInv, TargetIntact, ContentOf
    <3> QED BY <3>1, <3>2
  <2>6. Distinct'
    <3> SUFFICES ASSUME NEW g \in Target, NEW h \in Target, NEW m \in Name, NEW n \in Name,
                        dir'[g][m] = dir'[h][n], dir'[g][m] # None
                 PROVE  g = h /\ m = n
      BY DEF Distinct
    <3> DEFINE Old(k, a) == IF k = f /\ a = "file" THEN "tmp" ELSE a
    <3>1. ASSUME NEW k \in Target, NEW a \in Name, dir'[k][a] # None
          PROVE  /\ Old(k, a) \in Name /\ dir'[k][a] = dir[k][Old(k, a)]
                 /\ ~(k = f /\ a = "tmp")
      BY <3>1, <2>1, <2>2
    <3> QED BY <3>1 DEF IInv, Distinct
  <2>7. ASSUME NEW q \in Process \ {p} PROVE ProcessInv(q)'
    <3>1. /\ ProcessInv(q) /\ call[q] \in Call /\ File(q) \in Target
          /\ pc'[q] = pc[q] /\ call'[q] = call[q]
          /\ rd'[q] = rd[q] /\ wr'[q] = wr[q]
          /\ data'[q] = data[q] /\ result'[q] = result[q]
          /\ File(q)' = File(q) /\ InPlace(q)' = InPlace(q) /\ WriterName(q)' = WriterName(q)
      BY <2>3 DEF IInv, TypeOK, Call, OthersStay, File, InPlace, WriterName
    <3>2. Live(q) /\ InPlace(q) => File(q) # f
      BY <1>1, <2>1 DEF IInv, Exclusive, Writes, InPlace
    <3>3. ReaderOwns(q)'
      BY <3>1, <2>1, <2>2, <1>1 DEF ProcessInv, ReaderOwns
    <3>4. CASE File(q) # f
      <4>1. \A m \in Name : dir'[File(q)][m] = dir[File(q)][m]
        BY <3>1, <3>4, <2>2
      <4>2. /\ dir'[File(q)].file = dir[File(q)].file
            /\ dir'[File(q)].tmp = dir[File(q)].tmp
            /\ dir'[File(q)].bak = dir[File(q)].bak
            /\ ContentOf(File(q))' = ContentOf(File(q))
        BY <4>1, <3>1, <1>1 DEF Name, ContentOf
      <4>3. dir'[File(q)][WriterName(q)] = dir[File(q)][WriterName(q)]
        BY <4>1 DEF WriterName, OutName, Name
      <4>4. StepFitsCall(q)' /\ WriterOwns(q)' /\ ReadsTarget(q)'
        BY <3>1, <4>2, <4>3 DEF ProcessInv, StepFitsCall, WriterOwns, ReadsTarget
      <4>5. DataCurrent(q)' /\ TempReady(q)' /\ BackupCurrent(q)'
        BY <3>1, <4>2, <1>1 DEF ProcessInv, DataCurrent, TempReady, BackupCurrent
      <4> QED BY <4>4, <4>5, <3>3 DEF ProcessInv
    <3>5. CASE File(q) = f
      BY <3>1, <3>2, <3>3, <3>5, <2>1, <2>2, <1>1
      DEF ProcessInv, StepFitsCall, WriterOwns, ReadsTarget, DataCurrent, TempReady,
          BackupCurrent, WriterName, OutName, InPlace, Live, Name
    <3> QED BY <3>4, <3>5
  <2>8. ProcessInv(p)'
    BY <2>3 DEF ProcessInv, StepFitsCall, WriterOwns, ReaderOwns, ReadsTarget,
                DataCurrent, TempReady, BackupCurrent
  <2> QED BY <1>1, <2>3, <2>4, <2>5, <2>6, <2>7, <2>8, StepOfCall
<1> QED BY <1>2, <1>3 DEF RenameTemp

\* Removing the temporary touches that name only (apply.cc:71-74).
LEMMA RemoveTempKeeps ==
    ASSUME IInv, NEW p \in Process, RemoveTemp(p)
    PROVE  IInv'
<1> USE ApplyAssumption
<1>1. Live(p) /\ UNCHANGED <<disk, call, data>> /\ pc[p] = "cleanup"
  BY DEF RemoveTemp, Live
<1>2. CASE Return(p, "threw") /\ UNCHANGED dir
  BY <1>1, <1>2, ReturnKeeps DEF Result
<1>3. CASE dir' = Unlinked(File(p)) /\ Return(p, result[p])
  <2> DEFINE f == File(p)
  <2>1. /\ f \in Target /\ InPlace(p) /\ "tmp" \in Name /\ "tmp" # "file"
        /\ "tmp" \in Writes(call[p])
    BY <1>1 DEF IInv, TypeOK, Call, File, Name, ProcessInv, StepFitsCall, Writes, InPlace
  <2>2. /\ dir' \in [Target -> [Name -> Inode \union {None}]]
        /\ dir'[f]["tmp"] = None
        /\ \A g \in Target, m \in Name : g # f \/ m # "tmp" => dir'[g][m] = dir[g][m]
    BY <1>3, <2>1 DEF Unlinked, IInv, TypeOK
  <2>3. OthersStay(p) /\ pc'[p] = "idle" /\ rd'[p] = None /\ wr'[p] = None
    BY <1>1, <1>3 DEF IInv, TypeOK, OthersStay, Return, Goto, Close
  <2>4. TypeOK'
    BY <1>1, <1>3, <2>2 DEF IInv, TypeOK, Return, Goto, Close, Step
  <2>5. OnlyTouches(f, "tmp")
    <3>1. \A q \in Process : pc[q] \in {"copying", "read"} => rd[q] # None
      BY DEF IInv, ProcessInv, ReaderOwns
    <3> QED BY <1>1, <2>2, <3>1 DEF OnlyTouches
  <2>6. Distinct'
    BY <2>2 DEF IInv, Distinct
  <2>7. TargetIntact'
    BY <2>1, <2>5, TargetsKeep
  <2>8. \A q \in Process \ {p} : ProcessInv(q)'
    BY <1>1, <2>1, <2>3, <2>5, OthersKeep
  <2>9. ProcessInv(p)'
    BY <2>3 DEF ProcessInv, StepFitsCall, WriterOwns, ReaderOwns, ReadsTarget,
                DataCurrent, TempReady, BackupCurrent
  <2> QED BY <1>1, <2>3, <2>4, <2>6, <2>7, <2>8, <2>9, StepOfCall
<1> QED BY <1>2, <1>3 DEF RemoveTemp

\* The first question of verify_output leaves the call where only the second
\* can follow (apply.cc:29-33).
LEMMA AskExistsKeeps ==
    ASSUME IInv, NEW p \in Process, AskExists(p)
    PROVE  IInv'
<1>1. Live(p) /\ UNCHANGED <<dir, disk, call, data>> /\ pc[p] = "exists"
  BY DEF AskExists, Live
<1>2. CASE Return(p, "FileNotFound")
  BY <1>1, <1>2, ReturnKeeps DEF Result, Error
<1>3. CASE Goto(p, "size") /\ UNCHANGED <<rd, wr, result>>
  <2>1. OthersStay(p) /\ TypeOK'
    BY <1>1, <1>3 DEF IInv, TypeOK, OthersStay, Goto, Step
  <2>2. pc'[p] = "size" /\ UNCHANGED <<rd, wr>> /\ InPlace(p)' = InPlace(p)
    BY <1>1, <1>3 DEF IInv, TypeOK, Goto, InPlace
  <2>3. ProcessInv(p)'
    BY <1>1, <2>2 DEF IInv, ProcessInv, StepFitsCall, WriterOwns, ReaderOwns, ReadsTarget,
                      DataCurrent, TempReady, BackupCurrent
  <2> QED BY <1>1, <2>1, <2>3, QuietKeep, StepOfCall
<1> QED BY <1>2, <1>3 DEF AskExists

\* The second one ends the call (apply.cc:33-38).
LEMMA AskSizeKeeps ==
    ASSUME IInv, NEW p \in Process, AskSize(p)
    PROVE  IInv'
<1>1. Live(p) /\ UNCHANGED <<dir, disk, call, data>>
  BY DEF AskSize, Live
<1>2. \E r \in Result : Return(p, r)
  BY DEF AskSize, Result, Error
<1> QED BY <1>1, <1>2, ReturnKeeps

\* A crash leaves the directory and the contents as they are.
LEMMA CrashKeeps ==
    ASSUME IInv, NEW p \in Process, Crash(p)
    PROVE  IInv'
BY ReturnKeeps DEF Crash, Result

\* Every step keeps the inductive invariant.
LEMMA NextKeeps ==
    ASSUME IInv, [Next]_vars
    PROVE  IInv'
<1>1. CASE UNCHANGED vars
  <2>1. TypeOK' /\ TargetIntact' /\ Distinct'
    BY <1>1 DEF vars, IInv, TypeOK, TargetIntact, Distinct, ContentOf
  <2>2. Exclusive'
    BY <1>1 DEF vars, IInv, Exclusive, Live, File, Writes
  <2>3. ASSUME NEW p \in Process PROVE ProcessInv(p)'
    <3>1. /\ ProcessInv(p)
          /\ File(p)' = File(p) /\ InPlace(p)' = InPlace(p) /\ WriterName(p)' = WriterName(p)
          /\ ContentOf(File(p))' = ContentOf(File(p))
      BY <1>1 DEF vars, IInv, File, InPlace, WriterName, ContentOf
    <3>2. StepFitsCall(p)' /\ WriterOwns(p)' /\ ReaderOwns(p)' /\ ReadsTarget(p)'
      BY <1>1, <3>1 DEF vars, ProcessInv, StepFitsCall, WriterOwns, ReaderOwns, ReadsTarget
    <3>3. DataCurrent(p)' /\ TempReady(p)' /\ BackupCurrent(p)'
      BY <1>1, <3>1 DEF vars, ProcessInv, DataCurrent, TempReady, BackupCurrent
    <3> QED BY <3>2, <3>3 DEF ProcessInv
  <2> QED BY <2>1, <2>2, <2>3 DEF IInv
<1>2. ASSUME NEW p \in Process, NEW c \in Call, Begin(p, c) PROVE IInv'
  BY <1>2, BeginKeeps
<1>3. ASSUME NEW p \in Process, OpenBackup(p) \/ CopyBackup(p) PROVE IInv'
  BY <1>3, OpenBackupKeeps, CopyBackupKeeps
<1>4. ASSUME NEW p \in Process, LoadPatch(p) \/ OpenSource(p) \/ ReadSource(p) PROVE IInv'
  BY <1>4, LoadPatchKeeps, OpenSourceKeeps, ReadSourceKeeps
<1>5. ASSUME NEW p \in Process, CreateOutput(p) \/ WriteOutput(p) \/ FlushOutput(p) PROVE IInv'
  BY <1>5, CreateOutputKeeps, WriteOutputKeeps, FlushOutputKeeps
<1>6. ASSUME NEW p \in Process, RenameTemp(p) \/ RemoveTemp(p) \/ Crash(p) PROVE IInv'
  BY <1>6, RenameTempKeeps, RemoveTempKeeps, CrashKeeps
<1>7. ASSUME NEW p \in Process, AskExists(p) \/ AskSize(p) PROVE IInv'
  BY <1>7, AskExistsKeeps, AskSizeKeeps
<1> QED BY <1>1, <1>2, <1>3, <1>4, <1>5, <1>6, <1>7 DEF Next, Advance

\* At the start there are the targets, with data in them, and nothing else.
LEMMA InitFiles ==
    ASSUME Init
    PROVE  /\ dir \in [Target -> [Name -> Inode \union {None}]]
           /\ disk \in [Inode -> Content]
           /\ Distinct
           /\ \A f \in Target : dir[f].file # None /\ ContentOf(f) \in Data
<1> USE ApplyAssumption
<1>1. PICK home \in [Target -> Inode] :
        /\ \A f, g \in Target : home[f] = home[g] => f = g
        /\ dir = [f \in Target |-> [n \in Name |-> IF n = "file" THEN home[f] ELSE None]]
        /\ \E d \in [Target -> Data] :
             disk = [i \in Inode |->
                       IF \E f \in Target : home[f] = i
                         THEN d[CHOOSE f \in Target : home[f] = i] ELSE Torn]
  BY DEF Init
<1>2. PICK d \in [Target -> Data] :
        disk = [i \in Inode |->
                  IF \E f \in Target : home[f] = i
                    THEN d[CHOOSE f \in Target : home[f] = i] ELSE Torn]
  BY <1>1
<1>3. /\ dir \in [Target -> [Name -> Inode \union {None}]]
      /\ \A f \in Target : dir[f]["file"] = home[f]
      /\ \A f \in Target, n \in Name : n # "file" => dir[f][n] = None
  BY <1>1 DEF Name
<1>4. /\ disk \in [Inode -> Content]
      /\ \A f \in Target : disk[home[f]] \in Data
  <2>1. ASSUME NEW i \in Inode, \E f \in Target : home[f] = i
        PROVE  (CHOOSE f \in Target : home[f] = i) \in Target
    BY <2>1
  <2> QED BY <1>2, <2>1 DEF Content
<1>5. \A f \in Target : dir[f].file # None /\ ContentOf(f) \in Data
  BY <1>3, <1>4 DEF ContentOf
<1>6. Distinct
  BY <1>1, <1>3 DEF Distinct
<1> QED BY <1>3, <1>4, <1>5, <1>6

\* The inductive invariant holds at the start.
LEMMA InitHolds == Init => IInv
<1> USE ApplyAssumption
<1> SUFFICES ASSUME Init PROVE IInv
  OBVIOUS
<1>1. /\ dir \in [Target -> [Name -> Inode \union {None}]]
      /\ disk \in [Inode -> Content]
      /\ Distinct /\ TargetIntact
  BY InitFiles, WholeContents DEF TargetIntact
<1>5. \A p \in Process : pc[p] = "idle" /\ rd[p] = None /\ wr[p] = None
  BY DEF Init
<1>6. TypeOK
  BY <1>1 DEF Init, TypeOK, Step, Content, Result
<1>9. Exclusive
  BY <1>5 DEF Exclusive, Live
<1>10. ASSUME NEW p \in Process PROVE ProcessInv(p)
  BY <1>5 DEF ProcessInv, StepFitsCall, WriterOwns, ReaderOwns, ReadsTarget,
              DataCurrent, TempReady, BackupCurrent
<1> QED BY <1>1, <1>6, <1>9, <1>10 DEF IInv

-----------------------------------------------------------------------------
\* The inductive invariant holds of every behaviour.
THEOREM Invariance == Spec => []IInv
<1>1. IInv /\ [Next]_vars => IInv'
  BY NextKeeps
<1> QED BY <1>1, InitHolds, PTL DEF Spec

\* Every variable keeps its type.
THEOREM TypeCorrect == Spec => []TypeOK
<1>1. IInv => TypeOK
  BY DEF IInv
<1> QED BY <1>1, Invariance, PTL

\* No crash, failing system call or interleaving ever leaves a target missing
\* or incomplete, even for an instant (apply_patch_inplace, apply.cc:56-84).
THEOREM TargetsStayIntact == Spec => []TargetIntact
<1>1. IInv => TargetIntact
  BY DEF IInv
<1> QED BY <1>1, Invariance, PTL

\* A program that patches, validates or backs up a target reads a complete
\* content although another one may be replacing the file (read_file, io.cc:192-198).
THEOREM ReadersAreSafe == Spec => []ReadersSeeComplete
<1>1. IInv => ReadersSeeComplete
  BY DEF IInv, ProcessInv, ReaderOwns, ReadersSeeComplete
<1> QED BY <1>1, Invariance, PTL

-----------------------------------------------------------------------------
\* Every step but the rename leaves every target's content alone.
LEMMA OnlyRenameChanges ==
    ASSUME IInv, NEW p \in Process, Advance(p), ~RenameTemp(p)
    PROVE  \A g \in Target : ContentOf(g)' = ContentOf(g)
<1> USE ApplyAssumption
<1>1. CASE UNCHANGED <<dir, disk>>
  BY <1>1 DEF ContentOf
<1>2. File(p) \in Target /\ call[p] \in Call
  BY DEF IInv, TypeOK, Call, File
<1>3. ASSUME NEW n \in Name \ {"file"}, NEW i \in OpenForWriting(File(p), n),
             dir' = [dir EXCEPT ![File(p)][n] = i], disk' = [disk EXCEPT ![i] = Torn]
      PROVE  \A g \in Target : ContentOf(g)' = ContentOf(g)
  BY <1>2, <1>3, OpenTouches, TargetsKeep
<1>4. ASSUME NEW c \in Content, pc[p] \in {"copying", "write", "flush"},
             disk' = [disk EXCEPT ![wr[p]] = c], UNCHANGED dir
      PROVE  \A g \in Target : ContentOf(g)' = ContentOf(g)
  <2>1. /\ WriterName(p) \in Name \ {"file"}
        /\ OnlyTouches(File(p), WriterName(p))
    BY <1>4, WriteTouches
  <2> QED BY <2>1, <1>2, TargetsKeep
<1>5. CASE OpenBackup(p)
  BY <1>1, <1>3, <1>5, "bak" \in Name \ {"file"} DEF OpenBackup, Name
<1>6. CASE CopyBackup(p)
  <2>1. disk[rd[p]] \in Content
    BY <1>6, WholeContents DEF CopyBackup, IInv, ProcessInv, ReaderOwns
  <2> QED BY <1>1, <1>4, <1>6, <2>1 DEF CopyBackup
<1>7. CASE CreateOutput(p)
  <2>1. OutName(call[p]) \in Name \ {"file"}
    BY DEF OutName, Name
  <2> QED BY <1>1, <1>3, <1>7, <2>1 DEF CreateOutput
<1>8. CASE WriteOutput(p)
  <2>1. data[p] \in Content
    BY DEF IInv, TypeOK
  <2> QED BY <1>1, <1>4, <1>8, <2>1 DEF WriteOutput
<1>10. CASE FlushOutput(p)
  BY <1>4, <1>10, FlushWrites DEF FlushOutput
<1>9. CASE RemoveTemp(p)
  <2>1. \A g \in Target : dir'[g]["file"] = dir[g]["file"]
    BY <1>2, <1>9, "file" \in Name DEF RemoveTemp, Unlinked, IInv, TypeOK, Name
  <2> QED BY <1>9, <2>1 DEF RemoveTemp, ContentOf
<1> QED BY <1>1, <1>5, <1>6, <1>7, <1>8, <1>9, <1>10 DEF Advance, LoadPatch, OpenSource, ReadSource,
      AskExists, AskSize, Crash

\* The rename changes one target, to what its call computed and wrote.
LEMMA RenameChanges ==
    ASSUME IInv, NEW p \in Process, RenameTemp(p)
    PROVE  LET f == File(p) IN
           \/ /\ result'[p] = "FileWriteError"
              /\ UNCHANGED <<dir, disk>>
           \/ /\ result'[p] = "Ok"
              /\ ContentOf(f)' \in {data[p]} \union Spoilt
              /\ data[p] = Outcome[call[p].patch][ContentOf(f)]
              /\ data[p] \in Whole
              /\ dir'[f].bak = dir[f].bak
              /\ dir'[f].tmp = None
              /\ \A g \in Target \ {f} : ContentOf(g)' = ContentOf(g)
<1>1. /\ File(p) \in Target /\ InPlace(p) /\ pc[p] = "rename"
      /\ disk[dir[File(p)]["tmp"]] \in {data[p]} \union Spoilt /\ data[p] \in Whole
      /\ data[p] = Outcome[call[p].patch][ContentOf(File(p))]
      /\ result \in [Process -> Result]
      /\ UNCHANGED <<disk, call>>
  BY DEF RenameTemp, IInv, TypeOK, Call, File, ProcessInv, StepFitsCall, TempReady, DataCurrent
<1>2. CASE Return(p, "FileWriteError") /\ UNCHANGED dir
  BY <1>1, <1>2 DEF Return
<1>3. CASE dir' = Renamed(File(p)) /\ Return(p, "Ok")
  <2>1. /\ dir'[File(p)]["file"] = dir[File(p)]["tmp"]
        /\ dir'[File(p)]["bak"] = dir[File(p)]["bak"]
        /\ dir'[File(p)]["tmp"] = None
        /\ \A g \in Target \ {File(p)} : dir'[g]["file"] = dir[g]["file"]
    BY <1>1, <1>3 DEF Renamed, IInv, TypeOK, Name
  <2>2. File(p)' = File(p) /\ result'[p] = "Ok"
    BY <1>1, <1>3 DEF File, Return
  <2> QED BY <1>1, <2>1, <2>2 DEF ContentOf
<1> QED BY <1>2, <1>3 DEF RenameTemp

\* Two live in-place calls have different targets.
LEMMA InPlaceAlone ==
    ASSUME IInv, NEW p \in Process, NEW q \in Process, p # q,
           Live(p), InPlace(p), Live(q), InPlace(q)
    PROVE  File(p) # File(q)
BY DEF IInv, Exclusive, Writes, InPlace

\* A target never changes under a call with a backup unless the backup is its
\* exact copy at that step (apply.cc:62-77).
THEOREM BackupComesFirst == Spec => BackupBeforeChange
<1>1. ASSUME IInv, [Next]_vars PROVE [\A p \in Process : BacksUpFirst(p)]_vars
  <2> SUFFICES ASSUME Next, NEW p \in Process, Live(p), InPlace(p), call[p].backup,
                      ContentOf(File(p))' # ContentOf(File(p))
               PROVE  BacksUpFirst(p)
    BY <1>1 DEF BacksUpFirst
  <2>1. File(p) \in Target
    BY <1>1 DEF IInv, TypeOK, Call, File
  <2>2. ASSUME NEW q \in Process, NEW c \in Call, Begin(q, c) PROVE BacksUpFirst(p)
    <3>1. q # p /\ call'[p] = call[p] /\ UNCHANGED <<dir, disk>>
      BY <2>2, <1>1 DEF Begin, IInv, TypeOK
    <3> QED BY <3>1 DEF ContentOf, File
  <2>3. ASSUME NEW q \in Process, Advance(q), ~RenameTemp(q)
        PROVE  BacksUpFirst(p)
    <3>1. UNCHANGED call
      BY <2>3 DEF Advance, OpenBackup, CopyBackup, LoadPatch, OpenSource, ReadSource, CreateOutput,
                  WriteOutput, FlushOutput, RemoveTemp, AskExists, AskSize, Crash
    <3>2. ContentOf(File(p))' = ContentOf(File(p))
      BY <2>1, <2>3, <1>1, <3>1, OnlyRenameChanges DEF File
    <3> QED BY <3>2
  <2>4. ASSUME NEW q \in Process, RenameTemp(q) PROVE BacksUpFirst(p)
    <3>1. UNCHANGED <<call, disk>> /\ Live(q) /\ InPlace(q) /\ pc[q] = "rename"
      BY <2>4, <1>1 DEF RenameTemp, Live, IInv, ProcessInv, StepFitsCall
    <3>2. File(p)' = File(p)
      BY <3>1 DEF File
    <3>3. File(p) = File(q)
      BY <1>1, <2>1, <2>4, <3>2, RenameChanges DEF ContentOf
    <3>4. p = q
      BY <1>1, <3>1, <3>3, InPlaceAlone
    <3>5. dir[File(p)].bak # None /\ disk[dir[File(p)].bak] = ContentOf(File(p))
      BY <1>1, <3>1, <3>4 DEF IInv, ProcessInv, BackupCurrent
    <3>6. dir'[File(p)].bak = dir[File(p)].bak
      BY <1>1, <2>4, <3>4, <3>2, RenameChanges DEF ContentOf
    <3> QED BY <3>1, <3>5, <3>6 DEF BacksUpFirst
  <2> QED BY <2>2, <2>3, <2>4 DEF Next, Advance
<1> QED BY <1>1, Invariance, PTL DEF Spec, BackupBeforeChange

\* A step of process q leaves the calls of the others as they are.
LEMMA OthersUndisturbed ==
    ASSUME IInv, NEW q \in Process,
           (\E c \in Call : Begin(q, c)) \/ Advance(q)
    PROVE  OthersStay(q)
<1>1. CASE \E c \in Call : Begin(q, c)
  BY <1>1 DEF IInv, TypeOK, OthersStay, Begin, Goto
<1>2. CASE OpenBackup(q) \/ CopyBackup(q)
  BY <1>2 DEF IInv, TypeOK, OthersStay, OpenBackup, CopyBackup, Goto, Close, Return
<1>3. CASE LoadPatch(q) \/ OpenSource(q) \/ ReadSource(q)
  BY <1>3 DEF IInv, TypeOK, OthersStay, LoadPatch, OpenSource, ReadSource, Goto, Close,
              Return, ReturnError, GiveUp
<1>4. CASE CreateOutput(q) \/ WriteOutput(q) \/ FlushOutput(q)
  BY <1>4 DEF IInv, TypeOK, OthersStay, CreateOutput, WriteOutput, FlushOutput, Goto, Close,
              Return, ReturnError
<1>5. CASE RenameTemp(q) \/ RemoveTemp(q) \/ AskExists(q) \/ AskSize(q) \/ Crash(q)
  BY <1>5 DEF IInv, TypeOK, OthersStay, RenameTemp, RemoveTemp, AskExists, AskSize, Crash,
              Goto, Close, Return
<1> QED BY <1>1, <1>2, <1>3, <1>4, <1>5 DEF Advance

\* Where a call can end, and with which answer.
LEMMA WhereCallsEnd ==
    ASSUME IInv, NEW p \in Process, Next, Returns(p)
    PROVE  /\ call'[p] = call[p]
           /\ \/ result'[p] = "Ok" /\ call[p].op = "backup" /\ CopyBackup(p)
              \/ result'[p] = "Ok" /\ call[p].op \in {"validate", "info"}
              \/ AskExists(p) \/ AskSize(p)
              \/ result'[p] = "Ok" /\ call[p].op = "apply" /\ FlushOutput(p)
              \/ result'[p] = "Ok" /\ InPlace(p) /\ RenameTemp(p)
              \/ result'[p] \in Result \ {"Ok", "none"} /\ ~InPlace(p)
                   /\ (call[p].op = "verify" => result'[p] = "crashed")
              \/ result'[p] = "crashed" /\ InPlace(p) /\ Crash(p)
              \/ result'[p] = "threw" /\ InPlace(p) /\ pc[p] \in {"load", "read", "cleanup"}
              \/ result'[p] = "FileWriteError" /\ InPlace(p)
                   /\ pc[p] \in {"backup", "copying", "rename"}
              \/ result'[p] \in Error /\ InPlace(p) /\ dir' = Unlinked(File(p))
<1>1. PICK q \in Process :
           (\E c \in Call : Begin(q, c)) \/ Advance(q)
  BY DEF Next
<1>2. OthersStay(q)
  BY <1>1, OthersUndisturbed
<1>3. p = q
  BY <1>2 DEF OthersStay, Returns, Live
<1>4. /\ pc \in [Process -> Step] /\ result \in [Process -> Result] /\ call[p] \in Call
      /\ ProcessInv(p)
  BY DEF IInv, TypeOK
<1>5. CASE \E c \in Call : Begin(p, c)
  BY <1>5 DEF Begin, Returns
<1>6. CASE OpenBackup(p)
  BY <1>4, <1>6 DEF OpenBackup, Return, Goto, Returns, Live, Result, Error, ProcessInv,
                    StepFitsCall, InPlace
<1>7. CASE CopyBackup(p)
  BY <1>4, <1>7 DEF CopyBackup, Return, Goto, Returns, Live, Result, Error, ProcessInv,
                    StepFitsCall, InPlace
<1>8. CASE LoadPatch(p) \/ OpenSource(p)
  BY <1>4, <1>8 DEF LoadPatch, OpenSource, Return, ReturnError, GiveUp, StopsAtLoad,
                    RefusedAtOnce, OnError,
                    Goto, Returns, Live, Result, Error, InPlace, ProcessInv, StepFitsCall
<1>9. CASE ReadSource(p)
  BY <1>4, <1>9 DEF ReadSource, Return, ReturnError, GiveUp, OnError, Goto, Returns, Live,
                    Result, Error, InPlace, ProcessInv, StepFitsCall
<1>10. CASE CreateOutput(p) \/ WriteOutput(p)
  BY <1>4, <1>10 DEF CreateOutput, WriteOutput, ReturnError, OnError, Goto, Returns, Live,
                     Result, Error, InPlace, ProcessInv, StepFitsCall
<1>11. CASE FlushOutput(p)
  BY <1>4, <1>11 DEF FlushOutput, Return, Goto, Returns, Live, ProcessInv, StepFitsCall, InPlace
<1>12. CASE RenameTemp(p)
  BY <1>4, <1>12 DEF RenameTemp, Return, ProcessInv, StepFitsCall
<1>13. CASE RemoveTemp(p)
  BY <1>4, <1>13 DEF RemoveTemp, Return, ProcessInv, StepFitsCall
<1>14. CASE Crash(p)
  BY <1>4, <1>14 DEF Crash, Return, Result, Error
<1>15. CASE AskExists(p) \/ AskSize(p)
  BY <1>15 DEF AskExists, AskSize
<1> QED BY <1>1, <1>3, <1>5, <1>6, <1>7, <1>8, <1>9, <1>10, <1>11, <1>12, <1>13, <1>14, <1>15
        DEF Advance

\* Only verify_output asks, and asking changes nothing.
LEMMA VerifyAsks ==
    ASSUME IInv, NEW p \in Process, AskExists(p) \/ AskSize(p)
    PROVE  call[p].op = "verify" /\ ~InPlace(p) /\ UNCHANGED <<dir, disk>>
BY DEF AskExists, AskSize, IInv, ProcessInv, StepFitsCall, InPlace

\* Ok means written, by apply_patch, apply_patch_inplace and create_backup
\* alike: where the bytes are not behind it, a flush was lost (io.cc:162-165).
THEOREM OkIsWritten == Spec => OkMeansWritten
<1>1. ASSUME IInv, [Next]_vars PROVE [\A p \in Process : HasWritten(p)]_vars
  <2> SUFFICES ASSUME Next, NEW p \in Process, Returns(p), result'[p] = "Ok"
               PROVE  HasWritten(p)
    BY <1>1 DEF HasWritten
  <2>1. /\ call'[p] = call[p]
        /\ \/ call[p].op = "backup" /\ CopyBackup(p)
           \/ call[p].op \in {"validate", "info", "verify"}
           \/ call[p].op = "apply" /\ FlushOutput(p)
           \/ InPlace(p) /\ RenameTemp(p)
    BY <1>1, WhereCallsEnd, VerifyAsks DEF Error, Result
  <2>2. CASE call[p].op = "backup" /\ CopyBackup(p)
    <3>1. /\ wr[p] = dir[File(p)]["bak"] /\ wr[p] \in Inode
          /\ pc[p] = "copying" /\ UNCHANGED dir
      BY <2>2, <1>1, ApplyAssumption DEF CopyBackup, IInv, TypeOK, ProcessInv, WriterOwns, WriterName
    <3>2. disk' = [disk EXCEPT ![wr[p]] = disk[rd[p]]]
      BY <2>2, <1>1 DEF CopyBackup, Return, IInv, TypeOK
    <3>3. disk'[dir'[File(p)].bak] = disk[rd[p]]
      BY <3>1, <3>2, <1>1 DEF IInv, TypeOK
    <3> QED BY <2>2, <3>3 DEF HasWritten, InPlace
  <2>3. CASE call[p].op = "apply" /\ FlushOutput(p)
    <3>1. /\ wr[p] = dir[File(p)]["out"] /\ wr[p] \in Inode /\ UNCHANGED dir
      BY <2>3, <1>1, ApplyAssumption DEF FlushOutput, IInv, TypeOK, ProcessInv, WriterOwns,
                        WriterName, OutName
    <3>2. disk'[dir'[File(p)].out] \in {data[p]} \union Spoilt
      BY <2>3, <3>1, <1>1, FlushWrites DEF IInv, TypeOK
    <3> QED BY <2>3, <3>2 DEF HasWritten, InPlace
  <2>4. CASE InPlace(p) /\ RenameTemp(p)
    <3>1. ContentOf(File(p))' \in {data[p]} \union Spoilt
      BY <2>4, <1>1, RenameChanges
    <3> QED BY <2>4, <3>1 DEF HasWritten, InPlace
  <2>5. CASE call[p].op \in {"validate", "info", "verify"}
    BY <2>5 DEF HasWritten, InPlace
  <2> QED BY <2>1, <2>2, <2>3, <2>4, <2>5
<1> QED BY <1>1, Invariance, PTL DEF Spec, OkMeansWritten

\* No temporary outlives a call, unless the process died, an exception went
\* through, or the backup or the rename failed (apply.cc:62-81).
THEOREM TemporariesAreRemoved == Spec => NoTempLeft
<1>1. ASSUME IInv, [Next]_vars PROVE [\A p \in Process : CleansUp(p)]_vars
  <2> SUFFICES ASSUME Next, NEW p \in Process, Returns(p), InPlace(p),
                      result'[p] # "crashed",
                      ~(result'[p] = "threw" /\ pc[p] \in {"load", "read", "cleanup"}),
                      ~(result'[p] = "FileWriteError" /\ pc[p] \in {"backup", "copying", "rename"})
               PROVE  CleansUp(p)
    BY <1>1 DEF CleansUp
  <2>1. File(p) \in Target /\ "tmp" \in Name
    BY <1>1 DEF IInv, TypeOK, Call, File, Name
  <2>2. \/ result'[p] = "Ok" /\ RenameTemp(p)
        \/ dir' = Unlinked(File(p))
    BY <1>1, WhereCallsEnd, VerifyAsks DEF InPlace
  <2>3. CASE result'[p] = "Ok" /\ RenameTemp(p)
    BY <2>3, <1>1, RenameChanges DEF CleansUp
  <2>4. CASE dir' = Unlinked(File(p))
    <3>1. dir'[File(p)]["tmp"] = None
      BY <2>1, <2>4, <1>1 DEF Unlinked, IInv, TypeOK
    <3> QED BY <3>1 DEF CleansUp
  <2> QED BY <2>2, <2>3, <2>4
<1> QED BY <1>1, Invariance, PTL DEF Spec, NoTempLeft

\* verify_output of a target judges a complete content: between its two
\* questions the file is replaced, but never away (apply.cc:28-39).
THEOREM VerifyIsSound == Spec => VerifySeesTarget
<1>1. ASSUME IInv, [Next]_vars PROVE [\A p \in Process : SeesTarget(p)]_vars
  <2> SUFFICES ASSUME Next, NEW p \in Process, Returns(p), call[p].op = "verify"
               PROVE  SeesTarget(p)
    BY <1>1 DEF SeesTarget
  <2>1. /\ File(p) \in Target /\ result \in [Process -> Result]
        /\ dir[File(p)].file # None /\ ContentOf(File(p)) \in Whole
    BY <1>1 DEF IInv, TypeOK, TargetIntact, Call, File
  <2>2. result'[p] = "crashed" \/ AskExists(p) \/ AskSize(p)
    BY <1>1, WhereCallsEnd DEF InPlace, CopyBackup, FlushOutput, RenameTemp, Error
  <2>3. CASE result'[p] = "crashed"
    BY <2>3 DEF SeesTarget
  <2>4. CASE AskExists(p)
    BY <2>1, <2>4, <1>1 DEF AskExists, Goto, Returns, Live, IInv, TypeOK
  <2>5. CASE AskSize(p)
    <3>1. \/ ContentOf(File(p)) \in Empty \union {Torn, Lost} /\ result'[p] = "InvalidSourceFile"
          \/ ContentOf(File(p)) \notin Empty /\ result'[p] = "Ok"
      BY <2>1, <2>5 DEF AskSize, Return
    <3>2. ContentOf(File(p)) \in Empty \union {Torn, Lost}
            => ContentOf(File(p)) \in Empty \union Spoilt
      BY <2>1, ApplyAssumption, WholeContents DEF Whole
    <3> QED BY <2>1, <3>1, <3>2 DEF SeesTarget
  <2> QED BY <2>2, <2>3, <2>4, <2>5
<1> QED BY <1>1, Invariance, PTL DEF Spec, VerifySeesTarget

-----------------------------------------------------------------------------
(***************************************************************************)
(* Refinement: a step of the code is a step of AtomicUpdate or a stutter.  *)
(***************************************************************************)

\* The variables of AtomicUpdate, as Apply has them.
content == [f \in Target |-> ContentOf(f)]
JobOf(p) == [file |-> File(p), patch |-> call[p].patch, answer |-> AnswerOf(p)]
job == [p \in Process |-> JobOf(p)]

\* The initial states are initial states of AtomicUpdate.
LEMMA AtomicInit == Init => Atomic!Init
<1> SUFFICES ASSUME Init PROVE Atomic!Init
  OBVIOUS
<1>1. IInv
  BY InitHolds
<1>2. content \in [Target -> Data]
  BY InitFiles DEF content
<1>3. ASSUME NEW p \in Process PROVE JobOf(p) \in {j \in Atomic!Job : j.answer = "none"}
  <2>1. call[p] \in Call /\ AnswerOf(p) = "none"
    BY <1>1 DEF Init, IInv, TypeOK, AnswerOf, Live
  <2> QED BY <2>1 DEF JobOf, Atomic!Job, Atomic!Answer, Call, File
<1> QED BY <1>2, <1>3 DEF Atomic!Init, content, JobOf

\* The jobs of the others are where they were.
LEMMA OtherJobs ==
    ASSUME NEW p \in Process, OthersStay(p)
    PROVE  \A q \in Process \ {p} : JobOf(q)' = JobOf(q)
BY DEF OthersStay, JobOf, AnswerOf, File, InPlace, Live

\* A step that changes p's job only, to one with answer a.
LEMMA JobChanges ==
    ASSUME NEW p \in Process, OthersStay(p), call'[p] = call[p]
    PROVE  job' = [job EXCEPT ![p] =
                     [file |-> job[p].file, patch |-> job[p].patch, answer |-> AnswerOf(p)']]
<1>1. \A q \in Process \ {p} : JobOf(q)' = JobOf(q)
  BY OtherJobs
<1>2. JobOf(p)' = [file |-> JobOf(p).file, patch |-> JobOf(p).patch, answer |-> AnswerOf(p)']
  BY DEF JobOf, File
<1> QED BY <1>1, <1>2 DEF job

\* Every step is one of AtomicUpdate, or leaves its variables alone: only the
\* rename changes a content, and it ends the job that computed it.
LEMMA AtomicNext ==
    ASSUME IInv, [Next]_vars
    PROVE  [Atomic!Next]_(Atomic!vars)
<1> USE ApplyAssumption
<1>1. CASE UNCHANGED vars
  BY <1>1 DEF vars, Atomic!vars, ContentOf, File, AnswerOf, InPlace, Live
<1>2. ASSUME NEW p \in Process, NEW c \in Call, Begin(p, c)
      PROVE  Atomic!Next
  <2>1. /\ OthersStay(p) /\ UNCHANGED <<dir, disk>>
        /\ call'[p] = c /\ pc'[p] # "idle" /\ ~Live(p)
    BY <1>2, OthersUndisturbed DEF Begin, Goto, Entry, IInv, TypeOK
  <2>2. UNCHANGED content
    BY <2>1 DEF content, ContentOf
  <2>3. AnswerOf(p)' = IF c.op = "inplace" THEN "running" ELSE "none"
    BY <2>1 DEF AnswerOf, InPlace, Live
  <2>4. /\ JobOf(p)' = [file |-> c.file, patch |-> c.patch, answer |-> AnswerOf(p)']
        /\ job' = [job EXCEPT ![p] = JobOf(p)']
    <3>1. JobOf(p)' = [file |-> c.file, patch |-> c.patch, answer |-> AnswerOf(p)']
      BY <2>1 DEF JobOf, File
    <3> QED BY <2>1, <3>1, OtherJobs DEF job
  <2>5. ~Atomic!Running(p)
    BY <2>1 DEF Atomic!Running, AnswerOf
  <2>6. CASE c.op = "inplace"
    <3>1. ASSUME NEW q \in Process, Atomic!Running(q) PROVE JobOf(q).file # c.file
      <4>1. q # p /\ Live(q) /\ InPlace(q)
        BY <3>1, <2>5 DEF Atomic!Running, AnswerOf
      <4> QED BY <4>1, <2>6, <1>2 DEF JobOf, Begin, MayBegin, Writes, InPlace
    <3>2. Atomic!Begin(p, c.file, c.patch)
      BY <2>2, <2>3, <2>4, <2>5, <2>6, <3>1 DEF Atomic!Begin, content, job, JobOf
    <3> QED BY <3>2 DEF Atomic!Next, Call
  <2>7. CASE c.op # "inplace"
    <3>1. JobOf(p)' \in Atomic!Job /\ JobOf(p)'.answer = "none"
      BY <2>3, <2>4, <2>7 DEF Atomic!Job, Atomic!Answer, Call
    <3>2. Atomic!Leave(p)
      BY <2>2, <2>4, <2>5, <3>1 DEF Atomic!Leave, content, job, JobOf
    <3> QED BY <3>2 DEF Atomic!Next
  <2> QED BY <2>6, <2>7
<1>3. ASSUME NEW p \in Process, Advance(p)
      PROVE  Atomic!Next \/ UNCHANGED <<content, job>>
  <2>1. /\ OthersStay(p) /\ UNCHANGED call /\ Live(p) /\ Next
    BY <1>3, OthersUndisturbed DEF Advance, OpenBackup, CopyBackup, LoadPatch, OpenSource,
       ReadSource, CreateOutput, WriteOutput, FlushOutput, RenameTemp, RemoveTemp, AskExists,
       AskSize, Crash, Live, Next
  <2>2. /\ job' = [job EXCEPT ![p] =
                      [file |-> job[p].file, patch |-> job[p].patch, answer |-> AnswerOf(p)']]
        /\ InPlace(p)' = InPlace(p)
    BY <2>1, JobChanges DEF InPlace
  <2>3. RenameTemp(p) \/ UNCHANGED content
    BY <1>3, OnlyRenameChanges DEF content
  <2>4. CASE ~Returns(p) \/ ~InPlace(p)
    <3>1. AnswerOf(p)' = AnswerOf(p)
      BY <2>1, <2>2, <2>4 DEF AnswerOf, Returns, Live
    <3>2. ~RenameTemp(p)
      BY <2>4 DEF RenameTemp, Return, Goto, Returns, Live, IInv, TypeOK, ProcessInv, StepFitsCall
    <3>3. UNCHANGED job
      BY <3>1, <2>2 DEF job, JobOf
    <3> QED BY <2>3, <3>2, <3>3
  <2>5. CASE Returns(p) /\ InPlace(p)
    <3>1. Atomic!Running(p)
      BY <2>5 DEF Atomic!Running, AnswerOf, Returns
    <3>2. CASE RenameTemp(p) /\ result'[p] = "Ok"
      <4>1. /\ \E c \in {data[p]} \union Spoilt : content' = [content EXCEPT ![File(p)] = c]
            /\ data[p] = Outcome[call[p].patch][content[File(p)]]
            /\ data[p] # Rejected
        <5>1. /\ File(p) \in Target /\ File(p)' = File(p)
              /\ ContentOf(File(p))' \in {data[p]} \union Spoilt /\ data[p] \in Whole
              /\ data[p] = Outcome[call[p].patch][ContentOf(File(p))]
              /\ \A g \in Target \ {File(p)} : ContentOf(g)' = ContentOf(g)
          BY <3>2, <2>1, RenameChanges DEF IInv, TypeOK, Call, File
        <5>2. data[p] # Rejected
          BY <5>1, WholeContents
        <5>3. content' = [content EXCEPT ![File(p)] = ContentOf(File(p))']
          BY <5>1 DEF content
        <5>4. content[File(p)] = ContentOf(File(p))
          BY <5>1 DEF content
        <5> QED BY <5>1, <5>2, <5>3, <5>4
      <4>2. AnswerOf(p)' = "Ok"
        BY <2>2, <2>5, <3>2 DEF AnswerOf, Returns
      <4>3. Atomic!Commit(p)
        BY <2>2, <3>1, <4>1, <4>2 DEF Atomic!Commit, Atomic!Answers, content, job, JobOf
      <4> QED BY <4>3 DEF Atomic!Next
    <3>3. CASE ~RenameTemp(p) \/ result'[p] # "Ok"
      <4>1. AnswerOf(p)' = "failed"
        BY <2>1, <2>2, <2>5, <3>3, WhereCallsEnd, VerifyAsks DEF AnswerOf, Returns, Error, InPlace
      <4>2. UNCHANGED content
        BY <2>3, <3>3, RenameChanges DEF content, ContentOf
      <4>3. Atomic!Abort(p)
        BY <2>2, <3>1, <4>1, <4>2 DEF Atomic!Abort, Atomic!Answers, content, job, JobOf
      <4> QED BY <4>3 DEF Atomic!Next
    <3> QED BY <3>2, <3>3
  <2> QED BY <2>4, <2>5
<1> QED BY <1>1, <1>2, <1>3 DEF Next, Atomic!vars, content, job, JobOf

\* The code implements the atomic update: an in-place call changes its target
\* in one step together with its Ok, or not at all (apply.cc:56-84).
THEOREM InPlaceIsAtomic == Spec => AtomicSpec
<1>1. IInv /\ [Next]_vars => [Atomic!Next]_(Atomic!vars)
  BY AtomicNext
<1> QED BY <1>1, AtomicInit, Invariance, PTL DEF Spec, AtomicSpec, Atomic!Spec
=============================================================================
