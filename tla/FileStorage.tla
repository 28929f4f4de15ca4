----------------------------- MODULE FileStorage -----------------------------
(***************************************************************************)
(* filestorage/filesystem_storage.go: parts are written beside their place *)
(* in the temporary tree and renamed, the finished file is put together    *)
(* beside its place and renamed, and trees are removed file by file.       *)
(* A step is one call of package os.  A path is the sequence of its names, *)
(* a content a sequence of bytes, a byte <<file, offset>>.  A part or a    *)
(* finished file is never written again once it has its name, so reading   *)
(* it through an open handle is the step that opens it.                    *)
(***************************************************************************)
EXTENDS FileUrls

CONSTANTS
    Worker,                \* goroutines that call the storage
    Prefixes,              \* what Delete is called with
    MaxDate,               \* bound: the dates DeleteTemp is called with
    MaxFaults,             \* bound: calls of package os that fail, and crashes
    MaxScratch             \* bound: scratch files at one time

VARIABLES
    dirs,                  \* the directories
    files,                 \* the contents of the files
    work,                  \* work[w]: the call of w and where it is
    faults,
    acked                  \* history: parts whose upload returned success, see AcknowledgedIsKept

storageVars == <<dirs, files, work, faults, acked>>

Idle == [at |-> "idle"]

At(w, stage) == work[w].at = stage
Goto(w, stage) == work' = [work EXCEPT ![w].at = stage]
Return(w) == work' = [work EXCEPT ![w] = Idle]

-----------------------------------------------------------------------------
(* Package os *)

HasPrefix(path, prefix) ==
    Len(prefix) <= Len(path) /\ SubSeq(path, 1, Len(prefix)) = prefix

Dir(path) == SubSeq(path, 1, Len(path) - 1)
Base(path) == path[Len(path)]

Tree(path) == {p \in dirs \union DOMAIN files : HasPrefix(p, path)}

Without(paths) == [p \in DOMAIN files \ paths |-> files[p]]

MkdirAll(path) == dirs' = dirs \union {SubSeq(path, 1, n) : n \in 1 .. Len(path)}

Create(path) ==
    /\ Dir(path) \in dirs
    /\ files' = [p \in DOMAIN files \union {path} |-> IF p = path THEN <<>> ELSE files[p]]

\* A write through a handle: the file may have lost its name.
Write(path, bytes) ==
    files' = IF path \in DOMAIN files THEN [files EXCEPT ![path] = @ \o bytes] ELSE files

CanRename(from, to) == from \in DOMAIN files /\ Dir(to) \in dirs
Rename(from, to) ==
    files' = [p \in (DOMAIN files \ {from}) \union {to} |-> IF p = to THEN files[from] ELSE files[p]]

Remove(path) == files' = Without({path})

\* RemoveAll unlinks one file after the other, and then the empty directories.
RemoveSome(path) ==
    \/ /\ \E p \in Tree(path) \intersect DOMAIN files : files' = Without({p})
       /\ UNCHANGED dirs
    \/ /\ Tree(path) \subseteq dirs
       /\ dirs' = dirs \ Tree(path)
       /\ UNCHANGED files

-----------------------------------------------------------------------------
(* Paths *)

BASE_DIR == <<"base">>
TEMP_DIR == <<"temp">>

\* Faulty variant: the tenancy is forgotten.
SubfoldersOfTopic(f) == IF Info[f].topic = "" THEN <<>> ELSE <<"topic", Info[f].topic>>

\* The subfolders of the tenancy and of the topic, for those that are set.
Subfolders(f) ==
    (IF Info[f].tenancy = "" THEN <<>> ELSE <<"tenancy", Info[f].tenancy>>)
      \o (IF Info[f].topic = "" THEN <<>> ELSE <<"topic", Info[f].topic>>)

AsNumber(date) == ToString(date)

\* TempPath without and with a part.
TempDir(f) ==
    LET date == AsNumber(Info[f].created)
    IN TEMP_DIR \o <<date>> \o Subfolders(f) \o <<date, Info[f].id>>
TempPath(f, part) == Append(TempDir(f), ToString(part))

Path(f) == BASE_DIR \o Subfolders(f) \o <<Info[f].id>>

Exists(f) == Path(f) \in DOMAIN files

\* A name beside path with a new id.
tempSiblingPath(path, n) == Append(Dir(path), ToString(<<Base(path), n>>))

\* The parts of the files.
Parts == UNION {0 .. PartCount(f) : f \in File}

\* The registry has one file of an id, a tenancy and a topic.  A number is written in one way and
\* not as the name of a folder, and a name with a new id is that of no part and of no file.
ASSUME NamesAssumption ==
    /\ \A f, g \in File :
         Info[f].id = Info[g].id /\ Info[f].tenancy = Info[g].tenancy /\ Info[f].topic = Info[g].topic => f = g
    /\ \A f \in File : AsNumber(Info[f].created) \notin {"tenancy", "topic"}
    /\ \A p, q \in Parts : ToString(p) = ToString(q) => p = q
    /\ \A p, q \in Parts, n \in 1 .. MaxScratch : ToString(<<ToString(p), n>>) # ToString(q)
    /\ \A f, g \in File, n \in 1 .. MaxScratch : ToString(<<Info[f].id, n>>) # Info[g].id
    /\ Prefixes \subseteq Seq(STRING)

Scratches == {work[w].scratch : w \in {v \in Worker : "scratch" \in DOMAIN work[v]}}

\* Which of the names that are not in use does not matter.
NewScratch(path) ==
    LET free == {n \in 1 .. MaxScratch : tempSiblingPath(path, n) \notin DOMAIN files \union Scratches}
    IN {tempSiblingPath(path, n) : n \in {m \in free : \A k \in free : m <= k}}

-----------------------------------------------------------------------------
(* Calls.  Target is where the renamed file goes. *)

Bytes(f, from, length) == [k \in 1 .. length |-> <<f, from + k - 1>>]
Part(f, part) == Bytes(f, part * MaxPartSize(f), UploadPartLength(f, part))
Whole(f) == Bytes(f, 0, Info[f].size)

Target(w) ==
    IF work[w].call = "upload" THEN TempPath(work[w].file, work[w].part) ELSE Path(work[w].file)

StartUpload(w, f) ==
    /\ At(w, "idle")
    /\ MkdirAll(TempDir(f))
    /\ UNCHANGED <<files, work, faults, acked>>

UploadPart(w, f, part) ==
    work' = [work EXCEPT ![w] = [at |-> "mkdir", call |-> "upload", file |-> f, part |-> part]]

\* The caller says how many parts there are.
FinalizeUpload(w, f) ==
    /\ At(w, "idle")
    /\ work' = [work EXCEPT ![w] = [at |-> "mkdir", call |-> "finalize", file |-> f, part |-> 0]]
    /\ UNCHANGED <<dirs, files, faults, acked>>

MakeDir(w) ==
    /\ At(w, "mkdir")
    /\ MkdirAll(Dir(Target(w)))
    /\ Goto(w, "create")
    /\ UNCHANGED <<files, faults, acked>>

CreateScratch(w) ==
    /\ At(w, "create")
    /\ \E path \in NewScratch(Target(w)) :
         /\ Create(path)
         /\ work' = [work EXCEPT ![w] = [at |-> "copy", call |-> work[w].call, file |-> work[w].file,
                                        part |-> work[w].part, scratch |-> path]]
    /\ UNCHANGED <<dirs, faults, acked>>

\* The directory was removed meanwhile.
CreateRefused(w) ==
    /\ At(w, "create")
    /\ Dir(Target(w)) \notin dirs
    /\ Return(w)
    /\ UNCHANGED <<dirs, files, faults, acked>>

\* io.CopyN of a body that has the length of the part.
CopyBody(w) ==
    /\ At(w, "copy") /\ work[w].call = "upload"
    /\ Write(work[w].scratch, Part(work[w].file, work[w].part))
    /\ Goto(w, "rename")
    /\ UNCHANGED <<dirs, faults, acked>>

\* A body that is shorter or longer, or cut off: what was written is removed.
RefuseBody(w) ==
    /\ At(w, "copy") /\ work[w].call = "upload"
    /\ Goto(w, "remove")
    /\ UNCHANGED <<dirs, files, faults, acked>>

CopyPart(w) ==
    /\ At(w, "copy") /\ work[w].call = "finalize"
    /\ LET source == TempPath(work[w].file, work[w].part)
       IN \/ /\ work[w].part = PartCount(work[w].file)
             /\ Goto(w, "rename")
             /\ UNCHANGED files
          \/ /\ work[w].part < PartCount(work[w].file)
             /\ source \in DOMAIN files
             /\ Write(work[w].scratch, files[source])
             /\ work' = [work EXCEPT ![w].part = @ + 1]
          \/ /\ work[w].part < PartCount(work[w].file)
             /\ source \notin DOMAIN files
             /\ Goto(w, "remove")
             /\ UNCHANGED files
    /\ UNCHANGED <<dirs, faults, acked>>

\* Whether a worker is removing a tree that path is in.
Removing(path) ==
    \E w \in Worker : At(w, "removeAll") /\ \E tree \in work[w].trees : HasPrefix(path, tree)

RenamePart(w) ==
    /\ At(w, "rename") /\ work[w].call = "upload"
    /\ CanRename(work[w].scratch, Target(w))
    /\ Rename(work[w].scratch, Target(w))
    /\ acked' = IF Removing(Target(w)) THEN acked
                ELSE acked \union {<<work[w].file, work[w].part>>}
    /\ Return(w)
    /\ UNCHANGED <<dirs, faults>>

RenameFile(w) ==
    /\ At(w, "rename") /\ work[w].call = "finalize"
    /\ CanRename(work[w].scratch, Target(w))
    /\ Rename(work[w].scratch, Target(w))
    /\ acked' = {a \in acked : a[1] # work[w].file}
    /\ work' = [work EXCEPT ![w] = [at |-> "removeAll", trees |-> {TempDir(work[w].file)}]]
    /\ UNCHANGED <<dirs, faults>>

RenameRefused(w) ==
    /\ At(w, "rename")
    /\ ~CanRename(work[w].scratch, Target(w))
    /\ Goto(w, "remove")
    /\ UNCHANGED <<dirs, files, faults, acked>>

\* Faulty variant: the file in its place is removed.
RemoveTarget(w) ==
    /\ At(w, "remove")
    /\ files' = Without({work[w].scratch, Target(w)})
    /\ Return(w)
    /\ UNCHANGED <<dirs, faults, acked>>

\* The deferred function of a call that failed.
RemoveScratch(w) ==
    /\ At(w, "remove")
    /\ Remove(work[w].scratch)
    /\ Return(w)
    /\ UNCHANGED <<dirs, faults, acked>>

DeleteFile(w, f) ==
    /\ At(w, "idle")
    /\ Remove(Path(f))
    /\ UNCHANGED <<dirs, work, faults, acked>>

Delete(w, prefix) ==
    /\ At(w, "idle")
    /\ work' = [work EXCEPT ![w] = [at |-> "removeAll", trees |-> {BASE_DIR \o prefix}]]
    /\ UNCHANGED <<dirs, files, faults, acked>>

\* The directories of the days before toDate, as they are listed now.
DeleteTemp(w, toDate) ==
    LET days  == {d \in 0 .. MaxDate : d < toDate}
        trees == {p \in dirs : Dir(p) = TEMP_DIR /\ \E d \in days : Base(p) = AsNumber(d)}
    IN /\ At(w, "idle")
       /\ work' = [work EXCEPT ![w] = [at |-> "removeAll", trees |-> trees]]
       /\ acked' = {a \in acked : \A tree \in trees : ~HasPrefix(TempDir(a[1]), tree)}
       /\ UNCHANGED <<dirs, files, faults>>

RemoveNext(w) ==
    /\ At(w, "removeAll")
    /\ \E tree \in work[w].trees :
         \/ Tree(tree) # {} /\ RemoveSome(tree) /\ UNCHANGED work
         \/ /\ Tree(tree) = {}
            /\ work' = [work EXCEPT ![w].trees = @ \ {tree}]
            /\ UNCHANGED <<dirs, files>>
    /\ UNCHANGED <<faults, acked>>

RemoveDone(w) ==
    /\ At(w, "removeAll") /\ work[w].trees = {}
    /\ Return(w)
    /\ UNCHANGED <<dirs, files, faults, acked>>

-----------------------------------------------------------------------------
(* Failures *)

\* A call of package os fails: the error path; the errors of removals are not looked at.
CallFails(w) ==
    /\ faults < MaxFaults
    /\ \/ work[w].at \in {"mkdir", "create"} /\ Return(w)
       \/ work[w].at \in {"copy", "rename"} /\ Goto(w, "remove")
       \/ /\ At(w, "removeAll")
          /\ \E tree \in work[w].trees : work' = [work EXCEPT ![w].trees = @ \ {tree}]
    /\ faults' = faults + 1
    /\ UNCHANGED <<dirs, files, acked>>

\* The process ends and is started again.  The files stay as they are; the scratch files that are
\* left are not followed further: no call names them again, and they keep no tree from removal.
Crash ==
    /\ faults < MaxFaults
    /\ \E w \in Worker : ~At(w, "idle")
    /\ work' = [w \in Worker |-> Idle]
    /\ files' = Without(Scratches)
    /\ faults' = faults + 1
    /\ UNCHANGED <<dirs, acked>>

StorageInit ==
    /\ dirs = {BASE_DIR, TEMP_DIR}
    /\ files = <<>>
    /\ work = [w \in Worker |-> Idle]
    /\ faults = 0
    /\ acked = {}

StorageStep(w) ==
    \/ \E f \in File : StartUpload(w, f) \/ FinalizeUpload(w, f) \/ DeleteFile(w, f)
    \/ \E prefix \in Prefixes : Delete(w, prefix)
    \/ \E toDate \in 1 .. MaxDate : DeleteTemp(w, toDate)
    \/ MakeDir(w) \/ CreateScratch(w) \/ CreateRefused(w) \/ CopyBody(w) \/ RefuseBody(w)
    \/ CopyPart(w) \/ RenamePart(w) \/ RenameFile(w) \/ RenameRefused(w) \/ RemoveScratch(w)
    \/ RemoveNext(w) \/ RemoveDone(w) \/ CallFails(w)

-----------------------------------------------------------------------------
(* Properties *)

\* A part whose upload was answered with success is there, whole, until the file is finalized or
\* the temporary files of its day are deleted: a repeated upload that is refused or cut off, and a
\* crash, leave it alone (UploadPart writes a sibling and renames it).  A part that is uploaded
\* while its tree is being removed may go with it.
AcknowledgedIsKept ==
    \A a \in acked :
       LET path == TempPath(a[1], a[2])
       IN path \in DOMAIN files /\ files[path] = Part(a[1], a[2])
=============================================================================
