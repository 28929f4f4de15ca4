----------------------------- MODULE FileProofs ------------------------------
(***************************************************************************)
(* Proofs about FileDataService and FileStorage: an acknowledged part is   *)
(* kept, a download is exact and a published URL works, for every number   *)
(* of workers, files and parts.                                            *)
(***************************************************************************)
EXTENDS FileDataService, FiniteSetTheorems, SequenceTheorems, TLAPS

-----------------------------------------------------------------------------
(* Types.                                                                  *)

Name ==
    {"base", "temp", "tenancy", "topic"} \union STRING
      \union {ToString(p) : p \in Parts} \union {AsNumber(Info[f].created) : f \in File}
      \union {Info[f].id : f \in File} \union {Info[f].tenancy : f \in File}
      \union {Info[f].topic : f \in File}
      \union {ToString(<<Info[f].id, n>>) : f \in File, n \in 1 .. MaxScratch}
      \union {ToString(<<ToString(p), n>>) : p \in Parts, n \in 1 .. MaxScratch}

Calls == {"upload", "finalize"}
Begun == [at : {"mkdir", "create"}, call : Calls, file : File, part : Parts]
Scratched == [at : {"copy", "rename", "remove"}, call : Calls, file : File, part : Parts, scratch : Seq(Name)]
Remover == [at : {"removeAll"}, trees : SUBSET Seq(Name)]
Answering == [at : {"answered"}, file : File, source : {Whole(f) : f \in File}]

WorkState == {Idle} \union Begun \union Scratched \union Remover \union Answering

TypeInv ==
    /\ dirs \subseteq Seq(Name)
    /\ files = [p \in DOMAIN files |-> files[p]]
    /\ work \in [Worker -> WorkState]
    /\ acked \subseteq File \X Parts

-----------------------------------------------------------------------------
(* What a call has come to.                                                *)

Siblings(path) == {tempSiblingPath(path, n) : n \in 1 .. MaxScratch}

JobTarget(job) == IF job.call = "upload" THEN TempPath(job.file, job.part) ELSE Path(job.file)

HasScratch(job) == job.at \in {"copy", "rename", "remove"}

(* The scratch file of a call is a sibling of its target, FinalizeUpload   *)
(* begins with the first part, and what is sent is a finished file.        *)
JobOK(job) ==
    /\ job.at \in {"mkdir", "create"} /\ job.call = "finalize" => job.part = 0
    /\ HasScratch(job) => job.scratch \in Siblings(JobTarget(job))
    /\ job.at = "answered" => job.source = Whole(job.file)

JobsOK == \A w \in Worker : JobOK(work[w])

ScratchApart ==
    \A v, w \in Worker : v # w /\ HasScratch(work[v]) /\ HasScratch(work[w]) => work[v].scratch # work[w].scratch

-----------------------------------------------------------------------------
(* What the files hold.                                                    *)

(* A part and a finished file that have their names are whole.             *)
NamedAreWhole ==
    /\ \A f \in File, p \in Parts : TempPath(f, p) \in DOMAIN files => files[TempPath(f, p)] = Part(f, p)
    /\ \A f \in File : Path(f) \in DOMAIN files => files[Path(f)] = Whole(f)

(* FinalizeUpload has put the first parts together.                        *)
Together(f, parts) ==
    IF parts * MaxPartSize(f) >= Info[f].size THEN Info[f].size ELSE parts * MaxPartSize(f)

Content(job) ==
    IF job.call = "upload" THEN IF job.at = "copy" THEN <<>> ELSE Part(job.file, job.part)
    ELSE IF job.at = "copy" THEN Bytes(job.file, 0, Together(job.file, job.part)) ELSE Whole(job.file)

InUse(job) == job.at \in {"copy", "rename"}

ScratchHolds ==
    \A w \in Worker : InUse(work[w]) /\ work[w].scratch \in DOMAIN files =>
                        files[work[w].scratch] = Content(work[w])

(* An acknowledged part is there, and no removal goes through a tree that  *)
(* it is in.                                                               *)
AckedThere == \A a \in acked : TempPath(a[1], a[2]) \in DOMAIN files

Spares(job, pairs) ==
    job.at = "removeAll" => \A tree \in job.trees : \A a \in pairs : ~ HasPrefix(TempPath(a[1], a[2]), tree)

AckedSpared == \A w \in Worker : Spares(work[w], acked)

FileInv ==
    /\ TypeInv /\ JobsOK /\ ScratchApart
    /\ NamedAreWhole /\ ScratchHolds
    /\ AckedThere /\ AckedSpared

-----------------------------------------------------------------------------
(* What is signed.                                                         *)

AnyUrl == {UrlOf(op, f, part, t) : op \in {"upload", "fetch"}, f \in File, part \in Int, t \in Nat}

Issue ==
    [at : {"signing"}, op : {"upload", "fetch"}, file : File, urls : Seq(AnyUrl), expires : Nat, from : Int, to : Int]

(* The URLs of a window of parts, each signed no sooner than the expiry    *)
(* that is published with them was computed.                               *)
UrlInv ==
    /\ clock \in Nat
    /\ issue # NoIssue =>
         /\ issue \in Issue
         /\ issue.op = "fetch" => issue.from = 0 /\ issue.to = 1 /\ Len(issue.urls) <= 1
         /\ \E t0 \in 0 .. clock :
              /\ issue.expires = urlExpiresAt(t0)
              /\ \A i \in 1 .. Len(issue.urls) : \E t \in t0 .. clock :
                   issue.urls[i] = UrlOf(issue.op, issue.file, issue.from + i - 1, t)

-----------------------------------------------------------------------------
(* The arithmetic of parts.                                                *)

LEMMA PartSizes ==
    ASSUME NEW f \in File
    PROVE  MaxPartSize(f) \in Nat \ {0} /\ Info[f].size \in Nat
BY FileUrlsAssumption DEF MaxPartSize

LEMMA RoundedUp ==
    ASSUME NEW size \in Nat, NEW max \in Nat \ {0}
    PROVE  /\ (size + max - 1) \div max \in Nat
           /\ ((size + max - 1) \div max) * max >= size
<1> DEFINE q == (size + max - 1) \div max
           r == (size + max - 1) % max
<1>1. /\ q \in Int /\ r \in 0 .. max - 1
      /\ size + max - 1 = max * q + r
  OBVIOUS
<1> HIDE DEF q, r
<1>2. max * q >= size
  BY <1>1
<1>3. q >= 0
  <2> SUFFICES ASSUME q <= -1 PROVE FALSE
    BY <1>1
  <2> DEFINE t == max * q
  <2>1. t <= -max /\ t \in Int
    BY <1>1
  <2>2. t >= size
    BY <1>2
  <2> HIDE DEF t
  <2> QED
    BY <2>1, <2>2
<1>4. q \in Nat /\ q * max >= size
  BY <1>1, <1>2, <1>3
<1> QED
  BY <1>4 DEF q

LEMMA PartCounts ==
    ASSUME NEW f \in File
    PROVE  /\ PartCount(f) \in Nat
           /\ Together(f, PartCount(f)) = Info[f].size
<1>1. MaxPartSize(f) \in Nat \ {0} /\ Info[f].size \in Nat
  BY PartSizes
<1>2. CASE Info[f].size = 0
  <2>1. PartCount(f) = 0
    BY <1>2 DEF PartCount
  <2> QED
    BY <1>1, <1>2, <2>1 DEF Together
<1>3. CASE Info[f].size # 0
  <2>1. PartCount(f) = (Info[f].size + MaxPartSize(f) - 1) \div MaxPartSize(f)
    BY <1>1, <1>3 DEF PartCount
  <2>2. PartCount(f) \in Nat /\ PartCount(f) * MaxPartSize(f) >= Info[f].size
    BY <1>1, <2>1, RoundedUp
  <2> QED
    BY <2>2 DEF Together
<1> QED
  BY <1>2, <1>3

LEMMA PartsAreNumbers == Parts \subseteq Nat
BY PartCounts DEF Parts

LEMMA PartsOfFile ==
    ASSUME NEW f \in File
    PROVE  0 .. PartCount(f) \subseteq Parts
BY DEF Parts

(* One part more.                                                          *)
LEMMA NextTogether ==
    ASSUME NEW f \in File, NEW p \in Nat
    PROVE  /\ Together(f, p) \in Nat
           /\ UploadPartLength(f, p) \in Nat
           /\ Together(f, p + 1) = Together(f, p) + UploadPartLength(f, p)
           /\ UploadPartLength(f, p) = 0 \/ Together(f, p) = p * MaxPartSize(f)
<1> DEFINE max == MaxPartSize(f)
           size == Info[f].size
           start == p * max
<1>1. max \in Nat \ {0} /\ size \in Nat
  BY PartSizes
<1>2. start \in Nat /\ (p + 1) * max = start + max
  BY <1>1
<1>3. Together(f, p) = IF start >= size THEN size ELSE start
  BY DEF Together
<1>4. Together(f, p + 1) = IF start + max >= size THEN size ELSE start + max
  BY <1>2 DEF Together
<1>5. UploadPartLength(f, p) = IF start >= size THEN 0
                               ELSE IF size - start > max THEN max ELSE size - start
  BY DEF UploadPartLength, FilePartLength
<1> HIDE DEF max, size, start
<1>6. Together(f, p) \in Nat /\ UploadPartLength(f, p) \in Nat
  BY <1>1, <1>2, <1>3, <1>5
<1>7. Together(f, p + 1) = Together(f, p) + UploadPartLength(f, p)
  BY <1>1, <1>2, <1>3, <1>4, <1>5
<1>8. UploadPartLength(f, p) = 0 \/ Together(f, p) = start
  BY <1>1, <1>2, <1>3, <1>5
<1> QED
  BY <1>6, <1>7, <1>8 DEF start, max

LEMMA BytesType ==
    ASSUME NEW f \in File, NEW from \in Nat, NEW length \in Nat
    PROVE  /\ Bytes(f, from, length) \in Seq(File \X Nat)
           /\ Len(Bytes(f, from, length)) = length
           /\ \A k \in 1 .. length : Bytes(f, from, length)[k] = <<f, from + k - 1>>
BY DEF Bytes

LEMMA BytesConcat ==
    ASSUME NEW f \in File, NEW n \in Nat, NEW m \in Nat
    PROVE  Bytes(f, 0, n) \o Bytes(f, n, m) = Bytes(f, 0, n + m)
<1> DEFINE l == Bytes(f, 0, n)
           r == Bytes(f, n, m)
           b == Bytes(f, 0, n + m)
           S == File \X Nat
<1>1. l \in Seq(S) /\ Len(l) = n /\ \A k \in 1 .. n : l[k] = <<f, 0 + k - 1>>
  BY BytesType
<1>2. r \in Seq(S) /\ Len(r) = m /\ \A k \in 1 .. m : r[k] = <<f, n + k - 1>>
  BY BytesType
<1>3. b \in Seq(S) /\ Len(b) = n + m /\ \A k \in 1 .. n + m : b[k] = <<f, 0 + k - 1>>
  <2>1. n + m \in Nat
    OBVIOUS
  <2> QED
    BY <2>1, BytesType
<1> HIDE DEF l, r, b, S
<1>4. /\ l \o r \in Seq(S) /\ Len(l \o r) = n + m
      /\ \A k \in 1 .. n + m : (l \o r)[k] = IF k <= n THEN l[k] ELSE r[k - n]
  <2>1. /\ l \o r \in Seq(S) /\ Len(l \o r) = Len(l) + Len(r)
        /\ \A k \in 1 .. Len(l) + Len(r) : (l \o r)[k] = IF k <= Len(l) THEN l[k] ELSE r[k - Len(l)]
    BY <1>1, <1>2, ConcatProperties
  <2> QED
    BY <1>1, <1>2, <2>1
<1>5. ASSUME NEW k \in 1 .. n + m PROVE (l \o r)[k] = b[k]
  <2>1. b[k] = <<f, 0 + k - 1>>
    BY <1>3
  <2>2. CASE k <= n
    <3>1. (l \o r)[k] = l[k] /\ k \in 1 .. n
      BY <1>4, <2>2
    <3>2. l[k] = <<f, 0 + k - 1>>
      BY <1>1, <3>1
    <3> QED
      BY <2>1, <3>1, <3>2
  <2>3. CASE k > n
    <3>1. (l \o r)[k] = r[k - n] /\ k - n \in 1 .. m
      BY <1>4, <2>3
    <3>2. r[k - n] = <<f, n + (k - n) - 1>>
      BY <1>2, <3>1
    <3>3. n + (k - n) - 1 = 0 + k - 1
      OBVIOUS
    <3> QED
      BY <2>1, <3>1, <3>2, <3>3
  <2>4. k <= n \/ k > n
    OBVIOUS
  <2> QED
    BY <2>2, <2>3, <2>4
<1>6. l \o r = b
  BY <1>3, <1>4, <1>5, SeqEqual
<1> QED
  BY <1>6 DEF l, r, b

LEMMA BytesEmpty ==
    ASSUME NEW f \in File, NEW from \in Nat
    PROVE  Bytes(f, from, 0) = <<>>
BY DEF Bytes

(* FinalizeUpload copies the next part behind the ones before.             *)
LEMMA PartsTogether ==
    ASSUME NEW f \in File, NEW p \in Nat
    PROVE  Bytes(f, 0, Together(f, p)) \o Part(f, p) = Bytes(f, 0, Together(f, p + 1))
<1> DEFINE n == Together(f, p)
           m == UploadPartLength(f, p)
           start == p * MaxPartSize(f)
<1>1. n \in Nat /\ m \in Nat /\ Together(f, p + 1) = n + m /\ (m = 0 \/ n = start)
  BY NextTogether
<1>2. start \in Nat
  BY PartSizes
<1>3. Part(f, p) = Bytes(f, start, m)
  BY DEF Part
<1>4. CASE m = 0
  <2>1. Part(f, p) = Bytes(f, n, 0)
    BY <1>1, <1>2, <1>3, <1>4, BytesEmpty
  <2> QED
    BY <1>1, <1>4, <2>1, BytesConcat
<1>5. CASE n = start
  <2>1. Bytes(f, 0, n) \o Bytes(f, n, m) = Bytes(f, 0, n + m)
    BY <1>1, BytesConcat
  <2>2. Part(f, p) = Bytes(f, n, m)
    BY <1>3, <1>5
  <2> QED
    BY <1>1, <2>1, <2>2
<1> QED
  BY <1>1, <1>4, <1>5

-----------------------------------------------------------------------------
(* The names of files.                                                     *)

Date(f) == AsNumber(Info[f].created)

LEMMA InfoNames ==
    ASSUME NEW f \in File
    PROVE  /\ Date(f) \in Name /\ Info[f].id \in Name
           /\ Info[f].tenancy \in Name /\ Info[f].topic \in Name
           /\ "base" \in Name /\ "temp" \in Name /\ "tenancy" \in Name /\ "topic" \in Name
<1>1. Date(f) \in Name
  BY DEF Name, Date
<1>2. Info[f].id \in Name /\ Info[f].tenancy \in Name /\ Info[f].topic \in Name
  BY DEF Name
<1>3. "base" \in Name /\ "temp" \in Name /\ "tenancy" \in Name /\ "topic" \in Name
  BY DEF Name
<1> QED
  BY <1>1, <1>2, <1>3

LEMMA ConcatOnes ==
    ASSUME NEW a \in Name, NEW b \in Name
    PROVE  <<a>> \o <<b>> = <<a, b>>
<1> DEFINE l == <<a>>
           r == <<b>>
           t == <<a, b>>
<1>1. l \in Seq(Name) /\ Len(l) = 1 /\ l[1] = a /\ r \in Seq(Name) /\ Len(r) = 1 /\ r[1] = b
  OBVIOUS
<1>2. t \in Seq(Name) /\ Len(t) = 2 /\ t[1] = a /\ t[2] = b
  OBVIOUS
<1> HIDE DEF l, r, t
<1>3. /\ l \o r \in Seq(Name) /\ Len(l \o r) = 2
      /\ \A i \in 1 .. 2 : (l \o r)[i] = IF i <= 1 THEN l[i] ELSE r[i - 1]
  <2>1. /\ l \o r \in Seq(Name) /\ Len(l \o r) = Len(l) + Len(r)
        /\ \A i \in 1 .. Len(l) + Len(r) : (l \o r)[i] = IF i <= Len(l) THEN l[i] ELSE r[i - Len(l)]
    BY <1>1, ConcatProperties
  <2> QED
    BY <1>1, <2>1
<1>4. (l \o r)[1] = l[1] /\ (l \o r)[2] = r[1]
  BY <1>3
<1>5. ASSUME NEW i \in 1 .. 2 PROVE (l \o r)[i] = t[i]
  <2>1. i = 1 \/ i = 2
    OBVIOUS
  <2> QED
    BY <1>1, <1>2, <1>4, <2>1
<1>6. l \o r = t
  BY <1>2, <1>3, <1>5, SeqEqual
<1> QED
  BY <1>6 DEF l, r, t

LEMMA ConcatPairs ==
    ASSUME NEW a \in Name, NEW b \in Name, NEW c \in Name, NEW d \in Name
    PROVE  <<a, b>> \o <<c, d>> = <<a, b, c, d>>
<1> DEFINE l == <<a, b>>
           r == <<c, d>>
           t == <<a, b, c, d>>
<1>1. /\ l \in Seq(Name) /\ Len(l) = 2 /\ l[1] = a /\ l[2] = b
      /\ r \in Seq(Name) /\ Len(r) = 2 /\ r[1] = c /\ r[2] = d
  OBVIOUS
<1>2. t \in Seq(Name) /\ Len(t) = 4 /\ t[1] = a /\ t[2] = b /\ t[3] = c /\ t[4] = d
  OBVIOUS
<1> HIDE DEF l, r, t
<1>3. /\ l \o r \in Seq(Name) /\ Len(l \o r) = 4
      /\ \A i \in 1 .. 4 : (l \o r)[i] = IF i <= 2 THEN l[i] ELSE r[i - 2]
  <2>1. /\ l \o r \in Seq(Name) /\ Len(l \o r) = Len(l) + Len(r)
        /\ \A i \in 1 .. Len(l) + Len(r) : (l \o r)[i] = IF i <= Len(l) THEN l[i] ELSE r[i - Len(l)]
    BY <1>1, ConcatProperties
  <2> QED
    BY <1>1, <2>1
<1>4. (l \o r)[1] = l[1] /\ (l \o r)[2] = l[2] /\ (l \o r)[3] = r[1] /\ (l \o r)[4] = r[2]
  BY <1>3
<1>5. ASSUME NEW i \in 1 .. 4 PROVE (l \o r)[i] = t[i]
  <2>1. i = 1 \/ i = 2 \/ i = 3 \/ i = 4
    OBVIOUS
  <2> QED
    BY <1>1, <1>2, <1>4, <2>1
<1>6. l \o r = t
  BY <1>2, <1>3, <1>5, SeqEqual
<1> QED
  BY <1>6 DEF l, r, t

(* The four forms of a path, by the folders of its tenancy and its topic.  *)
LEMMA SubfolderForms ==
    ASSUME NEW f \in File
    PROVE  /\ Subfolders(f) \in Seq(Name)
           /\ Info[f].tenancy = "" /\ Info[f].topic = "" => Subfolders(f) = <<>>
           /\ Info[f].tenancy = "" /\ Info[f].topic # "" => Subfolders(f) = <<"topic", Info[f].topic>>
           /\ Info[f].tenancy # "" /\ Info[f].topic = "" => Subfolders(f) = <<"tenancy", Info[f].tenancy>>
           /\ Info[f].tenancy # "" /\ Info[f].topic # "" =>
                Subfolders(f) = <<"tenancy", Info[f].tenancy, "topic", Info[f].topic>>
<1> DEFINE t == <<"tenancy", Info[f].tenancy>>
           o == <<"topic", Info[f].topic>>
<1>1. t \in Seq(Name) /\ o \in Seq(Name) /\ <<>> \in Seq(Name)
  BY InfoNames
<1>2. t \o o = <<"tenancy", Info[f].tenancy, "topic", Info[f].topic>>
  BY InfoNames, ConcatPairs
<1>3. t \o <<>> = t /\ <<>> \o o = o /\ <<>> \o <<>> = <<>>
  BY <1>1, ConcatEmptySeq
<1>4. t \o o \in Seq(Name)
  BY <1>1, ConcatProperties
<1>5. Subfolders(f) = (IF Info[f].tenancy = "" THEN <<>> ELSE t) \o (IF Info[f].topic = "" THEN <<>> ELSE o)
  BY DEF Subfolders
<1> HIDE DEF t, o
<1>6. CASE Info[f].tenancy = "" /\ Info[f].topic = ""
  BY <1>1, <1>3, <1>5, <1>6
<1>7. CASE Info[f].tenancy = "" /\ Info[f].topic # ""
  <2>1. Subfolders(f) = o
    BY <1>3, <1>5, <1>7
  <2> QED
    BY <1>1, <1>7, <2>1 DEF o
<1>8. CASE Info[f].tenancy # "" /\ Info[f].topic = ""
  <2>1. Subfolders(f) = t
    BY <1>3, <1>5, <1>8
  <2> QED
    BY <1>1, <1>8, <2>1 DEF t
<1>9. CASE Info[f].tenancy # "" /\ Info[f].topic # ""
  <2>1. Subfolders(f) = t \o o
    BY <1>5, <1>9
  <2> QED
    BY <1>2, <1>4, <1>9, <2>1
<1> QED
  BY <1>6, <1>7, <1>8, <1>9

LEMMA TempDirForm ==
    ASSUME NEW f \in File
    PROVE  LET s == Subfolders(f)
               n == Len(s)
           IN  /\ TempDir(f) \in Seq(Name)
               /\ Len(TempDir(f)) = n + 4
               /\ TempDir(f)[1] = "temp" /\ TempDir(f)[2] = Date(f)
               /\ \A i \in 1 .. n : TempDir(f)[i + 2] = s[i]
               /\ TempDir(f)[n + 3] = Date(f) /\ TempDir(f)[n + 4] = Info[f].id
<1> DEFINE s == Subfolders(f)
           n == Len(s)
           a == <<"temp", Date(f)>>
           c == <<Date(f), Info[f].id>>
<1>1. s \in Seq(Name) /\ n \in Nat
  <2>1. s \in Seq(Name)
    BY SubfolderForms
  <2> QED
    BY <2>1
<1>2. a \in Seq(Name) /\ c \in Seq(Name) /\ Len(a) = 2 /\ Len(c) = 2
  BY InfoNames
<1>3. TEMP_DIR \o <<Date(f)>> = a
  BY InfoNames, ConcatOnes DEF TEMP_DIR
<1>4. TempDir(f) = a \o s \o c
  BY <1>3 DEF TempDir, Date
<1> HIDE DEF s
<1>5. /\ a \o s \in Seq(Name) /\ Len(a \o s) = 2 + n
      /\ \A i \in 1 .. 2 + n : (a \o s)[i] = IF i <= 2 THEN a[i] ELSE s[i - 2]
  BY <1>1, <1>2, ConcatProperties
<1>6. /\ (a \o s) \o c \in Seq(Name) /\ Len((a \o s) \o c) = (2 + n) + 2
      /\ \A i \in 1 .. (2 + n) + 2 :
           ((a \o s) \o c)[i] = IF i <= 2 + n THEN (a \o s)[i] ELSE c[i - (2 + n)]
  BY <1>2, <1>5, ConcatProperties
<1> DEFINE t == TempDir(f)
<1>7. t \in Seq(Name) /\ Len(t) = n + 4
  BY <1>1, <1>4, <1>6
<1>8. t[1] = "temp" /\ t[2] = Date(f)
  BY <1>1, <1>4, <1>5, <1>6
<1>9. ASSUME NEW i \in 1 .. n PROVE t[i + 2] = s[i]
  BY <1>1, <1>4, <1>5, <1>6
<1>10. t[n + 3] = Date(f) /\ t[n + 4] = Info[f].id
  <2>1. /\ n + 3 \in 1 .. (2 + n) + 2 /\ ~ (n + 3 <= 2 + n) /\ n + 3 - (2 + n) = 1
        /\ n + 4 \in 1 .. (2 + n) + 2 /\ ~ (n + 4 <= 2 + n) /\ n + 4 - (2 + n) = 2
    BY <1>1
  <2>2. t[n + 3] = c[1] /\ t[n + 4] = c[2]
    BY <1>4, <1>6, <2>1
  <2> QED
    BY <2>2
<1> QED
  BY <1>7, <1>8, <1>9, <1>10 DEF s

LEMMA TempPathForm ==
    ASSUME NEW f \in File, NEW p \in Parts
    PROVE  /\ TempPath(f, p) \in Seq(Name)
           /\ Len(TempPath(f, p)) = Len(TempDir(f)) + 1
           /\ \A i \in 1 .. Len(TempDir(f)) : TempPath(f, p)[i] = TempDir(f)[i]
           /\ TempPath(f, p)[Len(TempDir(f)) + 1] = ToString(p)
           /\ Dir(TempPath(f, p)) = TempDir(f)
           /\ Base(TempPath(f, p)) = ToString(p)
<1> DEFINE d == TempDir(f)
           x == ToString(p)
<1>1. d \in Seq(Name) /\ x \in Name
  <2>1. d \in Seq(Name)
    BY TempDirForm
  <2>2. x \in Name
    BY DEF Name
  <2> QED
    BY <2>1, <2>2
<1>2. TempPath(f, p) = Append(d, x)
  BY DEF TempPath
<1> HIDE DEF d, x
<1>3. /\ Append(d, x) \in Seq(Name) /\ Len(Append(d, x)) = Len(d) + 1
      /\ \A i \in 1 .. Len(d) : Append(d, x)[i] = d[i]
      /\ Append(d, x)[Len(d) + 1] = x
  BY <1>1
<1>4. SubSeq(Append(d, x), 1, Len(d) + 1 - 1) = d
  BY <1>1
<1> QED
  BY <1>2, <1>3, <1>4 DEF d, x, Dir, Base

LEMMA PathForm ==
    ASSUME NEW f \in File
    PROVE  LET s == Subfolders(f)
               n == Len(s)
           IN  /\ Path(f) \in Seq(Name)
               /\ Len(Path(f)) = n + 2
               /\ Path(f)[1] = "base"
               /\ \A i \in 1 .. n : Path(f)[i + 1] = s[i]
               /\ Path(f)[n + 2] = Info[f].id
               /\ Dir(Path(f)) \in Seq(Name)
               /\ Len(Dir(Path(f))) = n + 1
               /\ Dir(Path(f))[1] = "base"
               /\ Base(Path(f)) = Info[f].id
<1> DEFINE s == Subfolders(f)
           n == Len(s)
           a == <<"base">>
           c == <<Info[f].id>>
<1>1. s \in Seq(Name) /\ n \in Nat
  <2>1. s \in Seq(Name)
    BY SubfolderForms
  <2> QED
    BY <2>1
<1>2. a \in Seq(Name) /\ c \in Seq(Name) /\ Len(a) = 1 /\ Len(c) = 1
  BY InfoNames
<1>3. Path(f) = a \o s \o c
  BY DEF Path, BASE_DIR
<1> HIDE DEF s
<1>4. /\ a \o s \in Seq(Name) /\ Len(a \o s) = 1 + n
      /\ \A i \in 1 .. 1 + n : (a \o s)[i] = IF i <= 1 THEN a[i] ELSE s[i - 1]
  BY <1>1, <1>2, ConcatProperties
<1>5. /\ (a \o s) \o c \in Seq(Name) /\ Len((a \o s) \o c) = (1 + n) + 1
      /\ \A i \in 1 .. (1 + n) + 1 :
           ((a \o s) \o c)[i] = IF i <= 1 + n THEN (a \o s)[i] ELSE c[i - (1 + n)]
  BY <1>2, <1>4, ConcatProperties
<1> DEFINE t == Path(f)
<1>6. t \in Seq(Name) /\ Len(t) = n + 2
  BY <1>1, <1>3, <1>5
<1>7. t[1] = "base"
  BY <1>1, <1>3, <1>4, <1>5
<1>8. ASSUME NEW i \in 1 .. n PROVE t[i + 1] = s[i]
  BY <1>1, <1>3, <1>4, <1>5
<1>9. t[n + 2] = Info[f].id
  <2>1. n + 2 \in 1 .. (1 + n) + 1 /\ ~ (n + 2 <= 1 + n) /\ n + 2 - (1 + n) = 1
    BY <1>1
  <2>2. t[n + 2] = c[1]
    BY <1>3, <1>5, <2>1
  <2> QED
    BY <2>2
<1> HIDE DEF t
<1>10. /\ SubSeq(t, 1, Len(t) - 1) \in Seq(Name)
       /\ Len(SubSeq(t, 1, Len(t) - 1)) = n + 1
       /\ SubSeq(t, 1, Len(t) - 1)[1] = t[1]
  BY <1>1, <1>6
<1>11. Dir(t) \in Seq(Name) /\ Len(Dir(t)) = n + 1 /\ Dir(t)[1] = "base" /\ Base(t) = Info[f].id
  BY <1>1, <1>6, <1>7, <1>9, <1>10 DEF Dir, Base
<1> QED
  BY <1>6, <1>7, <1>8, <1>9, <1>11 DEF s, t

(* The subfolders tell the tenancy and the topic.                          *)
LEMMA SubfolderMeaning ==
    ASSUME NEW f \in File
    PROVE  LET s == Subfolders(f)
           IN  /\ Len(s) = 0 \/ Len(s) = 2 \/ Len(s) = 4
               /\ Len(s) > 0 => s[1] \in {"tenancy", "topic"}
               /\ Len(s) = 4 => s[3] \in {"tenancy", "topic"}
               /\ Info[f].tenancy = (IF Len(s) = 4 \/ (Len(s) = 2 /\ s[1] = "tenancy") THEN s[2] ELSE "")
               /\ Info[f].topic = (IF Len(s) = 4 THEN s[4]
                                   ELSE IF Len(s) = 2 /\ s[1] = "topic" THEN s[2] ELSE "")
<1> DEFINE s == Subfolders(f)
           a == Info[f].tenancy
           b == Info[f].topic
<1>1. CASE a = "" /\ b = ""
  <2>1. s = <<>>
    BY <1>1, SubfolderForms
  <2>2. Len(s) = 0
    BY <2>1
  <2> HIDE DEF s, a, b
  <2>3. ~ (Len(s) > 0) /\ Len(s) # 2 /\ Len(s) # 4
    BY <2>2
  <2>4. /\ a = (IF Len(s) = 4 \/ (Len(s) = 2 /\ s[1] = "tenancy") THEN s[2] ELSE "")
        /\ b = (IF Len(s) = 4 THEN s[4] ELSE IF Len(s) = 2 /\ s[1] = "topic" THEN s[2] ELSE "")
    BY <1>1, <2>3
  <2> QED
    BY <2>2, <2>3, <2>4 DEF s, a, b
<1>2. CASE a = "" /\ b # ""
  <2>1. s = <<"topic", b>>
    BY <1>2, SubfolderForms
  <2>2. Len(s) = 2 /\ s[1] = "topic" /\ s[2] = b
    BY <2>1
  <2> HIDE DEF s, a, b
  <2>3. Len(s) # 4 /\ s[1] # "tenancy"
    BY <2>2
  <2>4. /\ a = (IF Len(s) = 4 \/ (Len(s) = 2 /\ s[1] = "tenancy") THEN s[2] ELSE "")
        /\ b = (IF Len(s) = 4 THEN s[4] ELSE IF Len(s) = 2 /\ s[1] = "topic" THEN s[2] ELSE "")
    BY <1>2, <2>2, <2>3
  <2> QED
    BY <2>2, <2>3, <2>4 DEF s, a, b
<1>3. CASE a # "" /\ b = ""
  <2>1. s = <<"tenancy", a>>
    BY <1>3, SubfolderForms
  <2>2. Len(s) = 2 /\ s[1] = "tenancy" /\ s[2] = a
    BY <2>1
  <2> HIDE DEF s, a, b
  <2>3. Len(s) # 4 /\ s[1] # "topic"
    BY <2>2
  <2>4. /\ a = (IF Len(s) = 4 \/ (Len(s) = 2 /\ s[1] = "tenancy") THEN s[2] ELSE "")
        /\ b = (IF Len(s) = 4 THEN s[4] ELSE IF Len(s) = 2 /\ s[1] = "topic" THEN s[2] ELSE "")
    BY <1>3, <2>2, <2>3
  <2> QED
    BY <2>2, <2>3, <2>4 DEF s, a, b
<1>4. CASE a # "" /\ b # ""
  <2>1. s = <<"tenancy", a, "topic", b>>
    BY <1>4, SubfolderForms
  <2>2. Len(s) = 4 /\ s[1] = "tenancy" /\ s[2] = a /\ s[3] = "topic" /\ s[4] = b
    BY <2>1
  <2> HIDE DEF s, a, b
  <2> QED
    BY <2>2 DEF s, a, b
<1> QED
  BY <1>1, <1>2, <1>3, <1>4

LEMMA SubfoldersTell ==
    ASSUME NEW f \in File, NEW g \in File, Subfolders(f) = Subfolders(g)
    PROVE  Info[f].tenancy = Info[g].tenancy /\ Info[f].topic = Info[g].topic
BY SubfolderMeaning

LEMMA SameFile ==
    ASSUME NEW f \in File, NEW g \in File, Subfolders(f) = Subfolders(g), Info[f].id = Info[g].id
    PROVE  f = g
BY SubfoldersTell, NamesAssumption

LEMMA PathsDistinct ==
    ASSUME NEW f \in File, NEW g \in File, Path(f) = Path(g)
    PROVE  f = g
<1> DEFINE s == Subfolders(f)
           r == Subfolders(g)
<1>1. s \in Seq(Name) /\ r \in Seq(Name)
  BY SubfolderForms
<1>2. Len(s) = Len(r)
  BY <1>1, PathForm
<1>3. ASSUME NEW i \in 1 .. Len(s) PROVE s[i] = r[i]
  BY <1>2, PathForm
<1>4. Info[f].id = Info[g].id
  BY <1>2, PathForm
<1>5. s = r
  BY <1>1, <1>2, <1>3, SeqEqual
<1> QED
  BY <1>4, <1>5, SameFile

(* No temporary directory is within that of another file.                  *)
LEMMA TempDirsApart ==
    ASSUME NEW f \in File, NEW g \in File, NEW q \in Parts,
           HasPrefix(TempPath(g, q), TempDir(f))
    PROVE  f = g
<1> DEFINE s == Subfolders(f)
           r == Subfolders(g)
           n == Len(s)
           m == Len(r)
           d == TempDir(f)
           e == TempDir(g)
           t == TempPath(g, q)
<1>1. /\ s \in Seq(Name) /\ r \in Seq(Name)
      /\ n = 0 \/ n = 2 \/ n = 4
      /\ m = 0 \/ m = 2 \/ m = 4
  BY SubfolderForms, SubfolderMeaning
<1>2. /\ d \in Seq(Name) /\ Len(d) = n + 4
      /\ \A i \in 1 .. n : d[i + 2] = s[i]
      /\ d[n + 3] = Date(f) /\ d[n + 4] = Info[f].id
  BY TempDirForm
<1>3. /\ e \in Seq(Name) /\ Len(e) = m + 4
      /\ \A i \in 1 .. m : e[i + 2] = r[i]
      /\ e[m + 3] = Date(g) /\ e[m + 4] = Info[g].id
  BY TempDirForm
<1>4. t \in Seq(Name) /\ Len(t) = m + 5 /\ \A i \in 1 .. m + 4 : t[i] = e[i]
  BY <1>1, <1>3, TempPathForm
<1>5. Date(f) \notin {"tenancy", "topic"} /\ Date(g) \notin {"tenancy", "topic"}
  BY NamesAssumption DEF Date
<1>6. /\ n > 0 => s[1] \in {"tenancy", "topic"}
      /\ n = 4 => s[3] \in {"tenancy", "topic"}
      /\ m > 0 => r[1] \in {"tenancy", "topic"}
      /\ m = 4 => r[3] \in {"tenancy", "topic"}
  BY SubfolderMeaning
<1>7. Len(d) <= Len(t) /\ SubSeq(t, 1, Len(d)) = d
  BY DEF HasPrefix
<1> HIDE DEF s, r, d, e, t, n, m
<1>8. \A i \in 1 .. Len(d) : d[i] = t[i]
  BY <1>1, <1>2, <1>4, <1>7
<1>9. n <= m
  BY <1>1, <1>2, <1>4, <1>7
<1>10. \A i \in 1 .. n + 4 : d[i] = e[i]
  BY <1>1, <1>2, <1>4, <1>8, <1>9
<1>11. n = m
  <2>1. CASE n < m
    <3>1. n + 1 \in 1 .. m /\ n + 3 \in 1 .. n + 4
      BY <1>1, <2>1
    <3>2. d[n + 3] = r[n + 1]
      BY <1>1, <1>3, <1>10, <3>1
    <3>3. r[n + 1] \in {"tenancy", "topic"}
      BY <1>1, <1>6, <2>1
    <3> QED
      BY <1>2, <1>5, <3>2, <3>3
  <2> QED
    BY <1>1, <1>9, <2>1
<1>12. ASSUME NEW i \in 1 .. n PROVE s[i] = r[i]
  <2>1. i + 2 \in 1 .. n + 4
    BY <1>1
  <2> QED
    BY <1>2, <1>3, <1>10, <1>11, <2>1
<1>13. s = r
  BY <1>1, <1>11, <1>12, SeqEqual DEF n, m
<1>14. Info[f].id = Info[g].id
  <2>1. n + 4 \in 1 .. n + 4
    BY <1>1
  <2> QED
    BY <1>2, <1>3, <1>10, <1>11, <2>1
<1> QED
  BY <1>13, <1>14, SameFile DEF s, r

(* A path that a part or a finished file has.                              *)
Named == {TempPath(f, p) : f \in File, p \in Parts} \union {Path(f) : f \in File}

LEMMA PrefixOfPart ==
    ASSUME NEW f \in File, NEW p \in Parts
    PROVE  HasPrefix(TempPath(f, p), TempDir(f))
<1> DEFINE d == TempDir(f)
           t == TempPath(f, p)
<1>1. d \in Seq(Name) /\ t \in Seq(Name) /\ Len(t) = Len(d) + 1 /\ SubSeq(t, 1, Len(t) - 1) = d
  BY TempDirForm, TempPathForm DEF Dir
<1> HIDE DEF d, t
<1>2. Len(d) \in Nat /\ Len(t) - 1 = Len(d)
  BY <1>1
<1>3. HasPrefix(t, d)
  BY <1>1, <1>2 DEF HasPrefix
<1> QED
  BY <1>3 DEF d, t

LEMMA TempPathsDistinct ==
    ASSUME NEW f \in File, NEW g \in File, NEW p \in Parts, NEW q \in Parts, TempPath(f, p) = TempPath(g, q)
    PROVE  f = g /\ p = q
<1>1. f = g
  BY PrefixOfPart, TempDirsApart
<1>2. ToString(p) = ToString(q)
  BY TempPathForm
<1> QED
  BY <1>1, <1>2, NamesAssumption

LEMMA TempPathStart ==
    ASSUME NEW f \in File, NEW p \in Parts
    PROVE  /\ TempPath(f, p) \in Seq(Name) /\ Len(TempPath(f, p)) >= 5
           /\ TempPath(f, p)[1] = "temp"
           /\ Dir(TempPath(f, p)) \in Seq(Name) /\ Len(Dir(TempPath(f, p))) >= 4
           /\ Dir(TempPath(f, p))[1] = "temp"
<1>1. Len(Subfolders(f)) \in Nat
  <2>1. Subfolders(f) \in Seq(Name)
    BY SubfolderForms
  <2> QED
    BY <2>1
<1>2. TempDir(f) \in Seq(Name) /\ Len(TempDir(f)) >= 4 /\ Len(TempDir(f)) \in Nat /\ TempDir(f)[1] = "temp"
  BY <1>1, TempDirForm
<1>3. TempPath(f, p)[1] = TempDir(f)[1] /\ Len(TempPath(f, p)) = Len(TempDir(f)) + 1
  BY <1>2, TempPathForm
<1> QED
  BY <1>2, <1>3, TempPathForm

LEMMA NotInTemp ==
    ASSUME NEW f \in File, NEW g \in File, NEW p \in Parts
    PROVE  Path(f) # TempPath(g, p)
<1>1. Path(f)[1] = "base" /\ TempPath(g, p)[1] = "temp"
  BY PathForm, TempPathStart
<1> QED
  BY <1>1

(* The name of a scratch file is that of no part and of no finished file.  *)
LEMMA SiblingForm ==
    ASSUME NEW path \in Seq(Name), Len(path) > 1, NEW x \in Name
    PROVE  /\ Append(Dir(path), x) \in Seq(Name)
           /\ Append(Dir(path), x)[1] = path[1]
           /\ Base(Append(Dir(path), x)) = x
<1>1. Dir(path) \in Seq(Name) /\ Len(Dir(path)) = Len(path) - 1 /\ Dir(path)[1] = path[1]
  BY DEF Dir
<1> DEFINE d == Dir(path)
<1> HIDE DEF d
<1>2. d \in Seq(Name) /\ Len(d) = Len(path) - 1 /\ d[1] = path[1]
  BY <1>1 DEF d
<1>3. /\ Append(d, x) \in Seq(Name) /\ Len(Append(d, x)) = Len(d) + 1
      /\ Append(d, x)[1] = d[1] /\ Append(d, x)[Len(d) + 1] = x
  BY <1>2
<1> QED
  BY <1>2, <1>3 DEF Base, d

LEMMA SiblingsApart ==
    ASSUME NEW path \in Named, NEW s \in Siblings(path)
    PROVE  s \in Seq(Name) /\ s \notin Named
<1>1. PICK n \in 1 .. MaxScratch : s = Append(Dir(path), ToString(<<Base(path), n>>))
  BY DEF Siblings, tempSiblingPath
<1>2. ASSUME NEW f \in File, NEW p \in Parts, path = TempPath(f, p)
      PROVE  s \in Seq(Name) /\ s \notin Named
  <2>1. path \in Seq(Name) /\ Len(path) > 1 /\ path[1] = "temp" /\ Base(path) = ToString(p)
    BY <1>2, TempPathStart, TempPathForm
  <2> DEFINE x == ToString(<<ToString(p), n>>)
  <2>2. x \in Name
    BY DEF Name
  <2>3. s = Append(Dir(path), x)
    BY <1>1, <2>1
  <2>4. \A q \in Parts : x # ToString(q)
    BY NamesAssumption
  <2> HIDE DEF x
  <2>5. s \in Seq(Name) /\ s[1] = "temp" /\ Base(s) = x
    BY <2>1, <2>2, <2>3, SiblingForm
  <2>6. ASSUME NEW g \in File, NEW q \in Parts PROVE s # TempPath(g, q)
    BY <2>4, <2>5, TempPathForm
  <2>7. ASSUME NEW g \in File PROVE s # Path(g)
    <3>1. Path(g)[1] = "base"
      BY PathForm
    <3> QED
      BY <2>5, <3>1
  <2> QED
    BY <2>5, <2>6, <2>7 DEF Named
<1>3. ASSUME NEW f \in File, path = Path(f)
      PROVE  s \in Seq(Name) /\ s \notin Named
  <2>1. path \in Seq(Name) /\ Len(path) > 1 /\ path[1] = "base" /\ Base(path) = Info[f].id
    <3>1. Len(Subfolders(f)) \in Nat
      <4>1. Subfolders(f) \in Seq(Name)
        BY SubfolderForms
      <4> QED
        BY <4>1
    <3> QED
      BY <1>3, <3>1, PathForm
  <2> DEFINE x == ToString(<<Info[f].id, n>>)
  <2>2. x \in Name
    BY DEF Name
  <2>3. s = Append(Dir(path), x)
    BY <1>1, <2>1
  <2>4. \A g \in File : x # Info[g].id
    BY NamesAssumption
  <2> HIDE DEF x
  <2>5. s \in Seq(Name) /\ s[1] = "base" /\ Base(s) = x
    BY <2>1, <2>2, <2>3, SiblingForm
  <2>6. ASSUME NEW g \in File, NEW q \in Parts PROVE s # TempPath(g, q)
    <3>1. TempPath(g, q)[1] = "temp"
      BY TempPathStart
    <3> QED
      BY <2>5, <3>1
  <2>7. ASSUME NEW g \in File PROVE s # Path(g)
    BY <2>4, <2>5, PathForm
  <2> QED
    BY <2>5, <2>6, <2>7 DEF Named
<1> QED
  BY <1>2, <1>3 DEF Named

(* Delete removes nothing of the temporary tree.                           *)
LEMMA BaseTree ==
    ASSUME NEW prefix \in Prefixes
    PROVE  /\ BASE_DIR \o prefix \in Seq(Name)
           /\ \A f \in File, p \in Parts : ~ HasPrefix(TempPath(f, p), BASE_DIR \o prefix)
<1> DEFINE b == <<"base">>
           t == b \o prefix
<1>1. b \in Seq(Name) /\ Len(b) = 1 /\ b[1] = "base"
  <2>1. "base" \in Name
    BY DEF Name
  <2> QED
    BY <2>1
<1>2. prefix \in Seq(Name)
  <2>1. prefix \in Seq(STRING)
    BY NamesAssumption
  <2>2. STRING \subseteq Name
    BY DEF Name
  <2> QED
    BY <2>1, <2>2, SeqMonotonic
<1> HIDE DEF b
<1>3. t \in Seq(Name) /\ Len(t) = 1 + Len(prefix) /\ t[1] = "base"
  <2>1. /\ t \in Seq(Name) /\ Len(t) = Len(b) + Len(prefix)
        /\ \A i \in 1 .. Len(b) + Len(prefix) : t[i] = IF i <= Len(b) THEN b[i] ELSE prefix[i - Len(b)]
    BY <1>1, <1>2, ConcatProperties
  <2>2. Len(prefix) \in Nat
    BY <1>2
  <2>3. 1 \in 1 .. Len(b) + Len(prefix) /\ 1 <= Len(b)
    BY <1>1, <2>2
  <2>4. t[1] = b[1]
    BY <2>1, <2>3
  <2> QED
    BY <1>1, <2>1, <2>4
<1>4. BASE_DIR \o prefix = t
  BY DEF BASE_DIR, b
<1> HIDE DEF t
<1>5. ASSUME NEW f \in File, NEW p \in Parts PROVE ~ HasPrefix(TempPath(f, p), t)
  <2> DEFINE u == TempPath(f, p)
  <2>1. u \in Seq(Name) /\ u[1] = "temp"
    BY TempPathStart
  <2> HIDE DEF u
  <2>2. SUFFICES ASSUME Len(t) <= Len(u), SubSeq(u, 1, Len(t)) = t PROVE FALSE
    BY DEF HasPrefix, u
  <2>3. Len(t) >= 1
    BY <1>2, <1>3
  <2>4. SubSeq(u, 1, Len(t))[1] = u[1]
    BY <1>3, <2>1, <2>2, <2>3
  <2>5. t[1] = u[1]
    BY <2>2, <2>4
  <2> QED
    BY <1>3, <2>1, <2>5
<1> QED
  BY <1>3, <1>4, <1>5

(* The directory of a day is above that of a file if it is above a part.   *)
LEMMA DayTree ==
    ASSUME NEW tree \in Seq(Name), Dir(tree) = TEMP_DIR,
           NEW f \in File, NEW p \in Parts, HasPrefix(TempPath(f, p), tree)
    PROVE  HasPrefix(TempDir(f), tree)
<1> DEFINE d == TempDir(f)
           t == TempPath(f, p)
<1>1. Len(tree) \in Nat /\ Len(tree) <= 2
  <2> DEFINE s == SubSeq(tree, 1, Len(tree) - 1)
             n == Len(tree)
  <2>1. s = <<"temp">>
    BY DEF Dir, TEMP_DIR
  <2>2. n \in Nat
    OBVIOUS
  <2>3. n > 2 => Len(s) = n - 1
    BY <2>2
  <2> HIDE DEF s, n
  <2>4. Len(s) = 1
    BY <2>1
  <2>5. n <= 2
    BY <2>2, <2>3, <2>4
  <2> QED
    BY <2>2, <2>5 DEF n
<1>2. /\ d \in Seq(Name) /\ t \in Seq(Name) /\ Len(t) = Len(d) + 1 /\ Len(t) >= 5
      /\ \A i \in 1 .. Len(d) : t[i] = d[i]
  BY TempDirForm, TempPathForm, TempPathStart
<1>3. SubSeq(t, 1, Len(tree)) = tree
  BY DEF HasPrefix
<1> HIDE DEF d, t
<1>4. Len(tree) <= Len(d)
  BY <1>1, <1>2
<1>5. SubSeq(d, 1, Len(tree)) = tree
  <2>1. SubSeq(d, 1, Len(tree)) \in Seq(Name) /\ Len(SubSeq(d, 1, Len(tree))) = Len(tree)
    BY <1>1, <1>2, <1>4
  <2>2. ASSUME NEW i \in 1 .. Len(tree) PROVE SubSeq(d, 1, Len(tree))[i] = tree[i]
    <3>1. SubSeq(d, 1, Len(tree))[i] = d[i]
      BY <1>1, <1>2, <1>4
    <3>2. SubSeq(t, 1, Len(tree))[i] = t[i]
      BY <1>1, <1>2, <1>4
    <3>3. t[i] = d[i]
      BY <1>1, <1>2, <1>4
    <3> QED
      BY <1>3, <3>1, <3>2, <3>3
  <2> QED
    BY <2>1, <2>2, SeqEqual
<1>6. HasPrefix(d, tree)
  BY <1>4, <1>5 DEF HasPrefix
<1> QED
  BY <1>6 DEF d

-----------------------------------------------------------------------------
(* The calls of the storage.                                               *)

LEMMA JobForms ==
    ASSUME NEW job \in WorkState
    PROVE  /\ job.at = "idle" => job = Idle
           /\ job.at \in {"mkdir", "create"} => job \in Begun
           /\ HasScratch(job) => job \in Scratched
           /\ job.at = "removeAll" => job \in Remover
           /\ job.at = "answered" => job \in Answering
           /\ job.at \in {"idle", "mkdir", "create", "copy", "rename", "remove", "removeAll", "answered"}
BY DEF WorkState, Idle, Begun, Scratched, Remover, Answering, HasScratch

LEMMA IdleJob == Idle \in WorkState /\ JobOK(Idle) /\ ~ HasScratch(Idle) /\ ~ InUse(Idle) /\ Idle.at = "idle"
BY DEF WorkState, JobOK, Idle, HasScratch, InUse

LEMMA TargetIsNamed ==
    ASSUME NEW job \in Begun \union Scratched
    PROVE  JobTarget(job) \in Named
<1>1. job.file \in File /\ job.part \in Parts
  BY DEF Begun, Scratched
<1> QED
  BY <1>1 DEF JobTarget, Named

LEMMA Domains ==
    ASSUME NEW job \in WorkState
    PROVE  "scratch" \in DOMAIN job <=> HasScratch(job)
BY DEF WorkState, Idle, Begun, Scratched, Remover, Answering, HasScratch

(* The work of one worker changes.                                         *)
LEMMA JobStep ==
    ASSUME TypeInv, JobsOK, ScratchApart, AckedSpared,
           NEW w \in Worker, NEW job \in WorkState, JobOK(job),
           work' = [work EXCEPT ![w] = job],
           dirs' \subseteq Seq(Name),
           files' = [p \in DOMAIN files' |-> files'[p]],
           acked' \subseteq File \X Parts,
           \A v \in Worker \ {w} : Spares(work[v], acked'),
           Spares(job, acked'),
           HasScratch(job) => \A v \in Worker \ {w} : HasScratch(work[v]) => work[v].scratch # job.scratch
    PROVE  /\ TypeInv' /\ JobsOK' /\ ScratchApart' /\ AckedSpared'
           /\ \A v \in Worker : work'[v] = IF v = w THEN job ELSE work[v]
<1>1. work \in [Worker -> WorkState]
  BY DEF TypeInv
<1>2. /\ work' \in [Worker -> WorkState]
      /\ \A v \in Worker : work'[v] = IF v = w THEN job ELSE work[v]
  BY <1>1
<1>3. TypeInv'
  BY <1>2 DEF TypeInv
<1>4. JobsOK'
  <2>1. \A v \in Worker : JobOK(work'[v])
    BY <1>2 DEF JobsOK
  <2> QED
    BY <2>1 DEF JobsOK, JobOK, HasScratch, JobTarget, Siblings, tempSiblingPath
<1>5. ScratchApart'
  <2>1. \A u, v \in Worker : u # v /\ HasScratch(work'[u]) /\ HasScratch(work'[v]) => work'[u].scratch # work'[v].scratch
    <3> SUFFICES ASSUME NEW u \in Worker, NEW v \in Worker, u # v, HasScratch(work'[u]), HasScratch(work'[v])
                 PROVE  work'[u].scratch # work'[v].scratch
      OBVIOUS
    <3>1. CASE u # w /\ v # w
      BY <1>2, <3>1 DEF ScratchApart
    <3>2. CASE u = w
      BY <1>2, <3>2
    <3>3. CASE v = w
      BY <1>2, <3>3
    <3> QED
      BY <3>1, <3>2, <3>3
  <2> QED
    BY <2>1 DEF ScratchApart, HasScratch
<1>6. AckedSpared'
  <2>1. \A v \in Worker : Spares(work'[v], acked')
    BY <1>2
  <2> QED
    BY <2>1 DEF AckedSpared, Spares
<1> QED
  BY <1>2, <1>3, <1>4, <1>5, <1>6

(* A call goes on and files are removed, none of an acknowledged part.     *)
LEMMA QuietStep ==
    ASSUME FileInv,
           NEW w \in Worker, NEW job \in WorkState, JobOK(job),
           work' = [work EXCEPT ![w] = job],
           HasScratch(job) => HasScratch(work[w]) /\ job.scratch = work[w].scratch,
           InUse(job) => InUse(work[w]) /\ Content(job) = Content(work[w]),
           dirs' \subseteq Seq(Name),
           NEW S, files' = [p \in DOMAIN files \ S |-> files[p]],
           acked' \subseteq acked,
           \A a \in acked' : TempPath(a[1], a[2]) \notin S,
           Spares(job, acked')
    PROVE  FileInv'
<1>1. /\ TypeInv' /\ JobsOK' /\ ScratchApart' /\ AckedSpared'
      /\ \A v \in Worker : work'[v] = IF v = w THEN job ELSE work[v]
  <2>1. acked' \subseteq File \X Parts
    BY DEF FileInv, TypeInv
  <2>2. \A v \in Worker \ {w} : Spares(work[v], acked')
    BY DEF FileInv, AckedSpared, Spares
  <2>3. HasScratch(job) => \A v \in Worker \ {w} : HasScratch(work[v]) => work[v].scratch # job.scratch
    BY DEF FileInv, ScratchApart
  <2>4. files' = [p \in DOMAIN files' |-> files'[p]]
    OBVIOUS
  <2> QED
    BY <2>1, <2>2, <2>3, <2>4, JobStep DEF FileInv
<1>2. DOMAIN files' = DOMAIN files \ S /\ \A p \in DOMAIN files' : files'[p] = files[p]
  OBVIOUS
<1>3. NamedAreWhole'
  BY <1>2 DEF FileInv, NamedAreWhole
<1>4. ScratchHolds'
  <2> SUFFICES ASSUME NEW v \in Worker, InUse(work'[v]), work'[v].scratch \in DOMAIN files'
               PROVE  files'[work'[v].scratch] = Content(work'[v])
    BY DEF ScratchHolds, InUse, Content
  <2>1. CASE v = w
    <3>1. HasScratch(job)
      BY <1>1, <2>1 DEF InUse, HasScratch
    <3>2. files[work[w].scratch] = Content(work[w])
      BY <1>1, <1>2, <2>1, <3>1 DEF FileInv, ScratchHolds
    <3> QED
      BY <1>1, <1>2, <2>1, <3>1, <3>2
  <2>2. CASE v # w
    <3>1. work'[v] = work[v]
      BY <1>1, <2>2
    <3>2. InUse(work[v]) /\ work[v].scratch \in DOMAIN files
      BY <1>2, <3>1
    <3>3. files[work[v].scratch] = Content(work[v])
      BY <3>2 DEF FileInv, ScratchHolds
    <3> QED
      BY <1>2, <3>1, <3>3
  <2> QED
    BY <2>1, <2>2
<1>5. AckedThere'
  BY <1>2 DEF FileInv, AckedThere
<1> QED
  BY <1>1, <1>3, <1>4, <1>5 DEF FileInv

LEMMA ScratchIsNotNamed ==
    ASSUME FileInv, NEW w \in Worker, HasScratch(work[w])
    PROVE  work[w] \in Scratched /\ work[w].scratch \in Seq(Name) /\ work[w].scratch \notin Named
<1>1. work[w] \in Scratched
  BY JobForms DEF FileInv, TypeInv
<1>2. work[w].scratch \in Siblings(JobTarget(work[w]))
  BY DEF FileInv, JobsOK, JobOK
<1>3. JobTarget(work[w]) \in Named
  BY <1>1, TargetIsNamed
<1> QED
  BY <1>1, <1>2, <1>3, SiblingsApart

LEMMA Targets ==
    ASSUME NEW w \in Worker
    PROVE  Target(w) = JobTarget(work[w])
BY DEF Target, JobTarget

LEMMA AckedNamed ==
    ASSUME TypeInv, NEW a \in acked
    PROVE  a[1] \in File /\ a[2] \in Parts /\ TempPath(a[1], a[2]) \in Named
<1>1. a[1] \in File /\ a[2] \in Parts
  BY DEF TypeInv
<1> QED
  BY <1>1 DEF Named

(* A call writes to its scratch file.                                      *)
LEMMA WriteStep ==
    ASSUME FileInv,
           NEW w \in Worker, NEW job \in WorkState, JobOK(job), InUse(job), InUse(work[w]),
           work' = [work EXCEPT ![w] = job],
           job.scratch = work[w].scratch,
           NEW bytes, Content(job) = Content(work[w]) \o bytes,
           Write(work[w].scratch, bytes),
           UNCHANGED <<dirs, acked>>
    PROVE  FileInv'
<1> DEFINE s == work[w].scratch
<1>1. HasScratch(job) /\ HasScratch(work[w]) /\ job.at # "removeAll"
  BY DEF HasScratch, InUse
<1>2. s \notin Named
  BY <1>1, ScratchIsNotNamed
<1>3. /\ DOMAIN files' = DOMAIN files
      /\ \A p \in DOMAIN files : p # s => files'[p] = files[p]
      /\ s \in DOMAIN files => files'[s] = files[s] \o bytes
      /\ files' = [p \in DOMAIN files' |-> files'[p]]
  <2>1. files = [p \in DOMAIN files |-> files[p]]
    BY DEF FileInv, TypeInv
  <2> QED
    BY <2>1 DEF Write
<1>4. /\ TypeInv' /\ JobsOK' /\ ScratchApart' /\ AckedSpared'
      /\ \A v \in Worker : work'[v] = IF v = w THEN job ELSE work[v]
  <2>1. dirs' \subseteq Seq(Name) /\ acked' \subseteq File \X Parts
    BY DEF FileInv, TypeInv
  <2>2. \A v \in Worker \ {w} : Spares(work[v], acked')
    BY DEF FileInv, AckedSpared
  <2>3. Spares(job, acked')
    BY <1>1 DEF Spares
  <2>4. \A v \in Worker \ {w} : HasScratch(work[v]) => work[v].scratch # job.scratch
    BY <1>1 DEF FileInv, ScratchApart
  <2> QED
    BY <1>3, <2>1, <2>2, <2>3, <2>4, JobStep DEF FileInv
<1>5. NamedAreWhole'
  <2>1. \A p \in Named : p \in DOMAIN files' => p \in DOMAIN files /\ files'[p] = files[p]
    BY <1>2, <1>3
  <2> HIDE DEF s
  <2>2. ASSUME NEW f \in File, NEW p \in Parts, TempPath(f, p) \in DOMAIN files'
        PROVE  files'[TempPath(f, p)] = Part(f, p)
    <3>1. TempPath(f, p) \in Named
      BY DEF Named
    <3> QED
      BY <2>1, <2>2, <3>1 DEF FileInv, NamedAreWhole
  <2>3. ASSUME NEW f \in File, Path(f) \in DOMAIN files'
        PROVE  files'[Path(f)] = Whole(f)
    <3>1. Path(f) \in Named
      BY DEF Named
    <3> QED
      BY <2>1, <2>3, <3>1 DEF FileInv, NamedAreWhole
  <2> QED
    BY <2>2, <2>3 DEF NamedAreWhole
<1>6. ScratchHolds'
  <2> SUFFICES ASSUME NEW v \in Worker, InUse(work'[v]), work'[v].scratch \in DOMAIN files'
               PROVE  files'[work'[v].scratch] = Content(work'[v])
    BY DEF ScratchHolds, InUse, Content
  <2>1. CASE v = w
    <3>1. files[s] = Content(work[w]) /\ s \in DOMAIN files
      BY <1>3, <1>4, <2>1 DEF FileInv, ScratchHolds
    <3> QED
      BY <1>3, <1>4, <2>1, <3>1
  <2>2. CASE v # w
    <3>1. work'[v] = work[v]
      BY <1>4, <2>2
    <3>2. HasScratch(work[v])
      BY <3>1 DEF InUse, HasScratch
    <3>3. work[v].scratch # s
      BY <1>1, <2>2, <3>2 DEF FileInv, ScratchApart
    <3>4. files[work[v].scratch] = Content(work[v])
      BY <1>3, <3>1 DEF FileInv, ScratchHolds
    <3> QED
      BY <1>3, <3>1, <3>3, <3>4
  <2> QED
    BY <2>1, <2>2
<1>7. AckedThere'
  BY <1>3 DEF FileInv, AckedThere
<1> QED
  BY <1>4, <1>5, <1>6, <1>7 DEF FileInv

(* A call creates its scratch file.                                        *)
LEMMA CreateStep ==
    ASSUME FileInv,
           NEW w \in Worker, NEW job \in WorkState, JobOK(job), InUse(job),
           work' = [work EXCEPT ![w] = job],
           job.scratch \notin Scratches \union Named,
           Content(job) = <<>>,
           Create(job.scratch),
           UNCHANGED <<dirs, acked>>
    PROVE  FileInv'
<1> DEFINE s == job.scratch
<1>1. HasScratch(job) /\ job.at # "removeAll"
  BY DEF HasScratch, InUse
<1>2. s \notin Named
  OBVIOUS
<1>3. ASSUME NEW v \in Worker, HasScratch(work[v]) PROVE work[v].scratch # s
  <2>1. "scratch" \in DOMAIN work[v]
    BY <1>3, Domains DEF FileInv, TypeInv
  <2>2. work[v].scratch \in Scratches
    BY <2>1 DEF Scratches
  <2> QED
    BY <2>2
<1>4. /\ DOMAIN files' = DOMAIN files \union {s}
      /\ \A p \in DOMAIN files : p # s => files'[p] = files[p]
      /\ files'[s] = <<>>
      /\ files' = [p \in DOMAIN files' |-> files'[p]]
  BY DEF Create
<1>5. /\ TypeInv' /\ JobsOK' /\ ScratchApart' /\ AckedSpared'
      /\ \A v \in Worker : work'[v] = IF v = w THEN job ELSE work[v]
  <2>1. dirs' \subseteq Seq(Name) /\ acked' \subseteq File \X Parts
    BY DEF FileInv, TypeInv
  <2>2. \A v \in Worker \ {w} : Spares(work[v], acked')
    BY DEF FileInv, AckedSpared
  <2>3. Spares(job, acked')
    BY <1>1 DEF Spares
  <2>4. \A v \in Worker \ {w} : HasScratch(work[v]) => work[v].scratch # job.scratch
    BY <1>3
  <2>5. files' = [p \in DOMAIN files' |-> files'[p]]
    BY <1>4
  <2> QED
    BY <2>1, <2>2, <2>3, <2>4, <2>5, JobStep DEF FileInv
<1>6. NamedAreWhole'
  <2>1. \A p \in Named : p \in DOMAIN files' => p \in DOMAIN files /\ files'[p] = files[p]
    BY <1>2, <1>4
  <2> HIDE DEF s
  <2>2. ASSUME NEW f \in File, NEW p \in Parts, TempPath(f, p) \in DOMAIN files'
        PROVE  files'[TempPath(f, p)] = Part(f, p)
    <3>1. TempPath(f, p) \in Named
      BY DEF Named
    <3> QED
      BY <2>1, <2>2, <3>1 DEF FileInv, NamedAreWhole
  <2>3. ASSUME NEW f \in File, Path(f) \in DOMAIN files'
        PROVE  files'[Path(f)] = Whole(f)
    <3>1. Path(f) \in Named
      BY DEF Named
    <3> QED
      BY <2>1, <2>3, <3>1 DEF FileInv, NamedAreWhole
  <2> QED
    BY <2>2, <2>3 DEF NamedAreWhole
<1>7. ScratchHolds'
  <2> SUFFICES ASSUME NEW v \in Worker, InUse(work'[v]), work'[v].scratch \in DOMAIN files'
               PROVE  files'[work'[v].scratch] = Content(work'[v])
    BY DEF ScratchHolds, InUse, Content
  <2>1. CASE v = w
    BY <1>4, <1>5, <2>1
  <2>2. CASE v # w
    <3>1. work'[v] = work[v]
      BY <1>5, <2>2
    <3>2. HasScratch(work[v])
      BY <3>1 DEF InUse, HasScratch
    <3>3. work[v].scratch # s
      BY <1>3, <3>2
    <3>4. files[work[v].scratch] = Content(work[v]) /\ work[v].scratch \in DOMAIN files
      BY <1>4, <3>1, <3>3 DEF FileInv, ScratchHolds
    <3> QED
      BY <1>4, <3>1, <3>3, <3>4
  <2> QED
    BY <2>1, <2>2
<1>8. AckedThere'
  BY <1>4 DEF FileInv, AckedThere
<1> QED
  BY <1>5, <1>6, <1>7, <1>8 DEF FileInv

(* A call renames its scratch file and has none any more.                  *)
LEMMA RenameStep ==
    ASSUME FileInv,
           NEW w \in Worker, work[w].at = "rename",
           NEW job \in WorkState, JobOK(job), ~ HasScratch(job),
           work' = [work EXCEPT ![w] = job],
           CanRename(work[w].scratch, Target(w)), Rename(work[w].scratch, Target(w)),
           UNCHANGED dirs,
           acked' \subseteq File \X Parts,
           \A a \in acked' : TempPath(a[1], a[2]) = Target(w) \/ a \in acked,
           \A v \in Worker \ {w} : Spares(work[v], acked'),
           Spares(job, acked')
    PROVE  FileInv'
<1> DEFINE s == work[w].scratch
           t == JobTarget(work[w])
<1>1. /\ HasScratch(work[w]) /\ InUse(work[w])
      /\ work[w] \in Scratched /\ s \notin Named
  <2>1. HasScratch(work[w]) /\ InUse(work[w])
    BY DEF HasScratch, InUse
  <2> QED
    BY <2>1, ScratchIsNotNamed
<1>2. t \in Named /\ Target(w) = t
  BY <1>1, TargetIsNamed, Targets
<1>3. ~ InUse(job)
  BY DEF InUse, HasScratch
<1>4. s \in DOMAIN files /\ files[s] = Content(work[w])
  BY <1>1 DEF CanRename, FileInv, ScratchHolds
<1>5. /\ DOMAIN files' = (DOMAIN files \ {s}) \union {t}
      /\ \A p \in DOMAIN files' : p # t => files'[p] = files[p]
      /\ files'[t] = files[s]
      /\ files' = [p \in DOMAIN files' |-> files'[p]]
  BY <1>2 DEF Rename
<1> HIDE DEF s, t
<1>6. /\ TypeInv' /\ JobsOK' /\ ScratchApart' /\ AckedSpared'
      /\ \A v \in Worker : work'[v] = IF v = w THEN job ELSE work[v]
  <2>1. dirs' \subseteq Seq(Name)
    BY DEF FileInv, TypeInv
  <2> QED
    BY <1>5, <2>1, JobStep DEF FileInv
<1>7. work[w].call \in Calls /\ work[w].file \in File /\ work[w].part \in Parts
  BY <1>1 DEF Scratched
<1>8. NamedAreWhole'
  <2>1. ASSUME NEW f \in File, NEW p \in Parts, TempPath(f, p) \in DOMAIN files'
        PROVE  files'[TempPath(f, p)] = Part(f, p)
    <3>1. CASE TempPath(f, p) # t
      BY <1>5, <2>1, <3>1 DEF FileInv, NamedAreWhole
    <3>2. CASE TempPath(f, p) = t
      <4>1. work[w].call = "upload" /\ t = TempPath(work[w].file, work[w].part)
        BY <1>7, <3>2, NotInTemp DEF t, JobTarget
      <4>2. f = work[w].file /\ p = work[w].part
        BY <1>7, <3>2, <4>1, TempPathsDistinct
      <4>3. Content(work[w]) = Part(f, p)
        BY <4>1, <4>2 DEF Content
      <4> QED
        BY <1>4, <1>5, <3>2, <4>3
    <3> QED
      BY <3>1, <3>2
  <2>2. ASSUME NEW f \in File, Path(f) \in DOMAIN files'
        PROVE  files'[Path(f)] = Whole(f)
    <3>1. CASE Path(f) # t
      BY <1>5, <2>2, <3>1 DEF FileInv, NamedAreWhole
    <3>2. CASE Path(f) = t
      <4>1. work[w].call # "upload" /\ t = Path(work[w].file)
        BY <1>7, <3>2, NotInTemp DEF t, JobTarget
      <4>2. f = work[w].file
        BY <1>7, <3>2, <4>1, PathsDistinct
      <4>3. Content(work[w]) = Whole(f)
        BY <4>1, <4>2 DEF Content
      <4> QED
        BY <1>4, <1>5, <3>2, <4>3
    <3> QED
      BY <3>1, <3>2
  <2> QED
    BY <2>1, <2>2 DEF NamedAreWhole
<1>9. ScratchHolds'
  <2> SUFFICES ASSUME NEW v \in Worker, InUse(work'[v]), work'[v].scratch \in DOMAIN files'
               PROVE  files'[work'[v].scratch] = Content(work'[v])
    BY DEF ScratchHolds, InUse, Content
  <2>1. v # w /\ work'[v] = work[v]
    BY <1>3, <1>6
  <2>2. HasScratch(work[v])
    BY <2>1 DEF InUse, HasScratch
  <2>3. work[v].scratch # t
    BY <1>2, <2>2, ScratchIsNotNamed
  <2>4. files[work[v].scratch] = Content(work[v])
    BY <1>5, <2>1, <2>3 DEF FileInv, ScratchHolds
  <2> QED
    BY <1>5, <2>1, <2>3, <2>4
<1>10. AckedThere'
  <2> SUFFICES ASSUME NEW a \in acked' PROVE TempPath(a[1], a[2]) \in DOMAIN files'
    BY DEF AckedThere
  <2>1. a[1] \in File /\ a[2] \in Parts
    OBVIOUS
  <2>2. TempPath(a[1], a[2]) \in Named
    BY <2>1 DEF Named
  <2>3. CASE TempPath(a[1], a[2]) = t
    BY <1>5, <2>3
  <2>4. CASE a \in acked
    BY <1>1, <1>5, <2>2, <2>4 DEF FileInv, AckedThere, s
  <2> QED
    BY <1>2, <2>3, <2>4
<1> QED
  BY <1>6, <1>8, <1>9, <1>10 DEF FileInv

(* A call goes on and leaves the files alone.                              *)
LEMMA MoveStep ==
    ASSUME FileInv,
           NEW w \in Worker, NEW job \in WorkState, JobOK(job),
           work' = [work EXCEPT ![w] = job],
           HasScratch(job) => HasScratch(work[w]) /\ job.scratch = work[w].scratch,
           InUse(job) => InUse(work[w]) /\ Content(job) = Content(work[w]),
           dirs' \subseteq Seq(Name),
           UNCHANGED files,
           acked' \subseteq acked,
           Spares(job, acked')
    PROVE  FileInv'
<1> DEFINE S == {}
<1>1. files' = [p \in DOMAIN files \ S |-> files[p]]
  BY DEF FileInv, TypeInv
<1>2. \A a \in acked' : TempPath(a[1], a[2]) \notin S
  OBVIOUS
<1> HIDE DEF S
<1> QED
  BY <1>1, <1>2, QuietStep

LEMMA ReturnStep ==
    ASSUME FileInv, NEW w \in Worker, Return(w),
           dirs' \subseteq Seq(Name), UNCHANGED <<files, acked>>
    PROVE  FileInv'
<1>1. work' = [work EXCEPT ![w] = Idle]
  BY DEF Return
<1>2. Idle \in WorkState /\ JobOK(Idle) /\ ~ HasScratch(Idle) /\ ~ InUse(Idle)
  BY IdleJob
<1>3. Spares(Idle, acked')
  BY IdleJob DEF Spares
<1> QED
  BY <1>1, <1>2, <1>3, MoveStep

LEMMA Unmoved ==
    ASSUME FileInv, NEW w \in Worker, UNCHANGED work
    PROVE  /\ work' = [work EXCEPT ![w] = work[w]]
           /\ work[w] \in WorkState /\ JobOK(work[w]) /\ Spares(work[w], acked)
BY DEF FileInv, TypeInv, JobsOK, AckedSpared

(* A call goes to another stage.                                           *)
LEMMA ScratchedMoves ==
    ASSUME NEW job \in Scratched, JobOK(job), NEW stage \in {"copy", "rename", "remove"}
    PROVE  LET j == [job EXCEPT !.at = stage]
           IN  /\ j \in Scratched /\ j \in WorkState /\ JobOK(j)
               /\ j.at = stage /\ j.call = job.call /\ j.file = job.file /\ j.part = job.part
               /\ j.scratch = job.scratch
<1> DEFINE j == [job EXCEPT !.at = stage]
<1>1. /\ j \in Scratched
      /\ j.at = stage /\ j.call = job.call /\ j.file = job.file /\ j.part = job.part
      /\ j.scratch = job.scratch
  BY DEF Scratched
<1>2. HasScratch(job)
  BY DEF Scratched, HasScratch
<1> HIDE DEF j
<1>3. JobTarget(j) = JobTarget(job)
  BY <1>1 DEF JobTarget
<1>4. JobOK(j)
  BY <1>1, <1>2, <1>3 DEF JobOK
<1>5. j \in WorkState
  BY <1>1 DEF WorkState
<1> QED
  BY <1>1, <1>4, <1>5 DEF j

LEMMA GoesTo ==
    ASSUME FileInv, NEW w \in Worker, HasScratch(work[w]), NEW stage, Goto(w, stage)
    PROVE  /\ work[w] \in Scratched /\ JobOK(work[w])
           /\ work' = [work EXCEPT ![w] = [work[w] EXCEPT !.at = stage]]
<1>1. work[w] \in Scratched
  BY ScratchIsNotNamed
<1>2. JobOK(work[w])
  BY DEF FileInv, JobsOK
<1>3. work \in [Worker -> WorkState]
  BY DEF FileInv, TypeInv
<1>4. work' = [work EXCEPT ![w] = [work[w] EXCEPT !.at = stage]]
  BY <1>3 DEF Goto
<1> QED
  BY <1>1, <1>2, <1>4

(* The call has failed: what was written is removed.                       *)
LEMMA RemoveStep ==
    ASSUME FileInv, NEW w \in Worker, HasScratch(work[w]), Goto(w, "remove"), UNCHANGED <<dirs, files, acked>>
    PROVE  FileInv'
<1> DEFINE j == [work[w] EXCEPT !.at = "remove"]
<1>1. /\ work[w] \in Scratched /\ JobOK(work[w]) /\ work' = [work EXCEPT ![w] = j]
  BY GoesTo
<1>2. j \in WorkState /\ JobOK(j) /\ j.at = "remove" /\ j.scratch = work[w].scratch
  BY <1>1, ScratchedMoves
<1> HIDE DEF j
<1>3. ~ InUse(j) /\ Spares(j, acked')
  BY <1>2 DEF InUse, Spares
<1>4. dirs' \subseteq Seq(Name)
  BY DEF FileInv, TypeInv
<1> QED
  BY <1>1, <1>2, <1>3, <1>4, MoveStep

LEMMA MkdirAllTypes ==
    ASSUME FileInv, NEW path \in Seq(Name), MkdirAll(path)
    PROVE  dirs' \subseteq Seq(Name)
<1>1. \A n \in 1 .. Len(path) : SubSeq(path, 1, n) \in Seq(Name)
  OBVIOUS
<1> QED
  BY <1>1 DEF MkdirAll, FileInv, TypeInv

LEMMA StartUploadStep ==
    ASSUME FileInv, NEW w \in Worker, NEW f \in File, StartUpload(w, f)
    PROVE  FileInv'
<1>1. dirs' \subseteq Seq(Name)
  BY TempDirForm, MkdirAllTypes DEF StartUpload
<1>2. UNCHANGED <<files, work, acked>>
  BY DEF StartUpload
<1> QED
  BY <1>1, <1>2, Unmoved, MoveStep

LEMMA FinalizeUploadStep ==
    ASSUME FileInv, NEW w \in Worker, NEW f \in File, FinalizeUpload(w, f)
    PROVE  FileInv'
<1> DEFINE j == [at |-> "mkdir", call |-> "finalize", file |-> f, part |-> 0]
<1>1. 0 \in Parts
  BY PartCounts, PartsOfFile
<1>2. j \in WorkState
  BY <1>1 DEF WorkState, Begun, Calls
<1>3. JobOK(j) /\ ~ HasScratch(j) /\ ~ InUse(j) /\ Spares(j, acked')
  BY DEF JobOK, HasScratch, InUse, Spares
<1>4. /\ work' = [work EXCEPT ![w] = j] /\ UNCHANGED <<dirs, files, acked>>
  BY DEF FinalizeUpload
<1>5. dirs' \subseteq Seq(Name)
  BY <1>4 DEF FileInv, TypeInv
<1> HIDE DEF j
<1> QED
  BY <1>2, <1>3, <1>4, <1>5, MoveStep

LEMMA UploadPartStep ==
    ASSUME FileInv, NEW w \in Worker, NEW f \in File, NEW part \in Parts, UploadPart(w, f, part),
           UNCHANGED <<dirs, files, acked>>
    PROVE  FileInv'
<1> DEFINE j == [at |-> "mkdir", call |-> "upload", file |-> f, part |-> part]
<1>1. j \in WorkState
  BY DEF WorkState, Begun, Calls
<1>2. JobOK(j) /\ ~ HasScratch(j) /\ ~ InUse(j) /\ Spares(j, acked')
  BY DEF JobOK, HasScratch, InUse, Spares
<1>3. work' = [work EXCEPT ![w] = j]
  BY DEF UploadPart
<1>4. dirs' \subseteq Seq(Name)
  BY DEF FileInv, TypeInv
<1> HIDE DEF j
<1> QED
  BY <1>1, <1>2, <1>3, <1>4, MoveStep

LEMMA TargetDir ==
    ASSUME NEW job \in Begun
    PROVE  Dir(JobTarget(job)) \in Seq(Name)
<1>1. job.file \in File /\ job.part \in Parts
  BY DEF Begun
<1>2. Dir(TempPath(job.file, job.part)) \in Seq(Name) /\ Dir(Path(job.file)) \in Seq(Name)
  BY <1>1, TempPathStart, PathForm
<1> QED
  BY <1>2 DEF JobTarget

LEMMA MakeDirStep ==
    ASSUME FileInv, NEW w \in Worker, MakeDir(w)
    PROVE  FileInv'
<1> DEFINE j == [work[w] EXCEPT !.at = "create"]
<1>1. work[w] \in Begun /\ JobOK(work[w]) /\ work[w].at = "mkdir"
  BY JobForms DEF MakeDir, At, FileInv, TypeInv, JobsOK
<1>2. work' = [work EXCEPT ![w] = j] /\ UNCHANGED <<files, acked>>
  BY DEF MakeDir, Goto, FileInv, TypeInv
<1>3. j \in WorkState /\ j.at = "create" /\ j.call = work[w].call /\ j.part = work[w].part
  BY <1>1 DEF WorkState, Begun
<1>4. dirs' \subseteq Seq(Name)
  <2>1. MkdirAll(Dir(JobTarget(work[w])))
    BY Targets DEF MakeDir
  <2> QED
    BY <1>1, <2>1, TargetDir, MkdirAllTypes
<1> HIDE DEF j
<1>5. JobOK(j) /\ ~ HasScratch(j) /\ ~ InUse(j) /\ Spares(j, acked')
  BY <1>1, <1>3 DEF JobOK, HasScratch, InUse, Spares
<1> QED
  BY <1>2, <1>3, <1>4, <1>5, MoveStep

LEMMA CreateRefusedStep ==
    ASSUME FileInv, NEW w \in Worker, CreateRefused(w)
    PROVE  FileInv'
<1>1. Return(w) /\ UNCHANGED <<dirs, files, acked>>
  BY DEF CreateRefused
<1>2. dirs' \subseteq Seq(Name)
  BY <1>1 DEF FileInv, TypeInv
<1> QED
  BY <1>1, <1>2, ReturnStep

LEMMA CreateScratchStep ==
    ASSUME FileInv, NEW w \in Worker, CreateScratch(w)
    PROVE  FileInv'
<1>1. work[w] \in Begun /\ JobOK(work[w]) /\ work[w].at = "create"
  BY JobForms DEF CreateScratch, At, FileInv, TypeInv, JobsOK
<1> DEFINE t == JobTarget(work[w])
<1>2. PICK path \in NewScratch(t) :
        /\ Create(path)
        /\ work' = [work EXCEPT ![w] = [at |-> "copy", call |-> work[w].call, file |-> work[w].file,
                                        part |-> work[w].part, scratch |-> path]]
  BY Targets DEF CreateScratch
<1> DEFINE j == [at |-> "copy", call |-> work[w].call, file |-> work[w].file,
                 part |-> work[w].part, scratch |-> path]
<1>3. path \in Siblings(t) /\ path \notin Scratches
  BY <1>2 DEF NewScratch, Siblings
<1>4. path \in Seq(Name) /\ path \notin Named
  BY <1>1, <1>3, TargetIsNamed, SiblingsApart
<1>5. work[w].call \in Calls /\ work[w].file \in File /\ work[w].part \in Parts
  BY <1>1 DEF Begun
<1>6. /\ j \in WorkState
      /\ j.at = "copy" /\ j.call = work[w].call /\ j.file = work[w].file /\ j.part = work[w].part
      /\ j.scratch = path
  BY <1>4, <1>5 DEF WorkState, Scratched
<1>7. UNCHANGED <<dirs, acked>>
  BY DEF CreateScratch
<1>8. work' = [work EXCEPT ![w] = j]
  BY <1>2
<1> HIDE DEF j, t
<1>9. JobTarget(j) = t
  BY <1>6 DEF JobTarget, t
<1>10. JobOK(j) /\ InUse(j)
  BY <1>3, <1>6, <1>9 DEF JobOK, InUse, HasScratch
<1>11. Content(j) = <<>>
  <2>1. CASE work[w].call = "upload"
    BY <1>6, <2>1 DEF Content
  <2>2. CASE work[w].call = "finalize"
    <3>1. work[w].part = 0
      BY <1>1, <2>2 DEF JobOK
    <3>2. Content(j) = Bytes(work[w].file, 0, Together(work[w].file, 0))
      BY <1>6, <2>2, <3>1 DEF Content
    <3>3. Together(work[w].file, 0) = 0
      BY <1>5, PartSizes DEF Together
    <3> QED
      BY <1>5, <3>2, <3>3, BytesEmpty
  <2> QED
    BY <1>5, <2>1, <2>2 DEF Calls
<1> QED
  BY <1>2, <1>3, <1>4, <1>6, <1>7, <1>8, <1>10, <1>11, CreateStep

LEMMA CopyBodyStep ==
    ASSUME FileInv, NEW w \in Worker, CopyBody(w)
    PROVE  FileInv'
<1> DEFINE j == [work[w] EXCEPT !.at = "rename"]
           bytes == Part(work[w].file, work[w].part)
<1>1. HasScratch(work[w]) /\ InUse(work[w]) /\ work[w].at = "copy" /\ work[w].call = "upload"
  BY DEF CopyBody, At, HasScratch, InUse
<1>2. /\ work[w] \in Scratched /\ JobOK(work[w]) /\ work' = [work EXCEPT ![w] = j]
  BY <1>1, GoesTo DEF CopyBody
<1>3. /\ j \in WorkState /\ JobOK(j) /\ j.at = "rename" /\ j.scratch = work[w].scratch
      /\ j.call = "upload" /\ j.file = work[w].file /\ j.part = work[w].part
  BY <1>1, <1>2, ScratchedMoves
<1>4. Write(work[w].scratch, bytes) /\ UNCHANGED <<dirs, acked>>
  BY DEF CopyBody
<1> HIDE DEF j
<1>5. InUse(j)
  BY <1>3 DEF InUse
<1>6. Content(j) = Content(work[w]) \o bytes
  <2>1. Content(work[w]) = <<>> /\ Content(j) = bytes
    BY <1>1, <1>3 DEF Content
  <2>2. bytes \in Seq(File \X Nat)
    <3>1. work[w].file \in File /\ work[w].part \in Nat
      BY <1>2, PartsAreNumbers DEF Scratched
    <3>2. work[w].part * MaxPartSize(work[w].file) \in Nat /\ UploadPartLength(work[w].file, work[w].part) \in Nat
      BY <3>1, PartSizes, NextTogether
    <3> QED
      BY <3>1, <3>2, BytesType DEF Part
  <2> QED
    BY <2>1, <2>2, ConcatEmptySeq
<1> QED
  BY <1>1, <1>2, <1>3, <1>4, <1>5, <1>6, WriteStep

LEMMA CopyPartStep ==
    ASSUME FileInv, NEW w \in Worker, CopyPart(w)
    PROVE  FileInv'
<1> DEFINE f == work[w].file
           p == work[w].part
<1>1. HasScratch(work[w]) /\ InUse(work[w]) /\ work[w].at = "copy" /\ work[w].call = "finalize"
  BY DEF CopyPart, At, HasScratch, InUse
<1>2. work[w] \in Scratched /\ JobOK(work[w])
  BY <1>1, ScratchIsNotNamed DEF FileInv, JobsOK
<1>3. f \in File /\ p \in Parts /\ p \in Nat
  BY <1>2, PartsAreNumbers DEF Scratched
<1>4. Content(work[w]) = Bytes(f, 0, Together(f, p))
  BY <1>1 DEF Content
<1>5. UNCHANGED <<dirs, acked>> /\ dirs' \subseteq Seq(Name)
  BY DEF CopyPart, FileInv, TypeInv
<1>6. CASE p = PartCount(f) /\ Goto(w, "rename") /\ UNCHANGED files
  <2> DEFINE j == [work[w] EXCEPT !.at = "rename"]
  <2>1. work' = [work EXCEPT ![w] = j]
    BY <1>1, <1>6, GoesTo
  <2>2. /\ j \in WorkState /\ JobOK(j) /\ j.at = "rename" /\ j.scratch = work[w].scratch
        /\ j.call = "finalize" /\ j.file = f
    BY <1>1, <1>2, ScratchedMoves
  <2> HIDE DEF j
  <2>3. Content(j) = Whole(f)
    BY <2>2 DEF Content
  <2>4. Content(work[w]) = Whole(f)
    BY <1>3, <1>4, <1>6, PartCounts DEF Whole
  <2>5. Spares(j, acked')
    BY <2>2 DEF Spares
  <2> QED
    BY <1>1, <1>5, <1>6, <2>1, <2>2, <2>3, <2>4, <2>5, MoveStep
<1>7. CASE /\ p < PartCount(f)
           /\ TempPath(f, p) \in DOMAIN files
           /\ Write(work[w].scratch, files[TempPath(f, p)])
           /\ work' = [work EXCEPT ![w].part = @ + 1]
  <2> DEFINE j == [work[w] EXCEPT !.part = p + 1]
  <2>1. work' = [work EXCEPT ![w] = j]
    BY <1>2, <1>7
  <2>2. p + 1 \in Parts
    BY <1>3, <1>7, PartsOfFile, PartCounts
  <2>3. /\ j \in Scratched /\ j.at = "copy" /\ j.scratch = work[w].scratch
        /\ j.call = "finalize" /\ j.file = f /\ j.part = p + 1
    BY <1>1, <1>2, <2>2 DEF Scratched
  <2> HIDE DEF j
  <2>4. j \in WorkState /\ InUse(j)
    BY <2>3 DEF WorkState, InUse
  <2>5. JobOK(j)
    <3>1. JobTarget(j) = JobTarget(work[w])
      BY <1>1, <2>3 DEF JobTarget
    <3> QED
      BY <1>1, <1>2, <2>3, <3>1 DEF JobOK
  <2>6. files[TempPath(f, p)] = Part(f, p)
    BY <1>3, <1>7 DEF FileInv, NamedAreWhole
  <2>7. Content(j) = Content(work[w]) \o Part(f, p)
    <3>1. Content(j) = Bytes(f, 0, Together(f, p + 1))
      BY <2>3 DEF Content
    <3> QED
      BY <1>3, <1>4, <3>1, PartsTogether
  <2>8. Write(work[w].scratch, Part(f, p))
    BY <1>7, <2>6
  <2> QED
    BY <1>1, <1>5, <2>1, <2>3, <2>4, <2>5, <2>7, <2>8, WriteStep
<1>8. CASE Goto(w, "remove") /\ UNCHANGED files
  BY <1>1, <1>5, <1>8, RemoveStep
<1> QED
  BY <1>6, <1>7, <1>8 DEF CopyPart

LEMMA RefuseBodyStep ==
    ASSUME FileInv, NEW w \in Worker, RefuseBody(w)
    PROVE  FileInv'
<1>1. HasScratch(work[w]) /\ Goto(w, "remove") /\ UNCHANGED <<dirs, files, acked>>
  BY DEF RefuseBody, At, HasScratch
<1> QED
  BY <1>1, RemoveStep

LEMMA RenameRefusedStep ==
    ASSUME FileInv, NEW w \in Worker, RenameRefused(w)
    PROVE  FileInv'
<1>1. HasScratch(work[w]) /\ Goto(w, "remove") /\ UNCHANGED <<dirs, files, acked>>
  BY DEF RenameRefused, At, HasScratch
<1> QED
  BY <1>1, RemoveStep

LEMMA RenamePartStep ==
    ASSUME FileInv, NEW w \in Worker, RenamePart(w)
    PROVE  FileInv'
<1> DEFINE f == work[w].file
           p == work[w].part
<1>1. work[w].at = "rename" /\ work[w].call = "upload"
  BY DEF RenamePart, At
<1>2. work[w] \in Scratched /\ f \in File /\ p \in Parts
  <2>1. HasScratch(work[w])
    BY <1>1 DEF HasScratch
  <2>2. work[w] \in Scratched
    BY <2>1, ScratchIsNotNamed
  <2> QED
    BY <2>2 DEF Scratched
<1>3. Target(w) = TempPath(f, p)
  BY <1>1 DEF Target
<1>4. /\ CanRename(work[w].scratch, Target(w)) /\ Rename(work[w].scratch, Target(w))
      /\ work' = [work EXCEPT ![w] = Idle] /\ UNCHANGED dirs
      /\ acked' = IF Removing(Target(w)) THEN acked ELSE acked \union {<<f, p>>}
  BY DEF RenamePart, Return
<1>5. acked' \subseteq File \X Parts
  BY <1>2, <1>4 DEF FileInv, TypeInv
<1>6. ASSUME NEW a \in acked' PROVE TempPath(a[1], a[2]) = Target(w) \/ a \in acked
  <2>1. a \in acked \/ a = <<f, p>>
    BY <1>4
  <2>2. a = <<f, p>> => a[1] = f /\ a[2] = p
    OBVIOUS
  <2> QED
    BY <1>3, <2>1, <2>2
<1>7. ASSUME NEW v \in Worker \ {w} PROVE Spares(work[v], acked')
  <2> SUFFICES ASSUME work[v].at = "removeAll", NEW tree \in work[v].trees, NEW a \in acked',
                      HasPrefix(TempPath(a[1], a[2]), tree)
               PROVE  FALSE
    BY DEF Spares
  <2>1. a \notin acked
    BY DEF FileInv, AckedSpared, Spares
  <2>2. TempPath(a[1], a[2]) = Target(w) /\ ~ Removing(Target(w))
    BY <1>4, <1>6, <2>1
  <2> QED
    BY <2>2 DEF Removing, At
<1>8. Idle \in WorkState /\ JobOK(Idle) /\ ~ HasScratch(Idle) /\ Spares(Idle, acked')
  BY IdleJob DEF Spares
<1> QED
  BY <1>1, <1>4, <1>5, <1>6, <1>7, <1>8, RenameStep

LEMMA RenameFileStep ==
    ASSUME FileInv, NEW w \in Worker, RenameFile(w)
    PROVE  FileInv'
<1> DEFINE f == work[w].file
           j == [at |-> "removeAll", trees |-> {TempDir(f)}]
<1>1. work[w].at = "rename" /\ work[w].call = "finalize"
  BY DEF RenameFile, At
<1>2. work[w] \in Scratched /\ f \in File
  <2>1. HasScratch(work[w])
    BY <1>1 DEF HasScratch
  <2>2. work[w] \in Scratched
    BY <2>1, ScratchIsNotNamed
  <2> QED
    BY <2>2 DEF Scratched
<1>3. /\ CanRename(work[w].scratch, Target(w)) /\ Rename(work[w].scratch, Target(w))
      /\ work' = [work EXCEPT ![w] = j] /\ UNCHANGED dirs
      /\ acked' = {a \in acked : a[1] # f}
  BY DEF RenameFile
<1>4. acked' \subseteq File \X Parts /\ acked' \subseteq acked
  BY <1>3 DEF FileInv, TypeInv
<1>5. ASSUME NEW v \in Worker \ {w} PROVE Spares(work[v], acked')
  BY <1>4 DEF FileInv, AckedSpared, Spares
<1>6. TempDir(f) \in Seq(Name)
  BY <1>2, TempDirForm
<1>7. j \in WorkState /\ j.at = "removeAll" /\ j.trees = {TempDir(f)}
  BY <1>6 DEF WorkState, Remover
<1> HIDE DEF j
<1>8. JobOK(j) /\ ~ HasScratch(j)
  BY <1>7 DEF JobOK, HasScratch
<1>9. Spares(j, acked')
  <2> SUFFICES ASSUME NEW a \in acked', HasPrefix(TempPath(a[1], a[2]), TempDir(f)) PROVE FALSE
    BY <1>7 DEF Spares
  <2>1. a[1] \in File /\ a[2] \in Parts
    BY <1>4
  <2>2. a[1] = f
    BY <1>2, <2>1, TempDirsApart
  <2> QED
    BY <1>3, <2>2
<1> QED
  BY <1>1, <1>3, <1>4, <1>5, <1>7, <1>8, <1>9, RenameStep

(* A file is removed that no acknowledged part has.                        *)
LEMMA RemovedStep ==
    ASSUME FileInv, NEW w \in Worker, NEW job \in {Idle, work[w]}, work' = [work EXCEPT ![w] = job],
           NEW S, files' = Without(S), UNCHANGED <<dirs, acked>>,
           \A a \in acked : TempPath(a[1], a[2]) \notin S
    PROVE  FileInv'
<1>1. job \in WorkState /\ JobOK(job) /\ Spares(job, acked')
  BY IdleJob DEF FileInv, TypeInv, JobsOK, AckedSpared, Spares
<1>2. /\ HasScratch(job) => HasScratch(work[w]) /\ job.scratch = work[w].scratch
      /\ InUse(job) => InUse(work[w]) /\ Content(job) = Content(work[w])
  BY IdleJob
<1>3. dirs' \subseteq Seq(Name)
  BY DEF FileInv, TypeInv
<1>4. files' = [p \in DOMAIN files \ S |-> files[p]]
  BY DEF Without
<1> QED
  BY <1>1, <1>2, <1>3, <1>4, QuietStep

LEMMA RemoveScratchStep ==
    ASSUME FileInv, NEW w \in Worker, RemoveScratch(w)
    PROVE  FileInv'
<1> DEFINE S == {work[w].scratch}
<1>1. files' = Without(S) /\ work' = [work EXCEPT ![w] = Idle] /\ UNCHANGED <<dirs, acked>>
  BY DEF RemoveScratch, Remove, Return
<1>2. work[w].scratch \notin Named
  BY ScratchIsNotNamed DEF RemoveScratch, At, HasScratch
<1>3. ASSUME NEW a \in acked PROVE TempPath(a[1], a[2]) \notin S
  BY <1>2, AckedNamed DEF FileInv
<1> HIDE DEF S
<1> QED
  BY <1>1, <1>3, RemovedStep

LEMMA DeleteFileStep ==
    ASSUME FileInv, NEW w \in Worker, NEW f \in File, DeleteFile(w, f)
    PROVE  FileInv'
<1> DEFINE S == {Path(f)}
<1>1. files' = Without(S) /\ UNCHANGED <<dirs, acked, work>>
  BY DEF DeleteFile, Remove
<1>2. work' = [work EXCEPT ![w] = work[w]]
  BY <1>1, Unmoved
<1>3. ASSUME NEW a \in acked PROVE TempPath(a[1], a[2]) \notin S
  BY AckedNamed, NotInTemp DEF FileInv
<1> HIDE DEF S
<1> QED
  BY <1>1, <1>2, <1>3, RemovedStep

(* A removal begins, of trees that no acknowledged part is in.             *)
LEMMA RemovalStep ==
    ASSUME FileInv, NEW w \in Worker, NEW j \in Remover,
           work' = [work EXCEPT ![w] = j],
           UNCHANGED <<dirs, files>>, acked' \subseteq acked,
           \A tree \in j.trees : \A a \in acked' : ~ HasPrefix(TempPath(a[1], a[2]), tree)
    PROVE  FileInv'
<1>1. j \in WorkState /\ j.at = "removeAll"
  BY DEF WorkState, Remover
<1>2. JobOK(j) /\ ~ HasScratch(j) /\ ~ InUse(j)
  BY <1>1 DEF JobOK, HasScratch, InUse
<1>3. Spares(j, acked')
  BY DEF Spares
<1>4. dirs' \subseteq Seq(Name)
  BY DEF FileInv, TypeInv
<1> QED
  BY <1>1, <1>2, <1>3, <1>4, MoveStep

LEMMA RemoverOf ==
    ASSUME NEW trees \in SUBSET Seq(Name)
    PROVE  LET j == [at |-> "removeAll", trees |-> trees] IN j \in Remover /\ j.trees = trees
BY DEF Remover

LEMMA DeleteStep ==
    ASSUME FileInv, NEW w \in Worker, NEW prefix \in Prefixes, Delete(w, prefix)
    PROVE  FileInv'
<1> DEFINE trees == {BASE_DIR \o prefix}
<1>1. trees \in SUBSET Seq(Name)
  BY BaseTree
<1>2. work' = [work EXCEPT ![w] = [at |-> "removeAll", trees |-> trees]] /\ UNCHANGED <<dirs, files, acked>>
  BY DEF Delete
<1>3. ASSUME NEW tree \in trees, NEW a \in acked' PROVE ~ HasPrefix(TempPath(a[1], a[2]), tree)
  <2>1. a[1] \in File /\ a[2] \in Parts
    BY <1>2, AckedNamed DEF FileInv
  <2> QED
    BY <2>1, BaseTree
<1> HIDE DEF trees
<1> QED
  BY <1>1, <1>2, <1>3, RemoverOf, RemovalStep

LEMMA DeleteTempStep ==
    ASSUME FileInv, NEW w \in Worker, NEW toDate \in 1 .. MaxDate, DeleteTemp(w, toDate)
    PROVE  FileInv'
<1> DEFINE days  == {d \in 0 .. MaxDate : d < toDate}
           trees == {p \in dirs : Dir(p) = TEMP_DIR /\ \E d \in days : Base(p) = AsNumber(d)}
<1>1. trees \in SUBSET Seq(Name) /\ \A tree \in trees : Dir(tree) = TEMP_DIR
  BY DEF FileInv, TypeInv
<1>2. /\ work' = [work EXCEPT ![w] = [at |-> "removeAll", trees |-> trees]]
      /\ acked' = {a \in acked : \A tree \in trees : ~ HasPrefix(TempDir(a[1]), tree)}
      /\ UNCHANGED <<dirs, files>>
  BY DEF DeleteTemp
<1> HIDE DEF trees
<1>3. ASSUME NEW tree \in trees, NEW a \in acked' PROVE ~ HasPrefix(TempPath(a[1], a[2]), tree)
  <2>1. a[1] \in File /\ a[2] \in Parts
    BY <1>2, AckedNamed DEF FileInv
  <2>2. ~ HasPrefix(TempDir(a[1]), tree)
    BY <1>2
  <2> QED
    BY <1>1, <2>1, <2>2, DayTree
<1> QED
  BY <1>1, <1>2, <1>3, RemoverOf, RemovalStep

(* One tree less.                                                          *)
LEMMA LessTreesStep ==
    ASSUME FileInv, NEW w \in Worker, work[w].at = "removeAll", NEW tree,
           work' = [work EXCEPT ![w].trees = @ \ {tree}],
           UNCHANGED <<dirs, files, acked>>
    PROVE  FileInv'
<1> DEFINE j == [work[w] EXCEPT !.trees = @ \ {tree}]
<1>1. work[w] \in Remover
  BY JobForms DEF FileInv, TypeInv
<1>2. j \in Remover /\ j.trees \subseteq work[w].trees
  BY <1>1 DEF Remover
<1>3. work' = [work EXCEPT ![w] = j]
  BY DEF FileInv, TypeInv
<1>4. \A t \in work[w].trees : \A a \in acked' : ~ HasPrefix(TempPath(a[1], a[2]), t)
  BY DEF FileInv, AckedSpared, Spares
<1> HIDE DEF j
<1> QED
  BY <1>2, <1>3, <1>4, RemovalStep

LEMMA RemoveNextStep ==
    ASSUME FileInv, NEW w \in Worker, RemoveNext(w)
    PROVE  FileInv'
<1>1. PICK tree \in work[w].trees :
        \/ Tree(tree) # {} /\ RemoveSome(tree) /\ UNCHANGED work
        \/ /\ Tree(tree) = {}
           /\ work' = [work EXCEPT ![w].trees = @ \ {tree}]
           /\ UNCHANGED <<dirs, files>>
  BY DEF RemoveNext
<1>2. work[w].at = "removeAll" /\ UNCHANGED acked
  BY DEF RemoveNext, At
<1>3. CASE UNCHANGED work /\ UNCHANGED dirs /\ \E p \in Tree(tree) \intersect DOMAIN files : files' = Without({p})
  <2>1. PICK p \in Tree(tree) : files' = Without({p})
    BY <1>3
  <2>2. HasPrefix(p, tree)
    BY DEF Tree
  <2> DEFINE S == {p}
  <2>3. ASSUME NEW a \in acked PROVE TempPath(a[1], a[2]) \notin S
    BY <1>2, <2>2 DEF FileInv, AckedSpared, Spares
  <2>4. work' = [work EXCEPT ![w] = work[w]]
    BY <1>3, Unmoved
  <2>5. files' = Without(S)
    BY <2>1
  <2> HIDE DEF S
  <2> QED
    BY <1>2, <1>3, <2>3, <2>4, <2>5, RemovedStep
<1>4. CASE UNCHANGED work /\ UNCHANGED files /\ dirs' = dirs \ Tree(tree)
  <2>1. dirs' \subseteq Seq(Name)
    BY <1>4 DEF FileInv, TypeInv
  <2> QED
    BY <1>2, <1>4, <2>1, Unmoved, MoveStep
<1>5. CASE work' = [work EXCEPT ![w].trees = @ \ {tree}] /\ UNCHANGED <<dirs, files>>
  BY <1>2, <1>5, LessTreesStep
<1> QED
  BY <1>1, <1>3, <1>4, <1>5 DEF RemoveSome

LEMMA RemoveDoneStep ==
    ASSUME FileInv, NEW w \in Worker, RemoveDone(w)
    PROVE  FileInv'
<1>1. Return(w) /\ UNCHANGED <<dirs, files, acked>>
  BY DEF RemoveDone
<1>2. dirs' \subseteq Seq(Name)
  BY <1>1 DEF FileInv, TypeInv
<1> QED
  BY <1>1, <1>2, ReturnStep

LEMMA CallFailsStep ==
    ASSUME FileInv, NEW w \in Worker, CallFails(w)
    PROVE  FileInv'
<1>1. UNCHANGED <<dirs, files, acked>> /\ dirs' \subseteq Seq(Name)
  BY DEF CallFails, FileInv, TypeInv
<1>2. CASE Return(w)
  BY <1>1, <1>2, ReturnStep
<1>3. CASE work[w].at \in {"copy", "rename"} /\ Goto(w, "remove")
  <2>1. HasScratch(work[w])
    BY <1>3 DEF HasScratch
  <2> QED
    BY <1>1, <1>3, <2>1, RemoveStep
<1>4. CASE At(w, "removeAll") /\ \E tree \in work[w].trees : work' = [work EXCEPT ![w].trees = @ \ {tree}]
  BY <1>1, <1>4, LessTreesStep DEF At
<1> QED
  BY <1>2, <1>3, <1>4 DEF CallFails

LEMMA CrashStep ==
    ASSUME FileInv, Crash
    PROVE  FileInv'
<1>1. /\ work' = [w \in Worker |-> Idle]
      /\ files' = [p \in DOMAIN files \ Scratches |-> files[p]]
      /\ UNCHANGED <<dirs, acked>>
  BY DEF Crash, Without
<1>2. \A w \in Worker : work'[w] = Idle
  BY <1>1
<1>3. /\ DOMAIN files' = DOMAIN files \ Scratches
      /\ \A p \in DOMAIN files' : files'[p] = files[p]
      /\ files' = [p \in DOMAIN files' |-> files'[p]]
  BY <1>1
<1>4. TypeInv'
  BY <1>1, <1>3, IdleJob DEF FileInv, TypeInv
<1>5. JobsOK' /\ ScratchApart' /\ ScratchHolds' /\ AckedSpared'
  BY <1>2 DEF JobsOK, JobOK, ScratchApart, ScratchHolds, AckedSpared, Spares, HasScratch, InUse, Idle
<1>6. NamedAreWhole'
  BY <1>3 DEF FileInv, NamedAreWhole
<1>7. AckedThere'
  <2> SUFFICES ASSUME NEW a \in acked PROVE TempPath(a[1], a[2]) \in DOMAIN files'
    BY <1>1 DEF AckedThere
  <2>1. TempPath(a[1], a[2]) \in Named /\ TempPath(a[1], a[2]) \in DOMAIN files
    BY AckedNamed DEF FileInv, AckedThere
  <2>2. ASSUME NEW w \in Worker, "scratch" \in DOMAIN work[w] PROVE work[w].scratch \notin Named
    <3>1. HasScratch(work[w])
      BY <2>2, Domains DEF FileInv, TypeInv
    <3> QED
      BY <3>1, ScratchIsNotNamed
  <2>3. TempPath(a[1], a[2]) \notin Scratches
    BY <2>1, <2>2 DEF Scratches
  <2> QED
    BY <1>3, <2>1, <2>3
<1> QED
  BY <1>4, <1>5, <1>6, <1>7 DEF FileInv

LEMMA RequestSteps ==
    ASSUME FileInv, NEW w \in Worker, RequestStep(w)
    PROVE  FileInv'
<1>1. ASSUME NEW f \in File, AcceptFetch(w, f) PROVE FileInv'
  <2>1. PICK found \in File :
          /\ Exists(found)
          /\ work' = [work EXCEPT ![w] = [at |-> "answered", file |-> found, source |-> files[Path(found)]]]
    BY <1>1 DEF AcceptFetch, Arrives
  <2>2. UNCHANGED <<dirs, files, acked>> /\ dirs' \subseteq Seq(Name)
    BY <1>1 DEF AcceptFetch, FileInv, TypeInv
  <2> DEFINE j == [at |-> "answered", file |-> found, source |-> files[Path(found)]]
  <2>3. files[Path(found)] = Whole(found)
    BY <2>1 DEF Exists, FileInv, NamedAreWhole
  <2>4. j \in WorkState
    BY <2>3 DEF WorkState, Answering
  <2>5. JobOK(j) /\ ~ HasScratch(j) /\ ~ InUse(j) /\ Spares(j, acked')
    BY <2>3 DEF JobOK, HasScratch, InUse, Spares
  <2>6. work' = [work EXCEPT ![w] = j]
    BY <2>1
  <2> HIDE DEF j
  <2> QED
    BY <2>2, <2>4, <2>5, <2>6, MoveStep
<1>2. ASSUME NEW f \in File, NEW part \in 0 .. PartCount(f) - 1, AcceptUpload(w, f, part) PROVE FileInv'
  <2>1. PICK found \in File : UploadPart(w, found, part)
    BY <1>2 DEF AcceptUpload, Arrives
  <2>2. UNCHANGED <<dirs, files, acked>>
    BY <1>2 DEF AcceptUpload
  <2>3. part \in Parts
    BY PartCounts, PartsOfFile
  <2> QED
    BY <2>1, <2>2, <2>3, UploadPartStep
<1>3. CASE Received(w)
  <2>1. Return(w) /\ UNCHANGED <<dirs, files, acked>> /\ dirs' \subseteq Seq(Name)
    BY <1>3 DEF Received, FileInv, TypeInv
  <2> QED
    BY <2>1, ReturnStep
<1> QED
  BY <1>1, <1>2, <1>3 DEF RequestStep

LEMMA StorageSteps ==
    ASSUME FileInv, NEW w \in Worker, StorageStep(w)
    PROVE  FileInv'
<1>1. CASE \E f \in File : StartUpload(w, f) \/ FinalizeUpload(w, f) \/ DeleteFile(w, f)
  BY <1>1, StartUploadStep, FinalizeUploadStep, DeleteFileStep
<1>2. CASE \E prefix \in Prefixes : Delete(w, prefix)
  BY <1>2, DeleteStep
<1>3. CASE \E toDate \in 1 .. MaxDate : DeleteTemp(w, toDate)
  BY <1>3, DeleteTempStep
<1>4. CASE MakeDir(w) \/ CreateScratch(w) \/ CreateRefused(w) \/ CopyBody(w) \/ RefuseBody(w)
  BY <1>4, MakeDirStep, CreateScratchStep, CreateRefusedStep, CopyBodyStep, RefuseBodyStep
<1>5. CASE CopyPart(w) \/ RenamePart(w) \/ RenameFile(w) \/ RenameRefused(w) \/ RemoveScratch(w)
  BY <1>5, CopyPartStep, RenamePartStep, RenameFileStep, RenameRefusedStep, RemoveScratchStep
<1>6. CASE RemoveNext(w) \/ RemoveDone(w) \/ CallFails(w)
  BY <1>6, RemoveNextStep, RemoveDoneStep, CallFailsStep
<1> QED
  BY <1>1, <1>2, <1>3, <1>4, <1>5, <1>6 DEF StorageStep

LEMMA FilesUnchanged ==
    ASSUME FileInv, UNCHANGED storageVars
    PROVE  FileInv'
<1>1. UNCHANGED <<dirs, files, work, acked>>
  BY DEF storageVars
<1> QED
  BY <1>1 DEF FileInv, TypeInv, JobsOK, JobOK, ScratchApart, NamedAreWhole, ScratchHolds, AckedThere, AckedSpared,
              Spares, HasScratch, InUse, Content

LEMMA FileInit ==
    ASSUME Init
    PROVE  FileInv
<1>1. /\ dirs = {BASE_DIR, TEMP_DIR} /\ files = <<>>
      /\ work = [w \in Worker |-> Idle] /\ acked = {}
  BY DEF Init, StorageInit
<1>2. dirs \subseteq Seq(Name)
  <2>1. "base" \in Name /\ "temp" \in Name
    BY DEF Name
  <2> QED
    BY <1>1, <2>1 DEF BASE_DIR, TEMP_DIR
<1>3. files = [p \in DOMAIN files |-> files[p]] /\ DOMAIN files = {}
  BY <1>1
<1>4. TypeInv
  BY <1>1, <1>2, <1>3, IdleJob DEF TypeInv
<1>5. \A w \in Worker : work[w] = Idle
  BY <1>1
<1>6. JobsOK /\ ScratchApart /\ ScratchHolds /\ AckedSpared
  BY <1>5, IdleJob DEF JobsOK, ScratchApart, ScratchHolds, AckedSpared, Spares
<1>7. NamedAreWhole /\ AckedThere
  BY <1>1, <1>3 DEF NamedAreWhole, AckedThere
<1> QED
  BY <1>4, <1>6, <1>7 DEF FileInv

LEMMA FileNext ==
    ASSUME FileInv, [Next]_vars
    PROVE  FileInv'
<1>1. CASE UrlStep
  <2>1. UNCHANGED storageVars
    BY <1>1 DEF UrlStep, GetDownloadUrl, GetUploadUrls, IssueUrls, SignNext, Publish, Tick
  <2> QED
    BY <2>1, FilesUnchanged
<1>2. CASE Crash
  BY <1>2, CrashStep
<1>3. CASE \E w \in Worker : RequestStep(w) \/ StorageStep(w)
  BY <1>3, RequestSteps, StorageSteps
<1>4. CASE UNCHANGED vars
  BY <1>4, FilesUnchanged DEF vars
<1> QED
  BY <1>1, <1>2, <1>3, <1>4 DEF Next

LEMMA FilesAlways == Spec => []FileInv
<1>1. Init => FileInv
  BY FileInit
<1>2. FileInv /\ [Next]_vars => FileInv'
  BY FileNext
<1> QED
  BY <1>1, <1>2, PTL DEF Spec

(* A part whose upload was answered with success is there, whole, until    *)
(* its file is finalized or the temporary files of its day are deleted:    *)
(* whatever else is uploaded, refused, removed or fails meanwhile, and     *)
(* whatever crash comes between two calls of package os (UploadPart of     *)
(* filesystem_storage.go:139-201).                                         *)
THEOREM PartsAreKept == Spec => []AcknowledgedIsKept
<1>1. FileInv => AcknowledgedIsKept
  <2> SUFFICES ASSUME FileInv, NEW a \in acked
               PROVE  /\ TempPath(a[1], a[2]) \in DOMAIN files
                      /\ files[TempPath(a[1], a[2])] = Part(a[1], a[2])
    BY DEF AcknowledgedIsKept
  <2>1. a[1] \in File /\ a[2] \in Parts
    BY AckedNamed DEF FileInv
  <2>2. TempPath(a[1], a[2]) \in DOMAIN files
    BY DEF FileInv, AckedThere
  <2> QED
    BY <2>1, <2>2 DEF FileInv, NamedAreWhole
<1> QED
  BY <1>1, FilesAlways, PTL

-----------------------------------------------------------------------------
(* What is sent.                                                           *)

Bound == {Missing, NotANumber} \union Nat

(* A Range header is parsed into the bytes that it asks for.               *)
LEMMA RangeIsAsked ==
    ASSUME NEW n \in Nat, NEW start \in Bound, NEW end \in Bound
    PROVE  LET r == ParseRange(start, end, n)
               asked == Asked(ParseInt(start), ParseInt(end), n)
           IN  /\ r.length \in Nat
               /\ r.length = 0 => asked = {}
               /\ r.length # 0 => /\ r.offset \in Nat /\ r.offset + r.length <= n
                                  /\ asked = r.offset .. r.offset + r.length - 1
<1> DEFINE a == ParseInt(start)
           b == ParseInt(end)
           last == IF b >= n THEN n - 1 ELSE b
           offset == IF a # -1 THEN a ELSE IF n - b < 0 THEN 0 ELSE n - b
           length == IF a = -1 /\ b = -1 THEN 0
                     ELSE IF a = -1 \/ b = -1 THEN n - offset ELSE last - offset + 1
           size == IF offset < 0 \/ length <= 0 THEN 0 ELSE length
           asked == Asked(a, b, n)
<1>0. /\ a \in {-1} \union Nat /\ b \in {-1} \union Nat
      /\ start = Missing <=> a = -1
      /\ end = Missing <=> b = -1
  BY DEF ParseInt, Missing, NotANumber, Bound
<1>1. ParseRange(start, end, n) = [offset |-> offset, length |-> size]
  BY <1>0 DEF ParseRange
<1> HIDE DEF a, b
<1>2. asked = {k \in 0 .. n - 1 : IF a = -1 THEN b # -1 /\ k >= n - b
                                  ELSE k >= a /\ (b = -1 \/ k <= b)}
  BY DEF Asked, Missing
<1>3. size \in Nat
  BY <1>0
<1>4. ASSUME size = 0 PROVE asked = {}
  BY <1>0, <1>2, <1>4
<1>5. ASSUME size # 0 PROVE offset \in Nat /\ offset + size <= n /\ asked = offset .. offset + size - 1
  <2>1. offset \in Nat /\ offset + size <= n
    BY <1>0, <1>5
  <2>2. ASSUME NEW k PROVE k \in asked <=> k \in offset .. offset + size - 1
    BY <1>0, <1>2, <1>5
  <2> QED
    BY <2>1, <2>2
<1> HIDE DEF offset, size, asked
<1> QED
  BY <1>1, <1>3, <1>4, <1>5 DEF asked, a, b

LEMMA FetchBytes ==
    ASSUME NEW f \in File, NEW offset \in Nat, NEW length \in Nat, offset + length <= Info[f].size
    PROVE  FetchRange(Whole(f), offset, length) = Bytes(f, offset, length)
<1> DEFINE n == Info[f].size
           whole == Whole(f)
           S == File \X Nat
           b == Bytes(f, offset, length)
           c == SubSeq(whole, offset + 1, offset + length)
<1>1. n \in Nat
  BY FileUrlsAssumption
<1>2. whole \in Seq(S) /\ Len(whole) = n /\ \A k \in 1 .. n : whole[k] = <<f, 0 + k - 1>>
  BY <1>1, BytesType DEF Whole
<1>3. b \in Seq(S) /\ Len(b) = length /\ \A k \in 1 .. length : b[k] = <<f, offset + k - 1>>
  BY BytesType
<1>4. FetchRange(whole, offset, length) = c
  BY <1>1, <1>2 DEF FetchRange
<1>5. c \in Seq(S) /\ Len(c) = length
  <2> HIDE DEF whole, S
  <2>1. CASE length = 0
    <3>1. c = <<>>
      BY <1>1, <1>2, <2>1
    <3> QED
      BY <2>1, <3>1
  <2>2. CASE length # 0
    BY <1>1, <1>2, <2>2
  <2> QED
    BY <2>1, <2>2
<1>6. ASSUME NEW k \in 1 .. length PROVE c[k] = b[k]
  <2>1. offset + k \in 1 .. n
    BY <1>1
  <2>2. whole[offset + k] = <<f, 0 + (offset + k) - 1>>
    BY <1>2, <2>1
  <2> HIDE DEF whole, S
  <2>3. c[k] = whole[offset + k]
    BY <1>1, <1>2, <2>1
  <2>4. 0 + (offset + k) - 1 = offset + k - 1
    OBVIOUS
  <2> QED
    BY <1>3, <2>2, <2>3, <2>4
<1> HIDE DEF b, c, S
<1>7. c = b
  BY <1>3, <1>5, <1>6, SeqEqual
<1> QED
  BY <1>4, <1>7 DEF b

LEMMA AskedIsSent ==
    ASSUME NEW f \in File, NEW start \in Bound, NEW end \in Bound
    PROVE  LET asked == Asked(ParseInt(start), ParseInt(end), Info[f].size)
               first == CHOOSE k \in asked : \A j \in asked : k <= j
           IN  FetchData(f, Whole(f), start, end) = IF asked = {} THEN <<>> ELSE Bytes(f, first, Cardinality(asked))
<1> DEFINE n == Info[f].size
           r == ParseRange(start, end, n)
           asked == Asked(ParseInt(start), ParseInt(end), n)
           first == CHOOSE k \in asked : \A j \in asked : k <= j
<1>1. n \in Nat
  BY FileUrlsAssumption
<1>2. /\ r.length \in Nat
      /\ r.length = 0 => asked = {}
      /\ r.length # 0 => /\ r.offset \in Nat /\ r.offset + r.length <= n
                         /\ asked = r.offset .. r.offset + r.length - 1
  BY <1>1, RangeIsAsked
<1>3. FetchData(f, Whole(f), start, end) = IF r.length = 0 THEN <<>> ELSE FetchRange(Whole(f), r.offset, r.length)
  BY DEF FetchData
<1> HIDE DEF r, asked, n
<1>4. CASE r.length = 0
  BY <1>2, <1>3, <1>4 DEF asked, n
<1>5. CASE r.length # 0
  <2> DEFINE a == r.offset
             l == r.length
  <2>1. a \in Nat /\ l \in Nat /\ l # 0 /\ a + l <= n /\ asked = a .. a + l - 1
    BY <1>2, <1>5
  <2>2. FetchData(f, Whole(f), start, end) = Bytes(f, a, l)
    BY <1>3, <1>5, <2>1, FetchBytes DEF n
  <2> HIDE DEF a, l
  <2>3. asked # {} /\ a \in asked /\ \A j \in asked : a <= j
    BY <2>1
  <2>4. first = a
    <3>1. first \in asked /\ \A j \in asked : first <= j
      BY <2>3
    <3> HIDE DEF first
    <3> QED
      BY <2>1, <2>3, <3>1
  <2>5. Cardinality(asked) = l
    <3>1. a \in Int /\ a + l - 1 \in Int /\ ~ (a > a + l - 1) /\ (a + l - 1) - a + 1 = l
      BY <2>1
    <3>2. Cardinality(a .. a + l - 1) = IF a > a + l - 1 THEN 0 ELSE (a + l - 1) - a + 1
      BY <3>1, FS_Interval
    <3> QED
      BY <2>1, <3>1, <3>2
  <2> HIDE DEF first
  <2>6. FetchData(f, Whole(f), start, end) = IF asked = {} THEN <<>> ELSE Bytes(f, first, Cardinality(asked))
    BY <2>2, <2>3, <2>4, <2>5
  <2> QED
    BY <2>6 DEF first, asked, n
<1> QED
  BY <1>4, <1>5

(* A download is exact: the bytes sent are those of the finished file that *)
(* the Range header asks for, where a bound that is not a number counts as *)
(* 0, never of a file that is half put together or of another file         *)
(* (filesystem_storage.go:230-260, filedata_controller.go:161).            *)
THEOREM DownloadsAreExact == Spec => []FetchIsExact
<1>1. FileInv => FetchIsExact
  <2> SUFFICES ASSUME FileInv, NEW w \in Worker, At(w, "answered")
               PROVE  LET f      == work[w].file
                          source == work[w].source
                          bounds == {Missing, NotANumber} \union (0 .. Info[f].size + 1)
                      IN /\ FetchWhole(f, source) = Whole(f)
                         /\ \A start, end \in bounds :
                              LET asked == Asked(ParseInt(start), ParseInt(end), Info[f].size)
                                  first == CHOOSE k \in asked : \A j \in asked : k <= j
                              IN FetchData(f, source, start, end)
                                   = IF asked = {} THEN <<>> ELSE Bytes(f, first, Cardinality(asked))
    BY DEF FetchIsExact
  <2> DEFINE f == work[w].file
             source == work[w].source
  <2>1. work[w] \in Answering /\ JobOK(work[w]) /\ work[w].at = "answered"
    BY JobForms DEF At, FileInv, TypeInv, JobsOK
  <2>2. f \in File /\ source = Whole(f)
    BY <2>1 DEF Answering, JobOK
  <2> HIDE DEF f, source
  <2>3. FetchWhole(f, source) = Whole(f)
    <3>1. Info[f].size \in Nat /\ 0 + Info[f].size <= Info[f].size
      BY <2>2, FileUrlsAssumption
    <3> QED
      BY <2>2, <3>1, FetchBytes DEF FetchWhole, Whole
  <2>4. ASSUME NEW start \in {Missing, NotANumber} \union (0 .. Info[f].size + 1),
               NEW end \in {Missing, NotANumber} \union (0 .. Info[f].size + 1)
        PROVE  LET asked == Asked(ParseInt(start), ParseInt(end), Info[f].size)
                   first == CHOOSE k \in asked : \A j \in asked : k <= j
               IN FetchData(f, source, start, end)
                    = IF asked = {} THEN <<>> ELSE Bytes(f, first, Cardinality(asked))
    <3>1. start \in Bound /\ end \in Bound
      BY DEF Bound
    <3> QED
      BY <2>2, <3>1, AskedIsSent
  <2> QED
    BY <2>3, <2>4 DEF f, source
<1> QED
  BY <1>1, FilesAlways, PTL

-----------------------------------------------------------------------------
(* What the signed URLs are good for.                                      *)

LEMMA UrlFields ==
    ASSUME NEW op \in {"upload", "fetch"}, NEW f \in File, NEW part \in Int, NEW t \in Nat
    PROVE  LET url == UrlOf(op, f, part, t)
           IN  /\ url.path.op = op
               /\ url.path.part = (IF op = "upload" THEN part ELSE 0)
               /\ url.path.tenancy = TenancyPath(f) /\ url.path.topic = TopicSegment(f)
               /\ url.path.id = Info[f].id
               /\ url.expiry = (IF EXPIRATION = 0 THEN 0 ELSE t + EXPIRATION)
               /\ url.signature = Hmac(SignUrlValues(op, MethodOf(op), UploadPartLength(f, part)), url.expiry, url.path)
<1>1. CASE op = "upload"
  BY <1>1 DEF UrlOf, SignUrl, UploadPath, MethodOf, NoExpiry
<1>2. CASE op = "fetch"
  <2>1. DownloadPath(f) = [op |-> "fetch", tenancy |-> TenancyPath(f), topic |-> TopicSegment(f),
                           id |-> Info[f].id, part |-> 0]
    BY DEF DownloadPath, UploadPath
  <2>2. SignUrlValues(op, MethodOf(op), UploadPartLength(f, part)) = SignUrlValues(op, "GET", 0)
    BY <1>2 DEF SignUrlValues, MethodOf
  <2> QED
    BY <1>2, <2>1, <2>2 DEF UrlOf, SignUrl, NoExpiry
<1> QED
  BY <1>1, <1>2

LEMMA UrlInit ==
    ASSUME Init
    PROVE  UrlInv
BY DEF Init, UrlInv

LEMMA IssueStep ==
    ASSUME UrlInv, NEW op \in {"upload", "fetch"}, NEW f \in File, NEW range,
           range.from \in Int, range.to \in Int, op = "fetch" => range.from = 0 /\ range.to = 1,
           IssueUrls(op, f, range)
    PROVE  UrlInv'
<1>1. /\ issue' = [at |-> "signing", op |-> op, file |-> f, urls |-> <<>>, expires |-> urlExpiresAt(clock),
                   from |-> range.from, to |-> range.to]
      /\ clock' = clock /\ clock \in Nat
  BY DEF IssueUrls, UrlInv
<1>2. /\ issue'.op = op /\ issue'.file = f /\ issue'.urls = <<>> /\ issue'.expires = urlExpiresAt(clock)
      /\ issue'.from = range.from /\ issue'.to = range.to
  BY <1>1
<1>3. urlExpiresAt(clock) \in Nat
  BY <1>1, FileUrlsAssumption DEF urlExpiresAt
<1>4. issue' \in Issue
  <2>1. <<>> \in Seq(AnyUrl)
    OBVIOUS
  <2> QED
    BY <1>1, <1>3, <2>1 DEF Issue
<1>5. Len(issue'.urls) = 0
  BY <1>2
<1>6. clock \in 0 .. clock' /\ \A i \in 1 .. Len(issue'.urls) : \E t \in clock .. clock' :
        issue'.urls[i] = UrlOf(issue'.op, issue'.file, issue'.from + i - 1, t)
  BY <1>1, <1>5
<1> DEFINE t0 == clock
<1> HIDE DEF t0
<1>7. /\ t0 \in 0 .. clock' /\ issue'.expires = urlExpiresAt(t0)
      /\ \A i \in 1 .. Len(issue'.urls) : \E t \in t0 .. clock' :
           issue'.urls[i] = UrlOf(issue'.op, issue'.file, issue'.from + i - 1, t)
  BY <1>2, <1>6 DEF t0
<1>8. clock' \in Nat /\ (issue'.op = "fetch" => issue'.from = 0 /\ issue'.to = 1 /\ Len(issue'.urls) <= 1)
  BY <1>1, <1>2, <1>5
<1> QED
  BY <1>4, <1>7, <1>8 DEF UrlInv

LEMMA SignStep ==
    ASSUME UrlInv, SignNext
    PROVE  UrlInv'
<1> DEFINE n == Len(issue.urls)
           url == UrlOf(issue.op, issue.file, issue.from + n, clock)
           urls == Append(issue.urls, url)
<1>1. /\ issue # NoIssue /\ issue.from + n < issue.to
      /\ issue' = [issue EXCEPT !.urls = urls]
      /\ clock' = clock /\ clock \in Nat
  BY DEF SignNext, Signed, UrlInv
<1>2. /\ issue \in Issue
      /\ issue.op = "fetch" => issue.from = 0 /\ issue.to = 1 /\ Len(issue.urls) <= 1
  BY <1>1 DEF UrlInv
<1>3. PICK t0 \in 0 .. clock :
        /\ issue.expires = urlExpiresAt(t0)
        /\ \A i \in 1 .. Len(issue.urls) : \E t \in t0 .. clock :
              issue.urls[i] = UrlOf(issue.op, issue.file, issue.from + i - 1, t)
  BY <1>1 DEF UrlInv
<1>4. /\ issue.op \in {"upload", "fetch"} /\ issue.file \in File /\ issue.from \in Int /\ issue.to \in Int
      /\ issue.urls \in Seq(AnyUrl) /\ n \in Nat
  BY <1>2 DEF Issue
<1>5. url \in AnyUrl
  <2>1. issue.from + n \in Int
    BY <1>4
  <2> QED
    BY <1>1, <1>4, <2>1 DEF AnyUrl
<1> HIDE DEF url
<1>6. /\ urls \in Seq(AnyUrl) /\ Len(urls) = n + 1
      /\ \A i \in 1 .. n : urls[i] = issue.urls[i]
      /\ urls[n + 1] = url
  BY <1>4, <1>5
<1> HIDE DEF urls
<1>7. /\ issue' \in Issue
      /\ issue'.op = issue.op /\ issue'.file = issue.file /\ issue'.urls = urls /\ issue'.expires = issue.expires
      /\ issue'.from = issue.from /\ issue'.to = issue.to
  BY <1>1, <1>2, <1>6 DEF Issue
<1>8. issue'.op = "fetch" => issue'.from = 0 /\ issue'.to = 1 /\ Len(issue'.urls) <= 1
  BY <1>1, <1>2, <1>4, <1>6, <1>7
<1> HIDE DEF n
<1>9. ASSUME NEW i \in 1 .. n + 1
      PROVE  \E t \in t0 .. clock' : urls[i] = UrlOf(issue.op, issue.file, issue.from + i - 1, t)
  <2>1. CASE i \in 1 .. n
    BY <1>1, <1>3, <1>6, <2>1 DEF n
  <2>2. CASE i = n + 1
    <3>1. issue.from + i - 1 = issue.from + n
      BY <1>4, <2>2
    <3>2. clock \in t0 .. clock'
      BY <1>1
    <3> QED
      BY <1>6, <2>2, <3>1, <3>2 DEF url
  <2> QED
    BY <1>4, <2>1, <2>2
<1>10. t0 \in 0 .. clock' /\ issue'.expires = urlExpiresAt(t0) /\ clock' \in Nat
  BY <1>1, <1>3, <1>7
<1>11. \A i \in 1 .. Len(issue'.urls) : \E t \in t0 .. clock' :
         issue'.urls[i] = UrlOf(issue'.op, issue'.file, issue'.from + i - 1, t)
  BY <1>6, <1>7, <1>9
<1> QED
  BY <1>7, <1>8, <1>10, <1>11 DEF UrlInv

LEMMA TickStep ==
    ASSUME UrlInv, Tick
    PROVE  UrlInv'
<1>1. issue # NoIssue /\ issue' = issue /\ clock' = clock + 1 /\ clock \in Nat
  BY DEF Tick, UrlInv
<1>2. PICK t0 \in 0 .. clock :
        /\ issue.expires = urlExpiresAt(t0)
        /\ \A i \in 1 .. Len(issue.urls) : \E t \in t0 .. clock :
              issue.urls[i] = UrlOf(issue.op, issue.file, issue.from + i - 1, t)
  BY <1>1 DEF UrlInv
<1>3. /\ t0 \in 0 .. clock' /\ clock' \in Nat
      /\ \A i \in 1 .. Len(issue'.urls) : \E t \in t0 .. clock' :
              issue'.urls[i] = UrlOf(issue'.op, issue'.file, issue'.from + i - 1, t)
  <2>1. t0 .. clock \subseteq t0 .. clock'
    BY <1>1
  <2> QED
    BY <1>1, <1>2, <2>1
<1> QED
  BY <1>1, <1>2, <1>3 DEF UrlInv

LEMMA UrlNext ==
    ASSUME UrlInv, [Next]_vars
    PROVE  UrlInv'
<1>1. ASSUME NEW f \in File, GetDownloadUrl(f) PROVE UrlInv'
  <2> DEFINE range == [from |-> 0, to |-> 1]
  <2>1. range.from = 0 /\ range.to = 1 /\ IssueUrls("fetch", f, range)
    BY <1>1 DEF GetDownloadUrl
  <2> HIDE DEF range
  <2> QED
    BY <2>1, IssueStep
<1>2. ASSUME NEW f \in File, NEW o \in Options, GetUploadUrls(f, o.fromPart, o.maxCount) PROVE UrlInv'
  <2> DEFINE range == UrlRange(f, o.fromPart, o.maxCount)
  <2>1. o.fromPart \in Int /\ o.maxCount \in Int /\ PartCount(f) \in Nat
    BY OptionsAssumption, PartCounts
  <2>2. range.from \in Int /\ range.to \in Int
    BY <2>1 DEF UrlRange
  <2>3. IssueUrls("upload", f, range)
    BY <1>2 DEF GetUploadUrls
  <2> HIDE DEF range
  <2> QED
    BY <2>2, <2>3, IssueStep
<1>3. CASE SignNext
  BY <1>3, SignStep
<1>4. CASE Publish
  BY <1>4 DEF Publish, UrlInv
<1>5. CASE Tick
  BY <1>5, TickStep
<1>6. CASE UNCHANGED <<issue, clock>>
  BY <1>6 DEF UrlInv
<1> QED
  BY <1>1, <1>2, <1>3, <1>4, <1>5, <1>6 DEF Next, UrlStep, vars

LEMMA UrlsAlways == Spec => []UrlInv
<1>1. Init => UrlInv
  BY UrlInit
<1>2. UrlInv /\ [Next]_vars => UrlInv'
  BY UrlNext
<1> QED
  BY <1>1, <1>2, PTL DEF Spec

(* What the path of a URL carries beside the tenancy tells the files of a  *)
(* tenancy apart.                                                          *)
UrlsNameFiles ==
    /\ ENABLE_TOPIC => \A f \in File : Info[f].topic # ""
    /\ ~ ENABLE_TOPIC => \A f, g \in File : Info[f].id = Info[g].id /\ Info[f].tenancy = Info[g].tenancy => f = g

(* A server that serves f takes a request with a URL of f for one of the   *)
(* tenancy of f; any server takes it for that or for none, unless the name *)
(* misleads.                                                               *)
LEMMA TenancyOfUrl ==
    ASSUME NEW server \in Server, NEW f \in File
    PROVE  LET t     == Info[f].tenancy
               found == RequestTenancy(server, TenancyPath(f))
           IN  /\ Serves(server, f) => found = {t} /\ (TenancyPath(f) # "") = server.multitenancy
               /\ ~ Misleads(server, f) /\ (TenancyPath(f) # "") = server.multitenancy => found \subseteq {t}
<1> DEFINE t == Info[f].tenancy
           known == server.tenancies
           shadow == server.SHADOW_TENANCY_PATH
           path == TenancyPath(f)
           found == RequestTenancy(server, path)
<1>1. /\ t \in DOMAIN Tenancy \union {""} /\ "" \notin DOMAIN Tenancy
      /\ \A u \in DOMAIN Tenancy : Tenancy[u].path # "" /\ Tenancy[u].shadowPath # ""
      /\ \A u, v \in DOMAIN known : u # v => known[u].path # known[v].path /\ known[u].shadowPath # known[v].shadowPath
  BY TenancyAssumption
<1>2. /\ t = "" => path = ""
      /\ t # "" => path = PathOf(Tenancy[t], SHADOW_TENANCY_PATH) /\ path # ""
  BY <1>1 DEF TenancyPath, PathOf
<1>3. \A u, v \in DOMAIN known : PathOf(known[u], shadow) = PathOf(known[v], shadow) => u = v
  BY <1>1 DEF PathOf
<1>4. /\ ~ server.multitenancy => found = {""}
      /\ server.multitenancy =>
           /\ \A u \in found : u \in DOMAIN known /\ PathOf(known[u], shadow) = path
           /\ \A u \in DOMAIN known :
                PathOf(known[u], shadow) = path /\ known[u].active
                  /\ (server.ALLOW_BLOCKED_TENANCY_PATH \/ ~ Blocked(known[u], shadow)) => u \in found
  BY DEF RequestTenancy
<1> HIDE DEF path, found, known, shadow, t
<1>5. ASSUME Serves(server, f) PROVE found = {t} /\ (path # "") = server.multitenancy
  <2>1. /\ server.multitenancy = (t # "")
        /\ t # "" => /\ t \in DOMAIN known /\ known[t].active /\ shadow = SHADOW_TENANCY_PATH
                     /\ PathOf(known[t], shadow) = PathOf(Tenancy[t], shadow)
                     /\ server.ALLOW_BLOCKED_TENANCY_PATH \/ ~ Blocked(known[t], shadow)
    BY <1>5 DEF Serves, known, shadow, t
  <2>2. CASE t = ""
    BY <1>2, <1>4, <2>1, <2>2
  <2>3. CASE t # ""
    <3>1. server.multitenancy /\ path # "" /\ PathOf(known[t], shadow) = path /\ t \in DOMAIN known
      BY <1>2, <2>1, <2>3
    <3>2. t \in found
      BY <1>4, <2>1, <2>3, <3>1
    <3>3. \A u \in found : u = t
      BY <1>3, <1>4, <3>1
    <3> QED
      BY <2>1, <2>3, <3>1, <3>2, <3>3
  <2> QED
    BY <2>2, <2>3
<1>6. ASSUME ~ Misleads(server, f), (path # "") = server.multitenancy PROVE found \subseteq {t}
  <2>1. CASE server.multitenancy
    <3>1. \A u \in DOMAIN known \ {t} : PathOf(known[u], shadow) # path
      BY <1>6, <2>1 DEF Misleads, known, shadow, path, t
    <3> QED
      BY <1>4, <2>1, <3>1
  <2>2. CASE ~ server.multitenancy
    <3>1. path = ""
      BY <1>6, <2>2
    <3>2. t = ""
      BY <1>2, <3>1
    <3> QED
      BY <1>4, <2>2, <3>2
  <2> QED
    BY <2>1, <2>2
<1> QED
  BY <1>5, <1>6 DEF path, found, t

LEMMA UrlFindsOnly ==
    ASSUME UrlsNameFiles, NEW server \in Server,
           NEW op \in {"upload", "fetch"}, NEW f \in File, NEW part \in Int, NEW t \in Nat,
           RequestTenancy(server, TenancyPath(f)) \subseteq {Info[f].tenancy}
    PROVE  FindByPath(server, UrlOf(op, f, part, t).path) \subseteq {f}
<1> DEFINE url == UrlOf(op, f, part, t)
<1>1. /\ url.path.tenancy = TenancyPath(f) /\ url.path.topic = TopicSegment(f)
      /\ url.path.id = Info[f].id
  BY UrlFields
<1> HIDE DEF url
<1>2. ASSUME NEW g \in FindByPath(server, url.path) PROVE g = f
  <2>1. /\ g \in File /\ Info[g].id = Info[f].id /\ Info[g].tenancy = Info[f].tenancy
        /\ TopicSegment(f) # "" => Info[g].topic = TopicSegment(f)
    BY <1>1, <1>2 DEF FindByPath
  <2>2. CASE ENABLE_TOPIC
    BY <2>1, <2>2, NamesAssumption DEF TopicSegment, UrlsNameFiles
  <2>3. CASE ~ ENABLE_TOPIC
    BY <2>1, <2>3 DEF UrlsNameFiles
  <2> QED
    BY <2>2, <2>3
<1> QED
  BY <1>2 DEF url

LEMMA UrlFindsIt ==
    ASSUME UrlsNameFiles, NEW server \in Server,
           NEW op \in {"upload", "fetch"}, NEW f \in File, NEW part \in Int, NEW t \in Nat,
           Serves(server, f)
    PROVE  f \in FindByPath(server, UrlOf(op, f, part, t).path)
<1> DEFINE url == UrlOf(op, f, part, t)
<1>1. /\ url.path.tenancy = TenancyPath(f) /\ url.path.topic = TopicSegment(f)
      /\ url.path.id = Info[f].id
  BY UrlFields
<1>2. RequestTenancy(server, TenancyPath(f)) = {Info[f].tenancy}
  BY TenancyOfUrl
<1>3. f \in FindByPath(server, url.path)
  <2> HIDE DEF url
  <2> QED
    BY <1>1, <1>2 DEF FindByPath, TopicSegment
<1> QED
  BY <1>3

LEMMA UrlIsRouted ==
    ASSUME UPLOAD_METHOD = "POST", UrlsNameFiles, NEW server \in Server,
           NEW op \in {"upload", "fetch"}, NEW f \in File, NEW part \in Int, NEW t \in Nat
    PROVE  Routed(server, UrlOf(op, f, part, t).path, MethodOf(op)) <=> (TenancyPath(f) # "") = server.multitenancy
<1> DEFINE url == UrlOf(op, f, part, t)
<1>1. url.path.op = op /\ url.path.tenancy = TenancyPath(f) /\ url.path.topic = TopicSegment(f)
  BY UrlFields
<1> HIDE DEF url
<1>2. MethodOf(op) = IF op = "upload" THEN "POST" ELSE "GET"
  BY DEF MethodOf
<1>3. (url.path.topic # "") = ENABLE_TOPIC
  BY <1>1, FileUrlsAssumption DEF TopicSegment, UrlsNameFiles
<1>4. Routed(server, url.path, MethodOf(op)) <=> (TenancyPath(f) # "") = server.multitenancy
  BY <1>1, <1>2, <1>3 DEF Routed
<1> QED
  BY <1>4 DEF url

LEMMA UrlIsTaken ==
    ASSUME UPLOAD_METHOD = "POST", UrlsNameFiles, NEW server \in Server,
           NEW op \in {"upload", "fetch"}, NEW f \in File, NEW part \in Int, NEW t \in Nat, NEW time \in Int,
           Serves(server, f), EXPIRATION = 0 \/ time <= t + EXPIRATION
    PROVE  Verdict(server, UrlOf(op, f, part, t), MethodOf(op), UploadPartLength(f, part), time) = "ok"
<1> DEFINE url == UrlOf(op, f, part, t)
           values == SignUrlValues(op, MethodOf(op), UploadPartLength(f, part))
<1>1. /\ url.path.op = op /\ url.path.tenancy = TenancyPath(f)
      /\ url.expiry = (IF EXPIRATION = 0 THEN 0 ELSE t + EXPIRATION)
      /\ url.signature = Hmac(values, url.expiry, url.path)
  BY UrlFields
<1>2. Routed(server, url.path, MethodOf(op)) /\ RequestTenancy(server, TenancyPath(f)) # {}
  BY UrlIsRouted, TenancyOfUrl
<1> HIDE DEF url, values
<1>3. EXPIRATION \in Nat
  BY FileUrlsAssumption
<1>4. ~ (url.expiry # NoExpiry /\ time > url.expiry)
  BY <1>1, <1>3 DEF NoExpiry
<1>5. CheckUrl(url, values, time) = "ok"
  BY <1>1, <1>4 DEF CheckUrl
<1>6. Verdict(server, url, MethodOf(op), UploadPartLength(f, part), time) = "ok"
  BY <1>1, <1>2, <1>5 DEF Verdict, values
<1> QED
  BY <1>6 DEF url

LEMMA UrlIsRefused ==
    ASSUME NEW server \in Server,
           NEW op \in {"upload", "fetch"}, NEW f \in File, NEW part \in Int, NEW t \in Nat, NEW time \in Int,
           op = "upload", NEW length, length # UploadPartLength(f, part)
    PROVE  Verdict(server, UrlOf(op, f, part, t), MethodOf(op), length, time) # "ok"
<1> DEFINE url == UrlOf(op, f, part, t)
           values == SignUrlValues(op, MethodOf(op), UploadPartLength(f, part))
           others == SignUrlValues(op, MethodOf(op), length)
<1>1. url.path.op = op /\ url.signature = Hmac(values, url.expiry, url.path)
  BY UrlFields
<1> HIDE DEF url
<1>2. others # values
  BY DEF SignUrlValues
<1> HIDE DEF values, others
<1>3. url.signature # Hmac(others, url.expiry, url.path)
  BY <1>1, <1>2 DEF Hmac
<1>4. CheckUrl(url, others, time) # "ok"
  BY <1>3 DEF CheckUrl
<1>5. Verdict(server, url, MethodOf(op), length, time) # "ok"
  BY <1>1, <1>4 DEF Verdict, others
<1> QED
  BY <1>5 DEF url

(* A published URL works until the published time and reaches the part it  *)
(* was issued for, and with no other length (GetUploadUrls of              *)
(* url_manager.go:136-212), on every server whose flags and tenancies are  *)
(* those the URL was signed for (Serves), and on no server it reaches      *)
(* another file, unless another tenancy of the server has the name that    *)
(* the URL carries (Misleads).  It is assumed that uploads are signed for  *)
(* POST, the method the service routes, and that what the path carries     *)
(* tells the files of a tenancy apart.                                     *)
THEOREM PublishedUrlsWork ==
    ASSUME UPLOAD_METHOD = "POST", UrlsNameFiles
    PROVE  Spec => []UrlsWork
<1>1. UrlInv => UrlsWork
  <2> SUFFICES ASSUME UrlInv, issue # NoIssue, NEW i \in DOMAIN issue.urls, NEW server \in Server
               PROVE  LET f      == issue.file
                          part   == issue.from + i - 1
                          reached(length, time) == Found(server, issue.urls[i], MethodOf(issue.op), length, time)
                      IN /\ issue.urls[i].path.op = issue.op /\ issue.urls[i].path.part = part
                         /\ Serves(server, f) =>
                              \A time \in clock .. issue.expires : reached(UploadPartLength(f, part), time) = {f}
                         /\ ~ Misleads(server, f) => reached(UploadPartLength(f, part), clock) \subseteq {f}
                         /\ issue.op = "upload" =>
                              \A length \in (0 .. Info[f].size + 1) \ {UploadPartLength(f, part)} :
                                reached(length, clock) = {}
    BY DEF UrlsWork
  <2> DEFINE f == issue.file
             part == issue.from + i - 1
             op == issue.op
             url == issue.urls[i]
  <2>1. /\ issue \in Issue /\ clock \in Nat
        /\ op = "fetch" => issue.from = 0 /\ Len(issue.urls) <= 1
    BY DEF UrlInv
  <2>2. /\ op \in {"upload", "fetch"} /\ f \in File /\ issue.from \in Int
        /\ i \in 1 .. Len(issue.urls) /\ Len(issue.urls) \in Nat
    BY <2>1 DEF Issue
  <2>3. PICK t0 \in 0 .. clock : issue.expires = urlExpiresAt(t0) /\ \E t \in t0 .. clock : url = UrlOf(op, f, part, t)
    BY <2>2 DEF UrlInv
  <2>4. PICK t \in t0 .. clock : url = UrlOf(op, f, part, t)
    BY <2>3
  <2>5. part \in Int /\ t \in Nat /\ t0 \in Nat /\ t0 <= t
    BY <2>1, <2>2
  <2>6. op = "fetch" => part = 0
    BY <2>1, <2>2
  <2>7. url.path.op = op /\ url.path.part = part
    <3> HIDE DEF part, f, op, url
    <3> QED
      BY <2>2, <2>4, <2>5, <2>6, UrlFields
  <2> HIDE DEF part, f, op, url
  <2>8. op \in {"upload", "fetch"} /\ f \in File /\ part \in Int /\ t \in Nat /\ clock \in Int
    BY <2>1, <2>2, <2>5
  <2>9. ASSUME Serves(server, f), NEW time \in clock .. issue.expires
        PROVE  Found(server, url, MethodOf(op), UploadPartLength(f, part), time) = {f}
    <3>1. EXPIRATION \in Nat /\ time \in Int
      BY <2>1, FileUrlsAssumption
    <3>2. EXPIRATION = 0 \/ time <= t + EXPIRATION
      BY <2>1, <2>3, <2>5, <3>1 DEF urlExpiresAt
    <3>3. FindByPath(server, url.path) = {f}
      <4>1. f \in FindByPath(server, UrlOf(op, f, part, t).path)
        BY <2>8, <2>9, UrlFindsIt
      <4>2. RequestTenancy(server, TenancyPath(f)) \subseteq {Info[f].tenancy}
        BY <2>8, <2>9, TenancyOfUrl
      <4>3. FindByPath(server, UrlOf(op, f, part, t).path) \subseteq {f}
        BY <2>8, <4>2, UrlFindsOnly
      <4> QED
        BY <2>4, <4>1, <4>3
    <3>4. Verdict(server, url, MethodOf(op), UploadPartLength(f, part), time) = "ok"
      <4>1. Verdict(server, UrlOf(op, f, part, t), MethodOf(op), UploadPartLength(f, part), time) = "ok"
        BY <2>8, <2>9, <3>1, <3>2, UrlIsTaken
      <4> QED
        BY <2>4, <4>1
    <3> QED
      BY <3>3, <3>4 DEF Found
  <2>10. ASSUME op = "upload", NEW length, length # UploadPartLength(f, part)
        PROVE  Found(server, url, MethodOf(op), length, clock) = {}
    <3>1. Verdict(server, UrlOf(op, f, part, t), MethodOf(op), length, clock) # "ok"
      BY <2>8, <2>10, UrlIsRefused
    <3> QED
      BY <2>4, <3>1 DEF Found
  <2>11. ASSUME ~ Misleads(server, f)
         PROVE  Found(server, url, MethodOf(op), UploadPartLength(f, part), clock) \subseteq {f}
    <3> SUFFICES ASSUME Verdict(server, url, MethodOf(op), UploadPartLength(f, part), clock) = "ok"
                 PROVE  FindByPath(server, url.path) \subseteq {f}
      BY DEF Found
    <3>1. (TenancyPath(f) # "") = server.multitenancy
      <4>1. Routed(server, UrlOf(op, f, part, t).path, MethodOf(op))
        BY <2>4 DEF Verdict
      <4> QED
        BY <2>8, <4>1, UrlIsRouted
    <3>2. RequestTenancy(server, TenancyPath(f)) \subseteq {Info[f].tenancy}
      BY <2>2, <2>11, <3>1, TenancyOfUrl
    <3>3. FindByPath(server, UrlOf(op, f, part, t).path) \subseteq {f}
      BY <2>8, <3>2, UrlFindsOnly
    <3> QED
      BY <2>4, <3>3
  <2> QED
    BY <2>7, <2>9, <2>10, <2>11 DEF part, f, op, url
<1> QED
  BY <1>1, UrlsAlways, PTL

=============================================================================
