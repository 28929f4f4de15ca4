--------------------------- MODULE FileDataService ---------------------------
(***************************************************************************)
(* filestorage/filedata_service and url_manager.go over FileStorage: the   *)
(* application signs URLs for a client, one call of time.Now per URL; a    *)
(* request with such a URL arrives sooner or later; the server checks it,  *)
(* finds the file and calls the storage.  The URLs share nothing with the  *)
(* storage: they are signed before it is used, and a request has a URL of  *)
(* any earlier time.                                                       *)
(***************************************************************************)
EXTENDS FileStorage

CONSTANTS
    MaxTime,               \* bound: the clock, in seconds
    Options                \* the options of GetUploadUrls: [fromPart, maxCount]

ASSUME OptionsAssumption == \A o \in Options : o.fromPart \in Int /\ o.maxCount \in Int

VARIABLES
    issue,                 \* the URLs that are being signed or were published
    clock                  \* seconds since the call for them

vars == <<storageVars, issue, clock>>

NoIssue == [at |-> "idle"]

-----------------------------------------------------------------------------
(* GetUploadUrls and GetDownloadUrl: the published expiry is computed before the signatures. *)

IssueUrls(op, f, range) ==
    /\ issue = NoIssue /\ StorageInit
    /\ issue' = [at |-> "signing", op |-> op, file |-> f, urls |-> <<>>, expires |-> urlExpiresAt(clock),
                 from |-> range.from, to |-> range.to]
    /\ UNCHANGED <<storageVars, clock>>

GetUploadUrls(f, fromPart, maxCount) == IssueUrls("upload", f, UrlRange(f, fromPart, maxCount))

GetDownloadUrl(f) == IssueUrls("fetch", f, [from |-> 0, to |-> 1])

Signed == issue.from + Len(issue.urls)

SignNext ==
    /\ issue # NoIssue /\ Signed < issue.to
    /\ issue' = [issue EXCEPT !.urls = Append(@, UrlOf(issue.op, issue.file, Signed, clock))]
    /\ UNCHANGED <<storageVars, clock>>

\* The client has its URLs; what follows are its requests.
Publish ==
    /\ issue # NoIssue /\ Signed >= issue.to
    /\ issue' = NoIssue
    /\ clock' = 0
    /\ UNCHANGED storageVars

Tick ==
    /\ issue # NoIssue /\ clock < MaxTime
    /\ clock' = clock + 1
    /\ UNCHANGED <<storageVars, issue>>

-----------------------------------------------------------------------------
(* Requests *)

\* What a server makes of a URL at a time: the route, the tenancy, checkUrl, and what the registry
\* finds.
Verdict(server, url, method, length, time) ==
    IF ~Routed(server, url.path, method) \/ RequestTenancy(server, url.path.tenancy) = {} THEN "not_found"
    ELSE CheckUrl(url, SignUrlValues(url.path.op, method, length), time)

Found(server, url, method, length, time) ==
    {f \in FindByPath(server, url.path) : Verdict(server, url, method, length, time) = "ok"}

\* The files that a request for f can find which arrives at some server some time after its URL was
\* signed.
Arrives(op, f, part) ==
    {found \in File :
       \E server \in Server, signed \in 0 .. MaxTime : \E time \in signed .. MaxTime :
          found \in Found(server, UrlOf(op, f, part, signed), MethodOf(op), UploadPartLength(f, part), time)}

\* FileDataController.UploadPart.
AcceptUpload(w, f, part) ==
    /\ At(w, "idle")
    /\ \E found \in Arrives("upload", f, part) : UploadPart(w, found, part)
    /\ UNCHANGED <<dirs, files, faults, acked>>

\* FileDataController.Fetch: the file is opened, and stays readable whatever happens to its name.
AcceptFetch(w, f) ==
    /\ At(w, "idle")
    /\ \E found \in Arrives("fetch", f, 0) :
         /\ Exists(found)
         /\ work' = [work EXCEPT ![w] = [at |-> "answered", file |-> found, source |-> files[Path(found)]]]
    /\ UNCHANGED <<dirs, files, faults, acked>>

\* What is sent: without a Range header as many bytes as the registry says the file has.
FetchRange(source, offset, length) ==
    SubSeq(source, offset + 1, IF offset + length > Len(source) THEN Len(source) ELSE offset + length)
FetchWhole(f, source) == FetchRange(source, 0, Info[f].size)
FetchData(f, source, start, end) ==
    LET range == ParseRange(start, end, Info[f].size)
    IN IF range.length = 0 THEN <<>> ELSE FetchRange(source, range.offset, range.length)

Received(w) ==
    /\ At(w, "answered")
    /\ Return(w)
    /\ UNCHANGED <<dirs, files, faults, acked>>

-----------------------------------------------------------------------------
Init == StorageInit /\ issue = NoIssue /\ clock = 0

UrlStep ==
    \/ \E f \in File : GetDownloadUrl(f)
    \/ \E f \in File, o \in Options : GetUploadUrls(f, o.fromPart, o.maxCount)
    \/ SignNext \/ Publish \/ Tick

RequestStep(w) ==
    \/ \E f \in File : AcceptFetch(w, f) \/ \E part \in 0 .. PartCount(f) - 1 : AcceptUpload(w, f, part)
    \/ Received(w)

Next ==
    \/ UrlStep
    \/ /\ issue = NoIssue
       /\ Crash \/ \E w \in Worker : RequestStep(w) \/ StorageStep(w)
       /\ UNCHANGED <<issue, clock>>

Spec == Init /\ [][Next]_vars

-----------------------------------------------------------------------------
(* Properties *)

\* The server is set up for f as its URLs are: with tenancies exactly if f is in one, which it
\* knows by the name that the URLs carry, active and not blocked.  The two flags have different
\* defaults: the URL manager takes shadow paths (url_manager.go:33), the server paths
\* (rest_api_gin_server/server.go:48).
Serves(server, f) ==
    LET t      == Info[f].tenancy
        shadow == server.SHADOW_TENANCY_PATH
    IN /\ server.multitenancy = (t # "")
       /\ t # "" => /\ t \in DOMAIN server.tenancies /\ server.tenancies[t].active
                    /\ shadow = SHADOW_TENANCY_PATH
                    /\ PathOf(server.tenancies[t], shadow) = PathOf(Tenancy[t], shadow)
                    /\ server.ALLOW_BLOCKED_TENANCY_PATH \/ ~Blocked(server.tenancies[t], shadow)

\* The name that the URLs of f carry is the name of another tenancy on the server: with flags that
\* disagree, when the shadow path of one is the path of another.
Misleads(server, f) ==
    /\ server.multitenancy
    /\ \E t \in DOMAIN server.tenancies \ {Info[f].tenancy} :
         PathOf(server.tenancies[t], server.SHADOW_TENANCY_PATH) = TenancyPath(f)

\* A URL that is used as it was published works on a server that serves its file: at any time until
\* the published UrlExpiresAt a request with the stated method and the length of its part is
\* accepted and reaches the part the URL was issued for, and one with another length never is.  On
\* no server, whatever its flags and the state of its tenancies, does it reach another file, unless
\* the name of the tenancy misleads.
UrlsWork ==
    issue # NoIssue =>
      \A i \in DOMAIN issue.urls, server \in Server :
        LET f      == issue.file
            part   == issue.from + i - 1
            reached(length, time) == Found(server, issue.urls[i], MethodOf(issue.op), length, time)
        IN /\ issue.urls[i].path.op = issue.op /\ issue.urls[i].path.part = part
           /\ Serves(server, f) =>
                \A time \in clock .. issue.expires : reached(UploadPartLength(f, part), time) = {f}
           /\ ~Misleads(server, f) => reached(UploadPartLength(f, part), clock) \subseteq {f}
           /\ issue.op = "upload" =>
                \A length \in (0 .. Info[f].size + 1) \ {UploadPartLength(f, part)} : reached(length, clock) = {}

\* The bytes of a file that a Range header asks for, if both of its bounds are numbers or missing.
Asked(start, end, size) ==
    {k \in 0 .. size - 1 :
        IF start = Missing THEN end # Missing /\ k >= size - end
        ELSE k >= start /\ (end = Missing \/ k <= end)}

\* A download is exact: the bytes sent are those of the finished file that the Range header asks
\* for, all of the file without one, and none if it asks for none; never a file that is half put
\* together, of another topic or tenancy, or with a part of another length, whatever uploads,
\* finalizations, deletions, crashes and failures went before (filesystem_storage.go:230-260,
\* filedata_controller.go:161).  A bound that is not a number counts as 0 and is not refused, as
\* parse_range_test.go:51-63 has it: bytes=abc-def is answered with the first byte.
FetchIsExact ==
    \A w \in Worker : At(w, "answered") =>
      LET f      == work[w].file
          source == work[w].source
          bounds == {Missing, NotANumber} \union (0 .. Info[f].size + 1)
      IN /\ FetchWhole(f, source) = Whole(f)
         /\ \A start, end \in bounds :
              LET asked == Asked(ParseInt(start), ParseInt(end), Info[f].size)
                  first == CHOOSE k \in asked : \A j \in asked : k <= j
              IN FetchData(f, source, start, end)
                   = IF asked = {} THEN <<>> ELSE Bytes(f, first, Cardinality(asked))
=============================================================================
