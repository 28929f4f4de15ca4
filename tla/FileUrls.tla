------------------------------ MODULE FileUrls -------------------------------
(***************************************************************************)
(* The arithmetic and the signed URLs of pkg/filestorage: how a file is    *)
(* cut into parts (upload_part_helper.go), what a signature covers and     *)
(* when it expires (signed_url.go), which URL names which part             *)
(* (url_manager.go) and which bytes a Range header asks for                *)
(* (filedata_service/filedata_controller.go).  The HMAC is the tuple of    *)
(* what it is computed over: without the secret nobody makes another one.  *)
(* A path is the record of its parameters, "" for a segment that is        *)
(* missing; the prefix and the names of the parameters are constants of a  *)
(* configuration and left out.                                             *)
(***************************************************************************)
EXTENDS Integers, Sequences, FiniteSets, TLC

CONSTANTS
    File,                  \* the files of the application's registry
    Info,                  \* their FileInfo: [id, topic, tenancy, size, partSize, created]
    UPLOAD_PART_LENGTH,
    EXPIRATION,            \* seconds a signed URL lives, 0: for ever
    UPLOAD_METHOD,
    ENABLE_TOPIC,
    Tenancy,               \* the tenancies the URLs are signed for: tenancy -> [path, shadowPath]
    SHADOW_TENANCY_PATH,   \* of the URL manager: a URL carries the shadow path, not the path
    Server                 \* the configurations of the servers that URLs are sent to:
                           \* [multitenancy, SHADOW_TENANCY_PATH, ALLOW_BLOCKED_TENANCY_PATH, tenancies],
                           \* tenancies: those in its cache, tenancy -> [path, shadowPath, active,
                           \* blockedPath, blockedShadowPath]

ASSUME FileUrlsAssumption ==
    /\ UPLOAD_PART_LENGTH \in Nat \ {0} /\ EXPIRATION \in Nat
    /\ UPLOAD_METHOD \in {"POST", "PUT"} /\ ENABLE_TOPIC \in BOOLEAN
    /\ \A f \in File : Info[f].size \in Nat /\ Info[f].partSize \in Nat /\ Info[f].created \in Nat

\* A tenancy has both paths; a cache is indexed by either, so that each finds one tenancy.
ASSUME TenancyAssumption ==
    /\ \A f \in File : Info[f].tenancy \in DOMAIN Tenancy \union {""}
    /\ "" \notin DOMAIN Tenancy
    /\ \A t \in DOMAIN Tenancy : Tenancy[t].path # "" /\ Tenancy[t].shadowPath # ""
    /\ \A server \in Server : \A t, u \in DOMAIN server.tenancies :
         t # u => /\ server.tenancies[t].path # server.tenancies[u].path
                  /\ server.tenancies[t].shadowPath # server.tenancies[u].shadowPath

-----------------------------------------------------------------------------
(* Parts *)

MaxPartSize(f) == IF Info[f].partSize = 0 THEN UPLOAD_PART_LENGTH ELSE Info[f].partSize

FilePartLength(total, max, index) ==
    LET start == index * max
    IN IF start >= total THEN 0
       ELSE IF total - start > max THEN max ELSE total - start

UploadPartLength(f, index) == FilePartLength(Info[f].size, MaxPartSize(f), index)

PartCount(f) ==
    IF Info[f].size <= 0 \/ MaxPartSize(f) <= 0 THEN 0
    ELSE (Info[f].size + MaxPartSize(f) - 1) \div MaxPartSize(f)

-----------------------------------------------------------------------------
(* Signatures *)

NoExpiry == 0

Hmac(values, expiry, path) == <<values, expiry, path>>

\* Faulty variant: the signature is computed before the expiry is written into the query.
SignUrlFirst(path, values, now) ==
    [path |-> path, expiry |-> IF EXPIRATION = 0 THEN NoExpiry ELSE now + EXPIRATION,
     signature |-> Hmac(values, NoExpiry, path)]

SignUrl(path, values, now) ==
    LET expiry == IF EXPIRATION = 0 THEN NoExpiry ELSE now + EXPIRATION
    IN [path |-> path, expiry |-> expiry, signature |-> Hmac(values, expiry, path)]

CheckUrl(url, values, now) ==
    IF url.expiry # NoExpiry /\ now > url.expiry THEN "expired"
    ELSE IF url.signature = Hmac(values, url.expiry, url.path) THEN "ok"
    ELSE "bad_request"

-----------------------------------------------------------------------------
(* URLs *)

urlExpiresAt(now) == IF EXPIRATION = 0 THEN 0 ELSE now + EXPIRATION

TopicSegment(f) == IF ENABLE_TOPIC THEN Info[f].topic ELSE ""

PathOf(tenancy, shadow) == IF shadow THEN tenancy.shadowPath ELSE tenancy.path

TenancyPath(f) == IF Info[f].tenancy = "" THEN "" ELSE PathOf(Tenancy[Info[f].tenancy], SHADOW_TENANCY_PATH)

UploadPath(f, part) ==
    [op |-> "upload", tenancy |-> TenancyPath(f), topic |-> TopicSegment(f),
     id |-> Info[f].id, part |-> part]

DownloadPath(f) == [UploadPath(f, 0) EXCEPT !.op = "fetch"]

\* SignUrlValues.Values: a download does not commit to a length.
SignUrlValues(op, method, length) == IF op = "upload" THEN <<method, length>> ELSE <<method, 0>>

MethodOf(op) == IF op = "upload" THEN UPLOAD_METHOD ELSE "GET"

\* The URL of part `part` of f, or of f, signed at `now`.
UrlOf(op, f, part, now) ==
    IF op = "upload"
    THEN SignUrl(UploadPath(f, part), SignUrlValues(op, UPLOAD_METHOD, UploadPartLength(f, part)), now)
    ELSE SignUrl(DownloadPath(f), SignUrlValues(op, "GET", 0), now)

\* The parts GetUploadUrls signs: all from the first one asked for, or at most maxCount.
UrlRange(f, fromPart, maxCount) ==
    LET bound == fromPart + maxCount
        to    == IF maxCount = 0 \/ bound > PartCount(f) THEN PartCount(f) ELSE bound
    IN [from |-> fromPart, to |-> to]

\* The routes of FileDataService: a path with a topic exactly if topics are enabled, and one
\* with a tenancy exactly if the server and the service are of many tenancies.
Routed(server, path, method) ==
    /\ method = IF path.op = "upload" THEN "POST" ELSE "GET"
    /\ (path.topic # "") = ENABLE_TOPIC
    /\ (path.tenancy # "") = server.multitenancy

\* The tenancy a request is in, "" for none: looked up by the path that the server is set to, and
\* refused if it is not active or its path is blocked.
Blocked(tenancy, shadow) == IF shadow THEN tenancy.blockedShadowPath ELSE tenancy.blockedPath
RequestTenancy(server, segment) ==
    LET shadow == server.SHADOW_TENANCY_PATH
    IN IF ~server.multitenancy THEN {""}
       ELSE {t \in DOMAIN server.tenancies :
               LET tenancy == server.tenancies[t]
               IN /\ PathOf(tenancy, shadow) = segment /\ tenancy.active
                  /\ server.ALLOW_BLOCKED_TENANCY_PATH \/ ~Blocked(tenancy, shadow)}

\* The registry of the application, asked with the parameters of the path, in the request's tenancy.
FindByPath(server, path) ==
    {f \in File : /\ Info[f].id = path.id /\ Info[f].tenancy \in RequestTenancy(server, path.tenancy)
                  /\ path.topic # "" => Info[f].topic = path.topic}

-----------------------------------------------------------------------------
(* Ranges *)

Missing == -1                 \* a bound that the Range header leaves empty
NotANumber == -2              \* a bound that is not written with digits

\* The error is dropped, and what it comes with is taken: 0 for what is not a number.  A number
\* that is too large becomes the largest one, which is beyond every file too.
ParseInt(bound) == IF bound = NotANumber THEN 0 ELSE bound

\* The offset and the length of bytes=start-end, length 0 for an error.
ParseRange(start, end, total) ==
    LET to     == ParseInt(end)
        last   == IF to >= total THEN total - 1 ELSE to
        offset == IF start # Missing THEN ParseInt(start)
                  ELSE IF total - to < 0 THEN 0 ELSE total - to
        length == IF start = Missing /\ end = Missing THEN 0
                  ELSE IF start = Missing \/ end = Missing THEN total - offset
                  ELSE last - offset + 1
    IN [offset |-> offset, length |-> IF offset < 0 \/ length <= 0 THEN 0 ELSE length]
=============================================================================
