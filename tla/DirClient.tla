------------------------------ MODULE DirClient ------------------------------
(***************************************************************************)
(* The drive-redirection side of the RDPDR client (rdpdr/dir.rs Client)    *)
(* together with the IRP dispatch of rdpdr.rs handle_device_io_request.    *)
(*                                                                         *)
(* Three actors share the session task:                                    *)
(*   - the RDP server, which sends DEVICE_IOREQUESTs (IRPs) on a FIFO      *)
(*     channel and receives DEVICE_IOCOMPLETIONs;                          *)
(*   - the client code, which dispatches one IRP at a time, keeps the      *)
(*     file cache and the seven CompletionId-keyed continuation tables,    *)
(*     and sends TDP requests to the browser;                              *)
(*   - the browser, which answers every TDP request once, in any order.    *)
(* Directory sharing is assumed allowed; the check of that flag is in the  *)
(* Rdpdr module.                                                           *)
(***************************************************************************)
EXTENDS Integers, SequencesExt, Bitwise

CONSTANTS
  Cids,               \* completion ids the server puts on IRPs
  Paths,              \* paths on the shared directory
  ListResults,        \* directory listings the browser may return
  FileIdBits,         \* width of file ids (u32 in the code)
  MaxCreates,         \* bound on the IRP_MJ_CREATEs the server sends
  MaxInitialQueries,  \* bound on initial QUERY_DIRECTORYs per handle
  CreateDispositions, \* CreateDisposition values the server may send
  Majors,             \* MajorFunctions the server may send
  SetInfoClasses,     \* FileInformationClass levels the server may send
  QueryLevelOk,       \* whether the server's information levels are supported
  BrowserFs,          \* whether the browser's answers follow a file system
  InDir,              \* pairs <<directory, entry>> of paths
  InitialFs,          \* path -> "None", "File" or "Directory" at the start
  TdpRepliesFramed    \* whether a reply built on the TDP response path is framed

ASSUME FileIdBits \in Nat \ {0} /\ MaxCreates \in Nat /\ MaxInitialQueries \in Nat
ASSUME CreateDispositions \subseteq 0 .. 5
ASSUME SetInfoClasses \subseteq {"Rename", "Disposition", "Basic", "Other"}
ASSUME QueryLevelOk \subseteq BOOLEAN /\ QueryLevelOk # {}
ASSUME BrowserFs \in BOOLEAN /\ InDir \subseteq Paths \X Paths
ASSUME TdpRepliesFramed \in BOOLEAN

VARIABLES
  fileCache,   \* Client.file_cache: file id -> FileCacheObject
  nextFileId,  \* Client.next_file_id
  pend,        \* pending_sd_*_resp_handlers: TDP kind -> (completion id -> continuation)
  tdpOut,      \* TDP requests sent to the browser and not yet answered
  rdpIn,       \* IRPs sent by the server and not yet read by the client
  irps,        \* server: completion id -> IRP still awaiting its completion
  handles,     \* server: file id -> what the server knows of its open handle
  creates,     \* server: number of IRP_MJ_CREATEs sent so far
  out,         \* RDPDR PDUs the client wrote in the last step
  alive,       \* FALSE once a handler returned an error and the session ended
  panicked,    \* the client hit a panic! while building a reply
  fs           \* the browser: what each path of the shared directory is

clientVars == <<fileCache, nextFileId, pend>>
vars == <<fileCache, nextFileId, pend, tdpOut, rdpIn, irps, handles, creates, out, alive,
          panicked, fs>>

-----------------------------------------------------------------------------
(* Protocol constants (rdpdr/consts.rs, flags.rs).                         *)

FILE_SUPERSEDE == 0
FILE_OPEN == 1
FILE_CREATE == 2
FILE_OPEN_IF == 3
FILE_OVERWRITE == 4
FILE_OVERWRITE_IF == 5
Dispositions == FILE_SUPERSEDE .. FILE_OVERWRITE_IF

\* FILE_DIRECTORY_FILE, FILE_NON_DIRECTORY_FILE, or neither
CreateOptions == {"Dir", "NonDir", "None"}
Minors == {"QUERY_DIRECTORY", "NOTIFY_CHANGE_DIRECTORY", "Other"}
TdpKinds == {"Info", "Create", "Delete", "List", "Read", "Write", "Move"}
FileTypes == {"File", "Directory"}
FileIds == 0 .. (2^FileIdBits - 1)
Dot == "."
DotDot == ".."
NoMore == "EOF"     \* FileCacheObject::next returned None
NoEntry == "none"

\* The IRPs the server may send, as the request decoders read them. Fields
\* a MajorFunction or class does not read are fixed, so that each IRP the
\* code tells apart appears once.
\* DeviceCreateRequest::decode: path, CreateDisposition, CreateOptions.
CreateIrps ==
  [major: {"CREATE"}, cid: Cids, path: Paths, disp: CreateDispositions, opt: CreateOptions]
\* DeviceIoRequest::decode: IRPs that only name their file id.
HandleIrps ==
  [major: {"CLOSE", "READ", "WRITE", "DEVICE_CONTROL"}, cid: Cids, fid: FileIds]
\* ServerDriveQueryInformationRequest::decode: any FileInformationClass; lvlOk
\* when it is one ClientDriveQueryInformationResponse::new can answer.
QueryInfoIrps ==
  [major: {"QUERY_INFORMATION"}, cid: Cids, fid: FileIds, lvlOk: QueryLevelOk]
\* ServerDriveQueryDirectoryRequest::decode: InitialQuery and whether the
\* level is one of its VALID_LEVELS (decode fails otherwise).
QueryDirIrps ==
  [major: {"DIRECTORY_CONTROL"}, cid: Cids, fid: FileIds, minor: {"QUERY_DIRECTORY"},
   initial: BOOLEAN, lvlOk: QueryLevelOk]
\* ServerDriveNotifyChangeDirectoryRequest::decode and other minors.
NotifyIrps ==
  [major: {"DIRECTORY_CONTROL"}, cid: Cids, fid: FileIds,
   minor: Minors \ {"QUERY_DIRECTORY"}, initial: {FALSE}, lvlOk: {TRUE}]
\* ServerDriveQueryVolumeInformationRequest::decode: whether the
\* FsInformationClass is one of its VALID_LEVELS (decode fails otherwise).
QueryVolIrps ==
  [major: {"QUERY_VOLUME_INFORMATION"}, cid: Cids, fid: FileIds, lvlOk: QueryLevelOk]
\* ServerDriveSetInformationRequest::decode: the class and its buffer
\* (FileRenameInformation: ReplaceIfExists and the new name;
\* FileDispositionInformation: DeletePending).
SetInfoIrps ==
       [major: {"SET_INFORMATION"}, cid: Cids, fid: FileIds, cls: {"Rename"} \cap SetInfoClasses,
        replace: BOOLEAN, newPath: Paths, del: {FALSE}]
  \cup [major: {"SET_INFORMATION"}, cid: Cids, fid: FileIds,
        cls: {"Disposition"} \cap SetInfoClasses, replace: {FALSE}, newPath: {NoEntry}, del: BOOLEAN]
  \cup [major: {"SET_INFORMATION"}, cid: Cids, fid: FileIds,
        cls: SetInfoClasses \ {"Rename", "Disposition"}, replace: {FALSE},
        newPath: {NoEntry}, del: {FALSE}]

AllIrps == CreateIrps \cup HandleIrps \cup QueryInfoIrps \cup QueryDirIrps \cup NotifyIrps \cup QueryVolIrps
           \cup SetInfoIrps

ServerIrps == {irp \in AllIrps : irp.major \in Majors}

\* The response PDU type the client builds for each MajorFunction.
ResponseType == [CREATE |-> "Create", CLOSE |-> "Close", QUERY_INFORMATION |-> "QueryInfo",
                 READ |-> "Read", WRITE |-> "Write", DEVICE_CONTROL |-> "DeviceControl",
                 DIRECTORY_CONTROL |-> "QueryDir", QUERY_VOLUME_INFORMATION |-> "QueryVol",
                 SET_INFORMATION |-> "SetInfo"]

Reply(irp, status) ==
  [type |-> ResponseType[irp.major], cid |-> irp.cid, status |-> status,
   fid |-> 0, entry |-> NoEntry, info |-> NoEntry, raw |-> FALSE]

\* DeviceCreateResponse::new: the Information field.  bitflags' intersects
\* with FILE_SUPERSEDE | FILE_OPEN | FILE_CREATE | FILE_OVERWRITE is a test
\* of the disposition's bits against 7, true for every disposition but
\* FILE_SUPERSEDE, whose bits are empty; the last arm is a panic!.
Information(disp, status) ==
  IF status # "SUCCESS"
     \/ (disp & (FILE_SUPERSEDE | FILE_OPEN | FILE_CREATE | FILE_OVERWRITE)) # 0
  THEN "FILE_SUPERSEDED"
  ELSE IF disp = FILE_OPEN_IF THEN "FILE_OPENED"
  ELSE IF disp = FILE_OVERWRITE_IF THEN "FILE_OVERWRITTEN"
  ELSE "panic"

CreateReply(irp, status, fid) ==
  [Reply(irp, status) EXCEPT !.fid = fid, !.info = Information(irp.disp, status)]
DirReply(irp, status, entry) == [Reply(irp, status) EXCEPT !.entry = entry]
\* A DEVICE_IOCOMPLETION made of the RDPDR shared header alone.
BareCompletion == [type |-> "Bare", cid |-> NoEntry, status |-> NoEntry, fid |-> 0, entry |-> NoEntry,
                   info |-> NoEntry, raw |-> FALSE]

\* What goes on the channel for a reply r.  handle_device_io_request returns
\* what an IRP handler built to read_and_reply, which adds the shared header
\* and the channel header.  On the TDP response path, handle_tdp_sd_*_response
\* iterates over the continuation's encoding, a Vec<u8> without a header, and
\* writes each byte as a PDU of its own: the server reads no completion from
\* them.  TdpRepliesFramed = TRUE stands for the Messages that lib.rs's
\* handle_tdp_sd_*_response functions expect from rdpdr and frame as an IRP
\* reply; the rdpdr.rs and dir.rs of this tree do not provide them.
OnChannel(r, viaTdp) == IF viaTdp /\ ~TdpRepliesFramed THEN [r EXCEPT !.raw = TRUE] ELSE r

\* The replies the client wrote, framed or not, and those the server reads.
Answers(rs) == {r \in Range(rs) : r.type # "Bare"}
Completions(rs) == {r \in Answers(rs) : ~r.raw}

-----------------------------------------------------------------------------
(* The server's side: what it knows of each handle, updated by the         *)
(* completions it receives.                                                *)

OnHandle(i, fid) == i.major # "CREATE" /\ i.fid = fid
IsQueryDir(i) == i.major = "DIRECTORY_CONTROL" /\ i.minor = "QUERY_DIRECTORY"
IsNotify(i) == i.major = "DIRECTORY_CONTROL" /\ i.minor = "NOTIFY_CHANGE_DIRECTORY"

NewHandle(p) == [path |-> p, del |-> FALSE, seen |-> <<>>, inits |-> 0, closing |-> FALSE]

ServerApply(h, r) ==
  LET irp == irps[r.cid] IN
  CASE irp.major = "CREATE" /\ r.status = "SUCCESS" -> (r.fid :> NewHandle(irp.path)) @@ h
    [] irp.major = "CLOSE" -> Restrict(h, DOMAIN h \ {irp.fid})
    [] irp.major = "SET_INFORMATION" /\ r.status = "SUCCESS" /\ irp.cls = "Rename" ->
         [h EXCEPT ![irp.fid].path = irp.newPath]
    [] irp.major = "SET_INFORMATION" /\ r.status = "SUCCESS" /\ irp.cls = "Disposition" ->
         [h EXCEPT ![irp.fid].del = irp.del]
    [] IsQueryDir(irp) /\ r.entry # NoEntry -> [h EXCEPT ![irp.fid].seen = Append(@, r.entry)]
    [] OTHER -> h

\* The client writes the PDUs rs; the server consumes the completions among them.
Emit(rs) ==
  /\ out' = rs
  /\ irps' = Restrict(irps, DOMAIN irps \ {r.cid : r \in Completions(rs)})
  /\ handles' = IF Completions(rs) = {} THEN handles
                ELSE ServerApply(handles, CHOOSE r \in Completions(rs) : TRUE)

\* A panic! on the session task: nothing more is written and the session is
\* over (the panic cannot unwind into the Go caller).
Panic ==
  /\ panicked' = TRUE /\ alive' = FALSE
  /\ out' = <<>>
  /\ UNCHANGED <<fileCache, nextFileId, pend, tdpOut, irps, handles>>

\* One client step: the new file cache, file id counter, tables and TDP
\* requests, and the PDUs written, unless building one of them panicked.
Step(fc, nf, p, t, rs) ==
  IF \E i \in 1 .. Len(rs) : rs[i].info = "panic" THEN Panic
  ELSE /\ fileCache' = fc
       /\ nextFileId' = nf
       /\ pend' = p
       /\ tdpOut' = t
       /\ Emit(rs)
       /\ UNCHANGED <<alive, panicked>>

\* A handler returned Err: read_and_reply / handle_tdp_* propagate it and the
\* session ends.
SessionError ==
  /\ alive' = FALSE
  /\ out' = <<>>
  /\ UNCHANGED <<fileCache, nextFileId, pend, tdpOut, irps, handles, panicked>>

-----------------------------------------------------------------------------
(* Client state helpers.                                                   *)

\* generate_file_id: wrapping_add(1) on a FileIdBits-wide counter.
GenerateFileId(nf) == (nf + 1) % (2^FileIdBits)

\* FileCacheObject::new
NewFCO(path, ftype, isEmpty) ==
  [path |-> path, deletePending |-> FALSE, ftype |-> ftype, isEmpty |-> isEmpty,
   contents |-> <<>>, contentsI |-> 0, dotSent |-> FALSE, dotdotSent |-> FALSE]

\* HashMap::insert into a continuation table (replaces an existing entry).
Register(p, k, c, cont) == [p EXCEPT ![k] = (c :> cont) @@ @]
Unregister(p, k, c) == [p EXCEPT ![k] = Restrict(@, DOMAIN @ \ {c})]

(* Plausible slips in the iterator, used to confirm that TypeOK and       *)
(* DirListingOrder detect them: the index advanced past the end, and the   *)
(* contents tested before "..".                                            *)
NextEntryAdvancePastEnd(f) ==
  IF ~f.dotSent THEN [entry |-> Dot, fco |-> [f EXCEPT !.dotSent = TRUE]]
  ELSE IF ~f.dotdotSent THEN [entry |-> DotDot, fco |-> [f EXCEPT !.dotdotSent = TRUE]]
  ELSE IF f.contentsI < Len(f.contents)
       THEN [entry |-> f.contents[f.contentsI + 1], fco |-> [f EXCEPT !.contentsI = @ + 1]]
  ELSE [entry |-> NoMore, fco |-> [f EXCEPT !.contentsI = @ + 1]]
NextEntryContentsFirst(f) ==
  IF ~f.dotSent THEN [entry |-> Dot, fco |-> [f EXCEPT !.dotSent = TRUE]]
  ELSE IF f.contentsI < Len(f.contents)
       THEN [entry |-> f.contents[f.contentsI + 1], fco |-> [f EXCEPT !.contentsI = @ + 1]]
  ELSE IF ~f.dotdotSent THEN [entry |-> DotDot, fco |-> [f EXCEPT !.dotdotSent = TRUE]]
  ELSE [entry |-> NoMore, fco |-> f]

\* Iterator::next for FileCacheObject: ".", "..", then the contents.
NextEntry(f) ==
  IF ~f.dotSent THEN [entry |-> Dot, fco |-> [f EXCEPT !.dotSent = TRUE]]
  ELSE IF ~f.dotdotSent THEN [entry |-> DotDot, fco |-> [f EXCEPT !.dotdotSent = TRUE]]
  ELSE IF f.contentsI < Len(f.contents)
       THEN [entry |-> f.contents[f.contentsI + 1], fco |-> [f EXCEPT !.contentsI = @ + 1]]
  ELSE [entry |-> NoMore, fco |-> f]

\* A directory the browser reported non-empty when it was opened.
NonEmptyDir(f) == f.ftype = "Directory" /\ ~f.isEmpty

\* A slip: delete_pending set without the non-empty-directory guard.
SetDispositionUnguarded(fc, fid, del) == [fc EXCEPT ![fid].deletePending = del]

\* FileDispositionInformation: delete_pending, unless a non-empty directory.
SetDisposition(fc, fid, del) ==
  IF NonEmptyDir(fc[fid]) THEN fc ELSE [fc EXCEPT ![fid].deletePending = del]


\* A TDP request: a path, and for Create the file type, for Move the new path.
TdpReq(k, c, p) == [kind |-> k, cid |-> c, path |-> p, arg |-> NoEntry]
\* A continuation: the RDP request it answers and the status it was given.
Cont(op, irp) == [op |-> op, irp |-> irp, io |-> NoEntry]

\* A handler that only writes replies.
Answer(rs) == Step(fileCache, nextFileId, pend, tdpOut, rs)

-----------------------------------------------------------------------------
(* Helpers shared by the IRP handlers and the continuations; viaTdp tells *)
(* which path writes their output (OnChannel).  A handler that returns no *)
(* bytes writes a bare completion on the IRP path, nothing on the other.  *)

\* prep_next_drive_query_dir_response, over the file cache fc.  Its arm
\* for other levels is dead: decode admitted only the four it matches.
PrepNextDriveQueryDirResponse(irp, fc, p, t, viaTdp) ==
  IF irp.fid \notin DOMAIN fc
  THEN Step(fc, nextFileId, p, t, <<OnChannel(DirReply(irp, "UNSUCCESSFUL", NoEntry), viaTdp)>>)
  ELSE LET n == NextEntry(fc[irp.fid])
           fcNext == [fc EXCEPT ![irp.fid] = n.fco]
           st == IF n.entry = NoMore THEN "NO_MORE_FILES" ELSE "SUCCESS"
       IN Step(fcNext, nextFileId, p, t, <<OnChannel(DirReply(irp, st, n.entry), viaTdp)>>)

\* A new file id and FileCacheObject for an opened or created path (only
\* ever run by a continuation).
OpenFile(irp, fso, p, t) ==
  LET fid == GenerateFileId(nextFileId) IN
  Step((fid :> NewFCO(irp.path, fso.ftype, fso.isEmpty)) @@ fileCache, fid, p, t,
       <<OnChannel(CreateReply(irp, "SUCCESS", fid), TRUE)>>)

\* tdp_sd_create
TdpSdCreate(irp, ftype, p, t) ==
  Step(fileCache, nextFileId, Register(p, "Create", irp.cid, Cont("Create", irp)),
       t \cup {[TdpReq("Create", irp.cid, irp.path) EXCEPT !.arg = ftype]}, <<>>)

\* A slip: the overwrite's delete continuation filed in the create table.
TdpSdOverwriteWrongTable(irp, p, t) ==
  Step(fileCache, nextFileId, Register(p, "Create", irp.cid, Cont("Overwrite", irp)),
       t \cup {TdpReq("Delete", irp.cid, irp.path)}, <<>>)

\* tdp_sd_overwrite: delete, then create on success.
TdpSdOverwrite(irp, p, t) ==
  Step(fileCache, nextFileId, Register(p, "Delete", irp.cid, Cont("Overwrite", irp)),
       t \cup {TdpReq("Delete", irp.cid, irp.path)}, <<>>)

\* tdp_sd_move: the cached path moves to the new path.
TdpSdMove(irp, io, p, t, viaTdp) ==
  IF irp.fid \in DOMAIN fileCache
  THEN Step(fileCache, nextFileId,
            Register(p, "Move", irp.cid, [Cont("Move", irp) EXCEPT !.io = io]),
            t \cup {[TdpReq("Move", irp.cid, fileCache[irp.fid].path) EXCEPT !.arg = irp.newPath]},
            IF viaTdp THEN <<>> ELSE <<BareCompletion>>)
  ELSE Step(fileCache, nextFileId, p, t, <<OnChannel(Reply(irp, "UNSUCCESSFUL"), viaTdp)>>)

\* tdp_sd_read and tdp_sd_write: forward to the browser with the cached path.
TdpSdIo(kind, irp) ==
  IF irp.fid \in DOMAIN fileCache
  THEN Step(fileCache, nextFileId, Register(pend, kind, irp.cid, Cont(kind, irp)),
            tdpOut \cup {TdpReq(kind, irp.cid, fileCache[irp.fid].path)}, <<BareCompletion>>)
  ELSE Answer(<<Reply(irp, "UNSUCCESSFUL")>>)

-----------------------------------------------------------------------------
(* IRP handlers, the process_irp_ functions, with the header that        *)
(* handle_device_io_request adds to what they return.                   *)

\* process_irp_device_control for the drive: FreeRDP's no-op.
ProcessIrpDeviceControl(irp) == Answer(<<Reply(irp, "SUCCESS")>>)

\* process_irp_create: probe the path with a TDP Info request.
ProcessIrpCreate(irp) ==
  Step(fileCache, nextFileId, Register(pend, "Info", irp.cid, Cont("CreateProbe", irp)),
       tdpOut \cup {TdpReq("Info", irp.cid, irp.path)}, <<BareCompletion>>)

\* A slip: the return after tdp_sd_delete missing, so the close is also
\* answered at once.
ProcessIrpCloseNoReturn(irp) ==
  IF irp.fid \in DOMAIN fileCache
  THEN LET f == fileCache[irp.fid]
           rest == Restrict(fileCache, DOMAIN fileCache \ {irp.fid})
       IN IF f.deletePending
          THEN Step(rest, nextFileId, Register(pend, "Delete", irp.cid, Cont("CloseDelete", irp)),
                    tdpOut \cup {TdpReq("Delete", irp.cid, f.path)}, <<Reply(irp, "SUCCESS")>>)
          ELSE Step(rest, nextFileId, pend, tdpOut, <<Reply(irp, "SUCCESS")>>)
  ELSE Answer(<<Reply(irp, "UNSUCCESSFUL")>>)

\* process_irp_close: drop the cache entry; delete the file if delete_pending.
ProcessIrpClose(irp) ==
  IF irp.fid \in DOMAIN fileCache
  THEN LET f == fileCache[irp.fid]
           rest == Restrict(fileCache, DOMAIN fileCache \ {irp.fid})
       IN IF f.deletePending
          THEN Step(rest, nextFileId, Register(pend, "Delete", irp.cid, Cont("CloseDelete", irp)),
                    tdpOut \cup {TdpReq("Delete", irp.cid, f.path)}, <<BareCompletion>>)
          ELSE Step(rest, nextFileId, pend, tdpOut, <<Reply(irp, "SUCCESS")>>)
  ELSE Answer(<<Reply(irp, "UNSUCCESSFUL")>>)

\* process_irp_query_information: answered from the cache;
\* ClientDriveQueryInformationResponse::new fails on a cached file for a
\* class other than Basic, Standard and AttributeTag.
ProcessIrpQueryInformation(irp) ==
  IF irp.fid \notin DOMAIN fileCache THEN Answer(<<Reply(irp, "UNSUCCESSFUL")>>)
  ELSE IF ~irp.lvlOk THEN SessionError
  ELSE Answer(<<Reply(irp, "SUCCESS")>>)

\* A slip: other minor functions returned without a reply, like the change
\* notification.
ProcessIrpDirectoryControlOtherIgnored(irp) ==
  CASE irp.minor = "QUERY_DIRECTORY" ->
         IF ~irp.lvlOk THEN SessionError
         ELSE IF irp.fid \notin DOMAIN fileCache
         THEN Answer(<<DirReply(irp, "UNSUCCESSFUL", NoEntry)>>)
         ELSE IF fileCache[irp.fid].ftype # "Directory" THEN SessionError
         ELSE IF ~irp.initial THEN PrepNextDriveQueryDirResponse(irp, fileCache, pend, tdpOut, FALSE)
         ELSE Step(fileCache, nextFileId, Register(pend, "List", irp.cid, Cont("List", irp)),
                   tdpOut \cup {TdpReq("List", irp.cid, fileCache[irp.fid].path)},
                   <<BareCompletion>>)
    [] OTHER -> Answer(<<BareCompletion>>)

\* process_irp_directory_control
ProcessIrpDirectoryControl(irp) ==
  CASE irp.minor = "QUERY_DIRECTORY" ->
         IF ~irp.lvlOk THEN SessionError
         ELSE IF irp.fid \notin DOMAIN fileCache
         THEN Answer(<<DirReply(irp, "UNSUCCESSFUL", NoEntry)>>)
         ELSE IF fileCache[irp.fid].ftype # "Directory" THEN SessionError
         ELSE IF ~irp.initial THEN PrepNextDriveQueryDirResponse(irp, fileCache, pend, tdpOut, FALSE)
         ELSE Step(fileCache, nextFileId, Register(pend, "List", irp.cid, Cont("List", irp)),
                   tdpOut \cup {TdpReq("List", irp.cid, fileCache[irp.fid].path)},
                   <<BareCompletion>>)
    [] irp.minor = "NOTIFY_CHANGE_DIRECTORY" -> Answer(<<BareCompletion>>)
    [] OTHER -> Answer(<<DirReply(irp, "NOT_SUPPORTED", NoEntry)>>)

\* process_irp_query_volume_information: a level decode rejects, or an
\* unknown file id, is an error; every level decode admits has a buffer.
ProcessIrpQueryVolumeInformation(irp) ==
  IF irp.lvlOk /\ irp.fid \in DOMAIN fileCache THEN Answer(<<Reply(irp, "SUCCESS")>>)
  ELSE SessionError

ProcessIrpRead(irp) == TdpSdIo("Read", irp)
ProcessIrpWrite(irp) == TdpSdIo("Write", irp)

\* process_irp_set_information, with rename and its two variants.
ProcessIrpSetInformation(irp) ==
  IF irp.fid \notin DOMAIN fileCache THEN Answer(<<Reply(irp, "UNSUCCESSFUL")>>)
  ELSE LET f == fileCache[irp.fid]
           io == IF NonEmptyDir(f) THEN "DIRECTORY_NOT_EMPTY" ELSE "SUCCESS"
       IN CASE irp.cls = "Rename" /\ irp.replace ->
                 TdpSdMove(irp, io, pend, tdpOut, FALSE)
            [] irp.cls = "Rename" ->
                 Step(fileCache, nextFileId,
                      Register(pend, "Info", irp.cid, [Cont("RenameProbe", irp) EXCEPT !.io = io]),
                      tdpOut \cup {TdpReq("Info", irp.cid, irp.newPath)}, <<BareCompletion>>)
            [] irp.cls = "Disposition" ->
                 Step(SetDisposition(fileCache, irp.fid, irp.del),
                      nextFileId, pend, tdpOut, <<Reply(irp, io)>>)
            [] irp.cls = "Basic" -> Answer(<<Reply(irp, io)>>)
            [] OTHER -> SessionError


-----------------------------------------------------------------------------
(* The continuations the handlers leave in the tables, run by              *)
(* handle_tdp_sd_*_response with the browser's result res.                 *)

\* The info-response closure of process_irp_create: what to do given the
\* disposition, the options and whether (and as what) the path exists.
\* The FILE_DIRECTORY_FILE test uses bitflags' intersects on the disposition.
CreateDecision(irp, res) ==
  LET d == irp.disp
      exists == res.err = "Nil"
      Do(act, st, ty) == [act |-> act, status |-> st, ftype |-> ty]
  IN IF res.err \in {"Failed", "AlreadyExists"} THEN Do("fail", NoEntry, NoEntry)
     ELSE IF exists /\ res.ftype = "Directory" /\ d = FILE_CREATE
          THEN Do("reply", "OBJECT_NAME_COLLISION", NoEntry)
     ELSE IF exists /\ res.ftype = "Directory" /\ irp.opt = "NonDir"
          THEN Do("reply", "ACCESS_DENIED", NoEntry)
     ELSE IF exists /\ res.ftype # "Directory" /\ irp.opt = "Dir"
          THEN Do("reply", "NOT_A_DIRECTORY", NoEntry)
     ELSE IF ~exists /\ irp.opt = "Dir"
          THEN IF (d & (FILE_OPEN_IF | FILE_CREATE)) # 0
               THEN Do("create", NoEntry, "Directory")
               ELSE Do("reply", "NO_SUCH_FILE", NoEntry)
     ELSE IF exists
          THEN CASE d \in {FILE_SUPERSEDE, FILE_OVERWRITE, FILE_OVERWRITE_IF} ->
                      Do("overwrite", NoEntry, "File")
                 [] d \in {FILE_OPEN, FILE_OPEN_IF} -> Do("open", "SUCCESS", NoEntry)
                 [] d = FILE_CREATE -> Do("reply", "OBJECT_NAME_COLLISION", NoEntry)
     ELSE IF d \in {FILE_OPEN, FILE_OVERWRITE} THEN Do("reply", "NO_SUCH_FILE", NoEntry)
     ELSE Do("create", NoEntry, "File")

OnCreateProbe(irp, res, p, t) ==
  LET dec == CreateDecision(irp, res) IN
  CASE dec.act = "fail" -> SessionError
    [] dec.act = "reply" ->
         Step(fileCache, nextFileId, p, t, <<OnChannel(CreateReply(irp, dec.status, 0), TRUE)>>)
    [] dec.act = "open" -> OpenFile(irp, res, p, t)
    [] dec.act = "create" -> TdpSdCreate(irp, dec.ftype, p, t)
    [] dec.act = "overwrite" -> TdpSdOverwrite(irp, p, t)

\* Reply to the IRP of a continuation and write it.
Finish(r, p, t) == Step(fileCache, nextFileId, p, t, <<OnChannel(r, TRUE)>>)

\* A slip: the overwrite's failed delete answered with a close response,
\* as in tdp_sd_delete's closure.
OnOverwriteDeleteCloseReply(irp, res, p, t) ==
  IF res.err = "Nil" THEN TdpSdCreate(irp, "File", p, t)
  ELSE Finish(Reply([irp EXCEPT !.major = "CLOSE"], "UNSUCCESSFUL"), p, t)

\* tdp_sd_overwrite's closure: create the file once the delete succeeded.
OnOverwriteDelete(irp, res, p, t) ==
  IF res.err = "Nil" THEN TdpSdCreate(irp, "File", p, t)
  ELSE Finish(CreateReply(irp, "UNSUCCESSFUL", 0), p, t)

RunContinuation(cont, res, p, t) ==
  LET irp == cont.irp
      ok == res.err = "Nil"
      st == IF ok THEN "SUCCESS" ELSE "UNSUCCESSFUL"
  IN CASE cont.op = "CreateProbe" -> OnCreateProbe(irp, res, p, t)
       \* tdp_sd_create's closure
       [] cont.op = "Create" ->
            IF ok THEN OpenFile(irp, res, p, t) ELSE Finish(CreateReply(irp, st, 0), p, t)
       [] cont.op = "Overwrite" -> OnOverwriteDelete(irp, res, p, t)
       \* tdp_sd_delete's closure
       [] cont.op = "CloseDelete" -> Finish(Reply(irp, st), p, t)
       \* the list-response closure of process_irp_directory_control
       [] cont.op = "List" ->
            IF ~ok THEN SessionError
            ELSE IF irp.fid \in DOMAIN fileCache
            THEN PrepNextDriveQueryDirResponse(irp,
                   [fileCache EXCEPT ![irp.fid].contents = res.list], p, t, TRUE)
            ELSE Finish(DirReply(irp, "UNSUCCESSFUL", NoEntry), p, t)
       \* tdp_sd_read's and tdp_sd_write's closures
       [] cont.op \in {"Read", "Write"} -> Finish(Reply(irp, st), p, t)
       \* tdp_sd_move's closure
       [] cont.op = "Move" -> Finish(Reply(irp, IF ok THEN cont.io ELSE st), p, t)
       \* rename_dont_replace_if_exists's closure
       [] cont.op = "RenameProbe" ->
            IF res.err = "DoesNotExist" THEN TdpSdMove(irp, cont.io, p, t, TRUE)
            ELSE Finish(Reply(irp, "OBJECT_NAME_COLLISION"), p, t)

\* What the browser may answer to a request.
TdpResults(req) ==
  LET R(errs, types, empties, lists) ==
        [err: errs, ftype: types, isEmpty: empties, list: lists]
  IN CASE req.kind = "Info" ->
            R({"Nil"}, FileTypes, BOOLEAN, {<<>>})
              \cup R({"DoesNotExist", "Failed", "AlreadyExists"}, {"File"}, {TRUE}, {<<>>})
       [] req.kind = "List" -> R({"Nil", "Failed"}, {"Directory"}, {TRUE}, ListResults)
       [] req.kind = "Create" -> R({"Nil", "Failed"}, {req.arg}, {TRUE}, {<<>>})
       [] OTHER -> R({"Nil", "Failed"}, {"File"}, {TRUE}, {<<>>})

\* The browser's file system, where it is modelled. A path's entries are
\* the paths InDir puts in it. An Info answer reports the path as it is
\* (any request may also fail); a successful Create, Delete or Move changes
\* it. A Delete removes the entries with the directory, and a Move does not
\* carry them along.
HasEntry(f, p) == \E q \in Paths : <<p, q>> \in InDir /\ f[q] # "None"

FsAgrees(req, res) ==
  req.kind = "Info" =>
    \/ res.err = "Failed"
    \/ res.err = "Nil" /\ res.ftype = fs[req.path] /\ res.isEmpty = ~HasEntry(fs, req.path)
    \/ res.err = "DoesNotExist" /\ fs[req.path] = "None"

BrowserResults(req) == {res \in TdpResults(req) : BrowserFs => FsAgrees(req, res)}

FsAfter(req, res) ==
  IF ~BrowserFs \/ res.err # "Nil" THEN fs
  ELSE CASE req.kind = "Create" -> [fs EXCEPT ![req.path] = req.arg]
         [] req.kind = "Delete" ->
              [q \in Paths |-> IF q = req.path \/ <<req.path, q>> \in InDir THEN "None" ELSE fs[q]]
         [] req.kind = "Move" -> [fs EXCEPT ![req.arg] = fs[req.path], ![req.path] = "None"]
         [] OTHER -> fs

\* handle_tdp_sd_<kind>_response: remove the continuation of the completion
\* id from the kind's table and run it; an unknown id is an error.
\* The browser's answer to the request req.
AnswerTdp(req) ==
  /\ alive
  /\ req \in tdpOut
  /\ \E res \in BrowserResults(req) :
       /\ IF req.cid \in DOMAIN pend[req.kind]
          THEN RunContinuation(pend[req.kind][req.cid], res,
                               Unregister(pend, req.kind, req.cid), tdpOut \ {req})
          ELSE SessionError
       /\ fs' = FsAfter(req, res)
  /\ UNCHANGED <<rdpIn, creates>>

HandleTdpResponse(kind) == \E req \in {r \in tdpOut : r.kind = kind} : AnswerTdp(req)

HandleTdpSdInfoResponse == HandleTdpResponse("Info")
HandleTdpSdCreateResponse == HandleTdpResponse("Create")
HandleTdpSdDeleteResponse == HandleTdpResponse("Delete")
HandleTdpSdListResponse == HandleTdpResponse("List")
HandleTdpSdReadResponse == HandleTdpResponse("Read")
HandleTdpSdWriteResponse == HandleTdpResponse("Write")
HandleTdpSdMoveResponse == HandleTdpResponse("Move")


-----------------------------------------------------------------------------
(* The client reads the next IRP: handle_device_io_request's dispatch on   *)
(* the MajorFunction.                                                      *)

HandleDeviceIoRequest ==
  /\ alive
  /\ rdpIn # <<>>
  /\ rdpIn' = Tail(rdpIn)
  /\ UNCHANGED <<creates, fs>>
  /\ LET irp == Head(rdpIn) IN
     \/ irp.major = "DEVICE_CONTROL" /\ ProcessIrpDeviceControl(irp)
     \/ irp.major = "CREATE" /\ ProcessIrpCreate(irp)
     \/ irp.major = "QUERY_INFORMATION" /\ ProcessIrpQueryInformation(irp)
     \/ irp.major = "CLOSE" /\ ProcessIrpClose(irp)
     \/ irp.major = "DIRECTORY_CONTROL" /\ ProcessIrpDirectoryControl(irp)
     \/ irp.major = "QUERY_VOLUME_INFORMATION" /\ ProcessIrpQueryVolumeInformation(irp)
     \/ irp.major = "READ" /\ ProcessIrpRead(irp)
     \/ irp.major = "WRITE" /\ ProcessIrpWrite(irp)
     \/ irp.major = "SET_INFORMATION" /\ ProcessIrpSetInformation(irp)

-----------------------------------------------------------------------------
(* The server. It follows the Windows I/O manager: a completion id is not  *)
(* reused while its IRP is outstanding; IRPs name handles it has opened;   *)
(* CLOSE is sent once no other IRP but a change notification is pending on *)
(* the handle, and nothing follows it; one QUERY_DIRECTORY at a time per   *)
(* handle, the first of a scan with initial set, none after NO_MORE_FILES  *)
(* but a new initial one.                                                  *)


MayIssue(irp) ==
  /\ irp.cid \notin DOMAIN irps
  /\ IF irp.major = "CREATE" THEN creates < MaxCreates
     ELSE /\ irp.fid \in DOMAIN handles
          /\ ~handles[irp.fid].closing
          /\ irp.major = "CLOSE" =>
               \A c \in DOMAIN irps : OnHandle(irps[c], irp.fid) => IsNotify(irps[c])
          /\ IsQueryDir(irp) =>
               /\ \A c \in DOMAIN irps : ~(IsQueryDir(irps[c]) /\ irps[c].fid = irp.fid)
               /\ IF irp.initial THEN handles[irp.fid].inits < MaxInitialQueries
                  ELSE /\ handles[irp.fid].inits > 0
                       /\ ~(handles[irp.fid].seen # <<>> /\ Last(handles[irp.fid].seen) = NoMore)

ServerIssue(h, irp) ==
  CASE irp.major = "CLOSE" -> [h EXCEPT ![irp.fid].closing = TRUE]
    [] IsQueryDir(irp) /\ irp.initial -> [h EXCEPT ![irp.fid].seen = <<>>, ![irp.fid].inits = @ + 1]
    [] OTHER -> h

ServerSendsIrp ==
  /\ alive
  /\ \E irp \in ServerIrps :
       /\ MayIssue(irp)
       /\ irps' = (irp.cid :> irp) @@ irps
       /\ rdpIn' = Append(rdpIn, irp)
       /\ creates' = IF irp.major = "CREATE" THEN creates + 1 ELSE creates
       /\ handles' = ServerIssue(handles, irp)
  /\ out' = <<>>
  /\ UNCHANGED <<fileCache, nextFileId, pend, tdpOut, alive, panicked, fs>>

\* After an error the session is over.
SessionEnded == ~alive /\ UNCHANGED vars

\* The server has used up its bounded supply of IRPs (completion ids held by
\* unanswered IRPs, or no CREATE left and no handle open) and nothing is in
\* flight: the run is over.
ServerDone ==
  /\ alive /\ rdpIn = <<>> /\ tdpOut = {}
  /\ \A irp \in ServerIrps : ~MayIssue(irp)
  /\ UNCHANGED vars

-----------------------------------------------------------------------------
Init ==
  /\ fileCache = <<>>
  /\ nextFileId = 0
  /\ pend = [k \in TdpKinds |-> <<>>]
  /\ tdpOut = {}
  /\ rdpIn = <<>>
  /\ irps = <<>>
  /\ handles = <<>>
  /\ creates = 0
  /\ out = <<>>
  /\ alive = TRUE
  /\ panicked = FALSE
  /\ fs = InitialFs

TdpResponse ==
  \/ HandleTdpSdInfoResponse
  \/ HandleTdpSdCreateResponse
  \/ HandleTdpSdDeleteResponse
  \/ HandleTdpSdListResponse
  \/ HandleTdpSdReadResponse
  \/ HandleTdpSdWriteResponse
  \/ HandleTdpSdMoveResponse

Next ==
  \/ ServerSendsIrp
  \/ HandleDeviceIoRequest
  \/ TdpResponse
  \/ SessionEnded
  \/ ServerDone

\* The session task reads every IRP that arrives, and the browser answers
\* every TDP request it was sent (each one, not just some of each kind).
Fairness ==
  /\ WF_vars(HandleDeviceIoRequest)
  /\ \A c \in Cids : WF_vars(\E req \in tdpOut : req.cid = c /\ AnswerTdp(req))

Spec == Init /\ [][Next]_vars /\ Fairness

-----------------------------------------------------------------------------
(* Refinement of IrpService.  An IRP still on the channel is queued; one   *)
(* the client has taken and not answered waits on the browser while a TDP *)
(* request with its completion id is out, and is parked otherwise; the     *)
(* completions of the last step are what the client wrote.  After a       *)
(* session error the queue and the stages are gone.                        *)

QueuedCids == {rdpIn[i].cid : i \in 1 .. Len(rdpIn)}
AwaitsBrowser(c) == \E req \in tdpOut : req.cid = c

IrpSvc == INSTANCE IrpService WITH
  Irps <- ServerIrps,
  queue <- IF alive THEN rdpIn ELSE <<>>,
  outstanding <- irps,
  stage <- IF alive
           THEN [c \in DOMAIN irps \ QueuedCids |->
                   IF AwaitsBrowser(c) THEN "browser" ELSE "parked"]
           ELSE <<>>,
  done <- {[cid |-> r.cid, type |-> r.type] : r \in Completions(out)}


-----------------------------------------------------------------------------
(* Properties. The action properties look at the PDUs a step writes; a    *)
(* stuttering step leaves the last ones in out and writes nothing.          *)

TypeOK ==
  /\ DOMAIN fileCache \subseteq FileIds
  /\ \A f \in Range(fileCache) :
       /\ f.path \in Paths /\ f.ftype \in FileTypes /\ f.deletePending \in BOOLEAN
       /\ f.contentsI \in 0 .. Len(f.contents)
  /\ nextFileId \in FileIds
  /\ DOMAIN pend = TdpKinds /\ \A k \in TdpKinds : DOMAIN pend[k] \subseteq Cids
  /\ tdpOut \subseteq [kind: TdpKinds, cid: Cids, path: Paths,
                       arg: Paths \cup FileTypes \cup {NoEntry}]
  /\ \A i \in 1 .. Len(rdpIn) : rdpIn[i] \in ServerIrps
  /\ DOMAIN irps \subseteq Cids /\ DOMAIN handles \subseteq FileIds
  /\ creates \in 0 .. MaxCreates
  /\ alive \in BOOLEAN /\ panicked \in BOOLEAN
  /\ fs \in [Paths -> {"None"} \cup FileTypes]

\* The seven continuation tables and the TDP requests in flight stay in
\* step: every request the browser may answer has exactly one continuation,
\* in the table of its kind, for the IRP the server still awaits; every
\* continuation has its request; no two requests share a completion id.
\* A continuation filed in the wrong table, or an IRP answered while a
\* request for it is still out, ends the session with "invalid completion id".
CompletionCorrelation ==
  alive =>
  /\ \A req \in tdpOut :
       /\ req.cid \in DOMAIN pend[req.kind]
       /\ req.cid \in DOMAIN irps
       /\ pend[req.kind][req.cid].irp = irps[req.cid]
  /\ \A k \in TdpKinds : \A c \in DOMAIN pend[k] :
       \E req \in tdpOut : req.kind = k /\ req.cid = c
  /\ \A r1, r2 \in tdpOut : r1.cid = r2.cid => r1 = r2

\* Every DEVICE_IOCOMPLETION the client writes answers an IRP the server is
\* waiting for, with the response type of that IRP's MajorFunction, at most
\* one per step, and nothing is left pending for an IRP once it is answered.
ReplyMatchesIrp ==
  [][UNCHANGED vars \/
     /\ Len(SelectSeq(out', LAMBDA r : r.type # "Bare")) <= 1
     /\ \A r \in Answers(out') :
          /\ r.cid \in DOMAIN irps
          /\ r.type = ResponseType[irps[r.cid].major]
          /\ \A k \in TdpKinds : r.cid \notin DOMAIN pend'[k]]_vars

\* A CLOSE is reported successful only if the file was deleted exactly when
\* the server had set delete-on-close on the handle (delete_pending in
\* process_irp_set_information, tdp_sd_delete in process_irp_close).
DeleteOnCloseHonoured ==
  [][UNCHANGED vars \/ \A r \in Answers(out') :
       r.type = "Close" /\ r.status = "SUCCESS" =>
         (handles[irps[r.cid].fid].del <=>
            \E req \in tdpOut \ tdpOut' : req.kind = "Delete" /\ req.cid = r.cid)]_vars

\* What the server has read of a directory scan is ".", "..", the listing,
\* then NO_MORE_FILES, in that order (spec section 8.4: n + 2 entries, then
\* STATUS_NO_MORE_FILES).
DirListingOrder ==
  \A h \in DOMAIN handles \cap DOMAIN fileCache :
    IsPrefix(handles[h].seen, <<Dot, DotDot>> \o fileCache[h].contents \o <<NoMore>>)

\* The client implements IrpService: IRPs are taken in arrival order; every
\* IRP it has taken and not answered has a TDP request in flight, unless it
\* is a change notification; an IRP waiting on the browser is answered only
\* by a browser answer; each IRP is answered once, with its own response
\* type. A handler or continuation that returns without a reply and without
\* a new request strands its IRP, which no single test observes.
IrpServiceRefined == IrpSvc!ASpec

\* Every IRP but a change notification is eventually completed, unless the
\* session ends: the server reads a DEVICE_IOCOMPLETION for it (spec
\* section 4.5), whether the client answered it at once or in a TDP
\* continuation (handle_tdp_sd_*_response's write loop).
IrpsEventuallyCompleted ==
  \A c \in Cids :
    [](c \in DOMAIN irps /\ ~IsNotify(irps[c]) => <>(~alive \/ c \notin DOMAIN irps))


\* Spec section 4.4: FILE_OPEN and FILE_OVERWRITE never create anything; on a
\* missing path they answer STATUS_NO_SUCH_FILE. No TDP create request is
\* sent for such a CREATE (process_irp_create's info-response closure).
NoCreateOnOpen ==
  [][UNCHANGED vars \/
     \A req \in tdpOut' \ tdpOut :
       req.kind = "Create" => irps[req.cid].disp \notin {FILE_OPEN, FILE_OVERWRITE}]_vars

\* Spec section 3: a FileCacheObject's path follows renames. Every TDP
\* request made for an IRP on an open handle (read, write, delete on close,
\* move, list) names the path the server knows that handle by.
PathCoherence ==
  [][UNCHANGED vars \/
     \A req \in tdpOut' \ tdpOut :
       LET irp == irps[req.cid] IN
       irp.major # "CREATE" /\ req.kind # "Info" => req.path = handles[irp.fid].path]_vars

\* Spec section 4.5: an IRP handler that waits for the browser returns no
\* RDP bytes, so nothing is written until the completion is ready; the
\* client never writes a DEVICE_IOCOMPLETION that completes nothing.
NoBareCompletion == \A r \in Range(out) : r.type # "Bare"


\* Closing a handle never makes the client ask the browser to delete a
\* directory that holds an entry: process_irp_set_information leaves
\* delete_pending unset on a non-empty directory (spec 4.4, SET_INFORMATION
\* rules) and process_irp_close deletes only what was marked. The emptiness
\* the guard reads is the is_empty the browser reported when the handle was
\* opened. (A FILE_SUPERSEDE of a directory deletes it too; spec 4.4 asks for
\* that, so those deletes are not the subject here.)
NonEmptyDirNeverDeleted ==
  [][\A req \in tdpOut' \ tdpOut :
       req.kind = "Delete" /\ pend'["Delete"][req.cid].op = "CloseDelete" =>
         ~HasEntry(fs, req.path)]_vars

\* The Information value spec section 4.4 gives a CREATE response.
SpecInformation(disp, status) ==
  IF status # "SUCCESS" \/ disp \in {FILE_SUPERSEDE, FILE_OPEN, FILE_CREATE, FILE_OVERWRITE}
  THEN "FILE_SUPERSEDED"
  ELSE IF disp = FILE_OPEN_IF THEN "FILE_OPENED" ELSE "FILE_OVERWRITTEN"

(* Every CREATE response carries the Information spec section 4.4 names:  *)
(* FILE_SUPERSEDED for SUPERSEDE, OPEN, CREATE and OVERWRITE or on any    *)
(* failure, FILE_OPENED for OPEN_IF, FILE_OVERWRITTEN for OVERWRITE_IF;  *)
(* and DeviceCreateResponse::new, reached from every create path of       *)
(* process_irp_create and its continuations, never ends in its panic!.    *)
CreateInformationAsSpecified ==
  [][/\ ~panicked'
     /\ \A r \in Answers(out') :
          r.type = "Create" => r.info = SpecInformation(irps[r.cid].disp, r.status)]_vars
=============================================================================
