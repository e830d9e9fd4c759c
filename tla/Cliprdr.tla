------------------------------ MODULE Cliprdr ------------------------------
(***************************************************************************)
(* The CLIPRDR client of src/lib/srv/desktop/rdp/rdpclient/src/cliprdr.rs *)
(* and the server it talks to.  Both directions are virtual-channel chunk *)
(* streams (FIFO, as MCS over TCP is); the client reassembles inbound     *)
(* chunks in Client::read, dispatches whole PDUs in handle_message and    *)
(* emits replies through encode_message.  The host (Go) side may call     *)
(* update_clipboard at any time.                                          *)
(*                                                                        *)
(* Data abstraction: a byte string is a sequence of tokens.  Text bytes  *)
(* are "x", "CR", "LF", "NUL"; a format is named by a token whose id and *)
(* long name are given by FormatId and FormatName; a file list is the    *)
(* count token "n1" followed by one "desc" token per 592-byte            *)
(* descriptor.  The clipboard PDU header is one token (a record) placed  *)
(* in front of the payload, as encode_message does, and CHUNK stands for *)
(* vchan::CHANNEL_CHUNK_LEGNTH in the same unit.                         *)
(***************************************************************************)
EXTENDS Integers, Sequences, SequencesExt, Functions

CONSTANTS
    CHUNK,              \* tokens per channel chunk
    HostTexts,          \* byte strings the host may hand to update_clipboard
    ServerFormatLists,  \* format lists a remote copy may advertise
    CopiesSpaced,       \* TRUE: the remote user copies only while the channel is quiet
    MaxCopies, MaxPastes, MaxUpdates,
    MaxStrays           \* chunks without FIRST a faulty server may send between PDUs

ASSUME CHUNK >= 2

VARIABLES
    clipboard,          \* Client.clipboard : format id -> bytes
    pending,            \* Client.pending : [data, total, hdr]
    isExpectingFileList,\* Client.file_list_manager.is_expecting_file_list
    fileList,           \* Client.file_list_manager.file_list
    alive,              \* FALSE once a handler has returned Err
    toClient, toServer, \* chunk streams
    srvPhase, srvFormats, copies, pastes, updates, strays,
    srvSent,            \* ghost: every PDU the server sent, in order
    handled,            \* ghost: every PDU handle_message was given, in order
    requested,          \* ghost: formats of the client's data requests not yet answered
    remoteCopies,       \* ghost: what on_remote_copy received, with the format it was for
    awaited             \* ghost: the server's paste requests it has read no response to

vars == <<clipboard, pending, isExpectingFileList, fileList, alive, toClient,
          toServer, srvPhase, srvFormats, copies, pastes, updates, strays, srvSent,
          handled, requested, remoteCopies, awaited>>

NoHdr == [type |-> "NONE", flags |-> {}, len |-> 0]   \* Option::None
CF_OEMTEXT == 7
CLIPBOARD_FORMAT_NAME_FILE_LIST == "FileGroupDescriptorW"
FormatId == [ZERO |-> 0, OEMTEXT |-> 7, UNICODETEXT |-> 13, HDROP |-> 15,
             FILELIST |-> 49158]
FormatName == [ZERO |-> "", OEMTEXT |-> "", UNICODETEXT |-> "", HDROP |-> "",
               FILELIST |-> CLIPBOARD_FORMAT_NAME_FILE_LIST]
Formats == DOMAIN FormatId
TextBytes == {"x", "CR", "LF", "NUL"}
FileListData == <<"n1", "desc">>
ServerTexts == {<<"x", "NUL">>}

(* encode_message: header flags by message type. *)
HeaderFlags(type) ==
    IF type \in {"FORMAT_DATA_RESPONSE", "FORMAT_LIST_RESPONSE"}
    THEN {"RESPONSE_OK"} ELSE {}

ShowProtocolTypes == {"FORMAT_LIST", "CLIP_CAPS", "FORMAT_DATA_REQUEST",
                      "FORMAT_DATA_RESPONSE"}

(* The while loop of encode_message: split the inner PDU into chunks of   *)
(* at most CHUNK, FIRST on the first, LAST on the one leaving nothing,    *)
(* the total length on every chunk.                                       *)
RECURSIVE ChunksChunkTotal(_, _, _, _)
ChunksChunkTotal(inner, first, total, chf) ==
    IF inner = <<>> THEN <<>>
    ELSE LET i == IF Len(inner) < CHUNK THEN Len(inner) ELSE CHUNK
             leftover == SubSeq(inner, i + 1, Len(inner))
         IN << [total |-> i, data |-> SubSeq(inner, 1, i),
                flags |-> chf \cup (IF first THEN {"FIRST"} ELSE {})
                              \cup (IF leftover = <<>> THEN {"LAST"} ELSE {})] >>
            \o ChunksChunkTotal(leftover, FALSE, total, chf)

RECURSIVE Chunks(_, _, _, _)
Chunks(inner, first, total, chf) ==
    IF inner = <<>> THEN <<>>
    ELSE LET i == IF Len(inner) < CHUNK THEN Len(inner) ELSE CHUNK
             leftover == SubSeq(inner, i + 1, Len(inner))
         IN << [total |-> total, data |-> SubSeq(inner, 1, i),
                flags |-> chf \cup (IF first THEN {"FIRST"} ELSE {})
                              \cup (IF leftover = <<>> THEN {"LAST"} ELSE {})] >>
            \o Chunks(leftover, FALSE, total, chf)

Header(type, flags, payload) == [type |-> type, flags |-> flags, len |-> Len(payload)]

EncodeWith(type, flags, payload) ==
    LET inner == <<Header(type, flags, payload)>> \o payload
    IN Chunks(inner, TRUE, Len(inner),
              IF type \in ShowProtocolTypes THEN {"SHOW_PROTOCOL"} ELSE {})

EncodeMessage(type, payload) == EncodeWith(type, HeaderFlags(type), payload)

(* update_clipboard: LF -> CRLF unless the previous byte is CR, then a   *)
(* NUL terminator unless the result is empty or already ends in NUL.     *)
ToOemTextFirstLF(data) ==
    LET conv == FlattenSeq([i \in 1..Len(data) |->
                    IF data[i] = "LF" /\ i > 1 /\ data[i-1] # "CR"
                    THEN <<"CR", "LF">> ELSE <<data[i]>>])
    IN IF conv # <<>> /\ Last(conv) # "NUL" THEN Append(conv, "NUL") ELSE conv

ToOemText(data) ==
    LET conv == FlattenSeq([i \in 1..Len(data) |->
                    IF data[i] = "LF" /\ (i = 1 \/ data[i-1] # "CR")
                    THEN <<"CR", "LF">> ELSE <<data[i]>>])
    IN IF conv # <<>> /\ Last(conv) # "NUL" THEN Append(conv, "NUL") ELSE conv

(* handle_file_list: a u32 count, then that many descriptors; a short    *)
(* buffer is an Err from read_u32 / seek.                                *)
FileListCount(data) == IF data # <<>> /\ data[1] = "n1" THEN 1 ELSE -1
FileListOk(data) == FileListCount(data) >= 0 /\ Len(data) >= 1 + FileListCount(data)
FileListEntriesFromStart(data) == SubSeq(data, 1, FileListCount(data))
FileListEntries(data) == SubSeq(data, 2, 1 + FileListCount(data))

(* The null-terminator trim of handle_format_data_response. *)
TrimNul(text) == IF text # <<>> /\ Last(text) = "NUL"
                 THEN SubSeq(text, 1, Len(text) - 1) ELSE text

IsOemText(tok) == FormatId[tok] = CF_OEMTEXT
IsFileList(tok) == ~IsOemText(tok) /\ FormatName[tok] = CLIPBOARD_FORMAT_NAME_FILE_LIST
(* The requests handle_format_list emits, in list order: OEM text by id, *)
(* the file list by its long name; every other format is only logged.   *)
Requests(list) == SelectSeq(list, LAMBDA tok : IsOemText(tok) \/ IsFileList(tok))

Respond(msgs) == toServer' = toServer \o msgs
Fail == alive' = FALSE /\ UNCHANGED <<toServer, clipboard, isExpectingFileList,
                                      fileList, requested, remoteCopies>>

HandleFormatListNoFileListFlag(list) ==
    LET reqs == Requests(list)
    IN /\ Respond(EncodeMessage("FORMAT_LIST_RESPONSE", <<>>)
                  \o FlattenSeq([i \in 1..Len(reqs) |->
                                   EncodeMessage("FORMAT_DATA_REQUEST", <<reqs[i]>>)]))
       /\ isExpectingFileList' = IF reqs = <<>> THEN isExpectingFileList ELSE FALSE
       /\ requested' = requested \o reqs
       /\ UNCHANGED <<clipboard, fileList, alive, remoteCopies>>

HandleFormatListFlagNeverCleared(list) ==
    LET reqs == Requests(list)
    IN /\ Respond(EncodeMessage("FORMAT_LIST_RESPONSE", <<>>)
                  \o FlattenSeq([i \in 1..Len(reqs) |->
                                   EncodeMessage("FORMAT_DATA_REQUEST", <<reqs[i]>>)]))
       /\ isExpectingFileList' = (isExpectingFileList \/ \E i \in 1..Len(reqs) : IsFileList(reqs[i]))
       /\ requested' = requested \o reqs
       /\ UNCHANGED <<clipboard, fileList, alive, remoteCopies>>

(* handle_format_list: FORMAT_LIST_RESPONSE, then one FORMAT_DATA_REQUEST *)
(* per supported entry; each entry sets is_expecting_file_list, so the    *)
(* last supported entry decides it.                                       *)
HandleFormatList(list) ==
    LET reqs == Requests(list)
    IN /\ Respond(EncodeMessage("FORMAT_LIST_RESPONSE", <<>>)
                  \o FlattenSeq([i \in 1..Len(reqs) |->
                                   EncodeMessage("FORMAT_DATA_REQUEST", <<reqs[i]>>)]))
       /\ isExpectingFileList' = IF reqs = <<>> THEN isExpectingFileList
                                 ELSE IsFileList(Last(reqs))
       /\ requested' = requested \o reqs
       /\ UNCHANGED <<clipboard, fileList, alive, remoteCopies>>

(* A slip: the cached bytes are looked up but the response is not returned. *)
HandleFormatDataRequestNoReply(tok) ==
    IF FormatId[tok] \in DOMAIN clipboard
    THEN /\ Respond(<<>>)
         /\ UNCHANGED <<clipboard, isExpectingFileList, fileList, alive,
                        requested, remoteCopies>>
    ELSE Fail

(* handle_format_data_request: the cached bytes, or Err on a miss. *)
HandleFormatDataRequest(tok) ==
    IF FormatId[tok] \in DOMAIN clipboard
    THEN /\ Respond(EncodeMessage("FORMAT_DATA_RESPONSE", clipboard[FormatId[tok]]))
         /\ UNCHANGED <<clipboard, isExpectingFileList, fileList, alive,
                        requested, remoteCopies>>
    ELSE Fail

(* handle_format_data_response (RESPONSE_OK): parse as a file list when  *)
(* is_expecting_file_list, else take the bytes as text; trim one NUL and *)
(* hand the result to on_remote_copy.                                    *)
HandleFormatDataResponse(data) ==
    IF isExpectingFileList /\ ~FileListOk(data)
    THEN Fail
    ELSE LET text == IF isExpectingFileList THEN <<>> ELSE data
         IN /\ fileList' = IF isExpectingFileList
                           THEN fileList \o FileListEntries(data) ELSE fileList
            /\ remoteCopies' = Append(remoteCopies,
                                      [for |-> Head(requested), got |-> TrimNul(text)])
            /\ requested' = Tail(requested)
            /\ UNCHANGED <<toServer, clipboard, isExpectingFileList, alive>>

(* handle_monitor_ready: our capabilities, then a FORMAT_LIST with one    *)
(* LongFormatName of id 0 to mimic a copy.                               *)
HandleMonitorReady ==
    Respond(EncodeMessage("CLIP_CAPS", <<"caps">>)
            \o EncodeMessage("FORMAT_LIST", <<"ZERO">>))

(* handle_server_caps and handle_format_list_response: logged, no reply, *)
(* no state change.                                                     *)
HandleServerCaps == Respond(<<>>)
HandleFormatListResponse == Respond(<<>>)

(* handle_message: dispatch on msg_type; the responses are written in order. *)
(* A RESPONSE_FAIL data response is only logged; the ghost requested drops  *)
(* the request it answers.                                                  *)
HandleMessage(hdr, payload) ==
    \/ /\ hdr.type = "CLIP_CAPS"
       /\ HandleServerCaps
       /\ UNCHANGED <<clipboard, isExpectingFileList, fileList, alive,
                      requested, remoteCopies>>
    \/ /\ hdr.type = "FORMAT_LIST_RESPONSE"
       /\ HandleFormatListResponse
       /\ UNCHANGED <<clipboard, isExpectingFileList, fileList, alive,
                      requested, remoteCopies>>
    \/ /\ hdr.type = "MONITOR_READY"
       /\ HandleMonitorReady
       /\ UNCHANGED <<clipboard, isExpectingFileList, fileList, alive,
                      requested, remoteCopies>>
    \/ hdr.type = "FORMAT_LIST" /\ HandleFormatList(payload)
    \/ hdr.type = "FORMAT_DATA_REQUEST" /\ HandleFormatDataRequest(payload[1])
    \/ /\ hdr.type = "FORMAT_DATA_RESPONSE"
       /\ "RESPONSE_OK" \in hdr.flags
       /\ HandleFormatDataResponse(payload)
    \/ /\ hdr.type = "FORMAT_DATA_RESPONSE"
       /\ "RESPONSE_OK" \notin hdr.flags
       /\ requested' = Tail(requested)
       /\ UNCHANGED <<toServer, clipboard, isExpectingFileList, fileList, alive,
                      remoteCopies>>

(* A slip: the header and length reset but the buffer kept. *)
ResetKeepsData(length) == [pending EXCEPT !.total = length, !.hdr = NoHdr]

(* PendingData::reset *)
Reset(length) == [data |-> <<>>, total |-> length, hdr |-> NoHdr]

(* Client::read: FIRST resets the buffer and takes the clipboard header   *)
(* off the chunk; every chunk is appended; LAST with a header present    *)
(* hands the whole buffer to handle_message and empties it.              *)
Read ==
    /\ alive /\ toClient # <<>>
    /\ LET chunk == Head(toClient)
           first == "FIRST" \in chunk.flags
           p0 == IF first THEN [Reset(chunk.total) EXCEPT !.hdr = Head(chunk.data)]
                 ELSE pending
           p1 == [p0 EXCEPT !.data = @ \o (IF first THEN Tail(chunk.data) ELSE chunk.data)]
       IN /\ toClient' = Tail(toClient)
          /\ IF "LAST" \in chunk.flags /\ p1.hdr # NoHdr
             THEN /\ pending' = [p1 EXCEPT !.data = <<>>, !.hdr = NoHdr]
                  /\ handled' = Append(handled, [hdr |-> p1.hdr, data |-> p1.data])
                  /\ HandleMessage(p1.hdr, p1.data)
             ELSE /\ pending' = p1
                  /\ UNCHANGED <<handled, toServer, clipboard, isExpectingFileList,
                                 fileList, alive, requested, remoteCopies>>
    /\ UNCHANGED <<srvPhase, srvFormats, copies, pastes, updates, strays, srvSent,
                   awaited>>

(* update_clipboard, called by the host: cache CF_OEMTEXT and advertise it. *)
UpdateClipboard ==
    /\ alive /\ updates < MaxUpdates
    /\ \E data \in HostTexts :
         /\ clipboard' = (CF_OEMTEXT :> ToOemText(data)) @@ clipboard
         /\ Respond(EncodeMessage("FORMAT_LIST", <<"OEMTEXT">>))
    /\ updates' = updates + 1
    /\ UNCHANGED <<pending, isExpectingFileList, fileList, alive, toClient,
                   srvPhase, srvFormats, copies, pastes, strays, srvSent, handled,
                   requested, remoteCopies, awaited>>
(***************************************************************************)
(* The server.  It opens with CLIP_CAPS and MONITOR_READY; afterwards a   *)
(* remote copy sends a FORMAT_LIST, a remote paste requests a format the  *)
(* client advertised last, and every client PDU is read whole off the    *)
(* channel and answered: FORMAT_LIST with FORMAT_LIST_RESPONSE, a data   *)
(* request with the data (OK) or an empty FAIL response.                 *)
(***************************************************************************)
ServerSend(type, flags, payload) ==
    /\ toClient' = toClient \o EncodeWith(type, flags, payload)
    /\ srvSent' = Append(srvSent, [hdr |-> Header(type, flags, payload), data |-> payload])

ServerData(tok) == IF IsFileList(tok) THEN {FileListData} ELSE ServerTexts

ClientState == <<clipboard, pending, isExpectingFileList, fileList, alive,
                 handled, requested, remoteCopies, updates>>

ServerOpen ==
    /\ srvPhase \in {"CAPS", "MONITOR"}
    /\ IF srvPhase = "CAPS"
       THEN ServerSend("CLIP_CAPS", {}, <<"caps">>) /\ srvPhase' = "MONITOR"
       ELSE ServerSend("MONITOR_READY", {}, <<>>) /\ srvPhase' = "RUN"
    /\ UNCHANGED <<toServer, srvFormats, copies, pastes, strays, awaited>>
    /\ UNCHANGED ClientState

\* The first client PDU on the channel: its chunks up to the first LAST.
FirstPduLen == CHOOSE k \in 1..Len(toServer) :
                   /\ "LAST" \in toServer[k].flags
                   /\ \A j \in 1..k-1 : "LAST" \notin toServer[j].flags

ServerReceive ==
    /\ toServer # <<>>
    /\ LET inner == FlattenSeq([j \in 1..FirstPduLen |-> toServer[j].data])
           hdr == Head(inner)
           payload == Tail(inner)
       IN /\ toServer' = SubSeq(toServer, FirstPduLen + 1, Len(toServer))
          /\ \/ /\ hdr.type = "FORMAT_LIST"
                /\ srvFormats' = payload
                /\ ServerSend("FORMAT_LIST_RESPONSE", {"RESPONSE_OK"}, <<>>)
                /\ UNCHANGED awaited
             \/ /\ hdr.type = "FORMAT_DATA_REQUEST"
                /\ \/ \E data \in ServerData(payload[1]) :
                        ServerSend("FORMAT_DATA_RESPONSE", {"RESPONSE_OK"}, data)
                   \/ ServerSend("FORMAT_DATA_RESPONSE", {"RESPONSE_FAIL"}, <<>>)
                /\ UNCHANGED <<srvFormats, awaited>>
             \/ /\ hdr.type \notin {"FORMAT_LIST", "FORMAT_DATA_REQUEST"}
                /\ awaited' = IF hdr.type = "FORMAT_DATA_RESPONSE" THEN awaited - 1 ELSE awaited
                /\ UNCHANGED <<toClient, srvSent, srvFormats>>
    /\ UNCHANGED <<srvPhase, copies, pastes, strays>> /\ UNCHANGED ClientState

ServerCopy ==
    /\ srvPhase = "RUN" /\ copies < MaxCopies
    /\ CopiesSpaced => toClient = <<>> /\ toServer = <<>> /\ requested = <<>>
    /\ \E list \in ServerFormatLists : ServerSend("FORMAT_LIST", {}, list)
    /\ copies' = copies + 1
    /\ UNCHANGED <<toServer, srvPhase, srvFormats, pastes, strays, awaited>>
    /\ UNCHANGED ClientState

ServerPaste ==
    /\ srvPhase = "RUN" /\ pastes < MaxPastes
    /\ \E i \in 1..Len(srvFormats) :
         /\ FormatId[srvFormats[i]] # 0
         /\ ServerSend("FORMAT_DATA_REQUEST", {}, <<srvFormats[i]>>)
    /\ pastes' = pastes + 1 /\ awaited' = awaited + 1
    /\ UNCHANGED <<toServer, srvPhase, srvFormats, copies, strays>> /\ UNCHANGED ClientState

\* A faulty server: a chunk without FIRST between two of its PDUs, as a
\* LAST with no PDU begun or as a continuation of nothing.  It is no PDU,
\* so srvSent does not record it.
ServerStray ==
    /\ srvPhase = "RUN" /\ strays < MaxStrays
    /\ \E flags \in {{"LAST"}, {}} :
         toClient' = Append(toClient, [total |-> 1, data |-> <<"x">>, flags |-> flags])
    /\ strays' = strays + 1
    /\ UNCHANGED <<toServer, srvPhase, srvFormats, copies, pastes, srvSent, awaited>>
    /\ UNCHANGED ClientState

Init ==
    /\ clipboard = [f \in {} |-> <<>>]
    /\ pending = [data |-> <<>>, total |-> 0, hdr |-> NoHdr]
    /\ isExpectingFileList = FALSE
    /\ fileList = <<>>
    /\ alive = TRUE
    /\ toClient = <<>> /\ toServer = <<>>
    /\ srvPhase = "CAPS" /\ srvFormats = <<>>
    /\ copies = 0 /\ pastes = 0 /\ updates = 0 /\ strays = 0
    /\ srvSent = <<>> /\ handled = <<>> /\ requested = <<>> /\ remoteCopies = <<>>
    /\ awaited = 0

Steps == Read \/ UpdateClipboard \/ ServerOpen \/ ServerReceive \/ ServerCopy \/ ServerPaste
         \/ ServerStray

\* Both sides have stopped: the session ended or every bound is spent.
Quiescent == ~ENABLED Steps /\ UNCHANGED vars

Next == Steps \/ Quiescent

Spec == Init /\ [][Next]_vars /\ WF_vars(Read) /\ WF_vars(ServerReceive)

-----------------------------------------------------------------------------
TypeOK ==
    /\ DOMAIN clipboard \subseteq {CF_OEMTEXT}
    /\ isExpectingFileList \in BOOLEAN /\ alive \in BOOLEAN
    /\ pending.hdr.type \in {"NONE", "CLIP_CAPS", "MONITOR_READY", "FORMAT_LIST", "FORMAT_DATA_REQUEST", "FORMAT_DATA_RESPONSE", "FORMAT_LIST_RESPONSE"}
    /\ \A i \in 1..Len(requested) : requested[i] \in Formats
    /\ \A i \in 1..Len(fileList) : fileList[i] = "desc"
    /\ awaited \in 0..MaxPastes

(* Client::read hands handle_message exactly the PDUs the server sent,   *)
(* each whole and once, in the order sent (spec 3: "a logical PDU is     *)
(* delivered exactly once, in order, with the full reassembled payload"). *)
ReassemblyInOrder == IsPrefix(handled, srvSent)

(* on_remote_copy gets what the remote user copied in the form the      *)
(* FileListManager comment promises: a response to a file-list request  *)
(* is parsed as a file list (and yields no text), a response to an OEM  *)
(* text request is passed on as text, never as descriptor bytes.        *)
RemoteCopyMatchesFormat ==
    \A i \in 1..Len(remoteCopies) :
        IF IsFileList(remoteCopies[i].for)
        THEN remoteCopies[i].got = <<>>
        ELSE \A j \in 1..Len(remoteCopies[i].got) : remoteCopies[i].got[j] \in TextBytes

(* Against a server that only requests formats the client advertised    *)
(* and answers every request with data of that format, no handler of    *)
(* the clipboard channel returns Err (which would end the RDP session). *)
SessionSurvives == alive

(* encode_message against its reference (spec 8.1): for inner PDUs of   *)
(* every length up to 2*CHUNK+1, the chunks concatenate to the PDU, all *)
(* carry its length, each holds 1..CHUNK tokens, FIRST is on the first  *)
(* only, LAST on the last only, SHOW_PROTOCOL on all or none; and every *)
(* chunk on either channel carries a total no smaller than its data.    *)
ChunkRoundTrip ==
    /\ \A k \in 1..Len(toServer) : Len(toServer[k].data) <= toServer[k].total
    /\ \A k \in 1..Len(toClient) : Len(toClient[k].data) <= toClient[k].total
    \* the reference is a constant fact: checked once, in the initial state
    /\ srvSent = <<>> => \A n \in 1..2*CHUNK+1, show \in BOOLEAN :
        LET inner == [i \in 1..n |-> i]
            chf == IF show THEN {"SHOW_PROTOCOL"} ELSE {}
            cs == Chunks(inner, TRUE, n, chf)
        IN /\ FlattenSeq([k \in 1..Len(cs) |-> cs[k].data]) = inner
           /\ \A k \in 1..Len(cs) :
                /\ cs[k].total = n
                /\ Len(cs[k].data) \in 1..CHUNK
                /\ ("FIRST" \in cs[k].flags) = (k = 1)
                /\ ("LAST" \in cs[k].flags) = (k = Len(cs))
                /\ ("SHOW_PROTOCOL" \in cs[k].flags) = show

(* update_clipboard's CF_OEMTEXT conversion against its reference (spec *)
(* 8.2) for every byte string of length up to 3: no LF is left without  *)
(* a CR before it, only CRs are added, a non-empty result ends in NUL,  *)
(* and converting again changes nothing; the cached CF_OEMTEXT is in    *)
(* that normal form.                                                    *)
OemTextNormalised ==
    /\ \A f \in DOMAIN clipboard : ToOemText(clipboard[f]) = clipboard[f]
    \* the reference is a constant fact: checked once, in the initial state
    /\ srvSent = <<>> => \A b \in BoundedSeq(TextBytes, 3) :
        LET o == ToOemText(b)
            NotCR(c) == c # "CR"
        IN /\ \A i \in 1..Len(o) : o[i] = "LF" => i > 1 /\ o[i-1] = "CR"
           /\ SelectSeq(o, NotCR) = SelectSeq(IF b # <<>> /\ Last(b) # "NUL"
                                              THEN Append(b, "NUL") ELSE b, NotCR)
           /\ (b # <<>> => Last(o) = "NUL")
           /\ ToOemText(o) = o

(* A remote paste of what the host copied is eventually answered: every *)
(* FORMAT_DATA_REQUEST the server sends for a format the client         *)
(* advertised gets a FORMAT_DATA_RESPONSE from handle_format_data_request *)
(* that the server reads, so the paste on the remote desktop never hangs. *)
PastesAnswered == awaited > 0 ~> awaited = 0
====
