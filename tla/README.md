# TLA+ models of the RDP client's virtual channels

These modules model the Rust RDP client in `src/lib/srv/desktop/rdp/rdpclient/src`. They cover the
two stateful virtual-channel protocols: CLIPRDR (clipboard) and RDPDR (device and drive redirection).
They also cover the TDP bridge, through which drive IRPs are served by the browser's file system.
Every definition is translated from the Rust source. `PROJECT.json` maps each one to the lines it
models.

## The system and how its parts interact

| part | source | role |
|---|---|---|
| RdpClient glue | `lib.rs` | Demultiplexes MCS channel PDUs to the channel clients (`RdpClient::read`). Forwards the browser's TDP responses (`handle_tdp_sd_*_response`) and writes the `Messages` it expects back (`write_rdpdr`). An `Err` from any handler ends the session. |
| RDPDR client | `rdpdr.rs` | Handles the announce, capability and client-id-confirm negotiation. Keeps `active_device_ids`, with the smart card at index 0 by assumption. Routes device replies and IO requests to the smart-card or drive client. Enforces the `allow_directory_sharing` gate. |
| Directory client | `rdpdr/dir.rs` | Turns each drive IRP into zero or one TDP request to the browser. Stores a continuation in one of seven completion tables, keyed by CompletionId. Keeps the file cache, the file-id generator and the directory iterator. |
| CLIPRDR client | `cliprdr.rs` | Reassembles chunked PDUs, runs the clipboard state machine, caches `CF_OEMTEXT`, requests remote data and tracks whether a file list is expected. Splits outbound PDUs into chunks (`encode_message`). |
| Gateway utils | `devolutions_gateway_utils.rs` | Helpers for the outer connection. Not modelled. |

Concurrency comes from outside the client:
- The RDP server sends IRPs and PDUs whenever it likes.
- The browser answers TDP requests in any order.
- The host calls `update_clipboard` and shares directories at any time.

The client handles one event at a time (the session task), so each handler is one atomic action.
The interleavings are between handlers and the environment's messages.

## Modules

### `DirClient.tla`: the directory client with the RDP server and the browser

State:
- `fileCache` is `FileCache`.
- `nextFileId` is the u32 counter, taken modulo `2^FileIdBits`.
- `pend` is the seven `pending_sd_*_resp_handlers` tables, as kind → completion id → continuation.
- `tdpOut` holds the TDP requests the browser has not answered.
- `rdpIn` is the IRP channel, FIFO.
- `out` holds the PDUs the last step wrote.
- `irps` and `handles` are the server's view: IRPs awaiting completion, and open handles with their path, delete flag and the listing read so far.

Actions:
- `HandleDeviceIoRequest` models `process_irp_*` for every MajorFunction.
- `HandleTdpSd*Response` models the seven `handle_tdp_sd_*_response` handlers. Each removes the continuation and runs it (`RunContinuation`); an unknown id is a session error.
- Decoding is part of the handler: a QUERY_DIRECTORY or QUERY_VOLUME_INFORMATION level outside the decoder's `VALID_LEVELS`, and a QUERY_INFORMATION class that `ClientDriveQueryInformationResponse::new` cannot answer on a cached file, end the session (`lvlOk`).
- Server and browser actions issue IRPs under the server's own rules (`MayIssue`) and answer TDP requests with every error code the code distinguishes.

How a reply reaches the channel depends on the path that wrote it (`OnChannel`).
- A reply from an IRP handler goes back through `read_and_reply`, which writes it with the RDPDR shared header and the channel header.
- A reply from a continuation is written by dir.rs's `handle_tdp_sd_*_response`. That code iterates over the continuation's `Vec<u8>`, a bare `resp.encode()`, and writes each byte as a PDU of its own, with no header.
- The constant `TdpRepliesFramed` chooses between the two readings. FALSE is the dir.rs loop of this tree: the reply is marked `raw` and the server reads no completion from it. TRUE stands for the framed `Messages` that lib.rs's `handle_tdp_sd_*_response` expects from rdpdr (rdpdr.rs does not provide them).
- dir_live runs with FALSE and shows the consequence. Every other run uses TRUE, so that it can check the continuations themselves; those properties are therefore about the client as lib.rs calls it.
- `Answers` is what the client wrote, framed or not; `Completions` is what the server reads.

A continuation is a record `[op, irp, io]`, which names the closure the code boxes. `CreateDecision`
is the CREATE matrix of `process_irp_create`'s info-response closure, including the `intersects`
test on the disposition bits. `Information` is `DeviceCreateResponse::new`'s choice of the
reply's Information field, again through `intersects`. Its last arm is a `panic!`; `Step` then
takes `Panic` instead of writing anything: the session ends and the ghost `panicked` is set. A Rust
panic cannot unwind into the Go caller.

The browser is an environment, not code of this repository. By default (`BrowserFs = FALSE`) its
answers are free choices among the error codes and values the handlers distinguish. With
`BrowserFs = TRUE` it answers from a small file system: `fs` maps each path to None, File or
Directory, `InDir` says which paths are entries of which directory, and `InitialFs` is where it
starts. An Info answer then reports the path's type and whether the directory has an entry
(`FsAgrees`), and a successful Create, Delete or Move updates `fs` (`FsAfter`). Only dir_stale uses
it: free answers reach every continuation, and the file system is needed only where a property
compares the client's cache with what the browser holds.

### `IrpService.tla`: the promise the drive client makes to the server

This is an abstract specification written from spec.md, not from code. The server submits IRPs
under completion ids that are not outstanding. The client takes them in order. A taken IRP is
completed at once, waits on the browser, or (a change notification only) is parked for good. A
completion carries its MajorFunction's response type and removes the IRP. The session may end at
any step. `DirClient` defines `IrpSvc == INSTANCE IrpService WITH ...`, using this mapping:
- `queue` is `rdpIn`.
- `outstanding` is `irps`.
- `stage` says whether an IRP that has been taken has a TDP request out ("browser") or not ("parked").
- `done` is the completions in `out`.

The property `IrpServiceRefined == IrpSvc!ASpec` is checked in dir_all.

### `Rdpdr.tla`: negotiation and routing

State:
- `activeDeviceIds`.
- The server channel `toClient`, and `toServer`, the PDUs the client wrote (`mcs.write` of each handler's responses).
- The negotiation round and phase. Round 2 is the re-announce after login.
- The devices announced and replied to.
- The drives the browser shared.
- `routed`, a history of where replies and IRPs went.
- `allowDirectorySharing`, the `dir::Config` flag fixed at connect, over `SharingConfigs`.
- `rogue`, a ghost: the server has sent a drive IRP though the capability response offered no drives.

Actions:
- `ReadAndReply` models `read_and_reply`. It dispatches to `HandleServerAnnounce`, `HandleServerCapability`, `HandleClientIdConfirm`, `HandleDeviceReply` and `HandleDeviceIoRequest` (with `process_irp_device_control`). The PRN component's early return and the catch-all arm for unimplemented packet ids are one disjunct (`Ignored`): no reply, no state change. The replies are built with `AddHeadersAndChunkify`, `NewResponse` and `NewSmartcard`/`NewDrive`/`NewEmpty`.
- `WriteClientDeviceListAnnounce` models the browser's SharedDirectoryAnnounce.
- The server follows MS-RDPEFS. `ServerNegotiates` sends the announce, then waits in `WAIT_NAME` until `ServerReceives` has read CLIENT_NAME, and then sends the capability request and the client id confirm. `ServerReceives` reads the client's PDUs in order: the capability response sets whether drives were offered, and each device list announce adds its ids. `ServerRepliesToDevice` answers each announced id. `ServerSendsIrp` sends IRPs on accepted devices, and `ServerSendsIgnored` sends a PRN or USER_LOGGEDON PDU.

### `Cliprdr.tla`: the clipboard client with the server and the host

State:
- `clipboard`.
- `pending`, the reassembly buffer.
- `isExpectingFileList` and `fileList`.
- The chunk streams in both directions.
- The server's phase and the formats the client last advertised.
- Ghost histories: PDUs sent, PDUs handled, requests outstanding, what `on_remote_copy` received, and `awaited`, the server's paste requests it has read no response to.

Actions:
- `Read` is `Client::read`, ending in `handle_message` and the handler it dispatches.
- `UpdateClipboard` is the host call.
- A faulty server may also send up to `MaxStrays` chunks without FIRST (`ServerStray`), with or without LAST.
- Server actions cover the opening CLIP_CAPS/MONITOR_READY, a remote copy (FORMAT_LIST), a remote paste (FORMAT_DATA_REQUEST), and reading and answering the client's PDUs.

Bytes are token sequences. The header is one token in front of the payload, and `CHUNK` tokens
stand for `CHANNEL_CHUNK_LEGNTH`. `Chunks` is `encode_message`'s loop and `ToOemText` is
`update_clipboard`'s CRLF conversion. Both are operators, checked against reference definitions.

The `MC*.tla` modules give the model values. Paths and completion ids are symmetric model values in
`MCDirClient`.

## Runs

| run | checks | shows |
|---|---|---|
| dir_all (pass) | TypeOK, CompletionCorrelation, DirListingOrder, ReplyMatchesIrp, DeleteOnCloseHonoured, IrpServiceRefined | With `TdpRepliesFramed = TRUE`, over all IRP kinds, dispositions, set-information classes, levels and browser answers, with two completion ids in flight: every TDP request has exactly one continuation, in the right table, for an IRP still awaited. Each reply has its IRP's type. Listings come in order. Delete-on-close is honoured exactly. The client refines the abstract IRP service (IrpServiceRefined). (about 63k states) |
| dir_live (violation) | IrpsEventuallyCompleted | With the dir.rs write loop as written (`TdpRepliesFramed = FALSE`), an IRP answered in a TDP continuation is never completed. In the trace, a CREATE is probed with an Info request. The browser answers it, and the reply goes out one header-less byte per write. The server's IRP stays outstanding for ever, even though the browser answers every request (dir.rs:1084). |
| dir_nocreate (violation) | NoCreateOnOpen | FILE_OPEN on a missing directory creates it (`intersects`, dir.rs:230). |
| dir_create (violation) | CreateInformationAsSpecified | `DeviceCreateResponse::new` tests the disposition with `intersects` against a mask of 7. A successful FILE_OPEN_IF is answered FILE_SUPERSEDED instead of FILE_OPENED (4 states). A successful FILE_SUPERSEDE (value 0) matches no arm and reaches `panic!` (rdpdr.rs:1053, 1073). |
| dir_path (violation) | PathCoherence | After a rename the cached path is stale, so later requests name the old path (dir.rs:997). |
| dir_requery (violation) | DirListingOrder | A second initial QUERY_DIRECTORY omits "." and ".." (dir.rs:451). |
| dir_bare (violation) | NoBareCompletion | An asynchronous IRP produces a header-only DEVICE_IOCOMPLETION (rdpdr.rs:240). |
| dir_stale (violation) | NonEmptyDirNeverDeleted | With the browser file system: a directory opened while empty gets an entry through a second handle; a Disposition request on the first handle is still accepted from the cached `is_empty`, and CLOSE deletes the non-empty directory (dir.rs:580, 598). |
| rdpdr_allowed (pass) | TypeOK, ScardRouting, SessionSurvives, DevicesEventuallyAcknowledged, DriveGate | With directory sharing on and off, drives announced after the smart card, over a relogin round, and a server that also sends ignored PDUs: replies and IOCTLs go to the right client, and no duplicate id is pushed. A server that sends drive IRPs only when drives were offered never ends the session. Every device the client pushes is eventually acknowledged. With sharing off, no drive IRP reaches the directory client, even when the server sends one. (about 233k states) |
| rdpdr_early (violation) | ScardRouting | A drive announced before CLIENTID_CONFIRM takes index 0 and receives the smart card's traffic (rdpdr.rs:366, 273). |
| clip_spaced (pass) | TypeOK, ReassemblyInOrder, RemoteCopyMatchesFormat, SessionSurvives, ChunkRoundTrip, OemTextNormalised, PastesAnswered | PDUs cut into 1 to 3 chunks are handed over whole, once and in order, even when a stray chunk without FIRST arrives between PDUs. When each remote copy starts on a quiet channel, file lists and text reach `on_remote_copy` in their own form and no handler fails. Chunking and the CRLF conversion match their references on every input up to the bound. Every remote paste of the host's copy is eventually answered (PastesAnswered). (about 49k states, 30 s) |
| clip_race (violation) | RemoteCopyMatchesFormat | A text copy racing a file-list copy flips `is_expecting_file_list` while a request is in flight. The file list is then handed to the host as text (cliprdr.rs:360). |

Every property of a passing run has a mutant in `PROJECT.json`. The mutant is a plausible slip in
the mapped code, and TLC finds it. `PROJECT.json` also records the findings. The
violation runs are disagreements between the code and the spec (spec.md), or between the code and its
own comments.

## Bounds and why they suffice

- **DirClient.** Two completion ids, so two IRPs can overlap and their continuations interleave. Two paths, so a rename has a target and a collision. `FileIdBits = 2` with one create keeps the counter from wrapping in the passing run. The create run sends CREATEs only, with dispositions SUPERSEDE, OPEN_IF and OVERWRITE_IF, the ones whose Information the code gets wrong. The stale run has two creates, only FILE_OPEN_IF (so the `intersects` finding of dir_nocreate does not mask it), Disposition as the only set-information class, and a directory p1 with one possible entry p2; three IRP kinds are enough for open, create-inside, mark and close. Its paths are told apart by `InDir`, so only completion ids are symmetric there. Directory contents are empty or two entries, covering both the EOF step and an entry step. At most one initial query per handle runs in the passing run; two run in the requery run.
- **Rdpdr.** A smart card and two drives, two negotiation rounds (the relogin), and at most 2 PDUs in flight. That is enough for a drive announce to overtake the confirm.
- **Cliprdr.** `CHUNK = 2` tokens: a FORMAT_LIST with two formats is 3 tokens, so it is cut into two chunks, and a 1-token PDU is one chunk with FIRST and LAST. There are up to two remote copies, two pastes and one host update. One host update can fall before or after MONITOR_READY and is enough for a paste to be served from the cache; a second update multiplies the states by ten, and with the liveness properties the run would take longer than five minutes. The two realistic Windows format lists are text (CF_UNICODETEXT, CF_OEMTEXT) and files (FileGroupDescriptorW, CF_HDROP).

## Fairness

- **DirClient.** The client's dispatch of IRPs is weakly fair, because the session task always reads the next PDU. The browser's answer is weakly fair for each completion id. This is what a browser that answers every request does, and the dir_live violation holds even under it. The code has no timeouts (spec section 5).
- **Rdpdr.** The session task reads every PDU that arrives (`ReadAndReply` is weakly fair), and the server reads what the client writes (`ServerReceives`, weakly fair). The server's negotiation and device-reply steps are strongly fair. They need room in the bounded channel, and IRPs the server keeps sending compete for that room, so the steps are only enabled from time to time. DevicesEventuallyAcknowledged holds under this fairness. It is a statement about a server that follows the protocol.
- **Cliprdr.** The client's read and the server's read of client PDUs are weakly fair: the session task reads the channel whenever a chunk is there, and a server that follows MS-RDPECLIP reads and answers every client PDU. Remote copies, pastes, host updates and stray chunks are not fair; they happen at most up to their bounds. PastesAnswered holds under this fairness. The code has no timeout on that exchange, so a weaker assumption would not make them true.

## Not modelled

- PDU byte layouts, encode/decode and UTF-16 conversions: about two thirds of `rdpdr.rs` and the PDU half of `cliprdr.rs`. These are data conversion with no protocol state.
- `to_windows_time`: its 64-bit arithmetic is beyond TLC.
- Panics in PDU decoding, for example `Boolean::from_u8(replace_if_exists).unwrap()` in `FileRenameInformation::decode` (rdpdr.rs:1654) on a byte other than 0 or 1. Decoding is abstracted to records, so a malformed field is not a value the model has. The hazard is listed in `PROJECT.json`.
- A composed session module. `RdpClient` in `lib.rs` calls `rdpdr::Client` methods that `rdpdr.rs` does not define (`read_and_create_reply`, `handle_client_device_list_announce`). The two files are at different points of a refactor. The RDPDR side is therefore modelled against `rdpdr.rs` (`read_and_reply` writing its responses, `write_client_device_list_announce`). Each channel's error ends its model's session, as `RdpClient::read` propagates it. The channels share no state, so composing them would add interleavings but no new property.
- The wrap of the u32 file id counter (`wrapping_add`, dir.rs:1243). It returns 0 after 2^32 creates and then ids that may still be open. Reaching it takes 2^FileIdBits creates, and with two creates `dir_all` runs longer than five minutes. No run checks the file ids handed out: with one create, such a property could only fail on an id of 0.
- `connect_rdp_inner`, the cgo FFI, PNG encoding and `wait_for_fd` in `lib.rs`.
- The smart-card client internals.
- File contents and sizes in the browser file system. Only types and directory membership are kept, which is what the cached `is_empty` and the CREATE matrix read.
- FILE_SUPERSEDE on an existing non-empty directory also sends a Delete (`tdp_sd_overwrite`). spec.md section 4.4 asks for this, so `NonEmptyDirNeverDeleted` is stated for delete-on-close only.
- A host copy (`update_clipboard`) before the server's MONITOR_READY. The code has no phase guard: it sends FORMAT_LIST(OEMTEXT), and `handle_monitor_ready` then sends an empty FORMAT_LIST, so the server believes the clipboard is empty while the client caches the text. A 9-step bounded search of `Cliprdr` reaches this state, but the project already uses all 12 of its runs, so no run records it. It is listed as a hazard in `PROJECT.json`.
- The `total_length` check from the spec (chunks that overrun `total_length`). The code has no such check. A stray chunk without FIRST is modelled (`ServerStray`), but an overrun is not, because all 12 runs the project keeps are already in use.
- The rename probe in `dir.rs` treats a Failed probe as "exists". The model reproduces this. spec.md only covers the case where the target exists, so no property states otherwise.

## Plan for later work

1. A composed session module, once `lib.rs` and `rdpdr.rs` agree on the RDPDR API.
2. A passing run with two creates and `FileIdBits = 1`, so that the counter wraps.
3. A duplicate drive announce from the browser (rdpdr.rs:355), which ends the session.
4. A run for the clipboard update before MONITOR_READY, if a run slot is freed.
5. Liveness of the continuations (each ends in a reply or a new request), stated over what the client writes, so that it does not depend on `TdpRepliesFramed`.
