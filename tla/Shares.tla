------------------------------- MODULE Shares -------------------------------
(***************************************************************************)
(* File shares: the encrypted vault of foxcore-share (sessions in memory,   *)
(* one directory per share on disk), the loopback server that streams an    *)
(* authorised download, and the publication of that server as an onion      *)
(* service.  Every operation that touches the disk runs under the manager's *)
(* `control` lock and takes several steps here, so that a crash, an I/O     *)
(* error or another thread can come between any two of them.                *)
(*                                                                          *)
(* Encryption is abstracted to what it authenticates: a stored file is the  *)
(* sequence of its chunk counters, and a chunk opens only at its own place. *)
(***************************************************************************)
EXTENDS Naturals, FiniteSets, Sequences, SequencesExt

CONSTANTS Ids, FileIds, Conns,
          Chunks,                     \* chunks of every file
          Times,                      \* the clock's readings
          BASE, CEILING,              \* password delay: unit and cap
          MAX_SESSIONS, MAX_FILES_PER_SESSION, MAX_EVENTS_PER_SHARE, MAX_TOMBSTONES,
          MAX_DOWNLOADS, MAX_CONCURRENT_DECRYPTS, CHUNK_QUEUE, MAX_CONCURRENT_SPLICES

VARIABLES now,         \* the caller's clock
          vault,       \* "open", "closed" (no manager) or "refused" (open failed)
          sessions,    \* State.sessions of the manager
          tombstones,  \* State.tombstones in tombstone_order
          cancelled,   \* shares whose `revoked` token is cancelled
          disk,        \* share directory -> its entries
          stored,      \* <<share, file>> -> the chunks on disk
          job,         \* the holder of the `control` lock
          conn,        \* one record per download
          server,      \* the loopback server: its accept task and its token
          onion,       \* the publication: its pump task, its token, its splices
          published,   \* stage of the PublishedShare's life
          told         \* history: what callers were told (never read by the code)

shareVars == <<now, vault, sessions, tombstones, cancelled, disk, stored, job, conn, server,
               onion, published, told>>

NoServer == [task |-> "none", cancel |-> FALSE]
NoOnion == [task |-> "none", cancel |-> FALSE, connecting |-> 0, copying |-> 0]

Idle == [op |-> "idle"]
Free == [pc |-> "free", dec |-> "none"]
Whole == [i \in 1..Chunks |-> i]

Without(map, key) == [k \in DOMAIN map \ {key} |-> map[k]]
Put(map, key, value) == [k \in DOMAIN map \cup {key} |-> IF k = key THEN value ELSE map[k]]

-----------------------------------------------------------------------------
(* Sessions, their manifests and their bounded event queues.                *)

push_event(session) ==
    IF session.queued >= MAX_EVENTS_PER_SHARE
    THEN [session EXCEPT !.dropped = @ + 1]
    ELSE [session EXCEPT !.queued = @ + 1]

from_session(session) ==
    [expires |-> session.expires, remaining |-> session.remaining,
     files |-> session.files, locked |-> session.locked]

to_session(manifest) ==
    [expires |-> manifest.expires, remaining |-> manifest.remaining, files |-> manifest.files,
     locked |-> manifest.locked, failed |-> 0, retry |-> 0, queued |-> 0, dropped |-> 0]

insert_tombstone(session, s) ==
    LET kept == Append(SelectSeq(tombstones, LAMBDA t : t.share # s),
                       [share |-> s, queued |-> session.queued, dropped |-> session.dropped])
    IN  IF Len(kept) > MAX_TOMBSTONES THEN Tail(kept) ELSE kept

password_retry_delay(failures) ==
    LET power == IF failures < 5 THEN failures ELSE 5
        delay == BASE * 2 ^ power
    IN  IF delay < CEILING THEN delay ELSE CEILING

deny_password_attempt(session) ==
    push_event([session EXCEPT !.failed = @ + 1,
                               !.retry = now + password_retry_delay(session.failed + 1)])

(* Mutant: the next guess need not wait. *)
throttled_never(session) == FALSE
throttled(session) == session.locked /\ now < session.retry

-----------------------------------------------------------------------------
(* The directory of one share: the manifest, its temporary, the encrypted    *)
(* files and their temporaries.                                              *)

EmptyDir == [manifest |-> {}, part |-> FALSE, files |-> {}, parts |-> {}]

Listed(dir) == UNION {m.files : m \in dir.manifest}

(* What load_sessions and verify_and_cleanup_files refuse in one directory. *)
(* Mutant: a file that no manifest lists yet is taken for tampering. *)
Unreadable_orphans(dir) ==
    IF dir.manifest = {} THEN dir.files \cup dir.parts # {}
    ELSE Listed(dir) # dir.files \/ dir.parts # {}
Unreadable(dir) ==
    IF dir.manifest = {} THEN dir.files \cup dir.parts # {}
    ELSE ~(Listed(dir) \subseteq dir.files) \/ dir.parts # {}

(* What they leave of a directory they accept: no manifest temporary and no  *)
(* file that the manifest does not list.                                     *)
verify_and_cleanup_files(dir) == [dir EXCEPT !.part = FALSE, !.files = Listed(dir)]

Cleaned(readable) ==
    [s \in {x \in DOMAIN disk : x \in readable => disk[x].manifest # {}} |->
        IF s \in readable THEN verify_and_cleanup_files(disk[s]) ELSE disk[s]]

open ==
    /\ vault = "closed"
    /\ LET bad == {s \in DOMAIN disk : Unreadable(disk[s])} IN
       IF bad = {} /\ Cardinality(DOMAIN disk) <= MAX_SESSIONS
       THEN /\ disk' = Cleaned(DOMAIN disk)
            /\ sessions' = [s \in DOMAIN disk' |->
                   push_event(to_session(CHOOSE m \in disk[s].manifest : TRUE))]
            /\ vault' = "open"
       ELSE /\ \E readable \in SUBSET (DOMAIN disk \ bad) : disk' = Cleaned(readable)
            /\ vault' = "refused"
            /\ UNCHANGED sessions
    /\ UNCHANGED <<now, tombstones, cancelled, stored, job, conn, server, onion, published, told>>

(* The process dies: memory is gone, the directories are as they were.  A    *)
(* file temporary or a half-removed directory stays behind.                  *)
Crash ==
    /\ vault = "open"
    /\ vault' = "closed" /\ sessions' = <<>> /\ tombstones' = <<>> /\ cancelled' = {}
    /\ job' = Idle /\ conn' = [c \in Conns |-> Free]
    /\ server' = NoServer /\ onion' = NoOnion /\ published' = "none"
    /\ told' = [told EXCEPT !.hurt = @ \cup
           IF job.op = "remove" \/ (job.op = "add" /\ job.pc = "name") THEN {job.s} ELSE {}]
    /\ UNCHANGED <<now, disk, stored>>

Tick == /\ now + 1 \in Times
        /\ now' = now + 1
        /\ UNCHANGED <<vault, sessions, tombstones, cancelled, disk, stored, job, conn, server,
                       onion, published, told>>

-----------------------------------------------------------------------------
(* The operations that hold `control`.                                       *)

rest == <<now, vault, tombstones, cancelled, conn, server, onion, published>>

CanStart == vault = "open" /\ job.op = "idle"

(* create: the checks, then the directory, then the manifest, and only then  *)
(* the session.                                                              *)
create(s, expires, downloads, locked) ==
    /\ CanStart /\ s \notin told.used
    /\ expires > now /\ downloads > 0
    /\ Cardinality(DOMAIN sessions) < MAX_SESSIONS
    /\ job' = [op |-> "create", s |-> s, pc |-> "mkdir",
               next |-> push_event([expires |-> expires, remaining |-> downloads, files |-> {},
                          locked |-> locked, failed |-> 0, retry |-> 0, queued |-> 0,
                          dropped |-> 0])]
    /\ told' = [told EXCEPT !.used = @ \cup {s}, !.allowed[s] = downloads]
    /\ UNCHANGED <<sessions, disk, stored, rest>>

create_share ==
    /\ job.op = "create" /\ job.pc = "mkdir"
    /\ disk' = Put(disk, job.s, EmptyDir)
    /\ job' = [job EXCEPT !.pc = "stage"]
    /\ UNCHANGED <<sessions, stored, told, rest>>

(* The expired branch shared by add_file and authorize_download, and revoke  *)
(* once the owner is verified: the session leaves memory, its token is       *)
(* cancelled, its events become a tombstone, and the directory is removed.   *)
Retire(s, why) ==
    /\ sessions' = Without(sessions, s)
    /\ cancelled' = cancelled \cup {s}
    /\ tombstones' = insert_tombstone(push_event(sessions[s]), s)
    /\ job' = [op |-> "remove", s |-> s, pc |-> "sweep", why |-> why]

revoke(s) ==
    /\ CanStart /\ s \in DOMAIN sessions
    /\ Retire(s, "revoked")
    /\ UNCHANGED <<now, vault, disk, stored, conn, server, onion, published, told>>

(* add_file: the owner is verified and the limit checked, then write_file    *)
(* encrypts into a temporary and renames it, then the manifest is rewritten. *)
add_file(s, f) ==
    /\ CanStart /\ s \in DOMAIN sessions /\ <<s, f>> \notin told.tried
    /\ told' = [told EXCEPT !.tried = @ \cup {<<s, f>>}]
    /\ IF now >= sessions[s].expires
       THEN /\ Retire(s, "expired")
            /\ UNCHANGED <<now, vault, conn, server, onion, published>>
       ELSE /\ Cardinality(sessions[s].files) < MAX_FILES_PER_SESSION
            /\ job' = [op |-> "add", s |-> s, f |-> f, pc |-> "write"]
            /\ UNCHANGED <<sessions, rest>>
    /\ UNCHANGED <<disk, stored>>

write_file ==
    /\ job.op = "add" /\ job.pc = "write"
    /\ disk' = [disk EXCEPT ![job.s].parts = @ \cup {job.f}]
    /\ job' = [job EXCEPT !.pc = "name"]
    /\ UNCHANGED <<sessions, stored, told, rest>>

RenameFile ==
    /\ job.op = "add" /\ job.pc = "name"
    /\ disk' = [disk EXCEPT ![job.s].parts = @ \ {job.f}, ![job.s].files = @ \cup {job.f}]
    /\ stored' = Put(stored, <<job.s, job.f>>, Whole)
    /\ job' = [op |-> "add", s |-> job.s, f |-> job.f, pc |-> "stage",
               next |-> push_event([sessions[job.s] EXCEPT !.files = @ \cup {job.f}])]
    /\ UNCHANGED <<sessions, told, rest>>

(* write_manifest: the temporary, then the rename that makes it current.     *)
StageManifest ==
    /\ job.op \in {"create", "add", "grant"} /\ job.pc = "stage"
    /\ disk' = [disk EXCEPT ![job.s].part = TRUE]
    /\ job' = [job EXCEPT !.pc = "commit"]
    /\ UNCHANGED <<sessions, stored, told, rest>>

Renamed(dir) == [dir EXCEPT !.part = FALSE, !.manifest = {from_session(job.next)}]

write_manifest ==
    /\ job.op \in {"create", "add", "grant"} /\ job.pc = "commit"
    /\ disk' = [disk EXCEPT ![job.s] = Renamed(@)]
    /\ sessions' = Put(sessions, job.s, IF job.op = "grant" THEN push_event(job.next) ELSE job.next)
    /\ told' = [told EXCEPT !.hurt = @ \ {job.s},
           !.added = @ \cup IF job.op = "add" THEN {<<job.s, job.f>>} ELSE {},
           !.granted[job.s] = @ + IF job.op = "grant" THEN 1 ELSE 0]
    /\ conn' = IF job.op = "grant" /\ conn[job.c].pc = "asked"
               THEN [conn EXCEPT ![job.c].pc = job.then,
                                 ![job.c].dec = IF job.then = "export" THEN "read" ELSE "none"]
               ELSE conn
    /\ job' = Idle
    /\ UNCHANGED <<stored, now, vault, tombstones, cancelled, server, onion, published>>

(* remove_share: remove_dir_all takes the entries away in any order and then *)
(* the directory; only then is the caller told.                              *)
Smaller(dir) ==
    {[dir EXCEPT !.manifest = {}] : m \in dir.manifest}
        \cup {[dir EXCEPT !.files = @ \ {f}] : f \in dir.files}
        \cup {[dir EXCEPT !.parts = @ \ {f}] : f \in dir.parts}

(* Mutant: the directory's removal is not waited for. *)
remove_share_early ==
    /\ job.op = "remove"
    /\ job' = Idle
    /\ told' = [told EXCEPT !.gone = @ \cup {job.s}]
    /\ UNCHANGED <<disk, sessions, stored, rest>>
remove_share ==
    /\ job.op = "remove"
    /\ IF job.s \in DOMAIN disk /\ Smaller(disk[job.s]) # {}
       THEN /\ \E dir \in Smaller(disk[job.s]) : disk' = [disk EXCEPT ![job.s] = dir]
            /\ UNCHANGED <<job, told>>
       ELSE /\ disk' = Without(disk, job.s)
            /\ job' = Idle
            /\ told' = [told EXCEPT !.gone = @ \cup {job.s}, !.hurt = @ \ {job.s}]
    /\ UNCHANGED <<sessions, stored, rest>>

(* An I/O error ends the operation: TemporaryPath removes its file, create   *)
(* and add_file take back what they made, and the event of a file that was   *)
(* not added stays queued.  `late` is an error of the directory sync that    *)
(* follows a rename.                                                         *)
IoError(late) ==
    /\ job.op # "idle"
    /\ late => job.pc \in {"name", "commit"}
    /\ LET d == disk[job.s]
           tidy == [d EXCEPT !.part = FALSE, !.parts = {}] IN
       disk' = CASE job.op = "create" /\ job.pc = "mkdir" -> disk
                 [] job.op = "create" /\ job.pc # "mkdir" -> Without(disk, job.s)
                 [] job.op = "add" /\ job.pc = "name" /\ late ->
                        [disk EXCEPT ![job.s] = [tidy EXCEPT !.files = @ \cup {job.f}]]
                 [] job.op = "add" /\ job.pc \in {"stage", "commit"} ->
                        [disk EXCEPT ![job.s] =
                            [(IF late THEN Renamed(d) ELSE tidy) EXCEPT !.files = @ \ {job.f}]]
                 [] job.op = "add" /\ ~(job.pc \in {"stage", "commit"}) /\ ~late ->
                        [disk EXCEPT ![job.s] = tidy]
                 [] job.op = "grant" ->
                        [disk EXCEPT ![job.s] = IF late THEN Renamed(d) ELSE tidy]
                 [] job.op = "remove" -> disk
    /\ sessions' = IF job.op = "add" /\ job.pc \in {"stage", "commit"}
                   THEN [sessions EXCEPT ![job.s] = push_event(@)] ELSE sessions
    /\ told' = [told EXCEPT !.hurt = @ \cup
           IF job.op = "remove" \/ (job.op = "add" /\ job.pc = "commit" /\ late)
           THEN {job.s} ELSE {}]
    /\ conn' = IF job.op = "grant" /\ conn[job.c].pc = "asked"
               THEN [conn EXCEPT ![job.c] = Free] ELSE conn
    /\ job' = Idle
    /\ UNCHANGED <<stored, now, vault, tombstones, cancelled, server, onion, published>>

drain_events(s) ==
    /\ vault = "open"
    /\ \/ /\ s \in DOMAIN sessions
          /\ sessions' = [sessions EXCEPT ![s].queued = 0, ![s].dropped = 0]
          /\ UNCHANGED tombstones
       \/ /\ s \notin DOMAIN sessions
          /\ tombstones' = SelectSeq(tombstones, LAMBDA t : t.share # s)
          /\ UNCHANGED sessions
    /\ UNCHANGED <<now, vault, cancelled, disk, stored, job, conn, server, onion, published, told>>

-----------------------------------------------------------------------------
(* Asking for a download.                                                    *)

asking == <<now, vault, disk, stored, server, onion, published, told>>

(* authorize_download on connection c, for a request with capability `cap`   *)
(* and password `pw` ("none", "good" or "bad").  A connection that is        *)
(* refused answers 401 or 410 and ends.                                      *)
authorize_download(c, s, f, cap, pw) ==
    /\ CanStart /\ conn[c].pc = "auth"
    /\ LET session == sessions[s]
           known == s \in DOMAIN sessions
           live == known /\ now < session.expires
           waiting == throttled(session)
           passed == live /\ cap /\ ~waiting /\ (session.locked => pw = "good")
           cleared == IF session.locked
                      THEN [session EXCEPT !.failed = 0, !.retry = 0] ELSE session
           ended == [conn EXCEPT ![c] = Free]
       IN
       \/ /\ ~known
          /\ conn' = ended
          /\ UNCHANGED <<sessions, job, tombstones, cancelled>>
       \/ /\ known /\ now >= session.expires
          /\ Retire(s, "expired")
          /\ conn' = ended
       \/ /\ live /\ (~cap \/ waiting)
          /\ conn' = ended
          /\ sessions' = [sessions EXCEPT ![s] = push_event(@)]
          /\ UNCHANGED <<job, tombstones, cancelled>>
       \/ /\ live /\ cap /\ ~waiting /\ session.locked /\ pw # "good"
          /\ conn' = ended
          /\ sessions' = [sessions EXCEPT ![s] = deny_password_attempt(@)]
          /\ UNCHANGED <<job, tombstones, cancelled>>
       \/ /\ passed /\ (f \notin session.files \/ session.remaining = 0)
          /\ conn' = ended
          /\ sessions' = [sessions EXCEPT ![s] =
                 IF f \in session.files THEN push_event(cleared) ELSE cleared]
          /\ UNCHANGED <<job, tombstones, cancelled>>
       \/ /\ passed /\ f \in session.files /\ session.remaining > 0
          /\ sessions' = [sessions EXCEPT ![s] = cleared]
          /\ job' = [op |-> "grant", s |-> s, pc |-> "stage", c |-> c, then |-> conn[c].then,
                     next |-> [cleared EXCEPT !.remaining = @ - 1]]
          /\ conn' = [conn EXCEPT ![c] =
                 [pc |-> "asked", s |-> s, f |-> f, deadline |-> session.expires, pos |-> 0,
                  held |-> 0, queue |-> <<>>, out |-> <<>>, recv |-> TRUE, dec |-> "none"]]
          /\ UNCHANGED <<tombstones, cancelled>>
    /\ UNCHANGED asking

-----------------------------------------------------------------------------
(* Streaming a permit.                                                       *)

still == <<now, vault, tombstones, cancelled, disk, stored, job, server, onion, published, told>>

Serving(c) == conn[c].pc \in {"head", "auth", "asked", "headers", "wait", "stream", "drain"}
              /\ ~(conn[c].pc = "auth" /\ conn[c].then = "export")

(* The accept loop: a connection over the limit is closed at once.  Until    *)
(* the loop notices that it was stopped it may accept once more.             *)
accept(c) ==
    /\ server.task = "accepting" /\ conn[c] = Free
    /\ Cardinality({d \in Conns : conn[d].pc # "free" /\ Serving(d)}) < MAX_DOWNLOADS
    /\ conn' = [conn EXCEPT ![c] = [pc |-> "head", dec |-> "none"]]
    /\ UNCHANGED <<sessions, still>>

(* The request head: complete and well-formed, or answered with 400 or 401   *)
(* (the head timeout included).                                              *)
serve(c) ==
    /\ conn[c].pc = "head"
    /\ \E parsed \in BOOLEAN :
          conn' = [conn EXCEPT ![c] =
              IF parsed THEN [pc |-> "auth", dec |-> "none", then |-> "headers"] ELSE Free]
    /\ UNCHANGED <<sessions, still>>

(* nativeExportFile asks for a permit and decrypts it into a file itself.    *)
export(c) ==
    /\ vault = "open" /\ conn[c] = Free
    /\ conn' = [conn EXCEPT ![c] = [pc |-> "auth", dec |-> "none", then |-> "export"]]
    /\ UNCHANGED <<sessions, still>>

check_live(c) == conn[c].s \notin cancelled /\ now < conn[c].deadline

(* The response head, or a peer that does not take it within the timeout.    *)
respond_with_length(c) ==
    /\ conn[c].pc = "headers" /\ check_live(c)
    /\ \E taken \in BOOLEAN :
          conn' = [conn EXCEPT ![c] = IF taken THEN [@ EXCEPT !.pc = "wait"] ELSE Free]
    /\ UNCHANGED <<sessions, still>>

Decrypting == {d \in Conns : conn[d].dec \in {"read", "push"} /\ conn[d].pc # "export"}

decrypt_slots(c) ==
    /\ conn[c].pc = "wait" /\ check_live(c)
    /\ Cardinality(Decrypting) < MAX_CONCURRENT_DECRYPTS
    /\ conn' = [conn EXCEPT ![c].pc = "stream", ![c].dec = "read"]
    /\ UNCHANGED <<sessions, still>>

(* write_plaintext reads the next chunk: it must be the one its counter      *)
(* names.  At the end nothing may follow.                                    *)
Authentic(c) ==
    LET body == stored[<<conn[c].s, conn[c].f>>]
        at == conn[c].pos + 1
    IN  IF conn[c].pos = Chunks THEN Len(body) = Chunks
        ELSE Len(body) >= at /\ body[at] = at

Chunk(c) == stored[<<conn[c].s, conn[c].f>>][conn[c].pos + 1]

Readable(c) == conn[c].s \in DOMAIN disk /\ conn[c].f \in disk[conn[c].s].files

Finished(c) == IF conn[c].pc \in {"free", "export"} THEN Free ELSE [conn[c] EXCEPT !.dec = "done"]

(* Mutant: a chunk is written as it is read, whatever its tag says. *)
write_plaintext_unchecked(c) ==
    /\ conn[c].dec = "read"
    /\ LET body == stored[<<conn[c].s, conn[c].f>>] IN
       IF check_live(c) /\ Readable(c) /\ conn[c].pos < Len(body) /\ conn[c].pos < Chunks
       THEN /\ conn' = [conn EXCEPT ![c].dec = "push", ![c].pos = @ + 1, ![c].held = Chunk(c)]
            /\ UNCHANGED sessions
       ELSE /\ conn' = [conn EXCEPT ![c] = Finished(c)]
            /\ UNCHANGED sessions
    /\ UNCHANGED still
write_plaintext(c) ==
    /\ conn[c].dec = "read"
    /\ IF check_live(c) /\ Readable(c) /\ Authentic(c) /\ conn[c].pos < Chunks
       THEN /\ conn' = [conn EXCEPT ![c].dec = "push", ![c].pos = @ + 1, ![c].held = Chunk(c)]
            /\ UNCHANGED sessions
       ELSE /\ conn' = [conn EXCEPT ![c] = Finished(c)]
            /\ sessions' = IF /\ check_live(c) /\ Readable(c) /\ ~Authentic(c)
                              /\ conn[c].s \in DOMAIN sessions
                           THEN [sessions EXCEPT ![conn[c].s] = push_event(@)]
                           ELSE sessions
    /\ UNCHANGED still

(* ChannelWriter: the chunk waits for room in the bounded queue, or fails    *)
(* once the receiver is gone.  An export writes it to the file.              *)
blocking_send(c) ==
    /\ conn[c].dec = "push"
    /\ \/ /\ conn[c].pc = "export"
          /\ conn' = [conn EXCEPT ![c].dec = "read", ![c].out = Append(@, conn[c].held)]
       \/ /\ conn[c].pc # "export" /\ conn[c].recv /\ Len(conn[c].queue) < CHUNK_QUEUE
          /\ conn' = [conn EXCEPT ![c].dec = "read", ![c].queue = Append(@, conn[c].held)]
       \/ /\ conn[c].pc # "export" /\ ~conn[c].recv
          /\ conn' = [conn EXCEPT ![c] = Finished(c)]
    /\ UNCHANGED <<sessions, still>>

(* stream_permit_inner: a chunk goes to the socket; the end of the channel,  *)
(* or a peer that stalls past the write timeout, drops the receiver.         *)
stream_chunk(c) ==
    /\ conn[c].pc = "stream" /\ check_live(c) /\ conn[c].queue # <<>>
    /\ conn' = [conn EXCEPT ![c].queue = Tail(@), ![c].out = Append(@, Head(conn[c].queue))]
    /\ UNCHANGED <<sessions, still>>

(* Mutant: the decrypting task is awaited while the receiver is still held. *)
stop_receiving_held(c) ==
    /\ conn[c].pc = "stream"
    /\ conn[c].queue # <<>> \/ conn[c].dec = "done"
    /\ conn' = [conn EXCEPT ![c].pc = "drain"]
    /\ UNCHANGED <<sessions, still>>
stop_receiving(c) ==
    /\ conn[c].pc = "stream"
    /\ conn[c].queue # <<>> \/ conn[c].dec = "done"
    /\ conn' = [conn EXCEPT ![c].pc = "drain", ![c].recv = FALSE, ![c].queue = <<>>]
    /\ UNCHANGED <<sessions, still>>

await_decrypt(c) ==
    /\ conn[c].pc = "drain" /\ conn[c].dec = "done"
    /\ conn' = [conn EXCEPT ![c] = Free]
    /\ UNCHANGED <<sessions, still>>

(* stream_permit drops the transfer on revocation and at the deadline, and   *)
(* the server drops every session when it is stopped; the blocking task      *)
(* lives on until it notices.                                                *)
stream_permit(c) ==
    /\ \/ /\ conn[c].pc \in {"headers", "wait", "stream", "drain"} /\ ~check_live(c)
       \/ /\ Serving(c) /\ server.cancel
    /\ conn' = [conn EXCEPT ![c] =
           IF conn[c].dec \in {"read", "push"}
           THEN [@ EXCEPT !.pc = "free", !.recv = FALSE, !.queue = <<>>] ELSE Free]
    /\ UNCHANGED <<sessions, still>>

-----------------------------------------------------------------------------
(* Publication as an onion service.                                          *)

around == <<now, vault, sessions, tombstones, cancelled, disk, stored, job, conn, told>>

(* LoopbackServer::stop and withdraw only cancel a token; the accept task    *)
(* and the pump end when they next look at it.                               *)
stop == server' = [server EXCEPT !.cancel = TRUE]
withdraw == onion' = [onion EXCEPT !.cancel = TRUE]
publisher_is_live == ~onion.cancel /\ onion.task = "pumping"

(* publish_share: the server first, then the onion service that points at    *)
(* it; a failed publication drops the server.                                *)
publish_share ==
    \/ /\ published = "none" /\ vault = "open"
       /\ server' = [NoServer EXCEPT !.task = "starting"] /\ published' = "served"
       /\ UNCHANGED <<onion, around>>
    \/ /\ published = "served"
       /\ \/ onion' = [NoOnion EXCEPT !.task = "pumping"] /\ published' = "live" /\ UNCHANGED server
          \/ stop /\ published' = "over" /\ UNCHANGED onion
       /\ UNCHANGED around

(* The server's task takes the socket over, or ends when it cannot.          *)
ServerTask ==
    /\ server.task = "starting"
    /\ \E t \in {"accepting", "ended"} : server' = [server EXCEPT !.task = t]
    /\ UNCHANGED <<onion, published, around>>
AcceptEnds ==
    /\ server.task = "accepting" /\ server.cancel
    /\ server' = [server EXCEPT !.task = "ended"]
    /\ UNCHANGED <<onion, published, around>>

(* The pump: a stream over the limit is dropped; the pump ends when its      *)
(* token is cancelled, or by itself when the onion service gives no more.    *)
splices == onion.connecting + onion.copying
PumpAccepts ==
    /\ onion.task = "pumping" /\ splices < MAX_CONCURRENT_SPLICES
    /\ onion' = [onion EXCEPT !.connecting = @ + 1]
    /\ UNCHANGED <<server, published, around>>
OnionEnds ==
    /\ onion.task = "pumping" /\ onion' = [onion EXCEPT !.task = "ended"]
    /\ UNCHANGED <<server, published, around>>

(* A splice connects to the server, whose socket listens until its task      *)
(* ends; then it copies until a side ends or the token is cancelled.         *)
SpliceConnects ==
    /\ onion.connecting > 0
    /\ onion' = [onion EXCEPT !.connecting = @ - 1, !.copying = @ + IF server.task # "ended" THEN 1 ELSE 0]
    /\ UNCHANGED <<server, published, around>>
Copied == [onion EXCEPT !.copying = @ - 1]
SpliceCopied ==
    /\ onion.copying > 0 /\ onion' = Copied
    /\ UNCHANGED <<server, published, around>>
(* Mutant: a splice does not watch the token. *)
splice_cancelled_unwatched ==
    /\ onion.copying > 0 /\ onion.cancel /\ onion.task = "pumping" /\ onion' = Copied
    /\ UNCHANGED <<server, published, around>>
splice_cancelled ==
    /\ onion.copying > 0 /\ onion.cancel /\ onion' = Copied
    /\ UNCHANGED <<server, published, around>>

(* Drop for PublishedShare: withdraw, then stop. *)
(* Mutant: the server is stopped while the onion service still points at it. *)
drop_published_reversed ==
    \/ /\ published = "live"
       /\ stop /\ published' = "withdrawn"
       /\ UNCHANGED <<onion, around>>
    \/ /\ published = "withdrawn"
       /\ withdraw /\ published' = "over"
       /\ UNCHANGED <<server, around>>
drop_published ==
    \/ /\ published = "live"
       /\ withdraw /\ published' = "withdrawn"
       /\ UNCHANGED <<server, around>>
    \/ /\ published = "withdrawn"
       /\ stop /\ published' = "over"
       /\ UNCHANGED <<onion, around>>

(* The storage under a stored file changes: a chunk is lost, two change      *)
(* places, or something follows the last.                                    *)
Damaged(chunks) == {Front(chunks), Reverse(chunks), Append(chunks, 1)}

Damage(key) ==
    /\ key \in DOMAIN stored /\ stored[key] = Whole /\ Whole # <<>>
    /\ \E chunks \in Damaged(Whole) : stored' = [stored EXCEPT ![key] = chunks]
    /\ UNCHANGED <<now, vault, sessions, tombstones, cancelled, disk, job, conn, server, onion,
                   published, told>>

-----------------------------------------------------------------------------
SharesInit(used) ==
    /\ now = 0 /\ vault = "open" /\ tombstones = <<>> /\ cancelled = {}
    /\ sessions = <<>> /\ disk = <<>> /\ stored = <<>>
    /\ job = Idle /\ conn = [c \in Conns |-> Free]
    /\ server = NoServer /\ onion = NoOnion /\ published = "none"
    /\ told = [used |-> used, tried |-> {}, added |-> {}, gone |-> {}, hurt |-> {},
               granted |-> [s \in Ids |-> 0], allowed |-> [s \in Ids |-> 0]]

-----------------------------------------------------------------------------
(* What the caller was told about a share survives the death of the process, *)
(* but for the files of one whose import or removal it cut short: no         *)
(* more permits than max_downloads are ever handed out, whatever restarts    *)
(* come between (authorize_download writes the manifest before it returns    *)
(* the permit), a file reported as added is in the manifest of a share that  *)
(* still exists (add_file), and a share reported as revoked or expired has   *)
(* neither a session nor a directory again (revoke, remove_share).           *)
PromisesSurvive ==
    /\ \A s \in Ids : told.granted[s] <= told.allowed[s]
    /\ \A s \in DOMAIN disk : disk[s].manifest # {} /\ s \notin told.hurt =>
           {f \in FileIds : <<s, f>> \in told.added} \subseteq Listed(disk[s])
    /\ \A s \in told.gone : s \notin DOMAIN sessions /\ s \notin DOMAIN disk

(* ShareManager::open refuses the vault only when an import or a removal was *)
(* cut short by a crash or ended in an I/O error, and never because of       *)
(* create, authorize_download or an interrupted manifest write: load_sessions *)
(* copes with everything those can leave behind.                             *)
RefusedOnlyWhenHurt == vault = "refused" => told.hurt # {}

(* A download delivers a prefix of the file that was imported, chunk by      *)
(* chunk, whatever happened to the stored bytes (write_plaintext             *)
(* authenticates each chunk before it is written).                           *)
PlaintextAuthentic ==
    \A c \in Conns : conn[c].pc \in {"stream", "export"} =>
        IsPrefix(conn[c].out \o conn[c].queue, Whole)

(* Guesses at a password cost the growing wait: a session with n failures in *)
(* a row has a retry time no earlier than the sum of the waits before it     *)
(* (deny_password_attempt, and the check before the hash).                   *)
Waits[n \in Nat] == IF n = 0 THEN 0 ELSE Waits[n - 1] + password_retry_delay(n)
GuessesSpaced ==
    \A s \in DOMAIN sessions : sessions[s].failed > 0 =>
        sessions[s].retry >= Waits[sessions[s].failed]

(* The server is told to stop only once the publication in front of it was   *)
(* told to, or ended by itself (the order of Drop for PublishedShare).       *)
OnionServed == publisher_is_live => ~server.cancel

(* Once a PublishedShare is dropped, or its publication failed, nothing of   *)
(* it goes on: the pump, its splices, the accept task and every download of  *)
(* the server end, although both tokens are only cancelled (withdraw, stop). *)
WithdrawnShareEnds ==
    published = "over" ~> /\ onion.task # "pumping" /\ splices = 0 /\ server.task = "ended"
                          /\ \A c \in Conns : conn[c].pc = "free" \/ ~Serving(c)

(* A blocking decrypt task always ends and gives its slot back, although the *)
(* peer may stop reading at any chunk (the receiver is dropped before the    *)
(* task is awaited), and a transfer that holds a permit always ends.         *)
DecryptSlotsReturn ==
    \A c \in Conns : conn[c].dec \in {"read", "push"} ~> conn[c].dec \in {"none", "done"}
=============================================================================
