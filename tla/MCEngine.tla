------------------------------ MODULE MCEngine ------------------------------
(***************************************************************************)
(* Model values and casts for the engine's surroundings: file shares, the   *)
(* components with their proxies, and the native handles.                   *)
(* `part` says which of them a behaviour is about; the other components'    *)
(* variables stay at their initial values.                                  *)
(***************************************************************************)
EXTENDS Shares, Components, NativeEngine

CONSTANTS s1, f1, f2, c1, c2, w1, w2, lan, h1, h2, d1, t1, t2

VARIABLE part

MaxDropped == 1   \* bound outside the stream part: events a queue may have lost

MCIds == {s1}
MCFileIds == {f1, f2}
MCConns == {c1, c2}
MCTimes == 0..2
MCApps == {w1, w2}
MCProxies == {h1, h2}
MCSessions == {d1}
MCEngines == 1..2
MCThreads == {t1, t2}
MCTokens == 1..1
MaxLease == 2        \* leases ever handed out
MaxGeneration == 2   \* policy generations

vars == <<shareVars, componentVars, nativeVars, part>>

-----------------------------------------------------------------------------
(* A stop is followed to its end in the part about one engine's listeners.   *)
MCStoppedEngineLeaves == part = "listeners" => StoppedEngineLeaves(1)

(* A withdrawal is followed to its end in the part about publication.        *)
MCWithdrawnShareEnds == part = "publish" => WithdrawnShareEnds

-----------------------------------------------------------------------------
(* A share with one imported file, as create and add_file leave it.          *)
ServedInit ==
    /\ now = 0 /\ vault = "open" /\ tombstones = <<>> /\ cancelled = {}
    /\ sessions = [s \in {s1} |-> [expires |-> 1, remaining |-> 2, files |-> {f1},
           locked |-> FALSE, failed |-> 0, retry |-> 0, queued |-> 0, dropped |-> 0]]
    /\ disk = [s \in {s1} |-> [manifest |-> {from_session(sessions[s1])}, part |-> FALSE,
                               files |-> {f1}, parts |-> {}]]
    /\ stored = [k \in {<<s1, f1>>} |-> Whole]
    /\ job = Idle
    /\ told = [used |-> {s1}, tried |-> {<<s1, f1>>}, added |-> {<<s1, f1>>}, gone |-> {},
               hurt |-> {}, granted |-> [s \in Ids |-> 0], allowed |-> [s \in Ids |-> 2]]

(* Two requests have been read by a published server.                        *)
StreamInit ==
    /\ ServedInit
    /\ conn = [c \in Conns |-> [pc |-> "auth", dec |-> "none", then |-> "headers"]]
    /\ server = [NoServer EXCEPT !.task = "accepting"] /\ onion = [NoOnion EXCEPT !.task = "pumping"]
    /\ published = "live"

PublishInit ==
    /\ ServedInit
    /\ conn = [c \in Conns |-> Free]
    /\ server = NoServer /\ onion = NoOnion /\ published = "none"

Jobs == \/ create_share \/ write_file \/ RenameFile \/ StageManifest \/ write_manifest
        \/ remove_share

Streaming == \E c \in Conns :
    \/ respond_with_length(c) \/ decrypt_slots(c) \/ write_plaintext(c) \/ blocking_send(c)
    \/ stream_chunk(c) \/ stop_receiving(c) \/ await_decrypt(c) \/ stream_permit(c)

VaultNext ==
    \/ Jobs \/ open \/ Tick
    \/ \E s \in Ids : \/ \E e \in {2}, n \in 1..2, l \in BOOLEAN : create(s, e, n, l)
                      \/ revoke(s) \/ drain_events(s)
                      \/ \E f \in FileIds : add_file(s, f)
                      \/ \E f \in {f1}, cap \in BOOLEAN, pw \in {"none", "good", "bad"} :
                            authorize_download(c1, s, f, cap, pw)
    \/ \E late \in BOOLEAN : IoError(late)
    \/ export(c1)
    \/ write_plaintext(c1) \/ blocking_send(c1)
    \/ Crash /\ told.hurt = {}

Answers(c) == authorize_download(c, s1, f1, TRUE, "none")

StreamNext ==
    \/ Jobs \/ Streaming \/ drop_published
    \/ revoke(s1) \/ Damage(<<s1, f1>>)
    \/ \E c \in Conns : Answers(c)

PublishNext ==
    \/ publish_share \/ ServerTask \/ AcceptEnds \/ OnionEnds \/ drop_published \/ Jobs
    \/ PumpAccepts \/ SpliceConnects \/ SpliceCopied \/ splice_cancelled
    \/ accept(c1) \/ serve(c1) \/ stream_permit(c1) \/ Answers(c1)
    \/ export(c2) \/ Answers(c2) \/ write_plaintext(c2) \/ blocking_send(c2)

ComponentsNext ==
    /\ \/ \E route \in Routes : register_web_app(w1, route, route # "direct")
       \/ register_file_share(w2)
       \/ \E id \in Apps :
             \/ remove_web_app(id) \/ remove_file_share(id)
             \/ \E route \in Routes : set_web_app_route(id, route)
             \/ \E purpose \in Purposes : acquire(id, purpose)
             \/ id = w1 /\ drain_component(id)
       \/ publish_route \/ enter_lease \/ Unavailable
       \/ \E n \in DOMAIN leases :
             \/ drop_lease(n) \/ authorize_notification(n) \/ (n = 1 /\ authorize_credential(n))
             \/ \E o \in {"navigation", "delivery", "publish"} : authorize(n, o)
       \/ \E n \in checked, o \in {"navigation", "publish"} : authorize_reference(n, o)
    /\ next_lease' <= MaxLease + 1 /\ next_generation' <= MaxGeneration + 1

LanNext ==
    \/ bind \/ drain_component(ProxyId) \/ Unavailable
    \/ proxy[h1].state = "none" /\ confirm_lan_network("home")
    \/ (\A p \in Proxies : proxy[p].state = "none") /\ confirm_lan_network("modem")
    \/ control.op = "start" /\ control.p = h1 /\ forget_lan_network("home")
    \/ \E binding \in {"home", "nameless", "modem"} : start_lan_proxy(h1, {"socks", "http"}, "vpn", binding)
    \/ start_loopback_inbound(h2, "direct", FALSE) \/ start_loopback_proxy(h2)
    \/ \E p \in Proxies : \/ Cancel(p) \/ invalidate(p)
                          \/ network_changed(p) \/ stop_proxy(p) \/ end_accept_loop(p)
    \/ \E s \in Sessions : \/ \E p \in Proxies, proto \in {"socks", "http"} : accept_loop(s, p, proto)
                           \/ socks_handshake(s) \/ http_handshake(s)
                           \/ verify(s) \/ end_handshake(s) \/ serve_session(s)
                           \/ end_relay(s) \/ cancelled_session(s)

(* Starts, stops, force kills and continuations. *)
LifecycleNext ==
    \/ \E e \in Engines : \/ WorkerReady(e) \/ WorkerEnds(e) \/ DropRuntime(e) \/ stop_reaper(e)
                          \/ \E t \in Threads : \/ nativeStop(t, e)
                                                \/ t = t2 /\ nativeForceKill(t, e)
                                                \/ nativeRetainDnsContinuation(t, e)
    \/ native_start(t1)
    \/ \E t \in Threads : \/ Proceed(t)
                          \/ \E k \in Tokens : borrow_dns_continuation(t, k)
    \/ \E k \in Tokens : nativeReleaseDnsContinuation(k)

(* One running engine, whose listeners and sub-handles come and go.          *)
RunningInit ==
    /\ registry = {1} /\ active = 1 /\ started = {1} /\ pool = {} /\ next_token = 1
    /\ eng = [e \in Engines |-> IF e # 1 THEN Unborn ELSE
                  [Unborn EXCEPT !.worker = "running", !.ready = TRUE, !.thread = "runtime",
                                 !.available = TRUE]]
    /\ reapers = {} /\ subs = {} /\ killed = {}
    /\ call = [t \in Threads |-> Return]

ListenersNext ==
    \/ WorkerEnds(1) \/ DropRuntime(1) \/ stop_reaper(1)
    \/ \E t \in Threads : \/ nativeStop(t, 1) \/ nativeForceKill(t, 1) \/ Proceed(t)
                          \/ install_lan_proxy(t, 1) \/ (t = t1 /\ nativeAcquireLease(t, 1))
                          \/ \E n \in Names, s \in Secrets : install_loopback_inbound(t, 1, n, s)
    \/ \E n \in Names : remove_loopback_inbound(1, n)

ShareParts == {"vault", "stream", "publish"}
ComponentParts == {"components", "lan"}
NativeParts == {"lifecycle", "listeners"}

MCInit ==
    /\ part \in ShareParts \cup ComponentParts \cup NativeParts
    /\ part \notin {"stream", "publish"} => SharesInit({})
    /\ part = "stream" => StreamInit
    /\ part = "publish" => PublishInit
    /\ ComponentsInit
    /\ part # "components" => ~tor_available
    /\ IF part = "listeners" THEN RunningInit ELSE NativeInit

SharesNext ==
    /\ \/ part = "vault" /\ VaultNext
       \/ part = "stream" /\ StreamNext
       \/ part = "publish" /\ PublishNext
    /\ part # "stream" => \A s \in DOMAIN sessions' : sessions'[s].dropped <= MaxDropped

MCNext ==
    /\ UNCHANGED part
    /\ \/ part \in ShareParts /\ SharesNext /\ UNCHANGED <<componentVars, nativeVars>>
       \/ part = "components" /\ ComponentsNext /\ UNCHANGED <<shareVars, nativeVars>>
       \/ part = "lan" /\ LanNext /\ UNCHANGED <<shareVars, nativeVars>>
       \/ part = "lifecycle" /\ LifecycleNext /\ UNCHANGED <<shareVars, componentVars>>
       \/ part = "listeners" /\ ListenersNext /\ UNCHANGED <<shareVars, componentVars>>

Fair(parts, A) == part \in parts /\ A /\ UNCHANGED part

MCSpec == MCInit /\ [][MCNext]_vars
    /\ \A c \in Conns : WF_shareVars(Fair(ShareParts, write_plaintext(c)))
                        /\ WF_shareVars(Fair(ShareParts, blocking_send(c)))
                        /\ WF_shareVars(Fair(ShareParts, stop_receiving(c) \/ stream_permit(c)))
    /\ WF_shareVars(Fair({"publish"}, ServerTask)) /\ WF_shareVars(Fair({"publish"}, AcceptEnds))
    /\ WF_shareVars(Fair({"publish"}, onion.cancel /\ OnionEnds))
    /\ WF_shareVars(Fair({"publish"}, SpliceConnects \/ splice_cancelled))
    /\ \A p \in Proxies : WF_componentVars(Fair({"lan"}, end_accept_loop(p)))
    /\ \A s \in Sessions :
         WF_componentVars(Fair({"lan"}, cancelled_session(s) \/ end_handshake(s) \/ serve_session(s)))
    /\ \A t \in Threads : WF_nativeVars(Fair({"listeners"}, Proceed(t)))
    /\ \A e \in {1} : WF_nativeVars(Fair({"listeners"}, DropRuntime(e)))
                      /\ WF_nativeVars(Fair({"listeners"}, stop_reaper(e)))

-----------------------------------------------------------------------------
(* The vault and what serves it: a share promised survives crashes, a      *)
(* vault is refused only when it is hurt, what a downloader is given is    *)
(* what was imported, guesses at a password are spaced, and a server is    *)
(* told to stop only after the onion service in front of it.  Who owns     *)
(* what: leases follow their route, an identity is registered once, a      *)
(* worker has one owner.                                                   *)
EngineSound ==
  /\ PromisesSurvive /\ RefusedOnlyWhenHurt /\ PlaintextAuthentic /\ GuessesSpaced /\ OnionServed
  /\ LeasesFollowRoute /\ OneRegistration /\ AnonymousOnLoopback /\ OneWorkerOwned

(* A session is not authenticated after its listener lost its credentials; *)
(* a successor takes over only from a predecessor that let go.             *)
HandoversSound == [][NoLateAuthentication /\ SuccessorsHonest]_vars

(* What is stopped lets go: decrypt slots return, nothing of a withdrawn   *)
(* share goes on, the sessions of a cancelled proxy end, and a stopped     *)
(* engine leaves its table.                                                *)
EngineLetsGo == DecryptSlotsReturn /\ MCWithdrawnShareEnds /\ SessionsEnd /\ MCStoppedEngineLeaves
=============================================================================
