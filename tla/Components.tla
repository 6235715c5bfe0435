----------------------------- MODULE Components -----------------------------
(***************************************************************************)
(* The component manager of foxcore-component: web applications and file    *)
(* shares, the leases they hold on the root runtime, and the LAN and        *)
(* loopback proxies with the sessions they serve.  An operation takes one    *)
(* step per critical section of the `state` mutex; `control` is held across  *)
(* the sections of one operation, but neither the drop of a lease nor a      *)
(* proxy's stop takes it.                                                    *)
(***************************************************************************)
EXTENDS Naturals, FiniteSets

CONSTANTS Apps,               \* component identities
          ProxyId,            \* the identity of the LAN proxy
          Proxies,            \* LanProxyHandle values, all under that identity
          Sessions,           \* proxy sessions
          MAX_COMPONENTS, MAX_LEASES, MAX_EVENTS_PER_COMPONENT, MAX_LAN_SESSIONS,
          MAX_CONFIRMED_NETWORKS

Routes == {"vpn", "tor", "direct", "block"}
Purposes == {"navigation", "notification", "sharing"}

VARIABLES web_apps,      \* id -> [route, generation, notifications]
          file_shares,   \* id -> generation
          leases,        \* lease number -> [component, purpose, runtime]
          next_lease, next_generation,
          checked,       \* lease numbers whose credential was just verified
          events,        \* id -> [queued, dropped]; its domain is next_event_sequence's,
                         \* `dropped` says whether any was lost since the last drain
          control,       \* the holder of the `control` mutex
          available,     \* the root runtime's availability
          tor_available,
          proxy,         \* handle -> its state
          lan_proxies,   \* whether the proxy identity is registered
          confirmed_networks, \* fingerprints the user approved for listeners
          session,       \* proxy session -> its place in `serve`
          torn           \* history: a route change met a lease that was gone

componentVars == <<web_apps, file_shares, leases, next_lease, next_generation, checked, events,
                   control, available, tor_available, proxy, lan_proxies, confirmed_networks,
                   session, torn>>

Unlocked == [op |-> "idle"]
Drop(map, keys) == [k \in DOMAIN map \ keys |-> map[k]]
Set(map, key, value) == [k \in DOMAIN map \cup {key} |-> IF k = key THEN value ELSE map[k]]

-----------------------------------------------------------------------------
(* The audit queue of one component: bounded, the oldest lost and counted.   *)
component_event(id) ==
    LET before == IF id \in DOMAIN events THEN events[id] ELSE [queued |-> 0, dropped |-> FALSE]
    IN  Set(events, id, IF before.queued >= MAX_EVENTS_PER_COMPONENT
                        THEN [before EXCEPT !.dropped = TRUE]
                        ELSE [before EXCEPT !.queued = @ + 1])

drain_component(id) ==
    /\ id \in DOMAIN events
    /\ \E left \in 0..events[id].queued :
          events' = [events EXCEPT ![id] = [queued |-> left, dropped |-> FALSE]]
    /\ UNCHANGED <<web_apps, file_shares, leases, next_lease, next_generation, checked, control,
                   available, tor_available, proxy, lan_proxies, confirmed_networks, session, torn>>

component_count == Cardinality(DOMAIN web_apps) + Cardinality(DOMAIN file_shares)

(* The runtime a route needs, and whether the provider hands it out: neither *)
(* direct nor block asks for one.                                            *)
acquire_runtime(route) ==
    IF route \in {"direct", "block"} THEN {"none"}
    ELSE {r \in {route} : available /\ (r = "tor" => tor_available)}

(* The registry a lease of this purpose resolves in, and its route there.    *)
resolve_component(id, purpose) ==
    CASE purpose \in {"navigation", "notification"} /\ id \in DOMAIN web_apps ->
             {web_apps[id].route}
      [] purpose = "sharing" /\ id \in DOMAIN file_shares -> {"tor"}
      [] OTHER -> {}

runtimeVars == <<available, tor_available, proxy, lan_proxies, confirmed_networks, session>>

-----------------------------------------------------------------------------
Registrable(id) ==
    /\ control.op = "idle"
    /\ component_count < MAX_COMPONENTS
    /\ id \notin DOMAIN events => Cardinality(DOMAIN events) < MAX_COMPONENTS
    /\ id \notin DOMAIN web_apps \cup DOMAIN file_shares

register_web_app(id, route, notifications) ==
    /\ Registrable(id)
    /\ web_apps' = Set(web_apps, id, [route |-> route, generation |-> next_generation,
                                      notifications |-> notifications])
    /\ next_generation' = next_generation + 1
    /\ events' = component_event(id)
    /\ UNCHANGED <<file_shares, leases, next_lease, checked, control, torn, runtimeVars>>

register_file_share(id) ==
    /\ Registrable(id)
    /\ file_shares' = Set(file_shares, id, next_generation)
    /\ next_generation' = next_generation + 1
    /\ events' = component_event(id)
    /\ UNCHANGED <<web_apps, leases, next_lease, checked, control, torn, runtimeVars>>

LeasesOf(id) == {n \in DOMAIN leases : leases[n].component = id}

(* Removing a component revokes its leases; their handles find nothing.      *)
remove_web_app(id) ==
    /\ control.op = "idle" /\ id \in DOMAIN web_apps
    /\ web_apps' = Drop(web_apps, {id})
    /\ leases' = Drop(leases, LeasesOf(id))
    /\ events' = component_event(id)
    /\ UNCHANGED <<file_shares, next_lease, next_generation, checked, control, torn, runtimeVars>>

remove_file_share(id) ==
    /\ control.op = "idle" /\ id \in DOMAIN file_shares
    /\ file_shares' = Drop(file_shares, {id})
    /\ leases' = Drop(leases, LeasesOf(id))
    /\ events' = component_event(id)
    /\ UNCHANGED <<web_apps, next_lease, next_generation, checked, control, torn, runtimeVars>>

(* set_web_app_route, first section: the leases to move, and a runtime for   *)
(* each of them; any refusal ends it with nothing changed.                   *)
set_web_app_route(id, route) ==
    /\ control.op = "idle" /\ id \in DOMAIN web_apps
    /\ web_apps[id].route # route
    /\ LeasesOf(id) # {} => acquire_runtime(route) # {}
    /\ control' = [op |-> "route", id |-> id, route |-> route, moving |-> LeasesOf(id)]
    /\ UNCHANGED <<web_apps, file_shares, leases, next_lease, next_generation, checked, events,
                   torn, runtimeVars>>

(* Second section: the route is written first.  A lease that was dropped in  *)
(* between ends the loop with InvalidLease, after some of the others.        *)
NeededBy(route) == IF route \in {"direct", "block"} THEN "none" ELSE route

(* Mutant: only leases acquired later get the new runtime. *)
publish_route_only ==
    /\ control.op = "route"
    /\ web_apps' = [web_apps EXCEPT ![control.id].route = control.route,
                                    ![control.id].generation = next_generation]
    /\ next_generation' = next_generation + 1
    /\ events' = component_event(control.id)
    /\ control' = Unlocked
    /\ UNCHANGED <<leases, torn, file_shares, next_lease, checked, runtimeVars>>
publish_route ==
    /\ control.op = "route"
    /\ web_apps' = [web_apps EXCEPT ![control.id].route = control.route,
                                    ![control.id].generation = next_generation]
    /\ next_generation' = next_generation + 1
    /\ LET present == control.moving \cap DOMAIN leases IN
       IF present = control.moving
       THEN /\ leases' = [n \in DOMAIN leases |->
                   IF n \in present THEN [leases[n] EXCEPT !.runtime = NeededBy(control.route)]
                   ELSE leases[n]]
            /\ events' = component_event(control.id)
            /\ UNCHANGED torn
       ELSE /\ \E done \in SUBSET present :
                 leases' = [n \in DOMAIN leases |->
                     IF n \in done THEN [leases[n] EXCEPT !.runtime = NeededBy(control.route)]
                     ELSE leases[n]]
            /\ torn' = torn \cup {control.id}
            /\ UNCHANGED events
    /\ control' = Unlocked
    /\ UNCHANGED <<file_shares, next_lease, checked, runtimeVars>>

(* acquire: resolve and take the runtime, then enter the lease.              *)
acquire(id, purpose) ==
    /\ control.op = "idle"
    /\ Cardinality(DOMAIN leases) < MAX_LEASES
    /\ purpose = "notification" => id \in DOMAIN web_apps /\ web_apps[id].notifications
    /\ \E route \in resolve_component(id, purpose) : \E runtime \in acquire_runtime(route) :
          control' = [op |-> "acquire", id |-> id, purpose |-> purpose, runtime |-> runtime]
    /\ UNCHANGED <<web_apps, file_shares, leases, next_lease, next_generation, checked, events,
                   torn, runtimeVars>>

enter_lease ==
    /\ control.op = "acquire"
    /\ leases' = Set(leases, next_lease, [component |-> control.id, purpose |-> control.purpose,
                                          runtime |-> control.runtime])
    /\ next_lease' = next_lease + 1
    /\ events' = component_event(control.id)
    /\ control' = Unlocked
    /\ UNCHANGED <<web_apps, file_shares, next_generation, checked, torn, runtimeVars>>

(* Drop for ComponentLease: without `control`, so at any time.               *)
drop_lease(n) ==
    /\ n \in DOMAIN leases
    /\ leases' = Drop(leases, {n})
    /\ events' = component_event(leases[n].component)
    /\ UNCHANGED <<web_apps, file_shares, next_lease, next_generation, checked, control, torn,
                   runtimeVars>>

(* Which operations a lease's purpose allows. *)
ensure_operation(purpose, operation) ==
    operation \in CASE purpose = "navigation" -> {"navigation", "subresource"}
                    [] purpose = "notification" -> {"delivery", "action"}
                    [] OTHER -> {"publish", "download"}

ensure_runtime_available(lease) == lease.runtime # "none" => available

(* The decision for an operation on a lease: a route, or nothing. *)
Decision(n, operation) ==
    IF /\ n \in DOMAIN leases /\ ensure_operation(leases[n].purpose, operation)
       /\ ensure_runtime_available(leases[n])
    THEN resolve_component(leases[n].component, leases[n].purpose) \ {"block"}
    ELSE {}

(* The operations leave only events behind: a refusal because of Block is    *)
(* recorded, and every answer of the notification channel.                   *)
authorize(n, operation) ==
    /\ n \in DOMAIN leases /\ ensure_operation(leases[n].purpose, operation)
    /\ ensure_runtime_available(leases[n])
    /\ Decision(n, operation) = {}
    /\ events' = component_event(leases[n].component)
    /\ UNCHANGED <<web_apps, file_shares, leases, next_lease, next_generation, checked, control,
                   torn, runtimeVars>>

authorize_notification(n) ==
    /\ n \in DOMAIN leases /\ leases[n].purpose = "notification"
    /\ ensure_runtime_available(leases[n])
    /\ events' = component_event(leases[n].component)
    /\ UNCHANGED <<web_apps, file_shares, leases, next_lease, next_generation, checked, control,
                   torn, runtimeVars>>

(* authorize_credential compares the digest in a section of its own; the     *)
(* lease may be gone when authorize_reference looks it up.                   *)
authorize_credential(n) ==
    /\ n \in DOMAIN leases /\ checked = {}
    /\ checked' = {n}
    /\ UNCHANGED <<web_apps, file_shares, leases, next_lease, next_generation, control, events,
                   torn, runtimeVars>>

authorize_reference(n, operation) ==
    /\ n \in checked
    /\ checked' = {}
    /\ events' = IF /\ n \in DOMAIN leases /\ ensure_operation(leases[n].purpose, operation)
                    /\ ensure_runtime_available(leases[n]) /\ Decision(n, operation) = {}
                 THEN component_event(leases[n].component) ELSE events
    /\ UNCHANGED <<web_apps, file_shares, leases, next_lease, next_generation, control, torn,
                   runtimeVars>>

(* The root runtime stops. *)
Unavailable ==
    /\ available /\ available' = FALSE
    /\ UNCHANGED <<web_apps, file_shares, leases, next_lease, next_generation, checked, control,
                   events, tor_available, proxy, lan_proxies, confirmed_networks, session, torn>>

-----------------------------------------------------------------------------
(* LAN and loopback proxies.                                                 *)

registryVars == <<web_apps, file_shares, leases, next_lease, next_generation, checked, available,
                  tor_available, confirmed_networks, torn>>

(* What a listener is bound to: a network of the device, one without an SSID *)
(* hash, the modem's, or the loopback address.  Only a network with an SSID  *)
(* hash has a fingerprint; the modem's carries no listener, by its transport *)
(* or by the name of its interface, whatever was confirmed.                  *)
fingerprint(binding) == {binding} \ {"nameless", "loopback"}
BindingValidate(binding) == binding # "modem"

Confirm(networks) ==
    /\ confirmed_networks' = networks
    /\ UNCHANGED <<web_apps, file_shares, leases, next_lease, next_generation, checked, events,
                   control, available, tor_available, proxy, lan_proxies, session, torn>>

(* Neither takes `control`: a network may be forgotten while a listener      *)
(* comes up on it, and one that is up stays.                                 *)
confirm_lan_network(binding) ==
    /\ fingerprint(binding) # {}
    /\ \/ Cardinality(confirmed_networks) < MAX_CONFIRMED_NETWORKS
       \/ fingerprint(binding) \subseteq confirmed_networks
    /\ Confirm(confirmed_networks \cup fingerprint(binding))

forget_lan_network(binding) == Confirm(confirmed_networks \ fingerprint(binding))

(* A LAN proxy always has credentials and offers the protocols that have a   *)
(* port.                                                                     *)
PresetRuntimes(preset) == IF preset = "mixed" THEN {"vpn", "tor"} ELSE {preset}
lan_plan(offers, preset) == [offers |-> offers, credentials |-> TRUE, runtimes |-> PresetRuntimes(preset)]

Down == [state |-> "none", cancelled |-> FALSE, generation |-> 1, credentials |-> FALSE,
         listening |-> FALSE, anonymous |-> FALSE, offers |-> {}, binding |-> "loopback"]

(* Mutant: only a LAN plan that has ports is looked at. *)
start_with_plan(p, plan, binding) ==
    /\ control.op = "idle" /\ proxy[p].state = "none" /\ plan.offers # {}
    /\ ~lan_proxies
    /\ \A runtime \in plan.runtimes : available /\ (runtime = "tor" => tor_available)
    /\ control' = [op |-> "start", p |-> p, plan |-> plan, binding |-> binding]
    /\ UNCHANGED <<proxy, lan_proxies, session, events, registryVars>>
(* start_with_binding: an anonymous plan on loopback only, the network       *)
(* confirmed, the identity not taken, the runtimes leased.  Then the sockets *)
(* are bound, their accept loops spawned and the identity registered, or a   *)
(* bind fails.  All of it holds `control`.                                   *)
start_with_binding(p, plan, binding) ==
    /\ control.op = "idle" /\ proxy[p].state = "none" /\ plan.offers # {} /\ BindingValidate(binding)
    /\ plan.credentials \/ binding = "loopback"
    /\ binding # "loopback" =>
          fingerprint(binding) # {} /\ fingerprint(binding) \subseteq confirmed_networks
    /\ ~lan_proxies
    /\ \A runtime \in plan.runtimes : available /\ (runtime = "tor" => tor_available)
    /\ control' = [op |-> "start", p |-> p, plan |-> plan, binding |-> binding]
    /\ UNCHANGED <<proxy, lan_proxies, session, events, registryVars>>

(* On a network of the device; the runtime's own control surface; a named    *)
(* inbound, which speaks HTTP only, may ask for no credentials, and leases   *)
(* the root runtime when it goes out directly.                               *)
start_lan_proxy(p, offers, preset, binding) ==
    binding # "loopback" /\ start_with_binding(p, lan_plan(offers, preset), binding)
start_loopback_proxy(p) == start_with_binding(p, lan_plan({"http"}, "vpn"), "loopback")
start_loopback_inbound(p, route, credentials) ==
    start_with_binding(p, [offers |-> {"http"}, credentials |-> credentials,
                           runtimes |-> {IF route = "direct" THEN "root" ELSE route}], "loopback")

bind ==
    /\ control.op = "start"
    /\ \/ /\ lan_proxies' = TRUE
          /\ proxy' = [proxy EXCEPT ![control.p] =
                 [Down EXCEPT !.state = "ready", !.listening = TRUE, !.offers = control.plan.offers,
                              !.credentials = control.plan.credentials, !.binding = control.binding,
                              !.anonymous = ~control.plan.credentials]]
          /\ events' = component_event(ProxyId)
       \/ UNCHANGED <<lan_proxies, proxy, events>>
    /\ control' = Unlocked
    /\ UNCHANGED <<session, registryVars>>

(* network_changed and stop cancel, then invalidate (the generation first,   *)
(* then the credentials), then move the state.  Only the first stop takes    *)
(* the registration away; Drop calls stop again.                             *)
Cancel(p) ==
    /\ proxy[p].state = "ready" /\ ~proxy[p].cancelled
    /\ proxy' = [proxy EXCEPT ![p].cancelled = TRUE]
    /\ UNCHANGED <<lan_proxies, session, events, control, registryVars>>

invalidate(p) ==
    /\ proxy[p].cancelled
    /\ \/ /\ proxy[p].generation = 1
          /\ proxy' = [proxy EXCEPT ![p].generation = 2]
       \/ /\ proxy[p].generation = 2 /\ proxy[p].credentials
          /\ proxy' = [proxy EXCEPT ![p].credentials = FALSE]
    /\ UNCHANGED <<lan_proxies, session, events, control, registryVars>>

(* Whether invalidate has returned. *)
Invalidated(p) == proxy[p].generation = 2 /\ ~proxy[p].credentials

(* The runtime calls it on a proxy it still holds: a stopped one was taken   *)
(* out first (shutdown_lan_proxy), one that was lost may be lost again.      *)
network_changed(p) ==
    /\ proxy[p].cancelled /\ Invalidated(p) /\ proxy[p].state \in {"ready", "lost"}
    /\ proxy' = [proxy EXCEPT ![p].state = "lost"]
    /\ events' = component_event(ProxyId)
    /\ UNCHANGED <<lan_proxies, session, control, registryVars>>

(* Mutant: every stop takes the registration away, the one of Drop included. *)
stop_proxy_again(p) ==
    /\ proxy[p].cancelled /\ Invalidated(p)
    /\ proxy[p].state # "none"
    /\ proxy' = [proxy EXCEPT ![p].state = "stopped"]
    /\ lan_proxies' = FALSE
    /\ events' = component_event(ProxyId)
    /\ UNCHANGED <<session, control, registryVars>>
stop_proxy(p) ==
    /\ proxy[p].cancelled /\ Invalidated(p)
    /\ proxy[p].state # "none"
    /\ proxy' = [proxy EXCEPT ![p].state = "stopped"]
    /\ lan_proxies' = (lan_proxies /\ proxy[p].state = "stopped")
    /\ events' = IF proxy[p].state = "stopped" THEN events ELSE component_event(ProxyId)
    /\ UNCHANGED <<session, control, registryVars>>

-----------------------------------------------------------------------------
(* Sessions: accept_loop and serve.                                          *)

Gone == [pc |-> "none"]
sessionOnly == <<proxy, lan_proxies, control, registryVars>>

Slots(p) == {s \in Sessions : session[s].pc # "none" /\ session[s].p = p}

(* The select of the accept loop is not biased: connections may be taken     *)
(* although the proxy is cancelled, until the loop has seen it.  Without a   *)
(* free slot the connection is dropped.                                      *)
accept_loop(s, p, protocol) ==
    /\ session[s].pc = "none" /\ proxy[p].listening /\ protocol \in proxy[p].offers
    /\ Cardinality(Slots(p)) < MAX_LAN_SESSIONS
    /\ session' = [session EXCEPT ![s] = [pc |-> "handshake", p |-> p, protocol |-> protocol]]
    /\ UNCHANGED <<events, sessionOnly>>

end_accept_loop(p) ==
    /\ proxy[p].listening /\ proxy[p].cancelled
    /\ proxy' = [proxy EXCEPT ![p].listening = FALSE]
    /\ UNCHANGED <<lan_proxies, session, events, control, registryVars>>

(* The SOCKS greeting leads to the credentials and then to the request. *)
socks_handshake(s) ==
    /\ session[s].pc \in {"handshake", "request"} /\ session[s].protocol = "socks"
    /\ \/ session[s].pc = "handshake" /\ session' = [session EXCEPT ![s].pc = "verify"]
       \/ session[s].pc = "request" /\ session' = [session EXCEPT ![s].pc = "connecting"]
    /\ UNCHANGED <<events, sessionOnly>>

(* The HTTP head has it all.  That a listener asks for nothing was decided   *)
(* when it was built; the generation counts for it too.                      *)
(* Mutant: a listener without credentials asks for nothing. *)
allows_anonymous_bare(s) == ~proxy[session[s].p].credentials
allows_anonymous(s) == proxy[session[s].p].anonymous /\ proxy[session[s].p].generation = 1

http_handshake(s) ==
    /\ session[s].pc = "handshake" /\ session[s].protocol = "http"
    /\ session' = [session EXCEPT ![s].pc = IF allows_anonymous(s) THEN "connecting" ELSE "verify"]
    /\ UNCHANGED <<events, sessionOnly>>

(* verify: the generation first, then the credentials under their lock. *)
verify(s) ==
    /\ \/ /\ session[s].pc = "verify"
          /\ proxy[session[s].p].generation = 1
          /\ session' = [session EXCEPT ![s].pc = "credentials"]
       \/ /\ session[s].pc = "credentials"
          /\ proxy[session[s].p].credentials
          /\ session' = [session EXCEPT ![s].pc =
                              IF session[s].protocol = "socks" THEN "request" ELSE "connecting"]
    /\ UNCHANGED <<events, sessionOnly>>

Greeting == {"handshake", "verify", "credentials", "request"}

(* A failed authentication is reported; a malformed request, a client that   *)
(* goes away and the handshake timeout are not.                              *)
end_handshake(s) ==
    /\ session[s].pc \in Greeting
    /\ session' = [session EXCEPT ![s] = Gone]
    /\ \/ UNCHANGED events
       \/ session[s].pc # "request" /\ events' = component_event(ProxyId)
    /\ UNCHANGED sessionOnly

(* The upstream answers, refuses or times out, a refusal being reported; the *)
(* reply is written or times out; then the relay runs until either side ends.*)
serve_session(s) ==
    /\ \/ /\ session[s].pc = "connecting"
          /\ \/ /\ session' = [session EXCEPT ![s].pc = "reply"]
                /\ UNCHANGED events
             \/ /\ session' = [session EXCEPT ![s].pc = "refused"]
                /\ events' = component_event(ProxyId)
       \/ /\ session[s].pc = "refused"
          /\ session' = [session EXCEPT ![s] = Gone]
          /\ UNCHANGED events
       \/ /\ session[s].pc = "reply"
          /\ \E written \in BOOLEAN :
                session' = [session EXCEPT ![s] = IF written THEN [@ EXCEPT !.pc = "relay"] ELSE Gone]
          /\ UNCHANGED events
    /\ UNCHANGED sessionOnly

end_relay(s) ==
    /\ session[s].pc = "relay"
    /\ session' = [session EXCEPT ![s] = Gone]
    /\ UNCHANGED <<events, sessionOnly>>

(* The session's own select: cancellation drops it wherever it is. *)
(* Mutant: only a session that is not yet relaying watches the token. *)
cancelled_session_handshake(s) ==
    /\ session[s].pc \notin {"none", "relay"} /\ proxy[session[s].p].cancelled
    /\ session' = [session EXCEPT ![s] = Gone]
    /\ UNCHANGED <<events, sessionOnly>>
cancelled_session(s) ==
    /\ session[s].pc # "none" /\ proxy[session[s].p].cancelled
    /\ session' = [session EXCEPT ![s] = Gone]
    /\ UNCHANGED <<events, sessionOnly>>

-----------------------------------------------------------------------------
ComponentsInit ==
    /\ web_apps = <<>> /\ file_shares = <<>> /\ leases = <<>>
    /\ next_lease = 1 /\ next_generation = 1 /\ checked = {} /\ events = <<>>
    /\ control = Unlocked /\ available = TRUE /\ tor_available \in BOOLEAN
    /\ proxy = [p \in Proxies |-> Down] /\ lan_proxies = FALSE /\ confirmed_networks = {}
    /\ session = [s \in Sessions |-> Gone] /\ torn = {}

-----------------------------------------------------------------------------
(* Every lease belongs to a component registered for its purpose, and holds  *)
(* the runtime that the component's current route needs: a decision that     *)
(* names a route is never given on the availability of another.  The one     *)
(* exception is a route change that met a lease dropped in between           *)
(* (set_web_app_route): it leaves the other leases on their old runtime.     *)
LeasesFollowRoute ==
    \A n \in DOMAIN leases :
        LET lease == leases[n]
            routes == resolve_component(lease.component, lease.purpose)
        IN  /\ routes # {}
            /\ lease.component \notin torn =>
                   \A route \in routes : lease.runtime = NeededBy(route)

(* "The manager acquires every new lease before publishing the new policy,   *)
(* so a failure leaves the old route active" (nativeSetWebAppRoute): a       *)
(* set_web_app_route that ends without its RouteChanged event leaves the     *)
(* routes as they were.                                                      *)
FailedChangeKeepsRoute ==
    [][control.op = "route" /\ control'.op = "idle" /\ events' = events => web_apps' = web_apps]_componentVars

(* The registration of the proxy identity stands exactly while one handle is *)
(* up, so that a second listener is never started beside it and a stopped    *)
(* one never blocks the next (start_with_binding, LanProxyHandle::stop and   *)
(* the second stop that Drop makes).                                         *)
OneRegistration ==
    LET up == {p \in Proxies : proxy[p].state \in {"ready", "lost"}}
    IN  /\ lan_proxies <=> up # {}
        /\ Cardinality(up) <= 1

(* "A plan without credentials is a loopback plan or it is nothing", and "a  *)
(* network the user has not confirmed is not bound at all": a listener, and  *)
(* any session it still serves, that asks for no credentials is on loopback, *)
(* and nothing ever listens on a network that cannot be recognised again     *)
(* (start_with_binding).                                                     *)
AnonymousOnLoopback ==
    \A p \in Proxies :
        proxy[p].state # "none" /\ proxy[p].binding # "loopback" =>
            fingerprint(proxy[p].binding) # {} /\ BindingValidate(proxy[p].binding) /\ ~proxy[p].anonymous

(* "A session that is mid-authentication when the network changes fails":    *)
(* once network_changed or stop has moved the proxy's state, no session      *)
(* passes its authentication, and a listener that lost its credentials does  *)
(* not become one that asks for none (AuthState, http_handshake).            *)
NoLateAuthentication ==
    \A s \in Sessions :
        /\ session[s].pc \in Greeting \ {"request"}
        /\ session'[s].pc \in {"request", "connecting"}
        => proxy[session[s].p].state = "ready"

(* A session ends once its proxy is cancelled, whatever it is doing, and a   *)
(* session that has not begun to relay ends or begins: the handshake, the    *)
(* upstream and the reply all have their timeouts (accept_loop, serve).      *)
SessionsEnd ==
    \A s \in Sessions :
        /\ session[s].pc # "none" /\ proxy[session[s].p].cancelled ~> session[s].pc = "none"
        /\ session[s].pc \notin {"none", "relay"} ~> session[s].pc \in {"none", "relay"}
=============================================================================
