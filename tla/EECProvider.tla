------------------------------ MODULE EECProvider ------------------------------
(***************************************************************************)
(* The EEC configuration provider of the collector                         *)
(* (src/internal/confmap/provider/eecprovider): a host asks it for the     *)
(* configuration behind a URL with Retrieve, and every Retrieve starts a   *)
(* watcher goroutine that polls the URL and calls the host back when the   *)
(* configuration has changed.                                              *)
(*                                                                         *)
(* Three kinds of process interleave: the host (one thread, which runs the *)
(* body of Retrieve and Shutdown), the watchers, and the EEC servers that  *)
(* publish new configurations.  The host and the servers are outside the   *)
(* repository; they are modelled from how the provider, its tests and its  *)
(* comments use them.                                                      *)
(*                                                                         *)
(* A configuration body is its version, the position of the body in the    *)
(* sequence of bodies the server publishes.  Two versions may have the     *)
(* same bytes (a change that was reverted): Sha256 gives the digest.       *)
(***************************************************************************)
EXTENDS Naturals

CONSTANTS
    Urls,        \* the URLs, fragments removed: the keys of both maps
    Polled,      \* the URLs with a non-zero refresh-interval and a watcherFunc
    Watchers,    \* identities of watcher goroutines, reused once finished
    MaxVersion,  \* bound: how many configurations a server publishes
    Sha256,      \* Sha256[v] is the digest of version v
    Malformed,   \* the versions that are not valid YAML
    MailboxCap,  \* how many change events the host buffers
    ReResolves,  \* TRUE if the host also resolves when no event has arrived
    None         \* no configuration, no watcher, no URL

Versions == 1 .. MaxVersion

Digests == {Sha256[v] : v \in Versions}

ASSUME UrlsAssumption == Urls # {} /\ Polled \subseteq Urls
ASSUME VersionsAssumption ==
    /\ MaxVersion \in Nat \ {0}
    /\ Sha256 \in [Versions -> Digests]
    /\ Malformed \subseteq Versions
    /\ \A v, w \in Versions :
         Sha256[v] = Sha256[w] => (v \in Malformed <=> w \in Malformed)
ASSUME MailboxAssumption == MailboxCap \in Nat \ {0}
ASSUME HostAssumption == ReResolves \in BOOLEAN
ASSUME NoneAssumption ==
    None \notin Versions \cup Watchers \cup Urls \cup Digests

VARIABLES
    served,            \* served[u]: the version the server of u answers with
    newConfig,         \* provider.newConfig: bodies found by watchers
    watcherCancelMap,  \* provider.watcherCancelMap: whom the cancel func stops
    shutdown,          \* TRUE once provider.shutdown is closed
    watcher,           \* the watcher goroutines
    hpc,               \* where the host's thread is
    todo,              \* the URLs left to Retrieve in this resolution
    retrieving,        \* the URL of the Retrieve in progress
    body,              \* the local variable body of that Retrieve
    running,           \* running[u]: the version of u the host runs with
    mailbox,           \* change events the host has not yet taken
    reloaded,          \* TRUE once the host has reloaded on a change event
    ctxDone            \* TRUE once the context given to Retrieve is cancelled

maps     == <<newConfig, watcherCancelMap>>
signals  == <<shutdown, ctxDone>>
call     == <<retrieving, body>>
progress == <<todo, running, reloaded>>

vars == <<served, newConfig, watcherCancelMap, shutdown, watcher, hpc, todo,
          retrieving, body, running, mailbox, reloaded, ctxDone>>

HostPc == {"resolving", "lookup", "request", "start",
           "serving", "failed", "stopped", "crashed"}

WatcherPc == {"finished", "select", "request", "store", "notify"}

(* The fields of a watcher: pc is where watchForChanges is, configHash its *)
(* field, body its local variable, configChanged the header value its next *)
(* request carries, cancelled whether its own context has been cancelled.  *)
WatcherState ==
    [pc : WatcherPc, url : Urls \cup {None}, configHash : Digests \cup {None},
     body : Versions \cup {None}, configChanged : BOOLEAN, cancelled : BOOLEAN]

Finished == [pc |-> "finished", url |-> None, configHash |-> None,
             body |-> None, configChanged |-> FALSE, cancelled |-> FALSE]

Init ==
    /\ served = [u \in Urls |-> 1]
    /\ newConfig = [u \in Urls |-> None]
    /\ watcherCancelMap = [u \in Urls |-> None]
    /\ shutdown = FALSE
    /\ watcher = [w \in Watchers |-> Finished]
    /\ hpc = "resolving"
    /\ todo = Urls
    /\ retrieving = None
    /\ body = None
    /\ running = [u \in Urls |-> None]
    /\ mailbox = 0
    /\ reloaded = FALSE
    /\ ctxDone = FALSE

--------------------------------------------------------------------------------
(* The process is up.  A fatal error of the Go runtime ends every thread.  *)
Alive == hpc # "crashed"

(* The context of w: its own cancel func, or the host's parent context.    *)
Cancelled(w) == watcher[w].cancelled \/ ctxDone

(* Fault: watchForChanges does not listen to the shutdown channel.         *)
MutDeafToShutdown(w) == Cancelled(w)

(* The select of w has the shutdown or the ctx.Done case ready.            *)
StopReady(w) == shutdown \/ Cancelled(w)

(* An identity for the next watcher of u: no goroutine has it, and no      *)
(* cancel func that stays in the map refers to it.                         *)
Unused(u, w) ==
    /\ watcher[w].pc = "finished"
    /\ \A v \in Urls \ {u} : watcherCancelMap[v] # w

--------------------------------------------------------------------------------
(* The EEC server of u starts to serve another configuration.              *)
Publish(u) ==
    /\ served[u] < MaxVersion
    /\ served' = [served EXCEPT ![u] = @ + 1]
    /\ UNCHANGED <<watcher, hpc, mailbox, maps, signals, call, progress>>

--------------------------------------------------------------------------------
(* Retrieve, run by the host's thread.                                     *)

(* Retrieve(u) returns before it looks at any state: unsupported scheme,   *)
(* unparsable URL or option, unreadable token or certificate.              *)
RetrieveReject(u) ==
    /\ hpc = "resolving"
    /\ u \in todo
    /\ hpc' = "failed"
    /\ UNCHANGED <<served, watcher, mailbox, maps, signals, call, progress>>

(* Retrieve(u) has its options and is about to look u up in newConfig.     *)
RetrieveBegin(u) ==
    /\ hpc = "resolving"
    /\ u \in todo
    /\ hpc' = "lookup"
    /\ retrieving' = u
    /\ UNCHANGED <<served, watcher, body, mailbox, maps, signals, progress>>

(* Fault: the cached body is used and not deleted.                         *)
MutKeepCached ==
    /\ hpc = "lookup"
    /\ newConfig[retrieving] # None
    /\ body' = newConfig[retrieving]
    /\ hpc' = "start"
    /\ UNCHANGED <<served, watcher, retrieving, mailbox, maps, signals, progress>>

(* A watcher has left a body for this URL: take it out of the cache.       *)
RetrieveCached ==
    /\ hpc = "lookup"
    /\ newConfig[retrieving] # None
    /\ body' = newConfig[retrieving]
    /\ newConfig' = [newConfig EXCEPT ![retrieving] = None]
    /\ hpc' = "start"
    /\ UNCHANGED <<served, watcherCancelMap, watcher, retrieving, mailbox,
                   signals, progress>>

(* Nothing cached: send the request, with X-Otelcol-First-Request "true".  *)
RetrieveRequest ==
    /\ hpc = "lookup"
    /\ newConfig[retrieving] = None
    /\ hpc' = "request"
    /\ UNCHANGED <<served, watcher, mailbox, maps, signals, call, progress>>

RetrieveAnswer ==
    /\ hpc = "request"
    /\ ~ctxDone
    /\ body' = served[retrieving]
    /\ hpc' = "start"
    /\ UNCHANGED <<served, watcher, retrieving, mailbox, maps, signals, progress>>

(* No connection, a status other than 200, a broken body, the three-second *)
(* timeout or a cancelled context: Retrieve returns the error.             *)
RetrieveError ==
    /\ hpc = "request"
    /\ hpc' = "failed"
    /\ retrieving' = None
    /\ UNCHANGED <<served, watcher, body, mailbox, maps, signals, progress>>

(* Fault: the previous watcher of the URL is not cancelled.                *)
MutKeepPrevious(u, w) ==
    /\ Unused(u, w)
    /\ watcherCancelMap' = [watcherCancelMap EXCEPT ![u] = w]
    /\ watcher' = [watcher EXCEPT ![w] =
         [pc |-> "select", url |-> u, configHash |-> Sha256[body],
          body |-> None, configChanged |-> TRUE, cancelled |-> FALSE]]

(* Fault: the digest is not that of the body Retrieve returns.             *)
MutOtherDigest(u, w) ==
    /\ Unused(u, w)
    /\ watcherCancelMap' = [watcherCancelMap EXCEPT ![u] = w]
    /\ watcher' = [v \in Watchers |->
         IF v = w
         THEN [pc |-> "select", url |-> u, configHash |-> Sha256[served[u]],
               body |-> None, configChanged |-> TRUE, cancelled |-> FALSE]
         ELSE IF v = watcherCancelMap[u] /\ watcher[v].pc # "finished"
         THEN [watcher[v] EXCEPT !.cancelled = TRUE]
         ELSE watcher[v]]

(* Fault: a URL that has been watched before gets no new watcher.          *)
MutWatchOnce(u, w) ==
    IF watcherCancelMap[u] = None
    THEN MutKeepPrevious(u, w)
    ELSE UNCHANGED <<watcherCancelMap, watcher>>

(* The critical section of watcherMapMux and the go statement: cancel the  *)
(* watcher registered for u, register w in its place and start it.         *)
StartWatcher(u, w) ==
    /\ Unused(u, w)
    /\ watcherCancelMap' = [watcherCancelMap EXCEPT ![u] = w]
    /\ watcher' = [v \in Watchers |->
         IF v = w
         THEN [pc |-> "select", url |-> u, configHash |-> Sha256[body],
               body |-> None, configChanged |-> TRUE, cancelled |-> FALSE]
         ELSE IF v = watcherCancelMap[u] /\ watcher[v].pc # "finished"
         THEN [watcher[v] EXCEPT !.cancelled = TRUE]
         ELSE watcher[v]]

WatchUrl(u) ==
    IF u \in Polled
    THEN \E w \in Watchers : StartWatcher(u, w)
    ELSE UNCHANGED <<watcherCancelMap, watcher>>

(* Parse the body and hand it to the host, which goes on to the next URL,  *)
(* or to serving once every URL of the resolution is there.                *)
RetrieveReturn ==
    /\ hpc = "start"
    /\ body \notin Malformed
    /\ WatchUrl(retrieving)
    /\ running' = [running EXCEPT ![retrieving] = body]
    /\ todo' = todo \ {retrieving}
    /\ hpc' = IF todo' = {} THEN "serving" ELSE "resolving"
    /\ retrieving' = None
    /\ body' = None
    /\ UNCHANGED <<served, newConfig, mailbox, reloaded, signals>>

(* The body is not YAML: Retrieve fails, but its watcher is running.       *)
RetrieveMalformed ==
    /\ hpc = "start"
    /\ body \in Malformed
    /\ WatchUrl(retrieving)
    /\ hpc' = "failed"
    /\ retrieving' = None
    /\ body' = None
    /\ UNCHANGED <<served, newConfig, mailbox, signals, progress>>

--------------------------------------------------------------------------------
(* The host: the collector's configuration resolver.                       *)

(* Take a change event and resolve every URL again.                        *)
HostReload ==
    /\ hpc = "serving"
    /\ mailbox > 0
    /\ mailbox' = mailbox - 1
    /\ hpc' = "resolving"
    /\ todo' = Urls
    /\ reloaded' = TRUE
    /\ UNCHANGED <<served, watcher, running, maps, signals, call>>

(* Resolve again for a reason of its own: the second resolution of the     *)
(* start-up, another configuration source, a retry after a failure.        *)
HostResolveAgain ==
    /\ ReResolves
    /\ hpc \in {"serving", "failed"}
    /\ hpc' = "resolving"
    /\ todo' = Urls
    /\ UNCHANGED <<served, watcher, running, mailbox, reloaded, maps, signals, call>>

(* Cancel the context that was passed to Retrieve.                         *)
HostCancel ==
    /\ Alive
    /\ ~ctxDone
    /\ ctxDone' = TRUE
    /\ UNCHANGED <<served, shutdown, watcher, hpc, mailbox, maps, call, progress>>

(* Provider.Shutdown, called once and never during a Retrieve.             *)
Shutdown ==
    /\ hpc \in {"serving", "failed"}
    /\ hpc' = "stopped"
    /\ shutdown' = TRUE
    /\ UNCHANGED <<served, watcher, mailbox, ctxDone, maps, call, progress>>

--------------------------------------------------------------------------------
(* watchForChanges and the two closures Retrieve gives it.                 *)

(* The ticker fires and select takes its case, which it may do even when   *)
(* the shutdown or the ctx.Done case is ready too.  The request carries    *)
(* configChanged, and later requests of this watcher carry "false".        *)
WatcherPoll(w) ==
    /\ Alive
    /\ watcher[w].pc = "select"
    /\ watcher' = [watcher EXCEPT ![w].pc = "request", ![w].configChanged = FALSE]
    /\ UNCHANGED <<served, hpc, mailbox, maps, signals, call, progress>>

(* The answer has the known digest: keep polling.                          *)
WatcherUnchanged(w) ==
    /\ Alive
    /\ watcher[w].pc = "request"
    /\ ~Cancelled(w)
    /\ Sha256[served[watcher[w].url]] = watcher[w].configHash
    /\ watcher' = [watcher EXCEPT ![w].pc = "select"]
    /\ UNCHANGED <<served, hpc, mailbox, maps, signals, call, progress>>

(* Fault: the digests are not compared.                                    *)
MutNoCompare(w) ==
    /\ Alive
    /\ watcher[w].pc = "request"
    /\ ~Cancelled(w)
    /\ watcher' = [watcher EXCEPT ![w].pc = "store",
                                  ![w].body = served[watcher[w].url]]
    /\ UNCHANGED <<served, hpc, mailbox, maps, signals, call, progress>>

(* The answer has another digest: call watcherFunc with it.                *)
WatcherChanged(w) ==
    /\ Alive
    /\ watcher[w].pc = "request"
    /\ ~Cancelled(w)
    /\ Sha256[served[watcher[w].url]] # watcher[w].configHash
    /\ watcher' = [watcher EXCEPT ![w].pc = "store",
                                  ![w].body = served[watcher[w].url]]
    /\ UNCHANGED <<served, hpc, mailbox, maps, signals, call, progress>>

(* Fault: a failed poll leaves the loop, not only the select.              *)
MutErrorEnds(w) ==
    /\ Alive
    /\ watcher[w].pc = "request"
    /\ watcher' = [watcher EXCEPT ![w] = Finished]
    /\ UNCHANGED <<served, hpc, mailbox, maps, signals, call, progress>>

(* The request failed or timed out: log it and wait for the next tick.     *)
WatcherError(w) ==
    /\ Alive
    /\ watcher[w].pc = "request"
    /\ watcher' = [watcher EXCEPT ![w].pc = "select"]
    /\ UNCHANGED <<served, hpc, mailbox, maps, signals, call, progress>>

(* Fault: the body is dropped and the host only notified.                  *)
MutNoStore(w) ==
    /\ Alive
    /\ watcher[w].pc = "store"
    /\ watcher' = [watcher EXCEPT ![w].pc = "notify"]
    /\ UNCHANGED <<served, hpc, mailbox, maps, signals, call, progress>>

(* Fault: the closure stores under the URL of a Retrieve in progress.      *)
MutStoreElsewhere(w) ==
    /\ Alive
    /\ watcher[w].pc = "store"
    /\ newConfig' = [newConfig EXCEPT
         ![IF retrieving = None THEN watcher[w].url ELSE retrieving] = watcher[w].body]
    /\ watcher' = [watcher EXCEPT ![w].pc = "notify"]
    /\ UNCHANGED <<served, watcherCancelMap, hpc, mailbox, signals, call, progress>>

(* watcherFunc, first half: leave the body where Retrieve looks for it.    *)
WatcherStore(w) ==
    /\ Alive
    /\ watcher[w].pc = "store"
    /\ newConfig' = [newConfig EXCEPT ![watcher[w].url] = watcher[w].body]
    /\ watcher' = [watcher EXCEPT ![w].pc = "notify"]
    /\ UNCHANGED <<served, watcherCancelMap, hpc, mailbox, signals, call, progress>>

(* Fault: an event is sent to a full mailbox.                              *)
MutNoBlock(w) ==
    /\ Alive
    /\ watcher[w].pc = "notify"
    /\ mailbox' = mailbox + 1
    /\ watcher' = [watcher EXCEPT ![w] = Finished]
    /\ UNCHANGED <<served, hpc, maps, signals, call, progress>>

(* watcherFunc, second half: the host's callback sends a change event and  *)
(* blocks while the mailbox is full; then the goroutine returns.           *)
WatcherNotify(w) ==
    /\ Alive
    /\ watcher[w].pc = "notify"
    /\ mailbox < MailboxCap
    /\ mailbox' = mailbox + 1
    /\ watcher' = [watcher EXCEPT ![w] = Finished]
    /\ UNCHANGED <<served, hpc, maps, signals, call, progress>>

(* select takes the shutdown or the ctx.Done case and the goroutine ends.  *)
WatcherStop(w) ==
    /\ Alive
    /\ watcher[w].pc = "select"
    /\ StopReady(w)
    /\ watcher' = [watcher EXCEPT ![w] = Finished]
    /\ UNCHANGED <<served, hpc, mailbox, maps, signals, call, progress>>

--------------------------------------------------------------------------------
(* newConfig is a plain Go map that no lock protects.  Two threads are at  *)
(* it at the same time when Retrieve is at its lookup (a read, and a       *)
(* delete on a hit) while a watcher stores, or when two watchers store.    *)
ConcurrentMapAccess ==
    \E w \in Watchers :
        /\ watcher[w].pc = "store"
        /\ \/ hpc = "lookup"
           \/ \E v \in Watchers \ {w} : watcher[v].pc = "store"

(* Of such an access the runtime may make a fatal error, which no recover  *)
(* can stop.  If it does not, both accesses take effect, in either order.  *)
MapFault ==
    /\ Alive
    /\ ConcurrentMapAccess
    /\ hpc' = "crashed"
    /\ UNCHANGED <<served, watcher, mailbox, maps, signals, call, progress>>

--------------------------------------------------------------------------------
Retrieve ==
    \/ \E u \in Urls : RetrieveReject(u) \/ RetrieveBegin(u)
    \/ RetrieveCached \/ RetrieveRequest \/ RetrieveAnswer \/ RetrieveError
    \/ RetrieveReturn \/ RetrieveMalformed

Host == HostReload \/ HostResolveAgain \/ HostCancel \/ Shutdown

Watch(w) ==
    \/ WatcherPoll(w) \/ WatcherUnchanged(w) \/ WatcherChanged(w)
    \/ WatcherError(w) \/ WatcherStore(w) \/ WatcherNotify(w) \/ WatcherStop(w)

Next ==
    \/ \E u \in Urls : Publish(u)
    \/ Retrieve
    \/ Host
    \/ \E w \in Watchers : Watch(w)
    \/ MapFault

Spec == Init /\ [][Next]_vars

(* Fairness.  The host's thread keeps running.  A ticker fires, a request  *)
(* ends and a runnable goroutine runs.  Strong fairness where the code or  *)
(* its environment gives it: senders on a Go channel are served in turn,   *)
(* select chooses at random among its ready cases, so that it takes the    *)
(* stop case in the end if that is ready at every turn, and an EEC that is *)
(* asked again and again about a change answers in the end.                *)
Fairness ==
    /\ WF_vars(Retrieve)
    /\ WF_vars(HostReload)
    /\ \A w \in Watchers :
         /\ WF_vars(Watch(w))
         /\ SF_vars(WatcherChanged(w))
         /\ SF_vars(WatcherNotify(w))
         /\ SF_vars(WatcherStop(w))

FairSpec == Spec /\ Fairness

--------------------------------------------------------------------------------
(* Properties.                                                             *)

(* Every variable has its type; the mailbox never overflows.               *)
TypeOK ==
    /\ served \in [Urls -> Versions]
    /\ newConfig \in [Urls -> Versions \cup {None}]
    /\ watcherCancelMap \in [Urls -> Watchers \cup {None}]
    /\ shutdown \in BOOLEAN
    /\ watcher \in [Watchers -> WatcherState]
    /\ hpc \in HostPc
    /\ todo \subseteq Urls
    /\ retrieving \in Urls \cup {None}
    /\ body \in Versions \cup {None}
    /\ running \in [Urls -> Versions \cup {None}]
    /\ mailbox \in 0 .. MailboxCap
    /\ reloaded \in BOOLEAN
    /\ ctxDone \in BOOLEAN

(* A body in the cache, in the hands of a watcher or of Retrieve, or in    *)
(* use by the host is one that its own URL has served by now: bodies of    *)
(* different URLs are never mixed up, whichever watchers store when.       *)
OnlyServedBodies ==
    /\ \A u \in Urls :
         /\ newConfig[u] # None => newConfig[u] <= served[u]
         /\ running[u] # None => running[u] <= served[u]
    /\ \A w \in Watchers : watcher[w].pc = "store" =>
         watcher[w].body <= served[watcher[w].url]
    /\ hpc = "start" => body <= served[retrieving]

Live(w) == watcher[w].pc # "finished" /\ ~watcher[w].cancelled

(* Of all the watchers started for a URL, however often and whenever the   *)
(* host retrieves it, only the last one is not cancelled, and it is the    *)
(* one the next Retrieve will cancel.                                      *)
OneLiveWatcher ==
    \A w \in Watchers : Live(w) => watcherCancelMap[watcher[w].url] = w

(* A watcher polls against the configuration the host runs: had it the     *)
(* digest of another body, it would miss a change or report one that the   *)
(* host already has.                                                       *)
WatcherTracksRunning ==
    \A w \in Watchers :
        Live(w) /\ watcher[w].url \notin todo =>
            watcher[w].configHash = Sha256[running[watcher[w].url]]

(* While the collector serves, every polled URL is being watched, unless a *)
(* change event is on its way (a watcher ends with its event) or the host  *)
(* cancelled its context.  Failed polls never end the watching.            *)
NeverUnwatched ==
    hpc = "serving" /\ ~ctxDone =>
        \/ mailbox > 0
        \/ \A u \in Polled : \E w \in Watchers : Live(w) /\ watcher[w].url = u

(* A body a watcher left in newConfig is picked up: the host still has to  *)
(* Retrieve that URL, or an event that will make it do so is on its way.   *)
NoForgottenConfig ==
    \A u \in Urls : newConfig[u] # None =>
        \/ u \in todo
        \/ mailbox > 0
        \/ \E w \in Watchers : watcher[w].pc = "notify" /\ watcher[w].url = u

(* A host that only resolves on change events reloads for a change: some   *)
(* cached body differs from the one it runs (TestNoReloadIfConfigIsSame).  *)
NoSpuriousReload ==
    hpc = "serving" /\ mailbox > 0 =>
        \E u \in Urls : /\ newConfig[u] # None
                        /\ Sha256[newConfig[u]] # Sha256[running[u]]

(* The same host's reload takes the body the watcher of a polled URL left  *)
(* and asks its server nothing (TestCachesConfigOnReload).                 *)
ReloadsUseCache ==
    [][reloaded /\ retrieving \in Polled => hpc' # "request"]_vars

(* After Shutdown every watcher ends, except one that is blocked in the    *)
(* callback of a host that takes no more events.                           *)
ShutdownStopsWatchers ==
    \A w \in Watchers :
        hpc = "stopped" ~> \/ watcher[w].pc = "finished"
                           \/ watcher[w].pc = "notify" /\ mailbox = MailboxCap
                           \/ hpc = "crashed"

(* The host is owed nothing more: it failed, was shut down or crashed, or  *)
(* cancelled the context of its watchers.                                  *)
HostHalted == hpc \in {"failed", "stopped", "crashed"} \/ ctxDone

(* The provider implements the feed: Feed for every host; OrderedFeed for  *)
(* a host that polls one URL and resolves on change events only, which     *)
(* never goes back to an older body.                                       *)
Ordered   == INSTANCE ConfigFeed WITH halted <- HostHalted, InOrder <- TRUE
Unordered == INSTANCE ConfigFeed WITH halted <- HostHalted, InOrder <- FALSE

OrderedFeed == Ordered!FeedSpec
Feed == Unordered!FeedSpec

--------------------------------------------------------------------------------
(* Claims of the comments, the tests and the README that do not hold.      *)

(* A reload goes on to "the new config obtained by the watcher"            *)
(* (provider.go:166), never back to a body older than the one the host     *)
(* runs: "existing runs" of a URL are cancelled "if the same URL is        *)
(* requested again" (provider.go:55).                                      *)
ReloadsGoForward ==
    [][reloaded => \A u \in Urls : running[u] # None => running'[u] >= running[u]]_vars

(* The provider's maps are never used by two threads at the same time.     *)
MapsNotShared == ~ConcurrentMapAccess
================================================================================
