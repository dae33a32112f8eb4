--------------------------- MODULE EECProvider_proofs ---------------------------
(***************************************************************************)
(* Proofs about EECProvider, for every set of URLs and of watchers, every  *)
(* number of published configurations and every host: cooperative or not.  *)
(***************************************************************************)
EXTENDS EECProvider, TLAPS

(* What the threads hold while they are inside Retrieve or watchForChanges *)
Shape ==
    /\ hpc \in {"lookup", "request", "start"} => retrieving \in todo
    /\ hpc = "start" => body \in Versions
    /\ \A w \in Watchers : watcher[w].pc # "finished" =>
         watcher[w].url \in Urls \cap Polled /\ watcher[w].configHash \in Digests
    /\ \A w \in Watchers : watcher[w].pc \in {"store", "notify"} =>
         watcher[w].body \in Versions

LEMMA ShaInDigests == \A v \in Versions : Sha256[v] \in Digests
  BY DEF Digests

LEMMA TypeInit == Init => TypeOK /\ Shape
<1> SUFFICES ASSUME Init PROVE TypeOK /\ Shape
    OBVIOUS
<1>1. Finished \in WatcherState /\ Finished.pc = "finished"
    BY DEF Finished, WatcherState, WatcherPc
<1>2. watcher \in [Watchers -> WatcherState] /\ Shape
    BY <1>1 DEF Init, Shape
<1>3. served \in [Urls -> Versions]
    BY VersionsAssumption DEF Init, Versions
<1>4. /\ newConfig \in [Urls -> Versions \cup {None}]
      /\ watcherCancelMap \in [Urls -> Watchers \cup {None}]
      /\ running \in [Urls -> Versions \cup {None}]
    BY DEF Init
<1>5. mailbox \in 0 .. MailboxCap
    BY MailboxAssumption DEF Init
<1>6. QED
    BY <1>2, <1>3, <1>4, <1>5 DEF Init, TypeOK, HostPc

(* Starting a watcher keeps the types, and gives it a URL and a digest.    *)
LEMMA StartWatcherType ==
    ASSUME TypeOK, Shape, NEW u \in Urls, body \in Versions, WatchUrl(u)
    PROVE  /\ watcherCancelMap' \in [Urls -> Watchers \cup {None}]
           /\ watcher' \in [Watchers -> WatcherState]
           /\ \A w \in Watchers : watcher'[w].pc # "finished" =>
                watcher'[w].url \in Urls \cap Polled /\ watcher'[w].configHash \in Digests
           /\ \A w \in Watchers : watcher'[w].pc \in {"store", "notify"} =>
                watcher'[w].body \in Versions
<1>1. CASE u \notin Polled
    BY <1>1 DEF WatchUrl, TypeOK, Shape
<1>2. CASE u \in Polled
    <2>1. PICK w \in Watchers : StartWatcher(u, w)
        BY <1>2 DEF WatchUrl
    <2> DEFINE New == [pc |-> "select", url |-> u, configHash |-> Sha256[body],
                       body |-> None, configChanged |-> TRUE, cancelled |-> FALSE]
    <2>2. New \in WatcherState
        BY ShaInDigests DEF WatcherState, WatcherPc
    <2>3. \A v \in Watchers : [watcher[v] EXCEPT !.cancelled = TRUE] \in WatcherState
        BY DEF TypeOK, WatcherState
    <2>4. \A v \in Watchers : watcher'[v] \in {New, watcher[v],
                                [watcher[v] EXCEPT !.cancelled = TRUE]}
        BY <2>1 DEF StartWatcher
    <2>5. watcher' \in [Watchers -> WatcherState]
        BY <2>1, <2>2, <2>3 DEF StartWatcher, TypeOK
    <2>6. \A v \in Watchers :
            /\ watcher'[v].pc # "finished" =>
                 watcher'[v].url \in Urls \cap Polled /\ watcher'[v].configHash \in Digests
            /\ watcher'[v].pc \in {"store", "notify"} => watcher'[v].body \in Versions
      <3> TAKE v \in Watchers
      <3>1. CASE watcher'[v] = New
        BY <1>2, <3>1, ShaInDigests
      <3>2. CASE watcher'[v] = watcher[v]
        BY <3>2 DEF Shape
      <3>3. CASE watcher'[v] = [watcher[v] EXCEPT !.cancelled = TRUE]
        <4>1. watcher[v] \in WatcherState
            BY DEF TypeOK
        <4>2. /\ watcher'[v].pc = watcher[v].pc
              /\ watcher'[v].url = watcher[v].url
              /\ watcher'[v].configHash = watcher[v].configHash
              /\ watcher'[v].body = watcher[v].body
            BY <3>3, <4>1 DEF WatcherState
        <4>3. QED
            BY <4>2 DEF Shape
      <3>4. QED
        BY <2>4, <3>1, <3>2, <3>3
    <2>7. QED
        BY <2>1, <2>5, <2>6 DEF StartWatcher, TypeOK
<1>3. QED
    BY <1>1, <1>2

LEMMA TypeStep == TypeOK /\ Shape /\ [Next]_vars => TypeOK' /\ Shape'
<1> SUFFICES ASSUME TypeOK, Shape, [Next]_vars PROVE TypeOK' /\ Shape'
    OBVIOUS
<1> USE DEF maps, signals, call, progress
<1>1. ASSUME NEW u \in Urls, Publish(u) PROVE TypeOK' /\ Shape'
    <2>1. served[u] + 1 \in Versions
        BY <1>1, VersionsAssumption DEF Publish, TypeOK, Versions
    <2>2. QED
        BY <1>1, <2>1 DEF Publish, TypeOK, Shape
<1>2. ASSUME NEW u \in Urls, RetrieveReject(u) PROVE TypeOK' /\ Shape'
    BY <1>2 DEF RetrieveReject, TypeOK, Shape, HostPc
<1>3. ASSUME NEW u \in Urls, RetrieveBegin(u) PROVE TypeOK' /\ Shape'
    BY <1>3 DEF RetrieveBegin, TypeOK, Shape, HostPc
<1>4. CASE RetrieveCached
    BY <1>4 DEF RetrieveCached, TypeOK, Shape, HostPc
<1>5. CASE RetrieveRequest
    BY <1>5 DEF RetrieveRequest, TypeOK, Shape, HostPc
<1>6. CASE RetrieveAnswer
    BY <1>6 DEF RetrieveAnswer, TypeOK, Shape, HostPc
<1>7. CASE RetrieveError
    BY <1>7 DEF RetrieveError, TypeOK, Shape, HostPc
<1>8. CASE RetrieveReturn
    <2>1. retrieving \in Urls /\ body \in Versions /\ WatchUrl(retrieving)
        BY <1>8 DEF RetrieveReturn, TypeOK, Shape
    <2>2. running' \in [Urls -> Versions \cup {None}]
        BY <1>8, <2>1 DEF RetrieveReturn, TypeOK
    <2>3. QED
        BY <1>8, <2>1, <2>2, StartWatcherType
        DEF RetrieveReturn, TypeOK, Shape, HostPc
<1>9. CASE RetrieveMalformed
    <2>1. retrieving \in Urls /\ body \in Versions /\ WatchUrl(retrieving)
        BY <1>9 DEF RetrieveMalformed, TypeOK, Shape
    <2>2. QED
        BY <1>9, <2>1, StartWatcherType
        DEF RetrieveMalformed, TypeOK, Shape, HostPc
<1>10. CASE HostReload
    BY <1>10, MailboxAssumption DEF HostReload, TypeOK, Shape, HostPc
<1>11. CASE HostResolveAgain
    BY <1>11 DEF HostResolveAgain, TypeOK, Shape, HostPc
<1>12. CASE HostCancel
    BY <1>12 DEF HostCancel, TypeOK, Shape
<1>13. CASE Shutdown
    BY <1>13 DEF Shutdown, TypeOK, Shape, HostPc
<1>14. ASSUME NEW w \in Watchers, Watch(w) PROVE TypeOK' /\ Shape'
    <2>0. Finished \in WatcherState /\ Finished.pc = "finished"
        BY DEF Finished, WatcherState, WatcherPc
    <2>1. CASE WatcherPoll(w)
        BY ZenonT(60), <2>1 DEF WatcherPoll, TypeOK, Shape, WatcherState, WatcherPc
    <2>2. CASE WatcherUnchanged(w)
        BY <2>2 DEF WatcherUnchanged, TypeOK, Shape, WatcherState, WatcherPc
    <2>3. CASE WatcherChanged(w)
        BY ZenonT(60), <2>3 DEF WatcherChanged, TypeOK, Shape, WatcherState, WatcherPc
    <2>4. CASE WatcherError(w)
        BY <2>4 DEF WatcherError, TypeOK, Shape, WatcherState, WatcherPc
    <2>5. CASE WatcherStore(w)
        BY <2>5 DEF WatcherStore, TypeOK, Shape, WatcherState, WatcherPc
    <2>6. CASE WatcherNotify(w)
        BY <2>0, <2>6, MailboxAssumption DEF WatcherNotify, TypeOK, Shape
    <2>7. CASE WatcherStop(w)
        BY <2>0, <2>7 DEF WatcherStop, TypeOK, Shape
    <2>8. QED
        BY <1>14, <2>1, <2>2, <2>3, <2>4, <2>5, <2>6, <2>7 DEF Watch
<1>15. CASE MapFault
    BY <1>15 DEF MapFault, TypeOK, Shape, HostPc
<1>16. CASE UNCHANGED vars
    BY <1>16 DEF vars, TypeOK, Shape
<1>17. QED
    BY <1>1, <1>2, <1>3, <1>4, <1>5, <1>6, <1>7, <1>8, <1>9, <1>10, <1>11,
       <1>12, <1>13, <1>14, <1>15, <1>16 DEF Next, Retrieve, Host

(* Every reachable state has the declared types.                           *)
THEOREM TypeCorrect == Spec => []TypeOK
<1>1. Spec => [](TypeOK /\ Shape)
    BY TypeInit, TypeStep, PTL DEF Spec
<1>2. QED
    BY <1>1, PTL

--------------------------------------------------------------------------------
(* How steps change the watchers.                                          *)

(* A step of w changes no other watcher, no field of the host's thread and *)
(* no registration; w keeps its URL, digest and cancellation or finishes.  *)
LEMMA WatchStep ==
    ASSUME TypeOK, NEW w \in Watchers, Watch(w)
    PROVE  /\ \A v \in Watchers \ {w} : watcher'[v] = watcher[v]
           /\ watcher[w].pc # "finished"
           /\ watcher'[w].pc # "finished" =>
                /\ watcher'[w].url = watcher[w].url
                /\ watcher'[w].configHash = watcher[w].configHash
                /\ watcher'[w].cancelled = watcher[w].cancelled
           /\ UNCHANGED <<served, watcherCancelMap, shutdown, ctxDone, hpc, todo,
                          retrieving, body, running>>
<1> USE DEF maps, signals, call, progress, TypeOK, WatcherState
<1>1. CASE WatcherPoll(w)
    BY <1>1 DEF WatcherPoll
<1>2. CASE WatcherUnchanged(w)
    BY <1>2 DEF WatcherUnchanged
<1>3. CASE WatcherChanged(w)
    BY <1>3 DEF WatcherChanged
<1>4. CASE WatcherError(w)
    BY <1>4 DEF WatcherError
<1>5. CASE WatcherStore(w)
    BY <1>5 DEF WatcherStore
<1>6. CASE WatcherNotify(w)
    BY <1>6 DEF WatcherNotify, Finished
<1>7. CASE WatcherStop(w)
    BY <1>7 DEF WatcherStop, Finished
<1>8. QED
    BY <1>1, <1>2, <1>3, <1>4, <1>5, <1>6, <1>7 DEF Watch

(* Registering w for u: w is new and polls against body, the watcher that  *)
(* was registered for u is cancelled, every other one stays as it is.      *)
LEMMA StartStep ==
    ASSUME TypeOK, NEW u \in Urls, NEW w \in Watchers, StartWatcher(u, w)
    PROVE  /\ watcher[w].pc = "finished"
           /\ \A v \in Urls \ {u} : watcherCancelMap[v] # w
           /\ watcherCancelMap' = [watcherCancelMap EXCEPT ![u] = w]
           /\ watcher'[w].pc = "select"
           /\ watcher'[w].url = u
           /\ watcher'[w].configHash = Sha256[body]
           /\ ~watcher'[w].cancelled
           /\ \A v \in Watchers \ {w} :
                /\ watcher'[v].pc = watcher[v].pc
                /\ watcher'[v].url = watcher[v].url
                /\ watcher'[v].configHash = watcher[v].configHash
                /\ watcher'[v].body = watcher[v].body
                /\ watcher'[v].cancelled <=>
                     \/ watcher[v].cancelled
                     \/ v = watcherCancelMap[u] /\ watcher[v].pc # "finished"
<1>1. /\ watcher[w].pc = "finished"
      /\ \A v \in Urls \ {u} : watcherCancelMap[v] # w
      /\ watcherCancelMap' = [watcherCancelMap EXCEPT ![u] = w]
    BY DEF StartWatcher, Unused
<1>2. watcher'[w] = [pc |-> "select", url |-> u, configHash |-> Sha256[body],
                     body |-> None, configChanged |-> TRUE, cancelled |-> FALSE]
    BY DEF StartWatcher
<1>3. ASSUME NEW v \in Watchers \ {w}
      PROVE  /\ watcher'[v].pc = watcher[v].pc
             /\ watcher'[v].url = watcher[v].url
             /\ watcher'[v].configHash = watcher[v].configHash
             /\ watcher'[v].body = watcher[v].body
             /\ watcher'[v].cancelled <=>
                  \/ watcher[v].cancelled
                  \/ v = watcherCancelMap[u] /\ watcher[v].pc # "finished"
    <2>1. watcher'[v] = IF v = watcherCancelMap[u] /\ watcher[v].pc # "finished"
                        THEN [watcher[v] EXCEPT !.cancelled = TRUE]
                        ELSE watcher[v]
        BY <1>3 DEF StartWatcher
    <2>2. watcher[v] \in WatcherState
        BY <1>3 DEF TypeOK
    <2>3. QED
        BY <2>1, <2>2 DEF WatcherState
<1>4. QED
    BY <1>1, <1>2, <1>3

(* Every step but these leaves the watchers and their registrations alone. *)
LEMMA StepKinds ==
    [Next]_vars =>
        \/ UNCHANGED <<watcher, watcherCancelMap>>
        \/ \E w \in Watchers : Watch(w)
        \/ RetrieveReturn
        \/ RetrieveMalformed
BY DEF Next, vars, Publish, Retrieve, RetrieveReject, RetrieveBegin,
       RetrieveCached, RetrieveRequest, RetrieveAnswer, RetrieveError, Host,
       HostReload, HostResolveAgain, HostCancel, Shutdown, MapFault, maps

--------------------------------------------------------------------------------
(* A cancel func in the map stops a watcher of the URL it is filed under.  *)
Registered ==
    \A u \in Urls : \A w \in Watchers :
        watcherCancelMap[u] = w /\ watcher[w].pc # "finished" =>
            watcher[w].url = u

LEMMA RegisteredStart ==
    ASSUME TypeOK, Shape, Registered, OneLiveWatcher,
           NEW u \in Urls, WatchUrl(u)
    PROVE  Registered' /\ OneLiveWatcher'
<1>1. CASE u \notin Polled
    BY <1>1 DEF WatchUrl, Registered, OneLiveWatcher, Live
<1>2. CASE u \in Polled
    <2>1. PICK w \in Watchers : StartWatcher(u, w)
        BY <1>2 DEF WatchUrl
    <2>2. Registered'
      <3> SUFFICES ASSUME NEW x \in Urls, NEW v \in Watchers,
                          watcherCancelMap'[x] = v, watcher'[v].pc # "finished"
                   PROVE  watcher'[v].url = x
          BY DEF Registered
      <3>1. CASE x = u
          BY <2>1, <3>1, StartStep DEF TypeOK
      <3>2. CASE x # u
          BY <2>1, <3>2, StartStep DEF TypeOK, Registered
      <3>3. QED
          BY <3>1, <3>2
    <2>3. OneLiveWatcher'
      <3> SUFFICES ASSUME NEW v \in Watchers, watcher'[v].pc # "finished",
                          ~watcher'[v].cancelled
                   PROVE  watcherCancelMap'[watcher'[v].url] = v
          BY DEF OneLiveWatcher, Live
      <3>1. CASE v = w
          BY <2>1, <3>1, StartStep DEF TypeOK
      <3>2. CASE v # w
        <4>1. Live(v) /\ v # watcherCancelMap[u] /\ watcher'[v].url = watcher[v].url
            BY <2>1, <3>2, StartStep DEF Live
        <4>2. watcherCancelMap[watcher[v].url] = v /\ watcher[v].url # u
            BY <4>1 DEF OneLiveWatcher
        <4>3. watcher[v].url \in Urls
            BY <4>1 DEF Shape, Live
        <4>4. watcherCancelMap' = [watcherCancelMap EXCEPT ![u] = w]
            BY <2>1, StartStep
        <4>5. QED
            BY <4>1, <4>2, <4>3, <4>4 DEF TypeOK
      <3>3. QED
          BY <3>1, <3>2
    <2>4. QED
        BY <2>2, <2>3
<1>3. QED
    BY <1>1, <1>2

LEMMA RegisteredStep ==
    TypeOK /\ Shape /\ Registered /\ OneLiveWatcher /\ [Next]_vars
        => Registered' /\ OneLiveWatcher'
<1> SUFFICES ASSUME TypeOK, Shape, Registered, OneLiveWatcher, [Next]_vars
             PROVE  Registered' /\ OneLiveWatcher'
    OBVIOUS
<1>1. CASE UNCHANGED <<watcher, watcherCancelMap>>
    BY <1>1 DEF Registered, OneLiveWatcher, Live
<1>2. ASSUME NEW w \in Watchers, Watch(w) PROVE Registered' /\ OneLiveWatcher'
    <2>1. Registered'
        BY <1>2, WatchStep DEF Registered
    <2>2. OneLiveWatcher'
        BY <1>2, WatchStep DEF OneLiveWatcher, Live
    <2>3. QED
        BY <2>1, <2>2
<1>3. CASE RetrieveReturn \/ RetrieveMalformed
    <2>1. retrieving \in Urls /\ WatchUrl(retrieving)
        BY <1>3 DEF RetrieveReturn, RetrieveMalformed, Shape, TypeOK
    <2>2. QED
        BY <2>1, RegisteredStart
<1>4. QED
    BY <1>1, <1>2, <1>3, StepKinds

(* However often a URL is retrieved, only the last watcher started for it  *)
(* is not cancelled, and the map holds its cancel func.                    *)
THEOREM AtMostOneLiveWatcher == Spec => []OneLiveWatcher
<1>1. Init => Registered /\ OneLiveWatcher
    BY DEF Init, Registered, OneLiveWatcher, Live, Finished
<1>2. Spec => [](TypeOK /\ Shape /\ Registered /\ OneLiveWatcher)
    BY <1>1, TypeInit, TypeStep, RegisteredStep, PTL DEF Spec
<1>3. QED
    BY <1>2, PTL

--------------------------------------------------------------------------------
(* Bodies come from their own URL.                                         *)

LEMMA ServedStep ==
    TypeOK /\ Shape /\ OnlyServedBodies /\ [Next]_vars => OnlyServedBodies'
<1> SUFFICES ASSUME TypeOK, Shape, OnlyServedBodies, [Next]_vars
             PROVE  OnlyServedBodies'
    OBVIOUS
<1> USE DEF maps, signals, call, progress
<1>1. ASSUME NEW u \in Urls, Publish(u) PROVE OnlyServedBodies'
    <2>1. \A v \in Urls : served'[v] \in Nat /\ served[v] \in Nat /\ served[v] <= served'[v]
        BY <1>1, VersionsAssumption DEF Publish, TypeOK, Versions
    <2>2. \A v \in Urls :
            /\ newConfig[v] # None => newConfig[v] \in Nat
            /\ running[v] # None => running[v] \in Nat
        BY VersionsAssumption DEF TypeOK, Versions
    <2>3. \A w \in Watchers : watcher[w].pc = "store" =>
            watcher[w].url \in Urls /\ watcher[w].body \in Nat
        BY VersionsAssumption DEF Shape, Versions
    <2>4. hpc = "start" => retrieving \in Urls /\ body \in Nat
        BY VersionsAssumption DEF Shape, TypeOK, Versions
    <2>5. UNCHANGED <<newConfig, running, watcher, hpc, body, retrieving>>
        BY <1>1 DEF Publish
    <2>6. QED
        BY <2>1, <2>2, <2>3, <2>4, <2>5 DEF OnlyServedBodies
<1>2. CASE \E u \in Urls : RetrieveReject(u) \/ RetrieveBegin(u)
    BY <1>2 DEF RetrieveReject, RetrieveBegin, OnlyServedBodies
<1>3. CASE RetrieveCached
    BY <1>3 DEF RetrieveCached, OnlyServedBodies, Shape, TypeOK
<1>4. CASE RetrieveRequest \/ RetrieveError
    BY <1>4 DEF RetrieveRequest, RetrieveError, OnlyServedBodies
<1>5. CASE RetrieveAnswer
    <2>1. served[retrieving] \in Nat
        BY <1>5, VersionsAssumption DEF RetrieveAnswer, Shape, TypeOK, Versions
    <2>2. QED
        BY <1>5, <2>1 DEF RetrieveAnswer, OnlyServedBodies
<1>6. CASE RetrieveReturn \/ RetrieveMalformed
    <2>1. /\ retrieving \in Urls /\ WatchUrl(retrieving) /\ body <= served[retrieving]
          /\ UNCHANGED <<served, newConfig>> /\ hpc' # "start"
        BY <1>6 DEF RetrieveReturn, RetrieveMalformed, Shape, TypeOK, OnlyServedBodies
    <2>2. \A u \in Urls : running'[u] # None => running'[u] <= served'[u]
        BY <1>6, <2>1 DEF RetrieveReturn, RetrieveMalformed, TypeOK, OnlyServedBodies
    <2>3. ASSUME NEW v \in Watchers, watcher'[v].pc = "store"
          PROVE  watcher'[v].body <= served'[watcher'[v].url]
        <3>1. CASE retrieving \notin Polled
            BY <2>1, <2>3, <3>1 DEF WatchUrl, OnlyServedBodies
        <3>2. ASSUME NEW w \in Watchers, StartWatcher(retrieving, w)
              PROVE  watcher'[v].body <= served'[watcher'[v].url]
            <4>1. v # w
                BY <2>1, <2>3, <3>2, StartStep
            <4>2. /\ watcher[v].pc = "store" /\ watcher'[v].body = watcher[v].body
                  /\ watcher'[v].url = watcher[v].url
                BY <2>1, <2>3, <3>2, <4>1, StartStep
            <4>3. QED
                BY <2>1, <4>2 DEF OnlyServedBodies
        <3>3. QED
            BY <2>1, <3>1, <3>2 DEF WatchUrl
    <2>4. QED
        BY <2>1, <2>2, <2>3 DEF OnlyServedBodies
<1>7. CASE HostReload \/ HostResolveAgain \/ HostCancel \/ Shutdown \/ MapFault
    BY <1>7 DEF HostReload, HostResolveAgain, HostCancel, Shutdown, MapFault,
                OnlyServedBodies
<1>8. ASSUME NEW w \in Watchers, Watch(w) PROVE OnlyServedBodies'
    <2>1. /\ \A v \in Watchers \ {w} : watcher'[v] = watcher[v]
          /\ watcher[w].url \in Urls
          /\ UNCHANGED <<served, hpc, retrieving, body, running>>
        BY <1>8, WatchStep DEF Shape
    <2>2. \A u \in Urls : newConfig'[u] # None => newConfig'[u] <= served[u]
        <3>1. CASE WatcherStore(w)
            BY <3>1 DEF WatcherStore, OnlyServedBodies, TypeOK
        <3>2. CASE UNCHANGED newConfig
            BY <3>2 DEF OnlyServedBodies
        <3>3. QED
            BY <1>8, <3>1, <3>2 DEF Watch, WatcherPoll, WatcherUnchanged,
               WatcherChanged, WatcherError, WatcherNotify, WatcherStop
    <2>3. watcher'[w].pc = "store" => watcher'[w].body <= served[watcher'[w].url]
        <3>1. served[watcher[w].url] \in Nat /\ watcher[w] \in WatcherState
            BY <2>1, VersionsAssumption DEF TypeOK, Versions
        <3>2. CASE WatcherChanged(w)
            <4>1. watcher'[w].body = served[watcher[w].url]
                  /\ watcher'[w].url = watcher[w].url
                BY <3>1, <3>2 DEF WatcherChanged, TypeOK, WatcherState
            <4>2. QED
                BY <3>1, <4>1
        <3>3. CASE ~WatcherChanged(w)
            <4>1. watcher'[w].pc # "store"
                BY <1>8, <3>1, <3>3 DEF Watch, WatcherPoll, WatcherUnchanged,
                   WatcherError, WatcherStore, WatcherNotify, WatcherStop,
                   Finished, TypeOK, WatcherState
            <4>2. QED
                BY <4>1
        <3>4. QED
            BY <3>2, <3>3
    <2>4. QED
        BY <2>1, <2>2, <2>3 DEF OnlyServedBodies
<1>9. CASE UNCHANGED vars
    BY <1>9 DEF vars, OnlyServedBodies
<1>10. QED
    BY <1>1, <1>2, <1>3, <1>4, <1>5, <1>6, <1>7, <1>8, <1>9
    DEF Next, Retrieve, Host

(* No URL is ever given, shown or run with a body of another URL, or with  *)
(* one that its server has not published.                                  *)
THEOREM BodiesWereServed == Spec => []OnlyServedBodies
<1>1. Init => OnlyServedBodies
    BY DEF Init, OnlyServedBodies, Finished
<1>2. Spec => [](TypeOK /\ Shape /\ OnlyServedBodies)
    BY <1>1, TypeInit, TypeStep, ServedStep, PTL DEF Spec
<1>3. QED
    BY <1>2, PTL

--------------------------------------------------------------------------------
(* A live watcher polls against what the host runs.                        *)

LEMMA TracksStep ==
    /\ TypeOK /\ Shape /\ Registered /\ OneLiveWatcher
    /\ WatcherTracksRunning /\ [Next]_vars
    => WatcherTracksRunning'
<1> SUFFICES ASSUME TypeOK, Shape, Registered, OneLiveWatcher,
                    WatcherTracksRunning, [Next]_vars
             PROVE  WatcherTracksRunning'
    OBVIOUS
<1> USE DEF maps, signals, call, progress
<1>1. CASE UNCHANGED <<watcher, running>> /\ todo \subseteq todo'
    BY <1>1 DEF WatcherTracksRunning, Live
<1>2. ASSUME NEW w \in Watchers, Watch(w) PROVE WatcherTracksRunning'
    BY <1>2, WatchStep DEF WatcherTracksRunning, Live
<1>3. CASE RetrieveReturn \/ RetrieveMalformed
    <2> SUFFICES ASSUME NEW v \in Watchers, Live(v)', watcher'[v].url \notin todo'
                 PROVE  watcher'[v].configHash = Sha256[running'[watcher'[v].url]]
        BY DEF WatcherTracksRunning
    <2>1. /\ retrieving \in todo /\ retrieving \in Urls /\ WatchUrl(retrieving)
          /\ \/ RetrieveReturn
             \/ RetrieveMalformed /\ todo' = todo /\ running' = running
        BY <1>3 DEF RetrieveReturn, RetrieveMalformed, Shape, TypeOK
    <2>2. \A u \in Urls \ {retrieving} :
            running'[u] = running[u] /\ (u \notin todo' => u \notin todo)
        BY <2>1 DEF RetrieveReturn, TypeOK
    <2>3. RetrieveReturn => running'[retrieving] = body
        BY <2>1 DEF RetrieveReturn, TypeOK
    <2>4. CASE retrieving \notin Polled
        <3>1. watcher' = watcher /\ Live(v) /\ watcher[v].url \in Urls
            BY <2>1, <2>4 DEF WatchUrl, Live, Shape
        <3>2. CASE watcher[v].url # retrieving
            BY <2>2, <3>1, <3>2 DEF WatcherTracksRunning
        <3>3. CASE watcher[v].url = retrieving
            BY <2>4, <3>1, <3>3 DEF Shape, Live
        <3>4. QED
            BY <3>2, <3>3
    <2>5. ASSUME NEW w \in Watchers, StartWatcher(retrieving, w)
          PROVE  watcher'[v].configHash = Sha256[running'[watcher'[v].url]]
        <3>1. CASE v = w
            <4>1. watcher'[v].url = retrieving /\ watcher'[v].configHash = Sha256[body]
                BY <2>1, <2>5, <3>1, StartStep
            <4>2. QED
                BY <2>1, <2>3, <4>1
        <3>2. CASE v # w
            <4>1. /\ Live(v) /\ v # watcherCancelMap[retrieving]
                  /\ watcher'[v].url = watcher[v].url
                  /\ watcher'[v].configHash = watcher[v].configHash
                BY <2>1, <2>5, <3>2, StartStep DEF Live
            <4>2. watcher[v].url \in Urls \ {retrieving}
                BY <4>1 DEF OneLiveWatcher, Live, Shape
            <4>3. QED
                BY <2>2, <4>1, <4>2 DEF WatcherTracksRunning
        <3>3. QED
            BY <3>1, <3>2
    <2>6. QED
        BY <2>1, <2>4, <2>5 DEF WatchUrl
<1>4. QED
    BY <1>1, <1>2, <1>3 DEF Next, vars, Publish, Retrieve, RetrieveReject,
       RetrieveBegin, RetrieveCached, RetrieveRequest, RetrieveAnswer,
       RetrieveError, Host, HostReload, HostResolveAgain, HostCancel, Shutdown,
       MapFault, TypeOK

(* The live watcher of a URL the host has resolved compares what it polls  *)
(* with the body the host runs.                                            *)
THEOREM LiveWatcherTracksRunning == Spec => []WatcherTracksRunning
<1>1. Init => Registered /\ OneLiveWatcher /\ WatcherTracksRunning
    BY DEF Init, Registered, OneLiveWatcher, WatcherTracksRunning, Live, Finished
<1>2. Spec => [](/\ TypeOK /\ Shape /\ Registered /\ OneLiveWatcher
                 /\ WatcherTracksRunning)
    BY <1>1, TypeInit, TypeStep, RegisteredStep, TracksStep, PTL DEF Spec
<1>3. QED
    BY <1>2, PTL

--------------------------------------------------------------------------------
(* Nothing polled goes unwatched.                                          *)

(* What holds in every state of the host, not only while it serves: the    *)
(* URLs that this resolution has passed are watched.                       *)
Watched(u) == \E w \in Watchers : Live(w) /\ watcher[w].url = u

ResolvedAreWatched ==
    /\ hpc = "serving" => todo = {}
    /\ shutdown => hpc \in {"stopped", "crashed"}
    /\ \/ ctxDone
       \/ mailbox > 0
       \/ hpc \in {"stopped", "crashed"}
       \/ \A u \in Polled \ todo : Watched(u)

(* Starting the watcher of u takes no watcher from another URL.            *)
LEMMA StartKeepsWatched ==
    ASSUME TypeOK, Registered, NEW u \in Urls, WatchUrl(u)
    PROVE  /\ \A x \in Polled \ {u} : Watched(x) => Watched(x)'
           /\ u \in Polled => Watched(u)'
<1>1. CASE u \notin Polled
    BY <1>1 DEF WatchUrl, Watched, Live
<1>2. CASE u \in Polled
    <2>1. PICK w \in Watchers : StartWatcher(u, w)
        BY <1>2 DEF WatchUrl
    <2>2. Watched(u)'
        BY <2>1, StartStep DEF Watched, Live
    <2>3. ASSUME NEW x \in Polled \ {u}, Watched(x) PROVE Watched(x)'
        <3>1. PICK v \in Watchers : Live(v) /\ watcher[v].url = x
            BY <2>3 DEF Watched
        <3>2. v # w /\ v # watcherCancelMap[u]
            BY <2>1, <2>3, <3>1, StartStep DEF Registered, Live
        <3>3. Live(v)' /\ watcher'[v].url = x
            BY <2>1, <3>1, <3>2, StartStep DEF Live
        <3>4. QED
            BY <3>3 DEF Watched
    <2>4. QED
        BY <2>2, <2>3
<1>3. QED
    BY <1>1, <1>2

LEMMA WatchedStep ==
    TypeOK /\ Shape /\ Registered /\ ResolvedAreWatched /\ [Next]_vars
        => ResolvedAreWatched'
<1> SUFFICES ASSUME TypeOK, Shape, Registered, ResolvedAreWatched, [Next]_vars
             PROVE  ResolvedAreWatched'
    OBVIOUS
<1> USE DEF maps, signals, call, progress
<1>1. CASE \/ \E u \in Urls : Publish(u) \/ RetrieveReject(u) \/ RetrieveBegin(u)
           \/ RetrieveCached \/ RetrieveRequest \/ RetrieveAnswer \/ RetrieveError
           \/ HostCancel \/ Shutdown \/ MapFault
    BY <1>1 DEF Publish, RetrieveReject, RetrieveBegin, RetrieveCached,
       RetrieveRequest, RetrieveAnswer, RetrieveError, HostCancel, Shutdown,
       MapFault, ResolvedAreWatched, Watched, Live
<1>2. CASE HostReload \/ HostResolveAgain
    <2>1. todo' = Urls /\ hpc' = "resolving" /\ UNCHANGED shutdown
        BY <1>2 DEF HostReload, HostResolveAgain
    <2>2. Polled \ todo' = {}
        BY <2>1, UrlsAssumption
    <2>3. hpc \in {"serving", "failed"}
        BY <1>2 DEF HostReload, HostResolveAgain
    <2>4. QED
        BY <2>1, <2>2, <2>3 DEF ResolvedAreWatched
<1>3. CASE RetrieveReturn \/ RetrieveMalformed
    <2>1. /\ retrieving \in todo /\ retrieving \in Urls /\ WatchUrl(retrieving)
          /\ todo' \in {todo, todo \ {retrieving}}
          /\ hpc' = "serving" => todo' = {}
          /\ hpc = "start"
          /\ UNCHANGED <<ctxDone, mailbox, shutdown>>
        BY <1>3 DEF RetrieveReturn, RetrieveMalformed, Shape, TypeOK
    <2>2. (\A u \in Polled \ todo : Watched(u))
            => (\A u \in Polled \ todo' : Watched(u)')
        <3> SUFFICES ASSUME \A u \in Polled \ todo : Watched(u),
                            NEW u \in Polled \ todo'
                     PROVE  Watched(u)'
            OBVIOUS
        <3>1. CASE u = retrieving
            BY <2>1, <3>1, StartKeepsWatched
        <3>2. CASE u # retrieving
            <4>1. u \in Polled \ todo
                BY <2>1, <3>2
            <4>2. QED
                BY <2>1, <3>2, <4>1, StartKeepsWatched
        <3>3. QED
            BY <3>1, <3>2
    <2>3. QED
        BY <2>1, <2>2 DEF ResolvedAreWatched
<1>4. ASSUME NEW w \in Watchers, Watch(w) PROVE ResolvedAreWatched'
    <2>1. /\ \A v \in Watchers \ {w} : watcher'[v] = watcher[v]
          /\ UNCHANGED <<shutdown, ctxDone, hpc, todo>>
        BY <1>4, WatchStep
    <2>2. CASE WatcherNotify(w)
        <3>1. mailbox' > 0
            BY <2>2, MailboxAssumption DEF WatcherNotify, TypeOK
        <3>2. QED
            BY <2>1, <3>1 DEF ResolvedAreWatched
    <2>3. CASE WatcherStop(w)
        <3>1. shutdown \/ ctxDone \/ ~Live(w)
            BY <2>3 DEF WatcherStop, StopReady, Cancelled, Live
        <3>2. mailbox' = mailbox
            BY <2>3 DEF WatcherStop
        <3>3. ~Live(w) => \A u \in Polled : Watched(u) => Watched(u)'
            BY <2>1 DEF Watched, Live
        <3>4. QED
            BY <2>1, <3>1, <3>2, <3>3 DEF ResolvedAreWatched
    <2>4. CASE ~WatcherNotify(w) /\ ~WatcherStop(w)
        <3>1. watcher'[w].pc # "finished" /\ mailbox' = mailbox
            BY <1>4, <2>4 DEF Watch, WatcherPoll, WatcherUnchanged, WatcherChanged,
               WatcherError, WatcherStore, TypeOK, WatcherState
        <3>2. /\ watcher'[w].url = watcher[w].url
              /\ watcher'[w].cancelled = watcher[w].cancelled
              /\ watcher[w].pc # "finished"
            BY <1>4, <3>1, WatchStep
        <3>3. \A u \in Polled : Watched(u) => Watched(u)'
            BY <2>1, <3>1, <3>2 DEF Watched, Live
        <3>4. QED
            BY <2>1, <3>1, <3>3 DEF ResolvedAreWatched
    <2>5. QED
        BY <2>2, <2>3, <2>4
<1>5. CASE UNCHANGED vars
    BY <1>5 DEF vars, ResolvedAreWatched, Watched, Live
<1>6. QED
    BY <1>1, <1>2, <1>3, <1>4, <1>5 DEF Next, Retrieve, Host

(* While the host serves, each polled URL has a live watcher, or a change  *)
(* event is waiting, or the host cancelled the context itself.             *)
THEOREM ServingIsWatched == Spec => []NeverUnwatched
<1>1. Init => Registered /\ OneLiveWatcher /\ ResolvedAreWatched
    BY UrlsAssumption
    DEF Init, Registered, OneLiveWatcher, ResolvedAreWatched, Live, Finished
<1>2. ResolvedAreWatched => NeverUnwatched
    BY DEF ResolvedAreWatched, NeverUnwatched, Watched
<1>3. Spec => [](TypeOK /\ Shape /\ Registered /\ OneLiveWatcher /\ ResolvedAreWatched)
    BY <1>1, TypeInit, TypeStep, RegisteredStep, WatchedStep, PTL DEF Spec
<1>4. QED
    BY <1>2, <1>3, PTL

--------------------------------------------------------------------------------
(* Nothing that was found is forgotten.                                    *)

(* An event for u is in the mailbox or in the hands of a watcher of u.     *)
EventFor(u) ==
    \/ mailbox > 0
    \/ \E w \in Watchers : watcher[w].pc = "notify" /\ watcher[w].url = u

(* Past its lookup, Retrieve has emptied the cache: a body that is there   *)
(* has been stored since, and its event follows.                           *)
CachedIsAnnounced ==
    \A u \in Urls : newConfig[u] # None =>
        \/ EventFor(u)
        \/ u \in todo /\ ~(hpc \in {"request", "start"} /\ retrieving = u)

(* Starting a watcher withdraws no event.                                  *)
LEMMA StartKeepsEvents ==
    ASSUME TypeOK, NEW u \in Urls, WatchUrl(u), UNCHANGED mailbox,
           NEW x \in Urls, EventFor(x)
    PROVE  EventFor(x)'
<1>1. CASE u \notin Polled
    BY <1>1 DEF WatchUrl, EventFor
<1>2. ASSUME NEW w \in Watchers, StartWatcher(u, w) PROVE EventFor(x)'
    <2>1. ASSUME NEW v \in Watchers, watcher[v].pc = "notify", watcher[v].url = x
          PROVE  watcher'[v].pc = "notify" /\ watcher'[v].url = x
        BY <1>2, <2>1, StartStep
    <2>2. QED
        BY <2>1 DEF EventFor
<1>3. QED
    BY <1>1, <1>2 DEF WatchUrl

LEMMA AnnouncedStep ==
    TypeOK /\ Shape /\ CachedIsAnnounced /\ [Next]_vars => CachedIsAnnounced'
<1> SUFFICES ASSUME TypeOK, Shape, CachedIsAnnounced, [Next]_vars
             PROVE  CachedIsAnnounced'
    OBVIOUS
<1> USE DEF maps, signals, call, progress
<1>1. CASE \/ \E u \in Urls : Publish(u) \/ RetrieveReject(u) \/ RetrieveBegin(u)
           \/ RetrieveRequest \/ RetrieveAnswer \/ RetrieveError
           \/ HostCancel \/ Shutdown \/ MapFault
    BY <1>1 DEF Publish, RetrieveReject, RetrieveBegin, RetrieveRequest,
       RetrieveAnswer, RetrieveError, HostCancel, Shutdown, MapFault,
       CachedIsAnnounced, EventFor
<1>2. CASE RetrieveCached
    BY <1>2 DEF RetrieveCached, CachedIsAnnounced, EventFor, TypeOK
<1>3. CASE RetrieveReturn \/ RetrieveMalformed
    <2>1. /\ retrieving \in Urls /\ WatchUrl(retrieving) /\ hpc = "start"
          /\ UNCHANGED <<mailbox, newConfig>>
          /\ todo \ {retrieving} \subseteq todo'
          /\ hpc' \notin {"request", "start"}
        BY <1>3 DEF RetrieveReturn, RetrieveMalformed, Shape, TypeOK
    <2>2. QED
        BY <2>1, StartKeepsEvents DEF CachedIsAnnounced
<1>4. CASE HostReload \/ HostResolveAgain
    BY <1>4 DEF HostReload, HostResolveAgain, CachedIsAnnounced
<1>5. ASSUME NEW w \in Watchers, Watch(w) PROVE CachedIsAnnounced'
    <2>1. /\ \A v \in Watchers \ {w} : watcher'[v] = watcher[v]
          /\ UNCHANGED <<hpc, todo, retrieving>>
        BY <1>5, WatchStep
    <2>2. CASE WatcherStore(w)
        <3>1. /\ watcher'[w].pc = "notify" /\ watcher'[w].url = watcher[w].url
              /\ watcher[w].pc = "store"
              /\ \A u \in Urls \ {watcher[w].url} : newConfig'[u] = newConfig[u]
              /\ mailbox' = mailbox
            BY <2>2 DEF WatcherStore, TypeOK, WatcherState
        <3>2. \A u \in Urls : EventFor(u) => EventFor(u)'
            BY <2>1, <3>1 DEF EventFor
        <3>3. EventFor(watcher[w].url)'
            BY <3>1 DEF EventFor
        <3>4. QED
            BY <2>1, <3>1, <3>2, <3>3 DEF CachedIsAnnounced
    <2>3. CASE WatcherNotify(w)
        <3>1. mailbox' > 0
            BY <2>3, MailboxAssumption DEF WatcherNotify, TypeOK
        <3>2. QED
            BY <3>1 DEF CachedIsAnnounced, EventFor
    <2>4. CASE ~WatcherStore(w) /\ ~WatcherNotify(w)
        <3>1. watcher[w].pc # "notify" /\ UNCHANGED <<mailbox, newConfig>>
            BY <1>5, <2>4 DEF Watch, WatcherPoll, WatcherUnchanged, WatcherChanged,
               WatcherError, WatcherStop
        <3>2. \A u \in Urls : EventFor(u) => EventFor(u)'
            BY <2>1, <3>1 DEF EventFor
        <3>3. QED
            BY <2>1, <3>1, <3>2 DEF CachedIsAnnounced
    <2>5. QED
        BY <2>2, <2>3, <2>4
<1>6. CASE UNCHANGED vars
    BY <1>6 DEF vars, CachedIsAnnounced, EventFor
<1>7. QED
    BY <1>1, <1>2, <1>3, <1>4, <1>5, <1>6 DEF Next, Retrieve, Host

(* A body a watcher has left is on its way to the host.                    *)
THEOREM CachedIsPickedUp == Spec => []NoForgottenConfig
<1>1. Init => CachedIsAnnounced
    BY DEF Init, CachedIsAnnounced
<1>2. CachedIsAnnounced => NoForgottenConfig
    BY DEF CachedIsAnnounced, EventFor, NoForgottenConfig
<1>3. Spec => [](TypeOK /\ Shape /\ CachedIsAnnounced)
    BY <1>1, TypeInit, TypeStep, AnnouncedStep, PTL DEF Spec
<1>4. QED
    BY <1>2, <1>3, PTL

--------------------------------------------------------------------------------
(* The provider implements the feed, up to its fairness.                   *)

LEMMA FeedStep ==
    TypeOK /\ Shape /\ OnlyServedBodies /\ [Next]_vars
        => [Unordered!FeedNext]_(Unordered!feedVars)
<1> SUFFICES ASSUME TypeOK, Shape, OnlyServedBodies, [Next]_vars
             PROVE  \/ Unordered!FeedNext
                    \/ UNCHANGED <<served, running, HostHalted>>
    BY DEF Unordered!feedVars
<1> USE DEF maps, signals, call, progress
<1>1. ASSUME NEW u \in Urls, Publish(u) PROVE Unordered!FeedPublish(u)
    BY <1>1 DEF Publish, Unordered!FeedPublish, HostHalted
<1>2. CASE RetrieveReturn
    <2>1. retrieving \in Urls /\ body \in Versions /\ body <= served[retrieving]
        BY <1>2 DEF RetrieveReturn, Shape, TypeOK, OnlyServedBodies
    <2>2. HostHalted' = HostHalted
        BY <1>2 DEF RetrieveReturn, HostHalted
    <2>3. Unordered!Adopt(retrieving, body)
        BY <1>2, <2>1, <2>2 DEF RetrieveReturn, Unordered!Adopt
    <2>4. QED
        BY <2>1, <2>3 DEF Unordered!FeedNext, Versions
<1>3. CASE UNCHANGED <<served, running>>
    <2>1. CASE HostHalted' = HostHalted
        BY <1>3, <2>1
    <2>2. CASE HostHalted' /\ ~HostHalted
        BY <1>3, <2>2 DEF Unordered!FeedNext, Unordered!Halt, HostHalted
    <2>3. CASE HostHalted /\ ~HostHalted'
        BY <1>3, <2>3 DEF Unordered!FeedNext, Unordered!Resume, HostHalted
    <2>4. QED
        BY <2>1, <2>2, <2>3 DEF HostHalted
<1>4. ASSUME NEW w \in Watchers, Watch(w) PROVE UNCHANGED <<served, running>>
    BY <1>4, WatchStep
<1>5. QED
    BY <1>1, <1>2, <1>3, <1>4 DEF Next, vars, Retrieve, RetrieveReject,
       RetrieveBegin, RetrieveCached, RetrieveRequest, RetrieveAnswer,
       RetrieveError, RetrieveMalformed, Host, HostReload, HostResolveAgain,
       HostCancel, Shutdown, MapFault, Unordered!FeedNext

(* Whatever the host does, the provider is a feed: the host moves between  *)
(* bodies its URL has served, and nothing but a publication changes what   *)
(* is served.                                                              *)
THEOREM ImplementsFeed == Spec => Unordered!FeedSafety
<1>1. Init => Unordered!FeedInit
    BY DEF Init, Unordered!FeedInit, HostHalted
<1>2. Init => OnlyServedBodies
    BY DEF Init, OnlyServedBodies, Finished
<1>3. Spec => [](TypeOK /\ Shape /\ OnlyServedBodies)
    BY <1>2, TypeInit, TypeStep, ServedStep, PTL DEF Spec
<1>4. QED
    BY <1>1, <1>3, FeedStep, PTL DEF Spec, Unordered!FeedSafety

--------------------------------------------------------------------------------
(***************************************************************************)
(* A host that resolves on change events only, with one polled URL.  Then  *)
(* Retrieve, the watcher and the mailbox take turns: while there is an     *)
(* event there is no watcher, and while there is a watcher the host is     *)
(* past the URL.  With two polled URLs, or with a host that resolves when  *)
(* it likes, a watcher may work during the Retrieve that replaces it.      *)
(***************************************************************************)
EventDriven == ~ReResolves /\ \A u, v \in Polled : u = v

(* Without another resolution these states are never left for the others.  *)
GivenUp == hpc \in {"failed", "stopped", "crashed"}

Active(w) == watcher[w].pc # "finished"

(* The cached body of u is a change for the host.                          *)
Differs(u) == newConfig[u] # None /\ Sha256[newConfig[u]] # Sha256[running[u]]

Turns ==
    /\ mailbox \in {0, 1}
    /\ \A v, w \in Watchers : Active(v) /\ Active(w) => v = w
    /\ \A w \in Watchers : Active(w) => mailbox = 0 /\ watcher[w].url \notin todo

Changes ==
    /\ \A w \in Watchers : Active(w) =>
         /\ running[watcher[w].url] # None
         /\ watcher[w].configHash = Sha256[running[watcher[w].url]]
    /\ \A w \in Watchers : watcher[w].pc = "store" =>
         Sha256[watcher[w].body] # watcher[w].configHash
    /\ \A w \in Watchers : watcher[w].pc = "notify" => Differs(watcher[w].url)
    /\ mailbox = 1 => \E u \in Polled : u \notin todo /\ Differs(u)

(* Only a reload that has yet to look the URL up finds a body.             *)
Cache ==
    /\ \A u \in Urls \ Polled : newConfig[u] = None
    /\ hpc \in {"request", "start"} => newConfig[retrieving] = None
    /\ reloaded => \A u \in Polled \cap todo :
         newConfig[u] # None \/ (hpc = "start" /\ retrieving = u)

(* What is on its way to the host is no older than what it runs.           *)
Forward ==
    /\ \A u \in Urls : newConfig[u] # None =>
         running[u] # None /\ running[u] <= newConfig[u]
    /\ \A w \in Watchers : watcher[w].pc = "store" =>
         running[watcher[w].url] <= watcher[w].body
    /\ hpc = "start" /\ running[retrieving] # None => running[retrieving] <= body

InTurn == GivenUp \/ (Turns /\ Changes /\ Cache /\ Forward)

LEMMA GivenUpStays ==
    ASSUME EventDriven, GivenUp, [Next]_vars
    PROVE  GivenUp'
<1> USE DEF GivenUp, EventDriven
<1>1. ASSUME NEW w \in Watchers, Watch(w) PROVE hpc' = hpc
    BY <1>1 DEF Watch, WatcherPoll, WatcherUnchanged, WatcherChanged, WatcherError,
       WatcherStore, WatcherNotify, WatcherStop
<1>2. QED
    BY <1>1 DEF Next, vars, Publish, Retrieve, RetrieveReject, RetrieveBegin,
       RetrieveCached, RetrieveRequest, RetrieveAnswer, RetrieveError,
       RetrieveReturn, RetrieveMalformed, Host, HostReload, HostResolveAgain,
       HostCancel, Shutdown, MapFault

(* The steps before the end of Retrieve, and those of the environment.     *)
LEMMA InTurnRequest ==
    ASSUME EventDriven, TypeOK, Shape, OnlyServedBodies,
           Turns, Changes, Cache, Forward,
           \/ \E u \in Urls : Publish(u) \/ RetrieveBegin(u)
           \/ RetrieveCached \/ RetrieveRequest \/ RetrieveAnswer
           \/ HostCancel \/ UNCHANGED vars
    PROVE  Turns' /\ Changes' /\ Cache' /\ Forward'
<1> USE DEF maps, signals, call, progress
<1>1. CASE \/ \E u \in Urls : Publish(u) \/ RetrieveBegin(u)
           \/ RetrieveRequest \/ HostCancel \/ UNCHANGED vars
    <2>1. UNCHANGED <<watcher, mailbox, todo, running, newConfig, reloaded>>
        BY <1>1 DEF Publish, RetrieveBegin, RetrieveRequest, HostCancel, vars
    <2>2. /\ hpc' = "start" => UNCHANGED <<hpc, retrieving, body>>
          /\ hpc = "start" => UNCHANGED <<hpc, retrieving, body>>
          /\ hpc' = "request" => newConfig[retrieving'] = None
        BY <1>1 DEF Publish, RetrieveBegin, RetrieveRequest, HostCancel, vars, Cache
    <2>3. Turns' /\ Changes'
        BY <2>1 DEF Turns, Changes, Active, Differs
    <2>4. Cache' /\ Forward'
        BY <2>1, <2>2 DEF Cache, Forward
    <2>5. QED
        BY <2>3, <2>4
<1>2. CASE RetrieveCached
    <2>1. /\ hpc = "lookup" /\ hpc' = "start" /\ newConfig[retrieving] # None
          /\ body' = newConfig[retrieving]
          /\ newConfig' = [newConfig EXCEPT ![retrieving] = None]
          /\ UNCHANGED <<watcher, mailbox, todo, running, reloaded, retrieving>>
        BY <1>2 DEF RetrieveCached
    <2>2. retrieving \in todo /\ retrieving \in Urls
        BY <2>1 DEF Shape, TypeOK
    <2>3. newConfig'[retrieving] = None
          /\ \A u \in Urls \ {retrieving} : newConfig'[u] = newConfig[u]
        BY <2>1, <2>2 DEF TypeOK
    <2>4. Turns'
        BY <2>1 DEF Turns, Active
    <2>5. \A w \in Watchers : Active(w) =>
             watcher[w].url \in Urls \ {retrieving}
        BY <2>2 DEF Turns, Active, Shape
    <2>6. Changes'
        BY <2>1, <2>2, <2>3, <2>5, UrlsAssumption DEF Changes, Active, Differs
    <2>7. Cache'
        BY <2>1, <2>2, <2>3, UrlsAssumption DEF Cache
    <2>8. Forward'
        BY <2>1, <2>2, <2>3 DEF Forward
    <2>9. QED
        BY <2>4, <2>6, <2>7, <2>8
<1>3. CASE RetrieveAnswer
    <2>1. /\ hpc = "request" /\ hpc' = "start" /\ body' = served[retrieving]
          /\ UNCHANGED <<watcher, mailbox, todo, running, newConfig, reloaded, retrieving>>
        BY <1>3 DEF RetrieveAnswer
    <2>2. retrieving \in todo /\ retrieving \in Urls
        BY <2>1 DEF Shape, TypeOK
    <2>3. Turns' /\ Changes'
        BY <2>1 DEF Turns, Changes, Active, Differs
    <2>4. Cache'
        BY <2>1 DEF Cache
    <2>5. Forward'
        BY <2>1, <2>2 DEF Forward, OnlyServedBodies
    <2>6. QED
        BY <2>3, <2>4, <2>5
<1>4. QED
    BY <1>1, <1>2, <1>3

(* The end of Retrieve: no watcher is at work on the URL, and no event     *)
(* waits for it.                                                           *)
LEMMA InTurnReturn ==
    ASSUME EventDriven, TypeOK, Shape,
           Turns, Changes, Cache, Forward, RetrieveReturn
    PROVE  Turns' /\ Changes' /\ Cache' /\ Forward'
<1>1. /\ hpc = "start" /\ WatchUrl(retrieving)
      /\ running' = [running EXCEPT ![retrieving] = body]
      /\ todo' = todo \ {retrieving}
      /\ hpc' \in {"serving", "resolving"}
      /\ UNCHANGED <<newConfig, mailbox, reloaded>>
    BY DEF RetrieveReturn
<1>2. /\ retrieving \in todo /\ retrieving \in Urls /\ body \in Versions /\ body # None
      /\ newConfig[retrieving] = None
    BY <1>1, NoneAssumption DEF Shape, TypeOK, Cache
<1>3. /\ running'[retrieving] = body
      /\ \A u \in Urls \ {retrieving} : running'[u] = running[u]
    BY <1>1, <1>2 DEF TypeOK
<1>4. Cache'
    BY <1>1 DEF Cache
<1>5. \A w \in Watchers : Active(w) =>
         watcher[w].url \in Urls \cap Polled /\ watcher[w].url # retrieving
    BY <1>2 DEF Turns, Active, Shape
<1>6. CASE retrieving \notin Polled
    <2>1. watcher' = watcher
        BY <1>1, <1>6 DEF WatchUrl
    <2>2. Turns'
        BY <1>1, <2>1 DEF Turns, Active
    <2>3. \A u \in Urls : Differs(u) => Differs(u)'
        BY <1>1, <1>2, <1>3 DEF Differs
    <2>4. Changes'
        BY <1>1, <1>3, <1>5, <2>1, <2>3, UrlsAssumption DEF Changes, Active
    <2>5. Forward'
        BY <1>1, <1>2, <1>3, <1>5, <2>1 DEF Forward, Active
    <2>6. QED
        BY <1>4, <2>2, <2>4, <2>5
<1>7. CASE retrieving \in Polled
    <2>1. \A w \in Watchers : ~Active(w)
        BY <1>5, <1>7 DEF EventDriven
    <2>2. mailbox = 0
        BY <1>2, <1>7 DEF Turns, Changes, EventDriven
    <2>3. PICK w \in Watchers : StartWatcher(retrieving, w)
        BY <1>1, <1>7 DEF WatchUrl
    <2>4. /\ watcher'[w].pc = "select" /\ watcher'[w].url = retrieving
          /\ watcher'[w].configHash = Sha256[body]
          /\ \A v \in Watchers \ {w} : watcher'[v].pc = "finished"
        BY <1>2, <2>1, <2>3, StartStep DEF Active
    <2>5. Turns'
        BY <1>1, <2>2, <2>4 DEF Turns, Active
    <2>6. Changes'
        BY <1>1, <1>2, <1>3, <2>2, <2>4 DEF Changes, Active
    <2>7. Forward'
        BY <1>1, <1>2, <1>3, <2>4 DEF Forward
    <2>8. QED
        BY <1>4, <2>5, <2>6, <2>7
<1>8. QED
    BY <1>6, <1>7

(* A reload empties the mailbox.  Its URL is in the cache.                 *)
LEMMA InTurnReload ==
    ASSUME EventDriven, TypeOK, Shape,
           Turns, Changes, Cache, Forward, HostReload
    PROVE  Turns' /\ Changes' /\ Cache' /\ Forward'
<1>1. /\ mailbox > 0 /\ mailbox' = mailbox - 1
      /\ hpc' = "resolving" /\ todo' = Urls
      /\ UNCHANGED <<watcher, running, newConfig>>
    BY DEF HostReload, maps
<1>2. mailbox = 1 /\ mailbox' = 0
    BY <1>1 DEF Turns
<1>3. \A w \in Watchers : watcher[w].pc = "finished"
    BY <1>2 DEF Turns, Active
<1>4. \A u \in Polled : newConfig[u] # None
    BY <1>2 DEF Changes, Differs, EventDriven
<1>5. Turns' /\ Changes'
    BY <1>1, <1>2, <1>3 DEF Turns, Changes, Active
<1>6. Cache'
    BY <1>1, <1>4 DEF Cache
<1>7. Forward'
    BY <1>1 DEF Forward
<1>8. QED
    BY <1>5, <1>6, <1>7

(* The steps of a watcher, the only one there is.                          *)
LEMMA InTurnWatch ==
    ASSUME EventDriven, TypeOK, Shape, OnlyServedBodies,
           Turns, Changes, Cache, Forward, NEW w \in Watchers, Watch(w)
    PROVE  Turns' /\ Changes' /\ Cache' /\ Forward'
<1> USE DEF maps, signals, call, progress
<1>1. /\ watcher[w].pc # "finished"
      /\ watcher'[w].pc # "finished" =>
           /\ watcher'[w].url = watcher[w].url
           /\ watcher'[w].configHash = watcher[w].configHash
      /\ \A v \in Watchers \ {w} : watcher'[v] = watcher[v]
      /\ UNCHANGED <<served, hpc, todo, retrieving, body, running>>
    BY WatchStep
<1>2. \A v \in Watchers \ {w} : watcher[v].pc = "finished" /\ watcher'[v].pc = "finished"
    BY <1>1 DEF Turns, Active
<1>3. /\ mailbox = 0
      /\ watcher[w].url \in Urls \cap Polled /\ watcher[w].url \notin todo
      /\ running[watcher[w].url] # None
      /\ watcher[w].configHash = Sha256[running[watcher[w].url]]
    BY <1>1 DEF Turns, Changes, Active, Shape
<1>4. UNCHANGED reloaded
    BY DEF Watch, WatcherPoll, WatcherUnchanged, WatcherChanged, WatcherError,
       WatcherStore, WatcherNotify, WatcherStop
<1>5. CASE WatcherStore(w)
    <2>1. /\ watcher[w].pc = "store" /\ watcher'[w].pc = "notify"
          /\ newConfig' = [newConfig EXCEPT ![watcher[w].url] = watcher[w].body]
          /\ mailbox' = mailbox
        BY <1>5 DEF WatcherStore, TypeOK
    <2>2. /\ newConfig'[watcher[w].url] = watcher[w].body
          /\ watcher[w].body # None
          /\ \A u \in Urls \ {watcher[w].url} : newConfig'[u] = newConfig[u]
        BY <1>3, <2>1, NoneAssumption DEF Shape, TypeOK
    <2>3. Turns'
        BY <1>1, <1>2, <1>3, <2>1 DEF Turns, Active
    <2>4. Sha256[watcher[w].body] # Sha256[running[watcher[w].url]]
        BY <1>3, <2>1 DEF Changes
    <2>5. Changes'
        BY <1>1, <1>2, <1>3, <2>1, <2>2, <2>4 DEF Changes, Active, Differs
    <2>6. hpc \in {"request", "start"} => retrieving \in Urls \ {watcher[w].url}
        BY <1>3 DEF Shape, TypeOK
    <2>7. Cache'
        BY <1>1, <1>3, <1>4, <2>2, <2>6, UrlsAssumption DEF Cache
    <2>8. Forward'
        BY <1>1, <1>2, <1>3, <2>1, <2>2 DEF Forward
    <2>9. QED
        BY <2>3, <2>5, <2>7, <2>8
<1>6. CASE WatcherNotify(w)
    <2>1. /\ watcher[w].pc = "notify" /\ watcher'[w].pc = "finished"
          /\ newConfig' = newConfig
          /\ mailbox' = 1
        BY <1>3, <1>6 DEF WatcherNotify, TypeOK, Finished
    <2>2. Turns'
        BY <1>2, <2>1 DEF Turns, Active
    <2>3. Differs(watcher[w].url)
        BY <2>1 DEF Changes
    <2>4. Changes'
        BY <1>1, <1>2, <1>3, <2>1, <2>3 DEF Changes, Active, Differs
    <2>5. Cache'
        BY <1>1, <1>4, <2>1 DEF Cache
    <2>6. Forward'
        BY <1>1, <1>2, <2>1 DEF Forward
    <2>7. QED
        BY <2>2, <2>4, <2>5, <2>6
<1>7. CASE WatcherChanged(w)
    <2>1. /\ watcher'[w].pc = "store"
          /\ watcher'[w].body = served[watcher[w].url]
          /\ Sha256[served[watcher[w].url]] # watcher[w].configHash
          /\ UNCHANGED <<newConfig, mailbox>>
        BY <1>7 DEF WatcherChanged, TypeOK, WatcherState
    <2>2. Turns'
        BY <1>1, <1>2, <1>3, <2>1 DEF Turns, Active
    <2>3. Changes'
        BY <1>1, <1>2, <1>3, <2>1 DEF Changes, Active
    <2>4. Cache'
        BY <1>1, <1>4, <2>1 DEF Cache
    <2>5. Forward'
        BY <1>1, <1>2, <1>3, <2>1 DEF Forward, OnlyServedBodies
    <2>6. QED
        BY <2>2, <2>3, <2>4, <2>5
<1>8. CASE \/ WatcherPoll(w) \/ WatcherUnchanged(w) \/ WatcherError(w)
           \/ WatcherStop(w)
    <2>1. /\ watcher'[w].pc \in {"select", "request", "finished"}
          /\ UNCHANGED <<newConfig, mailbox>>
        BY <1>8 DEF WatcherPoll, WatcherUnchanged, WatcherError, WatcherStop,
           Finished, TypeOK, WatcherState
    <2>2. Turns'
        BY <1>1, <1>2, <1>3, <2>1 DEF Turns, Active
    <2>3. Changes'
        BY <1>1, <1>2, <1>3, <2>1 DEF Changes, Active
    <2>4. Cache'
        BY <1>1, <1>4, <2>1 DEF Cache
    <2>5. Forward'
        BY <1>1, <1>2, <2>1 DEF Forward
    <2>6. QED
        BY <2>2, <2>3, <2>4, <2>5
<1>9. QED
    BY <1>5, <1>6, <1>7, <1>8 DEF Watch

LEMMA InTurnInit == Init => InTurn
<1> SUFFICES ASSUME Init PROVE Turns /\ Changes /\ Cache /\ Forward
    BY DEF InTurn
<1>1. \A w \in Watchers : watcher[w].pc = "finished"
    BY DEF Init, Finished
<1>2. QED
    BY <1>1, UrlsAssumption DEF Init, Turns, Changes, Cache, Forward, Active

LEMMA InTurnStep ==
    ASSUME EventDriven, TypeOK, Shape, OnlyServedBodies, InTurn, [Next]_vars
    PROVE  InTurn'
<1>1. CASE GivenUp
    BY <1>1, GivenUpStays DEF InTurn
<1>2. CASE ~GivenUp
    <2>1. Turns /\ Changes /\ Cache /\ Forward
        BY <1>2 DEF InTurn
    <2>2. CASE \/ \E u \in Urls : RetrieveReject(u)
               \/ RetrieveError \/ RetrieveMalformed \/ Shutdown \/ MapFault
        BY <2>2 DEF RetrieveReject, RetrieveError, RetrieveMalformed, Shutdown,
           MapFault, GivenUp, InTurn
    <2>3. ~HostResolveAgain
        BY DEF HostResolveAgain, EventDriven
    <2>4. CASE \/ \E u \in Urls : Publish(u) \/ RetrieveBegin(u)
               \/ RetrieveCached \/ RetrieveRequest \/ RetrieveAnswer
               \/ HostCancel \/ UNCHANGED vars
        BY <2>1, <2>4, InTurnRequest DEF InTurn
    <2>5. CASE RetrieveReturn
        BY <2>1, <2>5, InTurnReturn DEF InTurn
    <2>6. CASE HostReload
        BY <2>1, <2>6, InTurnReload DEF InTurn
    <2>7. CASE \E w \in Watchers : Watch(w)
        BY <2>1, <2>7, InTurnWatch DEF InTurn
    <2>8. QED
        BY <2>2, <2>3, <2>4, <2>5, <2>6, <2>7 DEF Next, Retrieve, Host
<1>3. QED
    BY <1>1, <1>2

LEMMA AlwaysInTurn ==
    ASSUME EventDriven
    PROVE  Spec => [](TypeOK /\ Shape /\ OnlyServedBodies /\ InTurn)
<1>1. Init => OnlyServedBodies
    BY DEF Init, OnlyServedBodies, Finished
<1>2. /\ TypeOK /\ Shape /\ OnlyServedBodies /\ InTurn
      /\ [Next]_vars
      => InTurn'
    BY InTurnStep
<1>3. QED
    BY <1>1, <1>2, TypeInit, TypeStep, ServedStep, InTurnInit, PTL DEF Spec

(* However often the server goes back to an earlier body, and whatever     *)
(* fails meanwhile: an event in the mailbox of such a host announces a     *)
(* body with another digest than the one it runs.                          *)
THEOREM EventsAnnounceChanges ==
    ASSUME EventDriven
    PROVE  Spec => []NoSpuriousReload
<1>1. Shape /\ InTurn => NoSpuriousReload
  <2> SUFFICES ASSUME InTurn, hpc = "serving", mailbox > 0
               PROVE  \E u \in Urls : Differs(u)
      BY DEF NoSpuriousReload, Differs
  <2>1. Turns /\ Changes
      BY DEF InTurn, GivenUp
  <2>2. QED
      BY <2>1, UrlsAssumption DEF Turns, Changes
<1>2. QED
    BY <1>1, AlwaysInTurn, PTL

(* A reload finds the body of the polled URL in the cache and sends its    *)
(* server no request.                                                      *)
THEOREM ReloadsAskNoServer ==
    ASSUME EventDriven
    PROVE  Spec => ReloadsUseCache
<1>1. Shape /\ InTurn => ~(reloaded /\ retrieving \in Polled /\ hpc = "request")
    BY UrlsAssumption DEF InTurn, GivenUp, Cache, Shape
<1>2. Shape /\ InTurn /\ [Next]_vars
      => [reloaded /\ retrieving \in Polled => hpc' # "request"]_vars
  <2> SUFFICES ASSUME Shape, InTurn, Next, reloaded, retrieving \in Polled
               PROVE  hpc' # "request"
      BY DEF vars
  <2>1. ~RetrieveRequest
      BY UrlsAssumption DEF RetrieveRequest, InTurn, GivenUp, Cache, Shape
  <2>2. CASE hpc' \in {hpc, "resolving", "lookup", "start", "serving", "failed", "stopped", "crashed"}
      BY <1>1, <2>2
  <2>3. ASSUME NEW w \in Watchers, Watch(w) PROVE hpc' = hpc
      BY <2>3 DEF Watch, WatcherPoll, WatcherUnchanged, WatcherChanged, WatcherError,
         WatcherStore, WatcherNotify, WatcherStop
  <2>4. QED
      BY <2>1, <2>2, <2>3 DEF Next, Publish, Retrieve, RetrieveReject, RetrieveBegin,
         RetrieveCached, RetrieveAnswer, RetrieveError, RetrieveReturn,
         RetrieveMalformed, Host, HostReload, HostResolveAgain, HostCancel,
         Shutdown, MapFault
<1>3. QED
    BY <1>2, AlwaysInTurn, PTL DEF Spec, ReloadsUseCache

LEMMA OrderedStep ==
    ASSUME EventDriven, TypeOK, Shape, OnlyServedBodies, InTurn, [Next]_vars
    PROVE  [Ordered!FeedNext]_(Ordered!feedVars)
<1> SUFFICES \/ Ordered!FeedNext
             \/ UNCHANGED <<served, running, HostHalted>>
    BY DEF Ordered!feedVars
<1> USE DEF maps, signals, call, progress
<1>1. ASSUME NEW u \in Urls, Publish(u) PROVE Ordered!FeedPublish(u)
    BY <1>1 DEF Publish, Ordered!FeedPublish, HostHalted
<1>2. CASE RetrieveReturn
    <2>1. retrieving \in Urls /\ body \in Versions /\ body <= served[retrieving]
        BY <1>2 DEF RetrieveReturn, Shape, TypeOK, OnlyServedBodies
    <2>2. HostHalted' = HostHalted
        BY <1>2 DEF RetrieveReturn, HostHalted
    <2>3. running[retrieving] # None => running[retrieving] <= body
        BY <1>2 DEF RetrieveReturn, InTurn, GivenUp, Forward
    <2>4. Ordered!Adopt(retrieving, body)
        BY <1>2, <2>1, <2>2, <2>3 DEF RetrieveReturn, Ordered!Adopt
    <2>5. QED
        BY <2>1, <2>4 DEF Ordered!FeedNext, Versions
<1>3. CASE UNCHANGED <<served, running>>
    <2>1. HostHalted => HostHalted'
        <3>1. ctxDone => ctxDone'
            <4>1. ASSUME NEW w \in Watchers, Watch(w) PROVE ctxDone' = ctxDone
                BY <4>1, WatchStep
            <4>2. QED
                BY <4>1 DEF Next, vars, Publish, Retrieve, RetrieveReject,
                   RetrieveBegin, RetrieveCached, RetrieveRequest, RetrieveAnswer,
                   RetrieveError, RetrieveReturn, RetrieveMalformed, Host,
                   HostReload, HostResolveAgain, HostCancel, Shutdown, MapFault
        <3>2. QED
            BY <3>1, GivenUpStays DEF HostHalted, GivenUp
    <2>2. CASE HostHalted' /\ ~HostHalted
        BY <1>3, <2>2 DEF Ordered!FeedNext, Ordered!Halt, HostHalted
    <2>3. CASE HostHalted' = HostHalted
        BY <1>3, <2>3
    <2>4. QED
        BY <2>1, <2>2, <2>3 DEF HostHalted
<1>4. ASSUME NEW w \in Watchers, Watch(w) PROVE UNCHANGED <<served, running>>
    BY <1>4, WatchStep
<1>5. QED
    BY <1>1, <1>2, <1>3, <1>4 DEF Next, vars, Retrieve, RetrieveReject,
       RetrieveBegin, RetrieveCached, RetrieveRequest, RetrieveAnswer,
       RetrieveError, RetrieveMalformed, Host, HostReload, HostResolveAgain,
       HostCancel, Shutdown, MapFault, Ordered!FeedNext

(* Such a host never goes back to a body older than the one it runs, and   *)
(* is never given one of another URL; once it has given up it stays so.    *)
(* This is the feed of run EECSingle up to its fairness.                   *)
THEOREM ImplementsOrderedFeed ==
    ASSUME EventDriven
    PROVE  Spec => Ordered!FeedSafety
<1>1. Init => Ordered!FeedInit
    BY DEF Init, Ordered!FeedInit, HostHalted
<1>2. /\ TypeOK /\ Shape /\ OnlyServedBodies /\ InTurn
      /\ [Next]_vars
      => [Ordered!FeedNext]_(Ordered!feedVars)
    BY OrderedStep
<1>3. QED
    BY <1>1, <1>2, AlwaysInTurn, PTL DEF Spec, Ordered!FeedSafety
================================================================================
