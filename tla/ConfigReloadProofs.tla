------------------------- MODULE ConfigReloadProofs -------------------------
(***************************************************************************)
(* Configuration reload, for any number of workers, versions, paths,       *)
(* publications and failures: the variables keep their types, a route is   *)
(* missed only in a reload, and the file, the watch threads and the cells  *)
(* implement the register of ConfigRegister.                               *)
(*                                                                         *)
(* The refinement needs to know that what is renamed onto the file is what *)
(* was polled, and that a watch thread never holds a generation older than *)
(* the one its worker serves; the routing property that a request never    *)
(* holds a configuration newer than either cell.                           *)
(***************************************************************************)
EXTENDS ConfigReload, TLAPS

\* The sidecar writes a version it has polled and renames what it has written;
\* an unfinished temporary file is never renamed.
Written ==
  /\ sidecar.pc \in {"write", "rename"} => sidecar.polled \in Versions
  /\ sidecar.pc = "rename" => temp = sidecar.polled
  /\ files \in Seq(Versions)

\* The watch thread of w read a usable file, no older than what w serves, and
\* the router is ahead of the configuration only while the thread is between
\* the two swaps.
Watched(w) ==
  /\ watch[w].pc = "read" => Len(files) > 0
  /\ watch[w].pc \in {"router", "config"} =>
       watch[w].read \in Generation /\ cfg[w] <= watch[w].read
  /\ router[w] = IF watch[w].pc = "config" THEN watch[w].read ELSE cfg[w]

\* A request of w holds a configuration that w had adopted, and a 404 is the
\* answer of a router that was no older.
Routed(w) ==
  /\ req[w].conf <= cfg[w]
  /\ req[w].status = 404 =>
       /\ req[w].conf <= req[w].router
       /\ find_service(Loaded(req[w].conf), Loaded(req[w].router), req[w].path) = None

IInv == TypeOK /\ Written /\ \A w \in Workers : Watched(w) /\ Routed(w)

\* Initially there is no file, and the workers serve the default.
LEMMA InitIInv == Init => IInv
<1> SUFFICES ASSUME Init PROVE IInv
  OBVIOUS
<1>1. TypeOK
  BY ConfigAssumption DEF Init, TypeOK, Generation, IdleWatch, NoRequest
<1>2. Written
  BY DEF Init, Written
<1>3. \A w \in Workers : Watched(w) /\ Routed(w)
  BY DEF Init, Watched, Routed, IdleWatch, NoRequest
<1> QED BY <1>1, <1>2, <1>3 DEF IInv

\* A generation stays one, with the same content, when a file is renamed onto
\* the target.
LEMMA GenerationsStay ==
  ASSUME Written, NEW v \in Versions, files' = Append(files, v)
  PROVE  /\ Generation \subseteq Generation'
         /\ \A i \in Generation : Loaded(i)' = Loaded(i)
BY DEF Written, Generation, Loaded

\* A generation is the default or the index of a file.
LEMMA GenerationNat == Written => Generation \subseteq 0..Len(files)
BY DEF Written, Generation

\* A step that leaves the cells, the watch threads, the requests and the files
\* alone keeps what is said of a worker.
LEMMA WorkersKept ==
  ASSUME UNCHANGED <<files, cfg, router, watch, req>>, NEW w \in Workers,
         Watched(w), Routed(w)
  PROVE  Watched(w)' /\ Routed(w)'
BY DEF Watched, Routed, Generation, Loaded

\* A new file leaves every worker where it was.
LEMMA RenameKept ==
  ASSUME IInv, NEW v \in Versions, files' = Append(files, v),
         UNCHANGED <<cfg, router, watch, req>>, NEW w \in Workers
  PROVE  Watched(w)' /\ Routed(w)'
<1> USE DEF IInv, TypeOK
<1>1. /\ Generation \subseteq Generation'
      /\ \A i \in Generation : Loaded(i)' = Loaded(i)
  BY GenerationsStay
<1>2. Watched(w)'
  BY <1>1 DEF Watched, Written
<1>3. /\ Loaded(req[w].conf)' = Loaded(req[w].conf)
      /\ Loaded(req[w].router)' = Loaded(req[w].router)
  BY <1>1
<1>4. Routed(w)'
  BY <1>3 DEF Routed
<1> QED BY <1>2, <1>4

\* The states of the sidecar, and the changes its loop makes to them.
SidecarStates ==
  [pc : {"poll", "write", "rename"},
   current : Versions \cup {None}, polled : Versions \cup {None}]

LEMMA SidecarMoves ==
  ASSUME NEW s \in SidecarStates
  PROVE  /\ [s EXCEPT !.pc = "rename"] \in SidecarStates
         /\ [s EXCEPT !.pc = "rename"].pc = "rename"
         /\ [s EXCEPT !.pc = "rename"].polled = s.polled
         /\ [s EXCEPT !.pc = "poll", !.polled = None] \in SidecarStates
         /\ [s EXCEPT !.pc = "poll", !.polled = None].pc = "poll"
BY DEF SidecarStates

\* The part of TypeOK about the control plane, the sidecar and its file.
NodeTyped ==
  /\ published \in Versions \cup {None}
  /\ publishes \in 0..MaxPublish
  /\ faults \in 0..MaxFaults
  /\ sidecar \in SidecarStates
  /\ temp \in Versions \cup {None, Partial}

\* A step outside the workers keeps the invariant when it leaves the file
\* alone, or renames a version onto it.
LEMMA OutsideKept ==
  ASSUME IInv, NodeTyped', Written', UNCHANGED <<cfg, router, watch, req>>,
         files' = files \/ \E v \in Versions : files' = Append(files, v)
  PROVE  IInv'
<1>1. Generation \subseteq Generation'
  BY GenerationsStay DEF IInv, Generation
<1>2. TypeOK'
  BY <1>1 DEF IInv, TypeOK, NodeTyped, SidecarStates, Written
<1>3. \A w \in Workers : Watched(w)' /\ Routed(w)'
  BY WorkersKept, RenameKept DEF IInv
<1> QED BY <1>2, <1>3 DEF IInv

\* The control plane and the sidecar keep the invariant.
LEMMA SidecarKept ==
  ASSUME IInv,
         \/ \E v \in Versions \cup {None} : Publish(v)
         \/ SidecarStep
         \/ SidecarRestart
  PROVE  IInv'
<1> USE ConfigAssumption DEF plane, disk, cells
<1>1. NodeTyped /\ Written
  BY DEF IInv, TypeOK, NodeTyped, SidecarStates
<1>2. ASSUME NEW v \in Versions \cup {None}, Publish(v) PROVE IInv'
  BY <1>1, <1>2, OutsideKept DEF Publish, NodeTyped, Written
<1>3. CASE Poll
  <2>1. published \in Versions
    BY <1>1, <1>3 DEF Poll, should_update_config, NodeTyped
  <2> QED BY <1>1, <1>3, <2>1, OutsideKept DEF Poll, NodeTyped, SidecarStates, Written
<1>4. CASE Write
  <2>1. sidecar.polled \in Versions
    BY <1>1, <1>4 DEF Write, Written
  <2>2. NodeTyped'
    <3>1. faults' \in 0..MaxFaults /\ UNCHANGED plane
      BY <1>1, <1>4 DEF Write, Fault, NodeTyped
    <3>2. temp' \in {sidecar.polled, Partial} /\ sidecar' \in SidecarStates
      BY <1>1, <1>4, SidecarMoves DEF Write, NodeTyped
    <3> QED BY <1>1, <2>1, <3>1, <3>2 DEF NodeTyped
  <2>3. Written'
    BY <1>1, <1>4, <2>1, SidecarMoves DEF Write, NodeTyped, Written
  <2> QED BY <1>4, <2>2, <2>3, OutsideKept DEF Write
<1>5. CASE Rename
  <2>1. temp \in Versions /\ sidecar.polled \in Versions
    BY <1>1, <1>5 DEF Rename, Written
  <2>2. sidecar' \in SidecarStates /\ sidecar'.pc = "poll"
    BY <1>1, <1>5, <2>1 DEF Rename, NodeTyped, SidecarStates
  <2>3. files' = files \/ files' = Append(files, temp)
    BY <1>5 DEF Rename
  <2>4. NodeTyped'
    <3>1. faults' \in 0..MaxFaults /\ UNCHANGED plane
      BY <1>1, <1>5 DEF Rename, Fault, NodeTyped
    <3>2. temp' \in {temp, None}
      BY <1>5 DEF Rename
    <3> QED BY <1>1, <2>2, <3>1, <3>2 DEF NodeTyped
  <2>5. Written'
    BY <1>1, <2>1, <2>2, <2>3 DEF Written
  <2> QED BY <1>5, <2>1, <2>3, <2>4, <2>5, OutsideKept DEF Rename
<1>6. CASE SidecarRestart
  BY <1>1, <1>6, OutsideKept DEF SidecarRestart, Fault, NodeTyped, SidecarStates, Written
<1> QED BY <1>2, <1>3, <1>4, <1>5, <1>6 DEF SidecarStep

\* A step of the watch thread or of a request of worker w says nothing of the
\* other workers.
LEMMA OthersKept ==
  ASSUME IInv, NEW w \in Workers, NEW u \in Workers, u # w,
         UNCHANGED files,
         cfg'[u] = cfg[u], router'[u] = router[u],
         watch'[u] = watch[u], req'[u] = req[u]
  PROVE  Watched(u)' /\ Routed(u)'
<1>1. Watched(u) /\ Routed(u)
  BY DEF IInv
<1> QED BY <1>1 DEF Watched, Routed, Generation, Loaded

\* The states of a watch thread.
WatchStates ==
  [pc : {"stat", "read", "router", "config"}, stat : Nat, read : Nat, last : Nat]

\* try_reload_config keeps the invariant.
LEMMA WatchKept == ASSUME IInv, NEW w \in Workers, WatchStep(w) PROVE IInv'
<1> USE ConfigAssumption DEF plane, disk, cells
<1>1. UNCHANGED <<published, publishes, sidecar, temp, files, req>>
  BY DEF WatchStep, WatchStat, WatchRead, WatchRouter, WatchConfig
<1>2. Written' /\ Generation' = Generation
  BY <1>1 DEF IInv, Written, Generation
<1>3. Generation \subseteq Nat /\ Watched(w) /\ Routed(w) /\ Len(files) \in Nat
  BY GenerationNat DEF IInv, Written
<1>4. /\ Len(files) > 0 /\ Last(files) \in Usable => Len(files) \in Generation
      /\ \A g \in Generation : g <= Len(files)
  BY GenerationNat DEF IInv, Written, Generation, Last
<1>5. /\ watch \in [Workers -> WatchStates]
      /\ cfg \in [Workers -> Generation] /\ router \in [Workers -> Generation]
      /\ faults \in 0..MaxFaults
  BY DEF IInv, TypeOK, WatchStates
<1>6. /\ faults' \in 0..MaxFaults
      /\ cfg' \in [Workers -> Generation] /\ router' \in [Workers -> Generation]
      /\ cfg[w] <= cfg'[w]
  <2>1. cfg[w] \in Nat
    BY <1>3, <1>5
  <2>2. CASE WatchStat(w)
    BY <1>5, <2>1, <2>2 DEF WatchStat
  <2>3. CASE WatchRead(w)
    BY <1>5, <2>1, <2>3 DEF WatchRead, Fault
  <2>4. CASE WatchRouter(w)
    BY <1>3, <1>5, <2>1, <2>4 DEF WatchRouter, Watched
  <2>5. CASE WatchConfig(w)
    BY <1>3, <1>5, <2>5 DEF WatchConfig, Watched
  <2> QED BY <2>2, <2>3, <2>4, <2>5 DEF WatchStep
<1>7. watch' \in [Workers -> WatchStates] /\ Watched(w)'
  <2>1. CASE WatchStat(w)
    <3>1. watch' \in [Workers -> WatchStates] /\ watch'[w].pc = "read"
      BY <1>3, <1>5, <2>1 DEF WatchStat, WatchStates
    <3> QED BY <1>1, <1>2, <1>3, <1>5, <2>1, <3>1 DEF WatchStat, Watched, WatchStates
  <2>2. CASE WatchRead(w)
    <3>1. CASE /\ Last(files) \in Usable
               /\ watch' = [watch EXCEPT ![w].pc = "router", ![w].read = Len(files)]
      <4>1. watch' \in [Workers -> WatchStates]
        BY <1>3, <1>5, <3>1 DEF WatchStates
      <4>2. watch'[w].pc = "router" /\ watch'[w].read = Len(files)
        BY <1>3, <1>5, <3>1 DEF WatchStates
      <4>3. watch[w].pc = "read" /\ Last(files) \in Usable /\ UNCHANGED cells
        BY <2>2, <3>1 DEF WatchRead
      <4> QED
        BY <1>2, <1>3, <1>4, <1>5, <4>1, <4>2, <4>3 DEF Watched
    <3>2. CASE watch' = [watch EXCEPT ![w].pc = "stat", ![w].stat = 0]
      <4>1. watch' \in [Workers -> WatchStates] /\ watch'[w].pc = "stat"
        BY <1>5, <3>2 DEF WatchStates
      <4>2. watch[w].pc = "read" /\ UNCHANGED cells
        BY <2>2 DEF WatchRead
      <4> QED BY <1>2, <1>3, <4>1, <4>2 DEF Watched
    <3> QED BY <2>2, <3>1, <3>2 DEF WatchRead
  <2>3. CASE WatchRouter(w)
    BY <1>1, <1>2, <1>3, <1>5, <2>3 DEF WatchRouter, Watched, WatchStates
  <2>4. CASE WatchConfig(w)
    BY <1>1, <1>2, <1>3, <1>5, <2>4 DEF WatchConfig, Watched, WatchStates, IdleWatch
  <2> QED BY <2>1, <2>2, <2>3, <2>4 DEF WatchStep
<1>8. TypeOK'
  BY <1>1, <1>2, <1>6, <1>7 DEF IInv, TypeOK, WatchStates
<1>9. Routed(w)'
  <2>1. req[w].conf \in Nat /\ cfg[w] \in Nat /\ cfg'[w] \in Nat
    <3>1. req[w].conf \in Generation
      BY DEF IInv, TypeOK
    <3> QED BY <1>3, <1>5, <1>6, <3>1
  <2>2. req[w].conf <= cfg'[w]
    BY <1>3, <1>6, <2>1 DEF Routed
  <2> QED BY <1>1, <1>3, <2>2 DEF Routed, Loaded
<1>10. \A u \in Workers \ {w} : Watched(u)' /\ Routed(u)'
  <2>1. \A u \in Workers \ {w} : /\ cfg'[u] = cfg[u] /\ router'[u] = router[u]
                                 /\ watch'[u] = watch[u]
    BY <1>5 DEF WatchStep, WatchStat, WatchRead, WatchRouter, WatchConfig
  <2> QED BY <1>1, <2>1, OthersKept
<1> QED BY <1>2, <1>7, <1>8, <1>9, <1>10 DEF IInv

\* A worker's restart takes it back to the default, its request with it.
LEMMA RestartKept == ASSUME IInv, NEW w \in Workers, WorkerRestart(w) PROVE IInv'
<1> USE ConfigAssumption DEF plane, disk
<1>1. UNCHANGED <<published, publishes, sidecar, temp, files>>
  BY DEF WorkerRestart
<1>2. Written' /\ Generation' = Generation /\ 0 \in Generation
  BY <1>1 DEF IInv, Written, Generation
<1>3. TypeOK'
  <2>1. /\ faults' \in 0..MaxFaults
        /\ cfg' \in [Workers -> Generation] /\ router' \in [Workers -> Generation]
    BY <1>2 DEF IInv, TypeOK, WorkerRestart, Fault
  <2>2. watch' \in [Workers -> WatchStates]
    BY DEF IInv, TypeOK, WorkerRestart, WatchStates, IdleWatch
  <2>3. req' \in [Workers -> [path : Paths \cup {None}, conf : Generation,
                              router : Generation, status : {0, 200, 403, 404}]]
    BY <1>2 DEF IInv, TypeOK, WorkerRestart, NoRequest
  <2> QED BY <1>1, <1>2, <2>1, <2>2, <2>3 DEF IInv, TypeOK, WatchStates
<1>4. Watched(w)' /\ Routed(w)'
  <2>1. /\ watch'[w] = IdleWatch /\ cfg'[w] = 0 /\ router'[w] = 0
        /\ req'[w] = NoRequest
    BY DEF IInv, TypeOK, WorkerRestart
  <2> QED BY <2>1 DEF Watched, Routed, IdleWatch, NoRequest
<1>5. \A u \in Workers \ {w} : Watched(u)' /\ Routed(u)'
  <2>1. \A u \in Workers \ {w} : /\ cfg'[u] = cfg[u] /\ router'[u] = router[u]
                                 /\ watch'[u] = watch[u] /\ req'[u] = req[u]
    BY DEF IInv, TypeOK, WorkerRestart
  <2> QED BY <1>1, <2>1, OthersKept
<1> QED BY <1>2, <1>3, <1>4, <1>5 DEF IInv

\* The states of a request.
RequestStates ==
  [path : Paths \cup {None}, conf : Generation, router : Generation,
   status : {0, 200, 403, 404}]

\* A request loads the configuration its worker serves, then a router that is
\* no older.
LEMMA RequestKept == ASSUME IInv, NEW w \in Workers, RequestStep(w) PROVE IInv'
<1> USE DEF plane, disk, cells
<1>1. UNCHANGED <<published, publishes, faults, sidecar, temp, files, cfg, router, watch>>
  BY DEF RequestStep, LoadConfig, LoadRouter
<1>2. Written' /\ Generation' = Generation /\ \A i : Loaded(i)' = Loaded(i)
  BY <1>1 DEF IInv, Written, Generation, Loaded
<1>3. /\ Generation \subseteq Nat /\ 0 \in Generation
      /\ cfg[w] \in Generation /\ router[w] \in Generation
      /\ req \in [Workers -> RequestStates]
  BY GenerationNat DEF IInv, TypeOK, Generation, RequestStates
<1>4. cfg[w] <= router[w] /\ cfg[w] \in Nat /\ router[w] \in Nat
  <2>1. Watched(w) /\ watch[w].pc \in {"stat", "read", "router", "config"}
    BY DEF IInv, TypeOK
  <2>2. cfg[w] \in Nat /\ router[w] \in Nat
    BY <1>3
  <2>3. router[w] = cfg[w] \/ cfg[w] <= router[w]
    BY <2>1 DEF Watched
  <2> QED BY <2>2, <2>3
<1>5. PICK r \in RequestStates :
         /\ req' = [req EXCEPT ![w] = r]
         /\ r.conf <= cfg[w]
         /\ r.status = 404 =>
              /\ r.conf <= r.router
              /\ find_service(Loaded(r.conf), Loaded(r.router), r.path) = None
  <2>1. CASE LoadConfig(w)
    <3>1. PICK path \in Paths :
            req' = [req EXCEPT ![w] = [path |-> path, conf |-> cfg[w],
                                       router |-> 0, status |-> 0]]
      BY <2>1 DEF LoadConfig
    <3> DEFINE q == [path |-> path, conf |-> cfg[w], router |-> 0, status |-> 0]
    <3>2. q.conf = cfg[w] /\ q.status = 0
      OBVIOUS
    <3> q \in RequestStates
      BY <1>3 DEF RequestStates
    <3>3. req' = [req EXCEPT ![w] = q]
      BY <3>1
    <3> HIDE DEF q
    <3> WITNESS q \in RequestStates
    <3> QED BY <1>4, <3>2, <3>3
  <2>2. CASE LoadRouter(w)
    <3>1. PICK home \in Regions \cup {Global, None} :
            req' = [req EXCEPT
                      ![w].router = router[w],
                      ![w].status = route_request(Loaded(req[w].conf),
                                      Loaded(router[w]), req[w].path, home)]
      BY <2>2 DEF LoadRouter
    <3> DEFINE status == route_request(Loaded(req[w].conf), Loaded(router[w]),
                                       req[w].path, home)
               q == [req[w] EXCEPT !.router = router[w], !.status = status]
    <3>2. /\ status \in {200, 403, 404}
          /\ status = 404 =>
               find_service(Loaded(req[w].conf), Loaded(router[w]), req[w].path) = None
      BY DEF route_request
    <3>3. req[w].conf \in Nat /\ cfg[w] \in Nat /\ router[w] \in Nat /\ req[w].conf <= cfg[w]
      <4>1. req[w].conf \in Generation /\ Routed(w)
        BY <1>3 DEF IInv, RequestStates
      <4> QED BY <1>3, <1>4, <4>1 DEF Routed
    <3> HIDE DEF status
    <3>4. req' = [req EXCEPT ![w] = q]
      BY <1>3, <3>1 DEF status
    <3>5. req[w] \in RequestStates /\ router[w] \in Generation
      BY <1>3
    <3> q \in RequestStates
      BY <3>2, <3>5 DEF RequestStates
    <3>6. /\ q.conf = req[w].conf /\ q.router = router[w]
          /\ q.path = req[w].path /\ q.status = status
      BY <3>5 DEF RequestStates
    <3> HIDE DEF q
    <3> WITNESS q \in RequestStates
    <3> QED BY <1>4, <3>2, <3>3, <3>4, <3>6
  <2> QED BY <2>1, <2>2 DEF RequestStep
<1>6. TypeOK'
  <2>1. req' \in [Workers -> RequestStates]
    BY <1>3, <1>5
  <2> QED BY <1>1, <1>2, <2>1 DEF IInv, TypeOK, RequestStates
<1>7. Watched(w)' /\ Routed(w)'
  <2>1. req'[w] = r
    BY <1>3, <1>5
  <2>2. Watched(w)'
    BY <1>1, <1>2 DEF IInv, Watched
  <2> QED BY <1>1, <1>2, <1>5, <2>1, <2>2 DEF Routed
<1>8. \A u \in Workers \ {w} : Watched(u)' /\ Routed(u)'
  <2>1. \A u \in Workers \ {w} : req'[u] = req[u]
    BY <1>3, <1>5
  <2> QED BY <1>1, <2>1, OthersKept
<1> QED BY <1>2, <1>6, <1>7, <1>8 DEF IInv

\* The invariant is inductive.
LEMMA NextIInv == IInv /\ [Next]_vars => IInv'
<1> SUFFICES ASSUME IInv, [Next]_vars PROVE IInv'
  OBVIOUS
<1>1. CASE UNCHANGED vars
  <2>1. UNCHANGED <<published, publishes, faults, sidecar, temp, files,
                    cfg, router, watch, req>>
    BY <1>1 DEF vars
  <2> QED BY <2>1, WorkersKept DEF IInv, TypeOK, Written, Generation
<1> QED
  BY <1>1, ConfigAssumption, SidecarKept, WatchKept, RestartKept, RequestKept DEF Next

(***************************************************************************)
(* The variables keep their types; in particular a worker never holds what *)
(* was not distributed or does not parse, in either cell or in a request   *)
(* (should_update_config, try_reload_config).                              *)
(***************************************************************************)
THEOREM ReloadTyped == Spec => []TypeOK
<1>1. IInv => TypeOK
  BY DEF IInv
<1> QED BY <1>1, InitIInv, NextIInv, PTL DEF Spec

(***************************************************************************)
(* A path that a request's configuration serves is answered 404 only when  *)
(* the router was swapped between the two loads of the request             *)
(* (update_router before GLOBAL_CONFIG.store, route_request the other way  *)
(* round).                                                                 *)
(***************************************************************************)
THEOREM RoutesKept == Spec => []MissOnlyInReload
<1>1. IInv => MissOnlyInReload
  <2> SUFFICES ASSUME IInv, NEW w \in Workers, req[w].status = 404,
                      find_service(Loaded(req[w].conf), Loaded(req[w].conf),
                                   req[w].path) # None
               PROVE  req[w].router > req[w].conf
    BY DEF MissOnlyInReload
  <2>1. req[w].conf <= req[w].router /\ req[w].conf # req[w].router
    BY DEF IInv, Routed
  <2>2. req[w].conf \in Nat /\ req[w].router \in Nat
    BY GenerationNat DEF IInv, TypeOK
  <2> QED BY <2>1, <2>2
<1> QED BY <1>1, InitIInv, NextIInv, PTL DEF Spec

\* A watch thread that stores the configuration adopts a later usable entry of
\* the register, or the one its worker has already: a file replaced between
\* the stat and the read is read twice.
LEMMA StoreAdopts ==
  ASSUME IInv, NEW w \in Workers, WatchConfig(w)
  PROVE  Register!RegNext \/ UNCHANGED Register!regVars
<1> DEFINE i == watch[w].read
<1>1. Watched(w) /\ watch[w].pc = "config" /\ cfg \in [Workers -> Generation]
  BY DEF IInv, TypeOK, WatchConfig
<1>2. i \in Generation /\ cfg[w] <= i /\ cfg[w] \in Nat /\ i \in Nat
  BY <1>1, GenerationNat DEF IInv, Watched
<1>3. files' = files /\ cfg' = [cfg EXCEPT ![w] = i]
  BY DEF WatchConfig, disk
<1>4. CASE i = cfg[w]
  BY <1>1, <1>3, <1>4 DEF Register!regVars
<1>5. CASE i > cfg[w]
  <2>1. i \in DOMAIN files /\ files[i] \in Usable
    BY <1>2, <1>5 DEF Generation
  <2>2. Register!Adopt(w, i)
    BY <1>3, <1>5, <2>1 DEF Register!Adopt
  <2> QED BY <2>1, <2>2 DEF Register!RegNext
<1> QED BY <1>2, <1>4, <1>5

\* Every step is a step of the register or leaves it alone.
LEMMA NextRefines ==
  IInv /\ [Next]_vars => [Register!RegNext]_(Register!regVars)
<1> SUFFICES ASSUME IInv, [Next]_vars
             PROVE  Register!RegNext \/ UNCHANGED Register!regVars
  OBVIOUS
<1> USE DEF plane, disk, cells
<1>1. CASE Rename
  <2>1. CASE UNCHANGED files
    BY <1>1, <2>1 DEF Rename, Register!regVars
  <2>2. CASE files' = Append(files, temp)
    <3>1. temp \in Versions /\ UNCHANGED cfg
      BY <1>1 DEF Rename, IInv, Written
    <3> QED BY <2>2, <3>1 DEF Register!RegNext, Register!Distribute
  <2> QED BY <1>1, <2>1, <2>2 DEF Rename
<1>2. ASSUME NEW w \in Workers, WatchConfig(w)
      PROVE  Register!RegNext \/ UNCHANGED Register!regVars
  BY <1>2, StoreAdopts
<1>3. ASSUME NEW w \in Workers, WorkerRestart(w) PROVE Register!RegNext
  BY <1>3 DEF WorkerRestart, Register!RegNext, Register!Restart
<1>4. CASE UNCHANGED vars
  BY <1>4 DEF vars, Register!regVars
<1>5. CASE \/ \E v \in Versions \cup {None} : Publish(v)
           \/ Poll \/ Write \/ SidecarRestart
           \/ \E w \in Workers : WatchStat(w) \/ WatchRead(w) \/ WatchRouter(w)
           \/ \E w \in Traffic : RequestStep(w)
  BY <1>5 DEF Publish, Poll, Write, SidecarRestart, WatchStat, WatchRead,
              WatchRouter, RequestStep, LoadConfig, LoadRouter, Register!regVars
<1> QED BY <1>1, <1>2, <1>3, <1>4, <1>5 DEF Next, SidecarStep, WatchStep

(***************************************************************************)
(* The sidecar, the file, the watch threads and the cells implement a      *)
(* register: only whole polled versions are distributed, only the usable   *)
(* ones are served, and a worker never goes back but by a restart.         *)
(***************************************************************************)
THEOREM ReloadRefines == Spec => RefinesRegister
<1>1. Init => Register!RegInit
  BY DEF Init, Register!RegInit
<1> QED
  BY <1>1, InitIInv, NextIInv, NextRefines, PTL
     DEF Spec, RefinesRegister, Register!RegSpec

=============================================================================
