---------------------------- MODULE ConfigReload ----------------------------
(***************************************************************************)
(* Configuration distribution on one node: the sidecar that polls the      *)
(* control plane and replaces a file, the watch thread of every NGINX      *)
(* worker that reloads it, and the requests that read the two cells the    *)
(* watch thread swaps one after the other, GLOBAL_ROUTER and               *)
(* GLOBAL_CONFIG.                                                          *)
(*                                                                         *)
(* A configuration is named by its version.  The target file is the        *)
(* sequence of everything renamed onto it: the file is the last entry, and *)
(* the index of an entry stands for its modification time, which grows     *)
(* with every write as long as the clock does.  A cell of a worker holds   *)
(* the index of the entry it was made from, 0 being what the process       *)
(* starts with.  The secrets, origins and addresses that the environment   *)
(* lays over a configuration are constant in a process and left out.       *)
(***************************************************************************)
EXTENDS Naturals, SequencesExt

CONSTANTS
  Workers,     \* NGINX workers
  Traffic,     \* bound: the workers that requests are sent to
  Versions,    \* configurations the control plane may serve
  Usable,      \* the ones that deserialize into a GatewayConfig
  Config,      \* Config[v]: routes and services of a usable version
  V0,          \* the version string of the built-in default; a published
               \* configuration may carry it too
  Paths,       \* request paths, sequences of segments
  Names,       \* service names
  Regions,     \* regions other than the wildcard
  Global,      \* the wildcard region
  NodeRegion,  \* GATEWAY_REGION of this node
  DefaultPool, \* the pool a wildcard node uses for anonymous requests
  None,        \* no version, no service, no identity, no content
  MaxPublish,  \* bound: publications of the control plane
  MaxFaults    \* bound: failed polls, reads, writes and renames, and crashes

\* A route of the configuration, reduced to what selects a service.
Route == [path_prefix : Seq(UNION {{p[i] : i \in DOMAIN p} : p \in Paths}),
          service_name : Names]

\* The parts of a configuration that routing reads.
GatewayConfig == [routes : Seq(Route), services : SUBSET Names]

ASSUME ConfigAssumption ==
  /\ Traffic \subseteq Workers
  /\ Usable \subseteq Versions
  /\ None \notin Versions \cup Names \cup Regions \cup {Global}
  /\ \A v \in Usable : Config[v] \in GatewayConfig
  /\ NodeRegion \in Regions \cup {Global}
  /\ DefaultPool \in Regions
  /\ Global \notin Regions
  /\ MaxPublish \in Nat
  /\ MaxFaults \in Nat

VARIABLES
  published,   \* the version the control plane serves, None without one
  publishes,   \* publications so far
  faults,      \* failures and crashes so far
  sidecar,     \* [pc, current, polled]
  temp,        \* content of the temporary file
  files,       \* everything renamed onto the target file
  cfg,         \* per worker, GLOBAL_CONFIG
  router,      \* per worker, GLOBAL_ROUTER
  watch,       \* per worker, the watch thread: [pc, stat, read, last]
  req          \* per worker, the request in process_request

vars == <<published, publishes, faults, sidecar, temp, files,
          cfg, router, watch, req>>

plane == <<published, publishes>>
disk == <<temp, files>>
cells == <<cfg, router>>

Partial == "partial"    \* a file that fs::write did not finish

IdleWatch == [pc |-> "stat", stat |-> 0, read |-> 0, last |-> 0]
NoRequest == [path |-> None, conf |-> 0, router |-> 0, status |-> 0]

Init ==
  /\ published = None
  /\ publishes = 0
  /\ faults = 0
  /\ sidecar = [pc |-> "poll", current |-> None, polled |-> None]
  /\ temp = None
  /\ files = <<>>
  /\ cfg = [w \in Workers |-> 0]
  /\ router = [w \in Workers |-> 0]
  /\ watch = [w \in Workers |-> IdleWatch]
  /\ req = [w \in Workers |-> NoRequest]

\* One more failure, while the bound allows it.
Fault ==
  /\ faults < MaxFaults
  /\ faults' = faults + 1

(***************************************************************************)
(* Control plane (external): it may also come to answer without a version. *)
(***************************************************************************)
Publish(v) ==
  /\ publishes < MaxPublish
  /\ v # published
  /\ published' = v
  /\ publishes' = publishes + 1
  /\ UNCHANGED <<faults, sidecar, disk, cells, watch, req>>

(***************************************************************************)
(* Sidecar.                                                                *)
(***************************************************************************)
\* Mutant of should_update_config: an answer without a version is one too.
should_update_configEmpty(current, new) == new # current

should_update_config(current, new) == new # None /\ new # current

\* A poll that found a version to write.  Any other answer, an error, a body
\* that is no JSON, no version or the current one, leaves the loop where it is.
Poll ==
  /\ sidecar.pc = "poll"
  /\ should_update_config(sidecar.current, published)
  /\ sidecar' = [sidecar EXCEPT !.pc = "write", !.polled = published]
  /\ UNCHANGED <<plane, faults, disk, cells, watch, req>>

\* Mutant of Write: the target file is written in place.
WriteInPlace ==
  /\ sidecar.pc = "write"
  /\ temp' = sidecar.polled
  /\ files' = Append(files, Partial)
  /\ sidecar' = [sidecar EXCEPT !.pc = "rename"]
  /\ UNCHANGED <<plane, faults, cells, watch, req>>

\* fs::write to the temporary file; on an error the file is left unfinished
\* and the next poll tries again, since current is not moved.
Write ==
  /\ sidecar.pc = "write"
  /\ \/ /\ temp' = sidecar.polled
        /\ sidecar' = [sidecar EXCEPT !.pc = "rename"]
        /\ UNCHANGED faults
     \/ /\ Fault
        /\ temp' = Partial
        /\ sidecar' = [sidecar EXCEPT !.pc = "poll", !.polled = None]
  /\ UNCHANGED <<plane, files, cells, watch, req>>

\* fs::rename onto the target; only a success moves current.
Rename ==
  /\ sidecar.pc = "rename"
  /\ \/ /\ files' = Append(files, temp)
        /\ temp' = None
        /\ sidecar' = [sidecar EXCEPT !.pc = "poll", !.current = sidecar.polled, !.polled = None]
        /\ UNCHANGED faults
     \/ /\ Fault
        /\ sidecar' = [sidecar EXCEPT !.pc = "poll", !.polled = None]
        /\ UNCHANGED disk
  /\ UNCHANGED <<plane, cells, watch, req>>

\* The sidecar dies anywhere, in fs::write too, and is started again: it has
\* forgotten what it wrote and writes the published version once more.
SidecarRestart ==
  /\ Fault
  /\ temp' \in IF sidecar.pc = "write" THEN {temp, Partial} ELSE {temp}
  /\ sidecar' = [pc |-> "poll", current |-> None, polled |-> None]
  /\ UNCHANGED <<plane, files, cells, watch, req>>

(***************************************************************************)
(* The watch thread of a worker: try_reload_config once a second.          *)
(***************************************************************************)

\* The file exists and is newer than the last one applied.
WatchStat(w) ==
  /\ watch[w].pc = "stat"
  /\ Len(files) > watch[w].last
  /\ watch' = [watch EXCEPT ![w].pc = "read", ![w].stat = Len(files)]
  /\ UNCHANGED <<plane, faults, sidecar, disk, cells, req>>

\* The content is read after the stat, maybe of a later file.  What does not
\* parse is dropped with last unmoved, so it is read again a second later.
WatchRead(w) ==
  /\ watch[w].pc = "read"
  /\ \/ /\ Last(files) \in Usable
        /\ watch' = [watch EXCEPT ![w].pc = "router", ![w].read = Len(files)]
        /\ UNCHANGED faults
     \/ /\ Last(files) \notin Usable
        /\ watch' = [watch EXCEPT ![w].pc = "stat", ![w].stat = 0]
        /\ UNCHANGED faults
     \/ /\ Fault
        /\ watch' = [watch EXCEPT ![w].pc = "stat", ![w].stat = 0]
  /\ UNCHANGED <<plane, sidecar, disk, cells, req>>

\* update_router swaps GLOBAL_ROUTER.
WatchRouter(w) ==
  /\ watch[w].pc = "router"
  /\ router' = [router EXCEPT ![w] = watch[w].read]
  /\ watch' = [watch EXCEPT ![w].pc = "config"]
  /\ UNCHANGED <<plane, faults, sidecar, disk, cfg, req>>

\* Mutant of WatchConfig: the time is taken once the configuration is in place.
WatchConfigRestat(w) ==
  /\ watch[w].pc = "config"
  /\ cfg' = [cfg EXCEPT ![w] = watch[w].read]
  /\ watch' = [watch EXCEPT ![w] = [IdleWatch EXCEPT !.last = Len(files)]]
  /\ UNCHANGED <<plane, faults, sidecar, disk, router, req>>

\* GLOBAL_CONFIG is swapped and the stat'd time, not the time of what was
\* read, becomes the last one.
WatchConfig(w) ==
  /\ watch[w].pc = "config"
  /\ cfg' = [cfg EXCEPT ![w] = watch[w].read]
  /\ watch' = [watch EXCEPT ![w] = [IdleWatch EXCEPT !.last = watch[w].stat]]
  /\ UNCHANGED <<plane, faults, sidecar, disk, router, req>>

\* A worker dies and the master starts another one with the built-in default.
WorkerRestart(w) ==
  /\ Fault
  /\ cfg' = [cfg EXCEPT ![w] = 0]
  /\ router' = [router EXCEPT ![w] = 0]
  /\ watch' = [watch EXCEPT ![w] = IdleWatch]
  /\ req' = [req EXCEPT ![w] = NoRequest]
  /\ UNCHANGED <<plane, sidecar, disk>>

(***************************************************************************)
(* Requests.                                                               *)
(***************************************************************************)
Default == [routes |-> <<>>, services |-> {}]

\* What a cell made from the i-th file holds.
Loaded(i) == IF i = 0 THEN Default ELSE Config[files[i]]

\* Its version string.
version(i) == IF i = 0 THEN V0 ELSE files[i]

\* is_config_ready of a worker.
is_config_ready(w) == version(cfg[w]) # V0 /\ Loaded(cfg[w]).routes # <<>>

\* The routes of c that match a path, and the one the radix tree answers: the
\* longest prefix, of equal prefixes the one inserted first.
Matching(c, path) ==
  {i \in DOMAIN c.routes : IsPrefix(c.routes[i].path_prefix, path)}

Matched(c, path) ==
  CHOOSE i \in Matching(c, path) : \A j \in Matching(c, path) :
    LET len(k) == Len(c.routes[k].path_prefix)
    IN  len(i) > len(j) \/ (len(i) = len(j) /\ i <= j)

\* The service a router made of r names for the path, looked up among the
\* services of the configuration c.
find_service(c, r, path) ==
  IF Matching(r, path) = {} THEN None
  ELSE LET name == r.routes[Matched(r, path)].service_name
       IN  IF name \in c.services THEN name ELSE None

\* The region that serves an identity of home region h (None: anonymous).
Required(h) ==
  IF h # None THEN h ELSE IF NodeRegion = Global THEN DefaultPool ELSE NodeRegion

Allowed(h) ==
  \/ Required(h) = NodeRegion
  \/ NodeRegion = Global
  \/ Required(h) = Global

\* The status process_request gives after route_request; 200 goes on.
route_request(c, r, path, home) ==
  IF ~Allowed(home) THEN 403
  ELSE IF find_service(c, r, path) = None THEN 404 ELSE 200

\* A request reaches route_request, which loads the configuration.  (acquire
\* and validate_token loaded it before, for the limit and the keys alone.)  An
\* answered request makes room for the next one of the event loop.
LoadConfig(w) ==
  /\ req[w].path = None \/ req[w].status # 0
  /\ \E path \in Paths :
       req' = [req EXCEPT ![w] = [path |-> path, conf |-> cfg[w],
                                  router |-> 0, status |-> 0]]
  /\ UNCHANGED <<plane, faults, sidecar, disk, cells, watch>>

\* find_service loads the router after it, and the request is answered; its
\* home region, of any identity or of none, is looked at only here.
LoadRouter(w) ==
  /\ req[w].path # None /\ req[w].status = 0
  /\ \E home \in Regions \cup {Global, None} :
       req' = [req EXCEPT
                 ![w].router = router[w],
                 ![w].status = route_request(Loaded(req[w].conf),
                                 Loaded(router[w]), req[w].path, home)]
  /\ UNCHANGED <<plane, faults, sidecar, disk, cells, watch>>

SidecarStep == Poll \/ Write \/ Rename

\* Mutant of WatchStep: the configuration is swapped before the router.
WatchStepSwapped(w) ==
  \/ WatchStat(w) \/ WatchRead(w)
  \/ /\ watch[w].pc = "router"
     /\ cfg' = [cfg EXCEPT ![w] = watch[w].read]
     /\ watch' = [watch EXCEPT ![w].pc = "config"]
     /\ UNCHANGED <<plane, faults, sidecar, disk, router, req>>
  \/ /\ watch[w].pc = "config"
     /\ router' = [router EXCEPT ![w] = watch[w].read]
     /\ watch' = [watch EXCEPT ![w] = [IdleWatch EXCEPT !.last = watch[w].stat]]
     /\ UNCHANGED <<plane, faults, sidecar, disk, cfg, req>>

\* try_reload_config, a step at a time.
WatchStep(w) == WatchStat(w) \/ WatchRead(w) \/ WatchRouter(w) \/ WatchConfig(w)
RequestStep(w) == LoadConfig(w) \/ LoadRouter(w)

Next ==
  \/ \E v \in Versions \cup {None} : Publish(v)
  \/ SidecarStep
  \/ SidecarRestart
  \/ \E w \in Workers : WatchStep(w) \/ WorkerRestart(w)
  \/ \E w \in Traffic : RequestStep(w)

Spec == Init /\ [][Next]_vars

\* Both loops run for ever and every failure is followed by another try; the
\* failures themselves are bounded.
FairSpec ==
  /\ Spec
  /\ WF_vars(SidecarStep)
  /\ \A w \in Workers : WF_vars(WatchStep(w))

(***************************************************************************)
(* Properties.                                                             *)
(***************************************************************************)
Generation == {0} \cup {i \in DOMAIN files : files[i] \in Usable}

\* The variables hold what the code can put in them; in particular no file is
\* written without a version (should_update_config), and every cell was made
\* from a file that was there and parsed (try_reload_config).
TypeOK ==
  /\ published \in Versions \cup {None}
  /\ publishes \in 0..MaxPublish
  /\ faults \in 0..MaxFaults
  /\ sidecar \in [pc : {"poll", "write", "rename"},
                  current : Versions \cup {None}, polled : Versions \cup {None}]
  /\ temp \in Versions \cup {None, Partial}
  /\ files \in Seq(Versions \cup {Partial})
  /\ watch \in [Workers -> [pc : {"stat", "read", "router", "config"},
                            stat : Nat, read : Nat, last : Nat]]
  /\ cfg \in [Workers -> Generation]
  /\ router \in [Workers -> Generation]
  /\ req \in [Workers -> [path : Paths \cup {None}, conf : Generation,
                          router : Generation, status : {0, 200, 403, 404}]]

\* A request is answered 404 for a path that its configuration serves only
\* when a reload swapped the router between its two loads: once a worker has
\* adopted a configuration no route of it is missing, because update_router
\* runs before GLOBAL_CONFIG.store and route_request loads in the other order.
MissOnlyInReload ==
  \A w \in Workers :
    /\ req[w].status = 404
    /\ find_service(Loaded(req[w].conf), Loaded(req[w].conf), req[w].path) # None
    => req[w].router > req[w].conf

\* The node's configuration is a register: only complete files the sidecar
\* distributed are served, the unusable ones by nobody, and a worker goes back
\* to the default by a restart and to an older configuration never.
Register == INSTANCE ConfigRegister WITH history <- files, served <- cfg

RefinesRegister == Register!RegSpec

\* Once the control plane stays with a usable configuration every worker ends
\* up serving it for good, and says it is ready if there is a route to serve and
\* the version is not called "v0" as the default is, whatever failed on the way:
\* a poll, a write, a rename, a read, a restart, an unusable version in between,
\* or a file replaced between the stat and the read of a watch thread
\* (try_reload_config, is_config_ready).
Converges ==
  \A v \in Usable :
    <>[](published = v) =>
      <>[](\A w \in Workers :
             /\ cfg[w] # 0
             /\ files[cfg[w]] = v
             /\ router[w] = cfg[w]
             /\ v # V0 /\ Config[v].routes # <<>> => is_config_ready(w))
=============================================================================
