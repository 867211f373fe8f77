--------------------------- MODULE ScratchBuffers ---------------------------
(***************************************************************************)
(* The FFI boundary of one NGINX worker: gateway.lua allocates one set of  *)
(* output buffers per worker, process_request (lib.rs) fills some of them  *)
(* depending on how far the request gets, and access() copies them out     *)
(* after every call.  The worker serves request after request with the     *)
(* same buffers.  There is no yield between the call and the copies, so a  *)
(* request is one action.                                                  *)
(***************************************************************************)
EXTENDS Naturals

CONSTANTS
  Users,         \* user ids a valid token can carry
  Regions,       \* home regions and regional pools
  Upstreams,     \* upstream addresses
  Tiers,         \* timeout tiers of the routes
  Empty,         \* the empty string
  Clip,          \* Clip[s]: s cut to the length of its buffer
  MaxRequests    \* bound on the requests that get a fresh id

Strings == Users \cup Regions \cup Upstreams \cup Tiers \cup {Empty}

VARIABLES
  buf,       \* the scratch buffers
  counter,   \* REQUEST_COUNTER
  req,       \* what the last request really is, once validated and routed
  out        \* what access() did with it

vars == <<buf, counter, req, out>>

\* An anonymous request has user and home Empty; a token may lack a home.
RequestKind ==
  {k \in [user : Users \cup {Empty}, home : Regions \cup {Empty},
          region : Regions, upstream : Upstreams, tier : Tiers] :
     k.user = Empty => k.home = Empty}

\* ffi.new zero-fills; request id 0 stands for the empty buffer.
Init ==
  /\ buf = [reqId |-> 0, tier |-> Empty, region |-> Empty,
            upstream |-> Empty, user |-> Empty, home |-> Empty]
  /\ counter = 0
  /\ req \in RequestKind
  /\ out = [admitted |-> FALSE, seen |-> buf]

write_c_string(s) == Clip[s]

\* The copies access() makes when the call has returned.
Copy(admitted) == out' = [admitted |-> admitted, seen |-> buf']

NextId == counter' = counter + 1 /\ counter < MaxRequests

\* acquire() said no: process_request returns before it writes anything.
Overloaded(k) ==
  /\ req' = k
  /\ UNCHANGED <<buf, counter>>
  /\ Copy(FALSE)

\* WAF, residency, no service, shedding: only the request id was written.
RejectedEarly(k) ==
  /\ req' = k
  /\ NextId
  /\ buf' = [buf EXCEPT !.reqId = counter + 1]
  /\ Copy(FALSE)

\* Validation, authentication, rate limit, quota, no upstream: the tier too.
RejectedLate(k) ==
  /\ req' = k
  /\ NextId
  /\ buf' = [buf EXCEPT !.reqId = counter + 1,
                        !.tier = write_c_string(k.tier)]
  /\ Copy(FALSE)

\* 200: user and home are written only if the request has them.
Admitted(k) ==
  /\ req' = k
  /\ NextId
  /\ buf' = [buf EXCEPT
               !.reqId = counter + 1,
               !.tier = write_c_string(k.tier),
               !.region = write_c_string(k.region),
               !.upstream = write_c_string(k.upstream),
               !.user = IF k.user # Empty THEN write_c_string(k.user) ELSE @,
               !.home = IF k.home # Empty THEN write_c_string(k.home) ELSE @]
  /\ Copy(TRUE)

Next == \E k \in RequestKind :
          Overloaded(k) \/ RejectedEarly(k) \/ RejectedLate(k) \/ Admitted(k)

Spec == Init /\ [][Next]_vars

---------------------------------------------------------------------------
(* Properties *)

(***************************************************************************)
(* "Upstream only receives values the gateway sets after JWT validation"   *)
(* (gateway.lua:138-139): the X-User-Id and X-Home-Region an upstream sees *)
(* are the ones validated for this request, and none if there are none.    *)
(***************************************************************************)
OwnIdentity ==
  out.admitted => /\ out.seen.user = Clip[req.user]
                  /\ out.seen.home = Clip[req.home]

============================================================================
