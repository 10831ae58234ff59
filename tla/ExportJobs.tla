---------------------------- MODULE ExportJobs ----------------------------
(***************************************************************************)
(* Downloads of encrypted bundles: POST /api/exports/e2ee hands out a link *)
(* that works for TTL seconds, hands it out again to the same requester    *)
(* for Reuse seconds, and opens at most one job per tenant in Interval     *)
(* seconds.  Jobs and throttle live in the memory of SQLiteStore; exportMu *)
(* makes each call of the store one step, and nothing spans two of them.   *)
(*                                                                         *)
(* Time is counted in units of the model.  A request is served within      *)
(* Patience, which holds the clock back: the code has no such limit, and   *)
(* properties that need one say so.                                        *)
(***************************************************************************)
EXTENDS Integers, FiniteSets

CONSTANTS
    Tenant, Scale, Ip, Slot, NULL,
    Owner,              \* the tenant of each scale
    TTL, Reuse, Interval,
    Patience,           \* how long a request may take
    MaxTime             \* bound on the clock

ASSUME ExportAssumption ==
    /\ Owner \in [Scale -> Tenant]
    /\ {TTL, Reuse, Interval, Patience, MaxTime} \subseteq Nat
    /\ Reuse =< TTL /\ Interval > 0
    /\ NULL \notin Tenant \cup Scale \cup Ip \cup Nat

VARIABLES
    now,
    exportJobs,         \* SQLiteStore.exportJobs
    lastExport,         \* SQLiteStore.lastExport
    opened,             \* jobs since the server started: the id of the next
    pc, loc,            \* the next store call of each request, its variables
    links               \* links handed out since the server started

vars == <<now, exportJobs, lastExport, opened, pc, loc, links>>

Time == 0 .. MaxTime

Job == [id : Nat, tenant : Tenant, scale : Scale, ip : Ip,
        created : Time, expires : Nat]

Link == [id : Nat, tenant : Tenant, expires : Nat]

Label == {"idle", "find", "allow", "create", "answer"}

Local == [scale : Scale \cup {NULL}, ip : Ip \cup {NULL}, since : Time,
          job : Job \cup {NULL}]

Blank == [scale |-> NULL, ip |-> NULL, since |-> 0, job |-> NULL]

Init ==
    /\ now = 0 /\ exportJobs = {} /\ links = {} /\ opened = 0
    /\ lastExport = [t \in Tenant |-> NULL]
    /\ pc = [r \in Slot |-> "idle"] /\ loc = [r \in Slot |-> Blank]

Goto(r, label, local) ==
    /\ pc' = [pc EXCEPT ![r] = label]
    /\ loc' = [loc EXCEPT ![r] = local]

Finish(r) == Goto(r, "idle", Blank)

Tick ==
    /\ now < MaxTime
    /\ \A r \in Slot : pc[r] # "idle" => now - loc[r].since < Patience
    /\ now' = now + 1
    /\ UNCHANGED <<exportJobs, lastExport, opened, pc, loc, links>>

(* Mutant of Expired: nothing is ever cleaned up.                           *)
NeverExpired(job) == FALSE

(* Mutant of Expired: gone once it is too old to be handed out again.       *)
TooOld(job) == now - job.created > Reuse

Expired(job) == now > job.expires

(* RequestExport: the scale must be one of the tenant; what it asks of the  *)
(* store from here on is for the tenant of the scale.                       *)
RequestExport(r) ==
    /\ pc[r] = "idle"
    /\ \E s \in Scale, ip \in Ip :
        Goto(r, "find", [Blank EXCEPT !.scale = s, !.ip = ip, !.since = now])
    /\ UNCHANGED <<now, exportJobs, lastExport, opened, links>>

(* Mutant of Recent: whatever the age of the job.                           *)
AnyAge(job) == TRUE

Recent(job) == now - job.created =< Reuse

Requester(job) == <<job.tenant, job.scale, job.ip>>
Asks(r) == <<Owner[loc[r].scale], loc[r].scale, loc[r].ip>>

(* FindRecentExportJob walks the map in any order, deleting expired jobs    *)
(* until it meets one to hand out again.                                    *)
FindRecent(r) ==
    /\ pc[r] = "find"
    /\ \E job \in exportJobs, passed \in SUBSET exportJobs :
        /\ ~Expired(job) /\ Recent(job) /\ Requester(job) = Asks(r)
        /\ \A old \in passed : Expired(old)
        /\ exportJobs' = exportJobs \ passed
        /\ Goto(r, "answer", [loc[r] EXCEPT !.job = job])
    /\ UNCHANGED <<now, lastExport, opened, links>>

FindNone(r) ==
    /\ pc[r] = "find"
    /\ \A job \in exportJobs :
          ~Expired(job) /\ Recent(job) => Requester(job) # Asks(r)
    /\ exportJobs' = {job \in exportJobs : ~Expired(job)}
    /\ Goto(r, "allow", loc[r])
    /\ UNCHANGED <<now, lastExport, opened, links>>

(* Mutant of AllowExport: the time of the grant is not remembered.          *)
AllowAlways(r) ==
    /\ pc[r] = "allow"
    /\ Goto(r, "create", loc[r])
    /\ UNCHANGED <<now, exportJobs, lastExport, opened, links>>

AllowExport(r) ==
    /\ pc[r] = "allow"
    /\ LET t == Owner[loc[r].scale]
       IN  IF lastExport[t] # NULL /\ now - lastExport[t] < Interval
           THEN Finish(r) /\ UNCHANGED lastExport
           ELSE /\ lastExport' = [lastExport EXCEPT ![t] = now]
                /\ Goto(r, "create", loc[r])
    /\ UNCHANGED <<now, exportJobs, opened, links>>

(* Mutant of NewJob: the lifetime is that of the throttle.                  *)
ShortJob(r) ==
    [id |-> opened, tenant |-> Owner[loc[r].scale], scale |-> loc[r].scale,
     ip |-> loc[r].ip, created |-> now, expires |-> now + Interval]

NewJob(r) ==
    [id |-> opened, tenant |-> Owner[loc[r].scale], scale |-> loc[r].scale,
     ip |-> loc[r].ip, created |-> now, expires |-> now + TTL]

(* Expired jobs go when a job is opened, never before. *)
CreateExportJob(r) ==
    /\ pc[r] = "create"
    /\ exportJobs' = {job \in exportJobs : ~Expired(job)} \cup {NewJob(r)}
    /\ opened' = opened + 1
    /\ Goto(r, "answer", [loc[r] EXCEPT !.job = NewJob(r)])
    /\ UNCHANGED <<now, lastExport, links>>

Answer(r) ==
    /\ pc[r] = "answer"
    /\ LET job == loc[r].job
       IN  links' = links \cup {[id |-> job.id, tenant |-> job.tenant,
                                 expires |-> job.expires]}
    /\ Finish(r)
    /\ UNCHANGED <<now, exportJobs, lastExport, opened>>

(* Jobs, throttle and requests are in memory: a restart loses them, and the *)
(* links handed out before are dead.                                        *)
Restart ==
    /\ exportJobs' = {} /\ links' = {} /\ opened' = 0
    /\ lastExport' = [t \in Tenant |-> NULL]
    /\ pc' = [r \in Slot |-> "idle"] /\ loc' = [r \in Slot |-> Blank]
    /\ UNCHANGED now

Next ==
    \/ Tick \/ Restart
    \/ \E r \in Slot :
        \/ RequestExport(r) \/ FindRecent(r) \/ FindNone(r)
        \/ AllowExport(r) \/ CreateExportJob(r) \/ Answer(r)

Spec == Init /\ [][Next]_vars

-----------------------------------------------------------------------------
(* Jobs, links, throttle and requests have their types, a job the id of its *)
(* turn and its lifetime.                                                   *)
TypeOK ==
    /\ now \in Time /\ opened \in Nat
    /\ exportJobs \subseteq Job /\ links \subseteq Link
    /\ lastExport \in [Tenant -> Time \cup {NULL}]
    /\ \A job \in exportJobs : job.id < opened /\ job.expires = job.created + TTL
    /\ pc \in [Slot -> Label] /\ loc \in [Slot -> Local]

(* DownloadExport with the link of an answer: GetExportJob finds the job.   *)
Works(link) ==
    \E job \in exportJobs :
        /\ job.id = link.id /\ job.tenant = link.tenant
        /\ ~(now > job.expires)

(* A link works until the expires_at it was handed out with, whoever else   *)
(* asks, finds and cleans up, as long as the server runs.                   *)
LinkWorks == \A link \in links : now =< link.expires => Works(link)

(* A link is answered with at least the lifetime of a job less the time it  *)
(* may be handed out again, whichever request opened it.                    *)
LinkLasts ==
    \A r \in Slot :
        pc[r] = "answer" => loc[r].job.expires - now >= TTL - Reuse - Patience

(* The jobs kept in memory for a tenant are bounded by what the throttle    *)
(* lets through in a lifetime, though nothing cleans up while it sleeps.    *)
JobsBounded ==
    \A t \in Tenant :
        Cardinality({job \in exportJobs : job.tenant = t})
            =< (TTL + Patience) \div Interval + 1

(* A requester has one current job for a scale, though looking for a job    *)
(* and opening one are two steps: the throttle between them turns the       *)
(* second of two racing requests away.  This needs requests served in less  *)
(* than half of its interval.                                               *)
OneJobPerRequester ==
    \A a, b \in exportJobs :
        /\ Requester(a) = Requester(b)
        /\ a.created =< b.created /\ b.created - a.created =< Reuse
        => a = b
=============================================================================
