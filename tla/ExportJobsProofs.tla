-------------------------- MODULE ExportJobsProofs --------------------------
(* A link handed out works as long as it says, racing requests of one       *)
(* requester open one job, and the throttle bounds the jobs in memory.      *)
EXTENDS ExportJobs, FiniteSetTheorems, TLAPS

USE ExportAssumption

-----------------------------------------------------------------------------
(* Why they hold: inductive invariants.                                     *)

(* A request knows what it asks for and has not been served for too long;   *)
(* the throttle and the jobs do not look ahead.                             *)
InService ==
    /\ \A r \in Slot : pc[r] # "idle" =>
          /\ loc[r].scale \in Scale /\ loc[r].ip \in Ip
          /\ loc[r].since =< now /\ now =< loc[r].since + Patience
    /\ \A r \in Slot : pc[r] = "answer" => loc[r].job \in Job
    /\ \A t \in Tenant : lastExport[t] # NULL => lastExport[t] =< now
    /\ \A job \in exportJobs : job.created =< now

(* A job that was handed out, or is about to be, stays until it expires.    *)
Handed ==
    /\ \A r \in Slot : pc[r] = "answer" =>
          /\ now =< loc[r].job.expires => loc[r].job \in exportJobs
          /\ loc[r].job.expires >= loc[r].since + TTL - Reuse
    /\ \A link \in links : now =< link.expires =>
          \E job \in exportJobs : /\ job.id = link.id /\ job.tenant = link.tenant
                                  /\ job.expires = link.expires

Creating(r) == pc[r] = "create"
Beneficiary(r) == Owner[loc[r].scale]

(* The grant of each request to open a job, and of each job: the throttle   *)
(* keeps those of a tenant Interval apart, and the jobs are not older than  *)
(* a lifetime, since opening the last of them cleaned up.                   *)
Apart(x, y) == x + Interval =< y \/ y + Interval =< x

Spaced(granted, grants) ==
    /\ \A job \in exportJobs :
          /\ lastExport[job.tenant] # NULL
          /\ granted[job] =< lastExport[job.tenant]
          /\ job.created =< granted[job] + Patience
    /\ \A r \in Slot : Creating(r) =>
          /\ lastExport[Beneficiary(r)] # NULL
          /\ loc[r].since =< grants[r] /\ grants[r] =< lastExport[Beneficiary(r)]
    /\ \A a, b \in exportJobs :
          a # b /\ a.tenant = b.tenant => Apart(granted[a], granted[b])
    /\ \A job \in exportJobs, r \in Slot :
          Creating(r) /\ Beneficiary(r) = job.tenant => Apart(granted[job], grants[r])
    /\ \A r, q \in Slot :
          /\ Creating(r) /\ Creating(q) /\ r # q /\ Beneficiary(r) = Beneficiary(q)
          => Apart(grants[r], grants[q])
    /\ \E m \in (0 - TTL - Patience) .. MaxTime : \A job \in exportJobs :
          m =< granted[job] /\ granted[job] =< m + TTL + Patience

Throttled ==
    \E granted \in [exportJobs -> Time], grants \in [Slot -> Time] :
        Spaced(granted, grants)

(* One request at a time may open a job for a tenant, and only if there is  *)
(* none to hand out again: one that came to be since it looked was granted  *)
(* too recently.                                                            *)
InTurn ==
    /\ \A job \in exportJobs :
          /\ lastExport[job.tenant] # NULL
          /\ job.created =< lastExport[job.tenant] + Patience
    /\ \A r \in Slot : Creating(r) =>
          /\ lastExport[Beneficiary(r)] # NULL
          /\ loc[r].since =< lastExport[Beneficiary(r)]
    /\ \A r, q \in Slot :
          Creating(r) /\ Creating(q) /\ Beneficiary(r) = Beneficiary(q) => r = q
    /\ \A r \in Slot, job \in exportJobs :
          /\ pc[r] \in {"allow", "create"} /\ Requester(job) = Asks(r) /\ Recent(job)
          => pc[r] = "allow" /\ loc[r].since =< job.created
    /\ OneJobPerRequester

-----------------------------------------------------------------------------
(* Requests and their types.                                                *)

(* What Goto leaves in the slots. *)
LEMMA GotoSlots ==
    ASSUME pc \in [Slot -> Label], loc \in [Slot -> Local],
           NEW r \in Slot, NEW label, NEW local, Goto(r, label, local)
    PROVE  /\ pc'[r] = label /\ loc'[r] = local
           /\ \A q \in Slot \ {r} : pc'[q] = pc[q] /\ loc'[q] = loc[q]
           /\ label \in Label /\ local \in Local =>
                 pc' \in [Slot -> Label] /\ loc' \in [Slot -> Local]
  BY DEF Goto

LEMMA BlankIsLocal == Blank \in Local
  BY DEF Blank, Local, Time

(* The job a request opens. *)
LEMMA NewJobType ==
    ASSUME TypeOK, InService, NEW r \in Slot, pc[r] = "create"
    PROVE  /\ NewJob(r) \in Job
           /\ NewJob(r).id = opened /\ NewJob(r).tenant = Owner[loc[r].scale]
           /\ NewJob(r).scale = loc[r].scale /\ NewJob(r).ip = loc[r].ip
           /\ NewJob(r).created = now /\ NewJob(r).expires = now + TTL
           /\ NewJob(r) \notin exportJobs
           /\ [loc[r] EXCEPT !.job = NewJob(r)] \in Local
           /\ [loc[r] EXCEPT !.job = NewJob(r)].job = NewJob(r)
           /\ [loc[r] EXCEPT !.job = NewJob(r)].since = loc[r].since
           /\ [loc[r] EXCEPT !.job = NewJob(r)].scale = loc[r].scale
           /\ [loc[r] EXCEPT !.job = NewJob(r)].ip = loc[r].ip
  <1>1. loc[r].scale \in Scale /\ loc[r].ip \in Ip /\ loc[r] \in Local
    BY DEF TypeOK, InService
  <1>2. Owner[loc[r].scale] \in Tenant /\ now \in Nat /\ now + TTL \in Nat
    BY <1>1 DEF TypeOK, Time
  <1>3. NewJob(r) \in Job
    BY <1>1, <1>2 DEF NewJob, Job, TypeOK
  <1>4. NewJob(r) \notin exportJobs
    BY DEF NewJob, TypeOK
  <1>5. QED
    BY <1>1, <1>3, <1>4 DEF NewJob, Local

(* Jobs, links, throttle and requests keep their types. *)
LEMMA TypeStep ==
    ASSUME TypeOK, InService, [Next]_vars
    PROVE  TypeOK'
  <1>1. CASE UNCHANGED vars
    BY <1>1 DEF vars, TypeOK
  <1>2. CASE Tick
    BY <1>2 DEF Tick, TypeOK, Time
  <1>3. CASE Restart
    BY <1>3, BlankIsLocal DEF Restart, TypeOK, Label, Time
  <1>4. ASSUME NEW r \in Slot, RequestExport(r)
        PROVE  TypeOK'
    <2>1. PICK s \in Scale, ip \in Ip :
            Goto(r, "find", [Blank EXCEPT !.scale = s, !.ip = ip, !.since = now])
      BY <1>4 DEF RequestExport
    <2>2. [Blank EXCEPT !.scale = s, !.ip = ip, !.since = now] \in Local
      BY DEF Blank, Local, TypeOK
    <2>3. pc' \in [Slot -> Label] /\ loc' \in [Slot -> Local]
      BY <2>1, <2>2, GotoSlots DEF TypeOK, Label
    <2>4. QED
      BY <1>4, <2>3 DEF RequestExport, TypeOK
  <1>5. ASSUME NEW r \in Slot, FindRecent(r)
        PROVE  TypeOK'
    <2>1. PICK job \in exportJobs, passed \in SUBSET exportJobs :
            /\ exportJobs' = exportJobs \ passed
            /\ Goto(r, "answer", [loc[r] EXCEPT !.job = job])
      BY <1>5 DEF FindRecent
    <2>2. [loc[r] EXCEPT !.job = job] \in Local
      BY DEF Local, TypeOK
    <2>3. pc' \in [Slot -> Label] /\ loc' \in [Slot -> Local]
      BY <2>1, <2>2, GotoSlots DEF TypeOK, Label
    <2>4. QED
      BY <1>5, <2>1, <2>3 DEF FindRecent, TypeOK
  <1>6. ASSUME NEW r \in Slot, FindNone(r)
        PROVE  TypeOK'
    <2>1. Goto(r, "allow", loc[r]) /\ exportJobs' \subseteq exportJobs
      BY <1>6 DEF FindNone
    <2>2. pc' \in [Slot -> Label] /\ loc' \in [Slot -> Local]
      BY <2>1, GotoSlots DEF TypeOK, Label
    <2>3. QED
      BY <1>6, <2>1, <2>2 DEF FindNone, TypeOK
  <1>7. ASSUME NEW r \in Slot, AllowExport(r)
        PROVE  TypeOK'
    <2>1. \/ Goto(r, "idle", Blank) /\ lastExport' = lastExport
          \/ /\ Goto(r, "create", loc[r])
             /\ lastExport' = [lastExport EXCEPT ![Owner[loc[r].scale]] = now]
      BY <1>7 DEF AllowExport, Finish
    <2>2. pc' \in [Slot -> Label] /\ loc' \in [Slot -> Local]
      BY <2>1, GotoSlots, BlankIsLocal DEF TypeOK, Label
    <2>3. lastExport' \in [Tenant -> Time \cup {NULL}]
      BY <2>1 DEF TypeOK
    <2>4. QED
      BY <1>7, <2>2, <2>3 DEF AllowExport, TypeOK
  <1>8. ASSUME NEW r \in Slot, CreateExportJob(r)
        PROVE  TypeOK'
    <2>1. /\ pc[r] = "create" /\ opened' = opened + 1
          /\ exportJobs' \subseteq exportJobs \cup {NewJob(r)}
          /\ Goto(r, "answer", [loc[r] EXCEPT !.job = NewJob(r)])
          /\ UNCHANGED <<now, lastExport, links>>
      BY <1>8 DEF CreateExportJob
    <2>2. pc' \in [Slot -> Label] /\ loc' \in [Slot -> Local]
      BY <2>1, NewJobType, GotoSlots DEF TypeOK, Label
    <2>3. \A job \in exportJobs' :
            /\ job \in Job /\ job.id < opened + 1 /\ job.expires = job.created + TTL
      <3>1. SUFFICES ASSUME NEW job \in exportJobs'
                     PROVE  /\ job \in Job /\ job.id < opened + 1
                            /\ job.expires = job.created + TTL
        OBVIOUS
      <3>2. CASE job \in exportJobs
        <4>1. job \in Job /\ job.id < opened /\ job.expires = job.created + TTL
          BY <3>2 DEF TypeOK
        <4>2. QED
          BY <4>1 DEF Job, TypeOK
      <3>3. CASE job = NewJob(r)
        BY <2>1, <3>3, NewJobType DEF TypeOK
      <3>4. QED
        BY <2>1, <3>2, <3>3
    <2>4. QED
      BY <2>1, <2>2, <2>3 DEF TypeOK
  <1>9. ASSUME NEW r \in Slot, Answer(r)
        PROVE  TypeOK'
    <2>1. loc[r].job \in Job
      BY <1>9 DEF Answer, InService, TypeOK, Local
    <2>2. links' \subseteq Link
      BY <1>9, <2>1 DEF Answer, Link, Job, TypeOK
    <2>3. pc' \in [Slot -> Label] /\ loc' \in [Slot -> Local]
      BY <1>9, GotoSlots, BlankIsLocal DEF Answer, Finish, TypeOK, Label
    <2>4. QED
      BY <1>9, <2>2, <2>3 DEF Answer, TypeOK
  <1>10. QED
    BY <1>1, <1>2, <1>3, <1>4, <1>5, <1>6, <1>7, <1>8, <1>9 DEF Next

(* What each step leaves in the slots: the inputs of a request stay what    *)
(* they were when it came.                                                  *)
Kept(r, label) ==
    /\ pc'[r] = label
    /\ loc'[r].scale = loc[r].scale /\ loc'[r].ip = loc[r].ip
    /\ loc'[r].since = loc[r].since

Others(r) == \A q \in Slot \ {r} : pc'[q] = pc[q] /\ loc'[q] = loc[q]

LEMMA RequestExportSlots ==
    ASSUME TypeOK, NEW r \in Slot, RequestExport(r)
    PROVE  /\ Others(r) /\ pc'[r] = "find" /\ loc'[r].since = now
           /\ loc'[r].scale \in Scale /\ loc'[r].ip \in Ip
  <1>1. PICK s \in Scale, ip \in Ip :
          Goto(r, "find", [Blank EXCEPT !.scale = s, !.ip = ip, !.since = now])
    BY DEF RequestExport
  <1>2. /\ Others(r) /\ pc'[r] = "find"
        /\ loc'[r] = [Blank EXCEPT !.scale = s, !.ip = ip, !.since = now]
    BY <1>1, GotoSlots DEF TypeOK, Others
  <1>3. QED
    BY <1>2 DEF Blank

LEMMA FindRecentSlots ==
    ASSUME TypeOK, NEW r \in Slot, FindRecent(r)
    PROVE  /\ Others(r) /\ Kept(r, "answer")
           /\ exportJobs' \subseteq exportJobs
           /\ \A job \in exportJobs : job \notin exportJobs' => Expired(job)
           /\ loc'[r].job \in exportJobs /\ loc'[r].job \in exportJobs'
           /\ Recent(loc'[r].job) /\ ~Expired(loc'[r].job)
  <1>1. PICK job \in exportJobs, passed \in SUBSET exportJobs :
          /\ ~Expired(job) /\ Recent(job)
          /\ \A old \in passed : Expired(old)
          /\ exportJobs' = exportJobs \ passed
          /\ Goto(r, "answer", [loc[r] EXCEPT !.job = job])
    BY DEF FindRecent
  <1>2. /\ Others(r) /\ Kept(r, "answer") /\ loc'[r].job = job
    BY <1>1, GotoSlots DEF TypeOK, Others, Kept, Local
  <1>3. QED
    BY <1>1, <1>2

LEMMA FindNoneSlots ==
    ASSUME TypeOK, NEW r \in Slot, FindNone(r)
    PROVE  /\ Others(r) /\ pc'[r] = "allow" /\ loc'[r] = loc[r]
           /\ exportJobs' \subseteq exportJobs
           /\ \A job \in exportJobs : job \notin exportJobs' => Expired(job)
  BY GotoSlots DEF FindNone, TypeOK, Others

LEMMA AllowExportSlots ==
    ASSUME TypeOK, NEW r \in Slot, AllowExport(r)
    PROVE  /\ Others(r)
           /\ \/ pc'[r] = "idle" /\ lastExport' = lastExport
              \/ /\ pc'[r] = "create" /\ loc'[r] = loc[r]
                 /\ lastExport' = [lastExport EXCEPT ![Beneficiary(r)] = now]
                 /\ ~(/\ lastExport[Beneficiary(r)] # NULL
                      /\ now - lastExport[Beneficiary(r)] < Interval)
  BY GotoSlots DEF AllowExport, Finish, TypeOK, Others, Beneficiary

LEMMA CreateExportJobSlots ==
    ASSUME TypeOK, InService, NEW r \in Slot, CreateExportJob(r)
    PROVE  /\ Others(r) /\ Kept(r, "answer") /\ loc'[r].job = NewJob(r)
           /\ pc[r] = "create" /\ NewJob(r) \in exportJobs'
           /\ \A job \in exportJobs : job \notin exportJobs' => Expired(job)
           /\ \A job \in exportJobs' :
                 job = NewJob(r) \/ (job \in exportJobs /\ ~Expired(job))
  <1>1. Goto(r, "answer", [loc[r] EXCEPT !.job = NewJob(r)])
    BY DEF CreateExportJob
  <1>2. /\ Others(r) /\ pc'[r] = "answer"
        /\ loc'[r] = [loc[r] EXCEPT !.job = NewJob(r)]
    BY <1>1, GotoSlots DEF TypeOK, Others
  <1>3. pc[r] = "create"
    BY DEF CreateExportJob
  <1>4. Kept(r, "answer") /\ loc'[r].job = NewJob(r)
    BY <1>2, <1>3, NewJobType DEF Kept
  <1>5. QED
    BY <1>2, <1>3, <1>4 DEF CreateExportJob

LEMMA AnswerSlots ==
    ASSUME TypeOK, NEW r \in Slot, Answer(r)
    PROVE  Others(r) /\ pc'[r] = "idle"
  BY GotoSlots DEF Answer, Finish, TypeOK, Others

-----------------------------------------------------------------------------
(* Requests are served in time and nothing looks ahead.                     *)
LEMMA InServiceStep ==
    ASSUME TypeOK, InService, [Next]_vars
    PROVE  InService'
  <1> USE DEF InService
  <1>1. CASE UNCHANGED vars
    BY <1>1 DEF vars
  <1>2. CASE Tick
    <2>1. now \in Nat /\ now' = now + 1
      BY <1>2 DEF Tick, TypeOK, Time
    <2>2. \A r \in Slot : loc[r].since \in Nat
      BY DEF TypeOK, Local, Time
    <2>3. \A t \in Tenant : lastExport[t] # NULL => lastExport[t] \in Nat
      BY DEF TypeOK, Time
    <2>4. \A job \in exportJobs : job.created \in Nat
      BY DEF TypeOK, Job, Time
    <2>5. QED
      BY <1>2, <2>1, <2>2, <2>3, <2>4 DEF Tick
  <1>3. CASE Restart
    BY <1>3 DEF Restart
  <1>4. ASSUME NEW r \in Slot, RequestExport(r)
        PROVE  InService'
    <2>1. now \in Nat /\ UNCHANGED <<now, exportJobs, lastExport>>
      BY <1>4 DEF RequestExport, TypeOK, Time
    <2>2. QED
      BY <1>4, <2>1, RequestExportSlots DEF Others
  <1>5. ASSUME NEW r \in Slot, FindRecent(r)
        PROVE  InService'
    <2>1. loc'[r].job \in Job
      BY <1>5, FindRecentSlots DEF TypeOK
    <2>2. QED
      BY <1>5, <2>1, FindRecentSlots DEF Others, Kept, FindRecent
  <1>6. ASSUME NEW r \in Slot, FindNone(r)
        PROVE  InService'
    BY <1>6, FindNoneSlots DEF Others, FindNone
  <1>7. ASSUME NEW r \in Slot, AllowExport(r)
        PROVE  InService'
    BY <1>7, AllowExportSlots DEF Others, AllowExport, TypeOK, Time
  <1>8. ASSUME NEW r \in Slot, CreateExportJob(r)
        PROVE  InService'
    <2>1. now \in Nat /\ UNCHANGED <<now, lastExport>>
      BY <1>8 DEF CreateExportJob, TypeOK, Time
    <2>2. NewJob(r) \in Job /\ NewJob(r).created = now
      BY <1>8, NewJobType DEF CreateExportJob
    <2>3. \A job \in exportJobs' : job.created =< now
      BY <1>8, <2>1, <2>2, CreateExportJobSlots
    <2>4. QED
      BY <1>8, <2>1, <2>2, <2>3, CreateExportJobSlots DEF Others, Kept
  <1>9. ASSUME NEW r \in Slot, Answer(r)
        PROVE  InService'
    BY <1>9, AnswerSlots DEF Others, Answer
  <1>10. QED
    BY <1>1, <1>2, <1>3, <1>4, <1>5, <1>6, <1>7, <1>8, <1>9 DEF Next

(* TypeOK of run export_jobs for every set of tenants, scales, addresses    *)
(* and requests, and every lifetime: the records CreateExportJob,           *)
(* AllowExport and RequestExport write are well formed, a job has the id of *)
(* its turn and its lifetime.                                               *)
THEOREM ExportTyped == Spec => [](TypeOK /\ InService)
  <1>1. Init => TypeOK /\ InService
    BY BlankIsLocal DEF Init, TypeOK, InService, Label, Time
  <1>2. TypeOK /\ InService /\ [Next]_vars => (TypeOK /\ InService)'
    BY TypeStep, InServiceStep
  <1>3. QED
    BY <1>1, <1>2, PTL DEF Spec

-----------------------------------------------------------------------------
(* A job that was handed out stays until it expires.                        *)

(* The numbers of jobs and requests. *)
LEMMA Numbers ==
    ASSUME TypeOK
    PROVE  /\ now \in Nat
           /\ \A job \in Job : /\ job.id \in Nat /\ job.created \in Nat
                               /\ job.expires \in Nat /\ job.tenant \in Tenant
           /\ \A link \in Link : link.id \in Nat /\ link.expires \in Nat
           /\ \A r \in Slot : loc[r] \in Local /\ loc[r].since \in Nat
           /\ \A job \in exportJobs :
                 /\ job \in Job /\ job.expires = job.created + TTL
           /\ \A t \in Tenant : lastExport[t] # NULL => lastExport[t] \in Nat
  BY DEF TypeOK, Job, Link, Local, Time

(* Whoever looks for a job or opens one deletes expired jobs only. *)
LEMMA CleanUp ==
    ASSUME TypeOK, Handed, NEW r \in Slot, Others(r),
           UNCHANGED <<now, links>>,
           \A job \in exportJobs : job \notin exportJobs' => Expired(job)
    PROVE  /\ \A q \in Slot \ {r} : pc'[q] = "answer" =>
                 /\ now =< loc'[q].job.expires => loc'[q].job \in exportJobs'
                 /\ loc'[q].job.expires >= loc'[q].since + TTL - Reuse
           /\ \A link \in links : now =< link.expires =>
                 \E job \in exportJobs' : /\ job.id = link.id
                                          /\ job.tenant = link.tenant
                                          /\ job.expires = link.expires
  <1>1. \A job \in exportJobs : now =< job.expires => job \in exportJobs'
    BY Numbers DEF Expired
  <1>2. ASSUME NEW q \in Slot \ {r}, pc'[q] = "answer"
        PROVE  /\ now =< loc'[q].job.expires => loc'[q].job \in exportJobs'
               /\ loc'[q].job.expires >= loc'[q].since + TTL - Reuse
    BY <1>1, <1>2 DEF Others, Handed
  <1>3. ASSUME NEW link \in links, now =< link.expires
        PROVE  \E job \in exportJobs' : /\ job.id = link.id
                                        /\ job.tenant = link.tenant
                                        /\ job.expires = link.expires
    <2>1. PICK job \in exportJobs : /\ job.id = link.id /\ job.tenant = link.tenant
                                    /\ job.expires = link.expires
      BY <1>3 DEF Handed
    <2>2. QED
      BY <1>1, <1>3, <2>1
  <1>4. QED
    BY <1>2, <1>3

LEMMA HandedStep ==
    ASSUME TypeOK, InService, Handed, [Next]_vars
    PROVE  Handed'
  <1>1. CASE UNCHANGED vars
    BY <1>1 DEF vars, Handed
  <1>2. CASE Tick
    <2>1. now' = now + 1 /\ UNCHANGED <<exportJobs, links, pc, loc>>
      BY <1>2 DEF Tick
    <2>2. \A r \in Slot : pc[r] = "answer" => loc[r].job.expires \in Nat
      BY Numbers DEF InService
    <2>3. \A link \in links : link.expires \in Nat
      BY Numbers DEF TypeOK
    <2>4. QED
      BY <2>1, <2>2, <2>3, Numbers DEF Handed
  <1>3. CASE Restart
    BY <1>3 DEF Restart, Handed
  <1>4. ASSUME NEW r \in Slot, RequestExport(r)
        PROVE  Handed'
    BY <1>4, RequestExportSlots DEF Handed, Others, RequestExport
  <1>5. ASSUME NEW r \in Slot, FindRecent(r)
        PROVE  Handed'
    <2>1. UNCHANGED <<now, links>>
      BY <1>5 DEF FindRecent
    <2>2. pc[r] = "find" /\ loc[r].since =< now
      BY <1>5 DEF FindRecent, InService
    <2>3. /\ loc'[r].job \in exportJobs' /\ loc'[r].since = loc[r].since
          /\ loc'[r].job.expires = loc'[r].job.created + TTL
          /\ now - loc'[r].job.created =< Reuse
          /\ loc'[r].job.created \in Nat
      BY <1>5, FindRecentSlots, Numbers DEF Kept, Recent
    <2>4. loc'[r].job.expires >= loc'[r].since + TTL - Reuse
      BY <2>2, <2>3, Numbers
    <2>5. QED
      BY <1>5, <2>1, <2>3, <2>4, FindRecentSlots, CleanUp DEF Handed
  <1>6. ASSUME NEW r \in Slot, FindNone(r)
        PROVE  Handed'
    <2>1. UNCHANGED <<now, links>>
      BY <1>6 DEF FindNone
    <2>2. QED
      BY <1>6, <2>1, FindNoneSlots, CleanUp DEF Handed
  <1>7. ASSUME NEW r \in Slot, AllowExport(r)
        PROVE  Handed'
    BY <1>7, AllowExportSlots DEF Handed, Others, AllowExport
  <1>8. ASSUME NEW r \in Slot, CreateExportJob(r)
        PROVE  Handed'
    <2>1. UNCHANGED <<now, links>> /\ pc[r] = "create"
      BY <1>8 DEF CreateExportJob
    <2>2. loc'[r].job.expires = now + TTL /\ loc'[r].since = loc[r].since
      <3>1. loc'[r].job = NewJob(r) /\ loc'[r].since = loc[r].since
        BY <1>8, CreateExportJobSlots DEF Kept
      <3>2. NewJob(r).expires = now + TTL
        BY <2>1, NewJobType
      <3>3. QED
        BY <3>1, <3>2
    <2>3. loc'[r].job.expires >= loc'[r].since + TTL - Reuse
      BY <2>1, <2>2, Numbers DEF InService
    <2>4. QED
      BY <1>8, <2>1, <2>3, CreateExportJobSlots, CleanUp DEF Handed
  <1>9. ASSUME NEW r \in Slot, Answer(r)
        PROVE  Handed'
    <2>1. /\ pc[r] = "answer" /\ UNCHANGED <<now, exportJobs>>
          /\ links' = links \cup {[id |-> loc[r].job.id, tenant |-> loc[r].job.tenant,
                                   expires |-> loc[r].job.expires]}
      BY <1>9 DEF Answer
    <2>2. \A q \in Slot : pc'[q] = "answer" =>
             /\ now =< loc'[q].job.expires => loc'[q].job \in exportJobs
             /\ loc'[q].job.expires >= loc'[q].since + TTL - Reuse
      BY <1>9, AnswerSlots DEF Others, Handed
    <2>3. now =< loc[r].job.expires => loc[r].job \in exportJobs
      BY <2>1 DEF Handed
    <2>4. ASSUME NEW link \in links', now =< link.expires
          PROVE  \E job \in exportJobs : /\ job.id = link.id
                                         /\ job.tenant = link.tenant
                                         /\ job.expires = link.expires
      <3>1. CASE link \in links
        BY <2>4, <3>1 DEF Handed
      <3>2. CASE link \notin links
        <4>1. /\ link.id = loc[r].job.id /\ link.tenant = loc[r].job.tenant
              /\ link.expires = loc[r].job.expires
          BY <2>1, <3>2
        <4>2. QED
          BY <2>3, <2>4, <4>1
      <3>3. QED
        BY <3>1, <3>2
    <2>5. QED
      BY <2>1, <2>2, <2>4 DEF Handed
  <1>10. QED
    BY <1>1, <1>2, <1>3, <1>4, <1>5, <1>6, <1>7, <1>8, <1>9 DEF Next

LEMMA HandedAlways == Spec => [](TypeOK /\ InService /\ Handed)
  <1>1. Init => Handed
    BY DEF Init, Handed
  <1>2. TypeOK /\ InService /\ Handed /\ [Next]_vars => Handed'
    BY HandedStep
  <1>3. QED
    BY <1>1, <1>2, ExportTyped, PTL DEF Spec

(* LinkWorks of run export_jobs for every lifetime and any number of        *)
(* requests: DownloadExport finds the job of a link until the expires_at    *)
(* the link was answered with, whichever requests clean up meanwhile.       *)
THEOREM LinksWork == Spec => []LinkWorks
  <1>1. TypeOK /\ Handed => LinkWorks
    <2>1. SUFFICES ASSUME TypeOK, Handed, NEW link \in links, now =< link.expires
                   PROVE  Works(link)
      BY DEF LinkWorks
    <2>2. PICK job \in exportJobs : /\ job.id = link.id /\ job.tenant = link.tenant
                                    /\ job.expires = link.expires
      BY <2>1 DEF Handed
    <2>3. QED
      BY <2>1, <2>2, Numbers DEF Works
  <1>2. QED
    BY <1>1, HandedAlways, PTL

(* LinkLasts of run export_jobs for every lifetime: a link is answered with *)
(* the lifetime of a job less the time RequestExport may hand it out again  *)
(* and the time the request was served in.                                  *)
THEOREM LinksLast == Spec => []LinkLasts
  <1>1. TypeOK /\ InService /\ Handed => LinkLasts
    <2>1. SUFFICES ASSUME TypeOK, InService, Handed, NEW r \in Slot, pc[r] = "answer"
                   PROVE  loc[r].job.expires - now >= TTL - Reuse - Patience
      BY DEF LinkLasts
    <2>2. /\ loc[r].job.expires >= loc[r].since + TTL - Reuse
          /\ now =< loc[r].since + Patience
      BY <2>1 DEF Handed, InService
    <2>3. loc[r].job.expires \in Nat /\ loc[r].since \in Nat /\ now \in Nat
      BY <2>1, Numbers DEF InService
    <2>4. QED
      BY <2>2, <2>3
  <1>2. QED
    BY <1>1, HandedAlways, PTL

-----------------------------------------------------------------------------
(* One requester, one job: the throttle between looking and opening.        *)

(* Nobody is let through, and whoever begins to ask for leave saw that      *)
(* there is no job to hand out again.                                       *)
LEMMA NobodyLetThrough ==
    ASSUME TypeOK, InTurn, UNCHANGED lastExport, now' \in {now, now + 1},
           exportJobs' \subseteq exportJobs,
           \A q \in Slot : pc'[q] = "create" =>
              pc[q] = "create" /\ loc'[q] = loc[q],
           \A q \in Slot : pc'[q] = "allow" =>
              \/ pc[q] = "allow" /\ loc'[q] = loc[q]
              \/ /\ loc'[q] = loc[q]
                 /\ \A job \in exportJobs' :
                       Recent(job) => Requester(job) # Asks(q)
    PROVE  InTurn'
  <1> USE DEF InTurn
  <1>1. \A job \in exportJobs' :
           /\ lastExport'[job.tenant] # NULL
           /\ job.created =< lastExport'[job.tenant] + Patience
    OBVIOUS
  <1>2. \A r \in Slot : Creating(r)' =>
           /\ lastExport'[Beneficiary(r)'] # NULL
           /\ loc'[r].since =< lastExport'[Beneficiary(r)']
    BY DEF Creating, Beneficiary
  <1>3. \A r, q \in Slot :
           Creating(r)' /\ Creating(q)' /\ Beneficiary(r)' = Beneficiary(q)' => r = q
    BY DEF Creating, Beneficiary
  <1>4. ASSUME NEW r \in Slot, NEW job \in exportJobs',
               pc'[r] \in {"allow", "create"}, Requester(job) = Asks(r)', Recent(job)'
        PROVE  pc'[r] = "allow" /\ loc'[r].since =< job.created
    <2>1. Recent(job)
      BY <1>4, Numbers DEF Recent
    <2>2. Asks(r)' = Asks(r) /\ loc'[r] = loc[r]
      BY <1>4 DEF Asks
    <2>3. pc[r] = pc'[r]
      BY <1>4, <2>1, <2>2
    <2>4. QED
      BY <1>4, <2>1, <2>2, <2>3
  <1>5. OneJobPerRequester'
    BY DEF OneJobPerRequester, Requester
  <1>6. QED
    BY <1>1, <1>2, <1>3, <1>4, <1>5 DEF Requester

(* A request is let through only if no other is, and none of its own        *)
(* requester's jobs came to be since it looked.                             *)
LEMMA Granted ==
    ASSUME 2 * Patience < Interval, TypeOK, InService, InTurn, NEW r \in Slot,
           pc[r] = "allow",
           ~(/\ lastExport[Beneficiary(r)] # NULL
             /\ now - lastExport[Beneficiary(r)] < Interval)
    PROVE  /\ \A q \in Slot : Creating(q) => Beneficiary(q) # Beneficiary(r)
           /\ \A job \in exportJobs : Requester(job) = Asks(r) => ~Recent(job)
           /\ Beneficiary(r) \in Tenant
  <1>1. loc[r].scale \in Scale /\ loc[r].since =< now /\ now =< loc[r].since + Patience
    BY DEF InService
  <1>2. Beneficiary(r) \in Tenant
    BY <1>1 DEF Beneficiary
  <1>3. ASSUME NEW q \in Slot, Creating(q), Beneficiary(q) = Beneficiary(r)
        PROVE  FALSE
    <2>1. now =< loc[q].since + Patience
      BY <1>3 DEF InService, Creating
    <2>2. /\ lastExport[Beneficiary(r)] # NULL
          /\ loc[q].since =< lastExport[Beneficiary(r)]
      BY <1>3 DEF InTurn
    <2>3. lastExport[Beneficiary(r)] \in Nat /\ loc[q].since \in Nat /\ now \in Nat
      BY <1>2, <2>2, Numbers
    <2>4. QED
      BY <2>1, <2>2, <2>3
  <1>4. ASSUME NEW job \in exportJobs, Requester(job) = Asks(r), Recent(job)
        PROVE  FALSE
    <2>1. loc[r].since =< job.created
      BY <1>4 DEF InTurn
    <2>2. job.tenant = Beneficiary(r)
      BY <1>4 DEF Requester, Asks, Beneficiary
    <2>3. /\ lastExport[Beneficiary(r)] # NULL
          /\ job.created =< lastExport[Beneficiary(r)] + Patience
      BY <2>2 DEF InTurn
    <2>4. /\ lastExport[Beneficiary(r)] \in Nat /\ loc[r].since \in Nat
          /\ now \in Nat /\ job.created \in Nat
      BY <1>2, <2>3, Numbers
    <2>5. QED
      BY <1>1, <2>1, <2>3, <2>4
  <1>5. QED
    BY <1>2, <1>3, <1>4

LEMMA InTurnAllow ==
    ASSUME 2 * Patience < Interval, TypeOK, InService, InTurn,
           NEW r \in Slot, AllowExport(r)
    PROVE  InTurn'
  <1>1. pc[r] = "allow" /\ UNCHANGED <<now, exportJobs>> /\ Others(r)
    BY AllowExportSlots DEF AllowExport
  <1>2. CASE pc'[r] = "idle" /\ lastExport' = lastExport
    <2>1. \A q \in Slot : pc'[q] \in {"allow", "create"} =>
             pc'[q] = pc[q] /\ loc'[q] = loc[q]
      BY <1>1, <1>2 DEF Others
    <2>2. QED
      BY <1>1, <1>2, <2>1, NobodyLetThrough
  <1>3. CASE /\ pc'[r] = "create" /\ loc'[r] = loc[r]
             /\ lastExport' = [lastExport EXCEPT ![Beneficiary(r)] = now]
             /\ ~(/\ lastExport[Beneficiary(r)] # NULL
                  /\ now - lastExport[Beneficiary(r)] < Interval)
    <2>1. /\ \A q \in Slot : Creating(q) => Beneficiary(q) # Beneficiary(r)
          /\ \A job \in exportJobs : Requester(job) = Asks(r) => ~Recent(job)
          /\ Beneficiary(r) \in Tenant
      BY <1>1, <1>3, Granted
    <2>2. \A q \in Slot : loc'[q] = loc[q] /\ Beneficiary(q)' = Beneficiary(q)
                          /\ Asks(q)' = Asks(q)
      BY <1>1, <1>3 DEF Others, Beneficiary, Asks
    <2>3. \A q \in Slot : pc'[q] = pc[q] \/ (q = r /\ pc'[q] = "create")
      BY <1>1, <1>3 DEF Others
    <2>4. /\ lastExport'[Beneficiary(r)] = now /\ now # NULL
          /\ \A t \in Tenant \ {Beneficiary(r)} : lastExport'[t] = lastExport[t]
      BY <1>3, <2>1, Numbers DEF TypeOK
    <2>5. ASSUME NEW job \in exportJobs'
          PROVE  /\ lastExport'[job.tenant] # NULL
                 /\ job.created =< lastExport'[job.tenant] + Patience
      <3>1. job \in exportJobs /\ job.created =< now /\ job.tenant \in Tenant
            /\ job.created \in Nat /\ now \in Nat
        BY <1>1, <2>5, Numbers DEF InService
      <3>2. CASE job.tenant = Beneficiary(r)
        BY <2>4, <3>1, <3>2
      <3>3. CASE job.tenant # Beneficiary(r)
        BY <2>4, <3>1, <3>3 DEF InTurn
      <3>4. QED
        BY <3>2, <3>3
    <2>6. ASSUME NEW q \in Slot, Creating(q)'
          PROVE  /\ lastExport'[Beneficiary(q)'] # NULL
                 /\ loc'[q].since =< lastExport'[Beneficiary(q)']
      <3>1. CASE q = r
        BY <1>1, <2>2, <2>4, <3>1 DEF InService
      <3>2. CASE q # r
        <4>1. Creating(q) /\ Beneficiary(q) # Beneficiary(r)
          BY <2>1, <2>3, <2>6, <3>2 DEF Creating
        <4>2. Beneficiary(q) \in Tenant
          BY <4>1 DEF Creating, InService, Beneficiary
        <4>3. QED
          BY <2>2, <2>4, <4>1, <4>2 DEF InTurn
      <3>3. QED
        BY <3>1, <3>2
    <2>7. ASSUME NEW p \in Slot, NEW q \in Slot, Creating(p)', Creating(q)',
                 Beneficiary(p)' = Beneficiary(q)'
          PROVE  p = q
      BY <2>1, <2>2, <2>3, <2>7 DEF Creating, InTurn
    <2>8. ASSUME NEW q \in Slot, NEW job \in exportJobs',
                 pc'[q] \in {"allow", "create"}, Requester(job) = Asks(q)', Recent(job)'
          PROVE  pc'[q] = "allow" /\ loc'[q].since =< job.created
      <3>1. Recent(job) /\ Requester(job) = Asks(q) /\ job \in exportJobs
        BY <1>1, <2>2, <2>8 DEF Recent
      <3>2. q # r
        BY <2>1, <3>1
      <3>3. QED
        BY <2>2, <2>3, <2>8, <3>1, <3>2 DEF InTurn
    <2>9. OneJobPerRequester'
      BY <1>1 DEF InTurn, OneJobPerRequester, Requester
    <2>10. QED
      BY <2>5, <2>6, <2>7, <2>8, <2>9 DEF InTurn, Requester
  <1>4. QED
    BY <1>2, <1>3, AllowExportSlots

LEMMA InTurnCreate ==
    ASSUME TypeOK, InService, InTurn, NEW r \in Slot, CreateExportJob(r)
    PROVE  InTurn'
  <1> DEFINE new == NewJob(r)
  <1>1. /\ pc[r] = "create" /\ UNCHANGED <<now, lastExport>> /\ Others(r)
        /\ pc'[r] = "answer" /\ now \in Nat
    BY CreateExportJobSlots, Numbers DEF CreateExportJob, Kept
  <1>2. \A job \in exportJobs' : job = new \/ job \in exportJobs
    BY CreateExportJobSlots
  <1>3. /\ new.tenant = Beneficiary(r) /\ new.created = now /\ Requester(new) = Asks(r)
    BY <1>1, NewJobType DEF Beneficiary, Requester, Asks
  <1>4. \A q \in Slot \ {r} : /\ pc'[q] = pc[q] /\ loc'[q] = loc[q]
                             /\ Beneficiary(q)' = Beneficiary(q) /\ Asks(q)' = Asks(q)
    BY <1>1 DEF Others, Beneficiary, Asks
  <1>5. /\ lastExport[Beneficiary(r)] # NULL
        /\ loc[r].since =< lastExport[Beneficiary(r)]
        /\ now =< loc[r].since + Patience /\ Beneficiary(r) \in Tenant
    BY <1>1 DEF InTurn, Creating, InService, Beneficiary
  <1>6. \A job \in exportJobs : Requester(job) = Asks(r) => ~Recent(job)
    BY <1>1 DEF InTurn
  <1>7. ASSUME NEW job \in exportJobs'
        PROVE  /\ lastExport'[job.tenant] # NULL
               /\ job.created =< lastExport'[job.tenant] + Patience
    <2>1. CASE job = new
      <3>1. lastExport[Beneficiary(r)] \in Nat /\ loc[r].since \in Nat
        BY <1>5, Numbers
      <3>2. QED
        BY <1>1, <1>3, <1>5, <2>1, <3>1
    <2>2. CASE job \in exportJobs
      BY <1>1, <2>2 DEF InTurn
    <2>3. QED
      BY <1>2, <2>1, <2>2
  <1>8. ASSUME NEW q \in Slot, Creating(q)'
        PROVE  /\ lastExport'[Beneficiary(q)'] # NULL
               /\ loc'[q].since =< lastExport'[Beneficiary(q)']
    BY <1>1, <1>4, <1>8 DEF Creating, InTurn
  <1>9. ASSUME NEW p \in Slot, NEW q \in Slot, Creating(p)', Creating(q)',
               Beneficiary(p)' = Beneficiary(q)'
        PROVE  p = q
    BY <1>1, <1>4, <1>9 DEF Creating, InTurn
  <1>10. ASSUME NEW q \in Slot, NEW job \in exportJobs',
                pc'[q] \in {"allow", "create"}, Requester(job) = Asks(q)', Recent(job)'
         PROVE  pc'[q] = "allow" /\ loc'[q].since =< job.created
    <2>1. q # r /\ pc'[q] = pc[q] /\ loc'[q] = loc[q] /\ Asks(q) = Asks(q)'
      BY <1>1, <1>4, <1>10
    <2>2. CASE job = new
      <3>1. Beneficiary(q) = Beneficiary(r)
        BY <1>3, <1>10, <2>1, <2>2 DEF Asks, Beneficiary
      <3>2. pc[q] = "allow"
        BY <1>1, <1>10, <2>1, <3>1 DEF InTurn, Creating
      <3>3. QED
        BY <1>3, <2>1, <2>2, <3>2 DEF InService
    <2>3. CASE job \in exportJobs
      <3>1. Recent(job)
        BY <1>1, <1>10 DEF Recent
      <3>2. QED
        BY <1>10, <2>1, <2>3, <3>1 DEF InTurn
    <2>4. QED
      BY <1>2, <2>2, <2>3
  <1>11. ASSUME NEW a \in exportJobs', NEW b \in exportJobs',
                Requester(a) = Requester(b),
                a.created =< b.created /\ b.created - a.created =< Reuse
         PROVE  a = b
    <2>1. CASE a \in exportJobs /\ b \in exportJobs
      BY <1>11, <2>1 DEF InTurn, OneJobPerRequester
    <2>2. CASE a \in exportJobs /\ b = new
      BY <1>3, <1>6, <1>11, <2>2 DEF Recent
    <2>3. CASE a = new /\ b \in exportJobs
      <3>1. b.created =< now /\ b.created \in Nat
        BY <2>3, Numbers DEF InService
      <3>2. Recent(b)
        BY <1>1, <1>3, <1>11, <2>3, <3>1 DEF Recent
      <3>3. QED
        BY <1>3, <1>6, <1>11, <2>3, <3>2
    <2>4. QED
      BY <1>2, <2>1, <2>2, <2>3
  <1>12. QED
    BY <1>7, <1>8, <1>9, <1>10, <1>11 DEF InTurn, OneJobPerRequester, Requester

LEMMA InTurnStep ==
    ASSUME 2 * Patience < Interval, TypeOK, InService, InTurn, [Next]_vars
    PROVE  InTurn'
  <1> DEFINE Same(q) == pc'[q] = pc[q] /\ loc'[q] = loc[q]
  <1>1. CASE UNCHANGED vars
    BY <1>1, NobodyLetThrough DEF vars
  <1>2. CASE Tick
    BY <1>2, NobodyLetThrough DEF Tick
  <1>3. CASE Restart
    BY <1>3 DEF Restart, InTurn, OneJobPerRequester, Creating
  <1>4. ASSUME NEW r \in Slot, RequestExport(r)
        PROVE  InTurn'
    <2>1. \A q \in Slot : pc'[q] \in {"allow", "create"} => Same(q)
      BY <1>4, RequestExportSlots DEF Others
    <2>2. QED
      BY <1>4, <2>1, NobodyLetThrough DEF RequestExport
  <1>5. ASSUME NEW r \in Slot, FindRecent(r)
        PROVE  InTurn'
    <2>1. \A q \in Slot : pc'[q] \in {"allow", "create"} => Same(q)
      BY <1>5, FindRecentSlots DEF Others, Kept
    <2>2. QED
      BY <1>5, <2>1, FindRecentSlots, NobodyLetThrough DEF FindRecent
  <1>6. ASSUME NEW r \in Slot, FindNone(r)
        PROVE  InTurn'
    <2>1. \A q \in Slot \ {r} : Same(q)
      BY <1>6, FindNoneSlots DEF Others
    <2>2. pc'[r] = "allow" /\ loc'[r] = loc[r]
      BY <1>6, FindNoneSlots
    <2>3. \A job \in exportJobs' : Recent(job) => Requester(job) # Asks(r)
      BY <1>6 DEF FindNone
    <2>4. QED
      BY <1>6, <2>1, <2>2, <2>3, FindNoneSlots, NobodyLetThrough DEF FindNone
  <1>7. ASSUME NEW r \in Slot, AllowExport(r)
        PROVE  InTurn'
    BY <1>7, InTurnAllow
  <1>8. ASSUME NEW r \in Slot, CreateExportJob(r)
        PROVE  InTurn'
    BY <1>8, InTurnCreate
  <1>9. ASSUME NEW r \in Slot, Answer(r)
        PROVE  InTurn'
    <2>1. \A q \in Slot : pc'[q] \in {"allow", "create"} => Same(q)
      BY <1>9, AnswerSlots DEF Others
    <2>2. QED
      BY <1>9, <2>1, NobodyLetThrough DEF Answer
  <1>10. QED
    BY <1>1, <1>2, <1>3, <1>4, <1>5, <1>6, <1>7, <1>8, <1>9 DEF Next

(* OneJobPerRequester of run export_jobs for any number of requests and     *)
(* every lifetime, if a request is served in less than half of the          *)
(* throttle's interval: of two requests of one requester that both find no  *)
(* job, AllowExport turns one away, so CreateExportJob runs once.           *)
THEOREM OneJobEach ==
    ASSUME 2 * Patience < Interval
    PROVE  Spec => []OneJobPerRequester
  <1>1. Init => InTurn
    BY DEF Init, InTurn, OneJobPerRequester, Creating
  <1>2. TypeOK /\ InService /\ InTurn /\ [Next]_vars => InTurn'
    BY InTurnStep
  <1>3. InTurn => OneJobPerRequester
    BY DEF InTurn
  <1>4. QED
    BY <1>1, <1>2, <1>3, ExportTyped, PTL DEF Spec

-----------------------------------------------------------------------------
(* The throttle bounds the jobs in memory.                                  *)

(* Division keeps the order, and numbers I apart have different quotients.  *)
LEMMA DivisionSteps ==
    ASSUME NEW I \in Nat, I > 0, NEW x \in Nat, NEW y \in Nat
    PROVE  /\ x =< y => x \div I =< y \div I
           /\ x + I =< y => x \div I < y \div I
           /\ x \div I \in Nat
  <1> DEFINE p == x \div I
             q == y \div I
  <1>1. p \in Int /\ q \in Int
    BY Z3
  <1>2. I * p =< x /\ x < I * p + I
    BY Z3
  <1>3. I * q =< y /\ y < I * q + I
    BY Z3
  <1> HIDE DEF p, q
  <1>4. ASSUME NEW a \in Int, NEW b \in Int, a < b
        PROVE  I * a + I =< I * b
    <2>1. PICK c \in Nat : b = a + 1 + c
      <3>1. b - a - 1 \in Nat
        BY <1>4
      <3>2. b = a + 1 + (b - a - 1)
        BY <1>4
      <3>3. QED
        BY <3>1, <3>2
    <2>2. I * b = I * a + I + I * c
      BY <2>1, Z3
    <2>3. I * c >= 0
      BY <2>1, Z3
    <2>4. QED
      BY <2>2, <2>3, Z3
  <1>5. x =< y => p =< q
    BY <1>1, <1>2, <1>3, <1>4
  <1>6. x + I =< y => p < q
    BY <1>1, <1>2, <1>3, <1>4
  <1>7. p >= 0
    BY <1>1, <1>2, <1>4
  <1>8. QED
    BY <1>1, <1>5, <1>6, <1>7 DEF p, q

(* Numbers of a stretch that are I apart are few. *)
LEMMA Packed ==
    ASSUME NEW S, NEW g \in [S -> Int], NEW m \in Int, NEW w \in Nat,
           \A a \in S : m =< g[a] /\ g[a] =< m + w,
           \A a, b \in S : a # b => Apart(g[a], g[b])
    PROVE  Cardinality(S) =< w \div Interval + 1
  <1> DEFINE h == [a \in S |-> (g[a] - m) \div Interval]
             K == 0 .. (w \div Interval)
  <1>1. w \div Interval \in Nat
    BY DivisionSteps
  <1>2. \A a \in S : g[a] - m \in Nat /\ g[a] - m =< w
    OBVIOUS
  <1>3. \A a \in S : h[a] \in K
    BY <1>1, <1>2, DivisionSteps
  <1>4. ASSUME NEW a \in S, NEW b \in S, h[a] = h[b]
        PROVE  a = b
    <2>1. g[a] - m \in Nat /\ g[b] - m \in Nat
      BY <1>2
    <2>2. /\ (g[a] - m) \div Interval \in Nat /\ (g[b] - m) \div Interval \in Nat
          /\ g[a] - m + Interval =< g[b] - m =>
                (g[a] - m) \div Interval < (g[b] - m) \div Interval
          /\ g[b] - m + Interval =< g[a] - m =>
                (g[b] - m) \div Interval < (g[a] - m) \div Interval
      BY <2>1, DivisionSteps
    <2>3. ~Apart(g[a], g[b])
      BY <1>4, <2>2 DEF Apart
    <2>4. QED
      BY <2>3
  <1>5. h \in Injection(S, K)
    BY <1>3, <1>4 DEF Injection, IsInjective
  <1>6. IsFiniteSet(K) /\ Cardinality(K) = w \div Interval + 1
    BY <1>1, FS_Interval
  <1>7. QED
    BY <1>5, <1>6, FS_Injection

(* The grants stay those of the jobs that are left. *)
LEMMA NoGrant ==
    ASSUME NEW granted \in [exportJobs -> Time], NEW grants \in [Slot -> Time],
           Spaced(granted, grants), UNCHANGED lastExport,
           exportJobs' \subseteq exportJobs,
           \A q \in Slot : pc'[q] = "create" =>
              pc[q] = "create" /\ loc'[q] = loc[q]
    PROVE  Throttled'
  <1>1. PICK g \in [exportJobs' -> Time] :
           \A job \in exportJobs' : g[job] = granted[job]
    <2>1. [job \in exportJobs' |-> granted[job]] \in [exportJobs' -> Time]
      OBVIOUS
    <2>2. QED
      BY <2>1
  <1>2. \A q \in Slot : Creating(q)' =>
           Creating(q) /\ Beneficiary(q)' = Beneficiary(q) /\ loc'[q] = loc[q]
    BY DEF Creating, Beneficiary
  <1>3. PICK m \in (0 - TTL - Patience) .. MaxTime : \A job \in exportJobs :
           m =< granted[job] /\ granted[job] =< m + TTL + Patience
    BY DEF Spaced
  <1>4. \A job \in exportJobs' : m =< g[job] /\ g[job] =< m + TTL + Patience
    BY <1>1, <1>3
  <1>5. /\ \A job \in exportJobs' :
              /\ lastExport'[job.tenant] # NULL
              /\ g[job] =< lastExport'[job.tenant]
              /\ job.created =< g[job] + Patience
        /\ \A a, b \in exportJobs' :
              a # b /\ a.tenant = b.tenant => Apart(g[a], g[b])
    BY <1>1 DEF Spaced
  <1>6. \A r \in Slot : Creating(r)' =>
              /\ lastExport'[Beneficiary(r)'] # NULL
              /\ loc'[r].since =< grants[r] /\ grants[r] =< lastExport'[Beneficiary(r)']
    BY <1>2 DEF Spaced
  <1>7. \A job \in exportJobs', r \in Slot :
           Creating(r)' /\ Beneficiary(r)' = job.tenant => Apart(g[job], grants[r])
    BY <1>1, <1>2 DEF Spaced
  <1>8. \A r, q \in Slot :
           /\ Creating(r)' /\ Creating(q)' /\ r # q /\ Beneficiary(r)' = Beneficiary(q)'
           => Apart(grants[r], grants[q])
    BY <1>2 DEF Spaced
  <1>9. Spaced(g, grants)'
    BY <1>4, <1>5, <1>6, <1>7, <1>8 DEF Spaced, Apart
  <1>10. QED
    BY <1>1, <1>9 DEF Throttled

(* The throttle grants only what is Interval after all it granted before.   *)
LEMMA ThrottledAllow ==
    ASSUME TypeOK, InService, NEW r \in Slot, AllowExport(r),
           NEW granted \in [exportJobs -> Time], NEW grants \in [Slot -> Time],
           Spaced(granted, grants)
    PROVE  Throttled'
  <1>1. /\ pc[r] = "allow" /\ UNCHANGED <<now, exportJobs>> /\ Others(r)
        /\ now \in Time /\ now \in Nat
    BY AllowExportSlots, Numbers DEF AllowExport, TypeOK
  <1>2. CASE pc'[r] = "idle" /\ lastExport' = lastExport
    <2>1. \A q \in Slot : pc'[q] = "create" => pc[q] = "create" /\ loc'[q] = loc[q]
      BY <1>1, <1>2 DEF Others
    <2>2. QED
      BY <1>1, <1>2, <2>1, NoGrant
  <1>3. CASE /\ pc'[r] = "create" /\ loc'[r] = loc[r]
             /\ lastExport' = [lastExport EXCEPT ![Beneficiary(r)] = now]
             /\ ~(/\ lastExport[Beneficiary(r)] # NULL
                  /\ now - lastExport[Beneficiary(r)] < Interval)
    <2>1. PICK gs \in [Slot -> Time] :
             gs[r] = now /\ \A q \in Slot \ {r} : gs[q] = grants[q]
      <3>1. [grants EXCEPT ![r] = now] \in [Slot -> Time]
        BY <1>1
      <3>2. QED
        BY <3>1
    <2>2. \A q \in Slot : loc'[q] = loc[q] /\ Beneficiary(q)' = Beneficiary(q)
                          /\ (q # r /\ Creating(q)' => Creating(q))
      BY <1>1, <1>3 DEF Others, Beneficiary, Creating
    <2>3. \A q \in Slot : pc[q] # "idle" => Beneficiary(q) \in Tenant
      BY DEF InService, Beneficiary
    <2>4. \A q \in Slot : Creating(q) => Beneficiary(q) \in Tenant
      BY <2>3 DEF Creating
    <2>5. /\ lastExport'[Beneficiary(r)] = now /\ now # NULL
          /\ \A t \in Tenant \ {Beneficiary(r)} : lastExport'[t] = lastExport[t]
          /\ Beneficiary(r) \in Tenant
      BY <1>1, <1>3, <2>3 DEF TypeOK
    <2>6. ASSUME NEW x \in Nat, lastExport[Beneficiary(r)] # NULL,
                 x =< lastExport[Beneficiary(r)]
          PROVE  x =< now /\ Apart(x, now) /\ Apart(now, x)
      <3>1. lastExport[Beneficiary(r)] \in Nat /\ lastExport[Beneficiary(r)] =< now
        BY <2>5, <2>6, Numbers DEF InService
      <3>2. QED
        BY <1>1, <1>3, <2>6, <3>1 DEF Apart
    <2>7. ASSUME NEW job \in exportJobs'
          PROVE  /\ lastExport'[job.tenant] # NULL
                 /\ granted[job] =< lastExport'[job.tenant]
                 /\ job.created =< granted[job] + Patience
                 /\ job.tenant = Beneficiary(r) => Apart(granted[job], now)
      <3>1. /\ job \in exportJobs /\ job.tenant \in Tenant /\ granted[job] \in Nat
            /\ lastExport[job.tenant] # NULL
            /\ granted[job] =< lastExport[job.tenant]
            /\ job.created =< granted[job] + Patience
        BY <1>1, <2>7, Numbers DEF Spaced, Time
      <3>2. CASE job.tenant = Beneficiary(r)
        BY <2>5, <2>6, <3>1, <3>2
      <3>3. CASE job.tenant # Beneficiary(r)
        BY <2>5, <3>1, <3>3
      <3>4. QED
        BY <3>2, <3>3
    <2>8. ASSUME NEW q \in Slot, q # r, Creating(q)'
          PROVE  /\ lastExport'[Beneficiary(q)] # NULL
                 /\ loc'[q].since =< grants[q] /\ grants[q] =< lastExport'[Beneficiary(q)]
                 /\ Beneficiary(q) = Beneficiary(r) =>
                       Apart(grants[q], now) /\ Apart(now, grants[q])
      <3>1. /\ Creating(q) /\ Beneficiary(q) \in Tenant /\ grants[q] \in Nat
            /\ lastExport[Beneficiary(q)] # NULL /\ loc'[q].since =< grants[q]
            /\ grants[q] =< lastExport[Beneficiary(q)]
        BY <2>2, <2>4, <2>8 DEF Spaced, Time
      <3>2. CASE Beneficiary(q) = Beneficiary(r)
        BY <2>5, <2>6, <3>1, <3>2
      <3>3. CASE Beneficiary(q) # Beneficiary(r)
        BY <2>5, <3>1, <3>3
      <3>4. QED
        BY <3>2, <3>3
    <2>9. \A q \in Slot : Creating(q)' =>
             /\ lastExport'[Beneficiary(q)'] # NULL
             /\ loc'[q].since =< gs[q] /\ gs[q] =< lastExport'[Beneficiary(q)']
      <3>1. loc'[r].since =< now
        BY <1>1, <2>2 DEF InService
      <3>2. QED
        BY <1>1, <2>1, <2>2, <2>5, <2>8, <3>1
    <2>10. \A job \in exportJobs', q \in Slot :
             Creating(q)' /\ Beneficiary(q)' = job.tenant => Apart(granted[job], gs[q])
      BY <1>1, <2>1, <2>2, <2>7 DEF Spaced
    <2>11. \A p, q \in Slot :
             /\ Creating(p)' /\ Creating(q)' /\ p # q /\ Beneficiary(p)' = Beneficiary(q)'
             => Apart(gs[p], gs[q])
      BY <2>1, <2>2, <2>8 DEF Spaced
    <2>12. /\ \A a, b \in exportJobs' :
                 a # b /\ a.tenant = b.tenant => Apart(granted[a], granted[b])
           /\ \E m \in (0 - TTL - Patience) .. MaxTime : \A job \in exportJobs' :
                 m =< granted[job] /\ granted[job] =< m + TTL + Patience
      BY <1>1 DEF Spaced
    <2>13. Spaced(granted, gs)'
      BY <2>7, <2>9, <2>10, <2>11, <2>12 DEF Spaced, Apart
    <2>14. QED
      BY <1>1, <2>1, <2>13 DEF Throttled
  <1>4. QED
    BY <1>2, <1>3, AllowExportSlots

(* A job has the grant of the request that opened it; the clean-up at that  *)
(* moment leaves only jobs granted less than a lifetime before.             *)
LEMMA ThrottledCreate ==
    ASSUME TypeOK, InService, NEW r \in Slot, CreateExportJob(r),
           NEW granted \in [exportJobs -> Time], NEW grants \in [Slot -> Time],
           Spaced(granted, grants)
    PROVE  Throttled'
  <1> DEFINE new == NewJob(r)
  <1>1. /\ pc[r] = "create" /\ UNCHANGED <<now, lastExport>> /\ Others(r)
        /\ pc'[r] = "answer" /\ now \in Nat /\ now \in Time
    BY CreateExportJobSlots, Numbers DEF CreateExportJob, Kept, TypeOK
  <1>2. \A job \in exportJobs' \ {new} :
           /\ job \in exportJobs /\ now =< job.created + TTL
           /\ job.created \in Nat /\ job.tenant \in Tenant
    BY CreateExportJobSlots, Numbers DEF Expired
  <1>3. /\ new.tenant = Beneficiary(r) /\ new.created = now /\ new \in exportJobs'
    BY <1>1, NewJobType, CreateExportJobSlots DEF Beneficiary
  <1>4. \A q \in Slot \ {r} : /\ pc'[q] = pc[q] /\ loc'[q] = loc[q]
                             /\ Beneficiary(q)' = Beneficiary(q)
                             /\ Creating(q)' = Creating(q)
    BY <1>1 DEF Others, Beneficiary, Creating
  <1>5. ~Creating(r)' /\ Creating(r)
    BY <1>1 DEF Creating
  <1>6. PICK g \in [exportJobs' -> Time] :
           /\ g[new] = grants[r]
           /\ \A job \in exportJobs' \ {new} : g[job] = granted[job]
    <2>1. [job \in exportJobs' |-> IF job = new THEN grants[r] ELSE granted[job]]
             \in [exportJobs' -> Time]
      BY <1>2
    <2>2. QED
      BY <1>3, <2>1
  <1>m. PICK m \in (0 - TTL - Patience) .. MaxTime : m = now - TTL - Patience
    BY <1>1 DEF Time
  <1>7. /\ lastExport[Beneficiary(r)] # NULL /\ grants[r] \in Nat
        /\ now =< grants[r] + Patience
        /\ grants[r] =< lastExport[Beneficiary(r)] /\ grants[r] =< now
    <2>1. /\ lastExport[Beneficiary(r)] # NULL /\ loc[r].since =< grants[r]
          /\ grants[r] =< lastExport[Beneficiary(r)]
      BY <1>5 DEF Spaced
    <2>2. now =< loc[r].since + Patience /\ Beneficiary(r) \in Tenant
      BY <1>1 DEF InService, Beneficiary
    <2>3. /\ lastExport[Beneficiary(r)] \in Nat /\ lastExport[Beneficiary(r)] =< now
          /\ loc[r].since \in Nat /\ grants[r] \in Nat
      BY <2>1, <2>2, Numbers DEF InService, Time
    <2>4. QED
      BY <1>1, <2>1, <2>2, <2>3
  <1>8. ASSUME NEW job \in exportJobs'
        PROVE  /\ lastExport'[job.tenant] # NULL
               /\ g[job] =< lastExport'[job.tenant]
               /\ job.created =< g[job] + Patience
               /\ m =< g[job] /\ g[job] =< m + TTL + Patience
    <2>1. CASE job = new
      BY <1>1, <1>3, <1>6, <1>7, <1>m, <2>1
    <2>2. CASE job # new
      <3>1. /\ job \in exportJobs /\ g[job] = granted[job] /\ granted[job] \in Nat
            /\ lastExport[job.tenant] # NULL
            /\ granted[job] =< lastExport[job.tenant]
            /\ job.created =< granted[job] + Patience
        BY <1>2, <1>6, <2>2 DEF Spaced, Time
      <3>2. /\ lastExport[job.tenant] \in Nat /\ lastExport[job.tenant] =< now
            /\ now =< job.created + TTL /\ job.created \in Nat
        BY <1>2, <2>2, <3>1, Numbers DEF InService
      <3>3. QED
        BY <1>1, <1>m, <3>1, <3>2
    <2>3. QED
      BY <2>1, <2>2
  <1>9. \E k \in (0 - TTL - Patience) .. MaxTime : \A job \in exportJobs' :
           k =< g[job] /\ g[job] =< k + TTL + Patience
    BY <1>8
  <1>10. \A a, b \in exportJobs' :
            a # b /\ a.tenant = b.tenant => Apart(g[a], g[b])
    <2>1. \A a \in exportJobs' \ {new} : a.tenant = Beneficiary(r) =>
             Apart(g[a], grants[r]) /\ Apart(grants[r], g[a])
      BY <1>2, <1>5, <1>6 DEF Spaced, Apart
    <2>2. \A a, b \in exportJobs' \ {new} :
             a # b /\ a.tenant = b.tenant => Apart(g[a], g[b])
      BY <1>2, <1>6 DEF Spaced
    <2>3. QED
      BY <1>3, <1>6, <2>1, <2>2
  <1>11. \A q \in Slot : Creating(q)' =>
              /\ lastExport'[Beneficiary(q)'] # NULL
              /\ loc'[q].since =< grants[q] /\ grants[q] =< lastExport'[Beneficiary(q)']
    BY <1>1, <1>4, <1>5 DEF Spaced
  <1>12. \A job \in exportJobs', q \in Slot :
           Creating(q)' /\ Beneficiary(q)' = job.tenant => Apart(g[job], grants[q])
    <2>1. SUFFICES ASSUME NEW job \in exportJobs', NEW q \in Slot \ {r},
                          Creating(q), Beneficiary(q) = job.tenant
                   PROVE  Apart(g[job], grants[q])
      BY <1>4, <1>5
    <2>2. CASE job = new
      BY <1>3, <1>5, <1>6, <2>1, <2>2 DEF Spaced
    <2>3. CASE job # new
      BY <1>2, <1>6, <2>1, <2>3 DEF Spaced
    <2>4. QED
      BY <2>2, <2>3
  <1>13. \A p, q \in Slot :
           /\ Creating(p)' /\ Creating(q)' /\ p # q /\ Beneficiary(p)' = Beneficiary(q)'
           => Apart(grants[p], grants[q])
    BY <1>4, <1>5 DEF Spaced
  <1>14. Spaced(g, grants)'
    BY <1>8, <1>9, <1>10, <1>11, <1>12, <1>13 DEF Spaced, Apart
  <1>15. QED
    BY <1>6, <1>14 DEF Throttled

LEMMA ThrottledStep ==
    ASSUME TypeOK, InService, Throttled, [Next]_vars
    PROVE  Throttled'
  <1> PICK granted \in [exportJobs -> Time], grants \in [Slot -> Time] :
         Spaced(granted, grants)
    BY DEF Throttled
  <1> DEFINE Same(q) == pc'[q] = "create" => pc[q] = "create" /\ loc'[q] = loc[q]
  <1>1. CASE UNCHANGED vars
    BY <1>1, NoGrant DEF vars
  <1>2. CASE Tick
    BY <1>2, NoGrant DEF Tick
  <1>3. CASE Restart
    <2>1. /\ exportJobs' = {} /\ \A q \in Slot : ~Creating(q)'
          /\ [job \in {} |-> 0] \in [exportJobs' -> Time]
      BY <1>3 DEF Restart, Creating
    <2>2. Spaced([job \in {} |-> 0], grants)'
      BY <2>1 DEF Spaced
    <2>3. QED
      BY <2>1, <2>2 DEF Throttled
  <1>4. ASSUME NEW r \in Slot, RequestExport(r)
        PROVE  Throttled'
    <2>1. \A q \in Slot : Same(q)
      BY <1>4, RequestExportSlots DEF Others
    <2>2. QED
      BY <1>4, <2>1, NoGrant DEF RequestExport
  <1>5. ASSUME NEW r \in Slot, FindRecent(r)
        PROVE  Throttled'
    <2>1. \A q \in Slot : Same(q)
      BY <1>5, FindRecentSlots DEF Others, Kept
    <2>2. QED
      BY <1>5, <2>1, FindRecentSlots, NoGrant DEF FindRecent
  <1>6. ASSUME NEW r \in Slot, FindNone(r)
        PROVE  Throttled'
    <2>1. \A q \in Slot : Same(q)
      BY <1>6, FindNoneSlots DEF Others
    <2>2. QED
      BY <1>6, <2>1, FindNoneSlots, NoGrant DEF FindNone
  <1>7. ASSUME NEW r \in Slot, AllowExport(r)
        PROVE  Throttled'
    BY <1>7, ThrottledAllow
  <1>8. ASSUME NEW r \in Slot, CreateExportJob(r)
        PROVE  Throttled'
    BY <1>8, ThrottledCreate
  <1>9. ASSUME NEW r \in Slot, Answer(r)
        PROVE  Throttled'
    <2>1. \A q \in Slot : Same(q)
      BY <1>9, AnswerSlots DEF Others
    <2>2. QED
      BY <1>9, <2>1, NoGrant DEF Answer
  <1>10. QED
    BY <1>1, <1>2, <1>3, <1>4, <1>5, <1>6, <1>7, <1>8, <1>9 DEF Next

(* The jobs of a tenant are as few as grants Interval apart in a stretch.   *)
LEMMA ThrottledBounds ==
    ASSUME TypeOK, Throttled
    PROVE  JobsBounded
  <1>1. PICK granted \in [exportJobs -> Time], grants \in [Slot -> Time] :
           Spaced(granted, grants)
    BY DEF Throttled
  <1>2. PICK m \in (0 - TTL - Patience) .. MaxTime : \A job \in exportJobs :
           m =< granted[job] /\ granted[job] =< m + TTL + Patience
    BY <1>1 DEF Spaced
  <1>3. SUFFICES ASSUME NEW t \in Tenant
                 PROVE  Cardinality({job \in exportJobs : job.tenant = t})
                           =< (TTL + Patience) \div Interval + 1
    BY DEF JobsBounded
  <1> DEFINE S == {job \in exportJobs : job.tenant = t}
             g == [job \in S |-> granted[job]]
  <1>4. g \in [S -> Int] /\ \A job \in S : g[job] = granted[job]
    BY DEF Time
  <1>5. \A a, b \in S : a # b => Apart(g[a], g[b])
    BY <1>1, <1>4 DEF Spaced
  <1>6. \A a \in S : m =< g[a] /\ g[a] =< m + (TTL + Patience)
    BY <1>2, <1>4
  <1>7. m \in Int /\ TTL + Patience \in Nat
    OBVIOUS
  <1> HIDE DEF S, g
  <1>8. Cardinality(S) =< (TTL + Patience) \div Interval + 1
    BY <1>4, <1>5, <1>6, <1>7, Packed
  <1>9. QED
    BY <1>8 DEF S

(* JobsBounded of run export_jobs for every lifetime, interval and number   *)
(* of requests, with no limit on their patience but its own: though jobs    *)
(* are only deleted when another is looked for or opened, AllowExport keeps *)
(* those of a tenant to what fits in a lifetime.                            *)
THEOREM FewJobs == Spec => []JobsBounded
  <1>1. Init => Throttled
    <2>1. SUFFICES ASSUME Init
                   PROVE  Throttled
      OBVIOUS
    <2>2. /\ exportJobs = {} /\ \A q \in Slot : ~Creating(q)
          /\ [job \in {} |-> 0] \in [exportJobs -> Time]
          /\ [q \in Slot |-> 0] \in [Slot -> Time]
      BY <2>1 DEF Init, Creating, Time
    <2>3. Spaced([job \in {} |-> 0], [q \in Slot |-> 0])
      BY <2>2 DEF Spaced
    <2>4. QED
      BY <2>2, <2>3 DEF Throttled
  <1>2. TypeOK /\ InService /\ Throttled /\ [Next]_vars => Throttled'
    BY ThrottledStep
  <1>3. TypeOK /\ Throttled => JobsBounded
    BY ThrottledBounds
  <1>4. QED
    BY <1>1, <1>2, <1>3, ExportTyped, PTL DEF Spec
=============================================================================
