---------------------------- MODULE PipelineManager ----------------------------
(***************************************************************************)
(* pipeline_manager/ for one replication: the serializer that runs the     *)
(* jobs of a topic one after the other (pipelineOpSerializer.go), the      *)
(* replication status and the updater, a goroutine that stops and starts   *)
(* the pipeline and retries (pipeline_manager.go).  A job comes from a     *)
(* change of the replication spec or of the remote cluster reference       *)
(* (replication_manager/metakv_change_listener.go) or from the supervisor  *)
(* of a pipeline that failed (replication_manager.go).                     *)
(*                                                                         *)
(* Objects live as long as some goroutine refers to them: a replication    *)
(* status may outlive its entry in the cache of the spec service, and an   *)
(* updater its status.  Error texts are left out, so the overflow of the   *)
(* error channel and the fallback to no compression are.                   *)
(***************************************************************************)
EXTENDS Naturals, Sequences, FiniteSets

CONSTANTS
  MaxSpecs,      \* bound on creations of the spec
  MaxChanges,    \* bound on changes of spec and remote cluster and the exit
  MaxFailures,   \* bound on failures of a pipeline, of its start or its stop
  MaxQueue,      \* MaxNonblockingQueueJobs
  Handlers,      \* slots for goroutines of the serializer
  Statuses,      \* replication statuses
  Updaters,
  Pipelines

ASSUME PipelineManagerAssumption ==
  /\ MaxSpecs \in Nat \ {0} /\ MaxChanges \in Nat /\ MaxFailures \in Nat
  /\ MaxQueue \in Nat \ {0}
  /\ Handlers # {} /\ Statuses # {} /\ Updaters # {} /\ Pipelines # {}
  /\ 0 \notin Statuses \union Updaters \union Pipelines

VARIABLES
  cache,     \* the entry of the spec service's cache: spec and derived object
  cluster,   \* does the remote cluster reference exist?
  queue,     \* the topic's channel of jobs
  mapped,    \* is it in jobTopicMap?
  handlers,  \* handleJobs and cleanupJob goroutines
  stopped,   \* the serializer's stopped flag
  exit,      \* OnExit: what it does next
  awaited,   \* the updater whose done_ch OnExit waits for
  status,    \* the replication statuses
  updater,   \* the updaters
  pipeline,  \* the pipelines
  docs,      \* the filter the checkpoint documents go back to, None without documents
  reports,   \* failures that the supervisor is about to report
  changes,   \* counts what MaxChanges bounds
  failures,  \* counts what MaxFailures bounds
  refused,   \* history: was a job refused because the queue was full?
  restream   \* history: the last filter whose data are to be streamed again

serializer == <<queue, mapped, handlers, stopped, refused>>
objects == <<status, updater, pipeline>>
bounds == <<reports, changes, failures, restream>>
exiting == <<exit, awaited>>
vars == <<cache, cluster, serializer, exiting, objects, docs, bounds>>

None == 0

Jobs == {"init", "update", "updateErr", "delete", "reinit"}
Filters == 1..MaxChanges + 1   \* filter expressions, in the order the user sets them
Live == {"starting", "running", "error"}

NoHandler  == [pc |-> "none", job |-> "init", status |-> None, updater |-> None]
NoStatus   == [pipeline |-> None, spec |-> None, updater |-> None]
NoUpdater  == [status |-> None, pc |-> "none", from |-> "now", failed |-> FALSE,
               now |-> FALSE, err |-> FALSE, stop |-> FALSE, ok |-> TRUE, timer |-> "none",
               target |-> None, spec |-> None, filter |-> None, pipeline |-> None]
NoPipeline == [state |-> "none", filter |-> None]
DoneUpdater == [NoUpdater EXCEPT !.pc = "done", !.stop = TRUE]

TypeOK ==
  /\ cache \in [present : BOOLEAN, spec : 0..MaxSpecs, created : 0..MaxSpecs, active : BOOLEAN,
                filter : Filters, derived : Statuses \union {None}]
  /\ cluster \in BOOLEAN
  /\ queue \in Seq(Jobs) /\ Len(queue) <= MaxQueue
  /\ mapped \in BOOLEAN /\ stopped \in BOOLEAN /\ refused \in BOOLEAN
  /\ handlers \in [Handlers -> [pc : {"none", "loop", "job", "wait", "cleanup"}, job : Jobs,
                                status : Statuses \union {None},
                                updater : Updaters \union {None}]]
  /\ exit \in {"no", "serializer", "updaters", "wait", "done"}
  /\ awaited \in Updaters \union {None}
  /\ status \in [Statuses -> [pipeline : Pipelines \union {None}, spec : 0..MaxSpecs,
                              updater : Updaters \union {None}]]
  /\ updater \in [Updaters ->
       [status : Statuses \union {None},
        pc : {"none", "idle", "clean", "drop", "erase", "check", "validate", "set", "start",
              "end", "done"},
        from : {"now", "err", "fin"}, failed : BOOLEAN, now : BOOLEAN, err : BOOLEAN,
        stop : BOOLEAN, ok : BOOLEAN, timer : {"none", "set", "fired"},
        target : Statuses \union {None}, spec : 0..MaxSpecs, filter : Filters \union {None},
        pipeline : Pipelines \union {None}]]
  /\ pipeline \in [Pipelines -> [state : {"none"} \union Live, filter : Filters \union {None}]]
  /\ docs \in Filters \union {None}
  /\ restream \in {None} \union Filters
  /\ reports \in 0..MaxFailures /\ changes \in 0..MaxChanges /\ failures \in 0..MaxFailures

(* initReplications, for a spec found in metakv                            *)
Init ==
  /\ \E active \in BOOLEAN :
       /\ cache = [present |-> TRUE, spec |-> 1, created |-> 1, active |-> active,
                   filter |-> 1, derived |-> None]
       /\ queue = <<IF active THEN "update" ELSE "init">>
  /\ cluster = TRUE
  /\ mapped = TRUE
  /\ handlers = [[g \in Handlers |-> NoHandler] EXCEPT ![CHOOSE h \in Handlers : TRUE].pc = "loop"]
  /\ stopped = FALSE
  /\ exit = "no"
  /\ awaited = None
  /\ status = [r \in Statuses |-> NoStatus]
  /\ updater = [u \in Updaters |-> NoUpdater]
  /\ pipeline = [p \in Pipelines |-> NoPipeline]
  /\ docs = None
  /\ reports = 0
  /\ changes = 0
  /\ failures = 0
  /\ refused = FALSE
  /\ restream = 1

-----------------------------------------------------------------------------
(***************************************************************************)
(* The serializer.                                                         *)
(***************************************************************************)

Fresh(S, Free(_)) == CHOOSE x \in S : Free(x)

Idle(h) == handlers[h].pc = "none"

(* go handleJobs                                                           *)
Spawn ==
  /\ \E h \in Handlers : Idle(h)
  /\ handlers' = [handlers EXCEPT ![Fresh(Handlers, Idle)].pc = "loop"]

(* mutants of distributeJob: one job more than the channel holds; a handler *)
(* launched whenever the channel is empty                                  *)
UnboundedQueue(job) ==
  /\ IF stopped THEN UNCHANGED <<queue, mapped, handlers, refused>>
     ELSE IF ~mapped THEN /\ queue' = <<job>>
                          /\ mapped' = TRUE
                          /\ Spawn
                          /\ UNCHANGED refused
     ELSE IF Len(queue) <= MaxQueue THEN /\ queue' = Append(queue, job)
                                         /\ UNCHANGED <<mapped, handlers, refused>>
     ELSE /\ refused' = TRUE
          /\ UNCHANGED <<queue, mapped, handlers>>
  /\ UNCHANGED stopped

HandlerPerJob(job) ==
  /\ IF stopped THEN UNCHANGED <<queue, mapped, handlers, refused>>
     ELSE IF queue = <<>> THEN /\ queue' = <<job>>
                               /\ mapped' = TRUE
                               /\ Spawn
                               /\ UNCHANGED refused
     ELSE IF Len(queue) < MaxQueue THEN /\ queue' = Append(queue, job)
                                        /\ UNCHANGED <<mapped, handlers, refused>>
     ELSE /\ refused' = TRUE
          /\ UNCHANGED <<queue, mapped, handlers>>
  /\ UNCHANGED stopped

(* distributeJob, behind the isStopped test of its callers                 *)
distributeJob(job) ==
  /\ IF stopped THEN UNCHANGED <<queue, mapped, handlers, refused>>
     ELSE IF ~mapped THEN /\ queue' = <<job>>
                          /\ mapped' = TRUE
                          /\ Spawn
                          /\ UNCHANGED refused
     ELSE IF Len(queue) < MaxQueue THEN /\ queue' = Append(queue, job)
                                        /\ UNCHANGED <<mapped, handlers, refused>>
     ELSE /\ refused' = TRUE
          /\ UNCHANGED <<queue, mapped, handlers>>
  /\ UNCHANGED stopped

(* handleJobs: the next job, or none left                                  *)
TakeJob(h) ==
  /\ handlers[h].pc = "loop"
  /\ IF queue = <<>>
     THEN /\ handlers' = [handlers EXCEPT ![h].pc = IF stopped THEN "none" ELSE "cleanup"]
          /\ UNCHANGED queue
     ELSE /\ queue' = Tail(queue)
          /\ handlers' = [handlers EXCEPT ![h] =
               IF stopped THEN NoHandler ELSE [NoHandler EXCEPT !.pc = "job", !.job = Head(queue)]]
  /\ UNCHANGED <<cache, cluster, mapped, stopped, refused, exiting, objects, docs, bounds>>

(* mutant of cleanupJob: the channel is taken out of the map unseen         *)
CleanupUnseen(h) ==
  /\ handlers[h].pc = "cleanup"
  /\ mapped' = FALSE
  /\ handlers' = [handlers EXCEPT ![h].pc = "none"]
  /\ UNCHANGED <<cache, cluster, queue, stopped, refused, exiting, objects, docs, bounds>>

(* cleanupJob, with the handler it launches when a job came in             *)
cleanupJob(h) ==
  /\ handlers[h].pc = "cleanup"
  /\ mapped' = (mapped /\ queue # <<>>)
  /\ handlers' = [handlers EXCEPT ![h].pc =
                    IF mapped /\ queue # <<>> /\ ~stopped THEN "loop" ELSE "none"]
  /\ UNCHANGED <<cache, cluster, queue, stopped, refused, exiting, objects, docs, bounds>>

-----------------------------------------------------------------------------
(***************************************************************************)
(* What the jobs do.                                                       *)
(***************************************************************************)

FreeStatus(r) ==
  /\ r # cache.derived
  /\ \A u \in Updaters : updater[u].pc \notin {"none", "done"} =>
                           r # updater[u].status /\ r # updater[u].target
  /\ \A h \in Handlers : r # handlers[h].status
FreeUpdater(u) ==
  /\ updater[u].pc \in {"none", "done"}
  /\ \A r \in Statuses : FreeStatus(r) \/ status[r].updater # u
  /\ \A h \in Handlers : u # handlers[h].updater

NewUpdater(r) == [NoUpdater EXCEPT !.status = r, !.pc = "idle"]

(* what a job tells updater u: nothing, sendUpdateNow or sendUpdateErr, each *)
(* a token in a channel of capacity 1, or the first half of stop()         *)
Notified(u, what) ==
  CASE what = "stop" -> [u EXCEPT !.stop = TRUE]
    [] what = "err" /\ u.pc # "done" -> [u EXCEPT !.err = TRUE]
    [] what = "now" /\ u.pc # "done" -> [u EXCEPT !.now = TRUE]
    [] OTHER -> u

(* SetDerivedObj of a status fails when the cache has no entry             *)
Derived(r) == IF cache.present THEN [cache EXCEPT !.derived = r] ELSE cache

(***************************************************************************)
(* GetOrCreateReplicationStatus, and what its updater is then told         *)
(***************************************************************************)
GetOrCreate(what) ==
  IF cache.derived # None
  THEN LET u == status[cache.derived].updater
       IN  /\ updater' = [updater EXCEPT ![u] = Notified(@, what)]
           /\ UNCHANGED <<cache, status>>
  ELSE /\ \E r \in Statuses : FreeStatus(r)
       /\ \E u \in Updaters : FreeUpdater(u)
       /\ LET r == Fresh(Statuses, FreeStatus)
              u == Fresh(Updaters, FreeUpdater)
          IN  /\ cache' = Derived(r)
              /\ status' = [status EXCEPT ![r] = [NoStatus EXCEPT !.updater = u]]
              /\ updater' = [updater EXCEPT ![u] = Notified(NewUpdater(r), what)]

Back(h) == handlers' = [handlers EXCEPT ![h] = [NoHandler EXCEPT !.pc = "loop"]]

InitJob(h) ==
  /\ handlers[h].pc = "job" /\ handlers[h].job = "init"
  /\ GetOrCreate("nothing")
  /\ Back(h)
  /\ UNCHANGED <<cluster, queue, mapped, stopped, refused, exiting, pipeline, docs, bounds>>

(* Update(topic, cur_err)                                                  *)
UpdateJob(h) ==
  /\ handlers[h].pc = "job" /\ handlers[h].job \in {"update", "updateErr"}
  /\ GetOrCreate(IF handlers[h].job = "update" THEN "now" ELSE "err")
  /\ Back(h)
  /\ UNCHANGED <<cluster, queue, mapped, stopped, refused, exiting, pipeline, docs, bounds>>

(* RemoveReplicationStatus: updater.stop() returns at once when the updater *)
(* was stopped before, and waits for done_ch otherwise                     *)
DeleteJob(h) ==
  /\ handlers[h].pc = "job" /\ handlers[h].job = "delete"
  /\ IF cache.derived = None \/ updater[status[cache.derived].updater].stop
     THEN Back(h) /\ UNCHANGED updater
     ELSE LET u == status[cache.derived].updater
          IN  /\ updater' = [updater EXCEPT ![u].stop = TRUE]
              /\ handlers' = [handlers EXCEPT ![h].pc = "wait", ![h].updater = u]
  /\ UNCHANGED <<cache, cluster, queue, mapped, stopped, refused, exiting, status, pipeline, docs, bounds>>

Deleted(h) ==
  /\ handlers[h].pc = "wait" /\ handlers[h].job = "delete"
  /\ updater[handlers[h].updater].pc = "done"
  /\ Back(h)
  /\ UNCHANGED <<cache, cluster, queue, mapped, stopped, refused, exiting, objects, docs, bounds>>

(* CleanupPipeline up to the wait in updater.stop()                        *)
ReInitJob(h) ==
  /\ handlers[h].pc = "job" /\ handlers[h].job = "reinit"
  /\ GetOrCreate("stop")
  /\ LET r == IF cache.derived # None THEN cache.derived ELSE Fresh(Statuses, FreeStatus)
     IN  handlers' = [handlers EXCEPT ![h].pc = "wait", ![h].status = r,
                        ![h].updater = IF cache.derived # None /\ updater[status[r].updater].stop
                                       THEN None ELSE status'[r].updater]
  /\ UNCHANGED <<cluster, queue, mapped, stopped, refused, exiting, pipeline, docs, bounds>>


(* the rest of CleanupPipeline: the checkpoint documents are deleted, and   *)
(* an updater launched whether that succeeded or not; Update() comes next  *)
Relaunch(h) ==
  /\ handlers[h].pc = "wait" /\ handlers[h].job = "reinit"
  /\ handlers[h].updater # None => updater[handlers[h].updater].pc = "done"
  /\ \/ docs' = None /\ UNCHANGED <<failures, restream>>
     \/ failures < MaxFailures /\ failures' = failures + 1 /\ restream' = None /\ UNCHANGED docs
  /\ \E u \in Updaters : FreeUpdater(u)
  /\ LET r == handlers[h].status
         u == Fresh(Updaters, FreeUpdater)
     IN  /\ status' = [status EXCEPT ![r].updater = u]
         /\ updater' = [updater EXCEPT ![u] = NewUpdater(r)]
  /\ handlers' = [handlers EXCEPT ![h] = [NoHandler EXCEPT !.pc = "job", !.job = "update"]]
  /\ UNCHANGED <<cache, cluster, queue, mapped, stopped, refused, exiting, pipeline, reports, changes>>

-----------------------------------------------------------------------------
(***************************************************************************)
(* The updater.  Its select takes any channel that is ready, so a stopped   *)
(* updater may still run an update.                                        *)
(***************************************************************************)

Step(u, pc) == [updater[u] EXCEPT !.pc = pc]

Replicating(r) == status[r].pipeline # None /\ pipeline[status[r].pipeline].state = "running"

(* the pipeline is gone from every status that refers to it: one that is    *)
(* stopped is never stopped again nor counted as replicating               *)
Forget(p) == [r \in Statuses |-> IF status[r].pipeline = p THEN [status[r] EXCEPT !.pipeline = None]
                                                           ELSE status[r]]


(* StopPipeline up to the cleanup, called by updater u with state me.  The  *)
(* pipeline is that of the updater's own status and is removed from the    *)
(* status in the cache, whatever pipeline that one has.  A checkpoint is   *)
(* tried first; it stands for those before it, since documents are read    *)
(* when a pipeline starts.  The stop may report errors, but its parts end  *)
(* all the same.                                                           *)
StopPipeline(u, me) ==
  LET p == status[me.status].pipeline
      d == cache.derived
  IN  /\ IF p = None
         THEN /\ updater' = [updater EXCEPT ![u] = [me EXCEPT !.pc = "clean"]]
              /\ UNCHANGED <<status, pipeline, docs, failures>>
         ELSE /\ \/ /\ updater' = [updater EXCEPT ![u] = [me EXCEPT !.pc = "clean"]]
                    /\ UNCHANGED failures
                 \/ /\ failures < MaxFailures /\ failures' = failures + 1
                    /\ updater' = [updater EXCEPT ![u] =
                                     [me EXCEPT !.pc = "clean", !.failed = TRUE]]
              /\ docs' \in {docs, pipeline[p].filter}
              /\ pipeline' = [pipeline EXCEPT ![p] = NoPipeline]
              /\ status' = [r \in Statuses |-> IF r = d THEN [status[r] EXCEPT !.pipeline = None]
                                                        ELSE Forget(p)[r]]
      /\ UNCHANGED <<cache, cluster, serializer, exiting, reports, changes, restream>>

TakeFin(u) ==
  /\ updater[u].pc = "idle" /\ updater[u].stop
  /\ StopPipeline(u, [updater[u] EXCEPT !.from = "fin"])

TakeNow(u) ==
  /\ updater[u].pc = "idle" /\ updater[u].now
  /\ StopPipeline(u, [updater[u] EXCEPT !.from = "now", !.now = FALSE])

TakeErr(u) ==
  /\ updater[u].pc = "idle" /\ updater[u].err /\ updater[u].ok
  /\ StopPipeline(u, [updater[u] EXCEPT !.from = "err", !.err = FALSE])

(* an error after a failed update waits for the timer, which is set if it   *)
(* is not already                                                          *)
PutOffErr(u) ==
  /\ updater[u].pc = "idle" /\ updater[u].err /\ ~updater[u].ok
  /\ updater' = [updater EXCEPT ![u].err = FALSE, ![u].timer = IF @ = "none" THEN "set" ELSE @]
  /\ UNCHANGED <<cache, cluster, serializer, exiting, status, pipeline, docs, bounds>>

FireTimer(u) ==
  /\ updater[u].timer = "set" /\ updater[u].pc # "done"
  /\ updater' = [updater EXCEPT ![u].timer = "fired", ![u].now = TRUE]
  /\ UNCHANGED <<cache, cluster, serializer, exiting, status, pipeline, docs, bounds>>

(* where StopPipeline returns to                                           *)
AfterStop(u) ==
  IF updater[u].from = "fin" THEN DoneUpdater
  ELSE Step(u, IF updater[u].failed THEN "end" ELSE "check")

(* is the spec deleted, or deleted and re-created?                         *)
CleanupNeeded(r) == cache.spec = None \/ (status[r].spec # None /\ status[r].spec # cache.spec)

(* DelCheckpointsDocs, whose error is ignored                              *)
Cleanup(u) ==
  /\ updater[u].pc = "clean"
  /\ IF CleanupNeeded(updater[u].status)
     THEN /\ updater' = [updater EXCEPT ![u] = Step(u, "drop")]
          /\ docs' \in {None, docs}
     ELSE /\ updater' = [updater EXCEPT ![u] = AfterStop(u)]
          /\ UNCHANGED docs
  /\ UNCHANGED <<cache, cluster, serializer, exiting, status, pipeline, bounds>>

(* SetDerivedObj(nil): the Get, and the Upsert of an entry with a spec      *)
DropStatus(u) ==
  /\ updater[u].pc = "drop"
  /\ IF cache.present /\ cache.spec = None
     THEN updater' = [updater EXCEPT ![u] = Step(u, "erase")] /\ UNCHANGED cache
     ELSE /\ updater' = [updater EXCEPT ![u] = AfterStop(u)]
          /\ cache' = [cache EXCEPT !.derived = None]
  /\ UNCHANGED <<cluster, serializer, exiting, status, pipeline, docs, bounds>>

(* its Delete of an entry that had no spec when it was read                *)
EraseEntry(u) ==
  /\ updater[u].pc = "erase"
  /\ cache' = [cache EXCEPT !.present = FALSE, !.spec = None, !.derived = None]
  /\ updater' = [updater EXCEPT ![u] = AfterStop(u)]
  /\ UNCHANGED <<cluster, serializer, exiting, status, pipeline, docs, bounds>>

CheckActiveness(u) ==
  /\ updater[u].pc = "check"
  /\ updater' = [updater EXCEPT ![u] =
       Step(u, IF cache.spec # None /\ cache.active THEN "validate" ELSE "end")]
  /\ UNCHANGED <<cache, cluster, serializer, exiting, status, pipeline, docs, bounds>>

(* StartPipeline up to the construction of the pipeline, for the status in  *)
(* the cache and the spec of the moment                                    *)
ConstructPipeline(u) ==
  LET Failed == [Step(u, "end") EXCEPT !.failed = TRUE]
      r == cache.derived
  IN  /\ updater[u].pc = "validate"
      /\ \/ /\ IF r = None THEN updater' = [updater EXCEPT ![u] = Failed]
               ELSE IF Replicating(r) THEN updater' = [updater EXCEPT ![u] = Step(u, "end")]
               ELSE IF cache.spec = None \/ ~cluster THEN updater' = [updater EXCEPT ![u] = Failed]
               ELSE updater' = [updater EXCEPT ![u] =
                      [Step(u, "set") EXCEPT !.target = r, !.spec = cache.spec, !.filter = cache.filter]]
            /\ UNCHANGED failures
         \/ /\ r # None /\ ~Replicating(r)
            /\ failures < MaxFailures /\ failures' = failures + 1
            /\ updater' = [updater EXCEPT ![u] = Failed]
      /\ UNCHANGED <<cache, cluster, serializer, exiting, status, pipeline, docs, reports, changes, restream>>

FreePipeline(p) == pipeline[p].state = "none" /\ \A u \in Updaters : updater[u].pipeline # p

(* SetPipeline and the start of the pipeline, which reads the checkpoints   *)
SetPipeline(u) ==
  /\ updater[u].pc = "set"
  /\ \E p \in Pipelines : FreePipeline(p)
  /\ LET p == Fresh(Pipelines, FreePipeline)
         me == updater[u]
     IN  /\ pipeline' = [pipeline EXCEPT ![p] =
              [state |-> "starting", filter |-> IF docs = None THEN me.filter ELSE docs]]
         /\ status' = [status EXCEPT ![me.target].pipeline = p, ![me.target].spec = me.spec]
         /\ updater' = [updater EXCEPT ![u] =
              [Step(u, "start") EXCEPT !.pipeline = p, !.target = None, !.spec = None, !.filter = None]]
  /\ UNCHANGED <<cache, cluster, serializer, exiting, docs, bounds>>

(* Start ends.  Whatever failed, the state is left as it was.              *)
StartPipeline(u) ==
  LET p == updater[u].pipeline
      Ended == [Step(u, "end") EXCEPT !.pipeline = None]
  IN  /\ updater[u].pc = "start"
      /\ \/ /\ pipeline[p].state = "starting"
            /\ pipeline' = [pipeline EXCEPT ![p].state = "running"]
            /\ updater' = [updater EXCEPT ![u] = Ended]
            /\ UNCHANGED failures
         \/ /\ \/ pipeline[p].state # "starting" /\ UNCHANGED failures
               \/ pipeline[p].state = "starting" /\ failures < MaxFailures /\ failures' = failures + 1
            /\ updater' = [updater EXCEPT ![u] = [Ended EXCEPT !.failed = TRUE]]
            /\ UNCHANGED pipeline
      /\ UNCHANGED <<cache, cluster, serializer, exiting, status, docs, reports, changes, restream>>


(* update() returns: the timer is cancelled; a failure of a manual update   *)
(* comes back as an error, one of a repair sets the timer                  *)
EndUpdate(u) ==
  /\ updater[u].pc = "end"
  /\ updater' = [updater EXCEPT ![u] =
       [@ EXCEPT !.pc = "idle", !.ok = ~updater[u].failed, !.failed = FALSE, !.from = "now",
                 !.err = @ \/ (updater[u].failed /\ updater[u].from = "now"),
                 !.timer = IF updater[u].failed /\ updater[u].from = "err" THEN "set" ELSE "none"]]
  /\ UNCHANGED <<cache, cluster, serializer, exiting, status, pipeline, docs, bounds>>

-----------------------------------------------------------------------------
(***************************************************************************)
(* What happens around the pipeline manager.                               *)
(***************************************************************************)

(* setError of the supervisor                                              *)
FailPipeline(p) ==
  /\ failures < MaxFailures /\ failures' = failures + 1
  /\ pipeline[p].state \in {"starting", "running"}
  /\ pipeline' = [pipeline EXCEPT ![p].state = "error"]
  /\ reports' = reports + 1
  /\ UNCHANGED <<cache, cluster, serializer, exiting, status, updater, docs, changes, restream>>

(* OnError, possibly when the pipeline is already gone                     *)
OnError ==
  /\ reports > 0 /\ reports' = reports - 1
  /\ distributeJob("updateErr")
  /\ UNCHANGED <<cache, cluster, exiting, objects, docs, changes, failures, restream>>

Change == changes < MaxChanges /\ changes' = changes + 1

(* the specification is changed: updateCache holds cache_lock until         *)
(* replicationSpecChangeHandlerCallback has queued the job                 *)
PauseOrResume ==
  /\ Change /\ cache.spec # None
  /\ cache' = [cache EXCEPT !.active = ~@]
  /\ distributeJob("update")
  /\ UNCHANGED <<cluster, exiting, objects, docs, reports, failures, restream>>

(* a new filter, to be applied to all data: filter_skip_restream is false   *)
ChangeFilter ==
  /\ Change /\ cache.spec # None
  /\ cache' = [cache EXCEPT !.filter = @ + 1]
  /\ IF cache.active THEN distributeJob("reinit") /\ restream' = cache.filter + 1
                     ELSE UNCHANGED <<serializer, restream>>
  /\ UNCHANGED <<cluster, exiting, objects, docs, reports, failures>>

(* another critical setting, or the credentials of the remote cluster      *)
ChangeSettings ==
  /\ Change /\ cache.spec # None /\ cache.active
  /\ distributeJob("update")
  /\ UNCHANGED <<cache, cluster, exiting, objects, docs, reports, failures, restream>>

DeleteSpec ==
  /\ Change /\ cache.spec # None
  /\ cache' = [cache EXCEPT !.spec = None]
  /\ distributeJob("delete")
  /\ UNCHANGED <<cluster, exiting, objects, docs, reports, failures, restream>>

CreateSpec ==
  /\ Change /\ cache.spec = None /\ cache.created < MaxSpecs
  /\ \E active \in BOOLEAN :
       /\ cache' = [cache EXCEPT !.present = TRUE, !.spec = cache.created + 1,
                                 !.created = cache.created + 1, !.active = active]
       /\ IF active THEN distributeJob("update") ELSE UNCHANGED serializer
  /\ UNCHANGED <<cluster, exiting, objects, docs, reports, failures, restream>>

(* remoteClusterChangeHandlerCallback                                      *)
DeleteCluster ==
  /\ Change /\ cluster
  /\ cluster' = FALSE
  /\ IF cache.spec # None /\ cache.derived # None
     THEN distributeJob("delete") ELSE UNCHANGED serializer
  /\ UNCHANGED <<cache, exiting, objects, docs, reports, failures, restream>>


(* OnExit: the serializer is stopped and its goroutines waited for          *)
StopSerializer ==
  \/ /\ Change /\ exit = "no"
     /\ exit' = "serializer"
     /\ stopped' = TRUE
     /\ UNCHANGED <<awaited, cache, cluster, queue, mapped, handlers, refused, objects, docs, reports,
                    failures, restream>>
  \/ /\ exit = "serializer"
     /\ \A h \in Handlers : handlers[h].pc = "none"
     /\ exit' = "updaters"
     /\ UNCHANGED <<awaited, cache, cluster, serializer, objects, docs, bounds>>

(* ReplicationStatusMap leaves out the status of a deleted spec            *)
StopAllUpdaters ==
  LET u == status[cache.derived].updater
      Mapped == cache.spec # None /\ cache.derived # None
  IN  /\ exit = "updaters"
      /\ \/ /\ ~Mapped
            /\ exit' = "done"
            /\ UNCHANGED <<updater, awaited>>
         \/ /\ Mapped /\ ~updater[u].stop
            /\ updater' = [updater EXCEPT ![u].stop = TRUE]
            /\ exit' = "wait" /\ awaited' = u
         \/ /\ Mapped /\ updater[u].stop
            /\ exit' = "done"
            /\ UNCHANGED <<updater, awaited>>
      /\ UNCHANGED <<cache, cluster, serializer, status, pipeline, docs, bounds>>

UpdatersStopped ==
  /\ exit = "wait" /\ updater[awaited].pc = "done"
  /\ exit' = "done" /\ awaited' = None
  /\ UNCHANGED <<cache, cluster, serializer, objects, docs, bounds>>

-----------------------------------------------------------------------------
Handle(h) == TakeJob(h) \/ cleanupJob(h) \/ InitJob(h) \/ UpdateJob(h) \/ DeleteJob(h)
             \/ Deleted(h) \/ ReInitJob(h) \/ Relaunch(h)

Run(u) == TakeFin(u) \/ TakeNow(u) \/ TakeErr(u) \/ PutOffErr(u) \/ Cleanup(u)
          \/ DropStatus(u) \/ EraseEntry(u) \/ CheckActiveness(u) \/ ConstructPipeline(u)
          \/ SetPipeline(u) \/ StartPipeline(u) \/ EndUpdate(u)

Environment == PauseOrResume \/ ChangeFilter \/ ChangeSettings \/ DeleteSpec \/ CreateSpec
               \/ DeleteCluster

Next == \/ \E h \in Handlers : Handle(h)
        \/ \E u \in Updaters : Run(u) \/ FireTimer(u)
        \/ \E p \in Pipelines : FailPipeline(p)
        \/ OnError
        \/ Environment
        \/ StopSerializer \/ StopAllUpdaters \/ UpdatersStopped

Spec == Init /\ [][Next]_vars

(* goroutines that can take a step take one, and timers fire; failures and  *)
(* changes may happen or not.  The updater's select chooses at random among *)
(* the channels that are ready, so a closed fin_ch is not passed over      *)
(* for ever by an updater that keeps retrying.                             *)
Fairness ==
  /\ \A h \in Handlers : WF_vars(Handle(h))
  /\ \A u \in Updaters : WF_vars(Run(u) \/ FireTimer(u)) /\ SF_vars(TakeFin(u))
  /\ WF_vars(OnError)

FairSpec == Spec /\ Fairness

-----------------------------------------------------------------------------
(***************************************************************************)
(* Properties.                                                             *)
(***************************************************************************)

(* Jobs of a topic run one after the other: at no time do two goroutines of *)
(* the serializer work on the topic, although handleJobs gives up the      *)
(* channel before cleanupJob takes it out of the map, and distributeJob    *)
(* may come in between.                                                    *)
SerialJobs == Cardinality({h \in Handlers : handlers[h].pc # "none"}) <= 1

(* A job that distributeJob accepted is handled, unless the serializer is   *)
(* stopped: cleanupJob does not overlook one that came in after handleJobs *)
(* found the channel empty.                                                *)
JobsHandled == queue # <<>> ~> (queue = <<>> \/ stopped)


Wanted == cache.spec = 1 /\ cache.active /\ cluster /\ exit = "no" /\ ~refused
Unwanted == cache.created = 1 /\ exit = "no" /\ ~refused /\ (cache.spec = None \/ ~cache.active)




(* StopPipeline cleans up when the spec was deleted and re-created, so that *)
(* a re-created, active replication replicates in the end.                 *)
RecreatedConverges ==
  <>[](cache.spec = 2 /\ cache.active /\ cluster /\ exit = "no" /\ ~refused)
    => <>[](cache.derived # None /\ Replicating(cache.derived))
=============================================================================
